------------------------------ MODULE ClashApi ------------------------------
(***************************************************************************)
(* The client of a core's control API: shared/clash-api.  Each call opens  *)
(* a connection of its own, reads until the peer closes it, and takes the  *)
(* answer apart by hand; a subscription reads JSON messages from a         *)
(* WebSocket.                                                              *)
(*                                                                         *)
(* What comes over the wire is modelled by what the client can tell of it. *)
(***************************************************************************)
EXTENDS Integers, Sequences, Collections

\* The answer of the peer: how the connection ends, whether the head is there,
\* the status in it (0 if it is not a number), the framing of the body, and the
\* text of the body: complete, cut or empty, and of which shape.
Response(ends, head, status, framing, body) ==
  [ends |-> ends, head |-> head, status |-> status, framing |-> framing, body |-> body]

Endings == {"closed", "timeout", "reset"}
Framings == {"length", "chunked"}

\* A body is JSON: an object with what is asked for, an array of the same values in
\* the order of the fields, another object, an array of nothing, or something else.
\* An object or array that was cut is not JSON; before its first byte it is empty.
Bodies == {"wanted", "listed", "object", "nothing", "other", "cut", "empty"}

Ok(value) == [ok |-> TRUE, value |-> value]
Error(kind) == [ok |-> FALSE, kind |-> kind]

----------------------------------------------------------------------------

\* serde_json::from_str of what is behind the head: a chunked body begins with
\* the length of its first chunk, and that of an empty one is all there is.
ParseBody(response) ==
  IF response.framing = "chunked"
  THEN IF response.body = "empty" THEN Ok("other") ELSE Error("Json")
  ELSE CASE response.body = "empty" -> Ok("null")
         [] response.body = "cut" -> Error("Json")
         [] OTHER -> Ok(response.body)

\* A slip: the status is not looked at.
HttpRequestTrusting(response) ==
  IF response.ends # "closed" THEN Error("Io")
  ELSE IF ~response.head THEN Error("Protocol")
  ELSE ParseBody(response)

HttpRequest(response) ==
  IF response.ends # "closed" THEN Error("Io")
  ELSE IF ~response.head THEN Error("Protocol")
  ELSE IF response.status \notin 200..299 THEN Error("HttpStatus")
  ELSE ParseBody(response)

\* serde_json::from_value for a struct, which it reads from an object by the names
\* of the fields and from an array by their places; `lenient' if every field has a
\* default.
FromValue(answer, lenient) ==
  IF ~answer.ok THEN answer
  ELSE IF answer.value \in {"wanted", "listed"} THEN Ok("wanted")
  ELSE IF answer.value \in {"object", "nothing"} /\ lenient THEN Ok("default")
  ELSE Error("Json")

GetVersion(response) == FromValue(HttpRequest(response), FALSE)
GetConnections(response) == FromValue(HttpRequest(response), TRUE)
GetActiveProxy(response) == FromValue(HttpRequest(response), TRUE)

\* Any answer with a good status will do.
SetActiveProxy(response) ==
  LET answer == HttpRequest(response)
  IN IF answer.ok THEN Ok("unit") ELSE answer

\* Of the proxies of the answer, those that are selectors; each with the members
\* and the choice that are texts.
IsSelector(proxy) == proxy.object /\ proxy.type \in {"Selector", "selector"}

Selector(proxy) ==
  [name |-> proxy.name, now |-> proxy.now, all |-> Picked(proxy.all, {i \in DOMAIN proxy.all : proxy.all[i] # "number"})]

GetProxySelectors(response, proxies) ==
  LET answer == FromValue(HttpRequest(response), FALSE)
  IN IF ~answer.ok THEN answer
     ELSE LET selectors == Picked(proxies, {i \in DOMAIN proxies : IsSelector(proxies[i])})
          IN Ok([i \in DOMAIN selectors |-> Selector(selectors[i])])

Call(operation, response) ==
  CASE operation = "get_version" -> GetVersion(response)
    [] operation = "get_connections" -> GetConnections(response)
    [] operation = "get_active_proxy" -> GetActiveProxy(response)
    [] operation = "set_active_proxy" -> SetActiveProxy(response)

Getters == {"get_version", "get_connections", "get_active_proxy"}
Operations == Getters \cup {"set_active_proxy"}

----------------------------------------------------------------------------
(* JsonWebSocketStream::recv.  A frame is a message of data, whole or not  *)
(* JSON, or a control frame; `unanswerable' is a ping whose pong cannot be *)
(* sent, `lost' the end of the connection.                                 *)

Frames == {"data", "garbage", "ping", "unanswerable", "pong", "close", "lost"}

\* recv reads up to the first frame that gives a result.
Decides(frame) == frame \in {"data", "garbage", "unanswerable", "close", "lost"}

RecvResult(frame) ==
  CASE frame = "data" -> Ok("wanted")
    [] frame = "garbage" -> Error("Json")
    [] frame = "close" -> Error("Protocol")
    [] frame \in {"lost", "unanswerable"} -> Error("WebSocket")

\* The first frame that decides, or one past the end.
Deciding(frames) ==
  CHOOSE n \in 1 .. Len(frames) + 1 :
    /\ n <= Len(frames) => Decides(frames[n])
    /\ \A i \in 1 .. n - 1 : ~Decides(frames[i])

\* What one call has read, how many pings it has answered, and its result, if a
\* frame has decided.
Recv(frames) ==
  LET n == Deciding(frames)
      read == SubSeq(frames, 1, n - 1)
  IN [read |-> IF n <= Len(frames) THEN n ELSE Len(frames),
      pongs |-> Len(Picked(read, {i \in DOMAIN read : read[i] = "ping"})),
      results |-> IF n <= Len(frames) THEN {RecvResult(frames[n])} ELSE {}]

----------------------------------------------------------------------------
(* ClashApiClient::new.                                                    *)

\* host:port, split at the last colon; a port that is not a number is -1.
ParseController(controller) ==
  IF controller.colon /\ controller.port \in 0 .. 2^16 - 1 THEN Ok(controller.port)
  ELSE Error("InvalidController")

=============================================================================
