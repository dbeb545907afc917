---------------------------- MODULE Conversions ----------------------------
(***************************************************************************)
(* The parts of the program that keep no state, put together: each step is *)
(* one call of one of their functions with one of the given inputs, and    *)
(* the properties compare what went in with what came out.                 *)
(***************************************************************************)
EXTENDS Integers, Sequences, FiniteSets, Collections, ConfigPipeline

CONSTANTS
  Identifiers, ImportPaths, Packages,   \* of WitContract
  Outbounds,      \* proxy outbounds
  Sources,        \* environments, files and search paths of a configuration
  Responses,      \* answers of the control API
  Listings,       \* what the control API lists as proxies
  Streams,        \* sequences of WebSocket frames
  Controllers,    \* addresses of the control API
  Retries,        \* exponential retry policies
  Attempts,       \* numbers of attempts
  Messages,       \* messages of errors
  Runs,           \* sequences of configuration processors
  Components      \* component descriptors

Proxy == INSTANCE ProxyProjection
Loader == INSTANCE ConfigLoader
Clash == INSTANCE ClashApi
Wit == INSTANCE WitContract

\* A list, whatever is in it.
IsList(list) == list \in Seq({list[i] : i \in DOMAIN list})

\* The inputs are what the types of the code allow: outbounds with the fields of
\* their kind, durations and counts, lists, the answers and the frames the client
\* can tell apart.
ASSUME InputsAssumption ==
  /\ \A o \in Outbounds : Proxy!IsOutbound(o)
  /\ Responses \subseteq [ends : Clash!Endings, head : BOOLEAN, status : Int,
                          framing : Clash!Framings, body : Clash!Bodies]
  /\ \A proxies \in Listings : IsList(proxies)
  /\ Streams \subseteq Seq(Clash!Frames)
  /\ Attempts \subseteq Nat
  /\ Retries \subseteq [kind : {"exponential"}, max_attempts : Nat,
                        initial_delay : 0 .. DurationMax, max_delay : 0 .. DurationMax]
  /\ \A processors \in Runs : IsList(processors)
  /\ \A component \in Components : IsList(component.imports) /\ IsList(component.exports)

VARIABLES
  request,    \* the call under way, if any: its name and its inputs
  answer      \* what it returned

cvars == <<request, answer>>

Idle == [op |-> "idle"]

CInit == request = Idle /\ answer = Idle

\* A caller calls the function `op'.
Calls(op, input, output) ==
  /\ request.op = "idle"
  /\ request' = [op |-> op, input |-> input]
  /\ answer' = output

\* The two JSON projections of an outbound.
Project ==
  \E o \in Outbounds :
    Calls("project", o, [singbox |-> Proxy!ToSingBoxJson(o), xray |-> Proxy!ToXrayJson(o)])

\* ConfigLoader::load_env, load_file and load_env_only.
LoadEnv ==
  \E s \in Sources :
    LET paths == Loader!SearchPaths(s.userDir, s.system)
    IN Calls("load_env", [env |-> s.env, paths |-> paths, files |-> s.files],
             Loader!LoadEnv(s.env, paths, s.files))
LoadFile ==
  \E s \in Sources : \E path \in DOMAIN s.files :
    Calls("load_file", [env |-> s.env, file |-> s.files[path]],
          Loader!LoadFile(s.env, s.files[path]))
LoadEnvOnly ==
  \E s \in Sources : Calls("load_env_only", [env |-> s.env], Loader!LoadEnvOnly(s.env))

\* The client of the control API.
Connect ==
  \E c \in Controllers : Calls("new", c, Clash!ParseController(c))
Ask ==
  \E operation \in Clash!Operations, response \in Responses :
    Calls("ask", [operation |-> operation, response |-> response],
          Clash!Call(operation, response))
List ==
  \E response \in Responses, proxies \in Listings :
    Calls("list", [response |-> response, proxies |-> proxies],
          Clash!GetProxySelectors(response, proxies))
Receive ==
  \E frames \in Streams : Calls("recv", frames, Clash!Recv(frames))

\* Retry policies, errors of attempts, processors.
Delay ==
  \E policy \in Retries \cup {NoRetry, Fixed(0, 3)}, attempt \in Attempts :
    Calls("delay_for", [policy |-> policy, attempt |-> attempt],
          [delay |-> DelayFor(policy, attempt), max |-> MaxAttempts(policy)])
Classify ==
  \E variant \in DOMAIN ByVariant \cup {"ProcessStartFailed", "Unknown"},
     message \in Messages :
    Calls("classify_error", [variant |-> variant, message |-> message],
          [kind |-> ClassifyError(variant, message)])
RunProcessors ==
  \E processors \in Runs : Calls("process", processors, ProcessWith(processors, <<>>))

\* The WIT world of a component.
Render ==
  \E component \in Components : Calls("render", component, Wit!RenderWitWorld(component))

Return == request.op # "idle" /\ request' = Idle /\ answer' = Idle

CNext ==
  \/ Project \/ LoadEnv \/ LoadFile \/ LoadEnvOnly
  \/ Connect \/ Ask \/ List \/ Receive
  \/ Delay \/ Classify \/ RunProcessors
  \/ Render
  \/ Return

CSpec == CInit /\ [][CNext]_cvars

----------------------------------------------------------------------------
(* Properties *)

\* project.rs: an outbound configures sing-box and Xray alike: server, credentials,
\* transport and its settings, protection.  The network is only promised to an
\* outbound that gives the options of the network it names, and the protection to
\* one whose reality options come with tls; what the two get otherwise is stated.
ProjectionsAgree ==
  request.op = "project" => Proxy!CoresAgree(request.input, answer.singbox, answer.xray)

\* project.rs: which outbounds are protected by which core, exactly: sing-box drops
\* the tls of socks5 and reality without tls, and nothing else; Xray drops neither
\* of what it supports; and no certificate goes unchecked unasked.
ProjectionsAreNoWeaker ==
  request.op = "project" => Proxy!NoWeaker(request.input, answer.singbox, answer.xray)

Cascaded(env, file) ==
  /\ answer.ok <=> file.format \in Loader!Formats /\ file.parses /\ Loader!Readable(env)
  /\ answer.ok => Loader!Cascade(env, file.values, answer.config)

\* shared/config: environment over file over defaults, field by field; one file,
\* the first that exists, decides, and if it is broken nothing else is tried.  A
\* variable of any name that cannot be read stops every loading.
CascadeHolds ==
  /\ request.op = "load_env" =>
       LET paths == request.input.paths
           files == request.input.files
       IN /\ \A i \in DOMAIN paths :
               Loader!FoundFirst(paths, files, i) => Cascaded(request.input.env, files[paths[i]])
          /\ (\A i \in DOMAIN paths : ~files[paths[i]].exists)
               => /\ answer.ok <=> Loader!Readable(request.input.env)
                  /\ answer.ok => Loader!Cascade(request.input.env, <<>>, answer.config)
  /\ request.op = "load_file" /\ request.input.file.exists
       => Cascaded(request.input.env, request.input.file)

\* A response that came to its end with a good status.
Complete(response) ==
  response.ends = "closed" /\ response.head /\ response.status \in 200..299

\* shared/clash-api: whoever asks for something and is told Ok has got a whole
\* JSON object or array that the peer sent with a good status before it closed the
\* connection, never a part of one, the text of an error or an empty body: the
\* values that were asked for, or the defaults if it has none of them.  Whoever sets
\* something and is told Ok, a good status.  A message of a subscription is the
\* first one that came, each ping before it was answered, and nothing behind it was
\* read.
AnswersAreWhole ==
  /\ request.op = "ask" /\ answer.ok =>
       /\ Complete(request.input.response)
       /\ request.input.operation \in Clash!Getters =>
            /\ request.input.response.framing = "length"
            /\ \/ answer.value = "wanted" /\ request.input.response.body \in {"wanted", "listed"}
               \/ answer.value = "default" /\ request.input.response.body \in {"object", "nothing"}
  /\ request.op = "list" /\ answer.ok =>
       /\ Complete(request.input.response)
       /\ request.input.response.body \in {"wanted", "listed"}
       /\ Len(answer.value) = Cardinality({i \in DOMAIN request.input.proxies :
                                             Clash!IsSelector(request.input.proxies[i])})
  /\ request.op = "recv" =>
       /\ answer.results = {} <=> ~\E i \in DOMAIN request.input : Clash!Decides(request.input[i])
       /\ answer.pongs = Cardinality({i \in 1 .. answer.read : request.input[i] = "ping"})
       /\ (\E result \in answer.results : result.ok) =>
            /\ request.input[answer.read] = "data"
            /\ \A i \in 1 .. answer.read - 1 : request.input[i] \in {"ping", "pong"}

\* config/pipeline: from one attempt to the next, whatever its number, a delay never
\* shrinks and never exceeds the cap, and for as many attempts as the shift has bits
\* it doubles or is the cap.  Every policy allows an attempt.
DelaysBackOff ==
  request.op = "delay_for" =>
    /\ answer.max >= 1
    /\ request.input.policy.kind = "exponential" =>
         /\ answer.delay = 0 \/ request.input.attempt > 1
         /\ Backoff(request.input.policy, request.input.attempt)

\* config/pipeline: the steps reported are the processors that succeeded, in
\* order and chained by their configurations, up to the first that failed, which
\* is the one the error names.
StepsTellTheRun ==
  request.op = "process" =>
    LET processors == request.input
        done == Len(answer.steps)
    IN /\ Chained(answer.steps, <<>>)
       /\ \A i \in 1 .. done : /\ answer.steps[i].processor_name = processors[i].name
                               /\ processors[i].behaviour # "fails"
       /\ IF answer.ok
          THEN /\ done = Len(processors)
               /\ done > 0 => answer.config = answer.steps[done].output
          ELSE /\ processors[done + 1].behaviour = "fails"
               /\ answer.error = <<processors[done + 1].name>>

\* contract.rs: every interface that the world rendered for a component exports is
\* defined there, every one that it imports is, or is a path, and no interface is
\* defined twice, unless an import and an export of the component have its name.
\* The types that the interfaces name are not looked at.
InterfacesAreDefined ==
  request.op = "render" /\ answer.ok => Wit!InterfacesDefined(answer) /\ Wit!DefinedOnce(answer)

----------------------------------------------------------------------------
(* What the documentation says and the code does not do *)

\* project.rs: its table gives each core the network of the outbound.
NetworkIsProjected ==
  request.op = "project" /\ request.input.kind \in Proxy!TransportKinds
    => \/ answer.xray.streamSettings.network \notin {"ws", "grpc", "http"}
       \/ "transport" \in DOMAIN answer.singbox

\* project.rs: "Projections cover the common path: protocol + tls + ...".
TlsIsProjected ==
  request.op = "project" /\ Proxy!DemandsTls(request.input)
    => Proxy!SingboxSecurity(answer.singbox) # "none"

\* lib.rs of shared/config: "explicit file path > env vars > default search paths".
ExplicitFileWins ==
  request.op = "load_file" /\ answer.ok =>
    \A f \in DOMAIN request.input.file.values : answer.config[f] = request.input.file.values[f]

\* A rendered world is one the WIT grammar accepts: no interface is defined twice ...
WorldIsWellFormed ==
  request.op = "render" /\ answer.ok =>
    Cardinality(Wit!DefinedNames(answer)) = Len(answer.interfaces)

\* ... none is imported twice ...
ImportsAreApart ==
  request.op = "render" /\ answer.ok =>
    \A i, j \in DOMAIN answer.imports : answer.imports[i] = answer.imports[j] => i = j

\* ... and the types that an interface names are there.
TypesAreDefined ==
  request.op = "render" /\ answer.ok =>
    \A i \in DOMAIN answer.interfaces :
       Wit!TypesIn(answer.interfaces[i]) \subseteq Wit!TypesOf(answer.interfaces[i])

=============================================================================
