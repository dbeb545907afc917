--------------------------- MODULE MCConversions ---------------------------
(* Inputs of the conversions for TLC. *)
EXTENDS Conversions, FiniteSetsExt, TLC

----------------------------------------------------------------------------
(* Outbounds: the fields that a projection decides by, present and absent. *)

Flags == {"tls", "skip_cert_verify", "udp", "reduce_rtt"}
Networks == {"tcp", "ws", "websocket", "h2", "http", "http2", "grpc", "quic"}

ValuesOf(field) ==
  CASE field \in Flags -> BOOLEAN
    [] field = "network" -> Networks
    [] field = "ws_opts" -> {<<>>, [path |-> "path", headers |-> "headers"]}
    [] field = "h2_opts" -> {[host |-> "host", path |-> "path"]}
    [] field = "grpc_opts" -> {<<>>}
    [] field = "reality_opts" -> {[public_key |-> "public_key", short_id |-> "short_id"]}
    [] field \in {"up", "down"} -> {999999, 20000000}
    [] OTHER -> {field}

Extended(outbounds, field) ==
  {o @@ (field :> value) : o \in outbounds, value \in ValuesOf(field)}

OutboundsOf(variant, deciding) ==
  LET given == variant.required \ deciding
      base == [f \in given \cup {"kind"} |-> IF f = "kind" THEN variant.kind
                                             ELSE IF f \in Flags THEN TRUE ELSE f]
      With(field, outbounds) ==
        Extended(outbounds, field)
        \cup (IF field \in variant.required THEN {} ELSE outbounds)
  IN FoldSet(With, {base}, deciding)

MCOutbounds ==
  OutboundsOf(Proxy!OutboundDirect, {}) \cup OutboundsOf(Proxy!OutboundReject, {})
  \cup OutboundsOf(Proxy!OutboundShadowsocks, {"udp", "plugin"})
  \cup OutboundsOf(Proxy!OutboundSocks5, {"udp", "tls", "username", "password"})
  \cup OutboundsOf(Proxy!OutboundTrojan,
                   {"skip_cert_verify", "sni", "alpn", "network", "ws_opts", "grpc_opts"})
  \cup OutboundsOf(Proxy!OutboundVmess,
                   {"tls", "skip_cert_verify", "server_name", "cipher", "network", "ws_opts",
                    "h2_opts", "grpc_opts"})
  \cup OutboundsOf(Proxy!OutboundVless,
                   {"tls", "skip_cert_verify", "server_name", "network", "ws_opts", "h2_opts",
                    "grpc_opts", "reality_opts", "client_fingerprint"})
  \cup OutboundsOf(Proxy!OutboundWireguard, {"ipv6", "pre_shared_key", "mtu"})
  \cup OutboundsOf(Proxy!OutboundTuic, {"skip_cert_verify", "sni", "reduce_rtt", "alpn"})
  \cup OutboundsOf(Proxy!OutboundHysteria2,
                   {"skip_cert_verify", "sni", "obfs", "obfs_password", "up", "ports"})

----------------------------------------------------------------------------
(* Configurations.                                                         *)

Envs == {<<>>, [log_level |-> "env", tray |-> "0"], [tray |-> "yes", auto_connect |-> ""],
         [plugins_dir |-> "env", auto_connect |-> "False"],
         [home |-> Loader!NotUnicode, log_level |-> "env"]}

SomeFiles == {Loader!Missing, Loader!Broken("yaml"), Loader!File("toml", <<>>),
              Loader!File("yaml", [log_level |-> "file", tray |-> FALSE]),
              Loader!File("json", [plugins_dir |-> "file", auto_connect |-> TRUE])}

MCSources ==
  [env : Envs, userDir : BOOLEAN, system : BOOLEAN,
   files : {[p \in {"user.yaml", "user.json", "etc.yaml", "etc.json"} |->
               IF p = "user.json" THEN a ELSE IF p = "etc.yaml" THEN b ELSE Loader!Missing] :
            a \in SomeFiles, b \in SomeFiles}]

----------------------------------------------------------------------------
(* The control API.                                                        *)

MCResponses ==
  {Clash!Response(e, h, s, f, b) : e \in Clash!Endings, h \in BOOLEAN, s \in {0, 204, 200, 404},
                                   f \in Clash!Framings, b \in Clash!Bodies}

Listed(name, object, type) ==
  [name |-> name, object |-> object, type |-> type, now |-> "a", all |-> <<"a", "number">>]

MCListings ==
  {<<>>, <<Listed("x", TRUE, "Selector"), Listed("y", FALSE, "Selector"), Listed("z", TRUE, "Direct")>>}

MCStreams == UNION {[1..n -> Clash!Frames] : n \in 0..3}

MCControllers == [colon : BOOLEAN, port : {-1, 0, 65535, 65536}]

----------------------------------------------------------------------------
(* Retry policies: every initial delay and cap, up to the longest duration *)
(* and a multiplier of three bits.                                         *)

MCShiftWidth == 3
MCDurationMax == 20
MCAttempts == 0..8
MCRetries == {Exponential(n, d, m) : n \in {0, 2}, d \in 0..20, m \in {0, 1, 5, 19, 20}}

MCMessages == SUBSET {"dns", "timed out", "http"}

MCRuns ==
  UNION {[1..n -> {Processor(p, b) : p \in {"dns"}, b \in {"passthrough", "rewrites", "fails"}}
                  \cup {Processor("tun", "rewrites")}] : n \in 0..3}

----------------------------------------------------------------------------
(* Components.                                                             *)

MCIdentifiers == {"a", "b"}
MCImportPaths == {"wasi:io/streams"}
MCPackages == {"a:b"}

SomeResults == {{}, {Wit!Result("string", Wit!Absent)}, {Wit!Result(Wit!Absent, "a")},
                {Wit!Result("a", "string")}, {Wit!Result(Wit!Absent, Wit!Absent)}}

SomeInterfaces ==
  {Wit!Interface(n, x, r, f) :
     n \in {"a", "b", "9"}, x \in {Wit!Absent, "wasi:io/streams", "b"},
     r \in {<<>>, <<Wit!Record("a", <<Wit!Field("a", "bool")>>)>>,
            <<Wit!Record("a", <<>>), Wit!Record("a", <<>>)>>},
     f \in {<<>>} \cup {<<Wit!Function("b", <<Wit!Field("a", "u8")>>, result)>> : result \in SomeResults}}

Simple == {Wit!Interface(n, x, <<>>, <<>>) : n \in {"a", "b"}, x \in {Wit!Absent, "wasi:io/streams"}}

MCComponents ==
  {Wit!Component("a:b", "a", <<i>>, <<>>) : i \in SomeInterfaces}
  \cup {Wit!Component(p, w, is, es) :
          p \in {"a:b", "ab"}, w \in {"a", "9"},
          is \in UNION {[1..n -> Simple] : n \in 0..2}, es \in UNION {[1..n -> Simple] : n \in 0..2}}

=============================================================================
