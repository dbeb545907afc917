-------------------------- MODULE ProxyProjection --------------------------
(***************************************************************************)
(* The projections of a proxy outbound to the native JSON of a core:       *)
(* shared/proxy-dto.                                                       *)
(*                                                                         *)
(* An outbound and a JSON object are functions from the fields they have   *)
(* to their values; an Option that is None is a field that is not in the   *)
(* domain.  A value nobody looks into is the name of its field, so a       *)
(* projected value tells which field it was taken from.                    *)
(***************************************************************************)
EXTENDS Integers, Sequences, FiniteSets, Collections

----------------------------------------------------------------------------
(* The outbounds: the fields of each variant of ProxyOutbound.             *)

CommonOptions == [name |-> "name", server |-> "server", port |-> "port"]
CommonOptional == {"connect_via"}   \* no projection reads it

\* The fields every outbound of a kind has, and those that are optional.
Variant(kind, required, optional) ==
  [kind |-> kind, required |-> required, optional |-> optional]

OutboundDirect == Variant("direct", {"name"}, {})
OutboundReject == Variant("reject", {"name"}, {})
OutboundShadowsocks ==
  Variant("ss", DOMAIN CommonOptions \cup {"cipher", "password", "udp"}, {"plugin", "plugin_opts"} \cup CommonOptional)
OutboundSocks5 ==
  Variant("socks5", DOMAIN CommonOptions \cup {"tls", "skip_cert_verify", "udp"},
          {"username", "password", "sni"} \cup CommonOptional)
OutboundTrojan ==
  Variant("trojan", DOMAIN CommonOptions \cup {"password"},
          {"alpn", "sni", "skip_cert_verify", "udp", "network", "grpc_opts", "ws_opts"} \cup CommonOptional)
OutboundVmess ==
  Variant("vmess", DOMAIN CommonOptions \cup {"uuid", "alter_id"},
          {"cipher", "udp", "tls", "skip_cert_verify", "server_name", "network", "ws_opts",
           "h2_opts", "grpc_opts"} \cup CommonOptional)
OutboundVless ==
  Variant("vless", DOMAIN CommonOptions \cup {"uuid"},
          {"udp", "tls", "skip_cert_verify", "server_name", "network", "ws_opts", "h2_opts",
           "grpc_opts", "reality_opts", "flow", "client_fingerprint"} \cup CommonOptional)
OutboundWireguard ==
  Variant("wireguard", DOMAIN CommonOptions \cup {"private_key", "public_key", "ip"},
          {"pre_shared_key", "mtu", "udp", "ipv6", "remote_dns_resolve", "dns", "allowed_ips",
           "reserved_bits"} \cup CommonOptional)
OutboundTuic ==
  Variant("tuic", DOMAIN CommonOptions \cup {"uuid", "password"},
          {"ip", "heartbeat_interval", "alpn", "disable_sni", "reduce_rtt", "request_timeout",
           "udp_relay_mode", "congestion_controller", "max_udp_relay_packet_size", "fast_open",
           "skip_cert_verify", "max_open_stream", "sni"} \cup CommonOptional)
OutboundHysteria2 ==
  Variant("hysteria2", DOMAIN CommonOptions \cup {"password", "skip_cert_verify"},
          {"ports", "obfs", "obfs_password", "alpn", "up", "down", "sni", "ca", "ca_str",
           "fingerprint"})

Variants == {OutboundDirect, OutboundReject, OutboundShadowsocks, OutboundSocks5, OutboundTrojan,
             OutboundVmess, OutboundVless, OutboundWireguard, OutboundTuic, OutboundHysteria2}

\* The options of a transport: every one of them is optional.
WsOpt == {"path", "headers", "max_early_data", "early_data_header_name"}
H2Opt == {"host", "path"}
GrpcOpt == {"grpc_service_name"}
RealityOpt == {"public_key", "short_id"}

\* What the structs admit.
IsOutbound(o) ==
  /\ \E v \in Variants :
       /\ o.kind = v.kind /\ v.required \cup {"kind"} \subseteq DOMAIN o
       /\ DOMAIN o \subseteq v.required \cup v.optional \cup {"kind"}
  /\ "ws_opts" \in DOMAIN o => DOMAIN o.ws_opts \subseteq WsOpt
  /\ "h2_opts" \in DOMAIN o => DOMAIN o.h2_opts \subseteq H2Opt
  /\ "grpc_opts" \in DOMAIN o => DOMAIN o.grpc_opts \subseteq GrpcOpt
  /\ "reality_opts" \in DOMAIN o => DOMAIN o.reality_opts \subseteq RealityOpt

----------------------------------------------------------------------------
(* Helpers for optional fields.                                            *)

UnwrapOr(o, field, default) == IF field \in DOMAIN o THEN o[field] ELSE default

\* The object that has under each key of `table' the field of o it names, if o
\* has that field.
Rename(table, o) == [key \in {k \in DOMAIN table : table[k] \in DOMAIN o} |-> o[table[key]]]

When(condition, object) == IF condition THEN object ELSE <<>>

\* What json! writes for an Option that is None.
Null == "null"

Wants(o, flag) == UnwrapOr(o, flag, FALSE)

WebSocket(network) == network \in {"ws", "websocket"}
Http2(network) == network \in {"h2", "http", "http2"}

----------------------------------------------------------------------------
(* ToSingBoxJson.                                                          *)

SingboxEndpoint == [tag |-> "name", server |-> "server", server_port |-> "port"]

TlsBlock(sni, o) ==
  [enabled |-> TRUE]
  ++ Rename([server_name |-> sni, alpn |-> "alpn"], o)
  ++ When(Wants(o, "skip_cert_verify"), [insecure |-> TRUE])

\* A slip: the second name of the network is forgotten.
AttachTransportByName(o) ==
  LET network == UnwrapOr(o, "network", "none")
  IN When(network = "ws" /\ "ws_opts" \in DOMAIN o,
          [transport |-> [type |-> "ws"] ++ o.ws_opts])
     ++ When(network = "grpc" /\ "grpc_opts" \in DOMAIN o,
             [transport |-> [type |-> "grpc",
                             service_name |-> UnwrapOr(o.grpc_opts, "grpc_service_name", "")]])
     ++ When(Http2(network) /\ "h2_opts" \in DOMAIN o,
             [transport |-> [type |-> "http"] ++ o.h2_opts])

\* Nothing is attached for a network without its options, and trojan has none
\* for http.
AttachTransport(o) ==
  LET network == UnwrapOr(o, "network", "none")
  IN When(WebSocket(network) /\ "ws_opts" \in DOMAIN o,
          [transport |-> [type |-> "ws"] ++ o.ws_opts])
     ++ When(network = "grpc" /\ "grpc_opts" \in DOMAIN o,
             [transport |-> [type |-> "grpc",
                             service_name |-> UnwrapOr(o.grpc_opts, "grpc_service_name", "")]])
     ++ When(Http2(network) /\ "h2_opts" \in DOMAIN o,
             [transport |-> [type |-> "http"] ++ o.h2_opts])

DirectToSingbox(o) == [type |-> "direct"] ++ Rename([tag |-> "name"], o)
RejectToSingbox(o) == [type |-> "block"] ++ Rename([tag |-> "name"], o)

ShadowsocksToSingbox(o) ==
  [type |-> "shadowsocks", udp_over_tcp |-> ~o.udp]
  ++ Rename(SingboxEndpoint ++ [method |-> "cipher", password |-> "password"], o)

Socks5ToSingbox(o) ==
  [type |-> "socks", version |-> "5", udp_over_tcp |-> ~o.udp]
  ++ Rename(SingboxEndpoint, o)
  ++ [username |-> UnwrapOr(o, "username", Null), password |-> UnwrapOr(o, "password", Null)]

TrojanToSingbox(o) ==
  [type |-> "trojan", tls |-> TlsBlock("sni", o)]
  ++ Rename(SingboxEndpoint ++ [password |-> "password"], o)
  ++ AttachTransport(o)

VmessToSingbox(o) ==
  [type |-> "vmess", security |-> UnwrapOr(o, "cipher", "auto")]
  ++ Rename(SingboxEndpoint ++ [uuid |-> "uuid", alter_id |-> "alter_id"], o)
  ++ When(Wants(o, "tls"), [tls |-> TlsBlock("server_name", o)])
  ++ AttachTransport(o)

\* Reality and the fingerprint are parts of the tls block, which only tls = true
\* makes.
VlessTls(o) ==
  TlsBlock("server_name", o)
  ++ When("reality_opts" \in DOMAIN o,
          [reality |-> [enabled |-> TRUE] ++ o.reality_opts])
  ++ When("client_fingerprint" \in DOMAIN o,
          [utls |-> [enabled |-> TRUE, fingerprint |-> o.client_fingerprint]])

VlessToSingbox(o) ==
  [type |-> "vless"]
  ++ Rename(SingboxEndpoint ++ [uuid |-> "uuid", flow |-> "flow"], o)
  ++ When(Wants(o, "tls"), [tls |-> VlessTls(o)])
  ++ AttachTransport(o)

WireguardToSingbox(o) ==
  [type |-> "wireguard",
   local_address |-> <<[ip |-> o.ip, prefix |-> 32]>>
                     \o (IF "ipv6" \in DOMAIN o THEN <<[ip |-> o.ipv6, prefix |-> 128]>> ELSE <<>>)]
  ++ Rename(SingboxEndpoint ++ [private_key |-> "private_key", peer_public_key |-> "public_key",
                                pre_shared_key |-> "pre_shared_key", mtu |-> "mtu",
                                reserved |-> "reserved_bits"], o)

TuicToSingbox(o) ==
  [type |-> "tuic", tls |-> TlsBlock("sni", o)]
  ++ Rename(SingboxEndpoint ++ [uuid |-> "uuid", password |-> "password",
                                congestion_control |-> "congestion_controller",
                                udp_relay_mode |-> "udp_relay_mode"], o)
  ++ When(Wants(o, "reduce_rtt"), [zero_rtt_handshake |-> TRUE])

\* The rates are given in bits per second.
Megabit == 1000000

Hysteria2ToSingbox(o) ==
  [type |-> "hysteria2", tls |-> TlsBlock("sni", o)]
  ++ Rename(SingboxEndpoint ++ [password |-> "password", server_ports |-> "ports"], o)
  ++ When("obfs" \in DOMAIN o,
          [obfs |-> [type |-> "salamander", password |-> UnwrapOr(o, "obfs_password", "")]])
  ++ When("up" \in DOMAIN o, [up_mbps |-> o.up \div Megabit])
  ++ When("down" \in DOMAIN o, [down_mbps |-> o.down \div Megabit])

ToSingBoxJson(o) ==
  CASE o.kind = "direct" -> DirectToSingbox(o)
    [] o.kind = "reject" -> RejectToSingbox(o)
    [] o.kind = "ss" -> ShadowsocksToSingbox(o)
    [] o.kind = "socks5" -> Socks5ToSingbox(o)
    [] o.kind = "trojan" -> TrojanToSingbox(o)
    [] o.kind = "vmess" -> VmessToSingbox(o)
    [] o.kind = "vless" -> VlessToSingbox(o)
    [] o.kind = "wireguard" -> WireguardToSingbox(o)
    [] o.kind = "tuic" -> TuicToSingbox(o)
    [] o.kind = "hysteria2" -> Hysteria2ToSingbox(o)

----------------------------------------------------------------------------
(* ToXrayJson.  The one server, or user, of the arrays under "settings" is *)
(* an object of its own here.                                              *)

XrayServer == [address |-> "server", port |-> "port"]

XrayNetwork(network) ==
  IF WebSocket(network) THEN "ws" ELSE IF network \in {"http2", "h2"} THEN "http" ELSE network

XraySettings(network, o) ==
  When(network = "ws" /\ "ws_opts" \in DOMAIN o,
       [wsSettings |-> Rename([path |-> "path", headers |-> "headers"], o.ws_opts)])
  ++ When(network = "grpc" /\ "grpc_opts" \in DOMAIN o,
          [grpcSettings |->
             [serviceName |-> UnwrapOr(o.grpc_opts, "grpc_service_name", "")]])
  ++ When(network = "http" /\ "h2_opts" \in DOMAIN o, [httpSettings |-> o.h2_opts])

XrayStreamSettings(tls, sni, o) ==
  LET security == IF "reality_opts" \in DOMAIN o THEN "reality"
                  ELSE IF tls THEN "tls" ELSE "none"
      network == XrayNetwork(UnwrapOr(o, "network", "tcp"))
      Named == Rename([serverName |-> sni, fingerprint |-> "client_fingerprint"], o)
  IN [network |-> network, security |-> security]
     ++ When(security = "tls",
             [tlsSettings |-> Named ++ Rename([alpn |-> "alpn"], o)
                              ++ When(Wants(o, "skip_cert_verify"), [allowInsecure |-> TRUE])])
     ++ When(security = "reality",
             [realitySettings |->
                Named ++ Rename([publicKey |-> "public_key", shortId |-> "short_id"],
                                UnwrapOr(o, "reality_opts", <<>>))])
     ++ XraySettings(network, o)

Xray(o, protocol, settings) ==
  [tag |-> o.name, protocol |-> protocol, settings |-> settings]

DirectToXray(o) == Xray(o, "freedom", <<>>)
RejectToXray(o) == Xray(o, "blackhole", <<>>)

ShadowsocksToXray(o) ==
  Xray(o, "shadowsocks",
       Rename(XrayServer ++ [method |-> "cipher", password |-> "password"], o))

\* A slip: trojan asks for tls the way vmess does, although it has no such field.
TrojanToXrayPlain(o) ==
  Xray(o, "trojan", Rename(XrayServer ++ [password |-> "password"], o))
  ++ [streamSettings |-> XrayStreamSettings(Wants(o, "tls"), "sni", o)]

TrojanToXray(o) ==
  Xray(o, "trojan", Rename(XrayServer ++ [password |-> "password"], o))
  ++ [streamSettings |-> XrayStreamSettings(TRUE, "sni", o)]

VmessToXray(o) ==
  Xray(o, "vmess", Rename(XrayServer ++ [id |-> "uuid", alterId |-> "alter_id"], o)
                   ++ [security |-> UnwrapOr(o, "cipher", "auto")])
  ++ [streamSettings |-> XrayStreamSettings(Wants(o, "tls"), "server_name", o)]

VlessToXray(o) ==
  Xray(o, "vless", Rename(XrayServer ++ [id |-> "uuid"], o)
                   ++ [flow |-> UnwrapOr(o, "flow", ""), encryption |-> "none"])
  ++ [streamSettings |-> XrayStreamSettings(Wants(o, "tls"), "server_name", o)]

Unsupported(o) == [tag |-> o.name, protocol |-> "unsupported"]

ToXrayJson(o) ==
  CASE o.kind = "direct" -> DirectToXray(o)
    [] o.kind = "reject" -> RejectToXray(o)
    [] o.kind = "ss" -> ShadowsocksToXray(o)
    [] o.kind = "trojan" -> TrojanToXray(o)
    [] o.kind = "vmess" -> VmessToXray(o)
    [] o.kind = "vless" -> VlessToXray(o)
    [] OTHER -> Unsupported(o)
----------------------------------------------------------------------------
(* What the projections promise.                                           *)

\* The kinds both cores are given a transport for, and those sing-box only.
TransportKinds == {"trojan", "vmess", "vless"}
SingboxOnly == {"socks5", "wireguard", "tuic", "hysteria2"}

SingboxSecurity(json) ==
  IF "tls" \notin DOMAIN json THEN "none"
  ELSE IF "reality" \in DOMAIN json.tls THEN "reality" ELSE "tls"

XraySecurity(json) == json.streamSettings.security

\* Two objects agree on an option that each has under a name of its own.
SameOption(a, f, b, g) ==
  /\ f \in DOMAIN a <=> g \in DOMAIN b
  /\ f \in DOMAIN a => a[f] = b[g]

SameEndpoint(singbox, xray) ==
  /\ singbox.tag = xray.tag
  /\ singbox.server = xray.settings.address /\ singbox.server_port = xray.settings.port
  /\ SameOption(singbox, "uuid", xray.settings, "id")
  /\ SameOption(singbox, "password", xray.settings, "password")

SameSecurity(singbox, xray) ==
  LET security == XraySecurity(xray)
      stream == xray.streamSettings
  IN /\ SingboxSecurity(singbox) = security
     /\ security = "tls" =>
          /\ SameOption(singbox.tls, "server_name", stream.tlsSettings, "serverName")
          /\ SameOption(singbox.tls, "insecure", stream.tlsSettings, "allowInsecure")
          /\ SameOption(singbox.tls, "alpn", stream.tlsSettings, "alpn")
     /\ security = "reality" =>
          /\ SameOption(singbox.tls, "server_name", stream.realitySettings, "serverName")
          /\ SameOption(singbox.tls.reality, "public_key", stream.realitySettings, "publicKey")

\* The settings of the transport, whichever it is.
XrayTransport(stream) ==
  [t \in {k \in {"ws", "grpc", "http"} :
            [ws |-> "wsSettings", grpc |-> "grpcSettings", http |-> "httpSettings"][k]
              \in DOMAIN stream} |->
     stream[[ws |-> "wsSettings", grpc |-> "grpcSettings", http |-> "httpSettings"][t]]]

\* sing-box runs over TCP unless it is given a transport.
SingboxNetwork(json) == IF "transport" \in DOMAIN json THEN json.transport.type ELSE "tcp"

\* The outbound names no network but tcp, or gives the options of the one it names.
NetworkIsGiven(o) ==
  LET network == UnwrapOr(o, "network", "tcp")
  IN \/ network = "tcp"
     \/ WebSocket(network) /\ "ws_opts" \in DOMAIN o
     \/ network = "grpc" /\ "grpc_opts" \in DOMAIN o
     \/ Http2(network) /\ "h2_opts" \in DOMAIN o

RealityIsOverTls(o) == "reality_opts" \in DOMAIN o => Wants(o, "tls")

\* The settings of a transport, which both have or neither.
SameTransport(singbox, xray) ==
  LET settings == XrayTransport(xray.streamSettings)
  IN /\ "transport" \in DOMAIN singbox <=> DOMAIN settings # {}
     /\ "transport" \in DOMAIN singbox =>
          LET transport == singbox.transport
          IN /\ DOMAIN settings = {transport.type}
             /\ xray.streamSettings.network = transport.type
             /\ SameOption(transport, "path", settings[transport.type], "path")
             /\ SameOption(transport, "service_name", settings[transport.type], "serviceName")

\* Whoever configures both cores with one outbound gets the same server, the same
\* credentials and the same settings of the transport; the same network, if the
\* options of the network it names are given; and the same protection, if reality
\* options come with tls.  Otherwise sing-box is given plain TCP where Xray is
\* given the network, and no protection where Xray is given reality.
CoresAgree(o, singbox, xray) ==
  /\ o.kind = "ss" \/ o.kind \in TransportKinds => SameEndpoint(singbox, xray)
  /\ o.kind \in TransportKinds =>
       /\ SameTransport(singbox, xray)
       /\ IF NetworkIsGiven(o) THEN SingboxNetwork(singbox) = xray.streamSettings.network
                               ELSE SingboxNetwork(singbox) = "tcp"
       /\ IF RealityIsOverTls(o) THEN SameSecurity(singbox, xray)
                                 ELSE /\ SingboxSecurity(singbox) = "none"
                                      /\ XraySecurity(xray) = "reality"
  /\ xray.protocol = "unsupported" <=> o.kind \in SingboxOnly

DemandsTls(o) == o.kind \in {"trojan", "tuic", "hysteria2"} \/ Wants(o, "tls")

\* sing-box is given protection for each outbound that demands tls, but for socks5,
\* and for no other; Xray for each that demands tls or has reality options.  No
\* certificate goes unchecked unless the outbound says so.
NoWeaker(o, singbox, xray) ==
  /\ SingboxSecurity(singbox) # "none" <=> DemandsTls(o) /\ o.kind # "socks5"
  /\ o.kind \in TransportKinds =>
       (XraySecurity(xray) # "none" <=> DemandsTls(o) \/ "reality_opts" \in DOMAIN o)
  /\ (SingboxSecurity(singbox) # "none" /\ "insecure" \in DOMAIN singbox.tls)
       => Wants(o, "skip_cert_verify")
  /\ (o.kind \in TransportKinds /\ XraySecurity(xray) = "tls"
        /\ "allowInsecure" \in DOMAIN xray.streamSettings.tlsSettings)
       => Wants(o, "skip_cert_verify")

=============================================================================
