------------------------------- MODULE Config -------------------------------
(***************************************************************************)
(* What config.Validate accepts, and what runServe makes of it.            *)
(*                                                                         *)
(* A string of the configuration is a record of what its readers find in   *)
(* it.  Addresses: form is "empty", "malformed" (no host:port) or          *)
(* "hostport"; host is "" for all interfaces; port is a number, NotANumber *)
(* if it is not one.  URLs: form is "empty", "malformed" or "url"; host is *)
(* "none", "port" (a port alone), "ip" or "name".  Durations are in        *)
(* seconds.                                                                *)
(***************************************************************************)
EXTENDS Integers, Sequences

NotANumber == -1

\* A zero port asks the system for a free one.
validateBind(addr) == addr.form = "hostport" /\ addr.port \in 0 .. 65535

validateUDPUpstream(u) ==
  /\ u.addr.form = "hostport"
  /\ u.url.form = "empty" /\ u.endpointIPs = << >>

\* Variant: the host is not looked at.
validateDoHUpstreamAnyHost(u) ==
  /\ u.url.form = "url" /\ u.url.scheme = "https"
  /\ u.addr.form = "empty"
  /\ u.endpointIPs # << >>
  /\ \A i \in DOMAIN u.endpointIPs : u.endpointIPs[i] # "junk"

\* An endpoint is an IP address or "junk".
validateDoHUpstream(u) ==
  /\ u.url.form = "url" /\ u.url.scheme = "https" /\ u.url.host = "name"
  /\ u.addr.form = "empty"
  /\ u.endpointIPs # << >>
  /\ \A i \in DOMAIN u.endpointIPs : u.endpointIPs[i] # "junk"

UDPTypes == {"", "udp"}

validateUpstream(u) ==
  /\ u.timeout > 0
  /\ \/ u.type \in UDPTypes /\ validateUDPUpstream(u)
     \/ u.type = "doh" /\ validateDoHUpstream(u)

\* A source has a name, a type, a path ("" when unset) and a URL.
validateSource(s) ==
  /\ s.name # ""
  /\ \/ s.type = "file" /\ s.path # ""
     \/ s.type = "http" /\ s.url.form = "url" /\ s.url.scheme \in {"http", "https"}

UniqueNames(sources) ==
  \A i, j \in DOMAIN sources : sources[i].name = sources[j].name => i = j

HasHTTP(sources) == \E i \in DOMAIN sources : sources[i].type = "http"

\* Validate counts the addresses to bootstrap from; runServe collects them below.
Bootstraps(u) ==
  \/ u.type \in UDPTypes /\ u.addr.form # "empty"
  \/ u.type = "doh" /\ u.endpointIPs # << >>

Minute == 60

\* An interval that is not positive disables the refresh, a negative one too.
validateInterval(d) == d > 0 => d >= Minute

Validate(c) ==
  /\ validateBind(c.udp) /\ validateBind(c.tcp) /\ validateBind(c.admin)
  /\ c.queryTimeout > 0
  /\ c.upstreams # << >>
  /\ \A i \in DOMAIN c.upstreams : validateUpstream(c.upstreams[i])
  /\ c.capacity > 0 /\ c.maxTTL > 0 /\ c.negativeTTLMax > 0
  /\ c.level \in {"debug", "info", "warn", "error"} /\ c.format \in {"json", "text"}
  /\ c.shutdownTimeout > 0 /\ c.startupProbeTimeout > 0
  /\ validateInterval(c.refreshInterval)
  /\ \A i \in DOMAIN c.sources : validateSource(c.sources[i])
  /\ UniqueNames(c.sources)
  /\ HasHTTP(c.sources) => \E i \in DOMAIN c.upstreams : Bootstraps(c.upstreams[i])

-----------------------------------------------------------------------------

\* The addresses that the bootstrap resolver of the fetcher dials: the upstreams
\* themselves, and the endpoints of DoH on port 53.
DialAddr(ip) == [form |-> "hostport", host |-> ip, port |-> 53]

DialAddrs(u) ==
  CASE u.type \in UDPTypes -> IF u.addr.form = "empty" THEN {} ELSE {u.addr}
    [] u.type = "doh"      -> {DialAddr(u.endpointIPs[i]) : i \in DOMAIN u.endpointIPs}
    [] OTHER               -> {}

upstreamDialAddrs(ups) == UNION {DialAddrs(ups[i]) : i \in DOMAIN ups}

\* runServe knows the type of a source.
SourceSupported(s) == s.type \in {"file", "http"}

\* upstream.New, and NewDoHClient, which wants a URL with a host.
NewUpstream(u) ==
  \/ u.type \in UDPTypes
  \/ u.type = "doh" /\ u.url.form = "url" /\ u.url.host # "none"

\* Two TCP servers cannot have both addresses.
Clash(a, b) ==
  a.port = b.port /\ a.port # 0 /\ (a.host = b.host \/ "" \in {a.host, b.host})

=============================================================================
