---------------------------- MODULE MCLifecycle ----------------------------
(***************************************************************************)
(* Configurations for TLC: the default one, and others that differ from it *)
(* in the fields that Validate or runServe look at.                        *)
(***************************************************************************)
EXTENDS Lifecycle

Addr(h, p) == [form |-> "hostport", host |-> h, port |-> p]

NoAddr == [form |-> "empty", host |-> "", port |-> NotANumber]

URL(scheme, h) == [form |-> "url", scheme |-> scheme, host |-> h]

NoURL == [form |-> "empty", scheme |-> "", host |-> "none"]

UDP(a) == [type |-> "udp", timeout |-> 2, addr |-> a, url |-> NoURL, endpointIPs |-> << >>]

DoH(h, ips) ==
  [type |-> "doh", timeout |-> 2, addr |-> NoAddr, url |-> URL("https", h), endpointIPs |-> ips]

File(n, p) == [name |-> n, type |-> "file", path |-> p, url |-> NoURL]

HTTP(n, scheme) == [name |-> n, type |-> "http", path |-> "", url |-> URL(scheme, "name")]

Default ==
  [udp |-> Addr("", 53), tcp |-> Addr("", 53), admin |-> Addr("", 9090),
   queryTimeout |-> 5, upstreams |-> <<UDP(Addr("ip1", 53))>>,
   capacity |-> 10000, maxTTL |-> 86400, negativeTTLMax |-> 900,
   level |-> "info", format |-> "json", shutdownTimeout |-> 5, startupProbeTimeout |-> 3,
   refreshInterval |-> 86400, sources |-> << >>]

\* Accepted.
Accepted ==
  {Default,
   [Default EXCEPT !.admin = Addr("lo", 53)],
   [Default EXCEPT !.upstreams = <<DoH("name", <<"ip1", "ip2">>)>>,
                   !.sources = <<HTTP("ads", "https"), File("own", "hosts")>>,
                   !.refreshInterval = 60, !.capacity = 1],
   [Default EXCEPT !.sources = <<File("own", "hosts")>>, !.refreshInterval = -1,
                   !.tcp = Addr("", 0), !.admin = Addr("", 0)]}

\* At fault in one field.
Faulty ==
  {[Default EXCEPT !.upstreams = us] :
     us \in {<< >>, <<UDP(NoAddr)>>, <<DoH("ip", <<"ip1">>)>>, <<DoH("none", <<"ip1">>)>>,
             <<DoH("port", <<"ip1">>)>>, <<DoH("name", << >>)>>, <<DoH("name", <<"junk">>)>>,
             <<[UDP(Addr("ip1", 53)) EXCEPT !.type = "dot"]>>,
             <<[UDP(Addr("ip1", 53)) EXCEPT !.timeout = 0]>>,
             <<[UDP(Addr("ip1", 53)) EXCEPT !.endpointIPs = <<"ip1">>]>>}}
  \cup {[Default EXCEPT !.sources = ss] :
     ss \in {<<HTTP("", "https")>>, <<HTTP("ads", "ftp")>>, <<File("own", "")>>,
             <<[File("own", "hosts") EXCEPT !.type = "dns"]>>,
             <<HTTP("ads", "http"), File("ads", "hosts")>>}}
  \cup {[Default EXCEPT !.capacity = 0], [Default EXCEPT !.refreshInterval = 59],
        [Default EXCEPT !.admin = NoAddr], [Default EXCEPT !.udp = Addr("", 65536)]}

MCConfigs == Accepted \cup Faulty

=============================================================================
