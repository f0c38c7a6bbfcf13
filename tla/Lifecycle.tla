----------------------------- MODULE Lifecycle -----------------------------
(***************************************************************************)
(* The process: the serve command of cmd/bns/serve.go from the check of    *)
(* its configuration to "shutdown complete", with the servers that runServe*)
(* starts (internal/server, internal/admin) and the readiness flags        *)
(* (internal/health).                                                      *)
(*                                                                         *)
(* The goroutines of the errgroup are those of runServe.  What the fetcher *)
(* and the SIGHUP goroutine do is in BlocklistRefresh; here they return    *)
(* some time after the context is done, which is shown there.              *)
(*                                                                         *)
(* dns.Server and http.Server are external.  A dns.Server that is shut     *)
(* down before its init is over races with it (the comment of              *)
(* Server.Shutdown): either outcome is possible.                           *)
(***************************************************************************)
EXTENDS Config

CONSTANT Configs   \* what the flags, the environment and the file may add up to

\* The types of Config that matter here: a capacity is an integer, the endpoints
\* of an upstream are a list.
ASSUME LifecycleAssumption ==
  \A c \in Configs :
    /\ c.capacity \in Int
    /\ \A i \in DOMAIN c.upstreams : c.upstreams[i].endpointIPs \in Seq(STRING)

VARIABLES
  cfg,       \* the configuration
  stage,     \* where runServe is
  rdy,       \* health.Readiness: the sub-checks that are ready
  term,      \* SIGINT or SIGTERM has come
  alive,     \* the goroutines of the group that have not returned
  listener,  \* the state of the two DNS servers
  started,   \* those whose ready channel is closed
  admin,     \* the state of the admin server
  shutdown,  \* where the shutdown goroutine is
  failure,   \* the first error of the group
  exit,      \* how the process ended
  blame      \* history: what made the startup fail

vars == <<cfg, blame, stage, rdy, term, alive, listener, started, admin, shutdown, failure, exit>>

\* What runServe does one after the other before its probe of the upstreams.
Startup ==
  [config |-> "load", load |-> "upstreams", upstreams |-> "bindUDP", bindUDP |-> "bindTCP",
   bindTCP |-> "bindAdmin", bindAdmin |-> "probe"]

Stages == DOMAIN Startup \cup {"probe", "running", "exited"}

Checks == {"blocklist", "listeners", "upstream"}

Listeners == {"udp", "tcp"}

Goroutines == {"serve", "ready", "admin", "fetcher", "hangup", "shutdown"}

Init ==
  /\ cfg \in Configs
  /\ blame = "none"
  /\ stage = "config"
  /\ rdy = {}
  /\ term = FALSE
  /\ alive = {}
  /\ listener = [l \in Listeners |-> "starting"]
  /\ started = {}
  /\ admin = "serving"
  /\ shutdown = "wait"
  /\ failure = "none"
  /\ exit = "none"

-----------------------------------------------------------------------------
(***************************************************************************)
(* Startup.                                                                *)
(***************************************************************************)

Starting == stage \in DOMAIN Startup

\* The configuration makes this step fail.
Refused ==
  \/ stage = "config" /\ ~Validate(cfg)
  \/ stage = "load" /\ \E i \in DOMAIN cfg.sources : ~SourceSupported(cfg.sources[i])
  \/ stage = "upstreams" /\ \E i \in DOMAIN cfg.upstreams : ~NewUpstream(cfg.upstreams[i])
  \/ stage = "bindAdmin" /\ Clash(cfg.tcp, cfg.admin)

\* It may fail for another reason: a file that cannot be read, an address in use.
MayFail == stage # "upstreams" /\ (stage = "load" => cfg.sources # << >>)

\* Variant: the group is started before the probe.
StartupStepServing ==
  /\ Starting /\ ~Refused
  /\ stage' = Startup[stage]
  /\ rdy' = IF stage = "load" THEN rdy \cup {"blocklist"} ELSE rdy
  /\ alive' = IF stage = "bindAdmin" THEN Goroutines ELSE alive
  /\ UNCHANGED <<cfg, blame, term, listener, started, admin, shutdown, failure, exit>>

\* A step of the startup succeeds; the one that loads the blocklist says so.
StartupStep ==
  /\ Starting /\ ~Refused
  /\ stage' = Startup[stage]
  /\ rdy' = IF stage = "load" THEN rdy \cup {"blocklist"} ELSE rdy
  /\ UNCHANGED <<cfg, blame, term, alive, listener, started, admin, shutdown, failure, exit>>

StartupFails ==
  /\ Starting
  /\ \/ Refused /\ blame' = "config"
     \/ ~Refused /\ MayFail /\ blame' = "environment"
  /\ stage' = "exited"
  /\ exit' = "error"
  /\ UNCHANGED <<cfg, rdy, term, alive, listener, started, admin, shutdown, failure>>

\* The one probe of the upstreams, whose failure is only logged.
WarmupProbe(ok) ==
  /\ stage = "probe"
  /\ ok => ~term
  /\ stage' = "running"
  /\ rdy' = IF ok THEN rdy \cup {"upstream"} ELSE rdy
  /\ alive' = Goroutines
  /\ UNCHANGED <<cfg, blame, term, listener, started, admin, shutdown, failure, exit>>

-----------------------------------------------------------------------------
(***************************************************************************)
(* The group.                                                              *)
(***************************************************************************)

\* gctx is done when ctx is, or after the first error.
Done == term \/ failure # "none"

Returns(g, err) ==
  /\ g \in alive
  /\ alive' = alive \ {g}
  /\ failure' = IF failure = "none" THEN err ELSE failure

ListenerStarts(l) ==
  /\ "serve" \in alive
  /\ listener[l] = "starting"
  /\ listener' = [listener EXCEPT ![l] = "serving"]
  /\ started' = started \cup {l}
  /\ UNCHANGED <<cfg, blame, stage, rdy, term, alive, admin, shutdown, failure, exit>>

ListenerFails(l) ==
  /\ "serve" \in alive
  /\ listener[l] \in {"starting", "serving"}
  /\ listener' = [listener EXCEPT ![l] = "failed"]
  /\ UNCHANGED <<cfg, blame, stage, rdy, term, alive, started, admin, shutdown, failure, exit>>

Ended(l) == listener[l] \in {"failed", "closed"}

\* Serve waits for both listeners, and returns the error of one that failed.
ServeReturns ==
  /\ \A l \in Listeners : Ended(l)
  /\ Returns("serve", IF \E l \in Listeners : listener[l] = "failed" THEN "error"
                      ELSE "none")
  /\ UNCHANGED <<cfg, blame, stage, rdy, term, listener, started, admin, shutdown, exit>>

\* Variant: the flag is set when the first listener is ready.
ListenersReadyEarly ==
  /\ started # {}
  /\ Returns("ready", "none")
  /\ rdy' = rdy \cup {"listeners"}
  /\ UNCHANGED <<cfg, blame, stage, term, listener, started, admin, shutdown, exit>>

ListenersReady ==
  /\ started = Listeners
  /\ Returns("ready", "none")
  /\ rdy' = rdy \cup {"listeners"}
  /\ UNCHANGED <<cfg, blame, stage, term, listener, started, admin, shutdown, exit>>

\* The context is done first, even if the channels are closed by then.
ReadyCancelled ==
  /\ Done
  /\ Returns("ready", "canceled")
  /\ UNCHANGED <<cfg, blame, stage, rdy, term, listener, started, admin, shutdown, exit>>

\* Variant: any error of the context passes for a cancellation.
ReadyTimesOutQuietly ==
  /\ Returns("ready", "canceled")
  /\ UNCHANGED <<cfg, blame, stage, rdy, term, listener, started, admin, shutdown, exit>>

\* The wait is over, perhaps with both listeners up: a select whose channel is closed
\* may still take the context that has ended.
ReadyTimesOut ==
  /\ Returns("ready", "error")
  /\ UNCHANGED <<cfg, blame, stage, rdy, term, listener, started, admin, shutdown, exit>>

\* http.ErrServerClosed is no error; any other is.
AdminReturns ==
  /\ \/ admin = "closed" /\ Returns("admin", "none") /\ UNCHANGED admin
     \/ admin = "serving" /\ Returns("admin", "error") /\ admin' = "failed"
  /\ UNCHANGED <<cfg, blame, stage, rdy, term, listener, started, shutdown, exit>>

\* The fetcher and the SIGHUP goroutine.
WorkerReturns(g) ==
  /\ g \in {"fetcher", "hangup"}
  /\ Done
  /\ Returns(g, "none")
  /\ UNCHANGED <<cfg, blame, stage, rdy, term, listener, started, admin, shutdown, exit>>

-----------------------------------------------------------------------------
(***************************************************************************)
(* The shutdown goroutine: the admin server, then UDP, then TCP.  Each     *)
(* wait for requests under way is bounded by the shutdown timeout.         *)
(***************************************************************************)

ShutdownAdmin ==
  /\ "shutdown" \in alive
  /\ shutdown = "wait"
  /\ Done
  /\ shutdown' = "udp"
  /\ admin' = IF admin = "serving" THEN "closed" ELSE admin
  /\ UNCHANGED <<cfg, blame, stage, rdy, term, alive, listener, started, failure, exit>>

\* A server that is still starting may miss its shutdown.
ShutdownListener(l, next) ==
  /\ shutdown = l
  /\ shutdown' = next
  /\ \/ /\ ~Ended(l)
        /\ listener' = [listener EXCEPT ![l] = "closed"]
     \/ /\ listener[l] # "serving"
        /\ UNCHANGED listener
  /\ UNCHANGED <<cfg, blame, stage, rdy, term, alive, started, admin, failure, exit>>

\* Variant: the TCP server is forgotten.
ShutdownDNSOne == ShutdownListener("udp", "done")

ShutdownDNS == ShutdownListener("udp", "tcp") \/ ShutdownListener("tcp", "done")

ShutdownReturns ==
  /\ shutdown = "done"
  /\ Returns("shutdown", "none")
  /\ UNCHANGED <<cfg, blame, stage, rdy, term, listener, started, admin, shutdown, exit>>

\* g.Wait returns; a cancellation is no error.
Exit ==
  /\ stage = "running"
  /\ alive = {}
  /\ stage' = "exited"
  /\ exit' = IF failure = "error" THEN "error" ELSE "ok"
  /\ UNCHANGED <<cfg, blame, rdy, term, alive, listener, started, admin, shutdown, failure>>

-----------------------------------------------------------------------------

Terminate ==
  /\ stage # "exited"
  /\ ~term
  /\ term' = TRUE
  /\ UNCHANGED <<cfg, blame, stage, rdy, alive, listener, started, admin, shutdown, failure,
                 exit>>

\* What happens by itself.
Progress ==
  \/ StartupStep
  \/ Refused /\ StartupFails
  \/ WarmupProbe(FALSE)
  \/ \E l \in Listeners : ListenerStarts(l)
  \/ ServeReturns
  \/ ListenersReady \/ ReadyCancelled \/ ReadyTimesOut
  \/ admin = "closed" /\ AdminReturns
  \/ \E g \in Goroutines : WorkerReturns(g)
  \/ ShutdownAdmin \/ ShutdownDNS \/ ShutdownReturns
  \/ Exit

Next ==
  \/ Progress
  \/ StartupFails
  \/ WarmupProbe(TRUE)
  \/ \E l \in Listeners : ListenerFails(l)
  \/ AdminReturns
  \/ Terminate

Spec == Init /\ [][Next]_vars

\* Every goroutine that can go on does so.  Nothing has to fail.
FairSpec == Spec /\ WF_vars(Progress)

-----------------------------------------------------------------------------
(***************************************************************************)
(* Properties.                                                             *)
(***************************************************************************)

\* Every variable has the type it is declared with; the group is empty before
\* runServe starts it and after Wait.
TypeOK ==
  /\ cfg \in Configs
  /\ blame \in {"none", "config", "environment"}
  /\ stage \in Stages
  /\ rdy \subseteq Checks
  /\ term \in BOOLEAN
  /\ alive \subseteq Goroutines
  /\ alive # {} => stage = "running"
  /\ listener \in [Listeners -> {"starting", "serving", "failed", "closed"}]
  /\ started \subseteq Listeners
  /\ admin \in {"serving", "closed", "failed"}
  /\ shutdown \in {"wait", "done"} \cup Listeners
  /\ failure \in {"none", "canceled", "error"}
  /\ exit \in {"none", "ok", "error"}

\* /readyz answers 200 only when both DNS servers have started, the blocklist
\* was loaded and the upstreams have answered the probe: readiness never runs
\* ahead of the listeners.
ReadyMeansStarted ==
  rdy = Checks => started = Listeners /\ stage \in {"running", "exited"}

\* bns exits with status 0 only when it was asked to stop.  A listener, the
\* admin server or the startup deadline that ends the group is reported as a
\* failure, although the goroutines it cancels report cancellations.
ExitsCleanlyOnlyIfAsked == exit = "ok" => term

\* "Validate returns nil if the config is internally consistent and usable": no
\* later step of the startup refuses what it accepts (but for an admin server that
\* shares the address of the TCP listener, which Validate does not look at), and
\* what the group runs on is sound: the capacity is the one that the gauge shows,
\* and a fetcher with something to fetch has an address to bootstrap from, so that
\* it never asks the system resolver, which may be this very process.
AcceptedIsUsable ==
  /\ blame = "config" => ~Validate(cfg) \/ Clash(cfg.tcp, cfg.admin)
  /\ alive # {} => /\ cfg.capacity >= 1
                   /\ cfg.upstreams # << >>
                   /\ HasHTTP(cfg.sources) => upstreamDialAddrs(cfg.upstreams) # {}

\* The shutdown is over and the listener serves: it was starting at its turn.
Outlives(l) == shutdown = "done" /\ listener[l] = "serving"

\* A termination signal at any time, during the startup too, or the failure of a
\* goroutine always ends the process: nobody in the group waits for somebody who
\* is not told to stop.  The one exception is a listener that misses its shutdown
\* because it has not started, which cannot happen once both have.
ShutdownEnds ==
  /\ Done ~> stage = "exited" \/ \E l \in Listeners : Outlives(l)
  /\ Done /\ started = Listeners /\ shutdown = "wait" ~> stage = "exited"

\* "Serve runs both listeners until either errors or Shutdown is called" (comment
\* of Server.Serve): the failure of one listener ends Serve.
ServeEndsOnError ==
  \A l \in Listeners : listener[l] = "failed" ~> "serve" \notin alive

=============================================================================
