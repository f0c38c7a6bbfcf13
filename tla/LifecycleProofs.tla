-------------------------- MODULE LifecycleProofs --------------------------
(***************************************************************************)
(* The safety of Lifecycle, for every set of configurations.               *)
(*                                                                         *)
(* None of the properties is inductive.  Inv adds what the code relies on: *)
(* the group is only started by a configuration that Validate accepted,    *)
(* the goroutine that waits for SIGHUP is the witness that the context is  *)
(* done once the group is empty, and "canceled" is only the first error    *)
(* after a signal.  The second part is what ShutdownEnds rests on apart    *)
(* from fairness: the goroutines of a group that is shutting down can all  *)
(* end, a listener that was missed excepted, and the steps left to the     *)
(* process are bounded.                                                    *)
(***************************************************************************)
EXTENDS Lifecycle, TLAPS

\* The provers a leaf is tried with, in this order.
USE ZenonT(40), SMTT(30), Z3

\* runServe only gets past its first step with a configuration that is valid.
PastValidate ==
  stage \notin {"config", "exited"} => Validate(cfg)

\* The flag of the listeners is set by the group, after both have started.
ListenersFlag ==
  "listeners" \in rdy => started = Listeners /\ stage \in {"running", "exited"}

\* A worker only returns when the context is done.
WorkersWait == stage = "running" /\ "hangup" \notin alive => Done

\* The first error is a cancellation only after a signal.
CanceledBySignal == failure = "canceled" => term

Inv ==
  /\ TypeOK
  /\ PastValidate
  /\ ListenersFlag
  /\ WorkersWait
  /\ CanceledBySignal
  /\ ExitsCleanlyOnlyIfAsked
  /\ blame = "config" => ~Validate(cfg) \/ Clash(cfg.tcp, cfg.admin)

-----------------------------------------------------------------------------

\* Validate and runServe agree on the types of sources and of upstreams: the steps
\* after Validate refuse nothing that it accepts, but for the address of the admin
\* server.
LEMMA RefusedAfterValidate ==
  ASSUME Refused, Validate(cfg)
  PROVE  Clash(cfg.tcp, cfg.admin)
<1>1. \A s : validateSource(s) => SourceSupported(s)
  BY DEF validateSource, SourceSupported
<1>2. \A u : validateUpstream(u) => NewUpstream(u)
  BY DEF validateUpstream, validateDoHUpstream, NewUpstream
<1>3. QED
  BY <1>1, <1>2 DEF Refused, Validate

\* What Validate counts, runServe collects: an upstream to bootstrap from gives the
\* bootstrap resolver at least one address.
LEMMA BootstrapAddress ==
  ASSUME NEW c \in Configs, Validate(c), HasHTTP(c.sources)
  PROVE  upstreamDialAddrs(c.upstreams) # {}
<1>1. PICK i \in DOMAIN c.upstreams : Bootstraps(c.upstreams[i])
  BY DEF Validate
<1>. DEFINE u == c.upstreams[i]
<1>2. u.endpointIPs \in Seq(STRING)
  BY LifecycleAssumption
<1>3. DialAddrs(u) # {}
  <2>1. CASE u.type \in UDPTypes /\ u.addr.form # "empty"
    BY <2>1 DEF DialAddrs, UDPTypes
  <2>2. CASE u.type = "doh" /\ u.endpointIPs # << >>
    <3>1. 1 \in DOMAIN u.endpointIPs
      BY <1>2, <2>2
    <3>2. u.type \notin UDPTypes
      BY <2>2 DEF UDPTypes
    <3>3. DialAddr(u.endpointIPs[1]) \in DialAddrs(u)
      BY <2>2, <3>1, <3>2 DEF DialAddrs
    <3>4. QED
      BY <3>3
  <2>3. QED
    BY <1>1, <2>1, <2>2 DEF Bootstraps
<1>4. PICK a : a \in DialAddrs(u)
  BY <1>3
<1>5. a \in upstreamDialAddrs(c.upstreams)
  BY <1>4 DEF upstreamDialAddrs
<1>6. QED
  BY <1>5

-----------------------------------------------------------------------------

\* Nothing of run() has happened yet.
LEMMA InitInv == Init => Inv
BY ZenonT(40) DEF Init, Inv, TypeOK, PastValidate, ListenersFlag, WorkersWait, CanceledBySignal,
       ExitsCleanlyOnlyIfAsked, Stages, Startup, Listeners

\* The steps of the startup: stage goes on, or the process exits with an error.
LEMMA StartupInv ==
  ASSUME Inv, StartupStep \/ StartupFails
  PROVE  Inv'
<1>. USE DEF Inv
<1>1. DOMAIN Startup = {"config", "load", "upstreams", "bindUDP", "bindTCP", "bindAdmin"}
  BY DEF Startup
<1>2. CASE StartupStep
  <2>1. stage' \in {"load", "upstreams", "bindUDP", "bindTCP", "bindAdmin", "probe"}
    BY <1>2 DEF StartupStep, Starting, Startup
  <2>2. stage # "exited" /\ stage # "running" /\ stage # "probe"
    BY <1>1, <1>2 DEF StartupStep, Starting
  <2>3. TypeOK'
    BY SMTT(30), Z3, <1>1, <1>2, <2>1, <2>2 DEF StartupStep, TypeOK, Stages, Checks
  <2>4. PastValidate'
    BY <1>2, <2>2 DEF StartupStep, Refused, PastValidate
  <2>5. ListenersFlag' /\ WorkersWait'
    BY <1>2, <2>1, <2>2 DEF StartupStep, ListenersFlag, WorkersWait
  <2>6. QED
    BY <1>2, <2>3, <2>4, <2>5 DEF StartupStep, CanceledBySignal, ExitsCleanlyOnlyIfAsked
<1>3. CASE StartupFails
  <2>1. stage # "running" /\ stage' = "exited"
    BY <1>1, <1>3 DEF StartupFails, Starting
  <2>2. TypeOK'
    BY <1>1, <1>3, <2>1 DEF StartupFails, TypeOK, Stages
  <2>3. blame' = "config" => ~Validate(cfg) \/ Clash(cfg.tcp, cfg.admin)
    BY <1>3, RefusedAfterValidate DEF StartupFails
  <2>4. ListenersFlag' /\ WorkersWait' /\ PastValidate'
    BY <1>3, <2>1 DEF StartupFails, ListenersFlag, WorkersWait, PastValidate
  <2>5. QED
    BY <1>3, <2>2, <2>3, <2>4 DEF StartupFails, CanceledBySignal, ExitsCleanlyOnlyIfAsked
<1>4. QED
  BY <1>2, <1>3

\* The warm-up takes a step or ends.
LEMMA WarmupInv ==
  ASSUME Inv, NEW ok \in BOOLEAN, WarmupProbe(ok)
  PROVE  Inv'
<1>. USE DEF Inv, WarmupProbe
<1>1. TypeOK'
  BY DEF TypeOK, Stages, Checks
<1>2. PastValidate' /\ ListenersFlag'
  BY DEF PastValidate, ListenersFlag
<1>3. WorkersWait'
  BY DEF WorkersWait, Goroutines
<1>4. QED
  BY <1>1, <1>2, <1>3 DEF CanceledBySignal, ExitsCleanlyOnlyIfAsked

\* A listener starts or fails, or is shut down: the group stays as it is.
LEMMA ListenerInv ==
  ASSUME Inv,
         \/ \E l \in Listeners : ListenerStarts(l) \/ ListenerFails(l)
         \/ ShutdownAdmin
         \/ ShutdownDNS
  PROVE  Inv'
<1>. USE DEF Inv, ListenerStarts, ListenerFails, ShutdownAdmin, ShutdownDNS, ShutdownListener
<1>1. UNCHANGED <<cfg, blame, stage, rdy, term, alive, failure, exit>> /\ started \subseteq started'
  OBVIOUS
<1>2. TypeOK'
  <2>1. ASSUME NEW l \in Listeners, ListenerStarts(l)
        PROVE  TypeOK'
    BY SMTT(30), Z3, <2>1 DEF TypeOK
  <2>2. ASSUME NEW l \in Listeners, ListenerFails(l)
        PROVE  TypeOK'
    BY SMTT(30), Z3, <2>2 DEF TypeOK
  <2>3. CASE ShutdownAdmin
    BY <2>3 DEF TypeOK, Listeners
  <2>4. ASSUME NEW l \in Listeners, NEW next \in Listeners \cup {"done"},
               ShutdownListener(l, next)
        PROVE  TypeOK'
    BY SMTT(30), Z3, <2>4 DEF TypeOK
  <2>5. QED
    BY <2>1, <2>2, <2>3, <2>4 DEF Listeners
<1>3. ListenersFlag'
  BY <1>1, <1>2 DEF ListenersFlag, TypeOK
<1>4. PastValidate' /\ WorkersWait' /\ CanceledBySignal' /\ ExitsCleanlyOnlyIfAsked'
  BY <1>1 DEF PastValidate, WorkersWait, CanceledBySignal, ExitsCleanlyOnlyIfAsked, Done
<1>5. QED
  BY <1>1, <1>2, <1>3, <1>4

\* A goroutine of the group returns.
LEMMA ReturnInv ==
  ASSUME Inv,
         \/ ServeReturns \/ ListenersReady \/ ReadyCancelled \/ ReadyTimesOut
         \/ AdminReturns \/ ShutdownReturns
         \/ \E g \in Goroutines : WorkerReturns(g)
  PROVE  Inv'
<1>. USE DEF Inv
<1>. DEFINE Others == UNCHANGED <<cfg, blame, stage, term, listener, started, shutdown, exit>>
<1>1. PICK g \in Goroutines, err \in {"none", "canceled", "error"} :
        /\ Returns(g, err)
        /\ g = "hangup" => Done
        /\ err = "canceled" => Done
  BY DEF ServeReturns, ListenersReady, ReadyCancelled, ReadyTimesOut, AdminReturns,
         ShutdownReturns, WorkerReturns, Goroutines
<1>2. /\ Others
      /\ admin' \in {admin, "failed"}
      /\ \/ rdy' = rdy
         \/ rdy' = rdy \cup {"listeners"} /\ started = Listeners
  BY DEF ServeReturns, ListenersReady, ReadyCancelled, ReadyTimesOut, AdminReturns,
         ShutdownReturns, WorkerReturns
<1>3. stage = "running"
  BY <1>1 DEF Returns, TypeOK
<1>4. TypeOK'
  BY ZenonT(40), <1>1, <1>2, <1>3 DEF TypeOK, Returns, Checks
<1>5. ListenersFlag' /\ PastValidate'
  BY <1>2, <1>3 DEF ListenersFlag, PastValidate
<1>6. Done => Done'
  BY <1>1, <1>2 DEF Done, Returns
<1>7. WorkersWait'
  BY <1>1, <1>2, <1>6 DEF WorkersWait, Returns
<1>8. CanceledBySignal'
  BY <1>1, <1>2 DEF CanceledBySignal, Returns, Done
<1>9. QED
  BY <1>2, <1>4, <1>5, <1>7, <1>8 DEF ExitsCleanlyOnlyIfAsked

\* The group is empty, so that the goroutine that waits for SIGHUP has returned.
LEMMA ExitInv ==
  ASSUME Inv, Exit
  PROVE  Inv'
<1>. USE DEF Inv, Exit
<1>1. TypeOK'
  BY DEF TypeOK, Stages
<1>2. failure = "error" \/ term
  BY DEF WorkersWait, Done, CanceledBySignal, TypeOK
<1>3. ExitsCleanlyOnlyIfAsked'
  BY <1>2 DEF ExitsCleanlyOnlyIfAsked
<1>4. QED
  BY <1>1, <1>3 DEF PastValidate, ListenersFlag, WorkersWait, CanceledBySignal

\* A signal asks for the shutdown.
LEMMA TerminateInv ==
  ASSUME Inv, Terminate
  PROVE  Inv'
BY DEF Inv, Terminate, TypeOK, PastValidate, ListenersFlag, WorkersWait, CanceledBySignal,
       ExitsCleanlyOnlyIfAsked, Done

\* Every step keeps the invariant.
LEMMA NextInv == Inv /\ [Next]_vars => Inv'
<1>. SUFFICES ASSUME Inv, [Next]_vars PROVE Inv'
  OBVIOUS
<1>1. CASE Next
  BY ZenonT(40), <1>1, StartupInv, WarmupInv, ListenerInv, ReturnInv, ExitInv, TerminateInv
     DEF Next, Progress
<1>2. CASE UNCHANGED vars
  BY SMTT(30), Z3, <1>2 DEF vars, Inv, TypeOK, PastValidate, ListenersFlag, WorkersWait, CanceledBySignal,
              ExitsCleanlyOnlyIfAsked, Done
<1>3. QED
  BY <1>1, <1>2

\* Inv holds in every state that runServe reaches.
LEMMA SpecInv == Spec => []Inv
BY InitInv, NextInv, PTL DEF Spec

-----------------------------------------------------------------------------

\* Every variable has its type, and the group is empty before runServe starts it
\* and after Wait.
THEOREM TypeCorrect == Spec => []TypeOK
<1>1. Inv => TypeOK
  BY DEF Inv
<1>2. QED
  BY <1>1, SpecInv, PTL

\* /readyz never answers 200 before both DNS servers have started.
THEOREM ReadinessIsSound == Spec => []ReadyMeansStarted
<1>1. Inv => ReadyMeansStarted
  BY DEF Inv, ListenersFlag, ReadyMeansStarted, Checks
<1>2. QED
  BY <1>1, SpecInv, PTL

\* bns exits with status 0 only after a signal, whichever goroutines fail and in
\* whichever order.
THEOREM CleanExitIsAsked == Spec => []ExitsCleanlyOnlyIfAsked
<1>1. Inv => ExitsCleanlyOnlyIfAsked
  BY DEF Inv
<1>2. QED
  BY <1>1, SpecInv, PTL

\* Whatever the configuration: what Validate accepts, no later step refuses (but
\* for the clash of two addresses), and the group has upstreams, a capacity of at
\* least one entry, and an address to bootstrap from if there is something to fetch.
THEOREM ValidateIsSound == Spec => []AcceptedIsUsable
<1>1. ASSUME Inv, alive # {}
      PROVE  /\ cfg.capacity >= 1
             /\ cfg.upstreams # << >>
             /\ HasHTTP(cfg.sources) => upstreamDialAddrs(cfg.upstreams) # {}
  <2>1. cfg \in Configs /\ Validate(cfg)
    BY <1>1 DEF Inv, TypeOK, PastValidate
  <2>2. cfg.capacity \in Int
    BY <2>1, LifecycleAssumption
  <2>3. cfg.capacity > 0 /\ cfg.upstreams # << >>
    BY <2>1 DEF Validate
  <2>4. QED
    BY <2>1, <2>2, <2>3, BootstrapAddress
<1>2. Inv => AcceptedIsUsable
  BY <1>1 DEF Inv, AcceptedIsUsable
<1>3. QED
  BY <1>2, SpecInv, PTL

-----------------------------------------------------------------------------
(***************************************************************************)
(* The shutdown: nobody in the group waits for somebody who is not told to *)
(* stop, and the process takes a bounded number of steps.                  *)
(***************************************************************************)

\* Where the shutdown goroutine stands, and what it has done to the admin server.
ShutdownInv ==
  /\ stage = "running" /\ "shutdown" \notin alive => shutdown = "done"
  /\ shutdown # "wait" => admin # "serving"
  /\ admin = "failed" => "admin" \notin alive
  /\ stage \notin {"running", "exited"} => shutdown = "wait" /\ admin = "serving"
  /\ \A l \in started : listener[l] # "starting"

\* The guards of Progress: something happens by itself.
GoesOn ==
  \/ Starting \/ stage = "probe"
  \/ "serve" \in alive /\ (\/ \E l \in Listeners : listener[l] = "starting"
                           \/ \A l \in Listeners : Ended(l))
  \/ "ready" \in alive
  \/ "admin" \in alive /\ admin = "closed"
  \/ Done /\ alive \cap {"fetcher", "hangup"} # {}
  \/ Done /\ "shutdown" \in alive /\ shutdown = "wait"
  \/ "shutdown" \in alive /\ shutdown = "done"
  \/ shutdown \in Listeners
  \/ stage = "running" /\ alive = {}

\* The shutdown has met, or will meet, every listener.
InReach ==
  /\ \A l \in Listeners : listener[l] # "starting"
  /\ shutdown \in {"tcp", "done"} => Ended("udp")
  /\ shutdown = "done" => Ended("tcp")

One(b) == IF b THEN 1 ELSE 0

StartupLeft ==
  [config |-> 14, load |-> 13, upstreams |-> 12, bindUDP |-> 11, bindTCP |-> 10,
   bindAdmin |-> 9, probe |-> 8, running |-> 1, exited |-> 0]

GroupLeft ==
  One("serve" \in alive) + One("ready" \in alive) + One("admin" \in alive)
    + One("fetcher" \in alive) + One("hangup" \in alive) + One("shutdown" \in alive)

ListenerLeft(l) ==
  IF listener[l] = "starting" THEN 2 ELSE One(listener[l] = "serving")

ShutdownLeft == [wait |-> 3, udp |-> 2, tcp |-> 1, done |-> 0]

\* What the process can still do, the signal included.
StepsLeft ==
  StartupLeft[stage] + GroupLeft + ListenerLeft("udp") + ListenerLeft("tcp")
    + ShutdownLeft[shutdown] + One(~term)

\* A group that is told to stop does, unless a listener was missed.
StopsOrMisses ==
  Done /\ stage # "exited" => GoesOn \/ \E l \in Listeners : Outlives(l)

\* Once both listeners have started, none is missed.
StopsInReach == Done /\ stage # "exited" /\ InReach => GoesOn

\* A listener that has started before the servers are shut down is in reach.
ReachFromStart == started = Listeners /\ shutdown = "wait" => InReach

\* And stays in reach.
ReachKept == [][InReach => InReach']_vars

\* Every step of the process, a failure included, is one of those left.
StepsRunOut == [][StepsLeft' \in 0 .. (StepsLeft - 1)]_vars

LEMMA ShutdownInitInv == Init => ShutdownInv
BY DEF Init, ShutdownInv

\* The steps up to the group.
LEMMA StartupShutdown ==
  ASSUME Inv, ShutdownInv, StartupStep \/ StartupFails \/ (\E ok \in BOOLEAN : WarmupProbe(ok))
  PROVE  ShutdownInv'
<1>1. DOMAIN Startup = {"config", "load", "upstreams", "bindUDP", "bindTCP", "bindAdmin"}
  BY DEF Startup
<1>2. CASE StartupStep
  <2>1. stage \notin {"running", "exited"}
    BY <1>1, <1>2 DEF StartupStep, Starting
  <2>2. stage' \in {"load", "upstreams", "bindUDP", "bindTCP", "bindAdmin", "probe"}
    BY <1>2 DEF StartupStep, Starting, Startup
  <2>3. QED
    BY <1>2, <2>1, <2>2 DEF StartupStep, ShutdownInv
<1>3. CASE StartupFails
  BY <1>3 DEF StartupFails, ShutdownInv
<1>4. ASSUME NEW ok \in BOOLEAN, WarmupProbe(ok)
      PROVE  ShutdownInv'
  BY <1>4 DEF WarmupProbe, ShutdownInv, Goroutines
<1>5. QED
  BY <1>2, <1>3, <1>4

\* The listeners and the shutdown goroutine.
LEMMA ListenerShutdown ==
  ASSUME Inv, ShutdownInv,
         \/ \E l \in Listeners : ListenerStarts(l) \/ ListenerFails(l)
         \/ ShutdownAdmin
         \/ ShutdownDNS
  PROVE  ShutdownInv'
<1>0. DOMAIN listener = Listeners /\ started \subseteq Listeners /\ (alive # {} => stage = "running")
  BY DEF Inv, TypeOK
<1>1. ASSUME NEW l \in Listeners, ListenerStarts(l) \/ ListenerFails(l)
      PROVE  ShutdownInv'
  <2>1. \A k \in started' : listener'[k] # "starting"
    BY <1>0, <1>1 DEF ListenerStarts, ListenerFails, ShutdownInv
  <2>2. UNCHANGED <<stage, alive, shutdown, admin>>
    BY <1>1 DEF ListenerStarts, ListenerFails
  <2>3. QED
    BY <2>1, <2>2 DEF ShutdownInv
<1>2. CASE ShutdownAdmin
  BY <1>0, <1>2 DEF ShutdownAdmin, ShutdownInv
<1>3. ASSUME NEW l \in Listeners, NEW next \in {"tcp", "done"}, ShutdownListener(l, next)
      PROVE  ShutdownInv'
  <2>1. \A k \in started' : listener'[k] # "starting"
    BY <1>0, <1>3 DEF ShutdownListener, ShutdownInv
  <2>2. /\ UNCHANGED <<stage, alive, admin>>
        /\ shutdown = l /\ shutdown' = next
    BY <1>3 DEF ShutdownListener
  <2>3. shutdown # "wait" /\ shutdown # "done"
    BY <2>2 DEF Listeners
  <2>4. QED
    BY <2>1, <2>2, <2>3 DEF ShutdownInv
<1>4. QED
  BY <1>1, <1>2, <1>3 DEF ShutdownDNS, Listeners

\* A goroutine of the group returns, or the group is over.
LEMMA ReturnShutdown ==
  ASSUME Inv, ShutdownInv,
         \/ ServeReturns \/ ListenersReady \/ ReadyCancelled \/ ReadyTimesOut
         \/ AdminReturns \/ ShutdownReturns
         \/ \E g \in Goroutines : WorkerReturns(g)
         \/ Exit \/ Terminate
  PROVE  ShutdownInv'
<1>1. CASE AdminReturns
  BY <1>1 DEF AdminReturns, Returns, ShutdownInv, Inv, TypeOK
<1>2. CASE ShutdownReturns
  BY <1>2 DEF ShutdownReturns, Returns, ShutdownInv
<1>3. CASE ServeReturns \/ ListenersReady \/ ReadyCancelled \/ ReadyTimesOut
           \/ \E g \in Goroutines : WorkerReturns(g)
  <2>1. PICK g \in Goroutines \ {"shutdown"} : alive' = alive \ {g}
    BY <1>3 DEF ServeReturns, ListenersReady, ReadyCancelled, ReadyTimesOut, WorkerReturns,
                Returns, Goroutines
  <2>2. UNCHANGED <<stage, listener, started, admin, shutdown>>
    BY <1>3 DEF ServeReturns, ListenersReady, ReadyCancelled, ReadyTimesOut, WorkerReturns
  <2>3. QED
    BY <2>1, <2>2 DEF ShutdownInv
<1>4. CASE Exit \/ Terminate
  BY <1>4 DEF Exit, Terminate, ShutdownInv
<1>5. QED
  BY <1>1, <1>2, <1>3, <1>4

LEMMA ShutdownNextInv == Inv /\ ShutdownInv /\ [Next]_vars => ShutdownInv'
<1>. SUFFICES ASSUME Inv, ShutdownInv, [Next]_vars PROVE ShutdownInv'
  OBVIOUS
<1>1. CASE Next
  BY ZenonT(40), <1>1, StartupShutdown, ListenerShutdown, ReturnShutdown DEF Next, Progress
<1>2. CASE UNCHANGED vars
  BY <1>2 DEF vars, ShutdownInv
<1>3. QED
  BY <1>1, <1>2

LEMMA ShutdownSpecInv == Spec => []ShutdownInv
BY ShutdownInitInv, ShutdownNextInv, SpecInv, PTL DEF Spec

\* The one who is left in a group that cannot go on is Serve, and it waits for a
\* listener that serves.
LEMMA LastIsServing ==
  ASSUME Inv, ShutdownInv, Done, stage # "exited", ~GoesOn
  PROVE  shutdown = "done" /\ \E l \in Listeners : listener[l] = "serving"
<1>0. TypeOK
  BY DEF Inv
<1>1. stage = "running"
  BY <1>0 DEF GoesOn, TypeOK, Stages, Starting
<1>2. shutdown \in {"wait", "done"} /\ "shutdown" \notin alive
  BY <1>0 DEF GoesOn, TypeOK
<1>3. shutdown = "done" /\ admin \in {"closed", "failed"}
  BY <1>0, <1>1, <1>2 DEF ShutdownInv, TypeOK
<1>4. alive = {"serve"}
  <2>1. "admin" \notin alive
    BY <1>3 DEF GoesOn, ShutdownInv
  <2>2. "ready" \notin alive /\ "fetcher" \notin alive /\ "hangup" \notin alive
    BY DEF GoesOn
  <2>3. alive \subseteq Goroutines /\ alive # {}
    BY <1>0, <1>1 DEF GoesOn, TypeOK
  <2>4. QED
    BY ZenonT(40), <1>2, <2>1, <2>2, <2>3 DEF Goroutines
<1>5. PICK l \in Listeners : ~Ended(l) /\ listener[l] # "starting"
  BY <1>4 DEF GoesOn
<1>6. listener[l] = "serving"
  BY <1>0, <1>5 DEF Ended, TypeOK
<1>7. QED
  BY <1>3, <1>6

\* After a signal or the first error, whatever the order in which goroutines return and
\* listeners start and fail, something can happen until the process has exited, unless
\* a listener serves that its shutdown has missed.
THEOREM GroupStops == Spec => []StopsOrMisses
<1>1. Inv /\ ShutdownInv => StopsOrMisses
  BY LastIsServing DEF StopsOrMisses, Outlives
<1>2. QED
  BY <1>1, SpecInv, ShutdownSpecInv, PTL

\* A listener that has started cannot be missed: from a shutdown that begins with both
\* of them started, something can always happen until the process has exited.
THEOREM StartedListenersStop ==
  Spec => [](ReachFromStart /\ StopsInReach) /\ ReachKept
<1>1. Inv /\ ShutdownInv => ReachFromStart
  BY DEF ShutdownInv, ReachFromStart, InReach
<1>2. Inv /\ ShutdownInv => StopsInReach
  BY LastIsServing DEF StopsInReach, InReach, Ended, Listeners
<1>3. Inv /\ ShutdownInv /\ [Next]_vars => [InReach => InReach']_vars
  <2>. SUFFICES ASSUME Inv, ShutdownInv, [Next]_vars, InReach PROVE InReach'
    OBVIOUS
  <2>0. DOMAIN listener = Listeners
    BY DEF Inv, TypeOK
  <2>1. ASSUME NEW l \in Listeners, ListenerStarts(l) \/ ListenerFails(l)
        PROVE  InReach'
    BY <2>0, <2>1 DEF ListenerStarts, ListenerFails, InReach, Ended, Listeners
  <2>2. CASE ShutdownAdmin
    BY <2>2 DEF ShutdownAdmin, InReach, Ended
  <2>3. CASE ShutdownListener("udp", "tcp")
    BY <2>0, <2>3 DEF ShutdownListener, InReach, Ended, Listeners, Inv, TypeOK
  <2>4. CASE ShutdownListener("tcp", "done")
    BY <2>0, <2>4 DEF ShutdownListener, InReach, Ended, Listeners, Inv, TypeOK
  <2>5. CASE UNCHANGED <<listener, shutdown>>
    BY <2>5 DEF InReach, Ended
  <2>6. \/ \E l \in Listeners : ListenerStarts(l) \/ ListenerFails(l)
        \/ ShutdownAdmin \/ ShutdownListener("udp", "tcp") \/ ShutdownListener("tcp", "done")
        \/ UNCHANGED <<listener, shutdown>>
    BY ZenonT(40) DEF Next, Progress, StartupStep, StartupFails, WarmupProbe, ServeReturns,
           ListenersReady, ReadyCancelled, ReadyTimesOut, AdminReturns, WorkerReturns,
           ShutdownDNS, ShutdownReturns, Exit, Terminate, vars
  <2>7. QED
    BY <2>1, <2>2, <2>3, <2>4, <2>5, <2>6
<1>4. QED
  BY <1>1, <1>2, <1>3, SpecInv, ShutdownSpecInv, PTL DEF Spec, ReachKept

-----------------------------------------------------------------------------

\* The parts of StepsLeft are numbers.
LEMMA StepsNat ==
  ASSUME TypeOK
  PROVE  /\ StartupLeft[stage] \in 0 .. 14
         /\ GroupLeft \in 0 .. 6
         /\ ListenerLeft("udp") \in 0 .. 2 /\ ListenerLeft("tcp") \in 0 .. 2
         /\ ShutdownLeft[shutdown] \in 0 .. 3
         /\ One(~term) \in 0 .. 1
<1>1. stage \in {"config", "load", "upstreams", "bindUDP", "bindTCP", "bindAdmin", "probe",
                 "running", "exited"}
  BY DEF TypeOK, Stages, Startup
<1>2. StartupLeft[stage] \in 0 .. 14
  BY <1>1 DEF StartupLeft
<1>3. GroupLeft \in 0 .. 6
  BY DEF GroupLeft, One
<1>4. ShutdownLeft[shutdown] \in 0 .. 3
  BY SMTT(30), Z3 DEF TypeOK, Listeners, ShutdownLeft
<1>5. QED
  BY <1>2, <1>3, <1>4 DEF ListenerLeft, One

\* A sum is the less, the smaller a part of it is.
LEMMA SumFalls ==
  ASSUME NEW a \in Int, NEW b \in Int, NEW c \in Int, NEW d \in Int, NEW e \in Int,
         NEW f \in Int, NEW v \in Int, NEW x \in Int, NEW y \in Int, NEW z \in Int,
         v <= a, x <= c, y <= d, z <= e,
         v < a \/ x < c \/ y < d \/ z < e
  PROVE  v + b + x + y + z + f < a + b + c + d + e + f
OBVIOUS

\* A goroutine that returns leaves one fewer in the group.
LEMMA GroupShrinks ==
  ASSUME NEW g \in Goroutines, g \in alive, alive' = alive \ {g}
  PROVE  GroupLeft' = GroupLeft - 1
<1>1. \A h : h \in alive' <=> h \in alive /\ h # g
  OBVIOUS
<1>2. QED
  BY SMTT(30), Z3, <1>1 DEF GroupLeft, One, Goroutines

\* The whole is one step of one part.
LEMMA StepsFall ==
  ASSUME TypeOK, TypeOK', Next
  PROVE  StepsLeft' < StepsLeft
<1>0. DOMAIN listener = Listeners /\ Listeners = {"udp", "tcp"}
  BY DEF TypeOK, Listeners
<1>. DEFINE a == StartupLeft[stage]
            b == GroupLeft
            c == ListenerLeft("udp")
            d == ListenerLeft("tcp")
            e == ShutdownLeft[shutdown]
            f == One(~term)
<1>1. a \in Int /\ b \in Int /\ c \in Int /\ d \in Int /\ e \in Int /\ f \in Int
  BY StepsNat
<1>2. ASSUME a' \in Int, b' = b, c' \in Int, d' \in Int, e' \in Int, f' = f,
             a' <= a, c' <= c, d' <= d, e' <= e,
             a' < a \/ c' < c \/ d' < d \/ e' < e
      PROVE  StepsLeft' < StepsLeft
  <2>1. StepsLeft = a + b + c + d + e + f /\ StepsLeft' = a' + b' + c' + d' + e' + f'
    BY DEF StepsLeft
  <2>. HIDE DEF a, b, c, d, e, f
  <2>2. a' + b + c' + d' + e' + f < a + b + c + d + e + f
    BY ZenonT(40), <1>1, <1>2, SumFalls
  <2>3. QED
    BY ZenonT(40), <1>2, <2>1, <2>2
<1>3. CASE StartupStep \/ StartupFails
  <2>1. StartupLeft[stage'] \in Int /\ StartupLeft[stage'] < StartupLeft[stage]
    <3>1. stage \in DOMAIN Startup /\ (stage' = Startup[stage] \/ stage' = "exited")
      BY ZenonT(40), <1>3 DEF StartupStep, StartupFails, Starting
    <3>2. ASSUME NEW s \in DOMAIN Startup
          PROVE  /\ StartupLeft[Startup[s]] \in Int /\ StartupLeft[Startup[s]] < StartupLeft[s]
                 /\ StartupLeft["exited"] \in Int /\ StartupLeft["exited"] < StartupLeft[s]
      BY DEF Startup, StartupLeft
    <3>3. QED
      BY ZenonT(40), <3>1, <3>2
  <2>2. UNCHANGED <<GroupLeft, ListenerLeft("udp"), ListenerLeft("tcp"), shutdown, term>>
    BY <1>3 DEF StartupStep, StartupFails, GroupLeft, ListenerLeft
  <2>3. QED
    BY <2>1, <2>2, <1>1, <1>2
<1>4. ASSUME NEW ok \in BOOLEAN, WarmupProbe(ok)
      PROVE  StepsLeft' < StepsLeft
  <2>1. stage = "probe" /\ stage' = "running" /\ alive = {} /\ alive' = Goroutines
    BY <1>4 DEF WarmupProbe, TypeOK
  <2>2. StartupLeft[stage] = 8 /\ StartupLeft[stage'] = 1
    BY <2>1 DEF StartupLeft
  <2>3. GroupLeft = 0 /\ GroupLeft' = 6
    BY <2>1 DEF GroupLeft, One, Goroutines
  <2>4. UNCHANGED <<ListenerLeft("udp"), ListenerLeft("tcp"), shutdown, term>>
    BY <1>4 DEF WarmupProbe, ListenerLeft
  <2>5. QED
    BY <2>2, <2>3, <2>4, StepsNat DEF StepsLeft
<1>5. ASSUME NEW l \in Listeners, ListenerStarts(l) \/ ListenerFails(l)
      PROVE  StepsLeft' < StepsLeft
  <2>1. ListenerLeft(l)' \in Int /\ ListenerLeft(l)' < ListenerLeft(l)
    BY SMTT(30), Z3, <1>0, <1>5 DEF ListenerStarts, ListenerFails, ListenerLeft, One
  <2>2. \A k \in Listeners \ {l} : ListenerLeft(k)' = ListenerLeft(k)
    BY <1>0, <1>5 DEF ListenerStarts, ListenerFails, ListenerLeft
  <2>3. UNCHANGED <<stage, GroupLeft, shutdown, term>>
    BY <1>5 DEF ListenerStarts, ListenerFails, GroupLeft
  <2>4. QED
    BY <1>0, <2>1, <2>2, <2>3, <1>1, <1>2
<1>6. CASE ShutdownAdmin \/ ShutdownDNS
  <2>1. ShutdownLeft[shutdown'] \in Int /\ ShutdownLeft[shutdown'] < ShutdownLeft[shutdown]
    BY <1>6 DEF ShutdownAdmin, ShutdownDNS, ShutdownListener, ShutdownLeft
  <2>2. /\ ListenerLeft("udp")' \in Int /\ ListenerLeft("udp")' <= ListenerLeft("udp")
        /\ ListenerLeft("tcp")' \in Int /\ ListenerLeft("tcp")' <= ListenerLeft("tcp")
    <3>1. \A l \in Listeners : listener'[l] \in {listener[l], "closed"}
      BY <1>0, <1>6 DEF ShutdownAdmin, ShutdownDNS, ShutdownListener
    <3>2. QED
      BY <1>0, <3>1 DEF ListenerLeft, One
  <2>3. UNCHANGED <<stage, GroupLeft, term>>
    BY <1>6 DEF ShutdownAdmin, ShutdownDNS, ShutdownListener, GroupLeft
  <2>4. QED
    BY <2>1, <2>2, <2>3, <1>1, <1>2
<1>7. CASE \/ ServeReturns \/ ListenersReady \/ ReadyCancelled \/ ReadyTimesOut
           \/ AdminReturns \/ ShutdownReturns
           \/ \E g \in Goroutines : WorkerReturns(g)
  <2>1. PICK g \in Goroutines : g \in alive /\ alive' = alive \ {g}
    BY <1>7 DEF ServeReturns, ListenersReady, ReadyCancelled, ReadyTimesOut, AdminReturns,
                ShutdownReturns, WorkerReturns, Returns, Goroutines
  <2>2. UNCHANGED <<stage, term, listener, shutdown>>
    BY <1>7 DEF ServeReturns, ListenersReady, ReadyCancelled, ReadyTimesOut, AdminReturns,
                ShutdownReturns, WorkerReturns
  <2>3. UNCHANGED <<ListenerLeft("udp"), ListenerLeft("tcp")>>
    BY <2>2 DEF ListenerLeft
  <2>4. QED
    BY <2>1, <2>2, <2>3, GroupShrinks, StepsNat DEF StepsLeft
<1>8. CASE Exit
  <2>1. StartupLeft[stage] = 1 /\ StartupLeft[stage'] = 0
    BY <1>8 DEF Exit, StartupLeft
  <2>2. UNCHANGED <<GroupLeft, ListenerLeft("udp"), ListenerLeft("tcp"), shutdown, term>>
    BY <1>8 DEF Exit, GroupLeft, ListenerLeft
  <2>3. QED
    BY <2>1, <2>2, StepsNat DEF StepsLeft
<1>9. CASE Terminate
  <2>1. One(~term) = 1 /\ One(~term)' = 0
    BY <1>9 DEF Terminate, One
  <2>2. UNCHANGED <<stage, GroupLeft, ListenerLeft("udp"), ListenerLeft("tcp"), shutdown>>
    BY <1>9 DEF Terminate, GroupLeft, ListenerLeft
  <2>3. QED
    BY <2>1, <2>2, StepsNat DEF StepsLeft
<1>10. QED
  BY ZenonT(40), <1>3, <1>4, <1>5, <1>6, <1>7, <1>8, <1>9 DEF Next, Progress

\* The process takes at most 22 steps, the signal included: no goroutine of the group,
\* and no listener, starts over.
THEOREM ProcessIsBounded == Spec => [](StepsLeft \in 0 .. 22) /\ StepsRunOut
<1>1. TypeOK => StepsLeft \in 0 .. 22
  <2>. SUFFICES ASSUME TypeOK PROVE StepsLeft \in 0 .. 22
    OBVIOUS
  <2>. DEFINE a == StartupLeft[stage]
              b == GroupLeft
              c == ListenerLeft("udp")
              d == ListenerLeft("tcp")
              e == ShutdownLeft[shutdown]
              f == One(~term)
  <2>1. /\ a \in 0 .. 14 /\ b \in 0 .. 6 /\ c \in 0 .. 2 /\ d \in 0 .. 2
        /\ e \in 0 .. 3 /\ f \in 0 .. 1
    BY StepsNat
  <2>2. b = 0 \/ a = 1
    <3>1. CASE alive = {}
      BY <3>1 DEF GroupLeft, One
    <3>2. CASE alive # {}
      BY <3>2 DEF TypeOK, StartupLeft
    <3>3. QED
      BY <3>1, <3>2
  <2>3. StepsLeft = a + b + c + d + e + f
    BY DEF StepsLeft
  <2>. HIDE DEF a, b, c, d, e, f
  <2>4. QED
    BY <2>1, <2>2, <2>3
<1>2. TypeOK /\ TypeOK' /\ (StepsLeft \in 0 .. 22) /\ (StepsLeft \in 0 .. 22)' /\ [Next]_vars
        => [StepsLeft' \in 0 .. (StepsLeft - 1)]_vars
  <2>. SUFFICES ASSUME TypeOK, TypeOK', StepsLeft \in 0 .. 22, (StepsLeft \in 0 .. 22)', Next
                PROVE  StepsLeft' \in 0 .. (StepsLeft - 1)
    OBVIOUS
  <2>1. StepsLeft' < StepsLeft
    BY StepsFall
  <2>2. QED
    BY <2>1
<1>3. QED
  BY <1>1, <1>2, TypeCorrect, PTL DEF Spec, StepsRunOut

=============================================================================
