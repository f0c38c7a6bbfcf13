------------------------------- MODULE Stress -------------------------------
(***************************************************************************)
(* The stress harness: Run of internal/stress/orchestrator.go, the two     *)
(* processes it starts (mockupstream and bns), its wait for a bns that     *)
(* answers, the load, the two scrapes of the metrics and their difference, *)
(* the verdict, and the deferred termination of the processes.             *)
(*                                                                         *)
(* Whoever answers at the target address is the server.  It is the bns     *)
(* that Run started, once that one is ready, or a bns that was there       *)
(* before ("remote"), in which case a started one cannot bind and exits.   *)
(* What a bns does between its start and its readiness is in Lifecycle.    *)
(* dnspyre, os/exec and the processes are external.                        *)
(*                                                                         *)
(* What goes wrong by chance costs a fault: a call of the operating system *)
(* that fails, a process that dies, a lost datagram, the interruption of   *)
(* bns-stress.  What follows from the state is free.                       *)
(***************************************************************************)
EXTENDS Naturals

CONSTANTS
  Options,      \* what Run may be called with, and meet at the target address
  Needed,       \* probes in a row that WaitForDNSReady asks for
  MaxIOErrors,  \* cfg.MaxIOErrors
  MaxQueries,   \* bound: queries of the load
  MaxFaults     \* bound: faults

\* The flags that newServeCmd defines.
ServeFlags ==
  {"config", "listen.udp", "listen.tcp", "listen.query-timeout", "cache.capacity",
   "cache.min-ttl", "cache.max-ttl", "cache.negative-ttl-max", "admin.listen", "pprof",
   "logging.level", "logging.format", "logging.query-log", "shutdown-timeout",
   "startup-probe-timeout"}

\* Fields: spawn, cpu, heap, blocklist: cfg.Spawn, cfg.PprofCPU > 0, cfg.PprofHeap
\* and cfg.BlocklistPath # "";  accepts: the flags that the serve command of
\* cfg.BNSBin knows;  remote: a bns serves the target address already.
ASSUME StressAssumption ==
  /\ \A o \in Options : /\ {o.spawn, o.cpu, o.heap, o.blocklist, o.remote} \subseteq BOOLEAN
                        /\ ServeFlags \subseteq o.accepts
  /\ Needed \in Nat \ {0}
  /\ MaxIOErrors \in Nat /\ MaxQueries \in Nat /\ MaxFaults \in Nat

VARIABLES
  opts,        \* the options of this run
  pc,          \* the statement of Run
  err,         \* how Run returns
  files,       \* what is in cfg.OutDir, as far as it matters
  cancelled,   \* the context of Run is done
  child,       \* the state of the processes
  ready,       \* the bns that Run started answers
  ok,          \* successful probes in a row
  profile,     \* the goroutine that captures the CPU profile
  sent,        \* queries of the load
  waiting,     \* those whose client waits, and the server has not counted
  stray,       \* queries given up by their client and not yet counted
  answered,    \* queries of the load that were answered, by outcome
  ioErrors,    \* merged.Counters.IOError
  badIDs,      \* merged.Counters.IDmismatch
  handled,     \* bns_queries_total at the server, by outcome
  before,      \* the snapshots
  after,
  faults,
  down,        \* history: the server went away between the scrapes
  strayBefore  \* history: stray at the first scrape

loadVars == <<sent, waiting, answered, ioErrors, badIDs>>
runVars == <<err, files, ok, profile, before, after, strayBefore>>
vars == <<opts, pc, runVars, cancelled, child, ready, loadVars, stray, handled, faults, down>>

Children == {"mock", "bns"}
Outcomes == {"forwarded", "blocked"}
NoSnapshot == [o \in {} |-> 0]

Init ==
  /\ opts \in Options
  /\ pc = "prepare" /\ err = "none" /\ files = {}
  /\ cancelled = FALSE
  /\ child = [c \in Children |-> "none"]
  /\ ready = FALSE
  /\ ok = 0
  /\ profile = "none"
  /\ sent = 0 /\ waiting = 0 /\ stray = 0
  /\ answered = [o \in Outcomes |-> 0]
  /\ ioErrors = 0 /\ badIDs = 0
  /\ handled = [o \in Outcomes |-> IF opts.remote /\ o = "forwarded" THEN 1 ELSE 0]
  /\ before = NoSnapshot /\ after = NoSnapshot
  /\ faults = 0
  /\ down = FALSE /\ strayBefore = 0

\* A map gives zero for an outcome that it does not have.
Value(f, o) == IF o \in DOMAIN f THEN f[o] ELSE 0

Total(f) == Value(f, "forwarded") + Value(f, "blocked")

Running(c) == child[c] \in {"running", "interrupted"}

Serving == opts.remote \/ ready

BNSArgs ==
  {"listen.udp", "listen.tcp", "upstream", "pprof"}
    \cup (IF opts.blocklist THEN {"blocklist"} ELSE {})

\* The bns that Run starts knows its flags and finds its addresses free.
Viable == BNSArgs \subseteq opts.accepts /\ ~opts.remote

\* Somebody answers, or will if nothing goes wrong.
Expected == Serving \/ (Running("bns") /\ Viable)

Fault == faults < MaxFaults /\ faults' = faults + 1

\* Something that happens for a reason, or else by chance.
Because(reason) == (reason /\ UNCHANGED faults) \/ (~reason /\ Fault)

-----------------------------------------------------------------------------
(***************************************************************************)
(* The processes.                                                          *)
(***************************************************************************)

Ends(c) ==
  /\ Running(c)
  /\ child' = [child EXCEPT ![c] = "exited"]
  /\ ready' = (ready /\ c # "bns")
  /\ down' = (down \/ (c = "bns" /\ ready /\ ~opts.remote
                         /\ pc \in {"start", "load", "cpu", "heap", "after"}))

BnsReady ==
  /\ child["bns"] = "running"
  /\ Viable
  /\ ~ready
  /\ ready' = TRUE
  /\ UNCHANGED <<opts, pc, runVars, cancelled, child, loadVars, stray, handled, faults,
                 down>>

\* A process that ends on its own: bns at once if it is not viable.
Dies(c) ==
  /\ child[c] = "running"
  /\ Ends(c)
  /\ Because(c = "bns" /\ ~Viable)
  /\ UNCHANGED <<opts, pc, runVars, cancelled, loadVars, stray, handled>>

\* A process that was sent SIGINT may end, or take its time.
Obeys(c) ==
  /\ child[c] = "interrupted"
  /\ Ends(c)
  /\ UNCHANGED <<opts, pc, runVars, cancelled, loadVars, stray, handled, faults>>

\* bns-stress gets SIGINT or SIGTERM.
Cancel ==
  /\ pc # "done"
  /\ ~cancelled
  /\ cancelled' = TRUE
  /\ Fault
  /\ UNCHANGED <<opts, pc, runVars, child, ready, loadVars, stray, handled, down>>

\* exec.CommandContext kills the process when the context is done.
ContextKills(c) ==
  /\ cancelled
  /\ Ends(c)
  /\ UNCHANGED <<opts, pc, runVars, cancelled, loadVars, stray, handled, faults>>

-----------------------------------------------------------------------------
(***************************************************************************)
(* Run up to the load.                                                     *)
(***************************************************************************)

Goto(from, to) == pc = from /\ pc' = to

\* Run returns e: its deferred functions run, last registered first.
Return(e) == pc' = "stopBns" /\ err' = e

\* Run returns an error without having started or measured anything more.
Fails(from, reason) ==
  /\ pc = from
  /\ Because(reason)
  /\ Return("error")
  /\ UNCHANGED <<opts, files, ok, profile, before, after, strayBefore, cancelled, child,
                 ready, loadVars, stray, handled, down>>

\* Validate, LookupScenario, the output directory and the two logs.
Prepare ==
  /\ Goto("prepare", IF opts.spawn THEN "startMock" ELSE "readyz")
  /\ UNCHANGED <<opts, runVars, cancelled, child, ready, loadVars, stray, handled,
                 faults, down>>

PrepareFails == Fails("prepare", FALSE)

Start(c, from, to) ==
  /\ Goto(from, to)
  /\ ~cancelled
  /\ child' = [child EXCEPT ![c] = "running"]
  /\ UNCHANGED <<opts, runVars, cancelled, ready, loadVars, stray, handled, faults, down>>

StartMock == Start("mock", "startMock", "startBns")

\* Start fails too when the context is done.
StartMockFails == Fails("startMock", cancelled)

StartBns == Start("bns", "startBns", "readyz")

\* Variant: the termination of the mock is deferred after the start of bns.
StartBnsFailsBare ==
  /\ pc = "startBns"
  /\ Because(cancelled)
  /\ pc' = "done"
  /\ err' = "error"
  /\ UNCHANGED <<opts, files, ok, profile, before, after, strayBefore, cancelled, child,
                 ready, loadVars, stray, handled, down>>

StartBnsFails == Fails("startBns", cancelled)

\* /readyz answers 200.
WaitForReady ==
  /\ Goto("readyz", "dns")
  /\ Serving
  /\ ~cancelled
  /\ UNCHANGED <<opts, runVars, cancelled, child, ready, loadVars, stray, handled,
                 faults, down>>

\* Variant: the first answer other than 200 ends the wait.
WaitForReadyFailsEarly == Fails("readyz", cancelled \/ ~Serving)

\* Ten seconds are over, or the context is done.
WaitForReadyFails == Fails("readyz", cancelled \/ ~Expected)

Handles(o) == handled' = [handled EXCEPT ![o] = @ + 1]

ProbeAnswered(o) ==
  /\ pc = "dns"
  /\ Serving
  /\ ~cancelled
  /\ Handles(o)
  /\ ok' = ok + 1
  /\ pc' = IF ok' >= Needed THEN "before" ELSE "dns"
  /\ UNCHANGED <<opts, err, files, profile, before, after, strayBefore, cancelled, child,
                 ready, loadVars, stray, faults, down>>

\* No answer within a second; the server may still get to the query.
ProbeLost ==
  /\ pc = "dns"
  /\ Because(~Serving)
  /\ ok' = 0
  /\ stray' \in IF Serving THEN {stray, stray + 1} ELSE {stray}
  /\ UNCHANGED <<opts, pc, err, files, profile, before, after, strayBefore, cancelled,
                 child, ready, loadVars, handled, down>>

WaitForDNSReadyFails == Fails("dns", cancelled \/ ~Expected)

\* ParseSnapshot: the series of an outcome exists once it was counted, and the
\* series of all query types are added up.
Parsed == [o \in {p \in Outcomes : handled[p] > 0} |-> handled[o]]

ScrapeBefore ==
  /\ Goto("before", "start")
  /\ Serving
  /\ before' = Parsed
  /\ strayBefore' = stray
  /\ UNCHANGED <<opts, err, files, ok, profile, after, cancelled, child, ready, loadVars,
                 stray, handled, faults, down>>

ScrapeBeforeFails == Fails("before", ~Serving)

-----------------------------------------------------------------------------
(***************************************************************************)
(* The load.                                                               *)
(***************************************************************************)

\* Variant: nothing is sent on pprofErr when there is no profile to take.
StartLoadUnsignalled ==
  /\ Goto("start", "load")
  /\ profile' = IF opts.cpu THEN "running" ELSE "none"
  /\ UNCHANGED <<opts, err, files, ok, before, after, strayBefore, cancelled, child, ready,
                 loadVars, stray, handled, faults, down>>

\* pprofErr has a value when profile is "done": at once if no profile is asked for.
StartLoad ==
  /\ Goto("start", "load")
  /\ profile' = IF opts.cpu THEN "running" ELSE "done"
  /\ UNCHANGED <<opts, err, files, ok, before, after, strayBefore, cancelled, child, ready,
                 loadVars, stray, handled, faults, down>>

\* expandFileRefs cannot read the file of queries.
ExpandFails == Fails("start", FALSE)

\* capturePprof returns, with or without an error.
ProfileEnds ==
  /\ profile = "running"
  /\ profile' = "done"
  /\ UNCHANGED <<opts, pc, err, files, ok, before, after, strayBefore, cancelled, child,
                 ready, loadVars, stray, handled, faults, down>>

Send ==
  /\ pc = "load"
  /\ sent < MaxQueries
  /\ sent' = sent + 1
  /\ waiting' = waiting + 1
  /\ UNCHANGED <<opts, pc, runVars, cancelled, child, ready, stray, answered, ioErrors,
                 badIDs, handled, faults, down>>

\* The metrics stage counts the query, and its answer arrives; by a fault with
\* another id.
Answer(o) ==
  /\ pc = "load"
  /\ waiting > 0
  /\ Serving
  /\ waiting' = waiting - 1
  /\ Handles(o)
  /\ \/ /\ answered' = [answered EXCEPT ![o] = @ + 1]
        /\ UNCHANGED <<badIDs, faults>>
     \/ badIDs' = badIDs + 1 /\ Fault /\ UNCHANGED answered
  /\ UNCHANGED <<opts, pc, runVars, cancelled, child, ready, sent, ioErrors, stray, down>>

\* The client gives up n queries, and the server may get to them later.
GiveUp(n) ==
  /\ ioErrors' = ioErrors + n
  /\ waiting' = waiting - n
  /\ stray' = IF Serving THEN stray + n ELSE stray
  /\ UNCHANGED <<sent, answered, badIDs>>

TimesOut ==
  /\ pc = "load"
  /\ waiting > 0
  /\ Because(~Serving)
  /\ GiveUp(1)
  /\ UNCHANGED <<opts, pc, runVars, cancelled, child, ready, handled, down>>

\* The duration is over: dnspyre counts what is under way as I/O errors.
LoadEnds ==
  /\ Goto("load", "cpu")
  /\ GiveUp(waiting)
  /\ UNCHANGED <<opts, runVars, cancelled, child, ready, handled, faults, down>>

LoadFails == Fails("load", FALSE)

\* The server gets to a query that nobody waits for.
HandleStray(o) ==
  /\ stray > 0
  /\ Serving
  /\ stray' = stray - 1
  /\ Handles(o)
  /\ UNCHANGED <<opts, pc, runVars, cancelled, child, ready, loadVars, faults, down>>

-----------------------------------------------------------------------------
(***************************************************************************)
(* Run after the load.                                                     *)
(***************************************************************************)

CollectProfile ==
  /\ Goto("cpu", IF opts.heap THEN "heap" ELSE "after")
  /\ profile = "done"
  /\ UNCHANGED <<opts, runVars, cancelled, child, ready, loadVars, stray, handled,
                 faults, down>>

\* Its error, like that of the CPU profile, only leaves a file.
CaptureHeap ==
  /\ Goto("heap", "after")
  /\ UNCHANGED <<opts, runVars, cancelled, child, ready, loadVars, stray, handled,
                 faults, down>>

ScrapeAfter ==
  /\ Goto("after", "report")
  /\ Serving
  /\ after' = Parsed
  /\ UNCHANGED <<opts, err, files, ok, profile, before, strayBefore, cancelled, child,
                 ready, loadVars, stray, handled, faults, down>>

\* Variant: a scrape that fails leaves an empty snapshot.
ScrapeAfterFailsOn ==
  /\ Goto("after", "report")
  /\ Because(~Serving)
  /\ UNCHANGED <<opts, runVars, cancelled, child, ready, loadVars, stray, handled, down>>

ScrapeAfterFails == Fails("after", ~Serving)

\* Variant: the outcomes are those of the first snapshot.
DiffOfBefore(b, a) == [o \in DOMAIN b |-> Value(a, o) - b[o]]

Diff(b, a) == [o \in DOMAIN a |-> a[o] - Value(b, o)]

Report ==
  /\ Goto("report", "verdict")
  /\ files' = files \cup {"report.md"}
  /\ UNCHANGED <<opts, err, ok, profile, before, after, strayBefore, cancelled, child,
                 ready, loadVars, stray, handled, faults, down>>

ReportFails == Fails("report", FALSE)

Verdict ==
  /\ pc = "verdict"
  /\ IF ioErrors > MaxIOErrors \/ badIDs > 0
       THEN Return("correctness") /\ files' = files \cup {"FAILED"}
       ELSE Return("none") /\ UNCHANGED files
  /\ UNCHANGED <<opts, ok, profile, before, after, strayBefore, cancelled, child, ready,
                 loadVars, stray, handled, faults, down>>

-----------------------------------------------------------------------------
(***************************************************************************)
(* terminate, deferred for each process that was started.                  *)
(***************************************************************************)

Stage(c) == IF c = "bns" THEN "stopBns" ELSE "stopMock"

AfterStage(c) == IF c = "bns" THEN "stopMock" ELSE "done"

NotStarted(c) ==
  /\ Goto(Stage(c), AfterStage(c))
  /\ child[c] = "none"
  /\ UNCHANGED <<opts, runVars, cancelled, child, ready, loadVars, stray, handled,
                 faults, down>>

Interrupt(c) ==
  /\ pc = Stage(c)
  /\ child[c] = "running"
  /\ child' = [child EXCEPT ![c] = "interrupted"]
  /\ UNCHANGED <<opts, pc, runVars, cancelled, ready, loadVars, stray, handled, faults,
                 down>>

\* Variant: no SIGKILL.
KillNever(c) == FALSE /\ UNCHANGED vars

\* Ten seconds after SIGINT.
Kill(c) ==
  /\ pc = Stage(c)
  /\ child[c] = "interrupted"
  /\ Ends(c)
  /\ UNCHANGED <<opts, pc, runVars, cancelled, loadVars, stray, handled, faults>>

\* cmd.Wait returns.
Reap(c) ==
  /\ Goto(Stage(c), AfterStage(c))
  /\ child[c] = "exited"
  /\ child' = [child EXCEPT ![c] = "reaped"]
  /\ UNCHANGED <<opts, runVars, cancelled, ready, loadVars, stray, handled, faults, down>>

-----------------------------------------------------------------------------

\* What Run, its profiler and the timeouts do by themselves.
Step ==
  \/ Prepare \/ StartMock \/ StartBns \/ WaitForReady \/ ScrapeBefore \/ StartLoad
  \/ \E o \in Outcomes : ProbeAnswered(o)
  \/ LoadEnds \/ ProfileEnds \/ CollectProfile \/ CaptureHeap
  \/ ScrapeAfter \/ Report \/ Verdict
  \/ \E c \in Children : NotStarted(c) \/ Interrupt(c) \/ Kill(c) \/ Reap(c)

\* A step of Run that fails.
Failure ==
  \/ PrepareFails \/ StartMockFails \/ StartBnsFails \/ WaitForReadyFails
  \/ WaitForDNSReadyFails \/ ScrapeBeforeFails \/ ExpandFails \/ LoadFails
  \/ ScrapeAfterFails \/ ReportFails

Environment ==
  \/ BnsReady \/ Cancel \/ Send \/ TimesOut \/ ProbeLost
  \/ \E c \in Children : Dies(c) \/ Obeys(c) \/ ContextKills(c)
  \/ \E o \in Outcomes : Answer(o) \/ HandleStray(o)

Next == Step \/ Failure \/ Environment

Spec == Init /\ [][Next]_vars

\* Run goes on when it can; a bns that can start does, and one that cannot ends;
\* a step that can only fail does so, since every wait of Run has a deadline.
FairSpec ==
  /\ Spec
  /\ WF_vars(Step)
  /\ WF_vars(BnsReady)
  /\ WF_vars(Dies("bns") /\ faults' = faults)
  /\ WF_vars(Failure /\ faults' = faults)

-----------------------------------------------------------------------------
(***************************************************************************)
(* Properties.                                                             *)
(***************************************************************************)

\* Whatever way Run ends, no process it started is left, not even as a zombie,
\* and mockupstream is not told to stop while bns may still ask it.
NoChildLeft ==
  /\ pc = "done" => \A c \in Children : child[c] \in {"none", "reaped"}
  /\ child["mock"] \in {"interrupted", "reaped"} => child["bns"] \in {"none", "reaped"}

\* What a Run that returns no error vouches for: there is a report and no FAILED, the
\* errors are within the limit, every query that was sent is accounted for, and where
\* the bns that Run started is the one it measured, that bns was there from the first
\* scrape to the second.  It does not vouch for the length of the load: one that was
\* interrupted, or whose mock has died, passes too.
VerdictSound ==
  pc = "done" /\ err = "none" =>
    /\ files = {"report.md"}
    /\ ioErrors <= MaxIOErrors /\ badIDs = 0
    /\ sent = answered["forwarded"] + answered["blocked"] + ioErrors
    /\ ~down

\* What the report says that the server handled covers every answer the load got,
\* outcome by outcome, and exceeds what the load asked for by no more than the
\* probes whose answer came too late.
DiffCoversAnswers ==
  pc = "verdict" =>
    LET d == Diff(before, after)
    IN /\ \A o \in Outcomes : answered[o] > 0 => o \in DOMAIN d /\ answered[o] <= d[o]
       /\ Total(d) <= sent + strayBefore

\* There is a bns that can serve: one that is there already, or that Run starts with
\* flags that it knows.
CanServe == opts.remote \/ (opts.spawn /\ BNSArgs \subseteq opts.accepts)

\* Nothing in Run fails unless something around it has: with a bns that can serve,
\* a run without a fault reaches its verdict.
RunCompletes ==
  pc = "done" /\ faults = 0 /\ CanServe => err \in {"none", "correctness"}

\* A run in which nothing goes wrong by chance leaves its verdict behind: the report
\* that TestStress_MiniRun requires of the repository's own bns, or the marker that the
\* design of the harness asks for when "any subprocess" exits early.
RunLeavesVerdict ==
  pc = "done" /\ faults = 0 => "report.md" \in files \/ "FAILED" \in files

\* Run always returns: no wait of it is without a deadline, neither that for the
\* profile nor that for a process that ignores SIGINT.
RunReturns == <>(pc = "done")

=============================================================================
