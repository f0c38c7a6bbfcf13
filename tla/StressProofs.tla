---------------------------- MODULE StressProofs ----------------------------
(***************************************************************************)
(* What Run promises when it returns, whatever the options, the probes and *)
(* the number of queries and faults, and in whichever order processes die, *)
(* are killed by the context and are told to stop.                         *)
(*                                                                         *)
(* NoChildLeft speaks of the end of Run and of the moment the mock is told *)
(* to stop.  What carries it there is that a process is started before Run *)
(* returns, and that the deferred functions run one after the other, that  *)
(* of bns first (StopOrder).  VerdictSound speaks of a Run that found no   *)
(* fault: every query is in one of the counters at every step of the load  *)
(* (Accounted), and a bns that went away stays away, so that the second    *)
(* scrape fails (Measured).  DiffCoversAnswers compares snapshots taken at *)
(* two times: in between, what the server has counted and what is still to *)
(* be counted never exceed what was asked (Covered).  RunCompletes is      *)
(* about a bns that can serve; the theorem after it shows that the one of  *)
(* this repository cannot.  The last two are what RunReturns rests on      *)
(* apart from fairness: Run is never stuck, and only a probe that found    *)
(* nothing leaves it where it was.                                         *)
(***************************************************************************)
EXTENDS Stress, TLAPS

\* The provers a leaf is tried with, in this order.
USE ZenonT(40), SMTT(30), Z3

States == {"none", "running", "interrupted", "exited", "reaped"}

Gone == {"none", "reaped"}

\* Where Run stands when it stops its processes, and what is left of them then.
StopOrder ==
  /\ child \in [Children -> States]
  /\ pc \in {"stopMock", "done"} => child["bns"] \in Gone
  /\ pc = "done" => child["mock"] \in Gone
  /\ child["mock"] \in {"interrupted", "reaped"} => pc \in {"stopMock", "done"}

-----------------------------------------------------------------------------

\* A step that leaves the processes alone, and does not go past terminate.
LEMMA Elsewhere ==
  ASSUME StopOrder, UNCHANGED child, pc' = pc \/ (pc \notin {"stopMock", "done"}
                                                   /\ pc' \notin {"stopMock", "done"})
  PROVE  StopOrder'
BY DEF StopOrder

\* A process ends: it was running, or had been told to stop.
LEMMA EndsInOrder ==
  ASSUME StopOrder, NEW c \in Children, Ends(c), UNCHANGED pc
  PROVE  StopOrder'
BY DEF StopOrder, Ends, Running, Children, States, Gone

\* A process is started: Run has not returned.
LEMMA StartsInOrder ==
  ASSUME StopOrder, StartMock \/ StartBns
  PROVE  StopOrder'
BY DEF StopOrder, StartMock, StartBns, Start, Goto, Children, States, Gone

\* terminate of one process.
LEMMA StopsInOrder ==
  ASSUME StopOrder, NEW c \in Children, NotStarted(c) \/ Interrupt(c) \/ Reap(c)
  PROVE  StopOrder'
<1>1. CASE c = "bns"
  BY <1>1 DEF StopOrder, NotStarted, Interrupt, Reap, Goto, Stage, AfterStage, Children,
              States, Gone
<1>2. CASE c = "mock"
  BY <1>2 DEF StopOrder, NotStarted, Interrupt, Reap, Goto, Stage, AfterStage, Children,
              States, Gone
<1>3. QED
  BY <1>1, <1>2 DEF Children

\* The steps of Run but for those of terminate.
LEMMA RunInOrder ==
  ASSUME StopOrder,
         \/ Prepare \/ WaitForReady \/ ScrapeBefore \/ StartLoad
         \/ \E o \in Outcomes : ProbeAnswered(o)
         \/ LoadEnds \/ ProfileEnds \/ CollectProfile \/ CaptureHeap
         \/ ScrapeAfter \/ Report \/ Verdict
  PROVE  StopOrder'
<1>1. CASE Prepare \/ WaitForReady \/ ScrapeBefore \/ StartLoad
  BY <1>1, Elsewhere DEF Prepare, WaitForReady, ScrapeBefore, StartLoad, Goto
<1>2. ASSUME NEW o \in Outcomes, ProbeAnswered(o) PROVE StopOrder'
  BY <1>2, Elsewhere DEF ProbeAnswered
<1>3. CASE LoadEnds \/ ProfileEnds \/ CollectProfile \/ CaptureHeap
  BY <1>3, Elsewhere DEF LoadEnds, ProfileEnds, CollectProfile, CaptureHeap, Goto, runVars
<1>4. CASE ScrapeAfter \/ Report \/ Verdict
  BY <1>4, Elsewhere DEF ScrapeAfter, Report, Verdict, Goto, Return
<1>5. QED
  BY <1>1, <1>2, <1>3, <1>4

\* A step of Run that fails returns, and terminate of bns is next.
LEMMA FailureInOrder ==
  ASSUME StopOrder, Failure
  PROVE  StopOrder'
<1>1. ASSUME NEW from, NEW reason, from \notin {"stopMock", "done"}, Fails(from, reason)
      PROVE  StopOrder'
  BY <1>1, Elsewhere DEF Fails, Return
<1>2. QED
  BY <1>1 DEF Failure, PrepareFails, StartMockFails, StartBnsFails, WaitForReadyFails,
              WaitForDNSReadyFails, ScrapeBeforeFails, ExpandFails, LoadFails,
              ScrapeAfterFails, ReportFails

\* What the processes, the network and the user do.
LEMMA EnvironmentInOrder ==
  ASSUME StopOrder, Environment
  PROVE  StopOrder'
<1>1. CASE BnsReady \/ Cancel \/ Send \/ TimesOut \/ ProbeLost
  BY <1>1, Elsewhere DEF BnsReady, Cancel, Send, TimesOut, ProbeLost
<1>2. ASSUME NEW c \in Children, Dies(c) \/ Obeys(c) \/ ContextKills(c)
      PROVE  StopOrder'
  BY <1>2, EndsInOrder DEF Dies, Obeys, ContextKills
<1>3. ASSUME NEW o \in Outcomes, Answer(o) \/ HandleStray(o)
      PROVE  StopOrder'
  BY <1>3, Elsewhere DEF Answer, HandleStray
<1>4. QED
  BY <1>1, <1>2, <1>3 DEF Environment

\* Every step keeps the order.
LEMMA NextInOrder == StopOrder /\ [Next]_vars => StopOrder'
<1>. SUFFICES ASSUME StopOrder, [Next]_vars PROVE StopOrder'
  OBVIOUS
<1>1. ASSUME NEW c \in Children, Kill(c) PROVE StopOrder'
  BY <1>1, EndsInOrder DEF Kill
<1>2. CASE Step
  BY <1>1, <1>2, RunInOrder, StartsInOrder, StopsInOrder DEF Step
<1>3. CASE UNCHANGED vars
  BY <1>3, Elsewhere DEF vars
<1>4. QED
  BY <1>2, <1>3, FailureInOrder, EnvironmentInOrder DEF Next

\* However Run ends (an error at any statement, an interruption, a bns that dies or
\* ignores SIGINT), it leaves no process, and stops the mock after bns.
THEOREM ChildrenAreReaped == Spec => []NoChildLeft
<1>1. Init => StopOrder
  BY DEF Init, StopOrder, Children, States, Gone
<1>2. StopOrder => NoChildLeft
  BY DEF StopOrder, NoChildLeft, Children, Gone
<1>3. QED
  BY <1>1, <1>2, NextInOrder, PTL DEF Spec

-----------------------------------------------------------------------------
(***************************************************************************)
(* The verdict.                                                            *)
(***************************************************************************)

Stopping == {"stopBns", "stopMock", "done"}

Counting == {"start", "load", "cpu", "heap", "after"}

\* Every query of the load is answered, refused for its id, lost or under way, and
\* none is under way once the load is over.
Accounted ==
  /\ sent \in Nat /\ waiting \in Nat /\ ioErrors \in Nat /\ badIDs \in Nat
  /\ answered \in [Outcomes -> Nat]
  /\ sent = answered["forwarded"] + answered["blocked"] + ioErrors + badIDs + waiting
  /\ pc \in {"cpu", "heap", "after", "report", "verdict"} => waiting = 0

\* How Run gets from a bns that is there to a verdict.
Measured ==
  /\ ready \in BOOLEAN /\ down \in BOOLEAN
  /\ pc \notin Stopping => err = "none"
  /\ pc \notin Stopping \cup {"verdict"} => files = {}
  /\ pc = "verdict" => files = {"report.md"}
  /\ down => /\ ~ready /\ ~opts.remote /\ child["bns"] \in {"exited", "reaped"}
             /\ pc \in Counting \/ err = "error"
  /\ pc \in Stopping /\ err = "none" =>
       files = {"report.md"} /\ ioErrors <= MaxIOErrors /\ badIDs = 0 /\ waiting = 0

VerdictInv == StopOrder /\ Accounted /\ Measured

\* A step outside the load leaves the counters alone.
LEMMA AccountedElsewhere ==
  ASSUME Accounted, UNCHANGED loadVars,
         pc' \in {"cpu", "heap", "after", "report", "verdict"} =>
           pc \in {"cpu", "heap", "after", "report", "verdict"}
  PROVE  Accounted'
BY DEF Accounted, loadVars

\* A step that neither ends Run nor its bns.
LEMMA MeasuredElsewhere ==
  ASSUME Measured, UNCHANGED <<opts, err, files, ready, down, child>>,
         pc \notin Stopping, pc' \notin Stopping \cup {"verdict"}, pc # "verdict",
         pc \in Counting => pc' \in Counting \/ ready \/ opts.remote
  PROVE  Measured'
BY DEF Measured, Stopping, Counting

\* A query is sent, answered or given up.
LEMMA LoadAccounted ==
  ASSUME Accounted, \/ Send \/ TimesOut \/ LoadEnds
                    \/ \E o \in Outcomes : Answer(o)
  PROVE  Accounted'
<1>1. CASE Send
  BY SMTT(30), Z3, <1>1 DEF Accounted, Send, Outcomes
<1>2. CASE TimesOut
  BY SMTT(30), Z3, <1>2 DEF Accounted, TimesOut, GiveUp, Outcomes
<1>3. CASE LoadEnds
  BY SMTT(30), Z3, <1>3 DEF Accounted, LoadEnds, GiveUp, Goto, Outcomes
<1>4. ASSUME NEW o \in Outcomes, Answer(o) PROVE Accounted'
  <2>1. /\ pc = "load" /\ pc' = pc /\ waiting > 0 /\ waiting' = waiting - 1
        /\ UNCHANGED <<sent, ioErrors>>
    BY <1>4 DEF Answer
  <2>2. CASE answered' = [answered EXCEPT ![o] = @ + 1] /\ UNCHANGED badIDs
    <3>1. CASE o = "forwarded"
      BY <2>1, <2>2, <3>1 DEF Accounted, Outcomes
    <3>2. CASE o = "blocked"
      BY <2>1, <2>2, <3>2 DEF Accounted, Outcomes
    <3>3. QED
      BY <3>1, <3>2 DEF Outcomes
  <2>3. CASE badIDs' = badIDs + 1 /\ UNCHANGED answered
    BY SMTT(30), Z3, <2>1, <2>3 DEF Accounted, Outcomes
  <2>4. QED
    BY <1>4, <2>2, <2>3 DEF Answer
<1>5. QED
  BY <1>1, <1>2, <1>3, <1>4

\* A process ends.
LEMMA EndsMeasured ==
  ASSUME VerdictInv, NEW c \in Children, Ends(c), UNCHANGED <<opts, pc, runVars, loadVars>>
  PROVE  (Accounted /\ Measured)'
<1>1. Accounted'
  BY AccountedElsewhere DEF VerdictInv
<1>2. UNCHANGED <<err, files, ioErrors, badIDs, waiting>>
  BY DEF runVars, loadVars
<1>3. CASE c = "bns"
  BY <1>1, <1>2, <1>3 DEF VerdictInv, Measured, StopOrder, Ends, Running, Children, Counting,
                          Stopping
<1>4. CASE c = "mock"
  BY <1>1, <1>2, <1>4 DEF VerdictInv, Measured, StopOrder, Ends, Running, Children
<1>5. QED
  BY <1>3, <1>4 DEF Children

\* Run starts a process: nothing has been measured.
LEMMA StartsMeasured ==
  ASSUME VerdictInv, StartMock \/ StartBns
  PROVE  (Accounted /\ Measured)'
<1>1. Accounted'
  BY AccountedElsewhere DEF VerdictInv, StartMock, StartBns, Start, Goto
<1>2. /\ pc \in {"startMock", "startBns"} /\ pc' \in {"startBns", "readyz"}
      /\ UNCHANGED <<opts, err, files, ready, down, ioErrors, badIDs, waiting>>
  BY DEF StartMock, StartBns, Start, Goto, runVars, loadVars
<1>3. ~down
  BY <1>2 DEF VerdictInv, Measured, Stopping, Counting
<1>4. QED
  BY <1>1, <1>2, <1>3 DEF VerdictInv, Measured, Stopping

\* terminate of a process.
LEMMA StopsMeasured ==
  ASSUME VerdictInv, NEW c \in Children, NotStarted(c) \/ Interrupt(c) \/ Reap(c)
  PROVE  (Accounted /\ Measured)'
<1>1. /\ pc \in Stopping /\ pc' \in Stopping
      /\ UNCHANGED <<opts, runVars, loadVars, ready, down>>
      /\ child["bns"] \in {"exited", "reaped"} => child'["bns"] \in {"exited", "reaped"}
  <2>1. child \in [Children -> States]
    BY DEF VerdictInv, StopOrder
  <2>2. QED
    BY <2>1 DEF NotStarted, Interrupt, Reap, Goto, Stage, AfterStage, Children, Stopping
<1>2. UNCHANGED <<err, files, ioErrors, badIDs, waiting>>
  BY <1>1 DEF runVars, loadVars
<1>3. Accounted'
  BY <1>1, AccountedElsewhere DEF VerdictInv, Stopping
<1>4. QED
  BY <1>1, <1>2, <1>3 DEF VerdictInv, Measured, Stopping, Counting

\* The steps of Run up to the verdict.
LEMMA RunMeasured ==
  ASSUME VerdictInv,
         \/ Prepare \/ WaitForReady \/ ScrapeBefore \/ StartLoad
         \/ \E o \in Outcomes : ProbeAnswered(o)
         \/ LoadEnds \/ ProfileEnds \/ CollectProfile \/ CaptureHeap
         \/ ScrapeAfter \/ Report \/ Verdict
  PROVE  (Accounted /\ Measured)'
<1>0. Accounted /\ Measured
  BY DEF VerdictInv
<1>1. CASE \/ Prepare \/ WaitForReady \/ ScrapeBefore \/ StartLoad
           \/ \E o \in Outcomes : ProbeAnswered(o)
  <2>1. /\ pc \in {"prepare", "readyz", "dns", "before", "start"}
        /\ pc' \in {"startMock", "readyz", "dns", "before", "start", "load"}
        /\ pc = "start" => pc' = "load"
        /\ UNCHANGED <<opts, err, files, ready, down, child, loadVars>>
    BY <1>1 DEF Prepare, WaitForReady, ScrapeBefore, StartLoad, ProbeAnswered, Goto, runVars
  <2>2. QED
    BY <1>0, <2>1, AccountedElsewhere, MeasuredElsewhere DEF Stopping, Counting
<1>2. CASE ProfileEnds
  <2>1. UNCHANGED <<opts, pc, err, files, ready, down, child, loadVars>>
    BY <1>2 DEF ProfileEnds
  <2>2. QED
    BY <1>0, <2>1, AccountedElsewhere DEF Measured, loadVars
<1>3. CASE LoadEnds
  <2>1. /\ pc = "load" /\ pc' = "cpu"
        /\ UNCHANGED <<opts, err, files, ready, down, child>>
    BY <1>3 DEF LoadEnds, Goto, runVars
  <2>2. QED
    BY <1>0, <1>3, <2>1, LoadAccounted, MeasuredElsewhere DEF Stopping, Counting
<1>4. CASE CollectProfile \/ CaptureHeap \/ ScrapeAfter
  <2>1. /\ pc \in {"cpu", "heap", "after"} /\ pc' \in {"heap", "after", "report"}
        /\ pc' = "report" => ready \/ opts.remote
        /\ UNCHANGED <<opts, err, files, ready, down, child, loadVars>>
    BY <1>4 DEF CollectProfile, CaptureHeap, ScrapeAfter, Goto, runVars, Serving
  <2>2. QED
    BY <1>0, <2>1, AccountedElsewhere, MeasuredElsewhere DEF Stopping, Counting
<1>5. CASE Report
  <2>1. /\ pc = "report" /\ pc' = "verdict" /\ files' = files \cup {"report.md"}
        /\ UNCHANGED <<opts, err, ready, down, child, loadVars>>
    BY <1>5 DEF Report, Goto
  <2>2. QED
    BY <1>0, <2>1, AccountedElsewhere DEF Measured, Stopping, Counting
<1>6. CASE Verdict
  <2>1. /\ pc = "verdict" /\ pc' = "stopBns"
        /\ UNCHANGED <<opts, ready, down, child, loadVars>>
        /\ \/ err' = "correctness"
           \/ err' = "none" /\ files' = files /\ ~(ioErrors > MaxIOErrors) /\ ~(badIDs > 0)
    BY <1>6 DEF Verdict, Return
  <2>2. /\ files = {"report.md"} /\ waiting = 0 /\ ~down
        /\ UNCHANGED <<ioErrors, badIDs, waiting>>
    BY <1>0, <2>1 DEF Measured, Accounted, Stopping, Counting, loadVars
  <2>3. ~(ioErrors > MaxIOErrors) /\ ~(badIDs > 0) => ioErrors <= MaxIOErrors /\ badIDs = 0
    BY <1>0, StressAssumption DEF Accounted
  <2>4. Accounted'
    BY <1>0, <2>1, AccountedElsewhere
  <2>5. QED
    BY <1>0, <2>1, <2>2, <2>3, <2>4 DEF Measured, Stopping
<1>7. QED
  BY <1>1, <1>2, <1>3, <1>4, <1>5, <1>6

\* A step of Run that fails returns an error.
LEMMA FailureMeasured ==
  ASSUME VerdictInv, Failure
  PROVE  (Accounted /\ Measured)'
<1>1. ASSUME NEW from, NEW reason, Fails(from, reason)
      PROVE  (Accounted /\ Measured)'
  <2>1. /\ pc' = "stopBns" /\ err' = "error"
        /\ UNCHANGED <<opts, ready, down, child, loadVars>>
    BY <1>1 DEF Fails, Return
  <2>2. QED
    BY <2>1, AccountedElsewhere DEF VerdictInv, Measured, Stopping
<1>2. QED
  BY <1>1 DEF Failure, PrepareFails, StartMockFails, StartBnsFails, WaitForReadyFails,
              WaitForDNSReadyFails, ScrapeBeforeFails, ExpandFails, LoadFails,
              ScrapeAfterFails, ReportFails

\* What the processes, the network and the user do.
LEMMA EnvironmentMeasured ==
  ASSUME VerdictInv, Environment
  PROVE  (Accounted /\ Measured)'
<1>0. Accounted /\ Measured
  BY DEF VerdictInv
<1>1. CASE BnsReady
  <2>1. /\ child["bns"] = "running" /\ ready' = TRUE
        /\ UNCHANGED <<opts, pc, err, files, down, child, loadVars>>
    BY <1>1 DEF BnsReady, runVars
  <2>2. QED
    BY <1>0, <2>1, AccountedElsewhere DEF Measured, loadVars
<1>2. CASE Cancel \/ ProbeLost \/ \E o \in Outcomes : HandleStray(o)
  <2>1. UNCHANGED <<opts, pc, err, files, ready, down, child, loadVars>>
    BY <1>2 DEF Cancel, ProbeLost, HandleStray, runVars
  <2>2. QED
    BY <1>0, <2>1, AccountedElsewhere DEF Measured, loadVars
<1>3. CASE Send \/ TimesOut \/ \E o \in Outcomes : Answer(o)
  <2>1. pc = "load" /\ UNCHANGED <<opts, pc, err, files, ready, down, child>>
    BY <1>3 DEF Send, TimesOut, Answer, runVars
  <2>2. QED
    BY <1>0, <1>3, <2>1, LoadAccounted, MeasuredElsewhere DEF Stopping, Counting
<1>4. ASSUME NEW c \in Children, Dies(c) \/ Obeys(c) \/ ContextKills(c)
      PROVE  (Accounted /\ Measured)'
  BY <1>4, EndsMeasured DEF Dies, Obeys, ContextKills
<1>5. QED
  BY <1>1, <1>2, <1>3, <1>4 DEF Environment

\* Every step keeps the invariant.
LEMMA NextMeasured == VerdictInv /\ [Next]_vars => VerdictInv'
<1>. SUFFICES ASSUME VerdictInv, [Next]_vars PROVE VerdictInv'
  OBVIOUS
<1>1. StopOrder'
  BY NextInOrder DEF VerdictInv
<1>2. ASSUME NEW c \in Children, Kill(c) PROVE (Accounted /\ Measured)'
  BY <1>2, EndsMeasured DEF Kill
<1>3. ASSUME Step PROVE (Accounted /\ Measured)'
  BY <1>2, <1>3, RunMeasured, StartsMeasured, StopsMeasured DEF Step
<1>4. ASSUME UNCHANGED vars PROVE (Accounted /\ Measured)'
  BY <1>4 DEF vars, runVars, loadVars, VerdictInv, Accounted, Measured
<1>5. (Accounted /\ Measured)'
  BY <1>3, <1>4, FailureMeasured, EnvironmentMeasured DEF Next
<1>6. QED
  BY <1>1, <1>5 DEF VerdictInv

\* Run has not begun.
LEMMA InitMeasured == Init => VerdictInv
<1>. SUFFICES ASSUME Init PROVE VerdictInv
  OBVIOUS
<1>1. StopOrder
  BY DEF Init, StopOrder, Children, States, Gone
<1>2. Accounted
  BY DEF Init, Accounted, Outcomes
<1>3. Measured
  BY ZenonT(40) DEF Init, Measured, Stopping
<1>4. QED
  BY <1>1, <1>2, <1>3 DEF VerdictInv

\* For every load, limit and run of faults: Run returns no error only with a report and
\* no FAILED, the errors within the limit, every query that was sent accounted for,
\* and a bns of its own, if that is what it measured, that was there throughout.
THEOREM VerdictIsSound == Spec => []VerdictSound
<1>1. VerdictInv => VerdictSound
  BY SMTT(30), Z3 DEF VerdictInv, Accounted, Measured, VerdictSound, Stopping, Counting, Outcomes
<1>2. QED
  BY <1>1, InitMeasured, NextMeasured, PTL DEF Spec

-----------------------------------------------------------------------------
(***************************************************************************)
(* The report.                                                             *)
(***************************************************************************)

Early == {"prepare", "startMock", "startBns", "readyz", "dns", "before"}

Reporting == {"report", "verdict"}

\* The load has not begun; between the scrapes, the server has counted every answer
\* on top of the first snapshot, and nothing but the queries of the load and the
\* probes that were lost before; then the second snapshot keeps both facts.
Covered ==
  /\ handled \in [Outcomes -> Nat]
  /\ stray \in Nat /\ strayBefore \in Nat
  /\ \A o \in Outcomes : Value(before, o) \in Nat /\ Value(after, o) \in Nat
  /\ pc \in Early => sent = 0
  /\ pc \in Counting =>
       /\ \A o \in Outcomes : Value(before, o) + answered[o] <= handled[o]
       /\ handled["forwarded"] + handled["blocked"] + stray + waiting
            <= Total(before) + sent + strayBefore
  /\ pc \in Reporting =>
       /\ \A o \in Outcomes : Value(before, o) + answered[o] <= Value(after, o)
       /\ Total(after) <= Total(before) + sent + strayBefore

\* ParseSnapshot loses no count: an outcome without a series reads as zero.
LEMMA ParsedValues ==
  ASSUME handled \in [Outcomes -> Nat]
  PROVE  \A o \in Outcomes : Value(Parsed, o) = handled[o]
BY DEF Value, Parsed

\* What Diff reports of an outcome, when no counter went back.
LEMMA DiffValues ==
  ASSUME NEW b, NEW a, NEW o, Value(b, o) \in Nat, Value(a, o) \in Nat,
         Value(b, o) <= Value(a, o)
  PROVE  Value(Diff(b, a), o) = Value(a, o) - Value(b, o)
BY DEF Value, Diff

\* A step that changes none of what Covered speaks of, and stays in its phase.
LEMMA CoveredElsewhere ==
  ASSUME Covered, UNCHANGED <<handled, stray, strayBefore, before, after, loadVars>>,
         pc' \in Early => pc \in Early,
         pc' \in Counting => pc \in Counting,
         pc' \in Reporting => pc \in Reporting
  PROVE  Covered'
BY DEF Covered, loadVars, Total, Value

\* The server counts one more query that it was asked, of the load or not.
LEMMA HandlesCovered ==
  ASSUME Covered, Accounted, NEW o \in Outcomes, Handles(o),
         UNCHANGED <<pc, strayBefore, before, after, sent>>,
         answered' \in {answered, [answered EXCEPT ![o] = @ + 1]},
         pc \in Reporting => UNCHANGED answered,
         stray' \in Nat, waiting' \in Nat, stray' + waiting' + 1 = stray + waiting
  PROVE  Covered'
<1>1. /\ handled' \in [Outcomes -> Nat]
      /\ \A p \in Outcomes : handled'[p] = IF p = o THEN handled[p] + 1 ELSE handled[p]
  BY SMTT(30), Z3 DEF Handles, Covered
<1>2. handled'["forwarded"] + handled'["blocked"] = handled["forwarded"] + handled["blocked"] + 1
  BY SMTT(30), Z3, <1>1 DEF Covered, Outcomes
<1>3. \A p \in Outcomes : answered'[p] <= answered[p] + (IF p = o THEN 1 ELSE 0)
  BY SMTT(30), Z3 DEF Accounted
<1>4. answered \in [Outcomes -> Nat] /\ answered' \in [Outcomes -> Nat]
  BY SMTT(30), Z3 DEF Accounted
<1>5. Total(before) \in Nat /\ sent \in Nat /\ waiting \in Nat
  BY SMTT(30), Z3 DEF Covered, Accounted, Total, Outcomes
<1>6. /\ \A p \in Outcomes : Value(before, p)' = Value(before, p) /\ Value(after, p)' = Value(after, p)
      /\ Total(before)' = Total(before) /\ Total(after)' = Total(after)
  BY DEF Value, Total
<1>7. pc \in Counting =>
        \A p \in Outcomes : Value(before, p) + answered'[p] <= handled'[p]
  BY SMTT(30), Z3, <1>1, <1>3, <1>4 DEF Covered
<1>8. ASSUME pc \in Counting
      PROVE  handled'["forwarded"] + handled'["blocked"] + stray' + waiting'
               <= Total(before) + sent + strayBefore
  <2>1. /\ handled["forwarded"] \in Nat /\ handled["blocked"] \in Nat
        /\ handled'["forwarded"] \in Nat /\ handled'["blocked"] \in Nat
    BY <1>1 DEF Covered, Outcomes
  <2>2. stray \in Nat /\ strayBefore \in Nat
    BY DEF Covered
  <2>3. handled["forwarded"] + handled["blocked"] + stray + waiting
          <= Total(before) + sent + strayBefore
    BY <1>8 DEF Covered
  <2>4. PICK h \in Nat, limit \in Nat : /\ h = handled["forwarded"] + handled["blocked"]
                                        /\ limit = Total(before) + sent + strayBefore
    BY SMTT(30), Z3, <1>5, <2>1, <2>2
  <2>5. PICK x \in Nat, y \in Nat, x1 \in Nat, y1 \in Nat :
          x = stray /\ y = waiting /\ x1 = stray' /\ y1 = waiting'
    BY ZenonT(40), <1>5, <2>2
  <2>6. /\ handled'["forwarded"] + handled'["blocked"] = h + 1
        /\ h + x + y <= limit /\ x1 + y1 + 1 = x + y
    BY ZenonT(40), <1>2, <2>3, <2>4, <2>5
  <2>7. h + 1 + x1 + y1 <= limit
    BY SMTT(30), Z3, <2>6
  <2>8. QED
    BY ZenonT(40), <2>4, <2>5, <2>6, <2>7
<1>9. QED
  BY <1>1, <1>6, <1>7, <1>8 DEF Covered

\* A query is sent, answered or given up, or the load ends.
LEMMA LoadCovered ==
  ASSUME Covered, Accounted, \/ Send \/ TimesOut \/ LoadEnds
                             \/ \E o \in Outcomes : Answer(o)
  PROVE  Covered'
<1>1. pc = "load" /\ pc' \in {"load", "cpu"}
  BY DEF Send, TimesOut, LoadEnds, Answer, Goto
<1>2. ASSUME \/ Send \/ TimesOut \/ LoadEnds PROVE Covered'
  <2>1. UNCHANGED <<handled, before, after, strayBefore, answered>>
    BY <1>2 DEF Send, TimesOut, LoadEnds, GiveUp, runVars
  <2>2. /\ stray' \in Nat /\ waiting' \in Nat /\ sent' \in Nat
        /\ stray' + waiting' + sent <= stray + waiting + sent'
    BY <1>2 DEF Send, TimesOut, LoadEnds, GiveUp, Covered, Accounted
  <2>3. /\ \A p \in Outcomes : Value(before, p)' = Value(before, p) /\ Value(after, p)' = Value(after, p)
        /\ Total(before)' = Total(before)
    BY <2>1 DEF Value, Total
  <2>4. handled["forwarded"] + handled["blocked"] \in Nat /\ Total(before) \in Nat
    BY SMTT(30), Z3 DEF Covered, Outcomes, Total
  <2>5. /\ \A o \in Outcomes : Value(before, o) + answered[o] <= handled[o]
        /\ handled["forwarded"] + handled["blocked"] + stray + waiting
             <= Total(before) + sent + strayBefore
    BY <1>1 DEF Covered, Counting
  <2>6. handled["forwarded"] + handled["blocked"] + stray' + waiting'
          <= Total(before) + sent' + strayBefore
    BY <2>2, <2>4, <2>5 DEF Covered, Accounted, Outcomes
  <2>7. QED
    BY <1>1, <2>1, <2>2, <2>3, <2>5, <2>6 DEF Covered, Early, Reporting
<1>3. ASSUME NEW o \in Outcomes, Answer(o) PROVE Covered'
  <2>1. /\ Handles(o) /\ UNCHANGED <<pc, strayBefore, before, after, sent, stray>>
        /\ answered' \in {answered, [answered EXCEPT ![o] = @ + 1]}
        /\ waiting > 0 /\ waiting' = waiting - 1
    BY <1>3 DEF Answer, runVars
  <2>2. waiting' \in Nat /\ stray' \in Nat /\ stray' + waiting' + 1 = stray + waiting
    BY SMTT(30), Z3, <2>1 DEF Covered, Accounted
  <2>3. pc \notin Reporting
    BY <1>1 DEF Reporting
  <2>4. QED
    BY <2>1, <2>2, <2>3, HandlesCovered
<1>4. QED
  BY <1>2, <1>3

\* The server answers a probe, or the probe is lost: the load has not begun.
LEMMA ProbeCovered ==
  ASSUME Covered, ProbeLost \/ \E o \in Outcomes : ProbeAnswered(o)
  PROVE  Covered'
<1>1. /\ pc = "dns" /\ pc' \in {"dns", "before"}
      /\ UNCHANGED <<strayBefore, before, after, sent>>
  BY DEF ProbeLost, ProbeAnswered, loadVars
<1>2. handled' \in [Outcomes -> Nat] /\ stray' \in Nat
  BY SMTT(30), Z3 DEF Covered, ProbeLost, ProbeAnswered, Handles
<1>3. QED
  BY <1>1, <1>2 DEF Covered, Early, Counting, Reporting, Value

\* The first snapshot is what the server has counted, and the load is still to come.
LEMMA ScrapeBeforeCovered ==
  ASSUME Covered, Accounted, ScrapeBefore
  PROVE  Covered'
<1>1. /\ pc = "before" /\ pc' = "start" /\ before' = Parsed /\ strayBefore' = stray
      /\ UNCHANGED <<handled, stray, after, sent, waiting, answered>>
  BY DEF ScrapeBefore, Goto, loadVars
<1>2. /\ sent = 0 /\ waiting = 0 /\ \A o \in Outcomes : answered[o] = 0
  <2>1. sent = 0
    BY <1>1 DEF Covered, Early
  <2>2. /\ answered["forwarded"] \in Nat /\ answered["blocked"] \in Nat
        /\ ioErrors \in Nat /\ badIDs \in Nat /\ waiting \in Nat
        /\ answered["forwarded"] + answered["blocked"] + ioErrors + badIDs + waiting = 0
    BY <2>1 DEF Accounted, Outcomes
  <2>3. PICK f \in Nat, b \in Nat, i \in Nat, d \in Nat, w \in Nat :
          /\ f = answered["forwarded"] /\ b = answered["blocked"]
          /\ i = ioErrors /\ d = badIDs /\ w = waiting
    BY ZenonT(40), <2>2
  <2>4. f + b + i + d + w = 0
    BY ZenonT(40), <2>2, <2>3
  <2>5. f = 0 /\ b = 0 /\ w = 0
    BY SMTT(30), Z3, <2>4
  <2>6. QED
    BY ZenonT(40), <2>1, <2>3, <2>5 DEF Outcomes
<1>3. \A o \in Outcomes : Value(before', o) = handled[o]
  BY <1>1, ParsedValues DEF Covered
<1>4. Total(before') = handled["forwarded"] + handled["blocked"]
  BY <1>3 DEF Total, Outcomes
<1>6. \A o \in Outcomes : handled[o] \in Nat
  BY DEF Covered
<1>7. /\ \A o \in Outcomes : Value(before', o) + answered[o] <= handled[o]
      /\ handled["forwarded"] + handled["blocked"] + stray + waiting
           <= Total(before') + sent + stray
  BY <1>2, <1>3, <1>4, <1>6 DEF Covered, Outcomes
<1>8. \A o \in Outcomes : Value(before', o) \in Nat /\ Value(after, o) \in Nat
  BY <1>3, <1>6 DEF Covered
<1>9. QED
  BY <1>1, <1>7, <1>8 DEF Covered, Early, Reporting, Value, Total

\* The second snapshot, after the load.
LEMMA ScrapeAfterCovered ==
  ASSUME Covered, Accounted, ScrapeAfter
  PROVE  Covered'
<1>1. /\ pc = "after" /\ pc' = "report" /\ after' = Parsed
      /\ UNCHANGED <<handled, stray, strayBefore, before, sent, waiting, answered>>
  BY DEF ScrapeAfter, Goto, loadVars
<1>2. \A o \in Outcomes : Value(after', o) = handled[o]
  BY <1>1, ParsedValues DEF Covered
<1>3. Total(after') = handled["forwarded"] + handled["blocked"]
  BY <1>2 DEF Total, Outcomes
<1>4. \A o \in Outcomes : handled[o] \in Nat
  BY DEF Covered
<1>5. \A o \in Outcomes : Value(before, o) + answered[o] <= Value(after', o)
  BY <1>1, <1>2 DEF Covered, Counting
<1>6. Total(after') <= Total(before) + sent + strayBefore
  <2>1. handled["forwarded"] + handled["blocked"] + stray + waiting
          <= Total(before) + sent + strayBefore
    BY <1>1 DEF Covered, Counting
  <2>2. stray \in Nat /\ waiting \in Nat /\ sent \in Nat /\ strayBefore \in Nat
    BY DEF Covered, Accounted
  <2>3. Total(before) \in Nat /\ Total(after') \in Nat
    BY SMTT(30), Z3, <1>3, <1>4 DEF Covered, Total, Outcomes
  <2>4. QED
    BY <1>3, <2>1, <2>2, <2>3
<1>7. \A o \in Outcomes : Value(before, o) \in Nat /\ Value(after', o) \in Nat
  BY <1>2, <1>4 DEF Covered
<1>8. QED
  BY <1>1, <1>5, <1>6, <1>7 DEF Covered, Early, Counting, Value, Total

\* Every other step of Run leaves the counters alone and goes on within its phase,
\* from one phase to the next by a scrape only.
LEMMA RestCovered ==
  ASSUME Covered,
         \/ Prepare \/ StartMock \/ StartBns \/ WaitForReady \/ StartLoad \/ ProfileEnds
         \/ CollectProfile \/ CaptureHeap \/ Report \/ Verdict \/ Failure
         \/ \E c \in Children : \/ NotStarted(c) \/ Interrupt(c) \/ Kill(c) \/ Reap(c)
                                \/ Dies(c) \/ Obeys(c) \/ ContextKills(c)
         \/ BnsReady \/ Cancel \/ UNCHANGED vars
  PROVE  Covered'
<1>1. CASE \/ Prepare \/ StartMock \/ StartBns \/ WaitForReady \/ StartLoad \/ ProfileEnds
  BY <1>1, CoveredElsewhere DEF Prepare, StartMock, StartBns, Start, WaitForReady, StartLoad,
       ProfileEnds, Goto, runVars, Early, Counting, Reporting
<1>2. CASE CollectProfile \/ CaptureHeap \/ Report \/ Verdict
  BY <1>2, CoveredElsewhere DEF CollectProfile, CaptureHeap, Report, Verdict, Return, Goto,
       runVars, Early, Counting, Reporting
<1>3. ASSUME NEW from, NEW reason, Fails(from, reason) PROVE Covered'
  BY <1>3, CoveredElsewhere DEF Fails, Return, Early, Counting, Reporting
<1>4. CASE Failure
  BY ZenonT(40), <1>3, <1>4 DEF Failure, PrepareFails, StartMockFails, StartBnsFails, WaitForReadyFails,
       WaitForDNSReadyFails, ScrapeBeforeFails, ExpandFails, LoadFails, ScrapeAfterFails,
       ReportFails
<1>5. ASSUME NEW c \in Children, NotStarted(c) \/ Interrupt(c) \/ Reap(c)
      PROVE  Covered'
  BY <1>5, CoveredElsewhere DEF NotStarted, Interrupt, Reap, Goto, Stage, AfterStage, runVars,
       Early, Counting, Reporting
<1>6. ASSUME NEW c \in Children, Kill(c) \/ Dies(c) \/ Obeys(c) \/ ContextKills(c)
      PROVE  Covered'
  BY <1>6, CoveredElsewhere DEF Kill, Dies, Obeys, ContextKills, runVars
<1>7. CASE BnsReady \/ Cancel \/ UNCHANGED vars
  BY <1>7, CoveredElsewhere DEF BnsReady, Cancel, vars, runVars
<1>8. QED
  BY ZenonT(40), SMTT(30), <1>1, <1>2, <1>4, <1>5, <1>6, <1>7

CoverInv == VerdictInv /\ Covered

\* Every step keeps the invariant.
LEMMA NextCovered == CoverInv /\ [Next]_vars => CoverInv'
<1>. SUFFICES ASSUME CoverInv, [Next]_vars PROVE CoverInv'
  OBVIOUS
<1>1. Accounted /\ Covered
  BY DEF CoverInv, VerdictInv
<1>2. ASSUME NEW o \in Outcomes, HandleStray(o) PROVE Covered'
  <2>1. /\ Handles(o) /\ UNCHANGED <<pc, strayBefore, before, after, sent, answered, waiting>>
        /\ stray > 0 /\ stray' = stray - 1
    BY <1>2 DEF HandleStray, runVars, loadVars
  <2>2. waiting' \in Nat /\ stray' \in Nat /\ stray' + waiting' + 1 = stray + waiting
    BY <1>1, <2>1 DEF Covered, Accounted
  <2>3. QED
    BY <1>1, <2>1, <2>2, HandlesCovered
<1>3. ASSUME Step PROVE Covered'
  BY <1>1, <1>3, RestCovered, LoadCovered, ProbeCovered, ScrapeBeforeCovered,
     ScrapeAfterCovered DEF Step
<1>4. ASSUME Environment PROVE Covered'
  BY <1>1, <1>2, <1>4, RestCovered, LoadCovered, ProbeCovered DEF Environment
<1>5. Covered'
  BY <1>1, <1>3, <1>4, RestCovered DEF Next
<1>6. QED
  BY <1>5, NextMeasured DEF CoverInv

\* For every load, and whatever the server gets to too late: no answer of the load is
\* missing from what the report says, and nothing is in it that was not asked.
THEOREM ReportCoversAnswers == Spec => []DiffCoversAnswers
<1>1. Init => CoverInv
  <2>. SUFFICES ASSUME Init PROVE CoverInv
    OBVIOUS
  <2>1. Covered
    BY DEF Init, Covered, Early, Counting, Reporting, Outcomes, Value, NoSnapshot
  <2>2. QED
    BY <2>1, InitMeasured DEF CoverInv
<1>2. CoverInv => DiffCoversAnswers
  <2>. SUFFICES ASSUME CoverInv, pc = "verdict"
                PROVE  /\ \A o \in Outcomes : answered[o] > 0 =>
                            /\ o \in DOMAIN Diff(before, after)
                            /\ answered[o] <= Diff(before, after)[o]
                       /\ Total(Diff(before, after)) <= sent + strayBefore
    BY DEF DiffCoversAnswers
  <2>1. /\ \A o \in Outcomes : /\ Value(before, o) \in Nat /\ Value(after, o) \in Nat
                               /\ answered[o] \in Nat
                               /\ Value(before, o) + answered[o] <= Value(after, o)
        /\ Total(after) <= Total(before) + sent + strayBefore
        /\ sent \in Nat /\ strayBefore \in Nat
    BY DEF CoverInv, VerdictInv, Accounted, Covered, Reporting
  <2>2. \A o \in Outcomes : Value(Diff(before, after), o) = Value(after, o) - Value(before, o)
    BY SMTT(30), Z3, <2>1, DiffValues
  <2>3. ASSUME NEW o \in Outcomes, answered[o] > 0
        PROVE  o \in DOMAIN Diff(before, after) /\ answered[o] <= Diff(before, after)[o]
    <3>1. answered[o] <= Value(Diff(before, after), o)
      BY <2>1, <2>2
    <3>2. Value(after, o) > 0
      BY <2>1, <2>3
    <3>3. o \in DOMAIN after
      BY <3>2 DEF Value
    <3>4. o \in DOMAIN Diff(before, after)
      BY <3>3 DEF Diff
    <3>5. QED
      BY <3>1, <3>4 DEF Value
  <2>4. Total(Diff(before, after)) = Total(after) - Total(before)
    BY <2>1, <2>2 DEF Total, Outcomes
  <2>5. Total(after) \in Nat /\ Total(before) \in Nat
    BY <2>1 DEF Total, Outcomes
  <2>6. QED
    BY <2>1, <2>3, <2>4, <2>5
<1>3. QED
  BY <1>1, <1>2, NextCovered, PTL DEF Spec

-----------------------------------------------------------------------------
(***************************************************************************)
(* A run in which nothing goes wrong.                                      *)
(***************************************************************************)

\* The statements of Run that need the server to be there.
Served == {"dns", "before"} \cup Counting

\* As long as there was no fault, nothing was cancelled and no error returned, and
\* the bns that Run depends on runs, and answers once it has.
Flawless ==
  /\ opts \in Options
  /\ faults \in Nat
  /\ child["bns"] = "interrupted" => pc \in Stopping
  /\ faults = 0 /\ CanServe =>
       /\ ~cancelled
       /\ err \in {"none", "correctness"}
       /\ ~opts.remote /\ pc \in {"readyz"} \cup Served => child["bns"] = "running"
       /\ ~opts.remote /\ pc \in Served => ready

FlawlessInv == StopOrder /\ Flawless

\* The options of a run say whether there is a bns that can serve.
LEMMA CanServeSame == ASSUME UNCHANGED opts PROVE CanServe' <=> CanServe
BY DEF CanServe, BNSArgs

\* A step that leaves the processes and the errors alone, and gets to a statement
\* that needs the server only when it is there.
LEMMA FlawlessElsewhere ==
  ASSUME Flawless, UNCHANGED <<opts, err, cancelled, child, faults>>,
         ready => ready',
         pc \in Stopping => pc' \in Stopping,
         pc' \in {"readyz"} \cup Served =>
           pc \in {"readyz"} \cup Served \/ opts.remote \/ ~opts.spawn,
         pc' \in Served => pc \in Served \/ Serving
  PROVE  Flawless'
<1>1. CanServe' <=> CanServe
  BY CanServeSame
<1>2. CanServe /\ ~opts.remote => opts.spawn
  BY DEF CanServe
<1>3. QED
  BY <1>1, <1>2 DEF Flawless, Serving

\* A fault excuses everything that follows.
LEMMA FlawlessNoMore ==
  ASSUME Flawless, Fault, UNCHANGED opts,
         child'["bns"] = "interrupted" => child["bns"] = "interrupted",
         pc \in Stopping => pc' \in Stopping
  PROVE  Flawless'
<1>1. faults' \in Nat /\ faults' # 0
  BY DEF Flawless, Fault
<1>2. QED
  BY <1>1 DEF Flawless

\* Run starts its processes when nothing was cancelled.
LEMMA StartsFlawless ==
  ASSUME FlawlessInv, StartMock \/ StartBns
  PROVE  Flawless'
<1>1. child \in [Children -> States]
  BY DEF FlawlessInv, StopOrder
<1>2. CASE StartMock
  BY <1>1, <1>2, CanServeSame DEF FlawlessInv, Flawless, StartMock, Start, Goto, Children, Stopping, Served,
       Counting, runVars
<1>3. CASE StartBns
  BY <1>1, <1>3, CanServeSame DEF FlawlessInv, Flawless, StartBns, Start, Goto, Children, Stopping, Served,
       Counting, runVars
<1>4. QED
  BY <1>2, <1>3

\* A process ends without a fault only when it could not serve anyway, when Run
\* returns or after a cancellation.
LEMMA EndsFlawless ==
  ASSUME FlawlessInv, NEW c \in Children,
         Dies(c) \/ Obeys(c) \/ ContextKills(c) \/ Kill(c)
  PROVE  Flawless'
<1>1. /\ child \in [Children -> States] /\ Flawless
  BY DEF FlawlessInv, StopOrder
<1>2. /\ Ends(c) /\ UNCHANGED <<opts, pc, err, cancelled>>
      /\ child' = [child EXCEPT ![c] = "exited"]
      /\ faults' = faults \/ Fault
  BY DEF Dies, Obeys, ContextKills, Kill, Because, Ends, runVars
<1>3. child'["bns"] = "interrupted" => child["bns"] = "interrupted"
  BY <1>1, <1>2 DEF Children
<1>4. CASE Fault
  BY <1>1, <1>2, <1>3, <1>4, FlawlessNoMore
<1>5. CASE faults' = faults /\ c = "mock"
  <2>1. child'["bns"] = child["bns"] /\ (ready => ready')
    BY ZenonT(40), <1>1, <1>2, <1>5 DEF Children, Ends
  <2>2. QED
    BY <1>1, <1>2, <1>5, <2>1, CanServeSame DEF Flawless
<1>6. CASE faults' = faults /\ c = "bns"
  <2>. SUFFICES ASSUME faults = 0, CanServe, ~opts.remote,
                       pc \in {"readyz"} \cup Served
                PROVE  FALSE
    BY <1>1, <1>2, <1>3, <1>6, CanServeSame DEF Flawless
  <2>1. ~cancelled /\ child["bns"] = "running"
    BY <1>1 DEF Flawless
  <2>2. pc \notin Stopping
    BY DEF Served, Counting, Stopping
  <2>3. Dies("bns")
    BY <1>6, <2>1, <2>2 DEF Obeys, ContextKills, Kill
  <2>4. ~Viable
    <3>1. faults' # faults + 1
      BY <1>6
    <3>2. QED
      BY <2>3, <3>1 DEF Dies, Because, Fault
  <2>5. BNSArgs \subseteq opts.accepts
    BY DEF CanServe
  <2>6. QED
    BY <2>4, <2>5 DEF Viable
<1>7. QED
  BY <1>2, <1>4, <1>5, <1>6 DEF Children

\* terminate of a process.
LEMMA StopsFlawless ==
  ASSUME FlawlessInv, NEW c \in Children, NotStarted(c) \/ Interrupt(c) \/ Reap(c)
  PROVE  Flawless'
<1>1. /\ pc \in Stopping /\ pc' \in Stopping
      /\ UNCHANGED <<opts, err, cancelled, faults>>
  BY DEF NotStarted, Interrupt, Reap, Goto, Stage, AfterStage, Stopping, runVars
<1>2. pc' \notin {"readyz"} \cup Served
  BY <1>1 DEF Stopping, Served, Counting
<1>3. QED
  BY <1>1, <1>2, CanServeSame DEF FlawlessInv, Flawless

\* A step of Run fails for a fault, or for a reason that takes one.
LEMMA FailureFlawless ==
  ASSUME FlawlessInv, Failure
  PROVE  Flawless'
<1>1. ASSUME NEW from, NEW reason, Fails(from, reason), from \notin Stopping,
             faults = 0 /\ CanServe /\ pc = from => ~reason
      PROVE  Flawless'
  <2>1. /\ pc' = "stopBns" /\ UNCHANGED <<opts, child, cancelled>>
        /\ (reason /\ UNCHANGED faults) \/ Fault
    BY <1>1 DEF Fails, Because, Return
  <2>2. CASE Fault
    BY <2>1, <2>2, FlawlessNoMore DEF FlawlessInv, Stopping
  <2>3. CASE reason /\ UNCHANGED faults
    BY <1>1, <2>1, <2>3, CanServeSame DEF FlawlessInv, Flawless, Fails, Stopping
  <2>4. QED
    BY <2>1, <2>2, <2>3
<1>2. ASSUME faults = 0, CanServe
      PROVE  /\ ~cancelled
             /\ pc = "readyz" \/ pc \in Served => Expected
             /\ pc \in Served => Serving
  <2>1. ~opts.remote => Viable
    BY <1>2 DEF CanServe, Viable
  <2>2. QED
    BY <1>2, <2>1 DEF FlawlessInv, Flawless, Expected, Serving, Running
<1>3. CASE PrepareFails \/ ExpandFails \/ LoadFails \/ ReportFails
  BY ZenonT(40), <1>1, <1>3 DEF PrepareFails, ExpandFails, LoadFails, ReportFails, Stopping
<1>4. CASE StartMockFails \/ StartBnsFails
  BY <1>1, <1>2, <1>4 DEF StartMockFails, StartBnsFails, Stopping
<1>5. CASE WaitForReadyFails \/ WaitForDNSReadyFails
  BY ZenonT(40), <1>1, <1>2, <1>5 DEF WaitForReadyFails, WaitForDNSReadyFails, Stopping, Served
<1>6. CASE ScrapeBeforeFails \/ ScrapeAfterFails
  BY ZenonT(40), <1>1, <1>2, <1>6 DEF ScrapeBeforeFails, ScrapeAfterFails, Stopping, Served, Counting
<1>7. QED
  BY <1>3, <1>4, <1>5, <1>6 DEF Failure

\* The other steps of Run.
LEMMA RunFlawless ==
  ASSUME FlawlessInv,
         \/ Prepare \/ WaitForReady \/ ScrapeBefore \/ StartLoad
         \/ \E o \in Outcomes : ProbeAnswered(o)
         \/ LoadEnds \/ ProfileEnds \/ CollectProfile \/ CaptureHeap
         \/ ScrapeAfter \/ Report \/ Verdict
  PROVE  Flawless'
<1>0. Flawless
  BY DEF FlawlessInv
<1>1. CASE Prepare \/ WaitForReady \/ ScrapeBefore \/ StartLoad
  BY <1>0, <1>1, FlawlessElsewhere DEF Prepare, WaitForReady, ScrapeBefore, StartLoad, Goto,
       Stopping, Served, Counting, runVars
<1>2. ASSUME NEW o \in Outcomes, ProbeAnswered(o) PROVE Flawless'
  BY <1>0, <1>2, FlawlessElsewhere DEF ProbeAnswered, Stopping, Served, Counting
<1>3. CASE LoadEnds \/ ProfileEnds \/ CollectProfile \/ CaptureHeap
  BY <1>0, <1>3, FlawlessElsewhere DEF LoadEnds, ProfileEnds, CollectProfile, CaptureHeap,
       Goto, Stopping, Served, Counting, runVars
<1>4. CASE ScrapeAfter \/ Report
  BY <1>0, <1>4, FlawlessElsewhere DEF ScrapeAfter, Report, Goto, Stopping, Served, Counting
<1>5. CASE Verdict
  BY <1>0, <1>5, CanServeSame DEF Flawless, Verdict, Return, Stopping, Served, Counting
<1>6. QED
  BY <1>1, <1>2, <1>3, <1>4, <1>5

\* What the network and the user do.
LEMMA EnvironmentFlawless ==
  ASSUME FlawlessInv, Environment
  PROVE  Flawless'
<1>0. Flawless
  BY DEF FlawlessInv
<1>1. CASE BnsReady \/ Send \/ \E o \in Outcomes : HandleStray(o)
  BY <1>0, <1>1, FlawlessElsewhere DEF BnsReady, Send, HandleStray, runVars
<1>2. CASE Cancel
  BY <1>0, <1>2, FlawlessNoMore DEF Cancel
<1>3. CASE TimesOut \/ ProbeLost \/ \E o \in Outcomes : Answer(o)
  <2>1. /\ UNCHANGED <<opts, pc, err, cancelled, child, ready>>
        /\ UNCHANGED faults \/ Fault
    BY <1>3 DEF TimesOut, ProbeLost, Answer, Because, runVars
  <2>2. QED
    BY <1>0, <2>1, FlawlessElsewhere, FlawlessNoMore
<1>4. ASSUME NEW c \in Children, Dies(c) \/ Obeys(c) \/ ContextKills(c)
      PROVE  Flawless'
  BY <1>4, EndsFlawless
<1>5. QED
  BY <1>1, <1>2, <1>3, <1>4 DEF Environment

\* Every step keeps the invariant.
LEMMA NextFlawless ==
  FlawlessInv /\ [Next]_vars => FlawlessInv'
<1>. SUFFICES ASSUME FlawlessInv, [Next]_vars PROVE FlawlessInv'
  OBVIOUS
<1>1. ASSUME Step PROVE Flawless'
  BY <1>1, RunFlawless, StartsFlawless, StopsFlawless, EndsFlawless DEF Step
<1>2. ASSUME UNCHANGED vars PROVE Flawless'
  BY <1>2, FlawlessElsewhere DEF FlawlessInv, vars, runVars
<1>3. Flawless'
  BY <1>1, <1>2, FailureFlawless, EnvironmentFlawless DEF Next
<1>4. QED
  BY <1>3, NextInOrder DEF FlawlessInv

\* Where the bns that Run starts knows the flags that Run passes, or another bns serves
\* the address: Run returns an error of its own only after a fault.
THEOREM RunsComplete == Spec => []RunCompletes
<1>1. Init => FlawlessInv
  <2>. SUFFICES ASSUME Init PROVE FlawlessInv
    OBVIOUS
  <2>1. StopOrder
    BY DEF Init, StopOrder, Children, States, Gone
  <2>2. Flawless
    BY DEF Init, Flawless, Stopping, Served, Counting, Children
  <2>3. QED
    BY <2>1, <2>2 DEF FlawlessInv
<1>2. FlawlessInv => RunCompletes
  BY DEF FlawlessInv, Flawless, RunCompletes
<1>3. FlawlessInv /\ [Next]_vars => FlawlessInv'
  BY NextFlawless
<1>4. QED
  BY <1>1, <1>2, <1>3, PTL DEF Spec

-----------------------------------------------------------------------------
(***************************************************************************)
(* The flags of the bns that Run starts are not an idle premise.           *)
(***************************************************************************)

\* Run passes --upstream, which newServeCmd does not define: with the serve command of
\* this repository, and no other bns at the address, Run can only return an error.
OwnFlagsFail ==
  opts.accepts = ServeFlags /\ ~opts.remote /\ pc = "done" => err = "error"

\* Nothing ever serves, and Run does not get past /readyz.
Unserved ==
  opts.accepts = ServeFlags /\ ~opts.remote =>
    /\ ready = FALSE
    /\ pc \in (Early \ {"dns", "before"}) \cup Stopping
    /\ pc \in Stopping => err = "error"

\* The options of a run are fixed.
LEMMA OptionsFixed == [Next]_vars => opts' = opts
<1>. SUFFICES ASSUME [Next]_vars PROVE opts' = opts
  OBVIOUS
<1>1. CASE Step
  BY ZenonT(40), <1>1 DEF Step, Prepare, StartMock, StartBns, Start, WaitForReady, ScrapeBefore,
       StartLoad, ProbeAnswered, LoadEnds, ProfileEnds, CollectProfile, CaptureHeap,
       ScrapeAfter, Report, Verdict, NotStarted, Interrupt, Kill, Reap
<1>2. ASSUME NEW from, NEW reason, Fails(from, reason) PROVE opts' = opts
  BY ZenonT(40), <1>2 DEF Fails
<1>3. CASE Failure
  BY ZenonT(40), <1>2, <1>3 DEF Failure, PrepareFails, StartMockFails, StartBnsFails,
       WaitForReadyFails, WaitForDNSReadyFails, ScrapeBeforeFails, ExpandFails, LoadFails,
       ScrapeAfterFails, ReportFails
<1>4. CASE Environment
  BY ZenonT(40), <1>4 DEF Environment, BnsReady, Cancel, Send, TimesOut, ProbeLost, Dies, Obeys,
       ContextKills, Answer, HandleStray
<1>5. QED
  BY ZenonT(40), <1>1, <1>3, <1>4 DEF Next, vars

\* Every step keeps it.
LEMMA NextUnserved == Unserved /\ [Next]_vars => Unserved'
<1>. SUFFICES ASSUME Unserved, [Next]_vars PROVE Unserved'
  OBVIOUS
<1>. SUFFICES ASSUME opts.accepts = ServeFlags, ~opts.remote PROVE Unserved'
  <2>1. opts' = opts
    BY ZenonT(40), OptionsFixed
  <2>2. QED
    BY ZenonT(40), <2>1 DEF Unserved
<1>1. /\ ready = FALSE /\ ~Serving /\ ~Viable
      /\ pc \in {"prepare", "startMock", "startBns", "readyz"} \cup Stopping
      /\ pc \in Stopping => err = "error"
  <2>1. ready = FALSE /\ ~Serving
    BY ZenonT(40) DEF Unserved, Serving
  <2>2. "upstream" \notin opts.accepts
    BY DEF ServeFlags
  <2>3. ~Viable
    BY ZenonT(40), <2>2 DEF Viable, BNSArgs
  <2>4. QED
    BY ZenonT(40), <2>1, <2>3 DEF Unserved, Early
<1>2. ASSUME ready' = FALSE, pc' \in {"prepare", "startMock", "startBns", "readyz"} \cup Stopping,
             pc' \in Stopping => err' = "error"
      PROVE  Unserved'
  BY ZenonT(40), <1>2 DEF Unserved, Early
<1>3. ASSUME UNCHANGED <<pc, err>>, ready' = FALSE PROVE Unserved'
  BY ZenonT(40), <1>1, <1>2, <1>3
<1>4. CASE Prepare \/ StartMock \/ StartBns \/ WaitForReady
  BY ZenonT(40), <1>1, <1>2, <1>4 DEF Prepare, StartMock, StartBns, Start, WaitForReady, Goto, Stopping
<1>5. CASE \/ ScrapeBefore \/ StartLoad \/ LoadEnds \/ CollectProfile \/ CaptureHeap
           \/ ScrapeAfter \/ Report \/ Verdict \/ \E o \in Outcomes : ProbeAnswered(o)
  BY ZenonT(40), <1>1, <1>5 DEF ScrapeBefore, StartLoad, LoadEnds, CollectProfile, CaptureHeap,
       ScrapeAfter, Report, Verdict, ProbeAnswered, Goto, Stopping
<1>6. ASSUME NEW c \in Children, NotStarted(c) \/ Reap(c) PROVE Unserved'
  BY ZenonT(40), <1>1, <1>2, <1>6 DEF NotStarted, Reap, Goto, Stage, AfterStage, Stopping, runVars
<1>7. ASSUME NEW c \in Children,
             Interrupt(c) \/ Kill(c) \/ Dies(c) \/ Obeys(c) \/ ContextKills(c)
      PROVE  Unserved'
  BY ZenonT(40), <1>1, <1>3, <1>7 DEF Interrupt, Kill, Dies, Obeys, ContextKills, Ends, runVars
<1>8. ASSUME NEW from, NEW reason, Fails(from, reason) PROVE Unserved'
  BY ZenonT(40), <1>1, <1>2, <1>8 DEF Fails, Return, Stopping
<1>9. CASE Failure
  BY ZenonT(40), <1>8, <1>9 DEF Failure, PrepareFails, StartMockFails, StartBnsFails,
       WaitForReadyFails, WaitForDNSReadyFails, ScrapeBeforeFails, ExpandFails, LoadFails,
       ScrapeAfterFails, ReportFails
<1>10. CASE \/ BnsReady \/ Cancel \/ Send \/ TimesOut \/ ProbeLost \/ ProfileEnds
            \/ \E o \in Outcomes : Answer(o) \/ HandleStray(o)
  BY ZenonT(40), <1>1, <1>3, <1>10 DEF BnsReady, Cancel, Send, TimesOut, ProbeLost, ProfileEnds, Answer,
       HandleStray, runVars
<1>11. CASE UNCHANGED vars
  BY ZenonT(40), <1>1, <1>3, <1>11 DEF vars, runVars
<1>12. CASE Step
  BY ZenonT(40), <1>4, <1>5, <1>6, <1>7, <1>10, <1>12 DEF Step
<1>13. CASE Environment
  BY ZenonT(40), <1>7, <1>10, <1>13 DEF Environment
<1>14. QED
  BY ZenonT(40), <1>9, <1>11, <1>12, <1>13 DEF Next

\* Whatever else happens, --spawn with the bns of this repository measures nothing.
THEOREM OwnFlagsNeverServe == Spec => []OwnFlagsFail
<1>1. Init => Unserved
  BY DEF Init, Unserved, Early, Stopping
<1>2. Unserved => OwnFlagsFail
  BY DEF Unserved, OwnFlagsFail, Stopping
<1>3. QED
  BY <1>1, <1>2, NextUnserved, PTL DEF Spec

-----------------------------------------------------------------------------
(***************************************************************************)
(* Run returns: it is never without a step or a deadline, and only a probe *)
(* that was lost takes it back.                                            *)
(***************************************************************************)

\* Up to the first scrape, and how far Run has to go from each of its statements.
Probing == {"prepare", "startMock", "startBns", "readyz", "dns"}

Ahead ==
  [prepare |-> 15, startMock |-> 14, startBns |-> 13, readyz |-> 12, dns |-> 11,
   before |-> 10, start |-> 9, load |-> 8, cpu |-> 7, heap |-> 6, after |-> 5, report |-> 4,
   verdict |-> 3, stopBns |-> 2, stopMock |-> 1, done |-> 0]

\* Somebody sends on pprofErr, nobody has waited for a process before terminate does,
\* and the probes are counted from zero.
Awaits ==
  /\ StopOrder
  /\ pc \in DOMAIN Ahead
  /\ profile \in {"none", "running", "done"}
  /\ pc \in {"load", "cpu"} => profile # "none"
  /\ child["bns"] = "interrupted" => pc = "stopBns"
  /\ child["bns"] = "reaped" => pc \in {"stopMock", "done"}
  /\ child["mock"] = "reaped" => pc = "done"
  /\ pc \in {"prepare", "startMock"} => child["mock"] = "none"
  /\ pc \in {"prepare", "startMock", "startBns"} => child["bns"] = "none"
  /\ ok \in Nat
  /\ pc \in Probing => ok < Needed

\* The guards of the steps of Run, of the failures that need no fault, and of a bns
\* that is about to answer.
GoesOn ==
  \/ pc \in {"prepare", "startMock", "startBns", "before", "start", "load", "heap", "after",
             "report", "verdict"}
  \/ pc \in {"readyz", "dns"} /\ (\/ Serving \/ cancelled \/ ~Expected
                                  \/ child["bns"] = "running" /\ Viable /\ ~ready)
  \/ pc = "cpu" /\ profile \in {"running", "done"}
  \/ \E c \in Children : pc = Stage(c) /\ child[c] \in {"none", "running", "interrupted", "exited"}

\* Until Run has returned, there is a step to take.
NeverStuck == pc # "done" => GoesOn

ProcessLeft(c) == IF child[c] = "running" THEN 2 ELSE IF child[c] = "interrupted" THEN 1 ELSE 0

ProfileLeft == IF profile = "running" THEN 1 ELSE 0

ProbesLeft == IF pc \in Probing THEN Needed - ok ELSE 0

\* What is left to do: a statement counts for more than what it starts.
RunLeft ==
  3 * Ahead[pc] + ProcessLeft("bns") + ProcessLeft("mock") + ProfileLeft + ProbesLeft

\* A statement of Run, or its failure, takes it closer to its end; what the processes,
\* the load and the operator do never takes it back, but for a probe that is lost.
RunStep ==
  /\ Step \/ Failure => RunLeft' < RunLeft
  /\ RunLeft' <= RunLeft \/ ProbeLost

\* Run starts over with its probes when one is lost, and never otherwise.
OnlyLostProbesDelay == [][RunStep]_vars

\* The statements of Run that start, end and count nothing.
Onward(s, t) ==
  \/ s = "prepare" /\ t \in {"startMock", "readyz"}
  \/ s = "readyz" /\ t = "dns"
  \/ s = "before" /\ t = "start"
  \/ s = "load" /\ t = "cpu"
  \/ s = "cpu" /\ t \in {"heap", "after"}
  \/ s = "heap" /\ t = "after"
  \/ s = "after" /\ t = "report"
  \/ s = "report" /\ t = "verdict"
  \/ s \in DOMAIN Ahead \ {"stopBns", "stopMock", "done"} /\ t = "stopBns"

Plain ==
  \/ Prepare \/ WaitForReady \/ ScrapeBefore \/ LoadEnds \/ CollectProfile \/ CaptureHeap
  \/ ScrapeAfter \/ Report \/ Verdict \/ Failure

LEMMA AheadDomain ==
  DOMAIN Ahead = {"prepare", "startMock", "startBns", "readyz", "dns", "before", "start", "load",
                  "cpu", "heap", "after", "report", "verdict", "stopBns", "stopMock", "done"}
BY DEF Ahead

LEMMA AheadIs ==
  /\ Ahead["prepare"] = 15 /\ Ahead["startMock"] = 14 /\ Ahead["startBns"] = 13
  /\ Ahead["readyz"] = 12 /\ Ahead["dns"] = 11 /\ Ahead["before"] = 10
  /\ Ahead["start"] = 9 /\ Ahead["load"] = 8 /\ Ahead["cpu"] = 7 /\ Ahead["heap"] = 6
  /\ Ahead["after"] = 5 /\ Ahead["report"] = 4 /\ Ahead["verdict"] = 3
  /\ Ahead["stopBns"] = 2 /\ Ahead["stopMock"] = 1 /\ Ahead["done"] = 0
BY DEF Ahead

LEMMA PlainMoves ==
  ASSUME Plain
  PROVE  Onward(pc, pc') /\ UNCHANGED <<child, profile, ok>>
<1>1. CASE Prepare \/ WaitForReady \/ ScrapeBefore \/ LoadEnds
  BY <1>1 DEF Prepare, WaitForReady, ScrapeBefore, LoadEnds, Goto, Onward, runVars
<1>2. CASE CollectProfile \/ CaptureHeap \/ ScrapeAfter \/ Report
  BY <1>2 DEF CollectProfile, CaptureHeap, ScrapeAfter, Report, Goto, Onward, runVars
<1>3. CASE Verdict
  BY <1>3, AheadDomain DEF Verdict, Return, Onward
<1>4. ASSUME NEW from \in DOMAIN Ahead \ {"stopBns", "stopMock", "done"}, NEW reason,
             Fails(from, reason)
      PROVE  Onward(pc, pc') /\ UNCHANGED <<child, profile, ok>>
  BY <1>4 DEF Fails, Return, Onward
<1>5. CASE Failure
  BY <1>4, <1>5, AheadDomain
     DEF Failure, PrepareFails, StartMockFails, StartBnsFails, WaitForReadyFails,
         WaitForDNSReadyFails, ScrapeBeforeFails, ExpandFails, LoadFails, ScrapeAfterFails,
         ReportFails
<1>6. QED
  BY <1>1, <1>2, <1>3, <1>5 DEF Plain

\* What else a step may be.
LEMMA StepKinds ==
  ASSUME [Next]_vars
  PROVE  \/ Plain \/ StartMock \/ StartBns \/ StartLoad \/ ProfileEnds
         \/ \E o \in Outcomes : ProbeAnswered(o)
         \/ \E c \in Children : NotStarted(c) \/ Interrupt(c) \/ Kill(c) \/ Reap(c)
         \/ /\ ~Step /\ ~Failure
            /\ \/ \E c \in Children : Ends(c) /\ UNCHANGED <<pc, profile, ok>>
               \/ ProbeLost
               \/ UNCHANGED <<pc, child, profile, ok>>
<1>1. CASE Step \/ Failure
  BY <1>1 DEF Step, Plain
<1>2. CASE ~(Step \/ Failure)
  <2>1. Environment \/ UNCHANGED vars
    BY <1>2 DEF Next
  <2>2. CASE BnsReady \/ Cancel \/ Send \/ TimesOut \/ UNCHANGED vars
    BY <1>2, <2>2 DEF BnsReady, Cancel, Send, TimesOut, runVars, vars
  <2>3. ASSUME NEW o \in Outcomes, Answer(o) \/ HandleStray(o)
        PROVE  UNCHANGED <<pc, child, profile, ok>>
    BY <2>3 DEF Answer, HandleStray, runVars
  <2>4. ASSUME NEW c \in Children, Dies(c) \/ Obeys(c) \/ ContextKills(c)
        PROVE  Ends(c) /\ UNCHANGED <<pc, profile, ok>>
    BY <2>4 DEF Dies, Obeys, ContextKills, runVars
  <2>5. QED
    BY <1>2, <2>1, <2>2, <2>3, <2>4 DEF Environment
<1>3. QED
  BY <1>1, <1>2

LEMMA AwaitsInit == Init => Awaits
<1>. SUFFICES ASSUME Init PROVE Awaits
  OBVIOUS
<1>1. StopOrder
  BY DEF Init, StopOrder, Children, States, Gone
<1>2. QED
  BY SMTT(30), Z3, <1>1, AheadDomain, StressAssumption DEF Init, Awaits, Children, Probing

LEMMA AwaitsNext == Awaits /\ [Next]_vars => Awaits'
<1>. SUFFICES ASSUME Awaits, [Next]_vars PROVE Awaits'
  OBVIOUS
<1>0. StopOrder' /\ Needed \in Nat \ {0} /\ child \in [Children -> States]
  BY NextInOrder, StressAssumption DEF Awaits, StopOrder
<1>. USE DEF Awaits
<1>1. CASE Plain
  <2>1. Onward(pc, pc') /\ UNCHANGED <<child, profile, ok>>
    BY <1>1, PlainMoves
  <2>2. QED
    BY <1>0, <2>1, AheadDomain DEF Onward, Probing
<1>2. CASE StartMock \/ StartBns
  BY <1>0, <1>2, AheadDomain DEF StartMock, StartBns, Start, Goto, runVars, Children, Probing
<1>3. CASE StartLoad \/ ProfileEnds
  BY <1>0, <1>3, AheadDomain DEF StartLoad, ProfileEnds, Goto, Probing
<1>4. ASSUME NEW o \in Outcomes, ProbeAnswered(o) PROVE Awaits'
  BY SMTT(30), Z3, <1>0, <1>4, AheadDomain DEF ProbeAnswered, Probing
<1>5. ASSUME NEW c \in Children, NotStarted(c) \/ Interrupt(c) \/ Reap(c) PROVE Awaits'
  BY SMTT(30), Z3, <1>0, <1>5, AheadDomain DEF NotStarted, Interrupt, Reap, Goto, Stage, AfterStage, runVars,
                                 Children, Probing
<1>6. ASSUME NEW c \in Children, Ends(c), UNCHANGED <<pc, profile, ok>> PROVE Awaits'
  BY <1>0, <1>6 DEF Ends, Running, Children
<1>7. ASSUME NEW c \in Children, Kill(c) PROVE Awaits'
  BY <1>6, <1>7 DEF Kill, runVars
<1>8. CASE ProbeLost
  BY <1>0, <1>8 DEF ProbeLost
<1>9. CASE UNCHANGED <<pc, child, profile, ok>>
  BY <1>0, <1>9
<1>10. QED
  BY <1>1, <1>2, <1>3, <1>4, <1>5, <1>6, <1>7, <1>8, <1>9, StepKinds

LEMMA AwaitsAlways == Spec => []Awaits
BY AwaitsInit, AwaitsNext, PTL DEF Spec

\* Run never waits for what nobody gives it: not for the profile, not for a bns that
\* cannot answer, not for a process that was waited for already.
THEOREM RunIsNeverStuck == Spec => []NeverStuck
<1>1. Awaits => NeverStuck
  <2>. SUFFICES ASSUME Awaits, pc # "done" PROVE GoesOn
    BY DEF NeverStuck
  <2>0. child \in [Children -> States] /\ pc \in DOMAIN Ahead
    BY DEF Awaits, StopOrder
  <2>1. CASE pc \in {"readyz", "dns"}
    BY <2>0, <2>1 DEF GoesOn, Expected, Serving, Running, Awaits
  <2>2. CASE pc = "stopBns"
    BY <2>0, <2>2 DEF GoesOn, Stage, Children, States, Awaits
  <2>3. CASE pc = "stopMock"
    BY <2>0, <2>3 DEF GoesOn, Stage, Children, States, Awaits
  <2>4. CASE pc \notin {"readyz", "dns", "stopBns", "stopMock"}
    BY <2>0, <2>4, AheadDomain DEF GoesOn, Awaits
  <2>5. QED
    BY <2>1, <2>2, <2>3, <2>4
<1>2. QED
  BY <1>1, AwaitsAlways, PTL

-----------------------------------------------------------------------------

\* A sum of five parts, of which the first counts three times.
LEMMA RunSum ==
  ASSUME NEW a \in Nat, NEW b \in Nat, NEW c \in Nat, NEW d \in Nat, NEW e \in Nat,
         NEW v \in Nat, NEW w \in Nat, NEW x \in Nat, NEW y \in Nat, NEW z \in Nat
  PROVE  v < a /\ w + x + y + z <= b + c + d + e + 2
           => 3 * v + w + x + y + z < 3 * a + b + c + d + e
OBVIOUS

\* The same when the first is the same.
LEMMA SameSum ==
  ASSUME NEW a \in Nat, NEW b \in Nat, NEW c \in Nat, NEW d \in Nat, NEW e \in Nat,
         NEW w \in Nat, NEW x \in Nat, NEW y \in Nat, NEW z \in Nat
  PROVE  /\ w + x + y + z < b + c + d + e
              => 3 * a + w + x + y + z < 3 * a + b + c + d + e
         /\ w + x + y + z <= b + c + d + e
              => 3 * a + w + x + y + z <= 3 * a + b + c + d + e
OBVIOUS

\* The parts are numbers, before and after a step.
LEMMA PartsNat ==
  ASSUME Awaits, Awaits'
  PROVE  /\ Ahead[pc] \in Nat /\ Ahead[pc'] \in Nat
         /\ \A c \in Children : ProcessLeft(c) \in 0 .. 2 /\ ProcessLeft(c)' \in 0 .. 2
         /\ ProfileLeft \in 0 .. 1 /\ ProfileLeft' \in 0 .. 1
         /\ ProbesLeft \in Nat /\ ProbesLeft' \in Nat
<1>1. pc \in DOMAIN Ahead /\ pc' \in DOMAIN Ahead
  BY DEF Awaits
<1>2. Ahead[pc] \in Nat /\ Ahead[pc'] \in Nat
  BY <1>1, AheadDomain, AheadIs
<1>3. ProbesLeft \in Nat /\ ProbesLeft' \in Nat
  <2>1. /\ Needed \in Nat /\ {ok, ok'} \subseteq Nat
        /\ pc \in Probing => ok < Needed
        /\ pc' \in Probing => ok' < Needed
    BY ZenonT(40), StressAssumption DEF Awaits
  <2>2. QED
    BY <2>1 DEF ProbesLeft
<1>4. QED
  BY <1>2, <1>3 DEF ProcessLeft, ProfileLeft

\* Run goes on to a later statement, and what that starts counts for less.
LEMMA LaterStatement ==
  ASSUME Awaits, Awaits', Ahead[pc'] < Ahead[pc],
         ProcessLeft("bns")' + ProcessLeft("mock")' + ProfileLeft' + ProbesLeft'
           <= ProcessLeft("bns") + ProcessLeft("mock") + ProfileLeft + ProbesLeft + 2
  PROVE  RunLeft' < RunLeft
<1>1. /\ Ahead[pc] \in Nat /\ Ahead[pc'] \in Nat
      /\ ProcessLeft("bns") \in Nat /\ ProcessLeft("bns")' \in Nat
      /\ ProcessLeft("mock") \in Nat /\ ProcessLeft("mock")' \in Nat
      /\ ProfileLeft \in Nat /\ ProfileLeft' \in Nat
      /\ ProbesLeft \in Nat /\ ProbesLeft' \in Nat
  BY PartsNat DEF Children
<1>2. QED
  BY ZenonT(60), <1>1, RunSum DEF RunLeft

\* Run stays at its statement.
LEMMA SameStatement ==
  ASSUME Awaits, Awaits', UNCHANGED pc,
         ProcessLeft("bns")' + ProcessLeft("mock")' + ProfileLeft' + ProbesLeft'
           <= ProcessLeft("bns") + ProcessLeft("mock") + ProfileLeft + ProbesLeft
  PROVE  /\ RunLeft' <= RunLeft
         /\ ProcessLeft("bns")' + ProcessLeft("mock")' + ProfileLeft' + ProbesLeft'
              < ProcessLeft("bns") + ProcessLeft("mock") + ProfileLeft + ProbesLeft
              => RunLeft' < RunLeft
<1>1. /\ Ahead[pc] \in Nat /\ Ahead[pc'] \in Nat
      /\ ProcessLeft("bns") \in Nat /\ ProcessLeft("bns")' \in Nat
      /\ ProcessLeft("mock") \in Nat /\ ProcessLeft("mock")' \in Nat
      /\ ProfileLeft \in Nat /\ ProfileLeft' \in Nat
      /\ ProbesLeft \in Nat /\ ProbesLeft' \in Nat
  BY PartsNat DEF Children
<1>2. RunLeft' = 3 * Ahead[pc] + ProcessLeft("bns")' + ProcessLeft("mock")' + ProfileLeft'
                   + ProbesLeft'
  BY ZenonT(40) DEF RunLeft
<1>3. QED
  BY ZenonT(60), <1>1, <1>2, SameSum DEF RunLeft

\* A process that ends, or is told to, leaves less to do.
LEMMA ProcessFalls ==
  ASSUME Awaits, Awaits', NEW c \in Children, UNCHANGED <<pc, profile, ok>>,
         \/ Ends(c)
         \/ child[c] = "running" /\ child' = [child EXCEPT ![c] = "interrupted"]
  PROVE  RunLeft' < RunLeft
<1>0. DOMAIN child = Children
  BY DEF Awaits, StopOrder
<1>1. ProcessLeft(c)' < ProcessLeft(c)
  BY <1>0 DEF Ends, Running, ProcessLeft
<1>2. \A p \in Children \ {c} : ProcessLeft(p)' = ProcessLeft(p)
  BY <1>0 DEF Ends, ProcessLeft
<1>3. UNCHANGED <<ProfileLeft, ProbesLeft>>
  BY DEF ProfileLeft, ProbesLeft
<1>4. ProcessLeft("bns")' + ProcessLeft("mock")' + ProfileLeft' + ProbesLeft'
        < ProcessLeft("bns") + ProcessLeft("mock") + ProfileLeft + ProbesLeft
  BY SMTT(30), Z3, <1>1, <1>2, <1>3, PartsNat DEF Children
<1>5. ProcessLeft("bns")' + ProcessLeft("mock")' + ProfileLeft' + ProbesLeft'
        <= ProcessLeft("bns") + ProcessLeft("mock") + ProfileLeft + ProbesLeft
  BY SMTT(30), Z3, <1>4, PartsNat DEF Children
<1>6. QED
  BY <1>4, <1>5, SameStatement

\* The steps of Run, one kind after the other.
LEMMA RunFalls ==
  ASSUME Awaits, Awaits',
         \/ Plain \/ StartMock \/ StartBns \/ StartLoad \/ ProfileEnds
         \/ \E o \in Outcomes : ProbeAnswered(o)
         \/ \E c \in Children : NotStarted(c) \/ Interrupt(c) \/ Kill(c) \/ Reap(c)
  PROVE  RunLeft' < RunLeft
<1>0. /\ child \in [Children -> States] /\ pc \in DOMAIN Ahead
      /\ Needed \in Nat \ {0} /\ ok \in Nat /\ (pc \in Probing => ok < Needed)
  BY StressAssumption DEF Awaits, StopOrder
<1>. DEFINE Rest == ProcessLeft("bns") + ProcessLeft("mock") + ProfileLeft + ProbesLeft
<1>1. CASE Plain
  <2>1. Onward(pc, pc') /\ UNCHANGED <<child, profile, ok>>
    BY <1>1, PlainMoves
  <2>2. Ahead[pc'] < Ahead[pc]
    BY SMTT(30), Z3, <1>0, <2>1, AheadDomain, AheadIs DEF Onward
  <2>3. UNCHANGED <<ProcessLeft("bns"), ProcessLeft("mock"), ProfileLeft>>
    BY <2>1 DEF ProcessLeft, ProfileLeft
  <2>4. ProbesLeft' <= ProbesLeft
    BY <1>0, <2>1 DEF Onward, ProbesLeft, Probing
  <2>5. Rest' <= Rest + 2
    BY <2>3, <2>4, PartsNat DEF Children
  <2>6. QED
    BY <2>2, <2>5, LaterStatement
<1>2. ASSUME NEW c \in Children, NEW from \in Probing, NEW to \in Probing,
             Start(c, from, to), Ahead[to] < Ahead[from]
      PROVE  RunLeft' < RunLeft
  <2>1. Ahead[pc'] < Ahead[pc] /\ UNCHANGED <<profile, ok>>
    BY <1>2 DEF Start, Goto, runVars
  <2>2. ProcessLeft(c)' <= ProcessLeft(c) + 2
    BY <1>2, PartsNat
  <2>3. \A p \in Children \ {c} : ProcessLeft(p)' = ProcessLeft(p)
    BY <1>0, <1>2 DEF Start, ProcessLeft
  <2>4. UNCHANGED <<ProfileLeft, ProbesLeft>>
    BY <1>2, <2>1 DEF Start, Goto, ProfileLeft, ProbesLeft
  <2>5. Rest' <= Rest + 2
    BY <2>2, <2>3, <2>4, PartsNat DEF Children
  <2>6. QED
    BY <2>1, <2>5, LaterStatement
<1>3. CASE StartMock \/ StartBns
  <2>1. Ahead["startBns"] < Ahead["startMock"] /\ Ahead["readyz"] < Ahead["startBns"]
    BY AheadIs
  <2>2. QED
    BY <1>2, <1>3, <2>1 DEF StartMock, StartBns, Children, Probing
<1>4. CASE StartLoad
  <2>1. Ahead[pc'] < Ahead[pc]
    BY <1>4, AheadIs DEF StartLoad, Goto
  <2>2. UNCHANGED <<ProcessLeft("bns"), ProcessLeft("mock"), ProbesLeft>>
    BY <1>4 DEF StartLoad, Goto, ProcessLeft, ProbesLeft, Probing
  <2>3. Rest' <= Rest + 2
    BY <2>2, PartsNat DEF Children
  <2>4. QED
    BY <2>1, <2>3, LaterStatement
<1>5. CASE ProfileEnds
  <2>1. UNCHANGED <<pc, ProcessLeft("bns"), ProcessLeft("mock"), ProbesLeft>>
    BY <1>5 DEF ProfileEnds, ProcessLeft, ProbesLeft
  <2>2. ProfileLeft = 1 /\ ProfileLeft' = 0
    BY <1>5 DEF ProfileEnds, ProfileLeft
  <2>3. Rest' < Rest /\ Rest' <= Rest
    BY <2>1, <2>2, PartsNat DEF Children
  <2>4. QED
    BY <2>1, <2>3, SameStatement
<1>6. ASSUME NEW o \in Outcomes, ProbeAnswered(o)
      PROVE  RunLeft' < RunLeft
  <2>1. /\ pc = "dns" /\ ok' = ok + 1 /\ UNCHANGED <<child, profile>>
        /\ pc' = IF ok' >= Needed THEN "before" ELSE "dns"
    BY <1>6 DEF ProbeAnswered
  <2>2. UNCHANGED <<ProcessLeft("bns"), ProcessLeft("mock"), ProfileLeft>>
    BY <2>1 DEF ProcessLeft, ProfileLeft
  <2>3. ProbesLeft' < ProbesLeft
    BY SMTT(30), Z3, <1>0, <2>1 DEF ProbesLeft, Probing
  <2>4. Rest' < Rest /\ Rest' <= Rest /\ Rest' <= Rest + 2
    BY <2>2, <2>3, PartsNat DEF Children
  <2>5. CASE pc' = "dns"
    BY <2>1, <2>4, <2>5, SameStatement
  <2>6. CASE pc' = "before"
    <3>1. Ahead[pc'] < Ahead[pc]
      BY <2>1, <2>6, AheadIs
    <3>2. QED
      BY <2>4, <3>1, LaterStatement
  <2>7. QED
    BY <2>1, <2>5, <2>6
<1>7. ASSUME NEW c \in Children, NotStarted(c) \/ Reap(c)
      PROVE  RunLeft' < RunLeft
  <2>1. Ahead[pc'] < Ahead[pc]
    <3>1. \/ pc = "stopBns" /\ pc' = "stopMock"
          \/ pc = "stopMock" /\ pc' = "done"
      BY <1>7 DEF NotStarted, Reap, Goto, Stage, AfterStage, Children
    <3>2. Ahead["stopMock"] < Ahead["stopBns"] /\ Ahead["done"] < Ahead["stopMock"]
      BY SMTT(30), Z3, AheadIs
    <3>3. QED
      BY ZenonT(40), <3>1, <3>2
  <2>2. UNCHANGED <<ProcessLeft("bns"), ProcessLeft("mock")>>
    BY <1>0, <1>7 DEF NotStarted, Reap, ProcessLeft, Children
  <2>3. UNCHANGED <<ProfileLeft, ProbesLeft>>
    BY <1>7 DEF NotStarted, Reap, Goto, Stage, AfterStage, Children, runVars, ProfileLeft,
                ProbesLeft, Probing
  <2>4. Rest' <= Rest + 2
    BY <2>2, <2>3, PartsNat DEF Children
  <2>5. QED
    BY <2>1, <2>4, LaterStatement
<1>8. ASSUME NEW c \in Children, Interrupt(c) \/ Kill(c)
      PROVE  RunLeft' < RunLeft
  BY <1>8, ProcessFalls DEF Interrupt, Kill, runVars
<1>9. QED
  BY <1>1, <1>3, <1>4, <1>5, <1>6, <1>7, <1>8

\* Whatever fails and whoever dies, every step of Run brings it nearer to its end, and
\* nothing takes it back but a probe of the DNS server that is lost.
THEOREM RunAdvances == Spec => OnlyLostProbesDelay
<1>1. Awaits /\ Awaits' /\ [Next]_vars => [RunStep]_vars
  <2>. SUFFICES ASSUME Awaits, Awaits', [Next]_vars PROVE RunStep
    OBVIOUS
  <2>1. RunLeft \in Nat /\ RunLeft' \in Nat
    BY PartsNat DEF RunLeft, Children
  <2>2. CASE \/ Plain \/ StartMock \/ StartBns \/ StartLoad \/ ProfileEnds
             \/ \E o \in Outcomes : ProbeAnswered(o)
             \/ \E c \in Children : NotStarted(c) \/ Interrupt(c) \/ Kill(c) \/ Reap(c)
    BY <2>1, <2>2, RunFalls DEF RunStep
  <2>3. ASSUME ~Step, ~Failure, NEW c \in Children, Ends(c), UNCHANGED <<pc, profile, ok>>
        PROVE  RunStep
    BY <2>1, <2>3, ProcessFalls DEF RunStep
  <2>4. CASE ~Step /\ ~Failure /\ ProbeLost
    BY <2>4 DEF RunStep
  <2>5. CASE ~Step /\ ~Failure /\ UNCHANGED <<pc, child, profile, ok>>
    <3>1. RunLeft' = RunLeft
      BY <2>5 DEF RunLeft, ProcessLeft, ProfileLeft, ProbesLeft
    <3>2. QED
      BY <2>1, <2>5, <3>1 DEF RunStep
  <2>6. QED
    BY <2>2, <2>3, <2>4, <2>5, StepKinds
<1>2. QED
  BY <1>1, AwaitsAlways, PTL DEF Spec, OnlyLostProbesDelay

=============================================================================
