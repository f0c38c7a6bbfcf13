-------------------------- MODULE BlocklistRefresh --------------------------
(***************************************************************************)
(* How the blocklist in use follows its sources: the fetcher's goroutine   *)
(* (Fetcher.Run), the SIGHUP goroutine and reloadFromDisk of runServe, the *)
(* sources' Load and Loader.Load, and Holder.Swap.                         *)
(*                                                                         *)
(* Both goroutines run reloadFromDisk, each on its own and with no lock:   *)
(* source after source is read, then the matcher is swapped, then the      *)
(* gauge bns_blocklist_entries is set.  A matcher is the tuple of what was *)
(* read from each source.                                                  *)
(*                                                                         *)
(* The fetches themselves are those of BlocklistStore, whose steps the     *)
(* fetcher takes within a cycle.                                           *)
(***************************************************************************)
EXTENDS BlocklistStore

CONSTANTS
  File,         \* the one file source, configured after the HTTP ones
  FileContents, \* what it may hold
  Names,        \* names that clients may ask for
  Ticking,      \* whether the refresh interval is positive
  MaxEdits,     \* bound: edits of the file
  MaxSignals    \* bound: SIGHUPs

ASSUME RefreshAssumption ==
  /\ File \notin Urls
  /\ Absent \notin FileContents
  /\ FileContents \subseteq DOMAIN Body
  /\ Ticking \in BOOLEAN
  /\ {MaxEdits, MaxSignals} \subseteq Nat

\* The words of the lists, and of the names that are asked for.
Fields(line) == {line.fields[j] : j \in DOMAIN line.fields}

WordsOf(c) == UNION {Fields(Body[c].lines[i]) : i \in DOMAIN Body[c].lines}

Texts == Names \cup UNION {WordsOf(c) : c \in DOMAIN Body}

\* They are words; a label is its text, but for its case.  The line that is too long
\* is one of the lines.
ASSUME TextAssumption ==
  /\ Names \subseteq Words
  /\ \A c \in DOMAIN Body : Body[c] \in Bodies /\ Body[c].overlong \in 0 .. Len(Body[c].lines)
  /\ \A w \in Texts : \A i \in DOMAIN w : w[i].text = "" => w[i] = NoLabel
  /\ \A v, w \in Texts : \A i \in DOMAIN v, j \in DOMAIN w :
       v[i].text = w[j].text => LowerLabel(v[i]) = LowerLabel(w[j])

VARIABLES
  file,        \* the content of the file source, or Absent
  fetcher,     \* where the fetcher's goroutine is
  changed,     \* the flag of the cycle: some fetch stored a new body
  hangup,      \* where the SIGHUP goroutine is
  load,        \* per goroutine: the sources read so far by its Loader.Load
  signal,      \* a SIGHUP is in the goroutine's channel, of capacity 1
  refreshNow,  \* a poke is in the fetcher's channel, of capacity 1
  stopping,    \* gctx is done
  matcher,     \* what the holder holds
  gauge,       \* the matcher whose size the gauge shows
  reloadFailed,\* history: a reload has failed since the last one that succeeded
  unmet,       \* history: no poke has started a cycle since the last SIGHUP
  edits, signals

refreshVars == <<file, fetcher, changed, hangup, load, signal, refreshNow, stopping,
                 matcher, gauge, reloadFailed, unmet, edits, signals>>

vars == <<storeVars, refreshVars>>

Goroutines == {"fetcher", "hangup"}

sources == targets \o <<File>>

\* What Load of a source returns: the file's content, or the cached body, which
\* for a source not fetched yet is no entry at all.
Content(s) == IF s = File THEN file ELSE files[s].body

\* Contents that the scanner reads to their end.
ReadableFiles == {c \in FileContents : Readable(Body[c])}

\* The file cannot be opened, or not be read to its end.
FileFails == file \notin ReadableFiles

\* The initial Load comes before everything else; without the file bns would
\* not have started.
Init ==
  /\ StoreInit
  /\ file \in FileContents /\ ~FileFails
  /\ fetcher = "cycle"
  /\ changed = FALSE
  /\ hangup = "select"
  /\ load = [g \in Goroutines |-> <<>>]
  /\ signal = FALSE
  /\ refreshNow = FALSE
  /\ stopping = FALSE
  /\ matcher = [i \in DOMAIN sources |-> Content(sources[i])]
  /\ gauge = matcher
  /\ reloadFailed = FALSE
  /\ unmet = FALSE
  /\ edits = 0
  /\ signals = 0

-----------------------------------------------------------------------------
(***************************************************************************)
(* reloadFromDisk, in either goroutine.                                    *)
(***************************************************************************)

Where(g) == IF g = "fetcher" THEN fetcher ELSE hangup

\* Where a goroutine goes on after reloadFromDisk.
Returned(g) == IF g = "fetcher" THEN "select" ELSE "poke"

Goto(g, place) ==
  IF g = "fetcher" THEN fetcher' = place /\ UNCHANGED hangup
                   ELSE hangup' = place /\ UNCHANGED fetcher

\* Variant: the list of entries is kept from one load to the next.
ReloadBeginsKept(g) ==
  /\ Where(g) = "reload"
  /\ Goto(g, IF stopping THEN Returned(g) ELSE "load")
  /\ UNCHANGED <<storeVars, file, changed, load, signal, refreshNow, stopping, matcher,
                 gauge, reloadFailed, unmet, edits, signals>>

\* It does nothing once the process is shutting down.
ReloadBegins(g) ==
  /\ Where(g) = "reload"
  /\ Goto(g, IF stopping THEN Returned(g) ELSE "load")
  /\ load' = [load EXCEPT ![g] = <<>>]
  /\ UNCHANGED <<storeVars, file, changed, signal, refreshNow, stopping, matcher,
                 gauge, reloadFailed, unmet, edits, signals>>

NextSource(g) == sources[Len(load[g]) + 1]

LoadSource(g) ==
  /\ Where(g) = "load"
  /\ Len(load[g]) < Len(sources)
  /\ NextSource(g) = File => ~FileFails
  /\ load' = [load EXCEPT ![g] = Append(@, Content(NextSource(g)))]
  /\ UNCHANGED <<storeVars, file, fetcher, changed, hangup, signal, refreshNow, stopping,
                 matcher, gauge, reloadFailed, unmet, edits, signals>>

\* Load of the next source fails: the file is not there or has an overlong line, or by
\* chance, as when the cache cannot be read or a read outlasts the deadline of 30 s.
Misread(g) ==
  /\ Where(g) = "load"
  /\ Len(load[g]) < Len(sources)
  /\ IF NextSource(g) = File /\ FileFails THEN NoFault ELSE Fault

\* Variant: the sources that could be read are used.
LoadFailsPartial(g) ==
  /\ Misread(g)
  /\ load' = [load EXCEPT ![g] = Append(@, IF NextSource(g) = File THEN file ELSE Absent)]
  /\ UNCHANGED <<remote, disk, targets, todo, fetch, changes, crashes, file, fetcher, changed,
                 hangup, signal, refreshNow, stopping, matcher, gauge, reloadFailed, unmet,
                 edits, signals>>

\* One source that cannot be read fails the load; the matcher stays, and nobody
\* tries again.
LoadFails(g) ==
  /\ Misread(g)
  /\ reloadFailed' = TRUE
  /\ Goto(g, Returned(g))
  /\ UNCHANGED <<remote, disk, targets, todo, fetch, changes, crashes, file, changed, load,
                 signal, refreshNow, stopping, matcher, gauge, unmet, edits, signals>>

SwapMatcher(g) ==
  /\ Where(g) = "load"
  /\ Len(load[g]) = Len(sources)
  /\ matcher' = load[g]
  /\ reloadFailed' = FALSE
  /\ Goto(g, "gauge")
  /\ UNCHANGED <<storeVars, file, changed, load, signal, refreshNow, stopping, gauge,
                 unmet, edits, signals>>

SetGauge(g) ==
  /\ Where(g) = "gauge"
  /\ gauge' = load[g]
  /\ load' = [load EXCEPT ![g] = <<>>]
  /\ Goto(g, Returned(g))
  /\ UNCHANGED <<storeVars, file, changed, signal, refreshNow, stopping, matcher,
                 reloadFailed, unmet, edits, signals>>

Reload(g) ==
  \/ ReloadBegins(g) \/ LoadSource(g) \/ LoadFails(g) \/ SwapMatcher(g) \/ SetGauge(g)

-----------------------------------------------------------------------------
(***************************************************************************)
(* Fetcher.Run.                                                            *)
(***************************************************************************)

\* A step of the sweep or of a fetch, other than the end of a successful one.
InCycle(step) ==
  /\ fetcher = "cycle"
  /\ step
  /\ UNCHANGED refreshVars

\* FetchOne returns at once when the context is done.
FetchSkipped ==
  /\ At("idle")
  /\ stopping
  /\ todo # <<>>
  /\ todo' = Tail(todo)
  /\ fetch' = Idle("none")
  /\ UNCHANGED <<remote, disk, targets, bounds>>

\* The request carries the context, and fails when it is done.
RequestCancelled ==
  /\ At("asked")
  /\ stopping
  /\ fetch' = Idle("failure")
  /\ UNCHANGED <<remote, disk, targets, todo, bounds>>

WritesBefore == WriteSteps /\ ~At("sync")

FetcherCycle ==
  \/ InCycle(SweepSteps)
  \/ InCycle(FetchStarts /\ ~stopping)
  \/ InCycle(FetchSkipped)
  \/ InCycle(NotModified \/ BodyRefused \/ BodyArrives)
  \/ InCycle(WritesBefore)

FetcherFaults == InCycle(RequestFails \/ RequestCancelled \/ WriteFaults)

\* Variant: a body is new when the sidecar has another ETag.
FetchSucceedsIfKnown ==
  /\ fetcher = "cycle"
  /\ SyncDir
  /\ changed' = (changed \/ fetch.etag # Absent)
  /\ UNCHANGED <<file, fetcher, hangup, load, signal, refreshNow, stopping, matcher,
                 gauge, reloadFailed, unmet, edits, signals>>

\* The end of FetchOne with outcome success.
FetchSucceeds ==
  /\ fetcher = "cycle"
  /\ SyncDir
  /\ changed' = TRUE
  /\ UNCHANGED <<file, fetcher, hangup, load, signal, refreshNow, stopping, matcher,
                 gauge, reloadFailed, unmet, edits, signals>>

\* Variant: the flag is that of the last fetch.
CycleEndsLastOnly ==
  /\ fetcher = "cycle"
  /\ At("idle")
  /\ todo = <<>>
  /\ fetcher' = IF changed /\ fetch.outcome = "success" THEN "reload" ELSE "select"
  /\ UNCHANGED <<storeVars, file, changed, hangup, load, signal, refreshNow, stopping,
                 matcher, gauge, reloadFailed, unmet, edits, signals>>

CycleEnds ==
  /\ fetcher = "cycle"
  /\ At("idle")
  /\ todo = <<>>
  /\ fetcher' = IF changed THEN "reload" ELSE "select"
  /\ UNCHANGED <<storeVars, file, changed, hangup, load, signal, refreshNow, stopping,
                 matcher, gauge, reloadFailed, unmet, edits, signals>>

CycleBegins ==
  /\ fetcher = "select"
  /\ fetcher' = "cycle"
  /\ changed' = FALSE
  /\ todo' = targets
  /\ fetch' = Idle("none")
  /\ UNCHANGED <<remote, disk, targets, bounds, file, hangup, load, signal, stopping,
                 matcher, gauge, reloadFailed, edits, signals>>

TickReceived ==
  /\ Ticking
  /\ CycleBegins
  /\ UNCHANGED <<refreshNow, unmet>>

PokeReceived ==
  /\ refreshNow
  /\ CycleBegins
  /\ refreshNow' = FALSE
  /\ unmet' = FALSE

FetcherStops ==
  /\ fetcher = "select"
  /\ stopping
  /\ fetcher' = "done"
  /\ UNCHANGED <<storeVars, file, changed, hangup, load, signal, refreshNow, stopping,
                 matcher, gauge, reloadFailed, unmet, edits, signals>>

-----------------------------------------------------------------------------
(***************************************************************************)
(* The SIGHUP goroutine.                                                   *)
(***************************************************************************)

HangupReceived ==
  /\ hangup = "select"
  /\ signal
  /\ signal' = FALSE
  /\ hangup' = "reload"
  /\ UNCHANGED <<storeVars, file, fetcher, changed, load, refreshNow, stopping, matcher,
                 gauge, reloadFailed, unmet, edits, signals>>

\* Variant: the channel has no buffer, and a poke finds the fetcher or is lost.
RefreshNowUnbuffered ==
  /\ hangup = "poke"
  /\ refreshNow' = (fetcher = "select")
  /\ hangup' = "select"
  /\ UNCHANGED <<storeVars, file, fetcher, changed, load, signal, stopping, matcher,
                 gauge, reloadFailed, unmet, edits, signals>>

RefreshNow ==
  /\ hangup = "poke"
  /\ refreshNow' = TRUE
  /\ hangup' = "select"
  /\ UNCHANGED <<storeVars, file, fetcher, changed, load, signal, stopping, matcher,
                 gauge, reloadFailed, unmet, edits, signals>>

\* Variant: the context is looked at after a signal only.
HangupStopsOnSignal ==
  /\ hangup = "select"
  /\ stopping
  /\ signal
  /\ hangup' = "done"
  /\ UNCHANGED <<storeVars, file, fetcher, changed, load, signal, refreshNow, stopping,
                 matcher, gauge, reloadFailed, unmet, edits, signals>>

HangupStops ==
  /\ hangup = "select"
  /\ stopping
  /\ hangup' = "done"
  /\ UNCHANGED <<storeVars, file, fetcher, changed, load, signal, refreshNow, stopping,
                 matcher, gauge, reloadFailed, unmet, edits, signals>>

-----------------------------------------------------------------------------
(***************************************************************************)
(* The operator and the servers.                                           *)
(***************************************************************************)

\* A SIGHUP; the runtime drops it when one is in the channel already.
Hangup ==
  /\ signals < MaxSignals
  /\ signals' = signals + 1
  /\ signal' = TRUE
  /\ unmet' = TRUE
  /\ UNCHANGED <<storeVars, file, fetcher, changed, hangup, load, refreshNow, stopping,
                 matcher, gauge, reloadFailed, edits>>

\* The file is edited, removed or put back.
EditFile(c) ==
  /\ edits < MaxEdits
  /\ c # file
  /\ edits' = edits + 1
  /\ file' = c
  /\ UNCHANGED <<storeVars, fetcher, changed, hangup, load, signal, refreshNow, stopping,
                 matcher, gauge, reloadFailed, unmet, signals>>

\* A termination signal, or a server that failed.
Stop ==
  /\ ~stopping
  /\ stopping' = TRUE
  /\ UNCHANGED <<storeVars, file, fetcher, changed, hangup, load, signal, refreshNow,
                 matcher, gauge, reloadFailed, unmet, edits, signals>>

Published == (\E u \in Urls, v \in Versions : Publish(u, v)) /\ UNCHANGED refreshVars

FetcherStep ==
  \/ FetcherCycle \/ FetchSucceeds \/ CycleEnds \/ TickReceived \/ PokeReceived
  \/ FetcherStops
  \/ Reload("fetcher")

HangupStep == HangupReceived \/ RefreshNow \/ HangupStops \/ Reload("hangup")

Next ==
  \/ FetcherStep
  \/ FetcherFaults
  \/ HangupStep
  \/ Hangup
  \/ \E c \in FileContents \cup {Absent} : EditFile(c)
  \/ Stop
  \/ Published

Spec == Init /\ [][Next]_vars

\* Both goroutines are scheduled; a select with several ready cases takes each
\* of them with the same probability, so it does not pass over a poke, a signal
\* or the end of the context for ever.
FairSpec ==
  /\ Spec
  /\ WF_vars(FetcherStep)
  /\ WF_vars(HangupStep)
  /\ SF_vars(PokeReceived)
  /\ SF_vars(FetcherStops)
  /\ SF_vars(HangupStops)

-----------------------------------------------------------------------------
(***************************************************************************)
(* Properties.                                                             *)
(***************************************************************************)

\* The matcher in use always has the entries of every source, and those of the file
\* to its last line: a reload in which a source failed leaves the previous matcher in
\* place, as Loader.Load asks of its caller, whichever goroutine reloads.
MatcherComplete ==
  /\ Len(matcher) = Len(sources)
  /\ matcher[Len(matcher)] \in ReadableFiles

\* The entries of a matcher, source by source: none for one that is not cached.
ReadFrom(m) == {m[i] : i \in DOMAIN m} \ {Absent}

Loaded(m) == UNION {parseBody(Body[c]) : c \in ReadFrom(m)}

\* What a line means to its author (the formats that the comment of ParseLine
\* lists): a name, alone or after the address of a hosts file, with or without a
\* final dot, in any case, covers itself and everything below it.
Text(w) == [i \in DOMAIN w |-> w[i].text]

Bare(t) == IF t[Len(t)] = "" THEN SubSeq(t, 1, Len(t) - 1) ELSE t

Below(t, s) == Len(t) <= Len(s) /\ SubSeq(s, Len(s) - Len(t) + 1, Len(s)) = t

Lists(line, name) ==
  LET n == Len(line.fields)
      w == line.fields[n]
      t == Bare(Text(w))
  IN /\ ~line.comment
     /\ n = 1 \/ (n = 2 /\ isHostsAnchor(line.fields[1]))
     /\ t # << >> /\ Length(SubSeq(w, 1, Len(t))) <= 253
     /\ \A i \in DOMAIN t : w[i].len \in 1 .. 63 /\ w[i].form \in {"lower", "mixed"}
     /\ Below(t, Bare(Text(name)))

ListedBy == [c \in DOMAIN Body |-> {n \in Names : \E i \in DOMAIN Body[c].lines : Lists(Body[c].lines[i], n)}]

\* The matcher in use blocks exactly the names that its sources list: of a source
\* in use every line is, whatever other lines are wrong; a body with a line that
\* does not fit the scanner's buffer is never used up to that line.
BlocksExactlyListed ==
  {n \in Names : Match(NewMatcher(Loaded(matcher)), n)} =
    UNION {ListedBy[c] : c \in ReadFrom(matcher)}

\* The matcher holds the cached body of every HTTP source.
MatcherCurrent ==
  \A i \in DOMAIN targets : matcher[i] = files[targets[i]].body

\* A reload by the fetcher installs the bodies that are in the cache at that
\* moment: it is the fetcher that writes them, and it does not fetch while it
\* reloads, so they cannot change under its load.
FetcherSwapsCurrent ==
  [][fetcher = "load" /\ fetcher' = "gauge" => MatcherCurrent']_vars

\* When a cycle is over, and neither a SIGHUP nor a failure came in between, the
\* matcher holds every cached body, in whichever of the cycle's fetches the new
\* ones came.
CycleReloads ==
  fetcher = "select" /\ faults + signals + edits = 0 /\ ~stopping => MatcherCurrent

\* While nobody sends SIGHUP, the servers serve lists in the end and the last reload
\* does not fail, every new body the fetcher stores ends up in the matcher and stays
\* there, even when the write of its sidecar failed and the fetch counted as a failure.
\* (A reload that fails is not tried again before the next new body.  A server that
\* comes to serve something else after a failed write leaves a body that nobody loads.)
FetchesTakeEffect ==
  /\ [](~stopping /\ signals = 0)
  /\ <>[](~reloadFailed /\ \A u \in Urls : remote[u] \notin Unparsable)
  => <>[]MatcherCurrent

\* Every SIGHUP is followed by a fetch cycle of its own, whatever the fetcher was doing
\* when RefreshNow poked it.
HangupRefetches == unmet ~> (~unmet \/ stopping)

\* Both goroutines return once the context is done, so that g.Wait of runServe
\* can return.
ShutdownCompletes == stopping ~> (fetcher = "done" /\ hangup = "done")

\* The new bodies end up in the matcher under SIGHUPs too: "After any successful
\* fetch with a new body, it calls loader.Reload() ... One code path, one matcher
\* snapshot" (docs/specs/2026-05-21-bns-http-blocklist-source-design.md).
ReloadsTakeEffect ==
  [](file # Absent /\ ~stopping) => <>[]MatcherCurrent

=============================================================================
