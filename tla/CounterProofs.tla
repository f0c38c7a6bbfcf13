---------------------------- MODULE CounterProofs ----------------------------
(***************************************************************************)
(* The counters of internal/metrics account for the queries, and no query  *)
(* is left behind, for every number of queries and every interleaving.     *)
(*                                                                         *)
(* Each counter is the size of a set of queries (Tallied), or of pairs of  *)
(* a query and an upstream (FailuresCounted).  That a query enters such a  *)
(* set once, and leaves none, depends on how the calls end: nobody joins a *)
(* call that is over, and nobody is released twice (Rooted, OpenFlights,   *)
(* Over).  The second part is what EveryQueryAnswered rests on apart from  *)
(* fairness: no query waits for one that is stuck, and every step takes a  *)
(* query closer to its reply.                                              *)
(***************************************************************************)
EXTENDS ChainProofs, FiniteSetTheorems

\* The provers a leaf is tried with, in this order.
USE ZenonT(40), SMTT(30), Z3

\* The call a query takes part in is that of a leader.
Rooted == \A q \in Callers : call[q] # Nil => call[call[q]] = call[q]

\* A key in the Group has its leader at the upstreams.
OpenFlights == \A k \in Keys : flights[k] # Nil => pc[flights[k]] \in AtUpstream

\* Nobody leaves a call before it has landed.
Over ==
  \A q \in Callers :
    pc[q] \in {"deliver"} \cup Late /\ call[q] # Nil => pc[call[q]] \notin AtUpstream

\* The marker is set by the answer.
Unmarked ==
  \A q \in Callers : pc[q] \in Early \cup {"forward", "tcp", "doh"} => upstream[q] = 0

Missed == {q \in Callers : pc[q] = "coalesce" \/ call[q] # Nil}

Marked == {q \in Callers : upstream[q] # 0}

SharedReturns ==
  {q \in Callers : /\ pc[q] \in {"store", "finish", "done"}
                   /\ call[q] # Nil /\ Shared(q) /\ ret[q] # Panicked}

Panics == {q \in Done : ret[q] = Panicked}

\* n counts the elements of S, of which there are finitely many.
Counted(S, n) == IsFiniteSet(S) /\ n = Cardinality(S)

AllOutcomes == counts["blocked"] + counts["nxdomain"] + counts["forwarded"] + counts["error"]

Tallied ==
  /\ Counted(Done, AllOutcomes)
  /\ Counted(Missed, counts["miss"])
  /\ Counted(Marked, counts["ok"])
  /\ Counted(SharedReturns, counts["coalesced"])
  /\ Counted(Panics, counts["panic"])
  /\ counts["error"] >= counts["panic"]

Linked == Rooted /\ OpenFlights /\ Over /\ Unmarked

CountInv == ChainInv /\ Linked /\ Tallied

-----------------------------------------------------------------------------
(***************************************************************************)
(* Counting.                                                               *)
(***************************************************************************)

\* No query but q has entered or left.
SameBut(S, T, q) == \A p : p # q => (p \in T <=> p \in S)

\* The number follows q.
Advances(S, T, n, m, q) ==
  \/ (q \in T <=> q \in S) /\ m = n
  \/ q \in T /\ q \notin S /\ m = n + 1

LEMMA CountedStep ==
  ASSUME NEW S, NEW T, NEW n, NEW m, NEW q, Counted(S, n),
         SameBut(S, T, q),
         Advances(S, T, n, m, q)
  PROVE  Counted(T, m)
<1>1. CASE (q \in T <=> q \in S) /\ m = n
  <2>1. T = S
    BY <1>1 DEF SameBut
  <2>2. QED
    BY <1>1, <2>1
<1>2. CASE q \in T /\ q \notin S /\ m = n + 1
  <2>1. T = S \cup {q}
    BY <1>2 DEF SameBut
  <2>2. IsFiniteSet(T) /\ Cardinality(T) = Cardinality(S) + 1
    BY <1>2, <2>1, FS_AddElement DEF Counted
  <2>3. QED
    BY <1>2, <2>2 DEF Counted
<1>3. QED
  BY <1>1, <1>2 DEF Advances

\* Every set differs in q alone.
LEMMA TallyMove ==
  ASSUME Tallied, NEW q,
         /\ SameBut(Done, Done', q) /\ SameBut(Missed, Missed', q)
         /\ SameBut(Marked, Marked', q) /\ SameBut(SharedReturns, SharedReturns', q)
         /\ SameBut(Panics, Panics', q),
         Advances(Done, Done', AllOutcomes, AllOutcomes', q),
         Advances(Missed, Missed', counts["miss"], counts'["miss"], q),
         Advances(Marked, Marked', counts["ok"], counts'["ok"], q),
         Advances(SharedReturns, SharedReturns', counts["coalesced"], counts'["coalesced"], q),
         Advances(Panics, Panics', counts["panic"], counts'["panic"], q),
         counts'["error"] >= counts'["panic"]
  PROVE  Tallied'
<1>1. Counted(Done', AllOutcomes')
  BY CountedStep DEF Tallied
<1>2. Counted(Missed', counts'["miss"])
  BY CountedStep DEF Tallied
<1>3. Counted(Marked', counts'["ok"])
  BY CountedStep DEF Tallied
<1>4. Counted(SharedReturns', counts'["coalesced"])
  BY CountedStep DEF Tallied
<1>5. Counted(Panics', counts'["panic"])
  BY CountedStep DEF Tallied
<1>6. QED
  BY <1>1, <1>2, <1>3, <1>4, <1>5 DEF Tallied, Counted

\* A counter and the other ones.
LEMMA CountOnly ==
  ASSUME TypeOK, NEW c \in Counters, Count(c)
  PROVE  /\ counts'[c] = counts[c] + 1
         /\ \A d \in Counters \ {c} : counts'[d] = counts[d]
BY DEF Count, TypeOK

\* Only q moves, and no call changes.
LEMMA Elsewhere ==
  ASSUME TypeOK, NEW q \in Callers, NEW s,
         pc' = [pc EXCEPT ![q] = s], UNCHANGED call,
         \A p \in Callers \ {q} : ret'[p] = ret[p] /\ upstream'[p] = upstream[p]
  PROVE  /\ SameBut(Done, Done', q) /\ SameBut(Missed, Missed', q)
         /\ SameBut(Marked, Marked', q) /\ SameBut(SharedReturns, SharedReturns', q)
         /\ SameBut(Panics, Panics', q)
         /\ pc'[q] = s
         /\ \A p \in Callers : Shared(p)' <=> Shared(p)
<1>1. \A p \in Callers : pc'[p] = IF p = q THEN s ELSE pc[p]
  BY DEF TypeOK
<1>2. \A p \in Callers : Shared(p)' <=> Shared(p)
  BY DEF Shared, Followers
<1>3. SameBut(Done, Done', q)
  BY <1>1 DEF Done, SameBut
<1>4. SameBut(Missed, Missed', q)
  BY <1>1 DEF Missed, SameBut
<1>5. SameBut(Marked, Marked', q)
  BY DEF Marked, SameBut
<1>6. SameBut(Panics, Panics', q)
  BY <1>1 DEF Done, Panics, SameBut
<1>7. SameBut(SharedReturns, SharedReturns', q)
  BY <1>1, <1>2 DEF SharedReturns, SameBut
<1>8. QED
  BY <1>1, <1>2, <1>3, <1>4, <1>5, <1>6, <1>7

-----------------------------------------------------------------------------
(***************************************************************************)
(* The calls.                                                              *)
(***************************************************************************)

\* Only q moves: to and from the upstreams as its call does.
LEMMA LinksMove ==
  ASSUME CountInv, NEW q \in Callers, NEW s,
         pc' = [pc EXCEPT ![q] = s], UNCHANGED <<call, flights>>,
         \A p \in Callers \ {q} : upstream'[p] = upstream[p],
         pc[q] \in AtUpstream => s \in AtUpstream \/ call[q] = Nil,
         s \in AtUpstream => pc[q] \in AtUpstream \/ call[q] = Nil,
         s \in {"deliver"} \cup Late => pc[q] \in {"deliver"} \cup Late \/ call[q] = Nil,
         s \in Early \cup {"forward", "tcp", "doh"} => upstream'[q] = 0
  PROVE  Linked'
<1>0. TypeOK /\ Coalesced /\ Rooted /\ OpenFlights /\ Over /\ Unmarked
  BY DEF CountInv, ChainInv, Linked
<1>1. \A p \in Callers : pc'[p] = IF p = q THEN s ELSE pc[p]
  BY <1>0 DEF TypeOK
<1>2. /\ \A p \in Callers : call[p] \in Callers \cup {Nil}
      /\ \A k \in Keys : flights[k] \in Callers \cup {Nil}
  BY <1>0 DEF TypeOK
<1>3. Rooted'
  BY <1>0 DEF Rooted
<1>4. OpenFlights'
  <2>. SUFFICES ASSUME NEW k \in Keys, flights[k] # Nil
                PROVE  pc'[flights[k]] \in AtUpstream
    BY DEF OpenFlights
  <2>1. flights[k] \in Callers /\ pc[flights[k]] \in AtUpstream /\ Single(flights[k])
    BY <1>0, <1>2 DEF OpenFlights, Coalesced
  <2>2. call[flights[k]] # Nil
    BY <1>0, <2>1 DEF Coalesced
  <2>3. QED
    BY SMTT(30), Z3, <1>1, <2>1, <2>2
<1>5. Over'
  <2>. SUFFICES ASSUME NEW p \in Callers, pc'[p] \in {"deliver"} \cup Late, call[p] # Nil
                PROVE  pc'[call[p]] \notin AtUpstream
    BY DEF Over
  <2>1. call[p] \in Callers /\ call[call[p]] # Nil
    BY <1>0, <1>2 DEF Rooted
  <2>2. pc[p] \in {"deliver"} \cup Late
    BY <1>1
  <2>3. pc[call[p]] \notin AtUpstream
    BY <1>0, <2>2 DEF Over
  <2>4. QED
    BY <1>1, <2>1, <2>3
<1>6. Unmarked'
  BY <1>0, <1>1 DEF Unmarked
<1>7. QED
  BY <1>3, <1>4, <1>5, <1>6 DEF Linked

\* A step on the way in, at the upstreams or on the way out that counts nothing.
LEMMA QuietMove ==
  ASSUME CountInv, NEW q \in Callers, NEW s,
         pc' = [pc EXCEPT ![q] = s], UNCHANGED <<call, flights, upstream>>,
         \A p \in Callers \ {q} : ret'[p] = ret[p],
         \A c \in Counters \ {"hit", "failed"} : counts'[c] = counts[c],
         s \notin {"coalesce", "done"}, pc[q] \notin {"coalesce", "done"},
         pc[q] \in AtUpstream => s \in AtUpstream \/ call[q] = Nil,
         s \in AtUpstream => pc[q] \in AtUpstream \/ call[q] = Nil,
         s \in {"deliver"} \cup Late => pc[q] \in {"deliver"} \cup Late \/ call[q] = Nil,
         s \in Early \cup {"forward", "tcp", "doh"} => pc[q] \in Early \cup {"forward", "tcp", "doh"},
         pc[q] \in Late => s \in Late /\ ret'[q] = ret[q],
         s \in Late /\ pc[q] \notin Late =>
           call[q] = Nil \/ ~Shared(q) \/ ret'[q] = Panicked
  PROVE  Linked' /\ Tallied'
<1>0. TypeOK /\ Tallied /\ Unmarked
  BY DEF CountInv, ChainInv, Linked
<1>1. Linked'
  <2>1. s \in Early \cup {"forward", "tcp", "doh"} => upstream'[q] = 0
    BY <1>0 DEF Unmarked
  <2>2. QED
    BY <2>1, LinksMove
<1>2. pc'[q] = s /\ (Shared(q)' <=> Shared(q))
  BY <1>0, Elsewhere
<1>3. Advances(Done, Done', AllOutcomes, AllOutcomes', q)
  BY <1>2 DEF Advances, Done, AllOutcomes, Counters, Outcomes
<1>4. Advances(Missed, Missed', counts["miss"], counts'["miss"], q)
  BY <1>2 DEF Advances, Missed, Counters
<1>5. Advances(Marked, Marked', counts["ok"], counts'["ok"], q)
  BY DEF Advances, Marked, Counters
<1>6. Advances(SharedReturns, SharedReturns', counts["coalesced"], counts'["coalesced"], q)
  <2>1. q \in SharedReturns' <=> q \in SharedReturns
    BY <1>2 DEF SharedReturns, Late
  <2>2. QED
    BY <2>1 DEF Advances, Counters
<1>7. Advances(Panics, Panics', counts["panic"], counts'["panic"], q)
  BY <1>2 DEF Advances, Panics, Done, Counters
<1>8. counts'["error"] >= counts'["panic"]
  BY <1>0 DEF Tallied, Counters, Outcomes
<1>9. Tallied'
  BY <1>0, <1>3, <1>4, <1>5, <1>6, <1>7, <1>8, Elsewhere, TallyMove
<1>10. QED
  BY <1>1, <1>9

-----------------------------------------------------------------------------
(***************************************************************************)
(* The steps of a query.                                                   *)
(***************************************************************************)

\* The steps that count nothing, or only a hit or a failed exchange.
LEMMA QuietSteps ==
  ASSUME CountInv, NEW q \in Callers,
         \/ \E qs \in Requests : Arrive(q, qs)
         \/ PassUnkeyed(q) \/ PassUnblocked(q) \/ Block(q) \/ CacheHit(q)
         \/ Truncated(q) \/ PostDoH(q) \/ AttemptFails(q) \/ AttemptPanics(q)
         \/ LandUncoalesced(q) \/ DeliverPanic(q) \/ StoreResponse(q)
  PROVE  Linked' /\ Tallied'
<1>0. TypeOK /\ Coalesced
  BY DEF CountInv, ChainInv
<1>1. /\ UNCHANGED <<call, flights, upstream>>
      /\ \A p \in Callers \ {q} : ret'[p] = ret[p]
  BY <1>0 DEF Arrive, PassUnkeyed, PassUnblocked, Block, CacheHit, Truncated, PostDoH, AttemptFails,
              AfterError, AttemptPanics, LandUncoalesced, DeliverPanic, StoreResponse, Returns, TypeOK
<1>2. \A c \in Counters \ {"hit", "failed"} : counts'[c] = counts[c]
  <2>1. Count("hit") \/ Count("failed") \/ UNCHANGED counts
    BY DEF Arrive, PassUnkeyed, PassUnblocked, Block, CacheHit, Truncated, PostDoH, AttemptFails,
           AfterError, AttemptPanics, LandUncoalesced, DeliverPanic, StoreResponse
  <2>2. QED
    BY <1>0, <2>1 DEF Count, TypeOK
<1>3. pc[q] \in Early => call[q] = Nil
  BY <1>0 DEF Coalesced
<1>4. CASE (\E qs \in Requests : Arrive(q, qs)) \/ PassUnblocked(q)
  <2>1. PICK s \in {"block", "cache"} : pc' = [pc EXCEPT ![q] = s]
    BY <1>4 DEF Arrive, PassUnblocked, Goto
  <2>2. pc[q] \in {"idle", "block"}
    BY <1>4 DEF Arrive, PassUnblocked
  <2>3. QED
    BY <1>1, <1>2, <2>1, <2>2, QuietMove DEF Early, AtUpstream, Late
<1>5. CASE PassUnkeyed(q)
  <2>1. pc' = [pc EXCEPT ![q] = "forward"] /\ pc[q] = "block" /\ call[q] = Nil
    BY <1>3, <1>5 DEF PassUnkeyed, Goto, Early
  <2>2. /\ pc[q] \in Early /\ pc[q] \notin AtUpstream /\ pc[q] \notin Late
        /\ "forward" \notin Late /\ "forward" \notin {"deliver"} \cup Late
    BY <2>1 DEF Early, AtUpstream, Late
  <2>3. QED
    BY <1>1, <1>2, <2>1, <2>2, QuietMove
<1>6. CASE Block(q) \/ CacheHit(q)
  <2>1. pc' = [pc EXCEPT ![q] = "finish"] /\ pc[q] \in {"block", "cache"} /\ call[q] = Nil
    BY <1>3, <1>6 DEF Block, CacheHit, Lookup, Goto, Early
  <2>2. /\ pc[q] \notin AtUpstream /\ pc[q] \notin Late
        /\ "finish" \notin AtUpstream /\ "finish" \notin Early \cup {"forward", "tcp", "doh"}
    BY <2>1 DEF Early, AtUpstream, Late
  <2>3. QED
    BY <1>1, <1>2, <2>1, <2>2, QuietMove
<1>7. CASE Truncated(q) \/ PostDoH(q) \/ AttemptFails(q) \/ AttemptPanics(q)
  <2>1. PICK s \in AtUpstream : pc' = [pc EXCEPT ![q] = s]
    BY <1>7 DEF Truncated, PostDoH, AttemptFails, AfterError, AttemptPanics, Goto, AtUpstream
  <2>2. pc[q] \in {"forward", "tcp", "doh"}
    BY <1>7 DEF Truncated, PostDoH, AttemptFails, AfterError, AttemptPanics, Asking, Forwarding
  <2>3. QED
    BY <1>1, <1>2, <2>1, <2>2, QuietMove DEF Early, AtUpstream, Late
<1>8. CASE LandUncoalesced(q)
  <2>1. pc' = [pc EXCEPT ![q] = "finish"] /\ pc[q] = "land" /\ call[q] = Nil
    BY <1>8 DEF LandUncoalesced, Goto
  <2>2. /\ pc[q] \notin Late
        /\ "finish" \notin AtUpstream /\ "finish" \notin Early \cup {"forward", "tcp", "doh"}
    BY <2>1 DEF Early, AtUpstream, Late
  <2>3. QED
    BY <1>1, <1>2, <2>1, <2>2, QuietMove
<1>9. CASE DeliverPanic(q)
  <2>1. pc' = [pc EXCEPT ![q] = "finish"] /\ pc[q] = "deliver" /\ ret'[q] = Panicked
    BY <1>0, <1>9 DEF DeliverPanic, Goto, Returns, TypeOK
  <2>2. /\ pc[q] \notin AtUpstream /\ pc[q] \notin Late
        /\ "finish" \notin AtUpstream /\ "finish" \notin Early \cup {"forward", "tcp", "doh"}
    BY <2>1 DEF Early, AtUpstream, Late
  <2>3. QED
    BY <1>1, <1>2, <2>1, <2>2, QuietMove
<1>10. CASE StoreResponse(q)
  <2>1. pc' = [pc EXCEPT ![q] = "finish"] /\ pc[q] = "store" /\ ret'[q] = ret[q]
    BY <1>10 DEF StoreResponse, Goto
  <2>2. QED
    BY <1>1, <1>2, <2>1, QuietMove DEF Early, AtUpstream, Late
<1>11. QED
  BY <1>4, <1>5, <1>6, <1>7, <1>8, <1>9, <1>10

\* A miss is on its way to a call.
LEMMA MissTally ==
  ASSUME CountInv, NEW q \in Callers, CacheMiss(q)
  PROVE  Linked' /\ Tallied'
<1>0. TypeOK /\ Coalesced /\ Tallied /\ Unmarked
  BY DEF CountInv, ChainInv, Linked
<1>1. /\ pc' = [pc EXCEPT ![q] = "coalesce"] /\ pc[q] = "cache" /\ call[q] = Nil
      /\ UNCHANGED <<call, flights, upstream, ret>>
  BY <1>0 DEF CacheMiss, Lookup, Goto, Coalesced, Early
<1>2. Linked'
  <2>1. upstream'[q] = 0
    BY <1>0, <1>1 DEF Unmarked, Early
  <2>2. QED
    BY <1>1, <2>1, LinksMove DEF AtUpstream, Late
<1>3. /\ counts'["miss"] = counts["miss"] + 1
      /\ \A d \in Counters \ {"miss"} : counts'[d] = counts[d]
  BY <1>0, CountOnly DEF CacheMiss, Counters
<1>4. pc'[q] = "coalesce"
  BY <1>0, <1>1 DEF TypeOK
<1>5. Advances(Missed, Missed', counts["miss"], counts'["miss"], q)
  BY <1>1, <1>3, <1>4 DEF Advances, Missed
<1>6. Advances(Done, Done', AllOutcomes, AllOutcomes', q)
  BY <1>1, <1>3, <1>4 DEF Advances, Done, AllOutcomes, Counters, Outcomes
<1>7. Advances(Marked, Marked', counts["ok"], counts'["ok"], q)
  BY <1>1, <1>3 DEF Advances, Marked, Counters
<1>8. Advances(SharedReturns, SharedReturns', counts["coalesced"], counts'["coalesced"], q)
  BY <1>1, <1>3, <1>4 DEF Advances, SharedReturns, Counters
<1>9. Advances(Panics, Panics', counts["panic"], counts'["panic"], q)
  BY <1>1, <1>3, <1>4 DEF Advances, Panics, Done, Counters
<1>10. counts'["error"] >= counts'["panic"]
  BY <1>0, <1>3 DEF Tallied, Counters, Outcomes
<1>11. Tallied'
  BY <1>0, <1>1, <1>5, <1>6, <1>7, <1>8, <1>9, <1>10, Elsewhere, TallyMove
<1>12. QED
  BY <1>2, <1>11

\* An answer is marked in the context of the query that asked, which had no mark.
LEMMA AnswerTally ==
  ASSUME CountInv, NEW q \in Callers, NEW m, AttemptAnswers(q, m)
  PROVE  Linked' /\ Tallied'
<1>0. TypeOK /\ Coalesced /\ Tallied /\ Unmarked
  BY DEF CountInv, ChainInv, Linked
<1>1. /\ pc' = [pc EXCEPT ![q] = "land"] /\ pc[q] \in {"forward", "tcp", "doh"}
      /\ UNCHANGED <<call, flights, ret>>
      /\ upstream' = [upstream EXCEPT ![q] = attempt[q]]
  BY DEF AttemptAnswers, Asking, Forwarding, Goto, MarkUpstream
<1>2. \A p \in Callers \ {q} : upstream'[p] = upstream[p]
  BY <1>0, <1>1 DEF TypeOK
<1>3. upstream[q] = 0 /\ upstream'[q] # 0
  <2>1. attempt[q] \in 1 .. NumUpstreams /\ upstream'[q] = attempt[q]
    BY <1>0, <1>1 DEF TypeOK
  <2>2. attempt[q] # 0
    BY SMTT(30), Z3, <2>1
  <2>3. QED
    BY <1>0, <1>1, <2>1, <2>2 DEF Unmarked
<1>4. Linked'
  BY <1>1, <1>2, LinksMove DEF AtUpstream, Late, Early
<1>5. /\ counts'["ok"] = counts["ok"] + 1
      /\ \A d \in Counters \ {"ok"} : counts'[d] = counts[d]
  BY <1>0, CountOnly DEF AttemptAnswers, Counters
<1>6. pc'[q] = "land"
  BY <1>0, <1>1 DEF TypeOK
<1>7. Advances(Marked, Marked', counts["ok"], counts'["ok"], q)
  BY <1>3, <1>5 DEF Advances, Marked
<1>8. Advances(Done, Done', AllOutcomes, AllOutcomes', q)
  BY <1>1, <1>5, <1>6 DEF Advances, Done, AllOutcomes, Counters, Outcomes
<1>9. Advances(Missed, Missed', counts["miss"], counts'["miss"], q)
  BY <1>1, <1>5, <1>6 DEF Advances, Missed, Counters
<1>10. Advances(SharedReturns, SharedReturns', counts["coalesced"], counts'["coalesced"], q)
  BY <1>1, <1>5, <1>6 DEF Advances, SharedReturns, Counters
<1>11. Advances(Panics, Panics', counts["panic"], counts'["panic"], q)
  BY <1>1, <1>5, <1>6 DEF Advances, Panics, Done, Counters
<1>12. counts'["error"] >= counts'["panic"]
  BY <1>0, <1>5 DEF Tallied, Counters, Outcomes
<1>13. Tallied'
  BY <1>0, <1>1, <1>2, <1>7, <1>8, <1>9, <1>10, <1>11, <1>12, Elsewhere, TallyMove
<1>14. QED
  BY <1>4, <1>13

\* Do returns what was shared, and says so.
LEMMA DeliverTally ==
  ASSUME CountInv, NEW q \in Callers, DeliverError(q) \/ DeliverResponse(q)
  PROVE  Linked' /\ Tallied'
<1>0. TypeOK /\ Coalesced /\ Tallied /\ result[call[q]] # Panicked
  BY Distinct DEF CountInv, ChainInv, DeliverError, DeliverResponse
<1>1. /\ pc[q] = "deliver" /\ call[q] # Nil
      /\ UNCHANGED <<call, flights, upstream>>
      /\ CountShared(q)
  BY <1>0 DEF DeliverError, DeliverResponse, Coalesced
<1>2. PICK s \in {"store", "finish"} : pc' = [pc EXCEPT ![q] = s]
  BY DEF DeliverError, DeliverResponse, Goto
<1>3. ret'[q] # Panicked /\ \A p \in Callers \ {q} : ret'[p] = ret[p]
  <2>1. CASE DeliverError(q)
    BY <1>0, <2>1, Distinct DEF DeliverError, Returns, TypeOK
  <2>2. CASE DeliverResponse(q)
    <3>1. call[q] \in Callers /\ result[call[q]] \in Msgs
      <4>1. call[q] \in Callers
        BY <1>0, <1>1 DEF TypeOK
      <4>2. ResultOf(q)
        BY DEF CountInv, ChainInv, Resulted
      <4>3. result[call[q]] # Nil
        BY <1>1, <4>2 DEF ResultOf
      <4>4. result[call[q]] \in Msgs \cup {Nil, Failed, Panicked}
        BY <1>0, <4>1 DEF TypeOK
      <4>5. result[call[q]] \notin {Failed, Panicked}
        BY <2>2 DEF DeliverResponse
      <4>6. QED
        BY <4>1, <4>3, <4>4, <4>5
    <3>2. reqID[q] \in Callers
      BY <1>1 DEF CountInv, ChainInv, Identified
    <3>3. CopyFor(q) \in Msgs
      BY <3>1, <3>2 DEF CopyFor, Msgs
    <3>4. ret'[q] = CopyFor(q) /\ \A p \in Callers \ {q} : ret'[p] = ret[p]
      BY <1>0, <2>2 DEF DeliverResponse, Returns, TypeOK
    <3>5. QED
      BY <3>3, <3>4, Distinct
  <2>3. QED
    BY <2>1, <2>2
<1>4. CASE ~Shared(q)
  <2>1. UNCHANGED counts
    BY <1>1, <1>4 DEF CountShared
  <2>2. QED
    BY <1>1, <1>2, <1>3, <1>4, <2>1, QuietMove DEF Early, AtUpstream, Late
<1>5. CASE Shared(q)
  <2>1. /\ counts'["coalesced"] = counts["coalesced"] + 1
        /\ \A d \in Counters \ {"coalesced"} : counts'[d] = counts[d]
    BY <1>0, <1>1, <1>5, CountOnly DEF CountShared, Counters
  <2>2. Linked'
    BY <1>1, <1>2, LinksMove DEF Early, AtUpstream, Late
  <2>3. pc'[q] = s /\ Shared(q)'
    BY <1>0, <1>1, <1>2, <1>3, <1>5, Elsewhere
  <2>4. Advances(SharedReturns, SharedReturns', counts["coalesced"], counts'["coalesced"], q)
    BY <1>1, <1>3, <1>5, <2>1, <2>3 DEF Advances, SharedReturns
  <2>5. Advances(Done, Done', AllOutcomes, AllOutcomes', q)
    BY <1>1, <2>1, <2>3 DEF Advances, Done, AllOutcomes, Counters, Outcomes
  <2>6. Advances(Missed, Missed', counts["miss"], counts'["miss"], q)
    BY <1>1, <2>1, <2>3 DEF Advances, Missed, Counters
  <2>7. Advances(Marked, Marked', counts["ok"], counts'["ok"], q)
    BY <1>1, <2>1 DEF Advances, Marked, Counters
  <2>8. Advances(Panics, Panics', counts["panic"], counts'["panic"], q)
    BY <1>1, <2>1, <2>3 DEF Advances, Panics, Done, Counters
  <2>9. counts'["error"] >= counts'["panic"]
    BY <1>0, <2>1 DEF Tallied, Counters, Outcomes
  <2>10. Tallied'
    BY <1>0, <1>1, <1>2, <1>3, <2>4, <2>5, <2>6, <2>7, <2>8, <2>9, Elsewhere, TallyMove
  <2>11. QED
    BY <2>2, <2>10
<1>6. QED
  BY <1>4, <1>5

\* A query that is done has one outcome, and a panic is an error.
LEMMA FinishTally ==
  ASSUME CountInv, NEW q \in Callers, Finish(q)
  PROVE  Linked' /\ Tallied'
<1>0. TypeOK /\ Coalesced /\ Tallied /\ counts \in [Counters -> Nat]
  BY DEF CountInv, ChainInv, TypeOK
<1>1. /\ pc' = [pc EXCEPT ![q] = "done"] /\ pc[q] = "finish"
      /\ UNCHANGED <<call, flights, upstream, ret>>
  BY DEF Finish, Goto
<1>2. pc'[q] = "done" /\ (Shared(q)' <=> Shared(q))
  BY <1>0, <1>1, Elsewhere
<1>3. Outcome(q) \in Outcomes /\ (ret[q] = Panicked => Outcome(q) = "error")
  BY DEF Outcome, Outcomes
<1>4. \A c \in Counters :
        counts'[c] = IF c = Outcome(q) \/ (c = "panic" /\ ret[q] = Panicked)
                     THEN counts[c] + 1 ELSE counts[c]
  BY DEF Finish
<1>5. Linked'
  BY <1>1, LinksMove DEF Early, AtUpstream, Late
<1>6. AllOutcomes' = AllOutcomes + 1
  <2>1. {counts["blocked"], counts["nxdomain"], counts["forwarded"], counts["error"]} \subseteq Nat
    BY <1>0 DEF Counters, Outcomes
  <2>2. \A c \in Outcomes : counts'[c] = IF c = Outcome(q) THEN counts[c] + 1 ELSE counts[c]
    BY <1>4 DEF Counters, Outcomes
  <2>3. QED
    BY SMTT(30), Z3, <1>3, <2>1, <2>2 DEF AllOutcomes, Outcomes
<1>7. counts'["error"] >= counts'["panic"]
  <2>1. /\ counts["error"] \in Nat /\ counts["panic"] \in Nat
        /\ counts["error"] >= counts["panic"]
    BY <1>0 DEF Tallied, Counters, Outcomes
  <2>2. /\ counts'["error"] = IF Outcome(q) = "error" THEN counts["error"] + 1 ELSE counts["error"]
        /\ counts'["panic"] = IF ret[q] = Panicked THEN counts["panic"] + 1 ELSE counts["panic"]
    BY <1>3, <1>4 DEF Counters, Outcomes
  <2>3. QED
    BY SMTT(30), Z3, <1>3, <2>1, <2>2
<1>8. \A c \in {"miss", "ok", "coalesced"} : counts'[c] = counts[c]
  BY <1>3, <1>4 DEF Counters, Outcomes
<1>9. Advances(Done, Done', AllOutcomes, AllOutcomes', q)
  BY <1>1, <1>2, <1>6 DEF Advances, Done
<1>10. Advances(Panics, Panics', counts["panic"], counts'["panic"], q)
  <2>1. counts'["panic"] = IF ret[q] = Panicked THEN counts["panic"] + 1 ELSE counts["panic"]
    BY <1>3, <1>4 DEF Counters, Outcomes
  <2>2. QED
    BY <1>1, <1>2, <2>1 DEF Advances, Panics, Done
<1>11. Advances(Missed, Missed', counts["miss"], counts'["miss"], q)
  BY <1>1, <1>2, <1>8 DEF Advances, Missed
<1>12. Advances(Marked, Marked', counts["ok"], counts'["ok"], q)
  BY <1>1, <1>8 DEF Advances, Marked
<1>13. Advances(SharedReturns, SharedReturns', counts["coalesced"], counts'["coalesced"], q)
  BY <1>1, <1>2, <1>8 DEF Advances, SharedReturns
<1>14. Tallied'
  BY <1>0, <1>1, <1>7, <1>9, <1>10, <1>11, <1>12, <1>13, Elsewhere, TallyMove
<1>15. QED
  BY <1>5, <1>14

\* No set changes, and no counter.
LEMMA TallySame ==
  ASSUME Tallied, UNCHANGED <<counts, Done, Missed, Marked, SharedReturns, Panics>>
  PROVE  Tallied'
BY DEF Tallied, AllOutcomes

\* A miss becomes the leader of a call.
LEMMA LeadTally ==
  ASSUME CountInv, NEW q \in Callers, Lead(q)
  PROVE  Linked' /\ Tallied'
<1>0. TypeOK /\ Coalesced /\ Rooted /\ OpenFlights /\ Over /\ Unmarked /\ Tallied
  BY DEF CountInv, ChainInv, Linked
<1>1. /\ pc[q] = "coalesce" /\ call[q] = Nil /\ q # Nil
      /\ UNCHANGED <<counts, upstream, ret>>
  BY <1>0, Distinct DEF Lead, Coalesced, Early
<1>2. /\ \A p \in Callers : pc'[p] = IF p = q THEN "forward" ELSE pc[p]
      /\ \A p \in Callers : call'[p] = IF p = q THEN q ELSE call[p]
      /\ \A k \in Keys : flights'[k] = IF k = KeyOf(q) THEN q ELSE flights[k]
  BY <1>0 DEF Lead, Goto, TypeOK
<1>3. /\ \A p \in Callers : call[p] \in Callers \cup {Nil}
      /\ \A k \in Keys : flights[k] \in Callers \cup {Nil}
  BY <1>0 DEF TypeOK
<1>4. \A p \in Callers : call[p] # q
  BY <1>0, <1>1 DEF Rooted
<1>5. Rooted'
  BY <1>0, <1>2, <1>3, <1>4 DEF Rooted
<1>6. OpenFlights'
  <2>1. \A k \in Keys : flights[k] # Nil => flights[k] \in Callers /\ flights[k] # q
    BY <1>0, <1>1, <1>3 DEF OpenFlights, AtUpstream
  <2>2. QED
    BY SMTT(30), ZenonT(40), <1>0, <1>2, <2>1 DEF OpenFlights, AtUpstream
<1>7. Over'
  <2>. SUFFICES ASSUME NEW p \in Callers, pc'[p] \in {"deliver"} \cup Late, call'[p] # Nil
                PROVE  pc'[call'[p]] \notin AtUpstream
    BY DEF Over
  <2>1. p # q
    BY <1>2 DEF Late
  <2>2. pc[p] \in {"deliver"} \cup Late /\ call'[p] = call[p] /\ call[p] \in Callers /\ call[p] # q
    BY <1>2, <1>3, <1>4, <2>1
  <2>3. QED
    BY <1>0, <1>2, <2>2 DEF Over
<1>8. Unmarked'
  BY <1>0, <1>1, <1>2 DEF Unmarked, Early
<1>9. Done' = Done /\ Missed' = Missed /\ Marked' = Marked /\ Panics' = Panics
  <2>1. Done' = Done
    BY <1>1, <1>2 DEF Done
  <2>2. Missed' = Missed
    BY <1>1, <1>2 DEF Missed
  <2>3. QED
    BY <1>1, <2>1, <2>2 DEF Marked, Panics
<1>10. SharedReturns' = SharedReturns
  <2>1. \A p \in Callers \ {q} : Shared(p)' <=> Shared(p)
    <3>1. \A p \in Callers \ {q} : Followers(p)' = Followers(p)
      BY <1>1, <1>2, Distinct DEF Followers
    <3>2. QED
      BY <1>2, <3>1 DEF Shared
  <2>2. QED
    BY <1>1, <1>2, <2>1 DEF SharedReturns
<1>11. Tallied'
  BY <1>0, <1>1, <1>9, <1>10, TallySame
<1>12. QED
  BY <1>5, <1>6, <1>7, <1>8, <1>11 DEF Linked

\* A miss joins a call, whose leader is still at the upstreams.
LEMMA FollowTally ==
  ASSUME CountInv, NEW q \in Callers, Follow(q)
  PROVE  Linked' /\ Tallied'
<1>. DEFINE l == flights[KeyOf(q)]
<1>0. TypeOK /\ Coalesced /\ Rooted /\ OpenFlights /\ Over /\ Unmarked /\ Tallied
  BY DEF CountInv, ChainInv, Linked
<1>1. /\ pc[q] = "coalesce" /\ call[q] = Nil
      /\ UNCHANGED <<counts, upstream, ret, flights>>
  BY <1>0 DEF Follow, Coalesced, Early
<1>2. KeyOf(q) \in Keys /\ l # Nil
  BY <1>0, <1>1, SingleKey DEF Follow, Coalesced
<1>3. l \in Callers /\ pc[l] \in AtUpstream /\ call[l] = l /\ l # q
  <2>1. l \in Callers /\ pc[l] \in AtUpstream /\ Single(l)
    BY SMTT(30), ZenonT(40), <1>0, <1>2 DEF TypeOK, OpenFlights, Coalesced
  <2>2. QED
    BY <1>0, <1>1, <2>1 DEF Coalesced, AtUpstream
<1>4. /\ \A p \in Callers : pc'[p] = IF p = q THEN "wait" ELSE pc[p]
      /\ \A p \in Callers : call'[p] = IF p = q THEN l ELSE call[p]
  BY <1>0 DEF Follow, Goto, TypeOK
<1>. HIDE DEF l
<1>5. /\ \A p \in Callers : call[p] \in Callers \cup {Nil}
      /\ \A k \in Keys : flights[k] \in Callers \cup {Nil}
  BY <1>0 DEF TypeOK
<1>6. \A p \in Callers : call[p] # q
  BY <1>0, <1>1, Distinct DEF Rooted
<1>7. Rooted'
  BY <1>0, <1>3, <1>4, <1>5, <1>6 DEF Rooted
<1>8. OpenFlights'
  <2>1. \A k \in Keys : flights[k] # Nil => flights[k] \in Callers /\ flights[k] # q
    BY <1>0, <1>1, <1>5 DEF OpenFlights, AtUpstream
  <2>2. QED
    BY <1>0, <1>1, <1>4, <2>1 DEF OpenFlights
<1>9. Over'
  <2>. SUFFICES ASSUME NEW p \in Callers, pc'[p] \in {"deliver"} \cup Late, call'[p] # Nil
                PROVE  pc'[call'[p]] \notin AtUpstream
    BY DEF Over
  <2>1. p # q
    BY <1>4 DEF Late
  <2>2. pc[p] \in {"deliver"} \cup Late /\ call'[p] = call[p] /\ call[p] \in Callers /\ call[p] # q
    BY <1>4, <1>5, <1>6, <2>1
  <2>3. QED
    BY <1>0, <1>4, <2>2 DEF Over
<1>10. Unmarked'
  BY <1>0, <1>1, <1>4 DEF Unmarked, Early
<1>11. Done' = Done /\ Missed' = Missed /\ Marked' = Marked /\ Panics' = Panics
  <2>1. Done' = Done
    BY <1>1, <1>4 DEF Done
  <2>2. Missed' = Missed
    BY <1>1, <1>3, <1>4, Distinct DEF Missed
  <2>3. QED
    BY <1>1, <2>1, <2>2 DEF Marked, Panics
<1>12. SharedReturns' = SharedReturns
  <2>1. \A p \in Callers \ {q, l} : Shared(p)' <=> Shared(p)
    <3>1. \A p \in Callers \ {q, l} : Followers(p)' = Followers(p)
      BY <1>1, <1>4, Distinct DEF Followers
    <3>2. QED
      BY <1>4, <3>1 DEF Shared
  <2>2. pc[l] \notin {"store", "finish", "done"}
    BY <1>3 DEF AtUpstream
  <2>3. QED
    BY <1>1, <1>3, <1>4, <2>1, <2>2 DEF SharedReturns
<1>13. Tallied'
  BY <1>0, <1>1, <1>11, <1>12, TallySame
<1>14. QED
  BY <1>7, <1>8, <1>9, <1>10, <1>13 DEF Linked

\* A call lands once: those it releases were waiting for it.
LEMMA LandTally ==
  ASSUME CountInv, NEW q \in Callers, Land(q)
  PROVE  Linked' /\ Tallied'
<1>0. TypeOK /\ Coalesced /\ Rooted /\ OpenFlights /\ Over /\ Unmarked /\ Tallied
  BY DEF CountInv, ChainInv, Linked
<1>1. /\ pc[q] = "land" /\ call[q] = q /\ q # Nil
      /\ UNCHANGED <<counts, upstream, ret, call>>
  BY Distinct DEF Land
<1>2. /\ \A p \in Callers : pc'[p] = IF call[p] = q THEN "deliver" ELSE pc[p]
      /\ \A k \in Keys : flights'[k] = IF k = KeyOf(q) THEN Nil ELSE flights[k]
  BY <1>0 DEF Land, TypeOK
<1>3. /\ \A p \in Callers : call[p] \in Callers \cup {Nil}
      /\ \A k \in Keys : flights[k] \in Callers \cup {Nil}
  BY <1>0 DEF TypeOK
<1>4. \A p \in Callers : call[p] = q => pc[p] \notin {"deliver"} \cup Late
  BY <1>0, <1>1 DEF Over, AtUpstream
<1>5. Rooted'
  BY <1>0, <1>1 DEF Rooted
<1>6. OpenFlights'
  <2>. SUFFICES ASSUME NEW k \in Keys, flights'[k] # Nil
                PROVE  pc'[flights'[k]] \in AtUpstream
    BY DEF OpenFlights
  <2>1. flights'[k] = flights[k] /\ k # KeyOf(q)
    BY <1>2
  <2>2. /\ flights[k] \in Callers /\ pc[flights[k]] \in AtUpstream
        /\ Single(flights[k]) /\ KeyOf(flights[k]) = k
    BY <1>0, <1>3, <2>1 DEF OpenFlights, Coalesced
  <2>3. call[flights[k]] = flights[k] /\ flights[k] # q
    BY <1>0, <2>1, <2>2 DEF Coalesced
  <2>4. QED
    BY <1>2, <2>1, <2>2, <2>3
<1>7. Over'
  <2>. SUFFICES ASSUME NEW p \in Callers, pc'[p] \in {"deliver"} \cup Late, call[p] # Nil
                PROVE  pc'[call[p]] \notin AtUpstream
    BY <1>1 DEF Over
  <2>1. CASE call[p] = q
    BY <1>1, <1>2, <2>1 DEF AtUpstream
  <2>2. CASE call[p] # q
    <3>1. call[p] \in Callers /\ call[call[p]] # q /\ pc[p] \in {"deliver"} \cup Late
      BY <1>0, <1>2, <1>3, <2>2 DEF Rooted
    <3>2. QED
      BY <1>0, <1>2, <3>1 DEF Over
  <2>3. QED
    BY <2>1, <2>2
<1>8. Unmarked'
  BY <1>0, <1>1, <1>2 DEF Unmarked, Early
<1>9. Done' = Done /\ Missed' = Missed /\ Marked' = Marked /\ Panics' = Panics
  <2>1. Done' = Done
    BY <1>2, <1>4 DEF Done, Late
  <2>2. Missed' = Missed
    BY <1>1, <1>2 DEF Missed
  <2>3. QED
    BY <1>1, <2>1, <2>2 DEF Marked, Panics
<1>10. SharedReturns' = SharedReturns
  <2>1. \A p \in Callers : Shared(p)' <=> Shared(p)
    BY <1>1 DEF Shared, Followers
  <2>2. QED
    BY <1>1, <1>2, <1>4, <2>1 DEF SharedReturns, Late
<1>11. Tallied'
  BY <1>0, <1>1, <1>9, <1>10, TallySame
<1>12. QED
  BY <1>5, <1>6, <1>7, <1>8, <1>11 DEF Linked

\* A step that moves no query: a context ends, the matcher is replaced, time passes.
LEMMA StillTally ==
  ASSUME CountInv, UNCHANGED <<pc, call, flights, upstream, ret, counts>>
  PROVE  Linked' /\ Tallied'
<1>1. Linked'
  BY DEF CountInv, Linked, Rooted, OpenFlights, Over, Unmarked
<1>2. UNCHANGED <<Done, Missed, Marked, Panics>>
  BY DEF Done, Missed, Marked, Panics
<1>3. UNCHANGED SharedReturns
  BY DEF SharedReturns, Shared, Followers
<1>4. QED
  BY <1>1, <1>2, <1>3, TallySame DEF CountInv

-----------------------------------------------------------------------------

LEMMA CountInitInv == Init => CountInv
<1>. SUFFICES ASSUME Init PROVE CountInv
  OBVIOUS
<1>1. ChainInv
  BY ChainInitInv
<1>2. Linked
  BY Distinct DEF Init, Linked, Rooted, OpenFlights, Over, Unmarked, Late
<1>3. Done = {} /\ Missed = {} /\ Marked = {} /\ SharedReturns = {} /\ Panics = {}
  BY DEF Init, Done, Missed, Marked, SharedReturns, Panics
<1>4. \A c \in Counters : counts[c] = 0
  BY DEF Init
<1>5. AllOutcomes = 0
  <2>1. counts["blocked"] = 0 /\ counts["nxdomain"] = 0 /\ counts["forwarded"] = 0 /\ counts["error"] = 0
    BY <1>4 DEF Counters, Outcomes
  <2>2. QED
    BY SMTT(30), Z3, <2>1 DEF AllOutcomes
<1>6. Counted({}, 0)
  BY FS_EmptySet DEF Counted
<1>7. counts["error"] >= counts["panic"]
  <2>1. counts["error"] = 0 /\ counts["panic"] = 0
    BY <1>4 DEF Counters, Outcomes
  <2>2. QED
    BY SMTT(30), Z3, <2>1
<1>8. Tallied
  BY <1>3, <1>4, <1>5, <1>6, <1>7 DEF Tallied, Counters
<1>9. QED
  BY <1>1, <1>2, <1>8 DEF CountInv

LEMMA CountNextInv == CountInv /\ [Next]_vars => CountInv'
<1>. SUFFICES ASSUME CountInv, [Next]_vars PROVE CountInv'
  OBVIOUS
<1>1. ChainInv'
  BY ChainNextInv DEF CountInv
<1>2. ASSUME NEW q \in Callers, Step(q)
      PROVE  Linked' /\ Tallied'
  BY <1>2, QuietSteps, MissTally, LeadTally, FollowTally, AnswerTally, LandTally, DeliverTally,
     FinishTally DEF Step
<1>3. ASSUME \/ \E q \in Callers : Cancel(q)
             \/ \E m \in BlockLists : Swap(m)
             \/ TimePasses
             \/ UNCHANGED vars
      PROVE  Linked' /\ Tallied'
  <2>1. UNCHANGED <<pc, call, flights, upstream, ret, counts>>
    BY <1>3 DEF Cancel, Swap, TimePasses, vars, chainVars, queryVars
  <2>2. QED
    BY <2>1, StillTally
<1>4. Linked' /\ Tallied'
  <2>1. \/ \E q \in Callers : (\E qs \in Requests : Arrive(q, qs)) \/ Step(q) \/ Cancel(q)
        \/ \E m \in BlockLists : Swap(m)
        \/ TimePasses
        \/ UNCHANGED vars
    BY DEF Next
  <2>2. ASSUME NEW q \in Callers, \E qs \in Requests : Arrive(q, qs)
        PROVE  Linked' /\ Tallied'
    BY <2>2, QuietSteps
  <2>3. QED
    BY <1>2, <1>3, <2>1, <2>2
<1>5. QED
  BY <1>1, <1>4 DEF CountInv

LEMMA CountSpecInv == Spec => []CountInv
BY CountInitInv, CountNextInv, PTL DEF Spec

-----------------------------------------------------------------------------
(***************************************************************************)
(* The exchanges that failed: not queries but upstreams of queries.        *)
(***************************************************************************)

\* Upstream i has failed the query x.
Spent(x, i) == i < attempt[x] \/ (i = attempt[x] /\ result[x] = Failed)

FailuresCounted == Counted(FailedExchanges, counts["failed"])

\* A step that asks no further upstream and gives up on no query.
LEMMA FailuresSame ==
  ASSUME FailuresCounted, UNCHANGED attempt, counts'["failed"] = counts["failed"],
         \A x \in Callers : result'[x] = Failed <=> result[x] = Failed
  PROVE  FailuresCounted'
<1>1. \A e \in Callers \X (1 .. NumUpstreams) : e[1] \in Callers
  BY SMTT(30), Z3
<1>2. FailedExchanges' = FailedExchanges
  BY <1>1 DEF FailedExchanges
<1>3. QED
  BY <1>2 DEF FailuresCounted

\* An exchange that fails is counted, whether it is the last one or not.
LEMMA FailureCounts ==
  ASSUME ChainInv, FailuresCounted, NEW q \in Callers, AttemptFails(q)
  PROVE  FailuresCounted'
<1>. DEFINE e == <<q, attempt[q]>>
<1>0. TypeOK /\ Resulted
  BY DEF ChainInv
<1>1. /\ result[q] = Nil /\ result[q] # Failed
      /\ attempt[q] \in 1 .. NumUpstreams
  <2>1. pc[q] \in {"forward", "tcp", "doh"}
    BY DEF AttemptFails, AfterError, Asking, Forwarding
  <2>2. QED
    BY <1>0, <2>1, Distinct DEF Resulted, ResultOf, TypeOK
<1>2. \/ result' = [result EXCEPT ![q] = Failed] /\ UNCHANGED attempt
      \/ attempt' = [attempt EXCEPT ![q] = attempt[q] + 1] /\ UNCHANGED result
  BY DEF AttemptFails, AfterError
<1>3. counts'["failed"] = counts["failed"] + 1
  BY <1>0, CountOnly DEF AttemptFails, AfterError, Counters
<1>4. ASSUME NEW x \in Callers, NEW i \in 1 .. NumUpstreams
      PROVE  Spent(x, i)' <=> Spent(x, i) \/ (x = q /\ i = attempt[q])
  <2>1. CASE x # q
    <3>1. attempt'[x] = attempt[x] /\ result'[x] = result[x]
      BY <1>0, <1>2, <2>1 DEF TypeOK
    <3>2. QED
      BY <2>1, <3>1 DEF Spent
  <2>2. CASE x = q /\ result' = [result EXCEPT ![q] = Failed] /\ UNCHANGED attempt
    <3>1. result'[q] = Failed
      BY <1>0, <2>2 DEF TypeOK
    <3>2. QED
      BY <1>1, <2>2, <3>1 DEF Spent
  <2>3. CASE x = q /\ attempt' = [attempt EXCEPT ![q] = attempt[q] + 1] /\ UNCHANGED result
    <3>1. attempt'[q] = attempt[q] + 1 /\ attempt[q] \in Nat /\ i \in Nat
      BY SMTT(30), Z3, <1>0, <1>1, <2>3 DEF TypeOK
    <3>2. i < attempt[q] + 1 <=> i < attempt[q] \/ i = attempt[q]
      BY SMTT(30), Z3, <3>1
    <3>3. QED
      BY <1>1, <2>3, <3>1, <3>2 DEF Spent
  <2>4. QED
    BY <1>2, <2>1, <2>2, <2>3
<1>5. \A d \in Callers \X (1 .. NumUpstreams) :
        /\ d[1] \in Callers /\ d[2] \in 1 .. NumUpstreams
        /\ d = e <=> d[1] = q /\ d[2] = attempt[q]
  BY SMTT(30), Z3
<1>6. \A d \in Callers \X (1 .. NumUpstreams) :
        Spent(d[1], d[2])' <=> Spent(d[1], d[2]) \/ d = e
  BY <1>4, <1>5
<1>7. /\ FailedExchanges = {d \in Callers \X (1 .. NumUpstreams) : Spent(d[1], d[2])}
      /\ FailedExchanges' = {d \in Callers \X (1 .. NumUpstreams) : Spent(d[1], d[2])'}
  BY DEF FailedExchanges, Spent
<1>8. e \in Callers \X (1 .. NumUpstreams) /\ e[1] = q /\ e[2] = attempt[q]
  BY SMTT(30), Z3, <1>1
<1>9. ~Spent(q, attempt[q])
  BY SMTT(30), Z3, <1>1 DEF Spent
<1>. HIDE DEF e
<1>10. SameBut(FailedExchanges, FailedExchanges', e)
  BY <1>6, <1>7 DEF SameBut
<1>11. e \in FailedExchanges' /\ e \notin FailedExchanges
  BY <1>6, <1>7, <1>8, <1>9
<1>12. Advances(FailedExchanges, FailedExchanges', counts["failed"], counts'["failed"], e)
  BY <1>3, <1>11 DEF Advances
<1>13. QED
  BY <1>10, <1>12, CountedStep DEF FailuresCounted

\* No other step counts a failed exchange.
LEMMA OthersCountNoFailure ==
  ASSUME ChainInv, FailuresCounted, NEW q \in Callers, Step(q), ~AttemptFails(q)
  PROVE  FailuresCounted'
<1>0. TypeOK /\ Resulted
  BY DEF ChainInv
<1>1. ASSUME NEW c \in Counters \ {"failed"}, Count(c) PROVE counts'["failed"] = counts["failed"]
  BY <1>0, <1>1, CountOnly DEF Counters
<1>2. CASE \/ PassUnkeyed(q) \/ PassUnblocked(q) \/ Block(q) \/ Lead(q) \/ Follow(q)
           \/ Truncated(q) \/ PostDoH(q) \/ Land(q) \/ LandUncoalesced(q) \/ DeliverPanic(q)
           \/ StoreResponse(q)
  <2>1. UNCHANGED <<attempt, result, counts>>
    BY <1>2 DEF PassUnkeyed, PassUnblocked, Block, Lead, Follow, Truncated, PostDoH, Land,
         LandUncoalesced, DeliverPanic, StoreResponse
  <2>2. QED
    BY <2>1, FailuresSame
<1>3. CASE CacheHit(q) \/ CacheMiss(q)
  BY <1>1, <1>3, FailuresSame DEF CacheHit, CacheMiss, Counters
<1>4. CASE DeliverError(q) \/ DeliverResponse(q)
  BY <1>1, <1>4, FailuresSame DEF DeliverError, DeliverResponse, CountShared, Counters
<1>5. CASE Finish(q)
  <2>1. Outcome(q) # "failed"
    BY DEF Outcome
  <2>2. counts'["failed"] = counts["failed"] /\ UNCHANGED <<attempt, result>>
    BY <1>5, <2>1 DEF Finish, Counters
  <2>3. QED
    BY <2>2, FailuresSame
<1>6. ASSUME NEW r, r # Failed, result' = [result EXCEPT ![q] = r],
             pc[q] \in {"forward", "tcp", "doh"}
      PROVE  \A x \in Callers : result'[x] = Failed <=> result[x] = Failed
  <2>1. result[q] = Nil
    BY <1>0, <1>6 DEF Resulted, ResultOf
  <2>2. QED
    BY <1>0, <1>6, <2>1, Distinct DEF TypeOK
<1>7. ASSUME NEW m \in Received(q), AttemptAnswers(q, m) PROVE FailuresCounted'
  <2>1. m # Failed
    BY <1>7, AnswerIsMsg, Distinct DEF ChainInv
  <2>2. counts'["failed"] = counts["failed"] /\ UNCHANGED attempt
    BY <1>1, <1>7 DEF AttemptAnswers, Counters
  <2>3. \A x \in Callers : result'[x] = Failed <=> result[x] = Failed
    BY <1>6, <1>7, <2>1 DEF AttemptAnswers, Asking, Forwarding
  <2>4. QED
    BY <2>2, <2>3, FailuresSame
<1>8. CASE AttemptPanics(q)
  <2>1. UNCHANGED <<attempt, counts>>
    BY <1>8 DEF AttemptPanics
  <2>2. \A x \in Callers : result'[x] = Failed <=> result[x] = Failed
    BY <1>6, <1>8, Distinct DEF AttemptPanics, Asking, Forwarding
  <2>3. QED
    BY <2>1, <2>2, FailuresSame
<1>9. QED
  BY <1>2, <1>3, <1>4, <1>5, <1>7, <1>8 DEF Step

LEMMA FailuresNext == ChainInv /\ FailuresCounted /\ [Next]_vars => FailuresCounted'
<1>. SUFFICES ASSUME ChainInv, FailuresCounted, [Next]_vars PROVE FailuresCounted'
  OBVIOUS
<1>1. ASSUME NEW q \in Callers, Step(q) PROVE FailuresCounted'
  BY <1>1, FailureCounts, OthersCountNoFailure
<1>2. ASSUME \/ \E q \in Callers : (\E qs \in Requests : Arrive(q, qs)) \/ Cancel(q)
             \/ \E m \in BlockLists : Swap(m)
             \/ TimePasses
             \/ UNCHANGED vars
      PROVE  FailuresCounted'
  <2>1. UNCHANGED <<attempt, result, counts>>
    BY <1>2 DEF Arrive, Cancel, Swap, TimePasses, vars, chainVars, queryVars
  <2>2. QED
    BY <2>1, FailuresSame
<1>3. QED
  BY <1>1, <1>2 DEF Next

LEMMA FailuresInit == Init => FailuresCounted
<1>. SUFFICES ASSUME Init PROVE FailuresCounted
  OBVIOUS
<1>1. \A x \in Callers : attempt[x] = 1 /\ result[x] # Failed
  BY Distinct DEF Init
<1>2. \A d \in Callers \X (1 .. NumUpstreams) : d[1] \in Callers /\ ~(d[2] < 1)
  BY SMTT(30), Z3
<1>3. FailedExchanges = {}
  BY <1>1, <1>2 DEF FailedExchanges
<1>4. counts["failed"] = 0
  BY DEF Init, Counters
<1>5. QED
  BY <1>3, <1>4, FS_EmptySet DEF FailuresCounted, Counted

\* However many queries there are and however their calls are shared, fail or panic,
\* the counters that the stages increment account for them.
THEOREM CountersAccount == Spec => []CountersAgree
<1>1. ASSUME CountInv, FailuresCounted PROVE CountersAgree
  <2>1. /\ counts["coalesced"] >= Cardinality(Piggybacked)
        /\ counts["coalesced"] <= Cardinality(InSharedCalls)
    <3>1. /\ Piggybacked \subseteq SharedReturns
          /\ SharedReturns \subseteq InSharedCalls
          /\ InSharedCalls \subseteq Missed
      BY DEF Piggybacked, SharedReturns, InSharedCalls, Missed, Shared
    <3>2. /\ IsFiniteSet(Missed) /\ IsFiniteSet(SharedReturns)
          /\ counts["coalesced"] = Cardinality(SharedReturns)
      BY <1>1 DEF CountInv, Tallied, Counted
    <3>3. /\ IsFiniteSet(Piggybacked) /\ Cardinality(Piggybacked) \in Nat
          /\ Cardinality(SharedReturns) \in Nat
          /\ Cardinality(Piggybacked) <= Cardinality(SharedReturns)
      BY <3>1, <3>2, FS_Subset, FS_CardinalityType
    <3>4. IsFiniteSet(InSharedCalls)
      BY <3>1, <3>2, FS_Subset
    <3>5. /\ Cardinality(InSharedCalls) \in Nat
          /\ Cardinality(SharedReturns) <= Cardinality(InSharedCalls)
      BY <3>1, <3>4, FS_Subset, FS_CardinalityType
    <3>6. QED
      BY SMTT(30), Z3, <3>2, <3>3, <3>5
  <2>2. counts["failed"] = Cardinality(FailedExchanges)
    BY <1>1 DEF FailuresCounted, Counted
  <2>3. QED
    BY <1>1, <2>1, <2>2 DEF CountInv, Tallied, Counted, CountersAgree, AllOutcomes, Missed, Marked,
         Panics
<1>2. Spec => []FailuresCounted
  <2>1. CountInv /\ FailuresCounted /\ [Next]_vars => FailuresCounted'
    BY FailuresNext DEF CountInv
  <2>2. QED
    BY <2>1, FailuresInit, CountSpecInv, PTL DEF Spec
<1>3. CountInv /\ FailuresCounted => CountersAgree
  BY <1>1
<1>4. QED
  BY <1>2, <1>3, CountSpecInv, PTL

-----------------------------------------------------------------------------
(***************************************************************************)
(* Nobody is left behind: whoever waits has a leader at the upstreams, and *)
(* every step brings its query nearer to the end.                          *)
(***************************************************************************)

\* Whoever waits for a call has a leader that has not landed.
Awaited == \A q \in Callers : pc[q] = "wait" => call[q] # Nil /\ pc[call[q]] \in AtUpstream

\* A goroutine has an entry in hand exactly between the two halves of Store.
Staged == \A q \in Callers : storing[q] # Nil <=> pc[q] = "store"

ProgressInv == CountInv /\ Awaited /\ Staged

\* The stages in their order.  At the upstreams two steps per upstream are left.
StageRank(s, a) ==
  CASE s = "done"             -> 0
    [] s = "finish"           -> 1
    [] s = "store"            -> 2
    [] s = "deliver"          -> 3
    [] s \in {"land", "wait"} -> 4
    [] s \in {"tcp", "doh"}   -> 5 + 2 * (NumUpstreams - a)
    [] s = "forward"          -> 6 + 2 * (NumUpstreams - a)
    [] s = "coalesce"         -> 5 + 2 * NumUpstreams
    [] s = "cache"            -> 6 + 2 * NumUpstreams
    [] s = "block"            -> 7 + 2 * NumUpstreams
    [] s = "idle"             -> 8 + 2 * NumUpstreams

Rank(q) == StageRank(pc[q], attempt[q])

\* The stages a query may go on to, other than by the end of its call.
Onward(s, t) ==
  \/ s = "idle" /\ t = "block"
  \/ s = "block" /\ t \in {"forward", "cache", "finish"}
  \/ s = "cache" /\ t \in {"coalesce", "finish"}
  \/ s = "coalesce" /\ t \in {"forward", "wait"}
  \/ s = "forward" /\ t \in {"tcp", "doh"}
  \/ s \in {"forward", "tcp", "doh"} /\ t = "land"
  \/ s = "land" /\ t = "finish"
  \/ s = "deliver" /\ t \in {"store", "finish"}
  \/ s = "store" /\ t = "finish"
  \/ s = "finish" /\ t = "done"

\* q alone moves, with the upstream it is asking or on to the next one.
MovesOn(q) ==
  /\ pc' = [pc EXCEPT ![q] = pc'[q]]
  /\ \/ Onward(pc[q], pc'[q]) /\ UNCHANGED attempt
     \/ /\ pc[q] \in {"forward", "tcp", "doh"} /\ pc'[q] = "forward"
        /\ attempt[q] < NumUpstreams
        /\ attempt' = [attempt EXCEPT ![q] = attempt[q] + 1]

\* The guards of the steps of a query: one of them is enabled.
Ready(q) ==
  \/ pc[q] \in {"block", "cache", "coalesce", "tcp", "doh", "finish"}
  \/ pc[q] = "forward" /\ Protocols[attempt[q]] \in {"udp", "doh"}
  \/ pc[q] = "land" /\ call[q] \in {q, Nil}
  \/ pc[q] = "deliver" /\ call[q] # Nil /\ result[call[q]] # Nil /\ storing[q] = Nil
  \/ pc[q] = "store" /\ storing[q] # Nil

\* Whoever is in the chain can go on, or waits for a leader that can.
NobodyStuck ==
  \A q \in Callers : Underway(q) => Ready(q) \/ (pc[q] = "wait" /\ Ready(call[q]))

\* No step, of whomever, sends a query back, and its own steps take it forward.
RankStep ==
  \A q \in Callers : Rank(q)' \in 0 .. Rank(q) /\ (Step(q) => Rank(q)' < Rank(q))

\* So a query takes no more steps than its first rank.
EveryStepAdvances == [][RankStep]_vars

\* A step of q moves q alone, or q lands.
LEMMA StepMoves ==
  ASSUME TypeOK, NEW q \in Callers, (\E qs \in Requests : Arrive(q, qs)) \/ Step(q)
  PROVE  Land(q) \/ MovesOn(q)
<1>0. /\ DOMAIN pc = Callers /\ DOMAIN attempt = Callers
      /\ NumUpstreams \in Nat /\ attempt[q] \in 1 .. NumUpstreams
  BY SMTT(30), Z3, ChainAssumption DEF TypeOK, NumUpstreams
<1>1. ASSUME NEW s, pc' = [pc EXCEPT ![q] = s], Onward(pc[q], s), UNCHANGED attempt
      PROVE  MovesOn(q)
  BY <1>0, <1>1 DEF MovesOn
<1>2. CASE \E qs \in Requests : Arrive(q, qs)
  BY <1>1, <1>2 DEF Arrive, Goto, Onward
<1>3. CASE PassUnkeyed(q) \/ PassUnblocked(q) \/ Block(q)
  BY <1>1, <1>3 DEF PassUnkeyed, PassUnblocked, Block, Goto, Onward
<1>4. CASE CacheHit(q) \/ CacheMiss(q)
  BY <1>1, <1>4 DEF CacheHit, CacheMiss, Lookup, Goto, Onward
<1>5. CASE Lead(q) \/ Follow(q)
  BY <1>1, <1>5 DEF Lead, Follow, Goto, Onward
<1>6. CASE Truncated(q) \/ PostDoH(q)
  BY <1>1, <1>6 DEF Truncated, PostDoH, Forwarding, Goto, Onward
<1>7. CASE (\E m \in Received(q) : AttemptAnswers(q, m)) \/ AttemptPanics(q)
  BY <1>1, <1>7 DEF AttemptAnswers, AttemptPanics, Asking, Forwarding, Goto, Onward
<1>8. CASE AttemptFails(q)
  <2>1. pc[q] \in {"forward", "tcp", "doh"}
    BY <1>8 DEF AttemptFails, AfterError, Asking, Forwarding
  <2>2. CASE attempt[q] = NumUpstreams \/ cancelled[q]
    <3>1. pc' = [pc EXCEPT ![q] = "land"] /\ UNCHANGED attempt
      BY <1>8, <2>2 DEF AttemptFails, AfterError, Goto
    <3>2. QED
      BY <1>1, <2>1, <3>1 DEF Onward
  <2>3. CASE ~(attempt[q] = NumUpstreams \/ cancelled[q])
    <3>1. /\ pc' = [pc EXCEPT ![q] = "forward"]
          /\ attempt' = [attempt EXCEPT ![q] = attempt[q] + 1]
      BY <1>8, <2>3 DEF AttemptFails, AfterError, Goto
    <3>2. pc'[q] = "forward"
      BY <1>0, <3>1
    <3>3. attempt[q] < NumUpstreams
      BY SMTT(30), Z3, <1>0, <2>3
    <3>4. QED
      BY <2>1, <3>1, <3>2, <3>3 DEF MovesOn
  <2>4. QED
    BY <2>2, <2>3
<1>9. CASE LandUncoalesced(q)
  BY <1>1, <1>9 DEF LandUncoalesced, Goto, Onward
<1>10. CASE DeliverPanic(q) \/ DeliverError(q) \/ DeliverResponse(q)
  BY <1>1, <1>10 DEF DeliverPanic, DeliverError, DeliverResponse, Goto, Onward
<1>11. CASE StoreResponse(q) \/ Finish(q)
  BY <1>1, <1>11 DEF StoreResponse, Finish, Goto, Onward
<1>12. QED
  BY <1>2, <1>3, <1>4, <1>5, <1>6, <1>7, <1>8, <1>9, <1>10, <1>11 DEF Step

\* A call is entered from the coalesce stage, and left as a whole or by nobody.
LEMMA CallMoves ==
  ASSUME TypeOK, NEW q \in Callers, (\E qs \in Requests : Arrive(q, qs)) \/ Step(q), ~Land(q)
  PROVE  /\ \A p \in Callers \ {q} : call'[p] = call[p]
         /\ pc[q] = "land" => call[q] = Nil
         /\ pc'[q] = "wait" => call'[q] = flights[KeyOf(q)] /\ flights[KeyOf(q)] # Nil
<1>0. DOMAIN pc = Callers /\ DOMAIN call = Callers
  BY DEF TypeOK
<1>1. CASE Lead(q) \/ Follow(q)
  BY <1>0, <1>1 DEF Lead, Follow, Goto
<1>2. CASE ~(Lead(q) \/ Follow(q))
  <2>1. UNCHANGED call
    BY <1>2 DEF Step, Arrive, PassUnkeyed, PassUnblocked, Block, CacheHit, CacheMiss, Truncated,
                PostDoH, AttemptAnswers, AttemptFails, AfterError, AttemptPanics, LandUncoalesced,
                DeliverPanic, DeliverError, DeliverResponse, StoreResponse, Finish
  <2>2. pc[q] = "land" => LandUncoalesced(q)
    BY <1>2 DEF Step, Arrive, PassUnkeyed, PassUnblocked, Block, CacheHit, CacheMiss, Lookup,
                Truncated, PostDoH, AttemptAnswers, AttemptFails, AfterError, AttemptPanics,
                Asking, Forwarding, DeliverPanic, DeliverError, DeliverResponse, StoreResponse,
                Finish
  <2>3. pc[q] # "coalesce" \/ CacheMiss(q)
    BY <1>2 DEF Step, Arrive, PassUnkeyed, PassUnblocked, Block, CacheHit, Lookup,
                Truncated, PostDoH, AttemptAnswers, AttemptFails, AfterError, AttemptPanics,
                Asking, Forwarding, LandUncoalesced, DeliverPanic, DeliverError, DeliverResponse,
                StoreResponse, Finish
  <2>4. pc'[q] # "wait"
    <3>1. MovesOn(q)
      BY StepMoves
    <3>2. pc[q] # "coalesce"
      BY <2>3 DEF CacheMiss, Lookup
    <3>3. QED
      BY <3>1, <3>2 DEF MovesOn, Onward
  <2>5. QED
    BY <2>1, <2>2, <2>4 DEF LandUncoalesced
<1>3. QED
  BY <1>1, <1>2

\* Whoever is at "deliver" or later has left the upstreams behind: q lands with those
\* that wait for it.
LEMMA LandsWith ==
  ASSUME TypeOK, Coalesced, Over, Rooted, NEW q \in Callers, Land(q), NEW p \in Callers
  PROVE  /\ call[p] = q => pc[p] = "wait" \/ p = q
         /\ pc'[p] = IF call[p] = q THEN "deliver" ELSE pc[p]
<1>1. pc[q] = "land" /\ pc'[p] = IF call[p] = q THEN "deliver" ELSE pc[p]
  BY DEF Land
<1>2. ASSUME call[p] = q, p # q
      PROVE  pc[p] = "wait"
  <2>1. call[p] # Nil /\ pc[call[p]] \in AtUpstream
    BY <1>1, <1>2, Distinct DEF AtUpstream
  <2>2. pc[p] \notin {"deliver"} \cup Late
    BY <2>1 DEF Over
  <2>3. pc[p] \notin Early
    BY <2>1 DEF Coalesced
  <2>4. pc[p] \notin AtUpstream
    BY <1>2, <2>1 DEF Coalesced
  <2>5. pc[p] \in {"idle", "block", "cache", "coalesce", "forward", "tcp", "doh",
                   "wait", "land", "deliver", "store", "finish", "done"}
    BY DEF TypeOK
  <2>6. QED
    BY <2>2, <2>3, <2>4, <2>5 DEF Early, AtUpstream, Late
<1>3. QED
  BY <1>1, <1>2

\* Nobody is left waiting by the leader.
LEMMA AwaitedNext ==
  ASSUME CountInv, Awaited, NEW q \in Callers, (\E qs \in Requests : Arrive(q, qs)) \/ Step(q)
  PROVE  Awaited'
<1>0. TypeOK /\ Coalesced /\ Rooted /\ OpenFlights /\ Over
  BY DEF CountInv, ChainInv, Linked
<1>. SUFFICES ASSUME NEW p \in Callers, pc'[p] = "wait"
              PROVE  call'[p] # Nil /\ pc'[call'[p]] \in AtUpstream
  BY DEF Awaited
<1>1. CASE Land(q)
  <2>1. call[p] # q /\ pc[p] = "wait" /\ UNCHANGED call
    BY <1>1 DEF Land
  <2>2. call[p] \in Callers /\ pc[call[p]] \in AtUpstream /\ call[call[p]] = call[p]
    BY <1>0, <2>1 DEF Awaited, Rooted, TypeOK
  <2>3. pc'[call[p]] = pc[call[p]]
    BY <1>1, <2>1, <2>2 DEF Land
  <2>4. QED
    BY <2>1, <2>2, <2>3, Distinct
<1>2. CASE ~Land(q)
  <2>1. MovesOn(q) /\ DOMAIN pc = Callers
    BY <1>0, <1>2, StepMoves DEF TypeOK
  <2>2. \A r \in Callers \ {q} : pc'[r] = pc[r]
    BY <2>1 DEF MovesOn
  <2>3. \A r \in Callers \ {q} : call'[r] = call[r]
    BY <1>0, <1>2, CallMoves
  <2>4. CASE p = q
    <3>1. pc[q] = "coalesce"
      BY <2>1, <2>4 DEF MovesOn, Onward
    <3>2. KeyOf(q) \in Keys
      BY <1>0, <3>1, SingleKey DEF Coalesced
    <3>3. call'[q] = flights[KeyOf(q)] /\ flights[KeyOf(q)] # Nil
      BY <1>0, <1>2, <2>4, CallMoves
    <3>4. flights[KeyOf(q)] \in Callers /\ pc[flights[KeyOf(q)]] \in AtUpstream
      BY <1>0, <3>2, <3>3 DEF OpenFlights, TypeOK
    <3>5. flights[KeyOf(q)] # q
      BY <3>1, <3>4 DEF AtUpstream
    <3>6. QED
      BY <2>2, <2>4, <3>3, <3>4, <3>5
  <2>5. CASE p # q
    <3>1. pc[p] = "wait" /\ call'[p] = call[p]
      BY <2>2, <2>3, <2>5
    <3>2. call[p] \in Callers /\ pc[call[p]] \in AtUpstream /\ call[call[p]] = call[p]
      BY <1>0, <3>1 DEF Awaited, Rooted, TypeOK
    <3>3. CASE call[p] = q
      <4>1. pc[q] \in {"forward", "tcp", "doh"}
        BY <1>0, <1>2, <3>2, <3>3, CallMoves, Distinct DEF AtUpstream
      <4>2. pc'[q] \in AtUpstream
        BY <2>1, <4>1 DEF MovesOn, Onward, AtUpstream
      <4>3. QED
        BY <3>1, <3>2, <3>3, <4>2, Distinct
    <3>4. CASE call[p] # q
      BY <2>2, <3>1, <3>2, <3>4, Distinct
    <3>5. QED
      BY <3>3, <3>4
  <2>6. QED
    BY <2>4, <2>5
<1>3. QED
  BY <1>1, <1>2

\* The goroutine that builds an entry in Store goes on to put it in the cache.
LEMMA StagedDeliver ==
  ASSUME ChainInv, NEW q \in Callers, DeliverResponse(q)
  PROVE  \/ UNCHANGED storing /\ pc' = [pc EXCEPT ![q] = "finish"]
         \/ \E e : e # Nil /\ storing' = [storing EXCEPT ![q] = e]
                           /\ pc' = [pc EXCEPT ![q] = "store"]
<1>0. TypeOK /\ Coalesced /\ Identified /\ Resulted /\ Stored
  BY DEF ChainInv
<1>. DEFINE r == result[call[q]]
            m == CopyFor(q)
            e == [key |-> KeyOf(q), response |-> m, storedAt |-> clock,
                  expiresAt |-> clock + computeTTL(m)]
<1>1. CASE computeTTL(m) > 0
  <2>1. /\ pc' = [pc EXCEPT ![q] = "store"]
        /\ storing' = [storing EXCEPT ![q] = e]
    BY <1>1 DEF DeliverResponse, StoreStamp, Goto
  <2>2. call[q] \in Callers /\ Single(q) /\ r \notin {Failed, Panicked} /\ pc[q] = "deliver"
    BY <1>0 DEF Coalesced, TypeOK, DeliverResponse
  <2>3. KeyOf(q) \in Keys /\ reqID[q] = q
    BY <1>0, <2>2, SingleKey DEF Identified
  <2>4. r \in Msgs
    BY SMTT(30), Z3, <1>0, <2>2 DEF Resulted, ResultOf, TypeOK
  <2>5. m \in Msgs
    BY <2>3, <2>4 DEF CopyFor, Msgs
  <2>. HIDE DEF m
  <2>6. clock \in Nat /\ clock + computeTTL(m) \in Nat
    BY SMTT(30), Z3, <1>0, <1>1, <2>5, LifetimeInt DEF Stored
  <2>7. e \in ChainEntry
    BY <2>3, <2>5, <2>6 DEF ChainEntry
  <2>8. e # Nil
    BY <2>7, ChainEntryAssumption
  <2>9. QED
    BY <2>1, <2>8
<1>2. CASE ~(computeTTL(m) > 0)
  BY <1>2 DEF DeliverResponse, Goto, cacheVars
<1>3. QED
  BY <1>1, <1>2

\* The steps outside the two halves of Store leave the entries in hand alone.
LEMMA StagedNext ==
  ASSUME CountInv, Staged, NEW q \in Callers, (\E qs \in Requests : Arrive(q, qs)) \/ Step(q)
  PROVE  Staged'
<1>0. TypeOK /\ Coalesced /\ Rooted /\ Over /\ Stored
  BY DEF CountInv, ChainInv, Linked
<1>1. DOMAIN pc = Callers /\ DOMAIN storing = Callers
  BY <1>0 DEF TypeOK, Stored
<1>2. CASE Land(q)
  <2>1. UNCHANGED storing
    BY <1>2 DEF Land, cacheVars
  <2>2. \A p \in Callers : pc'[p] = "store" <=> pc[p] = "store"
    <3>1. pc[q] = "land"
      BY <1>2 DEF Land
    <3>2. QED
      BY <1>0, <1>2, <3>1, LandsWith
  <2>3. QED
    BY <2>1, <2>2 DEF Staged
<1>3. CASE DeliverResponse(q)
  <2>1. CASE UNCHANGED storing /\ pc' = [pc EXCEPT ![q] = "finish"]
    <3>1. pc[q] = "deliver"
      BY <1>3 DEF DeliverResponse
    <3>2. QED
      BY <1>1, <2>1, <3>1 DEF Staged
  <2>2. CASE \E e : e # Nil /\ storing' = [storing EXCEPT ![q] = e]
                            /\ pc' = [pc EXCEPT ![q] = "store"]
    BY <1>1, <2>2 DEF Staged
  <2>3. QED
    BY <1>3, <2>1, <2>2, StagedDeliver DEF CountInv
<1>4. CASE StoreResponse(q)
  <2>1. storing' = [storing EXCEPT ![q] = Nil] /\ pc' = [pc EXCEPT ![q] = "finish"]
    BY <1>4 DEF StoreResponse, StoreReplace, StoreInsert, Goto
  <2>2. QED
    BY <1>1, <2>1 DEF Staged
<1>5. CASE ~(Land(q) \/ DeliverResponse(q) \/ StoreResponse(q))
  <2>1. UNCHANGED storing
    BY <1>5 DEF Step, Arrive, PassUnkeyed, PassUnblocked, Block, CacheHit, CacheMiss, GetHit,
                GetMiss, GetExpired, Lead, Follow, Truncated, PostDoH, AttemptAnswers,
                AttemptFails, AfterError, AttemptPanics, LandUncoalesced, DeliverPanic,
                DeliverError, Finish, cacheVars
  <2>2. pc'[q] # "store" /\ pc[q] # "store"
    <3>1. pc' = [pc EXCEPT ![q] = pc'[q]] /\ (pc'[q] = "store" \/ pc[q] = "store" => pc[q] \in {"deliver", "store"})
      BY <1>0, <1>5, StepMoves DEF MovesOn, Onward
    <3>2. pc[q] \in {"deliver", "store"} => DeliverPanic(q) \/ DeliverError(q)
      BY <1>5 DEF Step, Arrive, PassUnkeyed, PassUnblocked, Block, CacheHit, CacheMiss, Lookup,
                  Lead, Follow, Truncated, PostDoH, AttemptAnswers, AttemptFails, AfterError,
                  AttemptPanics, Asking, Forwarding, LandUncoalesced, Finish
    <3>3. QED
      BY <1>1, <3>1, <3>2 DEF DeliverPanic, DeliverError, Goto
  <2>3. \A p \in Callers \ {q} : pc'[p] = pc[p]
    BY <1>0, <1>1, <1>5, StepMoves DEF MovesOn
  <2>4. QED
    BY <2>1, <2>2, <2>3 DEF Staged
<1>6. QED
  BY <1>2, <1>3, <1>4, <1>5

\* The other steps leave the queries where they are.
LEMMA NextSplit ==
  ASSUME [Next]_vars
  PROVE  \/ \E q \in Callers : (\E qs \in Requests : Arrive(q, qs)) \/ Step(q)
         \/ UNCHANGED <<pc, attempt, call, storing>>
<1>1. \/ \E q \in Callers : (\E qs \in Requests : Arrive(q, qs)) \/ Step(q) \/ Cancel(q)
      \/ \E m \in BlockLists : Swap(m)
      \/ TimePasses
      \/ UNCHANGED vars
  BY DEF Next
<1>2. ASSUME \/ \E q \in Callers : Cancel(q)
             \/ \E m \in BlockLists : Swap(m)
             \/ TimePasses
             \/ UNCHANGED vars
      PROVE  UNCHANGED <<pc, attempt, call, storing>>
  BY <1>2 DEF Cancel, Swap, TimePasses, Tick, vars, chainVars, queryVars, cacheVars
<1>3. QED
  BY <1>1, <1>2

LEMMA ProgressInitInv == Init => ProgressInv
<1>. SUFFICES ASSUME Init PROVE ProgressInv
  OBVIOUS
<1>1. CountInv
  BY CountInitInv
<1>2. Awaited /\ Staged
  BY DEF Init, CacheInit, Awaited, Staged
<1>3. QED
  BY <1>1, <1>2 DEF ProgressInv

LEMMA ProgressNextInv == ProgressInv /\ [Next]_vars => ProgressInv'
<1>. SUFFICES ASSUME ProgressInv, [Next]_vars PROVE ProgressInv'
  OBVIOUS
<1>0. CountInv /\ Awaited /\ Staged
  BY DEF ProgressInv
<1>1. CountInv'
  BY <1>0, CountNextInv
<1>2. CASE \E q \in Callers : (\E qs \in Requests : Arrive(q, qs)) \/ Step(q)
  BY <1>0, <1>1, <1>2, AwaitedNext, StagedNext DEF ProgressInv
<1>3. CASE UNCHANGED <<pc, attempt, call, storing>>
  BY <1>0, <1>1, <1>3 DEF ProgressInv, Awaited, Staged
<1>4. QED
  BY <1>2, <1>3, NextSplit

LEMMA ProgressSpecInv == Spec => []ProgressInv
BY ProgressInitInv, ProgressNextInv, PTL DEF Spec

\* A query at the upstreams has a step, with or without a call.
LEMMA UpstreamReady ==
  ASSUME TypeOK, Coalesced, NEW q \in Callers, pc[q] \in AtUpstream
  PROVE  Ready(q)
<1>1. CASE pc[q] = "forward"
  <2>1. attempt[q] \in 1 .. Len(Protocols)
    BY DEF TypeOK, NumUpstreams
  <2>2. Protocols \in Seq({"udp", "doh"})
    BY ChainAssumption
  <2>3. Protocols[attempt[q]] \in {"udp", "doh"}
    BY SMTT(30), Z3, <2>1, <2>2
  <2>4. QED
    BY <1>1, <2>3 DEF Ready
<1>2. CASE pc[q] = "land"
  BY <1>2 DEF Coalesced, AtUpstream, Ready
<1>3. CASE pc[q] \in {"tcp", "doh"}
  BY <1>3 DEF Ready
<1>4. QED
  BY <1>1, <1>2, <1>3 DEF AtUpstream

\* No interleaving of the goroutines, and no error, panic or end of a context, leaves a
\* query in the chain with nobody to move it: it has a step itself, or its leader has.
THEOREM NobodyIsStuck == Spec => []NobodyStuck
<1>1. ProgressInv => NobodyStuck
  <2>. SUFFICES ASSUME ProgressInv, NEW q \in Callers, Underway(q)
                PROVE  Ready(q) \/ (pc[q] = "wait" /\ Ready(call[q]))
    BY DEF NobodyStuck
  <2>1. TypeOK /\ Coalesced /\ Resulted /\ Awaited /\ Staged
    BY DEF ProgressInv, CountInv, ChainInv
  <2>2. pc[q] \in {"block", "cache", "coalesce", "forward", "tcp", "doh", "wait", "land",
                   "deliver", "store", "finish"}
    BY <2>1 DEF TypeOK, Underway
  <2>3. CASE pc[q] \in AtUpstream
    BY <2>1, <2>3, UpstreamReady
  <2>4. CASE pc[q] = "wait"
    <3>1. call[q] \in Callers /\ pc[call[q]] \in AtUpstream
      BY <2>1, <2>4 DEF Awaited, TypeOK
    <3>2. QED
      BY <2>1, <2>4, <3>1, UpstreamReady
  <2>5. CASE pc[q] = "deliver"
    <3>1. call[q] # Nil /\ result[call[q]] # Nil
      BY <2>1, <2>5 DEF Coalesced, Resulted, ResultOf
    <3>2. storing[q] = Nil
      BY <2>1, <2>5 DEF Staged
    <3>3. QED
      BY <2>5, <3>1, <3>2 DEF Ready
  <2>6. CASE pc[q] = "store"
    BY <2>1, <2>6 DEF Staged, Ready
  <2>7. CASE pc[q] \in {"block", "cache", "coalesce", "finish"}
    BY <2>7 DEF Ready
  <2>8. QED
    BY <2>2, <2>3, <2>4, <2>5, <2>6, <2>7 DEF AtUpstream
<1>2. QED
  BY <1>1, ProgressSpecInv, PTL

-----------------------------------------------------------------------------

\* The rank of a query is a number, at most that of one that is yet to arrive.
LEMMA RankBound ==
  ASSUME NEW a \in 1 .. NumUpstreams,
         NEW s \in {"idle", "block", "cache", "coalesce", "forward", "tcp", "doh",
                    "wait", "land", "deliver", "store", "finish", "done"}
  PROVE  StageRank(s, a) \in 0 .. (8 + 2 * NumUpstreams)
<1>1. NumUpstreams \in Nat
  BY SMTT(30), Z3, ChainAssumption DEF NumUpstreams
<1>2. CASE s \in {"idle", "block", "cache", "coalesce"}
  <2>1. StageRank(s, a) \in {5 + 2 * NumUpstreams, 6 + 2 * NumUpstreams, 7 + 2 * NumUpstreams,
                             8 + 2 * NumUpstreams}
    BY <1>2 DEF StageRank
  <2>2. QED
    BY SMTT(30), Z3, <1>1, <2>1
<1>3. CASE s \in {"forward", "tcp", "doh"}
  <2>1. StageRank(s, a) \in {5 + 2 * (NumUpstreams - a), 6 + 2 * (NumUpstreams - a)}
    BY <1>3 DEF StageRank
  <2>2. QED
    BY SMTT(30), Z3, <1>1, <2>1
<1>4. CASE s \in {"wait", "land", "deliver", "store", "finish", "done"}
  <2>1. StageRank(s, a) \in {0, 1, 2, 3, 4}
    BY <1>4 DEF StageRank
  <2>2. QED
    BY SMTT(30), Z3, <1>1, <2>1
<1>5. QED
  BY <1>2, <1>3, <1>4

\* One that stays where it is keeps its rank.
LEMMA RankStays ==
  ASSUME TypeOK, NEW q \in Callers, pc'[q] = pc[q], attempt'[q] = attempt[q]
  PROVE  Rank(q)' = Rank(q)
BY DEF Rank

\* One that moves on comes nearer.
LEMMA RankMoves ==
  ASSUME TypeOK, NEW q \in Callers, MovesOn(q)
  PROVE  Rank(q)' < Rank(q)
<1>1. /\ NumUpstreams \in Nat /\ attempt[q] \in 1 .. NumUpstreams
      /\ DOMAIN attempt = Callers
  BY SMTT(30), Z3, ChainAssumption DEF TypeOK, NumUpstreams
<1>2. CASE Onward(pc[q], pc'[q]) /\ attempt'[q] = attempt[q]
  BY SMTT(30), Z3, <1>1, <1>2 DEF Onward, Rank, StageRank
<1>3. CASE /\ pc[q] \in {"forward", "tcp", "doh"} /\ pc'[q] = "forward"
           /\ attempt'[q] = attempt[q] + 1
  BY SMTT(30), Z3, <1>1, <1>3 DEF Rank, StageRank
<1>4. QED
  BY <1>1, <1>2, <1>3 DEF MovesOn

\* A query takes at most 8 + 2 * NumUpstreams steps, its arrival included: no step of the
\* chain sends one back, and each of its own takes it forward.
THEOREM QueriesAdvance == Spec => EveryStepAdvances
<1>1. ProgressInv /\ ProgressInv' /\ [Next]_vars => [RankStep]_vars
  <2>. SUFFICES ASSUME ProgressInv, ProgressInv', [Next]_vars, NEW q \in Callers
                PROVE  Rank(q)' \in 0 .. Rank(q) /\ (Step(q) => Rank(q)' < Rank(q))
    BY DEF RankStep
  <2>1. TypeOK /\ TypeOK' /\ Coalesced /\ Rooted /\ Over
    BY DEF ProgressInv, CountInv, ChainInv, Linked
  <2>2. Rank(q) \in Nat /\ Rank(q)' \in Nat
    <3>1. NumUpstreams \in Nat
      BY ChainAssumption DEF NumUpstreams
    <3>2. Rank(q) \in 0 .. (8 + 2 * NumUpstreams)
      BY <2>1, RankBound DEF TypeOK, Rank
    <3>3. Rank(q)' \in 0 .. (8 + 2 * NumUpstreams)
      BY <2>1, RankBound DEF TypeOK, Rank
    <3>4. QED
      BY SMTT(30), Z3, <3>1, <3>2, <3>3
  <2>3. ASSUME NEW p \in Callers, (\E qs \in Requests : Arrive(p, qs)) \/ Step(p)
        PROVE  /\ Rank(q)' <= Rank(q)
               /\ q = p => Rank(q)' < Rank(q)
    <3>1. CASE Land(p)
      <4>1. UNCHANGED attempt /\ pc[p] = "land" /\ call[p] = p
        BY <3>1 DEF Land
      <4>2. CASE call[q] = p
        <5>1. pc[q] \in {"land", "wait"} /\ pc'[q] = "deliver"
          BY <2>1, <3>1, <4>1, <4>2, LandsWith
        <5>2. QED
          BY SMTT(30), Z3, <5>1 DEF Rank, StageRank
      <4>3. CASE call[q] # p
        <5>1. pc'[q] = pc[q] /\ q # p
          BY <2>1, <3>1, <4>1, <4>3, LandsWith
        <5>2. QED
          BY SMTT(30), Z3, <2>1, <2>2, <4>1, <5>1, RankStays
      <4>4. QED
        BY <4>2, <4>3
    <3>2. CASE MovesOn(p)
      <4>1. CASE q = p
        BY SMTT(30), Z3, <2>1, <2>2, <3>2, <4>1, RankMoves
      <4>2. CASE q # p
        <5>1. pc'[q] = pc[q] /\ attempt'[q] = attempt[q]
          BY <2>1, <3>2, <4>2 DEF MovesOn, TypeOK
        <5>2. QED
          BY SMTT(30), Z3, <2>1, <2>2, <4>2, <5>1, RankStays
      <4>3. QED
        BY <4>1, <4>2
    <3>3. QED
      BY <2>1, <2>3, <3>1, <3>2, StepMoves
  <2>4. Step(q) => Rank(q)' < Rank(q)
    BY <2>3
  <2>5. Rank(q)' <= Rank(q)
    <3>1. CASE UNCHANGED <<pc, attempt, call, storing>>
      BY SMTT(30), Z3, <2>1, <2>2, <3>1, RankStays
    <3>2. QED
      BY <2>3, <3>1, NextSplit
  <2>6. QED
    BY SMTT(30), Z3, <2>2, <2>4, <2>5
<1>2. QED
  BY <1>1, ProgressSpecInv, PTL DEF Spec, EveryStepAdvances

=============================================================================
