-------------------------- MODULE ChainCacheProofs --------------------------
(***************************************************************************)
(* The cache in the resolver chain.  LRUProofs lets any caller store and   *)
(* look up anything; here the callers are the queries, with the keys, the  *)
(* copies and the lifetimes that the chain gives them, and the cache is    *)
(* shown to be the AnswerCache that the cache stage relies on.             *)
(***************************************************************************)
EXTENDS ChainProofs, CacheProofs

\* The provers a leaf is tried with, in this order.
USE ZenonT(40), SMTT(30), Z3

CacheInv == ChainInv /\ Shaped

\* AnswerCache is told of the stores, the passing of time and what is live.  What a hit
\* answers is in ServedFromCache: the chain does not remember the last answer.
NoAnswer == [key |-> Nil, at |-> 0, response |-> Nil]

Cached == INSTANCE AnswerCache
            WITH Entry <- ChainEntry, live <- LiveEntries, pending <- storing, now <- clock,
                 answer <- NoAnswer

\* The cache of the chain is a map that forgets: see AnswerCache.
ChainImplementsAnswerCache == Cached!Spec

\* What q is answered with when it leaves the cache stage with an answer.
HitStep(q) ==
  LET e       == LiveEntries[KeyOf(q)]
      elapsed == clock - e.storedAt
      r       == ret'[q]
  IN /\ e # Nil
     /\ clock <= e.expiresAt
     /\ r.id = q
     /\ AsksTheSame(r.question, request[q])
     /\ r.rcode = e.response.rcode
     /\ Remaining(r.answer, e.response.answer, elapsed)
     /\ Remaining(r.ns, e.response.ns, elapsed)
     /\ Remaining(r.extra, e.response.extra, elapsed)

HitSteps == \A q \in Callers : pc[q] = "cache" /\ pc'[q] = "finish" => HitStep(q)

\* An answer from the cache is that of the live entry of its question: it has the id
\* of the query, the rcode of the entry, and the TTLs that remain of the entry's since
\* Store read the clock.
ServedFromCache == [][HitSteps]_vars

-----------------------------------------------------------------------------

\* What a step of the chain does to its cache: nothing, a lookup, half a store, or it
\* gets later.  What is stored is a message that computeTTL lets live.
LEMMA CacheSteps ==
  ASSUME ChainInv, [Next]_vars
  PROVE  \/ UNCHANGED cacheVars
         \/ \E k \in Keys : GetHit(k) \/ GetMiss(k) \/ GetExpired(k)
         \/ \E q \in Callers, k \in Keys, m \in Msgs :
              computeTTL(m) > 0 /\ StoreStamp(q, k, m, computeTTL(m))
         \/ \E q \in Callers : StoreReplace(q) \/ StoreInsert(q)
         \/ Tick
<1>. DEFINE Goal ==
       \/ UNCHANGED cacheVars
       \/ \E k \in Keys : GetHit(k) \/ GetMiss(k) \/ GetExpired(k)
       \/ \E q \in Callers, k \in Keys, m \in Msgs :
            computeTTL(m) > 0 /\ StoreStamp(q, k, m, computeTTL(m))
       \/ \E q \in Callers : StoreReplace(q) \/ StoreInsert(q)
       \/ Tick
<1>. SUFFICES Goal
  OBVIOUS
<1>0. TypeOK /\ Coalesced /\ Identified /\ Resulted
  BY DEF ChainInv
<1>1. ASSUME NEW q \in Callers, CacheHit(q) \/ CacheMiss(q)
      PROVE  Goal
  <2>1. pc[q] = "cache" /\ (GetHit(KeyOf(q)) \/ GetMiss(KeyOf(q)) \/ GetExpired(KeyOf(q)))
    BY <1>1 DEF CacheHit, CacheMiss, Lookup
  <2>2. KeyOf(q) \in Keys
    BY <1>0, <2>1, SingleKey DEF Coalesced
  <2>3. QED
    BY <2>1, <2>2
<1>2. ASSUME NEW q \in Callers, DeliverResponse(q)
      PROVE  Goal
  <2>. DEFINE m == CopyFor(q)
  <2>1. pc[q] = "deliver" /\ result[call[q]] \notin {Failed, Panicked}
    BY <1>2 DEF DeliverResponse
  <2>2. call[q] \in Callers /\ Single(q)
    BY <1>0, <2>1 DEF Coalesced, TypeOK
  <2>3. KeyOf(q) \in Keys /\ reqID[q] = q
    BY <1>0, <2>1, <2>2, SingleKey DEF Identified
  <2>4. result[call[q]] \in Msgs
    BY SMTT(30), Z3, <1>0, <2>1, <2>2 DEF Resulted, ResultOf, TypeOK
  <2>5. m \in Msgs
    BY <2>3, <2>4 DEF CopyFor, Msgs
  <2>6. \/ computeTTL(m) > 0 /\ StoreStamp(q, KeyOf(q), m, computeTTL(m))
        \/ UNCHANGED cacheVars
    BY <1>2 DEF DeliverResponse
  <2>. HIDE DEF m
  <2>7. QED
    BY <2>3, <2>5, <2>6
<1>3. ASSUME NEW q \in Callers, StoreResponse(q)
      PROVE  Goal
  BY <1>3 DEF StoreResponse
<1>4. ASSUME NEW q \in Callers,
             \/ PassUnkeyed(q) \/ PassUnblocked(q) \/ Block(q) \/ Lead(q) \/ Follow(q)
             \/ Truncated(q) \/ PostDoH(q)
             \/ Land(q) \/ LandUncoalesced(q) \/ DeliverPanic(q) \/ DeliverError(q) \/ Finish(q)
      PROVE  UNCHANGED cacheVars
  BY <1>4 DEF PassUnkeyed, PassUnblocked, Block, Lead, Follow, Truncated, PostDoH, Land,
              LandUncoalesced, DeliverPanic, DeliverError, Finish
<1>5. ASSUME NEW q \in Callers,
             (\E m \in Received(q) : AttemptAnswers(q, m)) \/ AttemptFails(q) \/ AttemptPanics(q)
      PROVE  UNCHANGED cacheVars
  BY <1>5 DEF AttemptAnswers, AttemptFails, AfterError, AttemptPanics
<1>6. ASSUME NEW q \in Callers, (\E qs \in Requests : Arrive(q, qs)) \/ Cancel(q)
      PROVE  UNCHANGED cacheVars
  BY <1>6 DEF Arrive, Cancel
<1>7. ASSUME NEW m \in BlockLists, Swap(m)
      PROVE  UNCHANGED cacheVars
  BY <1>7 DEF Swap
<1>8. ASSUME TimePasses \/ UNCHANGED vars
      PROVE  Goal
  BY <1>8 DEF TimePasses, vars
<1>9. ASSUME NEW q \in Callers, Step(q)
      PROVE  Goal
  <2>. HIDE DEF Goal
  <2>1. UNCHANGED cacheVars => Goal
    BY DEF Goal
  <2>2. QED
    BY <1>9, <1>1, <1>2, <1>3, <1>4, <1>5, <2>1 DEF Step
<1>10. UNCHANGED cacheVars => Goal
  OBVIOUS
<1>. HIDE DEF Goal
<1>11. QED
  BY <1>6, <1>7, <1>8, <1>9, <1>10 DEF Next

\* What the invariant of the chain says of the entries.
LEMMA EntriesTyped ==
  ASSUME ChainInv
  PROVE  /\ clock \in Nat
         /\ storing = [q \in Callers |-> storing[q]]
         /\ \A q \in Callers : storing[q] # Nil =>
              storing[q].key \in Keys /\ storing[q].expiresAt \in Nat
         /\ \A k \in Keys : entries[k] # Nil => entries[k].expiresAt \in Nat
<1>1. Stored
  BY DEF ChainInv
<1>2. ASSUME NEW e, Proper(e)
      PROVE  e.key \in Keys /\ e.expiresAt \in Nat
  <2>1. e.key \in Keys /\ e.response \in Msgs
    BY <1>2 DEF Proper
  <2>2. computeTTL(e.response) \in Int
    BY <2>1, LifetimeInt
  <2>3. e.expiresAt \in Nat
    BY SMTT(30), Z3, <1>2, <2>2 DEF Proper
  <2>4. QED
    BY <2>1, <2>3
<1>3. QED
  BY <1>1, <1>2 DEF Stored

\* The list and the map agree, whatever the queries do.
LEMMA CacheNextInv == CacheInv /\ [Next]_vars => CacheInv'
<1>. SUFFICES ASSUME CacheInv, [Next]_vars PROVE CacheInv'
  OBVIOUS
<1>0. ChainInv /\ Shaped
  BY DEF CacheInv
<1>1. ChainInv'
  BY <1>0, ChainNextInv
<1>2. ASSUME UNCHANGED cacheVars
      PROVE  Shaped'
  BY <1>0, <1>2, ShapedSame DEF cacheVars
<1>3. ASSUME NEW k \in Keys, GetHit(k) \/ GetMiss(k) \/ GetExpired(k)
      PROVE  Shaped'
  BY <1>0, <1>3, ShapedHit, ShapedExpired, ShapedSame DEF GetMiss, cacheVars
<1>4. ASSUME NEW q \in Callers, NEW k \in Keys, NEW m \in Msgs,
             StoreStamp(q, k, m, computeTTL(m))
      PROVE  Shaped'
  BY <1>0, <1>4, ShapedSame DEF StoreStamp
<1>5. ASSUME NEW q \in Callers, StoreReplace(q) \/ StoreInsert(q)
      PROVE  Shaped'
  <2>1. storing[q] # Nil
    BY <1>5 DEF StoreReplace, StoreInsert
  <2>2. storing[q].key \in Keys
    BY <1>0, <2>1, EntriesTyped
  <2>3. QED
    BY <1>0, <1>5, <2>2, ShapedReplace, ShapedInsert
<1>6. ASSUME Tick
      PROVE  Shaped'
  BY <1>0, <1>6, ShapedSame DEF Tick
<1>7. Shaped'
  BY <1>0, <1>2, <1>3, <1>4, <1>5, <1>6, CacheSteps
<1>8. QED
  BY <1>1, <1>7 DEF CacheInv

\* CacheInv holds in every state of the chain.
LEMMA CacheSpecInv == Spec => []CacheInv
<1>1. Init => CacheInv
  BY ChainInitInv, ShapedInit DEF Init, CacheInv
<1>2. QED
  BY <1>1, CacheNextInv, PTL DEF Spec

-----------------------------------------------------------------------------
(***************************************************************************)
(* What the queries rely on.                                               *)
(***************************************************************************)

\* However lookups, stores of the same answer by every query of a call, evictions and
\* expiries interleave, the list and the map of lru.go agree, the cache keeps to its
\* capacity, and bns_cache_entries is the number of entries.
THEOREM ChainCacheConsistent == Spec => [](ListMapAgree /\ WithinCapacity /\ gauge = Len(list))
<1>1. CacheInv => ListMapAgree /\ WithinCapacity /\ gauge = Len(list)
  BY DEF CacheInv, Shaped
<1>2. QED
  BY <1>1, CacheSpecInv, PTL

\* No more entries are live than the capacity, in the next state too.
LEMMA LiveFitsNext == Shaped' => Cached!Fits(LiveKeys')
<1>1. Shaped => Cached!Fits(LiveKeys)
  BY LiveFit DEF Cached!Fits
<1>2. (Shaped => Cached!Fits(LiveKeys))'
  BY <1>1, PTL
<1>3. QED
  BY <1>2 DEF Cached!Fits, Capacity

\* A step that stores, or does not touch the cache, is one of AnswerCache.
LEMMA CacheStepRefines ==
  CacheInv /\ CacheInv' /\ [Next]_vars => [Cached!Next]_(Cached!state)
<1>. SUFFICES ASSUME CacheInv, CacheInv', [Next]_vars PROVE [Cached!Next]_(Cached!state)
  OBVIOUS
<1>0. ChainInv /\ Shaped
  BY DEF CacheInv
<1>1. CASE UNCHANGED cacheVars
  BY <1>1 DEF cacheVars, Cached!state, LiveEntries, Expired, NoAnswer
<1>2. ASSUME NEW k \in Keys, GetHit(k) \/ GetMiss(k) \/ GetExpired(k)
      PROVE  UNCHANGED Cached!state
  <2>1. LiveEntries' = LiveEntries
    BY <1>0, <1>2, LiveLookup
  <2>2. UNCHANGED <<storing, clock>>
    BY <1>2 DEF GetHit, GetMiss, GetExpired, cacheVars
  <2>3. QED
    BY <2>1, <2>2 DEF Cached!state, NoAnswer
<1>3. ASSUME NEW q \in Callers, NEW k \in Keys, NEW m \in Msgs,
             computeTTL(m) > 0 /\ StoreStamp(q, k, m, computeTTL(m))
      PROVE  Cached!StoreCalled(q)
  <2>. DEFINE e == [key |-> k, response |-> m, storedAt |-> clock,
                    expiresAt |-> clock + computeTTL(m)]
  <2>1. /\ storing[q] = Nil /\ storing' = [storing EXCEPT ![q] = e]
        /\ UNCHANGED <<entries, clock>>
    BY <1>3 DEF StoreStamp
  <2>2. clock \in Nat /\ DOMAIN storing = Callers
    BY <1>0, EntriesTyped
  <2>3. clock + computeTTL(m) \in Nat
    BY SMTT(30), Z3, <1>3, <2>2, LifetimeInt
  <2>4. e \in ChainEntry /\ e.storedAt = clock
    BY <2>2, <2>3 DEF ChainEntry
  <2>. HIDE DEF e
  <2>5. storing'[q] = e
    BY <2>1, <2>2
  <2>6. LiveEntries' = LiveEntries
    BY <2>1 DEF LiveEntries, Expired
  <2>7. QED
    BY <2>1, <2>4, <2>5, <2>6 DEF Cached!StoreCalled, NoAnswer
<1>4. ASSUME NEW q \in Callers, StoreReplace(q) \/ StoreInsert(q)
      PROVE  Cached!StoreReturns(q)
  <2>. DEFINE e == storing[q]
  <2>1. e # Nil /\ storing' = [storing EXCEPT ![q] = Nil] /\ clock' = clock
    BY <1>4 DEF StoreReplace, StoreInsert
  <2>2. e.key \in Keys /\ e.expiresAt \in Nat /\ clock \in Nat
    BY <1>0, <2>1, EntriesTyped
  <2>3. \/ LiveEntries' = LiveWith(e, {})
        \/ \E k \in Keys \ {e.key} : LiveEntries' = LiveWith(e, {k})
    BY <1>0, <1>4, <2>2, LiveReplace, LiveInsert
  <2>4. Cached!Fits({k \in Keys : LiveEntries'[k] # Nil})
    <3>1. Shaped'
      BY DEF CacheInv
    <3>2. QED
      BY <3>1, LiveFitsNext DEF LiveKeys
  <2>. HIDE DEF e
  <2>5. ASSUME NEW forgotten PROVE LiveWith(e, forgotten) = Cached!With(e, forgotten)
    BY DEF LiveWith, Cached!With, Cached!Alive
  <2>6. QED
    BY <2>1, <2>3, <2>4, <2>5 DEF Cached!StoreReturns, NoAnswer, e
<1>5. ASSUME Tick
      PROVE  Cached!Tick
  <2>1. clock' = clock + 1 /\ storing' = storing
    BY <1>5 DEF Tick
  <2>2. LiveEntries' = [k \in Keys |-> IF LiveEntries[k] # Nil /\ Cached!Alive(LiveEntries[k], clock')
                                       THEN LiveEntries[k] ELSE Nil]
    BY <1>0, <1>5, EntriesTyped, LiveTick DEF Cached!Alive
  <2>3. QED
    BY <2>1, <2>2 DEF Cached!Tick, NoAnswer
<1>6. QED
  BY <1>0, <1>1, <1>2, <1>3, <1>4, <1>5, CacheSteps DEF Cached!Next

\* The cache of the chain implements AnswerCache, for every number of queries, every
\* capacity and all settings of the lifetimes.
THEOREM ChainCacheIsAnswerCache == Spec => ChainImplementsAnswerCache
<1>1. Init => Cached!Init
  BY DEF Init, CacheInit, LiveEntries, Cached!Init, NoAnswer
<1>2. QED
  BY <1>1, CacheStepRefines, CacheSpecInv, PTL DEF Spec, ChainImplementsAnswerCache, Cached!Spec

\* Only a hit answers a query that is in the cache stage.
LEMMA OnlyHits ==
  ASSUME ChainInv, [Next]_vars, NEW q \in Callers, pc[q] = "cache", pc'[q] = "finish"
  PROVE  CacheHit(q)
<1>0. TypeOK /\ Coalesced
  BY DEF ChainInv
<1>1. ASSUME NEW p \in Callers, NEW s, Goto(p, s), pc[p] # "cache" \/ s # "finish"
      PROVE  FALSE
  BY <1>0, <1>1 DEF Goto, TypeOK
<1>2. ASSUME NEW p \in Callers,
             \/ PassUnkeyed(p) \/ PassUnblocked(p) \/ Block(p) \/ CacheMiss(p)
             \/ Lead(p) \/ Follow(p) \/ Truncated(p) \/ PostDoH(p)
      PROVE  FALSE
  BY <1>1, <1>2 DEF PassUnkeyed, PassUnblocked, Block, CacheMiss, Lead, Follow, Truncated, PostDoH
<1>3. ASSUME NEW p \in Callers,
             (\E m \in Received(p) : AttemptAnswers(p, m)) \/ AttemptFails(p) \/ AttemptPanics(p)
      PROVE  FALSE
  BY <1>1, <1>3 DEF AttemptAnswers, AttemptFails, AfterError, AttemptPanics
<1>4. ASSUME NEW p \in Callers,
             \/ LandUncoalesced(p) \/ DeliverPanic(p) \/ DeliverError(p)
             \/ DeliverResponse(p) \/ StoreResponse(p) \/ Finish(p)
      PROVE  FALSE
  BY <1>1, <1>4 DEF LandUncoalesced, DeliverPanic, DeliverError, DeliverResponse, StoreResponse,
                    Finish
<1>5. ASSUME NEW p \in Callers, Land(p)
      PROVE  FALSE
  BY <1>0, <1>5 DEF Land, TypeOK
<1>6. ASSUME NEW p \in Callers, CacheHit(p), p # q
      PROVE  FALSE
  BY <1>0, <1>6 DEF CacheHit, Goto, TypeOK
<1>7. ASSUME NEW p \in Callers, Step(p)
      PROVE  CacheHit(q)
  BY <1>2, <1>3, <1>4, <1>5, <1>6, <1>7 DEF Step
<1>8. ASSUME NEW p \in Callers, (\E qs \in Requests : Arrive(p, qs)) \/ Cancel(p)
      PROVE  FALSE
  BY <1>1, <1>8 DEF Arrive, Cancel
<1>9. ASSUME (\E m \in BlockLists : Swap(m)) \/ TimePasses \/ UNCHANGED vars
      PROVE  FALSE
  BY <1>9 DEF Swap, TimePasses, vars, chainVars, queryVars
<1>10. QED
  BY <1>7, <1>8, <1>9 DEF Next

\* What the cache answers is as old as it says.
THEOREM ChainHitsAreFresh == Spec => ServedFromCache
<1>1. CacheInv /\ [Next]_vars => [HitSteps]_vars
  <2>. SUFFICES ASSUME CacheInv, [Next]_vars, NEW q \in Callers, pc[q] = "cache", pc'[q] = "finish"
                PROVE  HitStep(q)
    BY DEF HitSteps
  <2>0. TypeOK /\ Coalesced /\ Identified /\ Stored /\ CacheHit(q) /\ ChainInv
    BY OnlyHits DEF CacheInv, ChainInv
  <2>. DEFINE k == KeyOf(q)
              e == entries[k]
              elapsed == clock - e.storedAt
              aged == decrementTTLs(e.response, elapsed \div Second)
              m == [aged EXCEPT !.id = q]
  <2>1. Single(q) /\ k \in Keys /\ e # Nil /\ ~Expired(e, clock) /\ reqID[q] = q
    BY <2>0, SingleKey DEF Coalesced, Identified, CacheHit, GetHit
  <2>2. LiveEntries[k] = e
    BY <2>1 DEF LiveEntries
  <2>3. Proper(e) /\ e.key = k
    BY <2>0, <2>1 DEF Stored
  <2>4. ret'[q] = m
    BY <2>0, <2>1 DEF CacheHit, Returns, AgedResponse, TypeOK
  <2>5. e.response \in Msgs /\ elapsed \in Nat /\ clock \in Nat /\ e.expiresAt \in Nat
    BY SMTT(30), Z3, <2>0, <2>1, <2>3, EntriesTyped DEF Proper
  <2>. HIDE DEF e, k
  <2>6. clock <= e.expiresAt
    BY SMTT(30), Z3, <2>1, <2>5 DEF Expired
  <2>. HIDE DEF elapsed
  <2>7. /\ aged.question = e.response.question /\ aged.rcode = e.response.rcode
        /\ aged \in Msgs
        /\ aged.answer = DecrementRRs(e.response.answer, elapsed \div Second)
        /\ aged.ns = DecrementRRs(e.response.ns, elapsed \div Second)
        /\ aged.extra = DecrementRRs(e.response.extra, elapsed \div Second)
    <3>1. elapsed \div Second \in Nat
      BY SMTT(30), Z3, <2>5, SecondAssumption
    <3>2. aged \in Msgs /\ aged.question = e.response.question
      BY <2>5, <3>1, DecrementedMsg
    <3>3. /\ aged.rcode = e.response.rcode
          /\ aged.answer = DecrementRRs(e.response.answer, elapsed \div Second)
          /\ aged.ns = DecrementRRs(e.response.ns, elapsed \div Second)
          /\ aged.extra = DecrementRRs(e.response.extra, elapsed \div Second)
      BY SMTT(30), Z3, <2>5 DEF decrementTTLs, Msgs
    <3>4. QED
      BY <3>2, <3>3
  <2>. HIDE DEF aged
  <2>8. /\ m.id = q /\ m.question = e.response.question /\ m.rcode = e.response.rcode
        /\ m.answer = aged.answer /\ m.ns = aged.ns /\ m.extra = aged.extra
    BY SMTT(30), Z3, <2>7 DEF Msgs
  <2>. HIDE DEF m
  <2>9. AsksTheSame(m.question, request[q])
    <3>1. e.response.question \in Requests
      BY <2>5 DEF Msgs
    <3>2. QED
      BY <2>0, <2>1, <2>3, <2>8, <3>1, KeyAsks DEF Proper, k
  <2>10. /\ Remaining(m.answer, e.response.answer, elapsed)
         /\ Remaining(m.ns, e.response.ns, elapsed)
         /\ Remaining(m.extra, e.response.extra, elapsed)
    <3>1. {e.response.answer, e.response.ns, e.response.extra} \subseteq Seq(RR)
      BY <2>5 DEF Msgs
    <3>2. QED
      BY <2>5, <2>7, <2>8, <3>1, DecrementedRemaining
  <2>11. QED
    BY <2>1, <2>2, <2>4, <2>6, <2>8, <2>9, <2>10 DEF HitStep, k, elapsed
<1>2. QED
  BY <1>1, CacheSpecInv, PTL DEF Spec, ServedFromCache

=============================================================================
