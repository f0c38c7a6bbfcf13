----------------------------- MODULE LRUProofs -----------------------------
(***************************************************************************)
(* Proofs about the answer cache, for any number of callers and keys, any  *)
(* capacity, any messages and any bounds.  CacheProofs has what is true of *)
(* the list and the map; the history says in addition who used what when.  *)
(***************************************************************************)
EXTENDS LRUHistory, CacheProofs

\* The provers a leaf is tried with, in this order.
USE ZenonT(40), SMTT(30), Z3

-----------------------------------------------------------------------------
(***************************************************************************)
(* The inductive invariant.                                                *)
(***************************************************************************)

\* No use lies in the future: the next call is later than every use so far.
\* Without it nothing says that the key moved to the front is used last.
UseBounded == \A k \in Keys : lastUse[k] <= ops

IInv ==
  /\ TypeOK
  /\ Shaped
  /\ MetricsAgree
  /\ NoFutureEntry
  /\ RecencyOrder
  /\ UseBounded
  /\ LastStoreWins

-----------------------------------------------------------------------------
(***************************************************************************)
(* The order of use, after each change of the list.                        *)
(***************************************************************************)

\* The current call is the last use of k.
LEMMA UsedLast ==
  ASSUME IInv, NEW k \in Keys, Used(k), Call
  PROVE  /\ lastUse \in [Keys -> Nat] /\ ops \in Nat
         /\ lastUse' \in [Keys -> Nat]
         /\ lastUse'[k] = ops + 1
         /\ \A x \in Keys : x # k => lastUse'[x] = lastUse[x]
         /\ UseBounded'
  <1>1. lastUse \in [Keys -> Nat] /\ ops \in Nat
    BY DEF IInv, TypeOK
  <1>2. /\ lastUse' \in [Keys -> Nat]
        /\ lastUse'[k] = ops + 1
        /\ \A x \in Keys : x # k => lastUse'[x] = lastUse[x]
    BY SMTT(30), Z3, <1>1 DEF Used
  <1>3. UseBounded'
    BY <1>1, <1>2 DEF UseBounded, IInv, Call
  <1> QED
    BY <1>1, <1>2, <1>3

\* Moving the element of k to the front, with k used by the current call.
LEMMA MovedRecency ==
  ASSUME IInv, NEW k \in Keys, entries[k] # Nil,
         list' = MovedToFront(k), Used(k), Call
  PROVE  RecencyOrder'
  <1> DEFINE p == PositionOf(k)
             n == Len(list)
  <1>1. /\ list' \in Seq(Keys)
        /\ Len(list') = n
        /\ \A j \in 1 .. n : list'[j] = IF j = 1 THEN k
                                         ELSE IF j <= p THEN list[j - 1]
                                         ELSE list[j]
    BY MovedToFrontProperties DEF IInv
  <1>2. p \in 1 .. n /\ list[p] = k /\ n \in Nat
    BY PositionIsElement, ListLength DEF IInv
  <1>3. DOMAIN list' = 1 .. n /\ DOMAIN list = 1 .. n
    BY <1>1, LenProperties DEF IInv, TypeOK
  <1>4. list \in [1 .. n -> Keys] /\ lastUse \in [Keys -> Nat] /\ ops \in Nat
    BY LenProperties DEF IInv, TypeOK
  <1> HIDE DEF p, n
  <1>5. lastUse' \in [Keys -> Nat]
        /\ lastUse'[k] = ops + 1
        /\ \A x \in Keys : x # k => lastUse'[x] = lastUse[x]
    BY UsedLast
  <1>6. \A j \in 1 .. n : j # p => list[j] # k
    BY <1>2, <1>3 DEF IInv, Shaped, ListMapAgree
  <1>7. RecencyOrder'
    <2> SUFFICES ASSUME NEW i \in 1 .. n, NEW j \in 1 .. n, i < j
                 PROVE  lastUse'[list'[i]] > lastUse'[list'[j]]
      BY <1>3 DEF RecencyOrder
    <2> DEFINE b == IF j <= p THEN j - 1 ELSE j
    <2>1. b \in 1 .. n /\ b # p /\ list'[j] = list[b]
      BY SMTT(30), Z3, <1>1, <1>2
    <2>2. lastUse'[list'[j]] = lastUse[list[b]] /\ lastUse[list[b]] \in Nat
          /\ lastUse[list[b]] <= ops
      BY ZenonT(40), <2>1, <1>4, <1>5, <1>6 DEF IInv, UseBounded
    <2> HIDE DEF b
    <2>3. CASE i = 1
      <3>1. lastUse'[list'[i]] = ops + 1
        BY <2>3, <1>1, <1>5
      <3> QED
        BY <3>1, <2>2, <1>4
    <2>4. CASE i # 1
      <3> DEFINE a == IF i <= p THEN i - 1 ELSE i
      <3>1. a \in 1 .. n /\ a # p /\ list'[i] = list[a] /\ a < b
        BY SMTT(30), Z3, <1>1, <1>2, <2>4 DEF b
      <3>2. lastUse'[list'[i]] = lastUse[list[a]]
        BY <3>1, <1>4, <1>5, <1>6
      <3>3. lastUse[list[a]] > lastUse[list[b]]
        BY <3>1, <2>1, <1>3 DEF IInv, RecencyOrder
      <3> QED
        BY <3>2, <3>3, <2>2
    <2> QED
      BY <2>3, <2>4
  <1> QED
    BY <1>7

\* Unlinking the element of k.
LEMMA UnlinkedRecency ==
  ASSUME IInv, NEW k \in Keys, entries[k] # Nil, list' = Unlinked(k), UNCHANGED lastUse
  PROVE  RecencyOrder'
  <1> DEFINE p == PositionOf(k)
             n == Len(list)
  <1>1. /\ list' \in Seq(Keys)
        /\ Len(list') = n - 1
        /\ \A j \in 1 .. n - 1 : list'[j] = IF j < p THEN list[j] ELSE list[j + 1]
    BY UnlinkedProperties DEF IInv
  <1>2. p \in 1 .. n /\ list[p] = k /\ n \in Nat
    BY PositionIsElement, ListLength DEF IInv
  <1>3. DOMAIN list' = 1 .. n - 1 /\ DOMAIN list = 1 .. n
    BY <1>1, LenProperties DEF IInv, TypeOK
  <1> HIDE DEF p, n
  <1>4. RecencyOrder'
    <2> SUFFICES ASSUME NEW i \in 1 .. n - 1, NEW j \in 1 .. n - 1, i < j
                 PROVE  lastUse[list'[i]] > lastUse[list'[j]]
      BY <1>3 DEF RecencyOrder
    <2> DEFINE a == IF i < p THEN i ELSE i + 1
               b == IF j < p THEN j ELSE j + 1
    <2>1. /\ a \in 1 .. n /\ list'[i] = list[a]
          /\ b \in 1 .. n /\ list'[j] = list[b]
          /\ a < b
      BY SMTT(30), Z3, <1>1, <1>2
    <2> HIDE DEF a, b
    <2> QED
      BY <2>1, <1>3 DEF IInv, RecencyOrder
  <1> QED
    BY <1>4

\* Pushing an absent key k, used by the current call, whether or not the last element
\* has to go.
LEMMA PushedRecency ==
  ASSUME IInv, NEW k \in Keys, entries[k] = Nil,
         list' = Trimmed(PushFront(k, list)), Used(k), Call
  PROVE  RecencyOrder'
  <1> DEFINE n == Len(list)
             m == Len(list')
  <1>1. /\ n \in Nat /\ DOMAIN list = 1 .. n /\ n <= Capacity
        /\ Capacity \in Nat /\ Capacity >= 1
        /\ list \in [1 .. n -> Keys] /\ lastUse \in [Keys -> Nat] /\ ops \in Nat
    BY ListLength, CapacityPositive, LenProperties DEF IInv, Shaped, WithinCapacity, TypeOK
  <1>2. /\ list' \in Seq(Keys)
        /\ m = IF n = Capacity THEN Capacity ELSE n + 1
        /\ \A j \in 1 .. m : list'[j] = IF j = 1 THEN k ELSE list[j - 1]
    BY ZenonT(40), ListPushed DEF IInv
  <1>3. DOMAIN list' = 1 .. m
    BY <1>2, LenProperties
  <1>4. \A j \in 1 .. m : list'[j] = IF j = 1 THEN k ELSE list[j - 1]
    BY <1>2
  <1> HIDE DEF n, m
  <1>5. m \in 1 .. n + 1 /\ (m = n + 1 \/ m = n)
    BY SMTT(30), Z3, <1>1, <1>2
  <1>6. /\ lastUse' \in [Keys -> Nat]
        /\ lastUse'[k] = ops + 1
        /\ \A x \in Keys : x # k => lastUse'[x] = lastUse[x]
    BY UsedLast
  <1>7. \A j \in 1 .. n : list[j] # k /\ list[j] \in Keys
    BY <1>1 DEF IInv, Shaped, ListMapAgree
  <1>8. RecencyOrder'
    <2> SUFFICES ASSUME NEW i \in 1 .. m, NEW j \in 1 .. m, i < j
                 PROVE  lastUse'[list'[i]] > lastUse'[list'[j]]
      BY <1>3 DEF RecencyOrder
    <2>1. j - 1 \in 1 .. n /\ list'[j] = list[j - 1]
      BY SMTT(30), Z3, <1>1, <1>5, <1>4
    <2>2. lastUse'[list'[j]] = lastUse[list[j - 1]] /\ lastUse[list[j - 1]] \in Nat
          /\ lastUse[list[j - 1]] <= ops
      BY <2>1, <1>1, <1>6, <1>7 DEF IInv, UseBounded
    <2>3. CASE i = 1
      <3>1. lastUse'[list'[i]] = ops + 1
        BY <2>3, <1>4, <1>6
      <3> QED
        BY <3>1, <2>2, <1>1
    <2>4. CASE i # 1
      <3>1. i - 1 \in 1 .. n /\ list'[i] = list[i - 1] /\ i - 1 < j - 1
        BY SMTT(30), Z3, <2>4, <1>1, <1>5, <1>4
      <3>2. lastUse'[list'[i]] = lastUse[list[i - 1]]
        BY <3>1, <1>6, <1>7
      <3>3. lastUse[list[i - 1]] > lastUse[list[j - 1]]
        BY ZenonT(40), <3>1, <2>1, <1>1 DEF IInv, RecencyOrder
      <3> QED
        BY <3>2, <3>3, <2>2
    <2> QED
      BY <2>3, <2>4
  <1> QED
    BY <1>8

-----------------------------------------------------------------------------
(***************************************************************************)
(* The invariant is inductive.                                             *)
(***************************************************************************)

\* The empty cache NewLRU returns satisfies the invariant.
LEMMA InitEstablishes == Init => IInv
  <1> SUFFICES ASSUME Init PROVE IInv
    OBVIOUS
  <1>1. Shaped
    BY ShapedInit DEF Init
  <1> USE DEF Init, CacheInit
  <1>2. TypeOK
    BY EmptySeq DEF TypeOK
  <1>3. Len(list) = 0 /\ DOMAIN list = {}
    BY EmptySeq
  <1>4. RecencyOrder /\ MetricsAgree
    BY <1>3 DEF RecencyOrder, MetricsAgree
  <1>5. NoFutureEntry /\ LastStoreWins /\ UseBounded
    BY DEF NoFutureEntry, LastStoreWins, UseBounded, Resident
  <1> QED
    BY <1>1, <1>2, <1>4, <1>5 DEF IInv

\* Store up to Lock touches nothing that is shared.
LEMMA StampPreserves ==
  ASSUME IInv, NEW c \in Callers, NEW k \in Keys, NEW m \in Messages,
         NEW ttl \in Lifetimes, Stamp(c, k, m, ttl)
  PROVE  IInv'
  <1> USE DEF Stamp, StoreStamp, history
  <1> DEFINE e == [key |-> k, response |-> m, storedAt |-> clock, expiresAt |-> clock + ttl]
  <1>1. clock \in Nat /\ ttl \in Nat /\ storing \in [Callers -> Entry \cup {Nil}]
    BY HistoryAssumption DEF IInv, TypeOK
  <1>2. e \in Entry
    BY SMTT(30), Z3, <1>1 DEF Entry
  <1>3. TypeOK'
    BY <1>2 DEF IInv, TypeOK
  <1>4. NoFutureEntry'
    BY <1>1 DEF IInv, NoFutureEntry, Resident
  <1> QED
    BY <1>3, <1>4, ShapedSame DEF IInv, MetricsAgree, RecencyOrder, UseBounded,
                                  LastStoreWins, Resident

\* The replacing branch of Store preserves the invariant.
LEMMA ReplacePreserves ==
  ASSUME IInv, NEW c \in Callers, Replace(c)
  PROVE  IInv'
  <1> DEFINE e == storing[c]
             k == e.key
  <1>1. /\ e \in Entry /\ k \in Keys /\ e # Nil /\ entries[k] # Nil
        /\ list' = MovedToFront(k) /\ Used(k) /\ Call
        /\ entries' = [entries EXCEPT ![k] = e]
        /\ stored' = [stored EXCEPT ![k] = e]
        /\ storing' = [storing EXCEPT ![c] = Nil]
        /\ UNCHANGED <<gauge, evictions, clock, inserts>>
    BY DEF Replace, StoreReplace, IInv, TypeOK, Entry
  <1>2. Shaped'
    BY ZenonT(40), <1>1, ShapedReplace DEF Replace, IInv
  <1> HIDE DEF e, k
  <1>3. lastUse' \in [Keys -> Nat] /\ RecencyOrder' /\ UseBounded'
    BY ZenonT(40), <1>1, UsedLast, MovedRecency
  <1>4. Len(list') = Len(list)
    BY ZenonT(40), <1>1, ListMoved DEF IInv
  <1>5. TypeOK'
    <2>1. /\ entries' \in [Keys -> Entry \cup {Nil}]
          /\ stored' \in [Keys -> Entry \cup {Nil}]
          /\ storing' \in [Callers -> Entry \cup {Nil}]
      BY <1>1 DEF IInv, TypeOK
    <2>2. gauge' \in Nat /\ evictions' \in Nat /\ clock' \in Nat /\ inserts' \in Nat
      BY <1>1 DEF IInv, TypeOK
    <2>3. ops' \in Nat
      BY SMTT(30), Z3, <1>1 DEF IInv, TypeOK, Call
    <2>4. list' \in Seq(Keys)
      BY ZenonT(40), <1>2 DEF Shaped
    <2> QED
      BY ZenonT(40), <2>1, <2>2, <2>3, <2>4, <1>3 DEF TypeOK
  <1>6. MetricsAgree'
    BY <1>1, <1>4 DEF IInv, MetricsAgree
  <1>7. NoFutureEntry'
    BY <1>1 DEF IInv, NoFutureEntry, Resident, TypeOK, e
  <1>8. LastStoreWins'
    BY <1>1 DEF IInv, LastStoreWins, Resident, TypeOK
  <1> QED
    BY ZenonT(40), <1>2, <1>3, <1>5, <1>6, <1>7, <1>8 DEF IInv

\* The inserting branch of Store, its eviction loop included, preserves the
\* invariant.
LEMMA InsertPreserves ==
  ASSUME IInv, NEW c \in Callers, Insert(c)
  PROVE  IInv'
  <1> DEFINE e == storing[c]
             k == e.key
  <1>1. /\ e \in Entry /\ k \in Keys /\ e # Nil /\ entries[k] = Nil
        /\ list' = Trimmed(PushFront(k, list)) /\ Used(k) /\ Call
        /\ evictions' = evictions + (Len(PushFront(k, list)) - Len(list'))
        /\ gauge' = Len(list')
        /\ inserts' = inserts + 1
        /\ stored' = [stored EXCEPT ![k] = e]
        /\ storing' = [storing EXCEPT ![c] = Nil]
        /\ UNCHANGED clock
    BY SMTT(30), Z3T(30) DEF Insert, StoreInsert, IInv, TypeOK, Entry
  <1>2. Shaped'
    BY ZenonT(40), <1>1, ShapedInsert DEF Insert, IInv
  <1>3. /\ Len(PushFront(k, list)) = Len(list) + 1
        /\ Len(list') = IF Len(list) = Capacity THEN Capacity ELSE Len(list) + 1
        /\ entries' = [x \in Keys |-> IF x \in Dropped THEN Nil
                                      ELSE IF x = k THEN e ELSE entries[x]]
    BY ZenonT(40), <1>1, Inserted DEF Insert, IInv
  <1> HIDE DEF e, k
  <1>4. lastUse' \in [Keys -> Nat] /\ RecencyOrder' /\ UseBounded'
    BY ZenonT(40), <1>1, UsedLast, PushedRecency
  <1>5. Len(list) \in Nat /\ Len(list) <= Capacity /\ Capacity \in Nat
    BY ListLength, CapacityPositive DEF IInv, Shaped, WithinCapacity
  <1>6. evictions' \in Nat /\ MetricsAgree'
    BY <1>1, <1>3, <1>5 DEF IInv, MetricsAgree, TypeOK
  <1>7. TypeOK'
    <2>1. /\ entries' \in [Keys -> Entry \cup {Nil}]
          /\ stored' \in [Keys -> Entry \cup {Nil}]
          /\ storing' \in [Callers -> Entry \cup {Nil}]
      BY <1>1, <1>3 DEF IInv, TypeOK
    <2>2. gauge' \in Nat /\ clock' \in Nat /\ inserts' \in Nat
      BY SMTT(30), Z3, <1>1, <1>3, <1>5 DEF IInv, TypeOK
    <2>3. ops' \in Nat
      BY SMTT(30), Z3, <1>1 DEF IInv, TypeOK, Call
    <2>4. list' \in Seq(Keys)
      BY ZenonT(40), <1>2 DEF Shaped
    <2> QED
      BY ZenonT(40), <2>1, <2>2, <2>3, <2>4, <1>4, <1>6 DEF TypeOK
  <1>8. NoFutureEntry'
    BY <1>1, <1>3 DEF IInv, NoFutureEntry, Resident, TypeOK, e
  <1>9. LastStoreWins'
    BY <1>1, <1>3 DEF IInv, LastStoreWins, Resident, TypeOK
  <1> QED
    BY ZenonT(40), <1>2, <1>4, <1>6, <1>7, <1>8, <1>9 DEF IInv

\* A Get that removes an expired entry preserves the invariant.
LEMMA ExpirePreserves ==
  ASSUME IInv, NEW k \in Keys, Expire(k)
  PROVE  IInv'
  <1>1. /\ entries[k] # Nil /\ list' = Unlinked(k) /\ Call
        /\ entries' = [entries EXCEPT ![k] = Nil]
        /\ evictions' = evictions + 1 /\ gauge' = Len(list')
        /\ UNCHANGED <<clock, storing, lastUse, stored, inserts>>
    BY DEF Expire, GetExpired
  <1>2. Shaped'
    BY ZenonT(40), ShapedExpired DEF Expire, IInv
  <1>3. RecencyOrder'
    BY ZenonT(40), <1>1, UnlinkedRecency
  <1>4. Len(list') = Len(list) - 1 /\ Len(list) \in Nat /\ Len(list') \in Nat
        /\ list' \in Seq(Keys)
    BY <1>1, ListUnlinked, LenProperties DEF IInv, Shaped
  <1>5. TypeOK'
    BY SMTT(30), Z3T(30), <1>1, <1>4 DEF IInv, TypeOK, Call
  <1>6. MetricsAgree'
    BY <1>1, <1>4 DEF IInv, MetricsAgree, TypeOK
  <1>7. NoFutureEntry' /\ LastStoreWins'
    BY <1>1 DEF IInv, NoFutureEntry, LastStoreWins, Resident, TypeOK
  <1>8. UseBounded'
    BY <1>1 DEF IInv, UseBounded, Call, TypeOK
  <1> QED
    BY ZenonT(40), <1>2, <1>3, <1>5, <1>6, <1>7, <1>8 DEF IInv

\* A Get that hits preserves the invariant.
LEMMA HitPreserves ==
  ASSUME IInv, NEW k \in Keys, Hit(k)
  PROVE  IInv'
  <1>1. /\ entries[k] # Nil /\ list' = MovedToFront(k) /\ Call /\ Used(k)
        /\ UNCHANGED <<entries, gauge, evictions, clock, storing, stored, inserts>>
    BY DEF Hit, GetHit
  <1>2. Shaped'
    BY ZenonT(40), ShapedHit DEF Hit, IInv
  <1>3. lastUse' \in [Keys -> Nat] /\ RecencyOrder' /\ UseBounded'
    BY ZenonT(40), <1>1, UsedLast, MovedRecency
  <1>4. list' \in Seq(Keys) /\ Len(list') = Len(list)
    BY ZenonT(40), <1>1, ListMoved DEF IInv
  <1>5. TypeOK'
    BY SMTT(30), Z3, <1>1, <1>3, <1>4 DEF IInv, TypeOK, Call
  <1>6. MetricsAgree'
    BY <1>1, <1>4 DEF IInv, MetricsAgree
  <1>7. NoFutureEntry' /\ LastStoreWins'
    BY <1>1 DEF IInv, NoFutureEntry, LastStoreWins, Resident
  <1> QED
    BY ZenonT(40), <1>2, <1>3, <1>5, <1>6, <1>7 DEF IInv

\* A Get that misses preserves the invariant.
LEMMA MissPreserves ==
  ASSUME IInv, NEW k \in Keys, Miss(k)
  PROVE  IInv'
  BY ShapedSame DEF Miss, GetMiss, cacheVars, Call, IInv, TypeOK, MetricsAgree,
         NoFutureEntry, RecencyOrder, UseBounded, LastStoreWins, Resident

\* The passage of time preserves the invariant.
LEMMA PassPreserves ==
  ASSUME IInv, Pass
  PROVE  IInv'
  <1>1. /\ clock < MaxTime /\ clock' = clock + 1
        /\ UNCHANGED <<list, entries, gauge, evictions, storing, history>>
    BY ZenonT(40) DEF Pass, Tick
  <1>2. UNCHANGED <<ops, lastUse, stored, inserts, served>>
    BY ZenonT(40), <1>1 DEF history
  <1>3. TypeOK'
    <2>1. TypeOK
      BY ZenonT(40) DEF IInv
    <2>2. clock \in Nat
      BY ZenonT(40), <2>1 DEF TypeOK
    <2>3. clock' \in Nat
      BY <1>1, <2>2
    <2> QED
      BY ZenonT(40), <1>1, <1>2, <2>1, <2>3 DEF TypeOK
  <1>4. NoFutureEntry'
    <2>1. /\ entries \in [Keys -> Entry \cup {Nil}] /\ clock \in Nat
          /\ storing \in [Callers -> Entry \cup {Nil}] /\ NoFutureEntry
      BY ZenonT(40) DEF IInv, TypeOK
    <2>2. \A e \in Entry : e.storedAt <= clock => e.storedAt <= clock + 1
      BY <2>1 DEF Entry
    <2>3. \A k \in Resident : entries[k] \in Entry
      BY ZenonT(40), <2>1 DEF Resident
    <2>4. \A c \in Callers : storing[c] # Nil => storing[c] \in Entry
      BY ZenonT(40), <2>1
    <2>5. Resident' = Resident
      BY ZenonT(40), <1>1 DEF Resident
    <2> QED
      BY ZenonT(40), <1>1, <2>1, <2>2, <2>3, <2>4, <2>5 DEF NoFutureEntry
  <1>5. Shaped' /\ MetricsAgree'
    BY <1>1, <1>2, ShapedSame DEF IInv, MetricsAgree
  <1>6. (RecencyOrder /\ UseBounded /\ LastStoreWins)'
    BY <1>1, <1>2 DEF IInv, RecencyOrder, UseBounded, LastStoreWins, Resident
  <1>7. QED
    BY ZenonT(40), <1>3, <1>4, <1>5, <1>6 DEF IInv

\* Every step of the cache preserves the invariant.
LEMMA StepPreserves == IInv /\ [Next]_vars => IInv'
  <1> SUFFICES ASSUME IInv, [Next]_vars PROVE IInv'
    OBVIOUS
  <1>1. ASSUME NEW c \in Callers, NEW k \in Keys, NEW m \in Messages,
               NEW ttl \in Lifetimes, Stamp(c, k, m, ttl)
        PROVE  IInv'
    BY <1>1, StampPreserves
  <1>2. ASSUME NEW c \in Callers, Replace(c) PROVE IInv'
    BY <1>2, ReplacePreserves
  <1>3. ASSUME NEW c \in Callers, Insert(c) PROVE IInv'
    BY <1>3, InsertPreserves
  <1>4. ASSUME NEW k \in Keys, Miss(k) PROVE IInv'
    BY <1>4, MissPreserves
  <1>5. ASSUME NEW k \in Keys, Expire(k) PROVE IInv'
    BY <1>5, ExpirePreserves
  <1>6. ASSUME NEW k \in Keys, Hit(k) PROVE IInv'
    BY <1>6, HitPreserves
  <1>7. CASE Pass
    BY <1>7, PassPreserves
  <1>8. CASE UNCHANGED vars
    BY <1>8, ShapedSame DEF vars, cacheVars, history, IInv, TypeOK, MetricsAgree,
         NoFutureEntry, RecencyOrder, UseBounded, LastStoreWins, Resident
  <1> QED
    BY <1>1, <1>2, <1>3, <1>4, <1>5, <1>6, <1>7, <1>8 DEF Next

\* The inductive invariant holds in every reachable state.
THEOREM InductiveInvariant == Spec => []IInv
  BY InitEstablishes, StepPreserves, PTL DEF Spec

-----------------------------------------------------------------------------
(***************************************************************************)
(* What the callers of the cache rely on.                                  *)
(***************************************************************************)

\* Every variable of the cache has its type: no age or lifetime is negative.
THEOREM CacheTypeCorrect == Spec => []TypeOK
  <1>1. IInv => TypeOK
    BY DEF IInv
  <1> QED
    BY <1>1, InductiveInvariant, PTL

\* The list and the map of lru.go never disagree, and the list never outgrows
\* the capacity.
THEOREM CacheConsistent == Spec => [](ListMapAgree /\ WithinCapacity)
  <1>1. IInv => ListMapAgree /\ WithinCapacity
    BY DEF IInv, Shaped
  <1> QED
    BY <1>1, InductiveInvariant, PTL

\* The entries gauge and the eviction counter are exact at every moment.
THEOREM MetricsExact == Spec => []MetricsAgree
  <1>1. IInv => MetricsAgree
    BY DEF IInv
  <1> QED
    BY <1>1, InductiveInvariant, PTL

\* Ages are never negative, the list is in order of use, and a key holds what was
\* stored under it last.
THEOREM EntriesFaithful == Spec => [](NoFutureEntry /\ RecencyOrder /\ LastStoreWins)
  <1>1. IInv => NoFutureEntry /\ RecencyOrder /\ LastStoreWins
    BY DEF IInv
  <1> QED
    BY <1>1, InductiveInvariant, PTL

EvictionStep ==
  \A k \in Keys :
    entries[k] # Nil /\ entries'[k] = Nil =>
      \/ clock > entries[k].expiresAt
      \/ /\ Len(list) = Capacity
         /\ \A j \in Resident : lastUse[k] <= lastUse[j]

\* Store evicts only from a full cache, and only its least recently used entry.
THEOREM EvictionIsLRU == Spec => EvictsOnlyLRU
  <1>1. IInv /\ [Next]_vars => [EvictionStep]_vars
    <2> SUFFICES ASSUME IInv, [Next]_vars,
                        NEW k \in Keys, entries[k] # Nil, entries'[k] = Nil
                 PROVE  \/ clock > entries[k].expiresAt
                        \/ /\ Len(list) = Capacity
                           /\ \A j \in Resident : lastUse[k] <= lastUse[j]
      BY DEF EvictionStep
    <2>1. ASSUME NEW c \in Callers, Insert(c)
          PROVE  /\ Len(list) = Capacity
                 /\ \A j \in Resident : lastUse[k] <= lastUse[j]
      <3> DEFINE e == storing[c]
      <3>1. e.key \in Keys /\ StoreInsert(c)
        BY ZenonT(40), SMTT(30), Z3T(30), <2>1 DEF Insert, StoreInsert, IInv, TypeOK, Entry
      <3>2. entries' = [x \in Keys |-> IF x \in Dropped THEN Nil
                                      ELSE IF x = e.key THEN e ELSE entries[x]]
        BY ZenonT(40), <3>1, Inserted DEF IInv
      <3> HIDE DEF e
      <3>3. Len(list) = Capacity /\ k = list[Capacity]
        <4>1. e # Nil
          BY ZenonT(40), <3>1 DEF StoreInsert, e
        <4>2. k \in Dropped
          BY <4>1, <3>2
        <4> QED
          BY ZenonT(40), <4>2 DEF Dropped
      <3>4. ASSUME NEW j \in Resident PROVE lastUse[k] <= lastUse[j]
        <4>1. PICK i \in DOMAIN list : list[i] = j
          BY DEF IInv, Shaped, ListMapAgree, Resident
        <4>2. i \in 1 .. Capacity /\ Capacity \in DOMAIN list
          BY <3>3, <4>1, ListLength, CapacityPositive DEF IInv
        <4>3. lastUse[k] \in Nat /\ lastUse[j] \in Nat
          BY DEF IInv, TypeOK, Resident
        <4>4. CASE i = Capacity
          BY ZenonT(40), SMTT(30), Z3T(30), <4>4, <4>1, <4>3, <3>3
        <4>5. CASE i # Capacity
          BY <4>5, <4>1, <4>2, <4>3, <3>3, CapacityPositive DEF IInv, RecencyOrder
        <4> QED
          BY ZenonT(40), SMTT(30), Z3T(30), <4>4, <4>5
      <3> QED
        BY <3>3, <3>4
    <2>2. ASSUME NEW x \in Keys, Expire(x)
          PROVE  clock > entries[k].expiresAt
      BY <2>2 DEF Expire, GetExpired, Expired, IInv, TypeOK
    <2>3. ASSUME NEW c \in Callers, Replace(c) PROVE FALSE
      BY <2>3 DEF Replace, StoreReplace, IInv, TypeOK
    <2>4. ASSUME NEW c \in Callers, NEW x \in Keys, NEW m \in Messages,
                 NEW ttl \in Lifetimes, Stamp(c, x, m, ttl)
          PROVE  FALSE
      BY <2>4 DEF Stamp, StoreStamp
    <2>5. ASSUME NEW x \in Keys, Miss(x) \/ Hit(x) PROVE FALSE
      BY <2>5 DEF Miss, GetMiss, Hit, GetHit, cacheVars
    <2>6. ASSUME Pass \/ UNCHANGED vars PROVE FALSE
      BY <2>6 DEF Pass, Tick, vars, cacheVars
    <2>7. (\E c \in Callers : Insert(c)) \/ (\E x \in Keys : Expire(x))
      BY ZenonT(60), <2>3, <2>4, <2>5, <2>6 DEF Next
    <2>8. CASE \E c \in Callers : Insert(c)
      <3>1. PICK c \in Callers : Insert(c)
        BY ZenonT(40), <2>8
      <3> QED
        BY ZenonT(40), <3>1, <2>1
    <2>9. CASE \E x \in Keys : Expire(x)
      <3>1. PICK x \in Keys : Expire(x)
        BY ZenonT(40), <2>9
      <3> QED
        BY ZenonT(40), <3>1, <2>2
    <2> QED
      BY ZenonT(40), <2>7, <2>8, <2>9
  <1> QED
    BY <1>1, InductiveInvariant, PTL DEF Spec, EvictsOnlyLRU, EvictionStep

FreshStep ==
  served' # served =>
    LET e == stored[served'.key]
        elapsed == served'.at - e.storedAt
        r == served'.response
    IN /\ served'.at <= e.expiresAt
       /\ Remaining(r.answer, e.response.answer, elapsed)
       /\ Remaining(r.ns, e.response.ns, elapsed)
       /\ Remaining(r.extra, e.response.extra, elapsed)

\* A hit answers from an entry that is not past its lifetime, with the TTLs that
\* remain of those stored.
THEOREM HitsAreFresh == Spec => HitIsFresh
  <1>1. IInv /\ [Next]_vars => [FreshStep]_vars
    <2> SUFFICES ASSUME IInv, [Next]_vars, served' # served
                 PROVE  FreshStep
      BY DEF FreshStep
    <2>1. PICK k \in Keys : Hit(k)
      BY DEF Next, Stamp, Replace, Insert, Miss, Expire, Pass, vars, history
    <2> DEFINE e == entries[k]
               elapsed == clock - e.storedAt
    <2>2. /\ e # Nil /\ ~Expired(e, clock)
          /\ served'.key = k /\ served'.at = clock
          /\ served'.response = AgedResponse(e, clock)
      BY <2>1 DEF Hit, GetHit
    <2>3. e \in Entry /\ e = stored[k] /\ e.storedAt <= clock /\ clock \in Nat
      BY ZenonT(40), SMTT(30), Z3T(30), <2>2 DEF IInv, TypeOK, LastStoreWins, NoFutureEntry, Resident
    <2>4. e.response \in Messages /\ e.expiresAt \in Nat /\ elapsed \in Nat
      BY ZenonT(40), SMTT(30), Z3T(30), <2>3 DEF Entry
    <2>5. /\ {"answer", "ns", "extra"} \subseteq DOMAIN e.response
          /\ e.response.answer \in Seq(RR)
          /\ e.response.ns \in Seq(RR)
          /\ e.response.extra \in Seq(RR)
      BY ZenonT(40), SMTT(30), Z3T(30), <2>4, LRUAssumption
    <2> HIDE DEF e
    <2>6. clock <= e.expiresAt
      BY ZenonT(40), SMTT(30), Z3T(30), <2>2, <2>3, <2>4 DEF Expired
    <2>7. /\ AgedResponse(e, clock).answer
               = DecrementRRs(e.response.answer, elapsed \div Second)
          /\ AgedResponse(e, clock).ns = DecrementRRs(e.response.ns, elapsed \div Second)
          /\ AgedResponse(e, clock).extra
               = DecrementRRs(e.response.extra, elapsed \div Second)
      BY ZenonT(40), SMTT(30), Z3T(30), <2>5 DEF AgedResponse, decrementTTLs
    <2> HIDE DEF elapsed
    <2>8. /\ Remaining(AgedResponse(e, clock).answer, e.response.answer, elapsed)
          /\ Remaining(AgedResponse(e, clock).ns, e.response.ns, elapsed)
          /\ Remaining(AgedResponse(e, clock).extra, e.response.extra, elapsed)
      BY <2>4, <2>5, <2>7, DecrementedRemaining
    <2> QED
      BY ZenonT(40), SMTT(30), Z3T(30), <2>2, <2>3, <2>6, <2>8 DEF FreshStep, elapsed
  <1> QED
    BY <1>1, InductiveInvariant, PTL DEF Spec, HitIsFresh, FreshStep

-----------------------------------------------------------------------------
(***************************************************************************)
(* The LRU implements AnswerCache: every step of LRUHistory is one of the  *)
(* abstract cache or leaves it unchanged.  The inductive invariant does    *)
(* the work: the list has one element for each entry and is never longer   *)
(* than the capacity, so that an insertion forgets at most one entry.      *)
(***************************************************************************)

\* No more entries are live than the capacity.
LEMMA LiveWithinCapacity == IInv => Abstract!Fits(LiveKeys)
  BY ZenonT(40), LiveFit DEF IInv, Abstract!Fits

\* The same, of the next state.
LEMMA LiveWithinCapacityNext == IInv' => Abstract!Fits(LiveKeys')
  <1>1. (IInv => Abstract!Fits(LiveKeys))'
    BY LiveWithinCapacity, PTL
  <1> QED
    BY <1>1 DEF Abstract!Fits, Capacity

\* The empty cache is the empty map.
LEMMA InitRefines == Init => Abstract!Init
  BY DEF Init, CacheInit, NothingServed, LiveEntries, Abstract!Init

\* The entry that Store builds before Lock is pending.
LEMMA StampRefines ==
  ASSUME IInv, NEW c \in Callers, NEW k \in Keys, NEW m \in Messages,
         NEW ttl \in Lifetimes, Stamp(c, k, m, ttl)
  PROVE  Abstract!StoreCalled(c)
  <1> DEFINE e == [key |-> k, response |-> m, storedAt |-> clock, expiresAt |-> clock + ttl]
  <1>1. /\ storing[c] = Nil /\ storing' = [storing EXCEPT ![c] = e]
        /\ UNCHANGED <<entries, clock, served>>
    BY DEF Stamp, StoreStamp, history
  <1>2. clock \in Nat /\ ttl \in Nat /\ storing \in [Callers -> Entry \cup {Nil}]
    BY HistoryAssumption DEF IInv, TypeOK
  <1>3. e \in Entry /\ e.storedAt = clock
    BY <1>2 DEF Entry
  <1> HIDE DEF e
  <1>4. storing'[c] = e
    BY <1>1, <1>2
  <1>5. LiveEntries' = LiveEntries
    BY <1>1 DEF LiveEntries, Expired
  <1> QED
    BY ZenonT(40), <1>1, <1>3, <1>4, <1>5 DEF Abstract!StoreCalled

\* The entry that a caller is about to insert has its type, and was stamped before.
LEMMA PendingTyped ==
  ASSUME IInv, NEW c \in Callers, storing[c] # Nil
  PROVE  /\ storing[c] \in Entry /\ storing[c].key \in Keys
         /\ storing[c].expiresAt \in Nat /\ clock \in Nat
  BY DEF IInv, TypeOK, Entry

\* A store under the mutex forgets one live entry at most.
LEMMA StoreRefines ==
  ASSUME IInv, IInv', NEW c \in Callers, Replace(c) \/ Insert(c)
  PROVE  Abstract!StoreReturns(c)
  <1> DEFINE e == storing[c]
  <1>1. /\ e # Nil /\ storing' = [storing EXCEPT ![c] = Nil]
        /\ UNCHANGED <<clock, served>>
    BY ZenonT(40) DEF Replace, Insert, StoreReplace, StoreInsert
  <1>2. e.key \in Keys /\ e.expiresAt \in Nat /\ clock \in Nat
    BY <1>1 DEF IInv, TypeOK, Entry
  <1>3. \/ LiveEntries' = LiveWith(e, {})
        \/ \E k \in Keys \ {e.key} : LiveEntries' = LiveWith(e, {k})
    BY ZenonT(40), <1>2, LiveReplace, LiveInsert DEF IInv, Replace, Insert
  <1> HIDE DEF e
  <1>4. ASSUME NEW forgotten PROVE LiveWith(e, forgotten) = Abstract!With(e, forgotten)
    BY ZenonT(40) DEF LiveWith, Abstract!With, Abstract!Alive
  <1>5. Abstract!Fits({k \in Keys : LiveEntries'[k] # Nil})
    BY LiveWithinCapacityNext DEF LiveKeys
  <1> QED
    BY ZenonT(40), <1>1, <1>3, <1>4, <1>5 DEF Abstract!StoreReturns, e

\* A miss, and the removal of what has expired, are no steps of the abstract cache.
LEMMA MissRefines ==
  ASSUME IInv, NEW k \in Keys, Miss(k) \/ Expire(k)
  PROVE  UNCHANGED Abstract!state
  <1>1. UNCHANGED <<clock, storing, served>>
    BY DEF Miss, GetMiss, Expire, GetExpired, cacheVars
  <1>2. LiveEntries' = LiveEntries
    BY ZenonT(40), LiveLookup DEF IInv, Miss, Expire
  <1> QED
    BY <1>1, <1>2 DEF Abstract!state

\* A hit is a lookup.
LEMMA HitRefines ==
  ASSUME IInv, NEW k \in Keys, Hit(k)
  PROVE  Abstract!Get(k)
  <1>1. /\ entries[k] # Nil /\ ~Expired(entries[k], clock)
        /\ UNCHANGED <<entries, clock, storing>>
        /\ served' = [key |-> k, at |-> clock, response |-> AgedResponse(entries[k], clock)]
    BY DEF Hit, GetHit
  <1>2. LiveEntries' = LiveEntries /\ LiveEntries[k] = entries[k]
    BY <1>1 DEF LiveEntries, Expired
  <1> QED
    BY ZenonT(40), <1>1, <1>2 DEF Abstract!Get, AgedResponse, decrementTTLs, DecrementRRs,
                      Abstract!decrementTTLs, Abstract!DecrementRRs

\* As time passes, what has expired is no longer live.
LEMMA PassRefines ==
  ASSUME IInv, Pass
  PROVE  Abstract!Tick
  <1>1. clock' = clock + 1 /\ UNCHANGED <<storing, served>>
    BY DEF Pass, Tick, history
  <1>2. clock \in Nat /\ \A k \in Keys : entries[k] # Nil => entries[k].expiresAt \in Nat
    BY DEF IInv, TypeOK, Entry
  <1>3. LiveEntries' = [k \in Keys |-> IF LiveEntries[k] # Nil /\ Abstract!Alive(LiveEntries[k], clock')
                                       THEN LiveEntries[k] ELSE Nil]
    BY ZenonT(40), <1>2, LiveTick DEF IInv, Pass, Abstract!Alive
  <1> QED
    BY <1>1, <1>3 DEF Abstract!Tick

\* Every step of the LRU is a step of the abstract cache or leaves it unchanged.
LEMMA StepRefines == IInv /\ IInv' /\ [Next]_vars => [Abstract!Next]_(Abstract!state)
  <1> SUFFICES ASSUME IInv, IInv', [Next]_vars PROVE [Abstract!Next]_(Abstract!state)
    OBVIOUS
  <1>1. ASSUME NEW c \in Callers, NEW k \in Keys, NEW m \in Messages,
               NEW ttl \in Lifetimes, Stamp(c, k, m, ttl)
        PROVE  Abstract!Next
    BY <1>1, StampRefines DEF Abstract!Next
  <1>2. ASSUME NEW c \in Callers, Replace(c) \/ Insert(c) PROVE Abstract!Next
    BY <1>2, StoreRefines DEF Abstract!Next
  <1>3. ASSUME NEW k \in Keys, Miss(k) \/ Expire(k) PROVE UNCHANGED Abstract!state
    BY <1>3, MissRefines
  <1>4. ASSUME NEW k \in Keys, Hit(k) PROVE Abstract!Next
    BY <1>4, HitRefines DEF Abstract!Next
  <1>5. CASE Pass
    BY <1>5, PassRefines DEF Abstract!Next
  <1>6. CASE UNCHANGED vars
    BY <1>6 DEF vars, cacheVars, history, Abstract!state, LiveEntries, Expired
  <1> QED
    BY <1>1, <1>2, <1>3, <1>4, <1>5, <1>6 DEF Next

\* lru.go implements AnswerCache, whatever the capacity and however many callers and
\* keys there are.
THEOREM LRUImplementsAnswerCache == Spec => ImplementsAnswerCache
  BY InitRefines, StepRefines, InductiveInvariant, PTL
     DEF Spec, ImplementsAnswerCache, Abstract!Spec

=============================================================================
