----------------------------- MODULE ChainProofs -----------------------------
(***************************************************************************)
(* The safety of the resolver chain, for every number of queries, every    *)
(* list of upstreams, every capacity and every setting of the cache.       *)
(*                                                                         *)
(* The inductive invariant says, for a query at each stage, which call it  *)
(* leads or follows (Coalesced), what its call has returned (Resulted),    *)
(* what it is about to return (Returned), what the cache holds (Stored)    *)
(* and what the matcher has said of it (Judged).                           *)
(***************************************************************************)
EXTENDS ResolverChain, WellFoundedInduction, TLAPS

\* The provers a leaf is tried with, in this order.
USE ZenonT(40), SMTT(30), Z3

-----------------------------------------------------------------------------
(***************************************************************************)
(* What computeTTL returns, for every message and every setting of the     *)
(* cache section: min_ttl above max_ttl and a negative one included.       *)
(***************************************************************************)

\* A set of naturals has a smallest element.
LEMMA SmallestNat ==
  ASSUME NEW T, T \subseteq Nat, T # {}
  PROVE  \E x \in T : \A y \in T : x <= y
<1>1. PICK x \in T : \A y \in T : ~(<<y, x>> \in OpToRel(<, Nat))
  BY NatLessThanWellFounded, WFMin
<1>2. \A y \in T : ~(y < x)
  BY ZenonT(40), <1>1 DEF OpToRel
<1>3. \A y \in T : x <= y
  BY <1>2
<1>4. QED
  BY <1>3

\* The records of a message, and with them their TTLs, are natural numbers.
LEMMA RecordTTLs ==
  ASSUME NEW m, {m.answer, m.ns, m.extra} \subseteq Seq(RR)
  PROVE  /\ RRs(m) \in Seq(RR)
         /\ TTLs(m) \subseteq Nat
         /\ \A i \in DOMAIN RRs(m) : RRs(m)[i].ttl \in TTLs(m)
<1>1. RRs(m) \in Seq(RR)
  BY DEF RRs
<1>2. \A i \in DOMAIN RRs(m) : RRs(m)[i] \in RR
  BY <1>1
<1>3. TTLs(m) \subseteq Nat
  BY <1>2 DEF TTLs, RR
<1>4. QED
  BY <1>1, <1>3 DEF TTLs

\* The minTTL of a message that has records is the least of their TTLs.
LEMMA MinTTLIsLeast ==
  ASSUME NEW m, {m.answer, m.ns, m.extra} \subseteq Seq(RR)
  PROVE  /\ minTTL(m) \in Nat
         /\ \A t \in TTLs(m) : minTTL(m) <= t
<1>1. CASE TTLs(m) = {}
  BY <1>1 DEF minTTL
<1>2. CASE TTLs(m) # {}
  <2>1. \E t \in TTLs(m) : \A u \in TTLs(m) : t <= u
    BY <1>2, SmallestNat, RecordTTLs
  <2>2. minTTL(m) \in TTLs(m) /\ \A u \in TTLs(m) : minTTL(m) <= u
    BY <1>2, <2>1 DEF minTTL
  <2>3. QED
    BY <2>2, RecordTTLs
<1>3. QED
  BY <1>1, <1>2

\* Seconds and ticks are ordered alike.
LEMMA ScaledOrder ==
  ASSUME NEW a \in Nat, NEW b \in Nat, a <= b
  PROVE  a * Second \in Nat /\ b * Second \in Nat /\ a * Second <= b * Second
<1>1. Second \in Nat
  BY SecondAssumption
<1>2. PICK d \in Nat : b = a + d
  <2>1. b - a \in Nat /\ b = a + (b - a)
    OBVIOUS
  <2>2. QED
    BY <2>1
<1>3. b * Second = a * Second + d * Second
  BY <1>1, <1>2
<1>4. a * Second \in Nat /\ d * Second \in Nat
  BY <1>1
<1>5. QED
  BY <1>3, <1>4

\* The lifetime of a negative answer is within negative_ttl_max.
LEMMA NegativeBound ==
  ASSUME NEW m, {m.answer, m.ns, m.extra} \subseteq Seq(RR), IsNegative(m)
  PROVE  computeTTL(m) \in Nat /\ computeTTL(m) <= NegativeTTLMax
<1>. USE TTLAssumption
<1>0. computeTTL(m) = NegativeTTL(m)
  BY DEF computeTTL
<1>1. CASE SOAs(m.ns) = {}
  BY <1>0, <1>1 DEF NegativeTTL
<1>2. CASE SOAs(m.ns) # {}
  <2>1. SOAs(m.ns) \subseteq Nat
    BY DEF SOAs
  <2>2. \E i \in SOAs(m.ns) : \A j \in SOAs(m.ns) : i <= j
    BY <1>2, <2>1, SmallestNat
  <2>3. PICK i \in SOAs(m.ns) : findSOA(m.ns) = m.ns[i]
    BY ZenonT(40), <2>2 DEF findSOA
  <2>4. m.ns[i] \in RR /\ m.ns[i].minttl # NotSOA
    BY <2>3 DEF SOAs
  <2>5. findSOA(m.ns).minttl \in Nat
    BY <2>3, <2>4 DEF RR
  <2>6. findSOA(m.ns).minttl * Second \in Nat
    <3>1. findSOA(m.ns).minttl <= findSOA(m.ns).minttl
      BY SMTT(30), Z3, <2>5
    <3>2. QED
      BY <2>5, <3>1, ScaledOrder
  <2>7. QED
    BY <1>0, <1>2, <2>6 DEF NegativeTTL, AtMost
<1>3. QED
  BY <1>1, <1>2

\* A positive answer that is cached has no record that runs out before it, unless
\* min_ttl keeps it longer.  The limits are applied in the order max_ttl, min_ttl.
LEMMA PositiveBound ==
  ASSUME NEW m, {m.answer, m.ns, m.extra} \subseteq Seq(RR), ~IsNegative(m)
  PROVE  /\ computeTTL(m) \in Int
         /\ computeTTL(m) > 0 =>
              \A i \in DOMAIN RRs(m) : computeTTL(m) <= AtLeast(RRs(m)[i].ttl * Second, MinTTL)
<1>. USE TTLAssumption
<1>0. computeTTL(m) = PositiveTTL(m)
  BY DEF computeTTL
<1>1. CASE minTTL(m) = 0
  BY <1>0, <1>1 DEF PositiveTTL
<1>2. CASE minTTL(m) # 0
  <2>. DEFINE least == minTTL(m) * Second
  <2>1. minTTL(m) \in Nat /\ least \in Nat
    <3>1. minTTL(m) \in Nat
      BY MinTTLIsLeast
    <3>2. minTTL(m) <= minTTL(m)
      BY SMTT(30), Z3, <3>1
    <3>3. QED
      BY <3>1, <3>2, ScaledOrder
  <2>2. PositiveTTL(m) = AtLeast(AtMost(least, MaxTTL), MinTTL)
    BY <1>2 DEF PositiveTTL
  <2>. HIDE DEF least
  <2>3. PositiveTTL(m) \in Int
    BY <2>1, <2>2 DEF AtLeast, AtMost
  <2>4. ASSUME NEW i \in DOMAIN RRs(m)
        PROVE  PositiveTTL(m) <= AtLeast(RRs(m)[i].ttl * Second, MinTTL)
    <3>. DEFINE ticks == RRs(m)[i].ttl * Second
    <3>1. RRs(m)[i].ttl \in Nat /\ minTTL(m) <= RRs(m)[i].ttl
      BY RecordTTLs, MinTTLIsLeast
    <3>2. ticks \in Nat /\ least <= ticks
      BY <2>1, <3>1, ScaledOrder DEF least
    <3>. HIDE DEF ticks
    <3>3. AtLeast(AtMost(least, MaxTTL), MinTTL) <= AtLeast(ticks, MinTTL)
      BY <2>1, <3>2 DEF AtLeast, AtMost
    <3>4. QED
      BY <2>2, <3>3 DEF ticks
  <2>5. QED
    BY <1>0, <2>3, <2>4
<1>3. QED
  BY <1>1, <1>2

-----------------------------------------------------------------------------
(***************************************************************************)
(* The inductive invariant.                                                *)
(***************************************************************************)

Early == {"idle", "block", "cache", "coalesce"}

AtUpstream == {"forward", "tcp", "doh", "land"}

Late == {"store", "finish", "done"}

\* The query whose call decides what q gets.
Leader(q) == IF call[q] = Nil THEN q ELSE call[q]

\* The entry of a call in flight stands for a query that is at the upstreams, and
\* a query is in a call of its own key.
Coalesced ==
  /\ \A q \in Callers :
       /\ pc[q] # "idle" => request[q] \in Requests
       /\ pc[q] \in {"cache", "coalesce"} => Single(q)
       /\ pc[q] \in Early => call[q] = Nil
       /\ pc[q] = "deliver" => call[q] # Nil
       /\ pc[q] \in AtUpstream /\ Single(q) => call[q] = q /\ flights[KeyOf(q)] = q
       /\ pc[q] \in AtUpstream /\ ~Single(q) => call[q] = Nil
       /\ call[q] # Nil => /\ Single(q) /\ Single(call[q]) /\ KeyOf(call[q]) = KeyOf(q)
                           /\ pc[call[q]] # "idle"
  /\ \A k \in Keys :
       flights[k] # Nil => /\ Single(flights[k]) /\ KeyOf(flights[k]) = k
                           /\ pc[flights[k]] # "idle"

\* The request of q carries another id only while DoHClient.Exchange has it.
Identified == \A q \in Callers : reqID[q] = IF pc[q] = "doh" THEN ZeroID ELSE q

\* A result is there from the end of the exchange on, answers the request of the
\* leader, and is an error only if nobody was left to ask.
ResultOf(q) ==
  /\ pc[q] \in Early \cup {"forward", "tcp", "doh", "wait"} => result[q] = Nil
  /\ pc[q] = "land" => result[q] # Nil
  /\ pc[q] = "deliver" => result[call[q]] # Nil
  /\ result[q] \in Msgs => AsksTheSame(result[q].question, request[q])
  /\ result[q] = Failed => attempt[q] = NumUpstreams \/ cancelled[q]

Resulted == \A q \in Callers : ResultOf(q)

Returned ==
  \A q \in Callers :
    pc[q] \in Late =>
      /\ ret[q] # Nil
      /\ ret[q] \in Msgs => /\ AsksTheSame(ret[q].question, request[q])
                            /\ Len(request[q]) = 1 => ret[q].id = q
      /\ ret[q] \in {Failed, Panicked} => result[Leader(q)] = ret[q]

\* An entry answers its key, and lives as long as computeTTL says.
Proper(e) ==
  /\ e.key \in Keys
  /\ e.response \in Msgs
  /\ AsksTheSame(e.response.question, <<e.key>>)
  /\ e.storedAt \in Nat /\ e.storedAt <= clock
  /\ e.expiresAt = e.storedAt + computeTTL(e.response)
  /\ computeTTL(e.response) > 0

Stored ==
  /\ clock \in Nat
  /\ storing = [q \in Callers |-> storing[q]]
  /\ entries = [k \in Keys |-> entries[k]]
  /\ \A q \in Callers : storing[q] # Nil => Proper(storing[q])
  /\ \A k \in Keys : entries[k] # Nil => Proper(entries[k]) /\ entries[k].key = k

Judged ==
  \A q \in Callers :
    /\ pc[q] \in Early => blocked[q] = FALSE
    /\ pc[q] = "block" /\ Single(q) => Blocks(matcher, q) \in verdicts[q]
    /\ pc[q] \notin {"idle", "block"} /\ Single(q) => blocked[q] \in verdicts[q]

ChainInv ==
  TypeOK /\ Coalesced /\ Identified /\ Resulted /\ Returned /\ Stored /\ Judged

-----------------------------------------------------------------------------

\* A query with one question has a key.
LEMMA SingleKey ==
  ASSUME TypeOK, NEW q \in Callers, Single(q)
  PROVE  /\ request[q] \in Requests
         /\ DOMAIN request[q] = {1}
         /\ KeyOf(q) \in Keys
<1>1. request[q] # << >>
  BY SMTT(30), Z3 DEF Single
<1>2. request[q] \in Requests
  BY <1>1 DEF TypeOK
<1>3. DOMAIN request[q] = 1 .. 1
  BY <1>2, ChainAssumption DEF Single
<1>4. DOMAIN request[q] = {1}
  BY SMTT(30), Z3, <1>3
<1>5. KeyOf(q) \in Keys
  BY <1>2, <1>4, ChainAssumption DEF KeyOf
<1>6. QED
  BY <1>2, <1>4, <1>5

\* The key of a query stands for its question.
LEMMA KeyAsks ==
  ASSUME TypeOK, NEW q \in Callers, Single(q), NEW qs \in Requests
  PROVE  AsksTheSame(qs, request[q]) <=> AsksTheSame(qs, <<KeyOf(q)>>)
<1>1. Len(request[q]) = 1 /\ Len(<<KeyOf(q)>>) = 1
  BY DEF Single
<1>2. Len(qs) = 1 => DOMAIN qs = {1}
  BY SMTT(30), Z3, ChainAssumption
<1>3. <<KeyOf(q)>>[1] = Key(request[q][1])
  BY DEF KeyOf
<1>4. QED
  BY SMTT(30), Z3, <1>1, <1>2, <1>3 DEF AsksTheSame, Key

\* What asks the same as a section is asked for by it, and by itself.
LEMMA AsksItself == ASSUME NEW qs PROVE AsksTheSame(qs, qs)
BY DEF AsksTheSame

\* Lower TTLs make no other message.
LEMMA DecrementedMsg ==
  ASSUME NEW m \in Msgs, NEW by \in Nat
  PROVE  /\ decrementTTLs(m, by) \in Msgs
         /\ decrementTTLs(m, by).id = m.id
         /\ decrementTTLs(m, by).question = m.question
<1>1. ASSUME NEW s \in Seq(RR)
      PROVE  DecrementRRs(s, by) \in Seq(RR)
  <2>1. Len(s) \in Nat /\ DOMAIN s = 1 .. Len(s) /\ \A i \in DOMAIN s : s[i] \in RR
    OBVIOUS
  <2>2. DecrementRRs(s, by) \in [1 .. Len(s) -> RR]
    BY SMTT(30), Z3, <2>1 DEF DecrementRRs, RR
  <2>3. QED
    BY SMTT(30), Z3, <2>1, <2>2
<1>. DEFINE m1 == [m EXCEPT !.answer = DecrementRRs(@, by)]
            m2 == [m1 EXCEPT !.ns = DecrementRRs(@, by)]
            m3 == [m2 EXCEPT !.extra = DecrementRRs(@, by)]
<1>2. m1 \in Msgs /\ m1.id = m.id /\ m1.question = m.question
  BY <1>1 DEF Msgs
<1>3. m2 \in Msgs /\ m2.id = m1.id /\ m2.question = m1.question
  <2>. HIDE DEF m1
  <2>. QED
    BY <1>1, <1>2 DEF Msgs
<1>4. m3 \in Msgs /\ m3.id = m2.id /\ m3.question = m2.question
  <2>. HIDE DEF m2
  <2>. QED
    BY <1>1, <1>3 DEF Msgs
<1>5. decrementTTLs(m, by) = m3
  BY DEF decrementTTLs
<1>6. QED
  BY <1>2, <1>3, <1>4, <1>5

\* What an upstream answers is a message with the id and the questions of the request.
LEMMA ResponseMsg ==
  ASSUME NEW id \in Callers \cup {ZeroID}, NEW qs \in Requests,
         NEW a \in Answers \cup {Empty("NXDOMAIN")}
  PROVE  /\ Response(id, qs, a) \in Msgs
         /\ Response(id, qs, a).id = id
         /\ Response(id, qs, a).question = qs
<1>1. {a.answer, a.ns, a.extra} \subseteq Seq(RR)
  <2>1. CASE a \in Answers
    BY <2>1, ChainAssumption
  <2>2. CASE a = Empty("NXDOMAIN")
    BY SMTT(30), Z3, <2>2 DEF Empty
  <2>3. QED
    BY <2>1, <2>2
<1>2. a.rcode \in {b.rcode : b \in Answers} \cup {"NXDOMAIN"}
  BY SMTT(30), Z3 DEF Empty
<1>3. QED
  BY <1>1, <1>2 DEF Response, Msgs

\* computeTTL of a message is an integer.
LEMMA LifetimeInt == ASSUME NEW m \in Msgs PROVE computeTTL(m) \in Int
<1>1. {m.answer, m.ns, m.extra} \subseteq Seq(RR)
  BY DEF Msgs
<1>2. QED
  BY SMTT(30), Z3, <1>1, NegativeBound, PositiveBound

-----------------------------------------------------------------------------
(***************************************************************************)
(* What a step does to the cache.                                          *)
(***************************************************************************)

\* A step that does not touch the cache.
LEMMA StoredSame ==
  ASSUME Stored, UNCHANGED cacheVars
  PROVE  Stored'
BY DEF Stored, Proper, cacheVars

\* A lookup keeps the entries or drops one.
LEMMA StoredLookup ==
  ASSUME Stored, NEW k \in Keys, GetHit(k) \/ GetMiss(k) \/ GetExpired(k)
  PROVE  Stored'
<1>1. UNCHANGED <<clock, storing>>
  BY DEF GetHit, GetMiss, GetExpired, cacheVars
<1>2. entries' = entries \/ entries' = [entries EXCEPT ![k] = Nil]
  BY DEF GetHit, GetMiss, GetExpired, cacheVars
<1>3. QED
  BY SMTT(30), Z3, <1>1, <1>2 DEF Stored, Proper

\* The second half of Store puts the entry under its key.
LEMMA StoredUnderLock ==
  ASSUME Stored, NEW q \in Callers, StoreReplace(q) \/ StoreInsert(q)
  PROVE  Stored'
<1>. DEFINE e == storing[q]
<1>1. /\ e # Nil /\ Proper(e)
      /\ clock' = clock
      /\ storing' = [storing EXCEPT ![q] = Nil]
  BY DEF Stored, StoreReplace, StoreInsert
<1>2. /\ entries' = [k \in Keys |-> entries'[k]]
      /\ \A k \in Keys : entries'[k] \in {Nil, entries[k]} \/ (k = e.key /\ entries'[k] = e)
  <2>0. e.key \in Keys /\ DOMAIN entries = Keys
    BY <1>1 DEF Stored, Proper
  <2>1. CASE StoreReplace(q)
    <3>1. entries' = [entries EXCEPT ![e.key] = e]
      BY <2>1 DEF StoreReplace
    <3>. HIDE DEF e
    <3>2. DOMAIN entries' = Keys
      BY <2>0, <3>1
    <3>3. entries' = [k \in Keys |-> entries'[k]]
      BY <2>0, <3>1, <3>2
    <3>4. \A k \in Keys : entries'[k] = IF k = e.key THEN e ELSE entries[k]
      BY <2>0, <3>1
    <3>5. QED
      BY <3>3, <3>4
  <2>2. CASE StoreInsert(q)
    <3>1. PICK removed : entries' = [k \in Keys |-> IF k \in removed THEN Nil
                                                  ELSE IF k = e.key THEN e
                                                  ELSE entries[k]]
      BY <2>2 DEF StoreInsert
    <3>. HIDE DEF e
    <3>2. entries' = [k \in Keys |-> entries'[k]]
      BY <3>1
    <3>3. \A k \in Keys : entries'[k] = IF k \in removed THEN Nil
                                          ELSE IF k = e.key THEN e ELSE entries[k]
      BY <3>1
    <3>4. QED
      BY <3>2, <3>3
  <2>3. QED
    BY <2>1, <2>2
<1>3. \A k \in Keys : entries'[k] # Nil => Proper(entries'[k]) /\ entries'[k].key = k
  BY <1>1, <1>2 DEF Stored
<1>4. QED
  BY <1>1, <1>2, <1>3 DEF Stored, Proper

\* The first half of Store: the copy of the response answers the key.
LEMMA StoredStamp ==
  ASSUME Stored, NEW q \in Callers, NEW k \in Keys, NEW m \in Msgs,
         AsksTheSame(m.question, <<k>>), computeTTL(m) > 0,
         StoreStamp(q, k, m, computeTTL(m))
  PROVE  Stored'
<1>. DEFINE e == [key |-> k, response |-> m, storedAt |-> clock,
                  expiresAt |-> clock + computeTTL(m)]
<1>1. Proper(e)
  BY SMTT(30), Z3 DEF Proper, Stored
<1>2. storing' = [storing EXCEPT ![q] = e] /\ UNCHANGED <<entries, clock>>
  BY DEF StoreStamp
<1>. HIDE DEF e
<1>3. QED
  BY <1>1, <1>2 DEF Stored, Proper

-----------------------------------------------------------------------------
(***************************************************************************)
(* A query goes on to its next stage: what has to be shown of it alone.    *)
(***************************************************************************)

\* The results are told apart.
LEMMA Distinct ==
  /\ Nil \notin Callers
  /\ Nil # Failed /\ Nil # Panicked /\ Failed # Panicked
  /\ Nil \notin Msgs /\ Failed \notin Msgs /\ Panicked \notin Msgs
BY ChainAssumption

\* A query that moves on stays in its call, or out of one.
LEMMA CoalescedMove ==
  ASSUME TypeOK, Coalesced, NEW q \in Callers, NEW s,
         pc' = [pc EXCEPT ![q] = s], UNCHANGED <<request, call, flights>>,
         pc[q] # "idle", s \notin Early \cup {"deliver"},
         s \in AtUpstream => pc[q] \in AtUpstream
  PROVE  Coalesced'
<1>1. \A p \in Callers : pc'[p] = IF p = q THEN s ELSE pc[p]
  BY DEF TypeOK
<1>2. call \in [Callers -> Callers \cup {Nil}] /\ flights \in [Keys -> Callers \cup {Nil}]
  BY DEF TypeOK
<1>3. s # "idle" /\ s # "cache" /\ s # "coalesce"
  BY DEF Early
<1>4. QED
  BY SMTT(30), Z3, <1>1, <1>2, <1>3 DEF Coalesced, Single, KeyOf

\* A query that arrives is in no call, and nobody is in one of its.
LEMMA CoalescedArrive ==
  ASSUME TypeOK, Coalesced, NEW q \in Callers, NEW qs \in Requests, pc[q] = "idle",
         pc' = [pc EXCEPT ![q] = "block"], request' = [request EXCEPT ![q] = qs],
         UNCHANGED <<call, flights>>
  PROVE  Coalesced'
<1>1. \A p \in Callers : /\ pc'[p] = IF p = q THEN "block" ELSE pc[p]
                         /\ request'[p] = IF p = q THEN qs ELSE request[p]
  BY DEF TypeOK
<1>2. call \in [Callers -> Callers \cup {Nil}] /\ flights \in [Keys -> Callers \cup {Nil}]
  BY DEF TypeOK
<1>3. QED
  BY SMTT(30), Z3, <1>1, <1>2, Distinct DEF Coalesced, Single, KeyOf, Early, AtUpstream

\* A query on its way to the coalesce stage is in no call.
LEMMA CoalescedOnward ==
  ASSUME TypeOK, Coalesced, NEW q \in Callers, NEW s \in {"cache", "coalesce", "forward"},
         pc' = [pc EXCEPT ![q] = s], UNCHANGED <<request, call, flights>>,
         pc[q] \in Early \ {"idle"}, s = "forward" <=> ~Single(q)
  PROVE  Coalesced'
<1>1. \A p \in Callers : pc'[p] = IF p = q THEN s ELSE pc[p]
  BY DEF TypeOK
<1>2. call \in [Callers -> Callers \cup {Nil}] /\ flights \in [Keys -> Callers \cup {Nil}]
  BY DEF TypeOK
<1>3. QED
  BY SMTT(30), Z3, <1>1, <1>2 DEF Coalesced, Single, KeyOf, Early, AtUpstream

\* A query joins the call of its key as its leader (it is l itself) or to wait.
LEMMA CoalescedJoin ==
  ASSUME TypeOK, Coalesced, NEW q \in Callers, NEW l \in Callers, NEW s \in {"forward", "wait"},
         pc[q] = "coalesce", pc' = [pc EXCEPT ![q] = s], call' = [call EXCEPT ![q] = l],
         \A k \in Keys : flights'[k] = IF k = KeyOf(q) THEN l ELSE flights[k],
         request' = request, s = "forward" => flights[KeyOf(q)] = Nil /\ l = q,
         Single(l), KeyOf(l) = KeyOf(q), KeyOf(q) \in Keys, pc[l] # "idle",
         s = "wait" => flights[KeyOf(q)] = l
  PROVE  Coalesced'
<1>1. \A p \in Callers : /\ pc'[p] = IF p = q THEN s ELSE pc[p]
                         /\ call'[p] = IF p = q THEN l ELSE call[p]
  BY DEF TypeOK
<1>2. call \in [Callers -> Callers \cup {Nil}] /\ flights \in [Keys -> Callers \cup {Nil}]
  BY DEF TypeOK
<1>3. \A p \in Callers : Single(p) => KeyOf(p) \in Keys
  BY SingleKey
<1>4. QED
  BY SMTT(30), Z3, <1>1, <1>2, <1>3, Distinct DEF Coalesced, Single, KeyOf, Early, AtUpstream

\* A query that moves on keeps its result.
LEMMA ResultedMove ==
  ASSUME TypeOK, Resulted, NEW q \in Callers, NEW s \in Late,
         pc' = [pc EXCEPT ![q] = s], UNCHANGED <<request, call, result, attempt, cancelled>>
  PROVE  Resulted'
<1>1. \A p \in Callers : pc'[p] = IF p = q THEN s ELSE pc[p]
  BY DEF TypeOK
<1>2. s \notin Early \cup {"forward", "tcp", "doh", "wait", "land", "deliver"}
  BY DEF Late, Early
<1>3. QED
  BY SMTT(30), Z3, <1>1, <1>2 DEF Resulted, ResultOf

\* A query on its way in has no result yet, whatever call it joins.
LEMMA ResultedOnward ==
  ASSUME TypeOK, Resulted, NEW q \in Callers, NEW s,
         pc' = [pc EXCEPT ![q] = s],
         {pc[q], s} \subseteq Early \cup {"forward", "tcp", "doh", "wait"},
         \A p \in Callers : p # q => call'[p] = call[p],
         UNCHANGED <<request, result, attempt, cancelled>>
  PROVE  Resulted'
<1>1. ASSUME NEW p \in Callers, p # q
      PROVE  ResultOf(p)'
  <2>1. ResultOf(p) /\ pc'[p] = pc[p] /\ call'[p] = call[p]
    BY <1>1 DEF Resulted, TypeOK
  <2>2. QED
    BY <2>1 DEF ResultOf
<1>2. ResultOf(q)'
  <2>1. ResultOf(q) /\ pc'[q] = s
    BY DEF Resulted, TypeOK
  <2>2. s # "land" /\ s # "deliver" /\ result[q] = Nil
    BY <2>1 DEF ResultOf, Early
  <2>3. QED
    BY <2>1, <2>2 DEF ResultOf
<1>3. QED
  BY <1>1, <1>2 DEF Resulted

\* A query on its way in has nothing to return yet.
LEMMA ReturnedOnward ==
  ASSUME TypeOK, Returned, NEW q \in Callers, NEW s,
         pc' = [pc EXCEPT ![q] = s], s \notin Late,
         \A p \in Callers : p # q => call'[p] = call[p],
         UNCHANGED <<request, result, ret>>
  PROVE  Returned'
<1>1. pc'[q] \notin Late
  BY DEF TypeOK
<1>2. \A p \in Callers : p # q => pc'[p] = pc[p] /\ Leader(p)' = Leader(p)
  BY DEF TypeOK, Leader
<1>3. QED
  BY <1>1, <1>2 DEF Returned

\* A query gets what its Resolve returns.
LEMMA ReturnedMove ==
  ASSUME TypeOK, Returned, NEW q \in Callers, NEW s, NEW v,
         pc' = [pc EXCEPT ![q] = s], UNCHANGED <<request, call, result>>,
         ret' = [ret EXCEPT ![q] = v],
         v # Nil,
         v \in Msgs => /\ AsksTheSame(v.question, request[q])
                       /\ Len(request[q]) = 1 => v.id = q,
         v \in {Failed, Panicked} => result[Leader(q)] = v
  PROVE  Returned'
<1>1. \A p \in Callers : pc'[p] = IF p = q THEN s ELSE pc[p]
  BY DEF TypeOK
<1>2. \A p \in Callers : ret'[p] = IF p = q THEN v ELSE ret[p]
  BY DEF TypeOK
<1>3. \A p \in Callers : Leader(p)' = Leader(p)
  BY DEF Leader
<1>4. QED
  BY SMTT(30), Z3, <1>1, <1>2, <1>3 DEF Returned

\* The verdict on a query that is past the blocklist stage stands.
LEMMA JudgedMove ==
  ASSUME TypeOK, Judged, NEW q \in Callers, NEW s,
         pc' = [pc EXCEPT ![q] = s], UNCHANGED <<request, blocked, matcher, verdicts>>,
         pc[q] \notin {"idle", "block"}, s \notin Early
  PROVE  Judged'
<1>1. \A p \in Callers : pc'[p] = IF p = q THEN s ELSE pc[p]
  BY DEF TypeOK
<1>2. s # "block"
  BY DEF Early
<1>3. QED
  BY <1>1, <1>2 DEF Judged, Single, Blocks

\* A step that moves no query leaves it in its call.
LEMMA CoalescedSame ==
  ASSUME Coalesced, UNCHANGED <<pc, request, call, flights>>
  PROVE  Coalesced'
BY DEF Coalesced, Single, KeyOf

\* A step that moves no query leaves the ids alone.
LEMMA IdentifiedSame ==
  ASSUME Identified, UNCHANGED <<pc, reqID>>
  PROVE  Identified'
BY DEF Identified

\* A step that moves no query leaves its result, if no context comes back to life.
LEMMA ResultedSame ==
  ASSUME Resulted, UNCHANGED <<pc, request, call, result, attempt>>,
         \A q \in Callers : cancelled[q] => cancelled'[q]
  PROVE  Resulted'
<1>1. ASSUME NEW q \in Callers
      PROVE  ResultOf(q)'
  <2>1. ResultOf(q)
    BY DEF Resulted
  <2>2. QED
    BY <2>1 DEF ResultOf
<1>2. QED
  BY <1>1 DEF Resulted

\* A step that moves no query leaves what it gets.
LEMMA ReturnedSame ==
  ASSUME Returned, UNCHANGED <<pc, request, call, result, ret>>
  PROVE  Returned'
<1>1. \A q \in Callers : Leader(q)' = Leader(q)
  BY DEF Leader
<1>2. QED
  BY <1>1 DEF Returned

\* A step that moves no query leaves the verdict on it.
LEMMA JudgedSame ==
  ASSUME Judged, UNCHANGED <<pc, request, blocked, matcher, verdicts>>
  PROVE  Judged'
BY DEF Judged, Single, Blocks

\* A counter goes up by one.
LEMMA CountType ==
  ASSUME counts \in [Counters -> Nat], NEW c \in Counters, Count(c) \/ UNCHANGED counts
  PROVE  counts' \in [Counters -> Nat]
BY SMTT(30), Z3 DEF Count

-----------------------------------------------------------------------------
(***************************************************************************)
(* One lemma per step of a query, in the order of the chain.               *)
(***************************************************************************)

\* A query arrives.
LEMMA ArriveInv ==
  ASSUME ChainInv, NEW q \in Callers, NEW qs \in Requests, Arrive(q, qs)
  PROVE  ChainInv'
<1>0. TypeOK /\ Coalesced /\ Identified /\ Resulted /\ Returned /\ Stored /\ Judged
  BY DEF ChainInv
<1>. USE Distinct DEF Arrive, Goto
<1>1. TypeOK'
  <2>1. verdicts' \in [Callers -> SUBSET BOOLEAN]
    <3>1. Match(matcher, qs[1].name) \in BOOLEAN
      BY DEF Match
    <3>2. QED
      BY <1>0, <3>1 DEF TypeOK
  <2>2. QED
    BY <1>0, <2>1 DEF TypeOK
<1>2. Coalesced'
  BY <1>0, CoalescedArrive
<1>3. Identified'
  BY <1>0 DEF Identified, TypeOK
<1>4. Resulted'
  BY SMTT(30), Z3, <1>0 DEF Resulted, ResultOf, TypeOK, Early
<1>5. Returned'
  BY <1>0 DEF Returned, TypeOK, Leader, Late
<1>6. Stored'
  BY <1>0, StoredSame
<1>7. Judged'
  BY <1>0 DEF Judged, TypeOK, Single, Blocks, Early
<1>. HIDE Distinct DEF Arrive, Goto
<1>8. QED
  BY <1>1, <1>2, <1>3, <1>4, <1>5, <1>6, <1>7 DEF ChainInv

\* The blocklist stage lets a query through.
LEMMA PassInv ==
  ASSUME ChainInv, NEW q \in Callers, PassUnkeyed(q) \/ PassUnblocked(q)
  PROVE  ChainInv'
<1>0. TypeOK /\ Coalesced /\ Identified /\ Resulted /\ Returned /\ Stored /\ Judged
  BY DEF ChainInv
<1>. USE Distinct DEF PassUnkeyed, PassUnblocked, Goto
<1>1. TypeOK'
  BY <1>0 DEF TypeOK
<1>2. Coalesced'
  BY <1>0, CoalescedOnward DEF Early
<1>3. Identified'
  BY <1>0 DEF Identified, TypeOK
<1>4. Resulted'
  BY <1>0, ResultedOnward DEF Early
<1>5. Returned'
  BY <1>0, ReturnedOnward DEF Late
<1>6. Stored'
  BY <1>0, StoredSame
<1>7. Judged'
  BY SMTT(30), Z3, <1>0 DEF Judged, TypeOK, Single, Blocks, Early
<1>. HIDE Distinct DEF PassUnkeyed, PassUnblocked, Goto
<1>8. QED
  BY <1>1, <1>2, <1>3, <1>4, <1>5, <1>6, <1>7 DEF ChainInv

\* A blocked query is answered at once.
LEMMA BlockInv ==
  ASSUME ChainInv, NEW q \in Callers, Block(q)
  PROVE  ChainInv'
<1>0. TypeOK /\ Coalesced /\ Identified /\ Resulted /\ Returned /\ Stored /\ Judged
  BY DEF ChainInv
<1>. USE Distinct DEF Block, Goto, Returns
<1>1. request[q] \in Requests /\ reqID[q] = q
  BY <1>0 DEF Coalesced, Identified
<1>. DEFINE m == Response(reqID[q], request[q], Empty("NXDOMAIN"))
<1>2. m \in Msgs /\ m.id = q /\ m.question = request[q]
  <2>1. m = Response(q, request[q], Empty("NXDOMAIN")) /\ request[q] \in Requests
    BY <1>1
  <2>. HIDE Distinct DEF Block, Goto, Returns, m
  <2>2. /\ Response(q, request[q], Empty("NXDOMAIN")) \in Msgs
        /\ Response(q, request[q], Empty("NXDOMAIN")).id = q
        /\ Response(q, request[q], Empty("NXDOMAIN")).question = request[q]
    BY SMTT(30), Z3, <2>1, ResponseMsg
  <2>3. QED
    BY <2>1, <2>2
<1>3. AsksTheSame(m.question, request[q])
  BY <1>2, AsksItself
<1>. HIDE DEF m
<1>4. TypeOK'
  BY <1>0, <1>2 DEF TypeOK, m
<1>5. Coalesced'
  BY <1>0, CoalescedMove DEF Early, AtUpstream
<1>6. Identified'
  BY <1>0 DEF Identified, TypeOK
<1>7. Resulted'
  BY <1>0, ResultedMove DEF Late
<1>8. Returned'
  BY <1>0, <1>2, <1>3 DEF Returned, TypeOK, Leader, Late, m
<1>9. Stored'
  BY <1>0, StoredSame
<1>10. Judged'
  BY <1>0 DEF Judged, TypeOK, Single, Blocks, Early
<1>. HIDE Distinct DEF Block, Goto, Returns
<1>11. QED
  BY <1>4, <1>5, <1>6, <1>7, <1>8, <1>9, <1>10 DEF ChainInv

\* A hit is the entry of the key, with the id of the query.
LEMMA HitInv ==
  ASSUME ChainInv, NEW q \in Callers, CacheHit(q)
  PROVE  ChainInv'
<1>0. TypeOK /\ Coalesced /\ Identified /\ Resulted /\ Returned /\ Stored /\ Judged
  BY DEF ChainInv
<1>1. /\ pc[q] = "cache" /\ pc' = [pc EXCEPT ![q] = "finish"]
      /\ UNCHANGED <<request, reqID, cancelled, blocked, upstream, attempt, call, result, flights,
                     matcher, swaps, verdicts>>
      /\ GetHit(KeyOf(q)) /\ Count("hit")
  BY DEF CacheHit, Lookup, Goto
<1>2. Single(q) /\ KeyOf(q) \in Keys /\ entries[KeyOf(q)] # Nil /\ reqID[q] = q
  BY <1>0, <1>1, SingleKey DEF Coalesced, Identified, GetHit
<1>. DEFINE e == entries[KeyOf(q)]
            age == (clock - e.storedAt) \div Second
            aged == decrementTTLs(e.response, age)
            m == [aged EXCEPT !.id = q]
<1>3. Proper(e) /\ e.key = KeyOf(q)
  BY <1>0, <1>2 DEF Stored
<1>4. age \in Nat
  <2>. DEFINE d == clock - e.storedAt
  <2>1. d \in Nat
    <3>1. clock \in Nat
      BY <1>0 DEF Stored
    <3>2. e.storedAt \in Nat /\ e.storedAt <= clock
      BY <1>3 DEF Proper
    <3>. HIDE DEF e
    <3>3. QED
      BY SMTT(30), Z3, <3>1, <3>2
  <2>2. Second \in Nat \ {0}
    BY SecondAssumption
  <2>. HIDE DEF d
  <2>3. d \div Second \in Nat
    BY SMTT(30), Z3, <2>1, <2>2
  <2>4. QED
    BY <2>3 DEF d
<1>5. ret' = [ret EXCEPT ![q] = m]
  BY <1>2 DEF CacheHit, Returns, AgedResponse
<1>. HIDE DEF age
<1>6. aged \in Msgs /\ aged.question = e.response.question
  BY <1>3, <1>4, DecrementedMsg DEF Proper
<1>. HIDE DEF aged
<1>7. m \in Msgs /\ m.id = q /\ m.question = e.response.question
  BY <1>6 DEF Msgs
<1>8. AsksTheSame(m.question, request[q])
  <2>1. e.response.question \in Requests
    BY <1>3 DEF Proper, Msgs
  <2>2. QED
    BY <1>0, <1>2, <1>3, <1>7, <2>1, KeyAsks DEF Proper
<1>. HIDE DEF m
<1>9. TypeOK'
  <2>1. counts' \in [Counters -> Nat]
    BY <1>0, <1>1, CountType DEF TypeOK, Counters
  <2>2. QED
    BY <1>0, <1>1, <1>5, <1>7, <2>1 DEF TypeOK
<1>10. Coalesced'
  BY <1>0, <1>1, CoalescedMove DEF Early, AtUpstream
<1>11. Identified'
  BY <1>0, <1>1 DEF Identified, TypeOK
<1>12. Resulted'
  BY <1>0, <1>1, ResultedMove DEF Late
<1>13. Returned'
  BY <1>0, <1>1, <1>5, <1>7, <1>8, ReturnedMove, Distinct
<1>14. Stored'
  BY <1>0, <1>1, <1>2, StoredLookup
<1>15. Judged'
  BY <1>0, <1>1, JudgedMove DEF Early
<1>16. QED
  BY <1>9, <1>10, <1>11, <1>12, <1>13, <1>14, <1>15 DEF ChainInv

\* A miss goes on to the coalesce stage.
LEMMA MissInv ==
  ASSUME ChainInv, NEW q \in Callers, CacheMiss(q)
  PROVE  ChainInv'
<1>0. TypeOK /\ Coalesced /\ Identified /\ Resulted /\ Returned /\ Stored /\ Judged
  BY DEF ChainInv
<1>. USE Distinct DEF CacheMiss, Lookup, Goto, Count
<1>1. TypeOK'
  BY SMTT(30), Z3, <1>0 DEF TypeOK, Counters
<1>2. Coalesced'
  <2>1. Single(q)
    BY <1>0 DEF Coalesced
  <2>2. QED
    BY <1>0, <2>1, CoalescedOnward DEF Early
<1>3. Identified'
  BY <1>0 DEF Identified, TypeOK
<1>4. Resulted'
  BY <1>0, ResultedOnward DEF Early
<1>5. Returned'
  BY <1>0 DEF Returned, TypeOK, Leader, Late
<1>6. Stored'
  <2>1. KeyOf(q) \in Keys
    BY <1>0, SingleKey DEF Coalesced
  <2>2. QED
    BY <1>0, <2>1, StoredLookup
<1>7. Judged'
  BY <1>0 DEF Judged, TypeOK, Single, Blocks, Early
<1>. HIDE Distinct DEF CacheMiss, Lookup, Goto, Count
<1>8. QED
  BY <1>1, <1>2, <1>3, <1>4, <1>5, <1>6, <1>7 DEF ChainInv

\* A query leads a call: its key was free.
LEMMA LeadInv ==
  ASSUME ChainInv, NEW q \in Callers, Lead(q)
  PROVE  ChainInv'
<1>0. TypeOK /\ Coalesced /\ Identified /\ Resulted /\ Returned /\ Stored /\ Judged
  BY DEF ChainInv
<1>. USE Distinct DEF Lead, Goto
<1>1. Single(q) /\ KeyOf(q) \in Keys
  BY <1>0, SingleKey DEF Coalesced
<1>2. TypeOK'
  BY <1>0, <1>1 DEF TypeOK
<1>3. Coalesced'
  <2>1. \A k \in Keys : flights'[k] = IF k = KeyOf(q) THEN q ELSE flights[k]
    BY <1>0 DEF TypeOK
  <2>2. QED
    BY <1>0, <1>1, <2>1, CoalescedJoin
<1>4. Identified'
  BY <1>0 DEF Identified, TypeOK
<1>5. Resulted'
  <2>1. \A p \in Callers : p # q => call'[p] = call[p]
    BY <1>0 DEF TypeOK
  <2>2. QED
    BY <1>0, <2>1, ResultedOnward DEF Early
<1>6. Returned'
  <2>1. \A p \in Callers : p # q => call'[p] = call[p]
    BY <1>0 DEF TypeOK
  <2>2. QED
    BY <1>0, <2>1, ReturnedOnward DEF Late
<1>7. Stored'
  BY <1>0, StoredSame
<1>8. Judged'
  BY <1>0 DEF Judged, TypeOK, Single, Blocks, Early
<1>. HIDE Distinct DEF Lead, Goto
<1>9. QED
  BY <1>2, <1>3, <1>4, <1>5, <1>6, <1>7, <1>8 DEF ChainInv

\* A query follows the call of its key.
LEMMA FollowInv ==
  ASSUME ChainInv, NEW q \in Callers, Follow(q)
  PROVE  ChainInv'
<1>0. TypeOK /\ Coalesced /\ Identified /\ Resulted /\ Returned /\ Stored /\ Judged
  BY DEF ChainInv
<1>. USE Distinct DEF Follow, Goto
<1>1. Single(q) /\ KeyOf(q) \in Keys /\ flights[KeyOf(q)] \in Callers
  <2>1. Single(q) /\ KeyOf(q) \in Keys
    BY <1>0, SingleKey DEF Coalesced
  <2>2. flights[KeyOf(q)] \in Callers \cup {Nil} /\ flights[KeyOf(q)] # Nil
    BY <1>0, <2>1 DEF TypeOK
  <2>3. QED
    BY <2>1, <2>2
<1>2. TypeOK'
  BY <1>0, <1>1 DEF TypeOK
<1>3. Coalesced'
  <2>1. \A k \in Keys : flights'[k] = IF k = KeyOf(q) THEN flights[KeyOf(q)] ELSE flights[k]
    OBVIOUS
  <2>2. LET l == flights[KeyOf(q)] IN Single(l) /\ KeyOf(l) = KeyOf(q) /\ pc[l] # "idle"
    BY <1>0, <1>1 DEF Coalesced
  <2>3. QED
    BY <1>0, <1>1, <2>1, <2>2, CoalescedJoin
<1>4. Identified'
  BY <1>0 DEF Identified, TypeOK
<1>5. Resulted'
  <2>1. \A p \in Callers : p # q => call'[p] = call[p]
    BY <1>0 DEF TypeOK
  <2>2. QED
    BY <1>0, <2>1, ResultedOnward DEF Early
<1>6. Returned'
  <2>1. \A p \in Callers : p # q => call'[p] = call[p]
    BY <1>0 DEF TypeOK
  <2>2. QED
    BY <1>0, <2>1, ReturnedOnward DEF Late
<1>7. Stored'
  BY <1>0, StoredSame
<1>8. Judged'
  BY <1>0 DEF Judged, TypeOK, Single, Blocks, Early
<1>. HIDE Distinct DEF Follow, Goto
<1>9. QED
  BY <1>2, <1>3, <1>4, <1>5, <1>6, <1>7, <1>8 DEF ChainInv

\* The request goes out over TCP or HTTPS.
LEMMA AskInv ==
  ASSUME ChainInv, NEW q \in Callers, Truncated(q) \/ PostDoH(q)
  PROVE  ChainInv'
<1>0. TypeOK /\ Coalesced /\ Identified /\ Resulted /\ Returned /\ Stored /\ Judged
  BY DEF ChainInv
<1>. USE Distinct DEF Truncated, PostDoH, Forwarding, Goto
<1>1. TypeOK'
  BY <1>0 DEF TypeOK
<1>2. Coalesced'
  <2>1. pc[q] = "forward" /\ pc' \in {[pc EXCEPT ![q] = s] : s \in {"tcp", "doh"}}
    OBVIOUS
  <2>2. QED
    BY <1>0, <2>1, CoalescedMove DEF Early, AtUpstream
<1>3. Identified'
  BY SMTT(30), Z3, <1>0 DEF Identified, TypeOK
<1>4. Resulted'
  BY <1>0, ResultedOnward DEF Early
<1>5. Returned'
  BY <1>0, ReturnedOnward DEF Late
<1>6. Stored'
  BY <1>0, StoredSame
<1>7. Judged'
  BY <1>0, JudgedMove DEF Early
<1>. HIDE Distinct DEF Truncated, PostDoH, Forwarding, Goto
<1>8. QED
  BY <1>1, <1>2, <1>3, <1>4, <1>5, <1>6, <1>7 DEF ChainInv

\* What the forward stage gets to its end: r is the result of the call of q.
LEMMA EndInv ==
  ASSUME ChainInv, NEW q \in Callers, Asking(q), NEW r \in Msgs \cup {Failed, Panicked},
         pc' = [pc EXCEPT ![q] = "land"], result' = [result EXCEPT ![q] = r],
         reqID' = [reqID EXCEPT ![q] = q],
         r \in Msgs => AsksTheSame(r.question, request[q]),
         r = Failed => attempt[q] = NumUpstreams \/ cancelled[q],
         upstream' \in [Callers -> 0 .. NumUpstreams], counts' \in [Counters -> Nat],
         UNCHANGED <<cacheVars, request, cancelled, blocked, attempt, call, ret, flights,
                     matcher, swaps, verdicts>>
  PROVE  ChainInv'
<1>0. TypeOK /\ Coalesced /\ Identified /\ Resulted /\ Returned /\ Stored /\ Judged
  BY DEF ChainInv
<1>1. pc[q] \in {"forward", "tcp", "doh"}
  BY DEF Asking, Forwarding
<1>2. result[q] = Nil
  BY <1>0, <1>1 DEF Resulted, ResultOf
<1>3. TypeOK'
  BY <1>0 DEF TypeOK
<1>4. Coalesced'
  BY <1>0, <1>1, CoalescedMove DEF Early, AtUpstream
<1>5. Identified'
  BY <1>0 DEF Identified, TypeOK
<1>6. Resulted'
  <2>1. /\ \A p \in Callers : pc'[p] = IF p = q THEN "land" ELSE pc[p]
        /\ \A p \in Callers : result'[p] = IF p = q THEN r ELSE result[p]
    BY <1>0 DEF TypeOK
  <2>2. \A p \in Callers : pc[p] = "deliver" => call[p] \in Callers
    BY <1>0 DEF Coalesced, TypeOK
  <2>3. ResultOf(q)'
    <3>1. pc'[q] = "land" /\ result'[q] = r /\ r # Nil
      BY <2>1, Distinct
    <3>2. QED
      BY <3>1 DEF ResultOf, Early
  <2>4. ASSUME NEW p \in Callers, p # q
        PROVE  ResultOf(p)'
    <3>1. ResultOf(p)
      BY <1>0 DEF Resulted
    <3>2. pc'[p] = pc[p] /\ result'[p] = result[p]
      BY <2>1, <2>4
    <3>3. pc[p] = "deliver" => result'[call[p]] = result[call[p]]
      BY <1>2, <2>1, <2>2, <3>1 DEF ResultOf
    <3>4. QED
      BY <3>1, <3>2, <3>3 DEF ResultOf
  <2>5. QED
    BY <2>3, <2>4 DEF Resulted
<1>7. Returned'
  <2>1. \A p \in Callers : pc'[p] \in Late => pc[p] \in Late /\ p # q
    BY <1>0 DEF TypeOK, Late
  <2>2. \A p \in Callers : Leader(p)' = Leader(p) /\ Leader(p) \in Callers
    BY <1>0 DEF Leader, TypeOK
  <2>3. \A p \in Callers : p # q => result'[p] = result[p]
    BY <1>0 DEF TypeOK
  <2>4. QED
    <3>1. ASSUME NEW p \in Callers, pc[p] \in Late, ret[p] \in {Failed, Panicked}
          PROVE  result'[Leader(p)'] = ret[p]
      <4>1. result[Leader(p)] = ret[p]
        BY <1>0, <3>1 DEF Returned
      <4>2. Leader(p) # q
        BY <1>2, <3>1, <4>1, Distinct
      <4>3. QED
        BY <2>2, <2>3, <4>1, <4>2
    <3>2. QED
      BY <1>0, <2>1, <3>1 DEF Returned
<1>8. Stored'
  BY <1>0, StoredSame
<1>9. Judged'
  BY <1>0, <1>1, JudgedMove DEF Early
<1>10. QED
  BY <1>3, <1>4, <1>5, <1>6, <1>7, <1>8, <1>9 DEF ChainInv

\* What is read is a response to the question that was sent.
LEMMA AnswerIsMsg ==
  ASSUME ChainInv, NEW q \in Callers, NEW m \in Received(q), AttemptAnswers(q, m)
  PROVE  m \in Msgs /\ m.question = request[q]
<1>0. TypeOK /\ Coalesced
  BY DEF ChainInv
<1>1. request[q] \in Requests
  BY <1>0 DEF AttemptAnswers, Asking, Forwarding, Coalesced
<1>2. PICK id \in Callers \cup {ZeroID}, a \in Answers, age \in Ages \cup {0} :
        \/ m = decrementTTLs(Response(id, request[q], a), age)
        \/ m = Response(id, request[q], a)
  <2>1. CASE pc[q] = "doh"
    BY <2>1 DEF Received, AgedDoH
  <2>2. CASE pc[q] # "doh"
    <3>1. PICK id \in SentIDs(q), a \in Answers : m = Response(id, request[q], a)
      BY SMTT(30), Z3, <2>2 DEF Received
    <3>2. id \in Callers \cup {ZeroID}
      BY <1>0, <3>1 DEF SentIDs, TypeOK
    <3>3. QED
      BY <3>1, <3>2
  <2>3. QED
    BY <2>1, <2>2
<1>3. age \in Nat
  BY ChainAssumption
<1>4. Response(id, request[q], a) \in Msgs /\ Response(id, request[q], a).question = request[q]
  <2>1. a \in Answers \cup {Empty("NXDOMAIN")}
    OBVIOUS
  <2>2. QED
    BY SMTT(30), Z3, <1>1, <2>1, ResponseMsg
<1>5. QED
  BY <1>2, <1>3, <1>4, DecrementedMsg

\* An upstream has answered.
LEMMA AnswerInv ==
  ASSUME ChainInv, NEW q \in Callers, NEW m \in Received(q), AttemptAnswers(q, m)
  PROVE  ChainInv'
<1>0. TypeOK /\ Coalesced /\ Identified
  BY DEF ChainInv
<1>1. pc[q] \in {"forward", "tcp", "doh"} /\ request[q] \in Requests
  BY <1>0 DEF AttemptAnswers, Asking, Forwarding, Coalesced
<1>2. m \in Msgs /\ m.question = request[q]
  BY AnswerIsMsg
<1>3. AsksTheSame(m.question, request[q])
  BY <1>2, AsksItself
<1>4. counts' \in [Counters -> Nat]
  BY <1>0, CountType DEF AttemptAnswers, TypeOK, Counters
<1>5. upstream' \in [Callers -> 0 .. NumUpstreams]
  <2>1. NumUpstreams \in Nat
    BY SMTT(30), Z3, ChainAssumption DEF NumUpstreams
  <2>2. attempt[q] \in 0 .. NumUpstreams
    BY SMTT(30), Z3, <1>0, <2>1 DEF TypeOK
  <2>3. QED
    BY <1>0, <2>2 DEF AttemptAnswers, MarkUpstream, TypeOK
<1>6. QED
  BY <1>2, <1>3, <1>4, <1>5, EndInv, Distinct DEF AttemptAnswers, RestoreID, Goto

\* A panic in the forward stage is a result, too.
LEMMA PanicInv ==
  ASSUME ChainInv, NEW q \in Callers, AttemptPanics(q)
  PROVE  ChainInv'
<1>1. counts' \in [Counters -> Nat] /\ upstream' \in [Callers -> 0 .. NumUpstreams]
  BY DEF ChainInv, TypeOK, AttemptPanics
<1>2. QED
  BY <1>1, EndInv, Distinct DEF AttemptPanics, RestoreID, Goto

\* An upstream has failed: the next one, or an error.
LEMMA FailInv ==
  ASSUME ChainInv, NEW q \in Callers, AttemptFails(q)
  PROVE  ChainInv'
<1>0. TypeOK /\ Coalesced /\ Identified /\ Resulted /\ Returned /\ Stored /\ Judged
  BY DEF ChainInv
<1>. DEFINE giveUp == attempt[q] = NumUpstreams \/ cancelled[q]
<1>1. /\ Asking(q) /\ reqID' = [reqID EXCEPT ![q] = q] /\ Count("failed")
      /\ UNCHANGED <<cacheVars, request, cancelled, blocked, upstream, call, ret, flights,
                     matcher, swaps, verdicts>>
  BY DEF AttemptFails, AfterError, RestoreID
<1>2. counts' \in [Counters -> Nat] /\ upstream' \in [Callers -> 0 .. NumUpstreams]
  BY <1>0, <1>1, CountType DEF TypeOK, Counters
<1>3. CASE giveUp
  <2>1. /\ result' = [result EXCEPT ![q] = Failed]
        /\ pc' = [pc EXCEPT ![q] = "land"]
        /\ UNCHANGED attempt
    BY <1>3 DEF AttemptFails, AfterError, Goto
  <2>2. QED
    BY <1>1, <1>2, <1>3, <2>1, EndInv, Distinct
<1>4. CASE ~giveUp
  <2>1. /\ attempt' = [attempt EXCEPT ![q] = attempt[q] + 1]
        /\ pc' = [pc EXCEPT ![q] = "forward"]
        /\ UNCHANGED result
    BY <1>4 DEF AttemptFails, AfterError, Goto
  <2>2. pc[q] \in {"forward", "tcp", "doh"} /\ result[q] = Nil
    BY <1>0, <1>1 DEF Asking, Forwarding, Resulted, ResultOf
  <2>3. attempt' \in [Callers -> 1 .. NumUpstreams]
    <3>1. NumUpstreams \in Nat
      BY SMTT(30), Z3, ChainAssumption DEF NumUpstreams
    <3>2. attempt[q] + 1 \in 1 .. NumUpstreams
      BY SMTT(30), Z3, <1>0, <1>4, <3>1 DEF TypeOK
    <3>3. QED
      BY <1>0, <2>1, <3>2 DEF TypeOK
  <2>4. TypeOK'
    BY <1>0, <1>1, <1>2, <2>1, <2>3 DEF TypeOK
  <2>5. Coalesced'
    BY <1>0, <1>1, <2>1, <2>2, CoalescedMove DEF Early, AtUpstream
  <2>6. Identified'
    BY <1>0, <1>1, <2>1 DEF Identified, TypeOK
  <2>7. Resulted'
    <3>1. /\ \A p \in Callers : pc'[p] = IF p = q THEN "forward" ELSE pc[p]
          /\ \A p \in Callers : p # q => attempt'[p] = attempt[p]
      BY <1>0, <2>1 DEF TypeOK
    <3>2. ResultOf(q)'
      <4>1. pc'[q] = "forward" /\ result'[q] = Nil
        BY <2>1, <2>2, <3>1
      <4>2. QED
        BY <4>1, Distinct DEF ResultOf, Early
    <3>3. ASSUME NEW p \in Callers, p # q
          PROVE  ResultOf(p)'
      <4>1. ResultOf(p)
        BY <1>0 DEF Resulted
      <4>2. pc'[p] = pc[p] /\ attempt'[p] = attempt[p]
        BY <3>1, <3>3
      <4>3. QED
        BY <1>1, <2>1, <4>1, <4>2 DEF ResultOf
    <3>4. QED
      BY <3>2, <3>3 DEF Resulted
  <2>8. Returned'
    BY <1>0, <1>1, <2>1 DEF Returned, TypeOK, Leader, Late
  <2>9. Stored'
    BY <1>0, <1>1, StoredSame
  <2>10. Judged'
    BY <1>0, <1>1, <2>1, <2>2, JudgedMove DEF Early
  <2>11. QED
    BY <2>4, <2>5, <2>6, <2>7, <2>8, <2>9, <2>10 DEF ChainInv
<1>5. QED
  BY <1>3, <1>4

\* A call ends, and its key with it.
LEMMA LandInv ==
  ASSUME ChainInv, NEW q \in Callers, Land(q)
  PROVE  ChainInv'
<1>0. TypeOK /\ Coalesced /\ Identified /\ Resulted /\ Returned /\ Stored /\ Judged
  BY DEF ChainInv
<1>1. /\ pc[q] = "land" /\ call[q] = q
      /\ flights' = [flights EXCEPT ![KeyOf(q)] = Nil]
      /\ pc' = [p \in Callers |-> IF call[p] = q THEN "deliver" ELSE pc[p]]
      /\ UNCHANGED <<cacheVars, request, reqID, cancelled, blocked, upstream, attempt, call,
                     result, ret, matcher, swaps, counts, verdicts>>
  BY DEF Land
<1>2. Single(q) /\ flights[KeyOf(q)] = q /\ result[q] # Nil
  <2>1. Single(q) /\ flights[KeyOf(q)] = q
    BY <1>0, <1>1, Distinct DEF Coalesced, AtUpstream
  <2>2. result[q] # Nil
    BY <1>0, <1>1 DEF Resulted, ResultOf
  <2>3. QED
    BY <2>1, <2>2
<1>3. KeyOf(q) \in Keys
  BY <1>0, <1>2, SingleKey
<1>4. \A p \in Callers : pc'[p] = IF call[p] = q THEN "deliver" ELSE pc[p]
  BY <1>1
<1>5. \A p \in Callers : call[p] = q /\ pc[p] \in AtUpstream => p = q
  BY <1>0, Distinct DEF Coalesced
<1>6. TypeOK'
  BY <1>0, <1>1 DEF TypeOK
<1>7. Coalesced'
  <2>1. \A k \in Keys : flights'[k] = IF k = KeyOf(q) THEN Nil ELSE flights[k]
    BY <1>0, <1>1 DEF TypeOK
  <2>2. \A p \in Callers : pc'[p] \in AtUpstream => pc'[p] = pc[p] /\ p # q
    BY <1>1, <1>4 DEF AtUpstream
  <2>3. ASSUME NEW p \in Callers, pc'[p] \in AtUpstream, Single(p)
        PROVE  call[p] = p /\ flights'[KeyOf(p)] = p
    <3>1. call[p] = p /\ flights[KeyOf(p)] = p /\ p # q
      BY <1>0, <2>2, <2>3 DEF Coalesced
    <3>2. KeyOf(p) \in Keys
      BY <1>0, <2>3, SingleKey
    <3>3. QED
      BY <1>2, <2>1, <3>1, <3>2
  <2>4. \A p \in Callers : Single(p)' = Single(p) /\ KeyOf(p)' = KeyOf(p)
    BY <1>1 DEF Single, KeyOf
  <2>5. call \in [Callers -> Callers \cup {Nil}] /\ flights \in [Keys -> Callers \cup {Nil}]
    BY <1>0 DEF TypeOK
  <2>6. \A p \in Callers : pc[p] # "idle" => pc'[p] # "idle"
    BY <1>4
  <2>7. \A p \in Callers : /\ pc'[p] # "idle" => request[p] \in Requests
                           /\ pc'[p] \in {"cache", "coalesce"} => Single(p)
                           /\ pc'[p] \in Early => call[p] = Nil
                           /\ pc'[p] = "deliver" => call[p] # Nil
                           /\ pc'[p] \in AtUpstream /\ ~Single(p) => call[p] = Nil
    <3>. SUFFICES ASSUME NEW p \in Callers
                  PROVE  /\ pc'[p] # "idle" => request[p] \in Requests
                         /\ pc'[p] \in {"cache", "coalesce"} => Single(p)
                         /\ pc'[p] \in Early => call[p] = Nil
                         /\ pc'[p] = "deliver" => call[p] # Nil
                         /\ pc'[p] \in AtUpstream /\ ~Single(p) => call[p] = Nil
      OBVIOUS
    <3>1. CASE call[p] = q
      <4>1. pc'[p] = "deliver" /\ Single(p) /\ call[p] # Nil
        BY <1>0, <1>4, <3>1, Distinct DEF Coalesced
      <4>2. request[p] \in Requests
        BY <1>0, <4>1, SingleKey
      <4>3. QED
        BY <4>1, <4>2 DEF Early
    <3>2. CASE call[p] # q
      BY <1>0, <1>4, <3>2 DEF Coalesced
    <3>3. QED
      BY <3>1, <3>2
  <2>8. \A p \in Callers : call[p] # Nil =>
          /\ Single(p) /\ Single(call[p]) /\ KeyOf(call[p]) = KeyOf(p)
          /\ pc'[call[p]] # "idle"
    <3>. SUFFICES ASSUME NEW p \in Callers, call[p] # Nil
                  PROVE  /\ Single(p) /\ Single(call[p]) /\ KeyOf(call[p]) = KeyOf(p)
                         /\ pc'[call[p]] # "idle"
      OBVIOUS
    <3>1. call[p] \in Callers
      BY <2>5
    <3>2. Single(p) /\ Single(call[p]) /\ KeyOf(call[p]) = KeyOf(p) /\ pc[call[p]] # "idle"
      BY <1>0 DEF Coalesced
    <3>3. QED
      BY <2>6, <3>1, <3>2
  <2>9. \A k \in Keys : flights'[k] # Nil =>
          /\ Single(flights'[k]) /\ KeyOf(flights'[k]) = k
          /\ pc'[flights'[k]] # "idle" /\ flights'[k] \in Callers
    <3>. SUFFICES ASSUME NEW k \in Keys, flights'[k] # Nil
                  PROVE  /\ Single(flights'[k]) /\ KeyOf(flights'[k]) = k
                         /\ pc'[flights'[k]] # "idle" /\ flights'[k] \in Callers
      OBVIOUS
    <3>1. flights'[k] = flights[k] /\ flights[k] # Nil
      BY <2>1
    <3>2. flights[k] \in Callers
      BY <2>5, <3>1
    <3>3. Single(flights[k]) /\ KeyOf(flights[k]) = k /\ pc[flights[k]] # "idle"
      BY <1>0, <3>1 DEF Coalesced
    <3>4. QED
      BY <2>6, <3>1, <3>2, <3>3
  <2>10. \A p \in Callers : /\ pc'[p] \in AtUpstream /\ Single(p) =>
                                 call[p] = p /\ flights'[KeyOf(p)] = p
                            /\ call[p] # Nil => call[p] \in Callers
    BY <2>3, <2>5
  <2>. HIDE DEF Single, KeyOf
  <2>11. (\A p \in Callers :
       /\ pc[p] # "idle" => request[p] \in Requests
       /\ pc[p] \in {"cache", "coalesce"} => Single(p)
       /\ pc[p] \in Early => call[p] = Nil
       /\ pc[p] = "deliver" => call[p] # Nil
       /\ pc[p] \in AtUpstream /\ ~Single(p) => call[p] = Nil)'
    BY <1>1, <2>4, <2>7
  <2>12. (\A p \in Callers :
       /\ pc[p] \in AtUpstream /\ Single(p) => call[p] = p /\ flights[KeyOf(p)] = p
       /\ call[p] # Nil => /\ Single(p) /\ Single(call[p]) /\ KeyOf(call[p]) = KeyOf(p)
                           /\ pc[call[p]] # "idle")'
    <3>. SUFFICES ASSUME NEW p \in Callers
                  PROVE  (/\ pc[p] \in AtUpstream /\ Single(p) => call[p] = p /\ flights[KeyOf(p)] = p
                          /\ call[p] # Nil => /\ Single(p) /\ Single(call[p])
                                              /\ KeyOf(call[p]) = KeyOf(p)
                                              /\ pc[call[p]] # "idle")'
      OBVIOUS
    <3>1. call'[p] = call[p] /\ (call[p] # Nil => call[p] \in Callers)
      BY <1>1, <2>5
    <3>2. Single(p)' = Single(p) /\ KeyOf(p)' = KeyOf(p)
      BY <2>4
    <3>3. call[p] # Nil => Single(call[p])' = Single(call[p]) /\ KeyOf(call[p])' = KeyOf(call[p])
      BY <2>4, <3>1
    <3>4. call' = call
      BY <1>1
    <3>5. QED
      BY <2>8, <2>10, <3>2, <3>3, <3>4 DEF Single, KeyOf
  <2>13. (\A k \in Keys :
       flights[k] # Nil => /\ Single(flights[k]) /\ KeyOf(flights[k]) = k
                           /\ pc[flights[k]] # "idle")'
    BY <2>4, <2>9
  <2>14. QED
    BY <2>11, <2>12, <2>13 DEF Coalesced
<1>8. Identified'
  <2>1. \A p \in Callers : call[p] = q => pc[p] # "doh"
    BY <1>1, <1>5 DEF AtUpstream
  <2>2. QED
    BY <1>0, <1>1, <1>4, <2>1 DEF Identified
<1>9. Resulted'
  <2>. SUFFICES ASSUME NEW p \in Callers PROVE ResultOf(p)'
    BY DEF Resulted
  <2>1. ResultOf(p)
    BY <1>0 DEF Resulted
  <2>2. CASE call[p] = q
    BY <1>1, <1>2, <1>4, <2>1, <2>2 DEF ResultOf, Early
  <2>3. CASE call[p] # q
    <3>1. pc'[p] = pc[p]
      BY <1>4, <2>3
    <3>2. QED
      BY <1>1, <2>1, <3>1 DEF ResultOf
  <2>4. QED
    BY <2>2, <2>3
<1>10. Returned'
  <2>1. \A p \in Callers : Leader(p)' = Leader(p)
    BY <1>1 DEF Leader
  <2>2. QED
    BY <1>0, <1>1, <1>4, <2>1 DEF Returned, Late
<1>11. Stored'
  BY <1>0, <1>1, StoredSame
<1>12. Judged'
  <2>1. \A p \in Callers : call[p] = q => pc[p] \notin {"idle", "block"}
    BY <1>0, Distinct DEF Coalesced, Early
  <2>2. QED
    BY <1>0, <1>1, <1>4, <2>1 DEF Judged, Single, Blocks, Early
<1>13. QED
  BY <1>6, <1>7, <1>8, <1>9, <1>10, <1>11, <1>12 DEF ChainInv

\* A query is out of its call, or was in none, with a value to return.
LEMMA OutInv ==
  ASSUME ChainInv, NEW q \in Callers, NEW s \in {"store", "finish"},
         pc[q] \in {"land", "deliver"}, pc' = [pc EXCEPT ![q] = s],
         NEW v \in Msgs \cup {Failed, Panicked}, ret' = [ret EXCEPT ![q] = v],
         v \in Msgs => /\ AsksTheSame(v.question, request[q])
                       /\ Len(request[q]) = 1 => v.id = q,
         v \in {Failed, Panicked} => result[Leader(q)] = v,
         counts' \in [Counters -> Nat], Stored',
         UNCHANGED <<request, reqID, cancelled, blocked, upstream, attempt, call, result,
                     flights, matcher, swaps, verdicts>>
  PROVE  ChainInv'
<1>0. TypeOK /\ Coalesced /\ Identified /\ Resulted /\ Returned /\ Judged
  BY DEF ChainInv
<1>1. TypeOK'
  BY <1>0 DEF TypeOK
<1>2. Coalesced'
  BY <1>0, CoalescedMove DEF Early, AtUpstream
<1>3. Identified'
  BY <1>0 DEF Identified, TypeOK
<1>4. Resulted'
  BY <1>0, ResultedMove DEF Late
<1>5. Returned'
  BY <1>0, ReturnedMove, Distinct
<1>6. Judged'
  BY <1>0, JudgedMove DEF Early
<1>7. QED
  BY <1>1, <1>2, <1>3, <1>4, <1>5, <1>6 DEF ChainInv

\* What was not coalesced is returned as it is.
LEMMA LandUncoalescedInv ==
  ASSUME ChainInv, NEW q \in Callers, LandUncoalesced(q)
  PROVE  ChainInv'
<1>0. TypeOK /\ Coalesced /\ Resulted /\ Stored
  BY DEF ChainInv
<1>1. /\ pc[q] = "land" /\ call[q] = Nil
      /\ pc' = [pc EXCEPT ![q] = "finish"] /\ ret' = [ret EXCEPT ![q] = result[q]]
      /\ UNCHANGED <<cacheVars, request, reqID, cancelled, blocked, upstream, attempt, call,
                     result, flights, matcher, swaps, counts, verdicts>>
  BY DEF LandUncoalesced, Goto, Returns
<1>2. result[q] \in Msgs \cup {Failed, Panicked}
  BY SMTT(30), Z3, <1>0, <1>1 DEF TypeOK, Resulted, ResultOf
<1>3. /\ result[q] \in Msgs => AsksTheSame(result[q].question, request[q])
      /\ Leader(q) = q
      /\ Len(request[q]) # 1
  <2>1. ~Single(q)
    BY <1>0, <1>1, ChainAssumption DEF Coalesced, AtUpstream
  <2>2. QED
    BY <1>0, <1>1, <2>1 DEF Resulted, ResultOf, Leader, Single
<1>4. Stored' /\ counts' \in [Counters -> Nat]
  BY <1>0, <1>1, StoredSame DEF TypeOK
<1>5. QED
  BY <1>1, <1>2, <1>3, <1>4, OutInv

\* A call that failed fails in all its queries.
LEMMA DeliverFailureInv ==
  ASSUME ChainInv, NEW q \in Callers, DeliverPanic(q) \/ DeliverError(q)
  PROVE  ChainInv'
<1>0. TypeOK /\ Coalesced /\ Stored
  BY DEF ChainInv
<1>1. PICK v \in {Failed, Panicked} :
        /\ pc[q] = "deliver" /\ result[call[q]] = v
        /\ pc' = [pc EXCEPT ![q] = "finish"] /\ ret' = [ret EXCEPT ![q] = v]
        /\ UNCHANGED <<cacheVars, request, reqID, cancelled, blocked, upstream, attempt, call,
                       result, flights, matcher, swaps, verdicts>>
  BY DEF DeliverPanic, DeliverError, Goto, Returns
<1>2. Leader(q) = call[q]
  BY <1>0, <1>1 DEF Coalesced, Leader
<1>3. counts' \in [Counters -> Nat]
  <2>1. Count("coalesced") \/ UNCHANGED counts
    BY DEF DeliverPanic, DeliverError, CountShared
  <2>2. QED
    BY <1>0, <2>1, CountType DEF TypeOK, Counters
<1>4. Stored'
  BY <1>0, <1>1, StoredSame
<1>5. QED
  BY <1>1, <1>2, <1>3, <1>4, OutInv, Distinct

\* The response of a call is copied, and stored if it has a lifetime.
LEMMA DeliverInv ==
  ASSUME ChainInv, NEW q \in Callers, DeliverResponse(q)
  PROVE  ChainInv'
<1>0. TypeOK /\ Coalesced /\ Identified /\ Resulted /\ Stored
  BY DEF ChainInv
<1>. DEFINE r == result[call[q]]
            m == CopyFor(q)
<1>1. /\ pc[q] = "deliver" /\ r \notin {Failed, Panicked}
      /\ ret' = [ret EXCEPT ![q] = m]
      /\ UNCHANGED <<request, reqID, cancelled, blocked, upstream, attempt, call, result,
                     flights, matcher, swaps, verdicts>>
  BY DEF DeliverResponse, Returns
<1>2. call[q] \in Callers /\ Single(q) /\ Single(call[q]) /\ KeyOf(call[q]) = KeyOf(q)
  BY <1>0, <1>1 DEF Coalesced, TypeOK
<1>3. KeyOf(q) \in Keys /\ reqID[q] = q
  BY <1>0, <1>1, <1>2, SingleKey DEF Identified
<1>4. r \in Msgs /\ AsksTheSame(r.question, request[call[q]])
  BY SMTT(30), Z3, <1>0, <1>1, <1>2 DEF Resulted, ResultOf, TypeOK
<1>5. m \in Msgs /\ m.id = q /\ m.question = r.question
  BY <1>3, <1>4 DEF CopyFor, Msgs
<1>6. AsksTheSame(m.question, <<KeyOf(q)>>) /\ AsksTheSame(m.question, request[q])
  <2>1. r.question \in Requests
    BY <1>4 DEF Msgs
  <2>2. AsksTheSame(r.question, <<KeyOf(call[q])>>)
    BY <1>0, <1>2, <1>4, <2>1, KeyAsks
  <2>3. AsksTheSame(r.question, <<KeyOf(q)>>)
    BY <1>2, <2>2
  <2>4. AsksTheSame(r.question, request[q])
    BY <1>0, <1>2, <2>1, <2>3, KeyAsks
  <2>5. QED
    BY <1>5, <2>3, <2>4
<1>7. counts' \in [Counters -> Nat]
  <2>1. Count("coalesced") \/ UNCHANGED counts
    BY DEF DeliverResponse, CountShared
  <2>2. QED
    BY <1>0, <2>1, CountType DEF TypeOK, Counters
<1>8. PICK s \in {"store", "finish"} : pc' = [pc EXCEPT ![q] = s]
  BY DEF DeliverResponse, Goto
<1>9. Stored'
  <2>1. CASE computeTTL(m) > 0
    <3>1. StoreStamp(q, KeyOf(q), m, computeTTL(m))
      BY <2>1 DEF DeliverResponse
    <3>. HIDE DEF m
    <3>2. QED
      BY <1>0, <1>3, <1>5, <1>6, <2>1, <3>1, StoredStamp
  <2>2. CASE ~(computeTTL(m) > 0)
    <3>1. UNCHANGED cacheVars
      BY <2>2 DEF DeliverResponse
    <3>2. QED
      BY <1>0, <3>1, StoredSame
  <2>3. QED
    BY <2>1, <2>2
<1>. HIDE DEF m
<1>10. QED
  BY <1>1, <1>5, <1>6, <1>7, <1>8, <1>9, OutInv, Distinct

\* The copy is stored.
LEMMA StoreInv ==
  ASSUME ChainInv, NEW q \in Callers, StoreResponse(q)
  PROVE  ChainInv'
<1>0. TypeOK /\ Coalesced /\ Identified /\ Resulted /\ Returned /\ Stored /\ Judged
  BY DEF ChainInv
<1>1. /\ pc[q] = "store" /\ pc' = [pc EXCEPT ![q] = "finish"]
      /\ StoreReplace(q) \/ StoreInsert(q)
      /\ UNCHANGED <<request, reqID, cancelled, blocked, upstream, attempt, call, result, ret,
                     flights, matcher, swaps, counts, verdicts>>
  BY DEF StoreResponse, Goto
<1>2. \A p \in Callers : pc'[p] = IF p = q THEN "finish" ELSE pc[p]
  BY <1>0, <1>1 DEF TypeOK
<1>3. TypeOK'
  BY <1>0, <1>1 DEF TypeOK
<1>4. Coalesced'
  BY <1>0, <1>1, CoalescedMove DEF Early, AtUpstream
<1>5. Identified'
  <2>1. reqID' = reqID /\ pc[q] = "store"
    BY <1>1
  <2>2. \A p \in Callers : pc'[p] = "doh" <=> pc[p] = "doh"
    BY SMTT(30), Z3, <1>2, <2>1
  <2>3. QED
    BY <1>0, <2>1, <2>2 DEF Identified
<1>6. Resulted'
  BY <1>0, <1>1, ResultedMove DEF Late
<1>7. Returned'
  <2>1. \A p \in Callers : Leader(p)' = Leader(p)
    BY <1>1 DEF Leader
  <2>2. \A p \in Callers : pc'[p] \in Late => pc[p] \in Late
    BY <1>1, <1>2 DEF Late
  <2>3. QED
    BY <1>0, <1>1, <2>1, <2>2 DEF Returned
<1>8. Stored'
  BY <1>0, <1>1, StoredUnderLock
<1>9. Judged'
  BY <1>0, <1>1, JudgedMove DEF Early
<1>10. QED
  BY <1>3, <1>4, <1>5, <1>6, <1>7, <1>8, <1>9 DEF ChainInv

\* A query is done.
LEMMA FinishInv ==
  ASSUME ChainInv, NEW q \in Callers, Finish(q)
  PROVE  ChainInv'
<1>0. TypeOK /\ Coalesced /\ Identified /\ Resulted /\ Returned /\ Stored /\ Judged
  BY DEF ChainInv
<1>. USE Distinct DEF Finish, Goto
<1>1. TypeOK'
  <2>1. counts' \in [Counters -> Nat]
    BY SMTT(30), Z3, <1>0 DEF TypeOK
  <2>2. QED
    BY <1>0, <2>1 DEF TypeOK
<1>2. Coalesced'
  BY <1>0, CoalescedMove DEF Early, AtUpstream
<1>3. Identified'
  BY <1>0 DEF Identified, TypeOK
<1>4. Resulted'
  BY <1>0, ResultedMove DEF Late
<1>5. Returned'
  BY <1>0 DEF Returned, TypeOK, Leader, Late
<1>6. Stored'
  BY <1>0, StoredSame
<1>7. Judged'
  BY <1>0, JudgedMove DEF Early
<1>. HIDE Distinct DEF Finish, Goto
<1>8. QED
  BY <1>1, <1>2, <1>3, <1>4, <1>5, <1>6, <1>7 DEF ChainInv

\* The context of a query ends.
LEMMA CancelInv ==
  ASSUME ChainInv, NEW q \in Callers, Cancel(q)
  PROVE  ChainInv'
<1>0. TypeOK /\ Coalesced /\ Identified /\ Resulted /\ Returned /\ Stored /\ Judged
  BY DEF ChainInv
<1>1. /\ cancelled' = [cancelled EXCEPT ![q] = TRUE]
      /\ UNCHANGED <<cacheVars, pc, request, reqID, blocked, upstream, attempt, call, result,
                     ret, flights, matcher, swaps, counts, verdicts>>
  BY DEF Cancel
<1>2. cancelled' \in [Callers -> BOOLEAN] /\ \A p \in Callers : cancelled[p] => cancelled'[p]
  BY <1>0, <1>1 DEF TypeOK
<1>3. TypeOK'
  BY <1>0, <1>1, <1>2 DEF TypeOK
<1>4. QED
  BY <1>0, <1>1, <1>2, <1>3, CoalescedSame, IdentifiedSame, ResultedSame, ReturnedSame,
     StoredSame, JudgedSame DEF ChainInv

\* The matcher is replaced.
LEMMA SwapInv ==
  ASSUME ChainInv, NEW m \in BlockLists, Swap(m)
  PROVE  ChainInv'
<1>0. TypeOK /\ Coalesced /\ Identified /\ Resulted /\ Returned /\ Stored /\ Judged
  BY DEF ChainInv
<1>1. /\ swaps < MaxSwaps /\ matcher' = m /\ swaps' = swaps + 1
      /\ verdicts' = [q \in Callers |-> IF Underway(q) THEN verdicts[q] \cup Verdict(m, q)
                                        ELSE verdicts[q]]
      /\ UNCHANGED <<cacheVars, queryVars, flights, counts>>
  BY DEF Swap
<1>2. UNCHANGED <<pc, request, reqID, cancelled, blocked, upstream, attempt, call, result, ret>>
  BY <1>1 DEF queryVars
<1>3. TypeOK'
  <2>1. \A q \in Callers : Verdict(m, q) \subseteq BOOLEAN
    BY DEF Verdict, Blocks, Match
  <2>2. verdicts' \in [Callers -> SUBSET BOOLEAN]
    BY <1>0, <1>1, <2>1 DEF TypeOK
  <2>3. QED
    BY <1>0, <1>1, <1>2, <2>2 DEF TypeOK
<1>4. Judged'
  <2>1. ASSUME NEW q \in Callers
        PROVE  /\ verdicts[q] \subseteq verdicts'[q]
               /\ Underway(q) => Verdict(m, q) \subseteq verdicts'[q]
    BY <1>1
  <2>2. ASSUME NEW q \in Callers, pc[q] = "block", Single(q)
        PROVE  Blocks(m, q) \in verdicts'[q]
    BY <2>1, <2>2 DEF Underway, Verdict
  <2>3. ASSUME NEW q \in Callers
        PROVE  (Single(q)' <=> Single(q)) /\ Blocks(matcher, q)' = Blocks(m, q)
    BY <1>1, <1>2 DEF Single, Blocks
  <2>4. QED
    BY <1>0, <1>2, <2>1, <2>2, <2>3 DEF Judged
<1>5. QED
  BY <1>0, <1>1, <1>2, <1>3, <1>4, CoalescedSame, IdentifiedSame, ResultedSame,
     ReturnedSame, StoredSame DEF ChainInv

\* Time passes.
LEMMA TimeInv ==
  ASSUME ChainInv, TimePasses
  PROVE  ChainInv'
<1>0. TypeOK /\ Coalesced /\ Identified /\ Resulted /\ Returned /\ Stored /\ Judged
  BY DEF ChainInv
<1>1. UNCHANGED <<pc, request, reqID, cancelled, blocked, upstream, attempt, call, result, ret,
                  flights, matcher, swaps, counts, verdicts>>
  BY DEF TimePasses, chainVars, queryVars
<1>2. TypeOK'
  BY <1>0, <1>1 DEF TypeOK
<1>3. Stored'
  <2>1. clock \in Nat /\ clock' = clock + 1
    BY <1>0 DEF Stored, TimePasses, Tick
  <2>2. ASSUME NEW e, Proper(e)
        PROVE  Proper(e)'
    <3>1. e.storedAt \in Nat /\ e.storedAt <= clock'
      BY SMTT(30), Z3, <2>1, <2>2 DEF Proper
    <3>2. QED
      BY <2>2, <3>1 DEF Proper
  <2>3. UNCHANGED <<storing, entries>>
    BY DEF TimePasses, Tick
  <2>4. QED
    BY SMTT(30), Z3, <1>0, <2>1, <2>2, <2>3 DEF Stored
<1>4. QED
  BY <1>0, <1>1, <1>2, <1>3, CoalescedSame, IdentifiedSame, ResultedSame, ReturnedSame,
     JudgedSame DEF ChainInv

-----------------------------------------------------------------------------

\* Nothing has arrived yet.
LEMMA ChainInitInv == Init => ChainInv
<1>. SUFFICES ASSUME Init PROVE ChainInv
  OBVIOUS
<1>1. 0 \in 0 .. NumUpstreams /\ 1 \in 1 .. NumUpstreams
  <2>1. Protocols \in Seq({"udp", "doh"}) /\ Protocols # << >>
    BY ChainAssumption
  <2>2. Len(Protocols) \in Nat /\ Len(Protocols) # 0
    BY SMTT(30), Z3, <2>1
  <2>3. QED
    BY SMTT(30), Z3, <2>2 DEF NumUpstreams
<1>2. TypeOK
  BY <1>1 DEF Init, TypeOK
<1>. USE Distinct DEF Init
<1>3. Coalesced /\ Identified /\ Resulted /\ Returned
  BY DEF Coalesced, Identified, Resulted, ResultOf, Returned, Early, AtUpstream, Late, Single
<1>4. Stored
  BY DEF Stored, CacheInit
<1>5. Judged
  BY DEF Judged, Early
<1>6. QED
  BY <1>2, <1>3, <1>4, <1>5 DEF ChainInv

\* Every step keeps the invariant.
LEMMA ChainNextInv == ChainInv /\ [Next]_vars => ChainInv'
<1>. SUFFICES ASSUME ChainInv, [Next]_vars PROVE ChainInv'
  OBVIOUS
<1>1. ASSUME NEW q \in Callers, Step(q)
      PROVE  ChainInv'
  BY <1>1, PassInv, BlockInv, HitInv, MissInv, LeadInv, FollowInv, AskInv, AnswerInv, FailInv,
     PanicInv, LandInv, LandUncoalescedInv, DeliverFailureInv, DeliverInv, StoreInv, FinishInv
     DEF Step
<1>2. CASE Next
  BY <1>1, <1>2, ArriveInv, CancelInv, SwapInv, TimeInv DEF Next
<1>3. CASE UNCHANGED vars
  <2>. USE <1>3 DEF vars, chainVars, queryVars
  <2>1. Stored'
    BY StoredSame DEF ChainInv
  <2>2. (TypeOK /\ Coalesced /\ Identified /\ Resulted /\ Returned /\ Judged)'
    BY DEF ChainInv, TypeOK, Coalesced, Identified, Resulted, ResultOf, Returned, Judged, Single, KeyOf,
           Blocks, Leader
  <2>3. QED
    BY <2>1, <2>2 DEF ChainInv
<1>4. QED
  BY <1>2, <1>3

\* ChainInv holds in every state of the chain.
LEMMA ChainSpecInv == Spec => []ChainInv
BY ChainInitInv, ChainNextInv, PTL DEF Spec

-----------------------------------------------------------------------------

\* Every variable has its type: the loop of Pool.Exchange stays within its list.
THEOREM ChainTypeCorrect == Spec => []TypeOK
<1>1. ChainInv => TypeOK
  BY DEF ChainInv
<1>2. QED
  BY <1>1, ChainSpecInv, PTL

\* However many queries there are, no two calls for one question are at the
\* upstreams at a time.
THEOREM CoalesceIsExclusive == Spec => []OneCallPerQuestion
<1>1. ChainInv => OneCallPerQuestion
  <2>. SUFFICES ASSUME ChainInv, NEW p \in Callers, NEW q \in Callers,
                       {pc[p], pc[q]} \subseteq {"forward", "tcp", "doh", "land"},
                       Single(p), Single(q), AsksTheSame(request[p], request[q])
                PROVE  p = q
    BY DEF OneCallPerQuestion
  <2>1. KeyOf(p) = KeyOf(q)
    BY SingleKey DEF ChainInv, AsksTheSame, KeyOf, Key
  <2>2. flights[KeyOf(p)] = p /\ flights[KeyOf(q)] = q
    BY DEF ChainInv, Coalesced, AtUpstream
  <2>3. QED
    BY <2>1, <2>2
<1>2. QED
  BY <1>1, ChainSpecInv, PTL

\* Whichever way an answer took, it answers the question of the query that gets it; and
\* it has the id of a query of one question, on the wire.
THEOREM RepliesMatch == Spec => []ReplyMatches
<1>1. ChainInv => ReplyMatches
  <2>. SUFFICES ASSUME ChainInv, NEW q \in Callers, pc[q] = "done"
                PROVE  /\ AsksTheSame(Reply(q).question, request[q])
                       /\ Single(q) => Reply(q).id = q
    BY DEF ReplyMatches
  <2>1. CASE ret[q] \in {Failed, Panicked}
    <3>1. reqID[q] = q
      BY DEF ChainInv, Identified
    <3>2. Reply(q).id = q /\ Reply(q).question = request[q]
      BY <2>1, <3>1 DEF Reply, Response
    <3>3. QED
      BY <3>2, AsksItself
  <2>2. CASE ret[q] \notin {Failed, Panicked}
    <3>1. ret[q] \in Msgs
      BY <2>2 DEF ChainInv, TypeOK, Returned, Late
    <3>2. QED
      BY <2>2, <3>1 DEF ChainInv, Returned, Late, Reply, Single
  <2>3. QED
    BY <2>1, <2>2
<1>2. QED
  BY <1>1, ChainSpecInv, PTL

\* What is cached under a key answers its question, although every query of a
\* call stores a copy of what its leader got.
THEOREM CacheIsKeyed == Spec => []CacheKeyed
<1>1. ChainInv => CacheKeyed
  BY DEF ChainInv, Stored, Proper, CacheKeyed, Resident
<1>2. QED
  BY <1>1, ChainSpecInv, PTL

\* Whatever min_ttl, max_ttl and negative_ttl_max are, an entry leaves the cache no
\* later than its records run out or min_ttl says.
THEOREM LifetimesBounded == Spec => []CachedLifetime
<1>1. ChainInv => CachedLifetime
  <2>. SUFFICES ASSUME ChainInv, NEW k \in Resident
                PROVE  LET m == entries[k].response
                           lifetime == entries[k].expiresAt - entries[k].storedAt
                       IN IF IsNegative(m) THEN lifetime <= NegativeTTLMax
                          ELSE \A i \in DOMAIN RRs(m) :
                                 lifetime <= AtLeast(RRs(m)[i].ttl * Second, MinTTL)
    BY DEF CachedLifetime
  <2>. DEFINE e == entries[k]
              m == e.response
  <2>1. Proper(e)
    BY DEF ChainInv, Stored, Resident
  <2>2. m \in Msgs /\ {m.answer, m.ns, m.extra} \subseteq Seq(RR) /\ computeTTL(m) > 0
    BY <2>1 DEF Proper, Msgs
  <2>3. e.expiresAt - e.storedAt = computeTTL(m)
    <3>1. /\ e.storedAt \in Nat /\ e.expiresAt = e.storedAt + computeTTL(m)
          /\ computeTTL(m) \in Int
      BY <2>1, <2>2, LifetimeInt DEF Proper
    <3>. HIDE DEF m, e
    <3>2. QED
      BY SMTT(30), Z3, <3>1
  <2>. HIDE DEF m, e
  <2>4. IF IsNegative(m) THEN computeTTL(m) <= NegativeTTLMax
        ELSE \A i \in DOMAIN RRs(m) : computeTTL(m) <= AtLeast(RRs(m)[i].ttl * Second, MinTTL)
    BY <2>2, NegativeBound, PositiveBound
  <2>5. QED
    BY <2>3, <2>4 DEF m, e
<1>2. QED
  BY <1>1, ChainSpecInv, PTL

\* A query whose context has not ended fails only with its call, and a call only when
\* no upstream is left or the context of its leader is done.
THEOREM FailuresAreShared == Spec => []FailsWithItsCall
<1>1. ChainInv => FailsWithItsCall
  <2>. SUFFICES ASSUME ChainInv, NEW q \in Callers, pc[q] = "done", ret[q] \in {Failed, Panicked}
                PROVE  /\ result[Leader(q)] = ret[q]
                       /\ ret[q] = Failed =>
                            attempt[Leader(q)] = NumUpstreams \/ cancelled[Leader(q)]
    BY DEF FailsWithItsCall, Leader
  <2>1. Leader(q) \in Callers
    BY DEF ChainInv, TypeOK, Leader
  <2>2. result[Leader(q)] = ret[q]
    BY DEF ChainInv, Returned, Late
  <2>3. QED
    BY <2>1, <2>2 DEF ChainInv, Resulted, ResultOf
<1>2. QED
  BY <1>1, ChainSpecInv, PTL

\* A query is blocked or let through as some matcher said that was active while it
\* was under way, whenever a reload replaces the matcher.
THEOREM VerdictsAreTimely == Spec => []BlockVerdict
<1>1. ChainInv => BlockVerdict
  BY DEF ChainInv, Judged, BlockVerdict
<1>2. QED
  BY <1>1, ChainSpecInv, PTL

=============================================================================
