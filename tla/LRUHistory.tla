----------------------------- MODULE LRUHistory -----------------------------
(***************************************************************************)
(* LRUCache with history variables that say what its callers have seen:    *)
(* which entry was stored last under a key, when a key was last used, what *)
(* the last hit returned.  The history never restricts the cache; MaxOps   *)
(* bounds the number of calls a behaviour makes.                           *)
(***************************************************************************)
EXTENDS LRUCache

CONSTANTS
  Lifetimes,  \* the ttl arguments of Store, in ticks
  MaxOps      \* bound: completed Store and Get calls

ASSUME HistoryAssumption == Lifetimes \subseteq Nat /\ MaxOps \in Nat

VARIABLES
  ops,      \* completed calls, the logical time of the use of a key
  lastUse,  \* the call that last stored or hit a key, 0 before the first
  stored,   \* the entry last put into the map under a key
  inserts,  \* elements ever pushed
  served    \* the last hit: its key, the time it was answered, its response

history == <<ops, lastUse, stored, inserts, served>>

vars == <<cacheVars, history>>

NothingServed == [key |-> Nil, at |-> 0, response |-> Nil]

Init ==
  /\ CacheInit
  /\ ops = 0
  /\ lastUse = [k \in Keys |-> 0]
  /\ stored = [k \in Keys |-> Nil]
  /\ inserts = 0
  /\ served = NothingServed

Call == ops < MaxOps /\ ops' = ops + 1

Used(k) == lastUse' = [lastUse EXCEPT ![k] = ops + 1]

Stamp(c, k, m, ttl) ==
  /\ StoreStamp(c, k, m, ttl)
  /\ UNCHANGED history

Replace(c) ==
  /\ StoreReplace(c)
  /\ Call
  /\ Used(storing[c].key)
  /\ stored' = [stored EXCEPT ![storing[c].key] = storing[c]]
  /\ UNCHANGED <<inserts, served>>

Insert(c) ==
  /\ StoreInsert(c)
  /\ Call
  /\ Used(storing[c].key)
  /\ stored' = [stored EXCEPT ![storing[c].key] = storing[c]]
  /\ inserts' = inserts + 1
  /\ UNCHANGED served

Miss(k) ==
  /\ GetMiss(k)
  /\ Call
  /\ UNCHANGED <<lastUse, stored, inserts, served>>

Expire(k) ==
  /\ GetExpired(k)
  /\ Call
  /\ UNCHANGED <<lastUse, stored, inserts, served>>

Hit(k) ==
  /\ GetHit(k)
  /\ Call
  /\ Used(k)
  /\ served' = [key |-> k, at |-> clock,
                response |-> AgedResponse(entries[k], clock)]
  /\ UNCHANGED <<stored, inserts>>

Pass == Tick /\ UNCHANGED history

Next ==
  \/ \E c \in Callers, k \in Keys, m \in Messages, ttl \in Lifetimes :
       Stamp(c, k, m, ttl)
  \/ \E c \in Callers : Replace(c) \/ Insert(c)
  \/ \E k \in Keys : Miss(k) \/ Expire(k) \/ Hit(k)
  \/ Pass

Spec == Init /\ [][Next]_vars

-----------------------------------------------------------------------------

\* Every variable of the cache and of its history has its type; in particular the
\* ages and lifetimes that lru.go computes are never negative.
TypeOK ==
  /\ list \in Seq(Keys)
  /\ entries \in [Keys -> Entry \cup {Nil}]
  /\ gauge \in Nat
  /\ evictions \in Nat
  /\ clock \in Nat
  /\ storing \in [Callers -> Entry \cup {Nil}]
  /\ ops \in Nat
  /\ lastUse \in [Keys -> Nat]
  /\ stored \in [Keys -> Entry \cup {Nil}]
  /\ inserts \in Nat

\* The two metrics agree with the list and with each other: the gauge is the
\* number of entries, and every element ever pushed is still there or was
\* counted as one eviction.  (The replacing branch of Store returns without
\* touching either metric.)
MetricsAgree == gauge = Len(list) /\ inserts = Len(list) + evictions

\* No entry was stored in the future, although Store reads the clock before it
\* takes the mutex: the age Get computes is never negative, so its conversion
\* to uint32 never wraps into an age of centuries.
NoFutureEntry ==
  /\ \A k \in Resident : entries[k].storedAt <= clock
  /\ \A c \in Callers : storing[c] # Nil => storing[c].storedAt <= clock

\* The list is in order of use: an element nearer to the front was stored or hit
\* later than one nearer to the back.
RecencyOrder ==
  \A i, j \in DOMAIN list : i < j => lastUse[list[i]] > lastUse[list[j]]

\* What Get finds under a key is the entry that was put there last, unchanged:
\* no hit, eviction or expiry of another key alters it, and the TTLs that Get
\* decrements are those of its copy.
LastStoreWins == \A k \in Resident : entries[k] = stored[k]

\* An entry leaves the cache only because a Get found it expired, or because
\* the cache was full and it was the least recently used of all.
EvictsOnlyLRU ==
  [][\A k \in Keys :
       entries[k] # Nil /\ entries'[k] = Nil =>
         \/ clock > entries[k].expiresAt
         \/ /\ Len(list) = Capacity
            /\ \A j \in Resident : lastUse[k] <= lastUse[j]]_vars

\* A hit never serves an entry past its lifetime, and the TTLs it reports are
\* the remaining ones, counted from the moment Store read the clock.
HitIsFresh ==
  [][served' # served =>
       LET e == stored[served'.key]
           elapsed == served'.at - e.storedAt
           r == served'.response
       IN /\ served'.at <= e.expiresAt
          /\ Remaining(r.answer, e.response.answer, elapsed)
          /\ Remaining(r.ns, e.response.ns, elapsed)
          /\ Remaining(r.extra, e.response.extra, elapsed)]_vars

-----------------------------------------------------------------------------
(***************************************************************************)
(* What the cache is for.                                                  *)
(***************************************************************************)

Abstract == INSTANCE AnswerCache
              WITH live <- LiveEntries, pending <- storing, now <- clock, answer <- served

\* The LRU is a map that forgets: with its list, its lazy removal of what has
\* expired and its two-step Store, it does nothing that AnswerCache does not allow.
ImplementsAnswerCache == Abstract!Spec

=============================================================================
