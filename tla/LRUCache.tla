------------------------------ MODULE LRUCache ------------------------------
(***************************************************************************)
(* The in-memory answer cache, internal/cache/lru.go.                      *)
(*                                                                         *)
(* A doubly linked list orders the entries, most recently used first; a    *)
(* map finds an entry by its key; one mutex guards both.  Everything done  *)
(* under the mutex is one action.  Store reads the clock and copies the    *)
(* message before it takes the mutex, so it is two actions, and any number *)
(* of callers may sit between the two while others store, look up, evict,  *)
(* and while time passes.                                                  *)
(*                                                                         *)
(* Entry lifetimes are durations of any number of ticks, TTLs are whole    *)
(* seconds.                                                                *)
(***************************************************************************)
EXTENDS DNSMessage

CONSTANTS
  Callers,             \* goroutines that may be inside Store
  Keys,                \* what cache.Key returns: qname, qtype and qclass
  Messages,            \* responses that may be stored
  ConfiguredCapacity,  \* cache.capacity, before NewLRU clamps it
  MaxTime,             \* bound: the clock stops here
  Nil                  \* Go's nil: no entry, no element

ASSUME LRUAssumption ==
  /\ ConfiguredCapacity \in Int
  /\ MaxTime \in Nat
  /\ \A m \in Messages : /\ {"answer", "ns", "extra"} \subseteq DOMAIN m
                         /\ m.answer \in Seq(RR)
                         /\ m.ns \in Seq(RR)
                         /\ m.extra \in Seq(RR)

VARIABLES
  list,       \* c.list: the keys of the elements, front first
  entries,    \* c.entries: the element of a key, Nil when the map has none
  gauge,      \* bns_cache_entries, set by observer.SetEntries
  evictions,  \* bns_cache_evictions_total, by observer.IncEvictions
  clock,      \* time.Now()
  storing     \* the entry each caller has built in Store, before Lock

cacheVars == <<list, entries, gauge, evictions, clock, storing>>

\* NewLRU clamps the configured capacity.
Capacity == IF ConfiguredCapacity < 1 THEN 1 ELSE ConfiguredCapacity

Entry == [key : Keys, response : Messages, storedAt : Nat, expiresAt : Nat]

ASSUME NilAssumption == Nil \notin Entry

Resident == {k \in Keys : entries[k] # Nil}

\* container/list, as a sequence of keys, most recently used first. (SequencesExt has
\* these three under other names; extending it would put its definitions, and those of
\* the seven modules it extends, in every proof about the cache and the chain.)
PushFront(k, l) == <<k>> \o l

RemoveElement(l, i) == SubSeq(l, 1, i - 1) \o SubSeq(l, i + 1, Len(l))

Elements(l) == {l[i] : i \in DOMAIN l}

\* The index of the list element of key k.
PositionOf(k) == CHOOSE i \in DOMAIN list : list[i] = k

Unlinked(k) == RemoveElement(list, PositionOf(k))

MovedToFront(k) == PushFront(k, Unlinked(k))

CacheInit ==
  /\ list = << >>
  /\ entries = [k \in Keys |-> Nil]
  /\ gauge = 0
  /\ evictions = 0
  /\ clock = 0
  /\ storing = [c \in Callers |-> Nil]

-----------------------------------------------------------------------------
(***************************************************************************)
(* Store.                                                                  *)
(***************************************************************************)

\* Variant: the lifetime is subtracted from the clock.
StoreStampEarlier(c, k, m, ttl) ==
  /\ storing[c] = Nil
  /\ storing' = [storing EXCEPT ![c] = [key       |-> k,
                                        response  |-> m,
                                        storedAt  |-> clock,
                                        expiresAt |-> clock - ttl]]
  /\ UNCHANGED <<list, entries, gauge, evictions, clock>>

\* Everything before Lock: the clock is read and the message copied.
StoreStamp(c, k, m, ttl) ==
  /\ storing[c] = Nil
  /\ storing' = [storing EXCEPT ![c] = [key       |-> k,
                                        response  |-> m,
                                        storedAt  |-> clock,
                                        expiresAt |-> clock + ttl]]
  /\ UNCHANGED <<list, entries, gauge, evictions, clock>>

\* The key is present: its element gets the new entry and moves to the front.
StoreReplace(c) ==
  LET e == storing[c]
  IN /\ e # Nil
     /\ entries[e.key] # Nil
     /\ list' = MovedToFront(e.key)
     /\ entries' = [entries EXCEPT ![e.key] = e]
     /\ storing' = [storing EXCEPT ![c] = Nil]
     /\ UNCHANGED <<gauge, evictions, clock>>

\* Variant: the loop removes the second element.
TrimmedSecond(l) == IF Len(l) > Capacity THEN RemoveElement(l, 2) ELSE l

\* The eviction loop: elements are removed from the back until l fits.
Trimmed(l) == IF Len(l) > Capacity THEN SubSeq(l, 1, Capacity) ELSE l

\* Variant: the evicted key stays in the map.
StoreInsertLeaky(c) ==
  LET e    == storing[c]
      kept == Trimmed(PushFront(e.key, list))
  IN /\ e # Nil
     /\ entries[e.key] = Nil
     /\ list' = kept
     /\ entries' = [entries EXCEPT ![e.key] = e]
     /\ evictions' = evictions + (Len(list) + 1 - Len(kept))
     /\ gauge' = Len(kept)
     /\ storing' = [storing EXCEPT ![c] = Nil]
     /\ UNCHANGED clock

\* The key is absent: a new element is pushed to the front, and the elements
\* the loop removes from the list leave the map too.
StoreInsert(c) ==
  LET e       == storing[c]
      pushed  == PushFront(e.key, list)
      kept    == Trimmed(pushed)
      removed == Elements(pushed) \ Elements(kept)
  IN /\ e # Nil
     /\ entries[e.key] = Nil
     /\ list' = kept
     /\ entries' = [k \in Keys |-> IF k \in removed THEN Nil
                                   ELSE IF k = e.key THEN e
                                   ELSE entries[k]]
     /\ evictions' = evictions + (Len(pushed) - Len(kept))
     /\ gauge' = Len(kept)
     /\ storing' = [storing EXCEPT ![c] = Nil]
     /\ UNCHANGED clock

-----------------------------------------------------------------------------
(***************************************************************************)
(* Get.  The clock is read under the mutex.                                *)
(***************************************************************************)

\* Variant: the end of the lifetime is compared in whole seconds.
ExpiredInSeconds(e, now) == now \div Second > e.expiresAt \div Second

Expired(e, now) == now > e.expiresAt

\* The copy a hit returns: TTLs go down by the age in whole seconds.
AgedResponse(e, now) ==
  decrementTTLs(e.response, (now - e.storedAt) \div Second)

GetMiss(k) ==
  /\ entries[k] = Nil
  /\ UNCHANGED cacheVars

\* Variant: the expired entry is removed but not counted.
GetExpiredUncounted(k) ==
  /\ entries[k] # Nil
  /\ Expired(entries[k], clock)
  /\ list' = Unlinked(k)
  /\ entries' = [entries EXCEPT ![k] = Nil]
  /\ gauge' = Len(list')
  /\ UNCHANGED <<clock, storing, evictions>>

\* An expired entry is removed by the Get that finds it.
GetExpired(k) ==
  /\ entries[k] # Nil
  /\ Expired(entries[k], clock)
  /\ list' = Unlinked(k)
  /\ entries' = [entries EXCEPT ![k] = Nil]
  /\ evictions' = evictions + 1
  /\ gauge' = Len(list')
  /\ UNCHANGED <<clock, storing>>

\* Variant: the TTLs of the stored message itself go down.
GetHitInPlace(k) ==
  /\ entries[k] # Nil
  /\ ~Expired(entries[k], clock)
  /\ list' = MovedToFront(k)
  /\ entries' = [entries EXCEPT ![k].response = AgedResponse(entries[k], clock)]
  /\ UNCHANGED <<gauge, evictions, clock, storing>>

\* A hit changes the order only; it returns AgedResponse(entries[k], clock).
GetHit(k) ==
  /\ entries[k] # Nil
  /\ ~Expired(entries[k], clock)
  /\ list' = MovedToFront(k)
  /\ UNCHANGED <<entries, gauge, evictions, clock, storing>>

Tick ==
  /\ clock < MaxTime
  /\ clock' = clock + 1
  /\ UNCHANGED <<list, entries, gauge, evictions, storing>>

-----------------------------------------------------------------------------
(***************************************************************************)
(* What holds of the cache whatever its callers do.                        *)
(***************************************************************************)

\* The list and the map hold the same keys, each exactly once: no element is
\* ever linked twice, left behind in the list, or found through the map after
\* it was unlinked, whichever of Store, eviction and expiry removed it.
ListMapAgree ==
  /\ \A k \in Keys : entries[k] # Nil <=> \E i \in DOMAIN list : list[i] = k
  /\ \A i, j \in DOMAIN list : list[i] = list[j] => i = j

\* The cache never holds more than its capacity, which NewLRU makes at least 1.
WithinCapacity == Len(list) <= Capacity

\* The entries that a Get would find.
LiveEntries ==
  [k \in Keys |-> IF entries[k] # Nil /\ ~Expired(entries[k], clock) THEN entries[k] ELSE Nil]

\* got are the records of kept, elapsed ticks later: no TTL has grown, one that
\* is still positive ends before the second that follows the record's own end,
\* and one that is zero has run out.
Remaining(got, kept, elapsed) ==
  /\ DOMAIN got = DOMAIN kept
  /\ \A i \in DOMAIN got :
       /\ got[i].ttl <= kept[i].ttl
       /\ got[i].ttl > 0 => elapsed + got[i].ttl * Second < (kept[i].ttl + 1) * Second
       /\ got[i].ttl = 0 => elapsed >= kept[i].ttl * Second

=============================================================================
