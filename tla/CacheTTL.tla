------------------------------ MODULE CacheTTL ------------------------------
(***************************************************************************)
(* How long the cache stage keeps a response: computeTTL, findSOA and      *)
(* minTTL of internal/resolver/cachestage/cache.go.                        *)
(*                                                                         *)
(* The limits of the cache section of the configuration are durations, in  *)
(* ticks; TTLs are in seconds, Second ticks each.  config.Validate wants   *)
(* MaxTTL and NegativeTTLMax to be positive and says nothing of MinTTL.    *)
(***************************************************************************)
EXTENDS DNSMessage

CONSTANTS
  MinTTL,         \* cache.min_ttl
  MaxTTL,         \* cache.max_ttl
  NegativeTTLMax  \* cache.negative_ttl_max

ASSUME TTLAssumption ==
  /\ MinTTL \in Int
  /\ MaxTTL \in Nat \ {0}
  /\ NegativeTTLMax \in Nat \ {0}

IsNegative(m) ==
  \/ m.rcode = "NXDOMAIN"
  \/ m.rcode = "NOERROR" /\ m.answer = << >>

SOAs(section) == {i \in DOMAIN section : section[i].minttl # NotSOA}

\* The first SOA of a section that has one.
findSOA(section) == section[CHOOSE i \in SOAs(section) : \A j \in SOAs(section) : i <= j]

TTLs(m) == {RRs(m)[i].ttl : i \in DOMAIN RRs(m)}

\* Variant: only the answer section is looked at.
minTTLOfAnswer(m) ==
  IF m.answer = << >> THEN 0
  ELSE CHOOSE t \in TTLs([m EXCEPT !.ns = << >>, !.extra = << >>]) :
         \A i \in DOMAIN m.answer : t <= m.answer[i].ttl

\* The smallest TTL of all sections, zero when there is no record.
minTTL(m) ==
  IF TTLs(m) = {} THEN 0 ELSE CHOOSE t \in TTLs(m) : \A u \in TTLs(m) : t <= u

AtMost(d, limit) == IF d > limit THEN limit ELSE d

AtLeast(d, limit) == IF d < limit THEN limit ELSE d

NegativeTTL(m) ==
  IF SOAs(m.ns) = {} THEN 0
  ELSE AtMost(findSOA(m.ns).minttl * Second, NegativeTTLMax)

PositiveTTL(m) ==
  IF minTTL(m) = 0 THEN 0
  ELSE AtLeast(AtMost(minTTL(m) * Second, MaxTTL), MinTTL)

\* The lifetime of the entry; zero means that m is not cached.
computeTTL(m) == IF IsNegative(m) THEN NegativeTTL(m) ELSE PositiveTTL(m)

=============================================================================
