----------------------------- MODULE DNSMessage -----------------------------
(***************************************************************************)
(* The part of a dns.Msg that the resolver looks at or changes.            *)
(*                                                                         *)
(* A message is a record with the fields id, question, rcode and the       *)
(* sections answer, ns and extra.  A section is a sequence of resource     *)
(* records; of a resource record we keep the TTL of its header, in         *)
(* seconds, and the MINIMUM field when it is an SOA.  Names, types and     *)
(* record data are never inspected after parsing and are left out.         *)
(***************************************************************************)
EXTENDS Integers, Sequences

\* Time is counted in ticks; so many of them make a second.
CONSTANT Second

ASSUME SecondAssumption == Second \in Nat \ {0}

\* The minttl of a record that is not an SOA.
NotSOA == -1

RR == [ttl : Nat, minttl : Nat \cup {NotSOA}]

RRs(m) == m.answer \o m.ns \o m.extra

-----------------------------------------------------------------------------
(***************************************************************************)
(* TTL arithmetic shared by the cache and the DoH client.                  *)
(***************************************************************************)

DecrementRRs(section, by) ==
  [i \in DOMAIN section |->
     [ttl    |-> IF section[i].ttl > by THEN section[i].ttl - by ELSE 0,
      minttl |-> section[i].minttl]]

\* decrementTTLs: every TTL of every section goes down by "by", to no less
\* than zero.  (The question section carries no TTL.)
decrementTTLs(m, by) ==
  [m EXCEPT !.answer = DecrementRRs(@, by),
            !.ns     = DecrementRRs(@, by),
            !.extra  = DecrementRRs(@, by)]

=============================================================================
