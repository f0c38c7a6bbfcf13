------------------------------- MODULE MCLRU -------------------------------
(***************************************************************************)
(* LRUHistory for TLC: three keys over a cache of two entries, so that     *)
(* eviction, replacement and expiry all compete; half-second ticks, so     *)
(* that an age is sometimes not a whole number of seconds.                 *)
(***************************************************************************)
EXTENDS LRUHistory, TLC

CONSTANTS c1, c2, k1, k2, k3

MCCallers == {c1, c2}
MCKeys == {k1, k2, k3}

MCMessages ==
  {[answer |-> <<[ttl |-> 1, minttl |-> NotSOA]>>,
    ns     |-> << >>,
    extra  |-> <<[ttl |-> 0, minttl |-> NotSOA]>>]}

MCLifetimes == {2}

Symmetry == Permutations(MCCallers) \cup Permutations(MCKeys)

=============================================================================
