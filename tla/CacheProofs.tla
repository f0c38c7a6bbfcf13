---------------------------- MODULE CacheProofs ----------------------------
(***************************************************************************)
(* What the operations of lru.go do to the list, the map and the entries   *)
(* that are live, whoever calls them: for the cache by itself (LRUProofs)  *)
(* and for the cache in the resolver chain (ChainCacheProofs).             *)
(***************************************************************************)
EXTENDS LRUCache, TLAPS

\* The provers a leaf is tried with, in this order.
USE SMTT(30), ZenonT(40), Z3

-----------------------------------------------------------------------------
(***************************************************************************)
(* Sequences.                                                              *)
(***************************************************************************)

\* A sequence is a function on 1 to its length.
LEMMA LenProperties ==
  ASSUME NEW S, NEW s \in Seq(S)
  PROVE  Len(s) \in Nat /\ s \in [1 .. Len(s) -> S] /\ DOMAIN s = 1 .. Len(s)
OBVIOUS

\* The empty one.
LEMMA EmptySeq ==
  ASSUME NEW S
  PROVE  << >> \in Seq(S) /\ Len(<< >>) = 0
OBVIOUS

\* Its elements.
LEMMA ElementOfSeq ==
  ASSUME NEW S, NEW s \in Seq(S), NEW n \in 1 .. Len(s)
  PROVE  s[n] \in S
OBVIOUS

\* What \o returns.
LEMMA ConcatProperties ==
  ASSUME NEW S, NEW a \in Seq(S), NEW b \in Seq(S)
  PROVE  /\ a \o b \in Seq(S)
         /\ Len(a \o b) = Len(a) + Len(b)
         /\ \A j \in 1 .. Len(a) + Len(b) :
              (a \o b)[j] = IF j <= Len(a) THEN a[j] ELSE b[j - Len(a)]
OBVIOUS

\* What SubSeq returns, of a part that may be empty.
LEMMA SubSeqProperties ==
  ASSUME NEW S, NEW s \in Seq(S), NEW m \in 1 .. Len(s) + 1, NEW n \in m - 1 .. Len(s)
  PROVE  /\ SubSeq(s, m, n) \in Seq(S)
         /\ Len(SubSeq(s, m, n)) = n - m + 1
         /\ \A j \in 1 .. n - m + 1 : SubSeq(s, m, n)[j] = s[m + j - 1]
OBVIOUS

-----------------------------------------------------------------------------
(***************************************************************************)
(* The list operations.                                                    *)
(***************************************************************************)

\* Unlinking the element at i closes the gap and leaves the order of the others.
LEMMA RemoveElementProperties ==
  ASSUME NEW S, NEW s \in Seq(S), NEW i \in 1 .. Len(s)
  PROVE  /\ RemoveElement(s, i) \in Seq(S)
         /\ Len(RemoveElement(s, i)) = Len(s) - 1
         /\ \A j \in 1 .. Len(s) - 1 :
              RemoveElement(s, i)[j] = IF j < i THEN s[j] ELSE s[j + 1]
  <1> DEFINE a == SubSeq(s, 1, i - 1)
             b == SubSeq(s, i + 1, Len(s))
  <1>1. /\ a \in Seq(S)
        /\ Len(a) = i - 1
        /\ \A j \in 1 .. i - 1 : a[j] = s[j]
    BY SubSeqProperties, LenProperties
  <1>2. /\ b \in Seq(S)
        /\ Len(b) = Len(s) - i
        /\ \A j \in 1 .. Len(s) - i : b[j] = s[i + j]
    BY SubSeqProperties, LenProperties
  <1> HIDE DEF a, b
  <1>3. /\ a \o b \in Seq(S)
        /\ Len(a \o b) = Len(a) + Len(b)
        /\ \A j \in 1 .. Len(a) + Len(b) :
             (a \o b)[j] = IF j <= Len(a) THEN a[j] ELSE b[j - Len(a)]
    BY ZenonT(40), <1>1, <1>2, ConcatProperties
  <1>4. Len(s) \in Nat
    BY LenProperties
  <1>5. Len(a \o b) = Len(s) - 1
    BY <1>1, <1>2, <1>3, <1>4
  <1>6. ASSUME NEW j \in 1 .. Len(s) - 1
        PROVE  (a \o b)[j] = IF j < i THEN s[j] ELSE s[j + 1]
    BY <1>1, <1>2, <1>3, <1>4
  <1> QED
    BY ZenonT(40), <1>3, <1>5, <1>6 DEF RemoveElement, a, b

\* Pushing x to the front moves every other element back by one.
LEMMA PushFrontProperties ==
  ASSUME NEW S, NEW s \in Seq(S), NEW x \in S
  PROVE  /\ PushFront(x, s) \in Seq(S)
         /\ Len(PushFront(x, s)) = Len(s) + 1
         /\ \A j \in 1 .. Len(s) + 1 :
              PushFront(x, s)[j] = IF j = 1 THEN x ELSE s[j - 1]
  BY LenProperties DEF PushFront

-----------------------------------------------------------------------------
(***************************************************************************)
(* The list and the map.                                                   *)
(***************************************************************************)

\* What the mutex of lru.go protects, whenever it is free.
Shaped ==
  /\ list \in Seq(Keys)
  /\ entries = [k \in Keys |-> entries[k]]
  /\ ListMapAgree
  /\ WithinCapacity
  /\ gauge = Len(list)

\* The capacity NewLRU settles on is at least one, whatever was configured.
LEMMA CapacityPositive == Capacity \in Nat /\ Capacity >= 1
  BY LRUAssumption DEF Capacity

\* The list is finite, and its indices are 1 to its length.
LEMMA ListLength == ASSUME Shaped PROVE Len(list) \in Nat /\ DOMAIN list = 1 .. Len(list)
  BY LenProperties DEF Shaped

\* The element of a resident key is in the list.
LEMMA PositionIsElement ==
  ASSUME Shaped, NEW k \in Keys, entries[k] # Nil
  PROVE  PositionOf(k) \in 1 .. Len(list) /\ list[PositionOf(k)] = k
  BY ListLength DEF Shaped, ListMapAgree, PositionOf

\* Removing the element of k (list.Remove) closes the gap it leaves.
LEMMA UnlinkedProperties ==
  ASSUME Shaped, NEW k \in Keys, entries[k] # Nil
  PROVE  /\ Unlinked(k) \in Seq(Keys)
         /\ Len(Unlinked(k)) = Len(list) - 1
         /\ \A j \in 1 .. Len(list) - 1 :
              Unlinked(k)[j] = IF j < PositionOf(k) THEN list[j] ELSE list[j + 1]
  BY ZenonT(40), PositionIsElement, RemoveElementProperties DEF Unlinked, Shaped

\* Moving the element of k to the front (list.MoveToFront) shifts only the
\* elements that were before it.
LEMMA MovedToFrontProperties ==
  ASSUME Shaped, NEW k \in Keys, entries[k] # Nil
  PROVE  /\ MovedToFront(k) \in Seq(Keys)
         /\ Len(MovedToFront(k)) = Len(list)
         /\ \A j \in 1 .. Len(list) :
              MovedToFront(k)[j] = IF j = 1 THEN k
                                   ELSE IF j <= PositionOf(k) THEN list[j - 1]
                                   ELSE list[j]
  <1> DEFINE u == Unlinked(k)
  <1>1. /\ u \in Seq(Keys)
        /\ Len(u) = Len(list) - 1
        /\ \A j \in 1 .. Len(list) - 1 :
             u[j] = IF j < PositionOf(k) THEN list[j] ELSE list[j + 1]
    BY UnlinkedProperties
  <1>2. PositionOf(k) \in 1 .. Len(list) /\ Len(list) \in Nat
    BY PositionIsElement, ListLength
  <1> HIDE DEF u
  <1>3. /\ PushFront(k, u) \in Seq(Keys)
        /\ Len(PushFront(k, u)) = Len(u) + 1
        /\ \A j \in 1 .. Len(u) + 1 :
             PushFront(k, u)[j] = IF j = 1 THEN k ELSE u[j - 1]
    BY <1>1, PushFrontProperties
  <1>4. ASSUME NEW j \in 1 .. Len(list)
        PROVE  PushFront(k, u)[j] = IF j = 1 THEN k
                               ELSE IF j <= PositionOf(k) THEN list[j - 1]
                               ELSE list[j]
    BY <1>1, <1>2, <1>3
  <1> QED
    BY <1>1, <1>2, <1>3, <1>4 DEF MovedToFront, u

-----------------------------------------------------------------------------
(***************************************************************************)
(* What a change of the list preserves, whichever action makes it.         *)
(***************************************************************************)

\* Moving the element of k to the front keeps the elements.
LEMMA ListMoved ==
  ASSUME Shaped, NEW k \in Keys, entries[k] # Nil, list' = MovedToFront(k)
  PROVE  /\ list' \in Seq(Keys)
         /\ Len(list') = Len(list)
         /\ \A x \in Keys : (\E i \in DOMAIN list' : list'[i] = x)
                              <=> (\E i \in DOMAIN list : list[i] = x)
         /\ \A i, j \in DOMAIN list' : list'[i] = list'[j] => i = j
  <1> DEFINE p == PositionOf(k)
             n == Len(list)
  <1>1. /\ list' \in Seq(Keys)
        /\ Len(list') = n
        /\ \A j \in 1 .. n : list'[j] = IF j = 1 THEN k
                                         ELSE IF j <= p THEN list[j - 1]
                                         ELSE list[j]
    BY MovedToFrontProperties
  <1>2. p \in 1 .. n /\ list[p] = k /\ n \in Nat
    BY PositionIsElement, ListLength
  <1>3. DOMAIN list' = 1 .. n /\ DOMAIN list = 1 .. n
    BY <1>1, LenProperties DEF Shaped
  <1> HIDE DEF p, n
  <1>4. \A i, j \in 1 .. n : list[i] = list[j] => i = j
    BY <1>3 DEF Shaped, ListMapAgree
  <1>5. \A i, j \in DOMAIN list' : list'[i] = list'[j] => i = j
    <2> DEFINE old(j) == IF j = 1 THEN p ELSE IF j <= p THEN j - 1 ELSE j
    <2>1. \A j \in 1 .. n : old(j) \in 1 .. n /\ list'[j] = list[old(j)]
      BY <1>1, <1>2
    <2>2. \A i, j \in 1 .. n : old(i) = old(j) => i = j
      BY <1>2
    <2> HIDE DEF old
    <2> QED
      BY <2>1, <2>2, <1>3, <1>4
  <1>6. ASSUME NEW x \in Keys
         PROVE  (\E i \in DOMAIN list' : list'[i] = x)
                  <=> (\E i \in DOMAIN list : list[i] = x)
    <2>1. ASSUME NEW i \in 1 .. n PROVE \E j \in 1 .. n : list'[j] = list[i]
      <3>1. CASE i = p
        BY <3>1, <1>1, <1>2
      <3>2. CASE i < p
        <4>1. i + 1 \in 1 .. n /\ list'[i + 1] = list[i]
          BY <3>2, <1>1, <1>2
        <4> QED
          BY <4>1
      <3>3. CASE i > p
        BY <3>3, <1>1, <1>2
      <3> QED
        BY <3>1, <3>2, <3>3, <1>2
    <2>2. ASSUME NEW j \in 1 .. n PROVE \E i \in 1 .. n : list'[j] = list[i]
      <3>1. CASE j = 1
        BY <3>1, <1>1, <1>2
      <3>2. CASE j # 1 /\ j <= p
        <4>1. j - 1 \in 1 .. n /\ list'[j] = list[j - 1]
          BY <3>2, <1>1, <1>2
        <4> QED
          BY <4>1
      <3>3. CASE j # 1 /\ j > p
        BY <3>3, <1>1, <1>2
      <3> QED
        BY <3>1, <3>2, <3>3, <1>2
    <2>3. (\E i \in 1 .. n : list'[i] = x) <=> (\E i \in 1 .. n : list[i] = x)
      BY <2>1, <2>2
    <2> QED
      BY <2>3, <1>3
  <1> QED
    BY <1>1, <1>5, <1>6 DEF n

\* Unlinking the element of k removes k and nothing else.
LEMMA ListUnlinked ==
  ASSUME Shaped, NEW k \in Keys, entries[k] # Nil, list' = Unlinked(k)
  PROVE  /\ list' \in Seq(Keys)
         /\ Len(list') = Len(list) - 1
         /\ \A x \in Keys : (\E i \in DOMAIN list' : list'[i] = x)
                              <=> (x # k /\ \E i \in DOMAIN list : list[i] = x)
         /\ \A i, j \in DOMAIN list' : list'[i] = list'[j] => i = j
  <1> DEFINE p == PositionOf(k)
             n == Len(list)
  <1>1. /\ list' \in Seq(Keys)
        /\ Len(list') = n - 1
        /\ \A j \in 1 .. n - 1 : list'[j] = IF j < p THEN list[j] ELSE list[j + 1]
    BY UnlinkedProperties
  <1>2. p \in 1 .. n /\ list[p] = k /\ n \in Nat
    BY PositionIsElement, ListLength
  <1>3. DOMAIN list' = 1 .. n - 1 /\ DOMAIN list = 1 .. n
    BY <1>1, LenProperties DEF Shaped
  <1> HIDE DEF p, n
  <1>4. \A j \in 1 .. n : j # p => list[j] # k
    BY <1>2, <1>3 DEF Shaped, ListMapAgree
  <1>5. \A i, j \in DOMAIN list' : list'[i] = list'[j] => i = j
    <2> SUFFICES ASSUME NEW i \in 1 .. n - 1, NEW j \in 1 .. n - 1, i < j
                 PROVE  list'[i] # list'[j]
      BY <1>2, <1>3
    <2>1. list'[i] = list[IF i < p THEN i ELSE i + 1]
          /\ list'[j] = list[IF j < p THEN j ELSE j + 1]
      BY <1>1
    <2> QED
      BY <2>1, <1>2, <1>3 DEF Shaped, ListMapAgree
  <1>6. ASSUME NEW x \in Keys
        PROVE  (\E i \in DOMAIN list' : list'[i] = x)
                 <=> (x # k /\ \E i \in DOMAIN list : list[i] = x)
    <2>1. ASSUME NEW j \in 1 .. n - 1
          PROVE  list'[j] # k /\ \E i \in 1 .. n : list'[j] = list[i]
      <3> DEFINE i == IF j < p THEN j ELSE j + 1
      <3>1. i \in 1 .. n /\ i # p /\ list'[j] = list[i]
        BY <1>1, <1>2
      <3> HIDE DEF i
      <3> QED
        BY <3>1, <1>4
    <2>2. ASSUME NEW i \in 1 .. n, list[i] # k
          PROVE  \E j \in 1 .. n - 1 : list'[j] = list[i]
      <3>1. CASE i < p
        BY <3>1, <1>1, <1>2
      <3>2. CASE i > p
        <4>1. i - 1 \in 1 .. n - 1 /\ list'[i - 1] = list[i]
          BY <3>2, <1>1, <1>2
        <4> QED
          BY <4>1
      <3> QED
        BY <3>1, <3>2, <2>2, <1>2
    <2>3. (\E i \in 1 .. n - 1 : list'[i] = x)
            <=> (x # k /\ \E i \in 1 .. n : list[i] = x)
      BY <2>1, <2>2
    <2> QED
      BY <2>3, <1>3
  <1> QED
    BY <1>1, <1>5, <1>6 DEF n

\* Pushing an absent key k to the front of a full list drops the last element;
\* otherwise it drops nothing.
LEMMA ListPushed ==
  ASSUME Shaped, NEW k \in Keys, entries[k] = Nil, list' = Trimmed(PushFront(k, list))
  PROVE  /\ list' \in Seq(Keys)
         /\ Len(PushFront(k, list)) = Len(list) + 1
         /\ Len(list') = IF Len(list) = Capacity THEN Capacity ELSE Len(list) + 1
         /\ \A j \in 1 .. Len(list') : list'[j] = IF j = 1 THEN k ELSE list[j - 1]
         /\ Elements(PushFront(k, list)) \ Elements(list')
              = IF Len(list) = Capacity THEN {list[Capacity]} ELSE {}
         /\ \A x \in Keys :
              (\E i \in DOMAIN list' : list'[i] = x)
                <=> \/ x = k
                    \/ /\ \E i \in DOMAIN list : list[i] = x
                       /\ x \notin Elements(PushFront(k, list)) \ Elements(list')
         /\ \A i, j \in DOMAIN list' : list'[i] = list'[j] => i = j
  <1> DEFINE n == Len(list)
             pushed == PushFront(k, list)
             m == IF n = Capacity THEN Capacity ELSE n + 1
  <1>1. /\ n \in Nat /\ DOMAIN list = 1 .. n /\ n <= Capacity
        /\ Capacity \in Nat /\ Capacity >= 1
        /\ list \in [1 .. n -> Keys] /\ list \in Seq(Keys)
    BY ListLength, CapacityPositive, LenProperties DEF Shaped, WithinCapacity
  <1>2. list \in Seq(Keys)
    BY DEF Shaped
  <1>3. /\ pushed \in Seq(Keys)
        /\ Len(pushed) = n + 1
        /\ \A j \in 1 .. n + 1 : pushed[j] = IF j = 1 THEN k ELSE list[j - 1]
    BY <1>2, PushFrontProperties
  <1> HIDE DEF n, pushed
  <1>4. m \in 1 .. n + 1 /\ (m = n + 1 \/ m = n)
    BY <1>1
  <1>5. /\ list' \in Seq(Keys)
        /\ Len(list') = m
        /\ \A j \in 1 .. m : list'[j] = pushed[j]
    <2>1. CASE n = Capacity
      <3>1. list' = SubSeq(pushed, 1, Capacity)
        BY <2>1, <1>1, <1>3 DEF Trimmed, pushed
      <3>2. \A j \in 1 .. Capacity : pushed[j] \in Keys
        BY <2>1, <1>1, <1>3, ElementOfSeq
      <3> QED
        BY <3>1, <3>2, <2>1, <1>1, SubSeqProperties
    <2>2. CASE n # Capacity
      <3>1. list' = pushed
        BY <2>2, <1>1, <1>3 DEF Trimmed, pushed
      <3> QED
        BY <3>1, <2>2, <1>3
    <2> QED
      BY <2>1, <2>2
  <1> HIDE DEF m
  <1>6. DOMAIN list' = 1 .. m /\ DOMAIN pushed = 1 .. n + 1
    BY <1>3, <1>5, LenProperties
  <1>7. \A j \in 1 .. m : list'[j] = IF j = 1 THEN k ELSE list[j - 1]
    <2>1. \A j \in 1 .. m : j \in 1 .. n + 1
      BY <1>1, <1>4
    <2> QED
      BY ZenonT(40), <1>3, <1>5, <2>1
  <1>8. \A i, j \in 1 .. n : list[i] = list[j] => i = j
    BY <1>1 DEF Shaped, ListMapAgree
  <1>9. \A j \in 1 .. n : list[j] # k /\ list[j] \in Keys
    BY <1>1 DEF Shaped, ListMapAgree
  <1>10. \A i, j \in DOMAIN list' : list'[i] = list'[j] => i = j
    <2> SUFFICES ASSUME NEW i \in 1 .. m, NEW j \in 1 .. m, i < j
                 PROVE  list'[i] # list'[j]
      BY <1>1, <1>4, <1>6
    <2>1. j - 1 \in 1 .. n /\ list'[j] = list[j - 1]
      BY <1>1, <1>4, <1>7
    <2>2. CASE i = 1
      BY <2>1, <2>2, <1>7, <1>9
    <2>3. CASE i # 1
      <3>1. i - 1 \in 1 .. n /\ list'[i] = list[i - 1] /\ i - 1 # j - 1
        BY <2>3, <1>1, <1>4, <1>7
      <3> QED
        BY <3>1, <2>1, <1>8
    <2> QED
      BY <2>2, <2>3
  <1>11. ASSUME NEW x
         PROVE  x \in Elements(pushed) \ Elements(list') <=> n = Capacity /\ x = list[Capacity]
    <2>1. CASE n # Capacity
      <3>1. m = n + 1
        BY <2>1 DEF m
      <3> QED
        BY <3>1, <2>1, <1>5, <1>6 DEF Elements
    <2>2. CASE n = Capacity
      <3>1. m = n /\ n >= 1
        BY <2>2, <1>1 DEF m
      <3>2. pushed[n + 1] = list[Capacity]
        BY <2>2, <3>1, <1>1, <1>3
      <3>3. Elements(pushed) = Elements(list') \cup {list[Capacity]}
        <4>1. \A y : y \in Elements(pushed) <=> \E j \in 1 .. n + 1 : pushed[j] = y
          BY <1>6 DEF Elements
        <4>2. \A y : y \in Elements(list') <=> \E j \in 1 .. n : pushed[j] = y
          BY <3>1, <1>5, <1>6 DEF Elements
        <4>3. \A j : j \in 1 .. n + 1 <=> j \in 1 .. n \/ j = n + 1
          BY <1>1
        <4> QED
          BY <4>1, <4>2, <4>3, <3>2
      <3>4. list[Capacity] \notin Elements(list')
        <4> SUFFICES ASSUME NEW j \in 1 .. m
                     PROVE  list'[j] # list[Capacity]
          BY <1>6 DEF Elements
        <4>1. CASE j = 1
          BY <4>1, <2>2, <3>1, <1>1, <1>7, <1>9
        <4>2. CASE j # 1
          <5>1. list'[j] = list[j - 1] /\ j - 1 \in 1 .. n /\ j - 1 # n
            BY <4>2, <3>1, <1>1, <1>7
          <5>2. \A a, b \in 1 .. n : list[a] = list[b] => a = b
            BY <1>1 DEF Shaped, ListMapAgree
          <5>3. n \in 1 .. n /\ list[n] = list[Capacity]
            BY <2>2, <3>1, <1>1
          <5> QED
            BY <5>1, <5>2, <5>3
        <4> QED
          BY <4>1, <4>2
      <3> QED
        BY <3>3, <3>4, <2>2
    <2> QED
      BY <2>1, <2>2
  <1>12. Elements(pushed) \ Elements(list') = IF n = Capacity THEN {list[Capacity]} ELSE {}
    BY <1>11
  <1>13. ASSUME NEW x \in Keys
         PROVE  (\E i \in DOMAIN list' : list'[i] = x)
                  <=> \/ x = k
                      \/ /\ \E i \in DOMAIN list : list[i] = x
                         /\ x \notin Elements(pushed) \ Elements(list')
    <2>1. x \in Elements(list') <=> \E i \in DOMAIN list' : list'[i] = x
      BY DEF Elements
    <2>2. x \in Elements(pushed) <=> x = k \/ \E i \in DOMAIN list : list[i] = x
      <3>1. ASSUME NEW i \in 1 .. n PROVE pushed[i + 1] = list[i] /\ i + 1 \in 1 .. n + 1
        BY <1>1, <1>3
      <3>2. ASSUME NEW j \in 1 .. n + 1
            PROVE  pushed[j] = k \/ \E i \in 1 .. n : pushed[j] = list[i]
        <4>1. CASE j = 1
          BY <4>1, <1>3
        <4>2. CASE j # 1
          <5>1. j - 1 \in 1 .. n /\ pushed[j] = list[j - 1]
            BY SMTT(30), ZenonT(40), Z3T(30), <4>2, <1>1, <1>3
          <5> QED
            BY <5>1
        <4> QED
          BY <4>1, <4>2
      <3>3. 1 \in 1 .. n + 1 /\ pushed[1] = k
        BY <1>1, <1>3
      <3>4. x \in Elements(pushed) <=> \E j \in 1 .. n + 1 : pushed[j] = x
        BY <1>6 DEF Elements
      <3>5. (\E j \in 1 .. n + 1 : pushed[j] = x)
              <=> x = k \/ \E i \in 1 .. n : list[i] = x
        <4>1. ASSUME NEW j \in 1 .. n + 1, pushed[j] = x
              PROVE  x = k \/ \E i \in 1 .. n : list[i] = x
          BY <4>1, <3>2
        <4>2. ASSUME NEW i \in 1 .. n, list[i] = x
              PROVE  \E j \in 1 .. n + 1 : pushed[j] = x
          BY <4>2, <3>1
        <4> QED
          BY <4>1, <4>2, <3>3
      <3> QED
        BY ZenonT(40), <3>4, <3>5, <1>1
    <2>3. k \in Elements(list') /\ Elements(list') \subseteq Elements(pushed)
      <3>1. 1 \in 1 .. m /\ list'[1] = k
        BY <1>1, <1>4, <1>7
      <3>2. \A j \in 1 .. m : j \in 1 .. n + 1
        BY <1>1, <1>4
      <3> QED
        BY <3>1, <3>2, <1>5, <1>6 DEF Elements
    <2> QED
      BY <2>1, <2>2, <2>3
  <1>14. \A j \in 1 .. Len(list') : list'[j] = IF j = 1 THEN k ELSE list[j - 1]
    BY ZenonT(40), <1>5, <1>7
  <1>15. \A x \in Keys :
           (\E i \in DOMAIN list' : list'[i] = x)
             <=> \/ x = k
                 \/ /\ \E i \in DOMAIN list : list[i] = x
                    /\ x \notin Elements(pushed) \ Elements(list')
    BY ZenonT(40), <1>13
  <1> QED
    BY ZenonT(40), <1>3, <1>5, <1>10, <1>12, <1>14, <1>15 DEF n, m, pushed

-----------------------------------------------------------------------------
(***************************************************************************)
(* Every critical section of lru.go leaves the list and the map as it must *)
(* find them.                                                              *)
(***************************************************************************)

\* The empty cache NewLRU returns.
LEMMA ShapedInit == CacheInit => Shaped
  <1> SUFFICES ASSUME CacheInit PROVE Shaped
    OBVIOUS
  <1> USE DEF CacheInit
  <1>1. list \in Seq(Keys) /\ Len(list) = 0 /\ DOMAIN list = {}
    BY EmptySeq
  <1>2. ListMapAgree
    BY <1>1 DEF ListMapAgree
  <1>3. WithinCapacity
    BY <1>1, CapacityPositive DEF WithinCapacity
  <1> QED
    BY <1>1, <1>2, <1>3 DEF Shaped

\* A step that leaves all three alone.
LEMMA ShapedSame ==
  ASSUME Shaped, UNCHANGED <<list, entries, gauge>>
  PROVE  Shaped'
  BY DEF Shaped, ListMapAgree, WithinCapacity, Capacity

\* A move to the front, with or without a new entry for the key.
LEMMA ShapedMoved ==
  ASSUME Shaped, NEW k \in Keys, NEW e, e # Nil, entries[k] # Nil,
         list' = MovedToFront(k), entries' = [entries EXCEPT ![k] = e], UNCHANGED gauge
  PROVE  Shaped'
  <1>1. /\ list' \in Seq(Keys) /\ Len(list') = Len(list)
        /\ \A x \in Keys : (\E i \in DOMAIN list' : list'[i] = x)
                             <=> (\E i \in DOMAIN list : list[i] = x)
        /\ \A i, j \in DOMAIN list' : list'[i] = list'[j] => i = j
    BY ListMoved
  <1>2. /\ entries' = [x \in Keys |-> entries'[x]]
        /\ \A x \in Keys : entries'[x] # Nil <=> entries[x] # Nil
    BY DEF Shaped
  <1>3. ListMapAgree'
    BY <1>1, <1>2 DEF Shaped, ListMapAgree
  <1>4. WithinCapacity' /\ gauge' = Len(list')
    BY <1>1 DEF Shaped, WithinCapacity, Capacity
  <1> QED
    BY <1>1, <1>2, <1>3, <1>4 DEF Shaped

\* A hit.
LEMMA ShapedHit ==
  ASSUME Shaped, NEW k \in Keys, GetHit(k)
  PROVE  Shaped'
  <1>1. /\ entries[k] # Nil /\ list' = MovedToFront(k)
        /\ UNCHANGED <<entries, gauge>>
    BY DEF GetHit
  <1>2. entries' = [entries EXCEPT ![k] = entries[k]]
    BY <1>1 DEF Shaped
  <1> QED
    BY ZenonT(40), <1>1, <1>2, ShapedMoved

\* The replacing branch of Store.
LEMMA ShapedReplace ==
  ASSUME Shaped, NEW c \in Callers, storing[c].key \in Keys, StoreReplace(c)
  PROVE  Shaped'
  BY ZenonT(40), ShapedMoved DEF StoreReplace

\* What an insertion drops: of a full cache the key at the back.
Dropped == IF Len(list) = Capacity THEN {list[Capacity]} ELSE {}

\* What the inserting branch of Store does.
LEMMA Inserted ==
  ASSUME Shaped, NEW c \in Callers, storing[c].key \in Keys, StoreInsert(c)
  PROVE  /\ Dropped \subseteq Keys
         /\ storing[c].key \notin Dropped
         /\ entries' = [k \in Keys |-> IF k \in Dropped THEN Nil
                                       ELSE IF k = storing[c].key THEN storing[c]
                                       ELSE entries[k]]
         /\ list' \in Seq(Keys)
         /\ Len(PushFront(storing[c].key, list)) = Len(list) + 1
         /\ Len(list') = IF Len(list) = Capacity THEN Capacity ELSE Len(list) + 1
         /\ \A x \in Keys :
              (\E i \in DOMAIN list' : list'[i] = x)
                <=> x = storing[c].key
                    \/ ((\E i \in DOMAIN list : list[i] = x) /\ x \notin Dropped)
         /\ \A i, j \in DOMAIN list' : list'[i] = list'[j] => i = j
  <1> DEFINE e == storing[c]
             k == e.key
             removed == Elements(PushFront(k, list)) \ Elements(list')
  <1>1. /\ k \in Keys /\ e # Nil /\ entries[k] = Nil
        /\ list' = Trimmed(PushFront(k, list))
        /\ entries' = [x \in Keys |-> IF x \in removed THEN Nil
                                      ELSE IF x = k THEN e ELSE entries[x]]
    BY SMTT(30), ZenonT(40), Z3T(30) DEF StoreInsert
  <1>2. /\ list' \in Seq(Keys) /\ Len(PushFront(k, list)) = Len(list) + 1
        /\ Len(list') = IF Len(list) = Capacity THEN Capacity ELSE Len(list) + 1
        /\ removed = Dropped
        /\ \A x \in Keys :
             (\E i \in DOMAIN list' : list'[i] = x)
               <=> x = k \/ ((\E i \in DOMAIN list : list[i] = x) /\ x \notin removed)
        /\ \A i, j \in DOMAIN list' : list'[i] = list'[j] => i = j
    BY ZenonT(40), SMTT(30), Z3T(30), <1>1, ListPushed DEF Dropped
  <1> HIDE DEF removed, k, e
  <1>3. Dropped \subseteq Keys /\ k \notin Dropped
    <2>1. CASE Len(list) = Capacity
      <3>1. Capacity \in DOMAIN list
        BY <2>1, ListLength, CapacityPositive
      <3>2. list[Capacity] \in Keys /\ entries[list[Capacity]] # Nil
        BY <3>1, ListLength, ElementOfSeq DEF Shaped, ListMapAgree
      <3> QED
        BY <3>2, <2>1, <1>1 DEF Dropped
    <2>2. CASE Len(list) # Capacity
      BY <2>2 DEF Dropped
    <2> QED
      BY <2>1, <2>2
  <1> QED
    BY ZenonT(40), <1>1, <1>2, <1>3 DEF k, e

\* The inserting branch of Store.
LEMMA ShapedInsert ==
  ASSUME Shaped, NEW c \in Callers, storing[c].key \in Keys, StoreInsert(c)
  PROVE  Shaped'
  <1> DEFINE k == storing[c].key
  <1>1. /\ k \notin Dropped
        /\ entries' = [x \in Keys |-> IF x \in Dropped THEN Nil
                                      ELSE IF x = k THEN storing[c] ELSE entries[x]]
        /\ list' \in Seq(Keys)
        /\ Len(list') = IF Len(list) = Capacity THEN Capacity ELSE Len(list) + 1
        /\ \A x \in Keys :
             (\E i \in DOMAIN list' : list'[i] = x)
               <=> x = k \/ ((\E i \in DOMAIN list : list[i] = x) /\ x \notin Dropped)
        /\ \A i, j \in DOMAIN list' : list'[i] = list'[j] => i = j
    BY ZenonT(40), Inserted
  <1>2. storing[c] # Nil /\ gauge' = Len(list')
    BY ZenonT(40) DEF StoreInsert
  <1> HIDE DEF k
  <1>3. /\ entries' = [x \in Keys |-> entries'[x]]
        /\ \A x \in Keys : entries'[x] # Nil
                             <=> x = k \/ (entries[x] # Nil /\ x \notin Dropped)
    BY <1>1, <1>2
  <1>4. ListMapAgree'
    BY <1>1, <1>3 DEF Shaped, ListMapAgree
  <1>5. WithinCapacity'
    BY <1>1, ListLength, CapacityPositive DEF Shaped, WithinCapacity, Capacity
  <1> QED
    BY <1>1, <1>2, <1>3, <1>4, <1>5 DEF Shaped

\* The Get that removes what has expired.
LEMMA ShapedExpired ==
  ASSUME Shaped, NEW k \in Keys, GetExpired(k)
  PROVE  Shaped'
  <1>1. /\ entries[k] # Nil /\ list' = Unlinked(k)
        /\ entries' = [entries EXCEPT ![k] = Nil] /\ gauge' = Len(list')
    BY DEF GetExpired
  <1>2. /\ list' \in Seq(Keys) /\ Len(list') = Len(list) - 1
        /\ \A x \in Keys : (\E i \in DOMAIN list' : list'[i] = x)
                             <=> (x # k /\ \E i \in DOMAIN list : list[i] = x)
        /\ \A i, j \in DOMAIN list' : list'[i] = list'[j] => i = j
    BY ZenonT(40), <1>1, ListUnlinked
  <1>3. /\ entries' = [x \in Keys |-> entries'[x]]
        /\ \A x \in Keys : entries'[x] # Nil <=> x # k /\ entries[x] # Nil
    <2>1. DOMAIN entries = Keys
      BY ZenonT(40) DEF Shaped
    <2>2. QED
      BY ZenonT(40), <1>1, <2>1
  <1>4. ListMapAgree'
    BY <1>2, <1>3 DEF Shaped, ListMapAgree
  <1>5. WithinCapacity'
    BY <1>2, ListLength, CapacityPositive DEF Shaped, WithinCapacity, Capacity
  <1> QED
    BY <1>1, <1>2, <1>3, <1>4, <1>5 DEF Shaped

-----------------------------------------------------------------------------
(***************************************************************************)
(* The live entries, which are what AnswerCache is about.                  *)
(***************************************************************************)

LiveKeys == {k \in Keys : LiveEntries[k] # Nil}

\* The live entries once e is stored and the keys in forgotten are dropped.
LiveWith(e, forgotten) ==
  [k \in Keys |-> IF k = e.key THEN IF clock <= e.expiresAt THEN e ELSE Nil
                  ELSE IF k \in forgotten THEN Nil ELSE LiveEntries[k]]

\* No more entries are live than the capacity: their elements have different places.
LEMMA LiveFit ==
  ASSUME Shaped
  PROVE  \E place \in [LiveKeys -> 1 .. Capacity] :
           \A i, j \in LiveKeys : place[i] = place[j] => i = j
  <1> DEFINE place == [k \in LiveKeys |-> PositionOf(k)]
  <1>1. \A k \in LiveKeys : k \in Keys /\ entries[k] # Nil
    BY DEF LiveKeys, LiveEntries
  <1>2. Capacity \in Nat /\ Len(list) \in Nat /\ Len(list) <= Capacity
    BY CapacityPositive, ListLength DEF Shaped, WithinCapacity
  <1>3. \A k \in LiveKeys : PositionOf(k) \in 1 .. Capacity /\ list[PositionOf(k)] = k
    BY <1>1, <1>2, PositionIsElement
  <1>4. place \in [LiveKeys -> 1 .. Capacity]
    BY <1>3
  <1>5. \A i, j \in LiveKeys : place[i] = place[j] => i = j
    BY <1>3
  <1> QED
    BY ZenonT(40), <1>4, <1>5

\* The replacing branch of Store forgets nothing.
LEMMA LiveReplace ==
  ASSUME Shaped, NEW c \in Callers, storing[c].key \in Keys, storing[c].expiresAt \in Nat,
         clock \in Nat, StoreReplace(c)
  PROVE  LiveEntries' = LiveWith(storing[c], {})
  <1> DEFINE e == storing[c]
  <1>1. e # Nil /\ entries' = [entries EXCEPT ![e.key] = e] /\ clock' = clock
    BY DEF StoreReplace
  <1>2. entries = [k \in Keys |-> entries[k]]
    BY DEF Shaped
  <1>3. e.key \in Keys /\ e.expiresAt \in Nat
    OBVIOUS
  <1> HIDE DEF e
  <1>4. LiveEntries' = LiveWith(e, {})
    BY <1>1, <1>2, <1>3 DEF LiveEntries, LiveWith, Expired
  <1> QED
    BY <1>4 DEF e

\* The inserting branch forgets the entry at the back of a full list, if that is
\* live, and nothing otherwise.
LEMMA LiveInsert ==
  ASSUME Shaped, NEW c \in Callers, storing[c].key \in Keys, storing[c].expiresAt \in Nat,
         clock \in Nat, StoreInsert(c)
  PROVE  \/ LiveEntries' = LiveWith(storing[c], {})
         \/ \E k \in Keys \ {storing[c].key} : LiveEntries' = LiveWith(storing[c], {k})
  <1> DEFINE e == storing[c]
  <1>1. /\ Dropped \subseteq Keys /\ e.key \notin Dropped
        /\ entries' = [k \in Keys |-> IF k \in Dropped THEN Nil
                                      ELSE IF k = e.key THEN e ELSE entries[k]]
    BY ZenonT(40), Inserted
  <1>2. e # Nil /\ clock' = clock /\ e.key \in Keys /\ e.expiresAt \in Nat
    BY ZenonT(40) DEF StoreInsert
  <1> HIDE DEF e
  <1>3. LiveEntries' = LiveWith(e, Dropped)
    BY <1>1, <1>2 DEF LiveEntries, LiveWith, Expired
  <1>4. Dropped = {} \/ \E k \in Keys \ {e.key} : Dropped = {k}
    BY ZenonT(40), <1>1 DEF Dropped
  <1> QED
    BY ZenonT(40), <1>3, <1>4 DEF e

\* Neither a lookup nor the removal of what has expired changes what is live.
LEMMA LiveLookup ==
  ASSUME Shaped, NEW k \in Keys, GetHit(k) \/ GetMiss(k) \/ GetExpired(k)
  PROVE  LiveEntries' = LiveEntries
  <1>1. CASE GetHit(k) \/ GetMiss(k)
    BY <1>1 DEF GetHit, GetMiss, cacheVars, LiveEntries, Expired
  <1>2. CASE GetExpired(k)
    BY ZenonT(40), <1>2 DEF GetExpired, LiveEntries, Expired, Shaped
  <1> QED
    BY <1>1, <1>2

\* As time passes, what has expired is no longer live.
LEMMA LiveTick ==
  ASSUME Shaped, clock \in Nat, Tick,
         \A k \in Keys : entries[k] # Nil => entries[k].expiresAt \in Nat
  PROVE  LiveEntries' = [k \in Keys |-> IF LiveEntries[k] # Nil /\ clock' <= LiveEntries[k].expiresAt
                                        THEN LiveEntries[k] ELSE Nil]
  <1>1. clock' = clock + 1 /\ entries' = entries
    BY DEF Tick
  <1>2. ASSUME NEW k \in Keys
        PROVE  LiveEntries'[k] = IF LiveEntries[k] # Nil /\ clock' <= LiveEntries[k].expiresAt
                                 THEN LiveEntries[k] ELSE Nil
    BY <1>1 DEF LiveEntries, Expired
  <1> QED
    BY <1>2 DEF LiveEntries

-----------------------------------------------------------------------------
(***************************************************************************)
(* The age of what a hit returns.                                          *)
(***************************************************************************)

\* The arithmetic of ageing: t seconds, aged by the whole seconds in elapsed
\* ticks, end when the record's own t seconds end, rounded up to a tick's second.
LEMMA AgeingArithmetic ==
  ASSUME NEW elapsed \in Nat, NEW t \in Nat,
         NEW got, got = IF t > elapsed \div Second THEN t - (elapsed \div Second) ELSE 0
  PROVE  /\ got <= t
         /\ got > 0 => elapsed + got * Second < (t + 1) * Second
         /\ got = 0 => elapsed >= t * Second
  <1> DEFINE by == elapsed \div Second
             rest == elapsed % Second
  <1>1. Second \in Nat /\ Second > 0
    BY SecondAssumption
  <1>2. by \in Nat /\ rest \in 0 .. Second - 1 /\ elapsed = Second * by + rest
    BY <1>1
  <1> HIDE DEF by, rest
  <1>3. got = IF t > by THEN t - by ELSE 0
    BY DEF by
  <1>4. CASE t > by
    <2>1. got = t - by
      BY <1>3, <1>4
    <2>2. got * Second = t * Second - Second * by
      BY <2>1, <1>1, <1>2
    <2>3. (t + 1) * Second = t * Second + Second
      BY <1>1
    <2>4. t * Second \in Nat /\ Second * by \in Nat
      BY <1>1, <1>2
    <2>5. elapsed + got * Second < (t + 1) * Second
      BY <2>2, <2>3, <2>4, <1>1, <1>2
    <2> QED
      BY <2>1, <2>5, <1>2, <1>4
  <1>5. CASE t <= by
    <2>1. Second * by = t * Second + Second * (by - t) /\ Second * (by - t) >= 0
      BY <1>1, <1>2, <1>5
    <2>2. t * Second \in Nat /\ Second * (by - t) \in Int
      BY <1>1, <1>2
    <2>3. elapsed >= t * Second
      BY <2>1, <2>2, <1>2
    <2> QED
      BY <2>3, <1>2, <1>3, <1>5
  <1> QED
    BY <1>2, <1>4, <1>5

\* A section that decrementTTLs aged has the remaining TTLs of the original.
LEMMA DecrementedRemaining ==
  ASSUME NEW section \in Seq(RR), NEW elapsed \in Nat
  PROVE  Remaining(DecrementRRs(section, elapsed \div Second), section, elapsed)
  <1> DEFINE got == DecrementRRs(section, elapsed \div Second)
  <1>1. DOMAIN got = DOMAIN section
    BY DEF DecrementRRs
  <1>2. ASSUME NEW i \in DOMAIN section
        PROVE  /\ got[i].ttl <= section[i].ttl
               /\ got[i].ttl > 0
                    => elapsed + got[i].ttl * Second < (section[i].ttl + 1) * Second
               /\ got[i].ttl = 0 => elapsed >= section[i].ttl * Second
    <2>1. section \in [1 .. Len(section) -> RR] /\ DOMAIN section = 1 .. Len(section)
      BY LenProperties
    <2>2. section[i] \in RR
      BY <2>1
    <2>3. section[i].ttl \in Nat
      BY <2>2 DEF RR
    <2>4. got[i].ttl = IF section[i].ttl > elapsed \div Second
                       THEN section[i].ttl - (elapsed \div Second) ELSE 0
      BY DEF DecrementRRs
    <2> HIDE DEF got
    <2> QED
      BY <2>3, <2>4, AgeingArithmetic
  <1> HIDE DEF got
  <1>3. Remaining(got, section, elapsed)
    BY <1>1, <1>2 DEF Remaining
  <1> QED
    BY <1>3 DEF got

=============================================================================
