---------------------------- MODULE AnswerCache ----------------------------
(***************************************************************************)
(* What the cache stage may rely on, whatever the cache is made of: a map  *)
(* from keys to live entries.  A store takes effect at one moment between  *)
(* its call and its return; an entry stays until another is stored under   *)
(* its key, until its lifetime is over, or until the store of another key  *)
(* makes the cache forget it, which happens to one entry at most; no more  *)
(* than the capacity are held.  An answer is the entry of its key with the *)
(* time since the call of its store taken off its TTLs.                    *)
(*                                                                         *)
(* The LRU implements it, by itself (see Abstract in LRUHistory) and in    *)
(* the resolver chain (see Cached in ChainCacheProofs).                    *)
(***************************************************************************)
EXTENDS DNSMessage

CONSTANTS Callers, Keys, Entry, Capacity, Nil

VARIABLES
  live,     \* the live entry of a key, or Nil
  pending,  \* the entry that a caller is storing, or Nil
  now,      \* the time
  answer    \* the last answer that was given

state == <<live, pending, now, answer>>

Alive(e, t) == t <= e.expiresAt

Init ==
  /\ live = [k \in Keys |-> Nil]
  /\ pending = [c \in Callers |-> Nil]
  /\ now = 0
  /\ answer = [key |-> Nil, at |-> 0, response |-> Nil]

StoreCalled(c) ==
  /\ pending[c] = Nil
  /\ pending'[c] \in Entry /\ pending'[c].storedAt = now
  /\ pending' = [pending EXCEPT ![c] = pending'[c]]
  /\ UNCHANGED <<live, now, answer>>

\* The map after a store: an entry that is late may be dead on arrival.
With(e, forgotten) ==
  [k \in Keys |-> IF k = e.key THEN IF Alive(e, now) THEN e ELSE Nil
                  ELSE IF k \in forgotten THEN Nil ELSE live[k]]

\* There is a place for each key of S.
Fits(S) == \E place \in [S -> 1 .. Capacity] : \A i, j \in S : place[i] = place[j] => i = j

StoreReturns(c) ==
  /\ pending[c] # Nil
  /\ \/ live' = With(pending[c], {})
     \/ \E k \in Keys \ {pending[c].key} : live' = With(pending[c], {k})
  /\ Fits({k \in Keys : live'[k] # Nil})
  /\ pending' = [pending EXCEPT ![c] = Nil]
  /\ UNCHANGED <<now, answer>>

Get(k) ==
  /\ live[k] # Nil
  /\ answer' = [key |-> k, at |-> now,
                response |-> decrementTTLs(live[k].response, (now - live[k].storedAt) \div Second)]
  /\ UNCHANGED <<live, pending, now>>

Tick ==
  /\ now' = now + 1
  /\ live' = [k \in Keys |-> IF live[k] # Nil /\ Alive(live[k], now') THEN live[k] ELSE Nil]
  /\ UNCHANGED <<pending, answer>>

Next ==
  \/ \E c \in Callers : StoreCalled(c) \/ StoreReturns(c)
  \/ \E k \in Keys : Get(k)
  \/ Tick

Spec == Init /\ [][Next]_state

=============================================================================
