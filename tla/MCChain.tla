------------------------------ MODULE MCChain ------------------------------
(***************************************************************************)
(* ResolverChain for TLC: three queries, enough for a leader, a follower   *)
(* and one that comes late; one name asked for in two spellings and with   *)
(* two types; a cache of one entry.                                        *)
(***************************************************************************)
EXTENDS ResolverChain, TLC

CONSTANTS q1, q2, q3

TwoQueries == {q1, q2}
ThreeQueries == {q1, q2, q3}

Question(name, qtype, spelling) == [name |-> name, qtype |-> qtype, spelling |-> spelling]

A == Question(<<"a", "example">>, "A", "lower")
AMixed == Question(<<"a", "example">>, "A", "mixed")
AAAA == Question(<<"a", "example">>, "AAAA", "lower")

MCRequests == {<<A>>, <<AAAA>>, <<A, AAAA>>}
SingleRequests == {<<A>>, <<AAAA>>}
SpelledRequests == {<<A>>, <<AMixed>>}

MCKeys == {Key(A), Key(AAAA)}

Record(ttl) == [ttl |-> ttl, minttl |-> NotSOA]
SOA(ttl, minttl) == [ttl |-> ttl, minttl |-> minttl]

\* An answer whose authority section lives for one second, and it for two.
Positive == [rcode |-> "NOERROR", answer |-> <<Record(2)>>, ns |-> <<Record(1)>>, extra |-> << >>]
\* A name error that may be cached, for no longer than NegativeTTLMax.
NoName == [rcode |-> "NXDOMAIN", answer |-> << >>, ns |-> <<SOA(1, 5)>>, extra |-> << >>]
OneAnswer == {Positive}
CacheableAnswers == {Positive, NoName}

NoBlockLists == {{}}
MCBlockLists == {{}, {<<"example">>}}

\* Failover goes from the client that changes the id of the request to the other.
BothProtocols == <<"doh", "udp">>
OneUDP == <<"udp">>

\* Held: an HTTP cache has had the response for a second, after which Positive may
\* not be cached here; over UDP it may.
Fresh == {0}
Held == {1}

MCMessages ==
  {decrementTTLs(Response(id, qs, a), age) :
     id \in Callers, qs \in Requests, a \in Answers, age \in Ages \cup {0}}

Symmetry == Permutations(Callers)

=============================================================================
