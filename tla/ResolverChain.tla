--------------------------- MODULE ResolverChain ---------------------------
(***************************************************************************)
(* The life of a query: ServeDNS and the chain metrics -> query log ->     *)
(* blocklist -> cache -> coalesce -> forward that chain.Build composes,    *)
(* over the answer cache of LRUCache and the failover of upstream.Pool.    *)
(*                                                                         *)
(* A query is a goroutine, one of Callers; its request carries an id of    *)
(* its own and a question section.  Stages that only touch what belongs to *)
(* the query are joined to the next step that touches something shared:    *)
(* the matcher, the cache, the calls in flight, the counters.              *)
(*                                                                         *)
(* golang.org/x/sync/singleflight, dns.Client and http.Client are external,*)
(* and modelled from how coalesce.go and the upstream clients use them.    *)
(***************************************************************************)
EXTENDS LRUCache, CacheTTL, FiniteSets

CONSTANTS
  Requests,      \* question sections that clients send
  Answers,       \* what upstreams answer: an rcode and three sections
  Protocols,     \* the upstreams list: the type of each, "udp" or "doh"
  Ages,          \* the Age a DoH response may have, in seconds
  ZeroID,        \* the id 0
  BlockLists,    \* sets of names the matcher may hold
  MaxSwaps,      \* bound: replacements of the matcher
  Failed,        \* the result (nil, err)
  Panicked       \* a panic instead of a result

\* Variant: the type is left out of the key.
KeyIgnoringType(question) == [name |-> question.name, qtype |-> "A"]

\* A question is a record of a name, a type and the spelling of the name, that
\* is, its letter case.  cache.Key lowers the case.
Key(question) == [name |-> question.name, qtype |-> question.qtype]

\* The response of an upstream repeats the id and the question of the request.
Response(id, qs, a) ==
  [id |-> id, question |-> qs, rcode |-> a.rcode,
   answer |-> a.answer, ns |-> a.ns, extra |-> a.extra]

Empty(rcode) == [rcode |-> rcode, answer |-> << >>, ns |-> << >>, extra |-> << >>]

NumUpstreams == Len(Protocols)

\* The messages that a stage may return.
Msgs ==
  [id : Callers \cup {ZeroID}, question : Requests, rcode : {a.rcode : a \in Answers} \cup {"NXDOMAIN"},
   answer : Seq(RR), ns : Seq(RR), extra : Seq(RR)]

\* config.Validate asks for an upstream.  A section is a list, and a result is nil,
\* an error, a panic or a message.
ASSUME ChainAssumption ==
  /\ Protocols \in Seq({"udp", "doh"}) \ {<< >>}
  /\ Ages \subseteq Nat
  /\ ZeroID \notin Callers
  /\ MaxSwaps \in Nat
  /\ \A qs \in Requests : \A i \in DOMAIN qs : Key(qs[i]) \in Keys
  /\ \A qs \in Requests : Len(qs) \in Nat /\ DOMAIN qs = 1 .. Len(qs)
  /\ \A a \in Answers : {a.answer, a.ns, a.extra} \subseteq Seq(RR)
  /\ Nil \notin Callers
  /\ Nil # Failed /\ Nil # Panicked /\ Failed # Panicked
  /\ \A none \in {Nil, Failed, Panicked} : none \notin Msgs

\* What the chain keeps in the cache.
ChainEntry == [key : Keys, response : Msgs, storedAt : Nat, expiresAt : Nat]

ASSUME ChainEntryAssumption == Nil \notin ChainEntry

VARIABLES
  pc,         \* the stage each query is in
  request,    \* its question section
  reqID,      \* the id in its request message
  cancelled,  \* whether its context is done
  blocked,    \* the block marker in its context
  upstream,   \* the upstream marker in its context, 0 when unset
  attempt,    \* the upstream that Pool.Exchange is asking for it
  call,       \* the query that leads the call it takes part in
  result,     \* of a leader: what its call returned
  ret,        \* what its Resolve returns
  flights,    \* singleflight.Group: the leader of the call in flight for a key
  matcher,    \* the Matcher in the Holder
  swaps,      \* replacements of it so far
  counts,     \* the counters of internal/metrics that the chain increments
  verdicts    \* history: what the matcher has said of a query since it arrived

queryVars ==
  <<pc, request, reqID, cancelled, blocked, upstream, attempt, call, result, ret>>

chainVars == <<queryVars, flights, matcher, swaps, counts, verdicts>>

vars == <<cacheVars, chainVars>>

Outcomes == {"blocked", "nxdomain", "forwarded", "error"}

Counters == Outcomes \cup {"hit", "miss", "coalesced", "ok", "failed", "panic"}

Init ==
  /\ CacheInit
  /\ pc = [q \in Callers |-> "idle"]
  /\ request = [q \in Callers |-> << >>]
  /\ reqID = [q \in Callers |-> q]
  /\ cancelled = [q \in Callers |-> FALSE]
  /\ blocked = [q \in Callers |-> FALSE]
  /\ upstream = [q \in Callers |-> 0]
  /\ attempt = [q \in Callers |-> 1]
  /\ call = [q \in Callers |-> Nil]
  /\ result = [q \in Callers |-> Nil]
  /\ ret = [q \in Callers |-> Nil]
  /\ flights = [k \in Keys |-> Nil]
  /\ matcher \in BlockLists
  /\ swaps = 0
  /\ counts = [c \in Counters |-> 0]
  /\ verdicts = [q \in Callers |-> {}]

-----------------------------------------------------------------------------

Goto(q, stage) == pc' = [pc EXCEPT ![q] = stage]

Returns(q, value) == ret' = [ret EXCEPT ![q] = value]

Count(c) == counts' = [counts EXCEPT ![c] = @ + 1]

\* Every stage but metrics and query-log passes a message on untouched unless
\* it has exactly one question.
Single(q) == Len(request[q]) = 1

KeyOf(q) == Key(request[q][1])

\* A name is a sequence of labels, whose spelling does not matter.  It is blocked
\* if it or one of its parents is on the list.
Match(m, name) == \E i \in DOMAIN name : SubSeq(name, i, Len(name)) \in m

Blocks(m, q) == Match(m, request[q][1].name)

Verdict(m, q) == IF Single(q) THEN {Blocks(m, q)} ELSE {}

-----------------------------------------------------------------------------
(***************************************************************************)
(* Arrival, and the blocklist stage.                                       *)
(***************************************************************************)

\* Variant: the cache stage is outside the blocklist stage.
ArriveAtCache(q, qs) ==
  /\ pc[q] = "idle"
  /\ request' = [request EXCEPT ![q] = qs]
  /\ verdicts' = [verdicts EXCEPT ![q] = IF Len(qs) = 1 THEN {Match(matcher, qs[1].name)}
                                         ELSE {}]
  /\ Goto(q, IF Len(qs) = 1 THEN "cache" ELSE "forward")
  /\ UNCHANGED <<cacheVars, reqID, cancelled, blocked, upstream, attempt, call, result,
                 ret, flights, matcher, swaps, counts>>

\* The server starts a goroutine; the metrics stage installs fresh markers.
Arrive(q, qs) ==
  /\ pc[q] = "idle"
  /\ request' = [request EXCEPT ![q] = qs]
  /\ verdicts' = [verdicts EXCEPT ![q] = IF Len(qs) = 1 THEN {Match(matcher, qs[1].name)}
                                         ELSE {}]
  /\ Goto(q, "block")
  /\ UNCHANGED <<cacheVars, reqID, cancelled, blocked, upstream, attempt, call, result,
                 ret, flights, matcher, swaps, counts>>

PassUnkeyed(q) ==
  /\ pc[q] = "block"
  /\ ~Single(q)
  /\ Goto(q, "forward")
  /\ UNCHANGED <<cacheVars, request, reqID, cancelled, blocked, upstream, attempt, call,
                 result, ret, flights, matcher, swaps, counts, verdicts>>

PassUnblocked(q) ==
  /\ pc[q] = "block"
  /\ Single(q)
  /\ ~Blocks(matcher, q)
  /\ Goto(q, "cache")
  /\ UNCHANGED <<cacheVars, request, reqID, cancelled, blocked, upstream, attempt, call,
                 result, ret, flights, matcher, swaps, counts, verdicts>>

Block(q) ==
  /\ pc[q] = "block"
  /\ Single(q)
  /\ Blocks(matcher, q)
  /\ blocked' = [blocked EXCEPT ![q] = TRUE]
  /\ Returns(q, Response(reqID[q], request[q], Empty("NXDOMAIN")))
  /\ Goto(q, "finish")
  /\ UNCHANGED <<cacheVars, request, reqID, cancelled, upstream, attempt, call, result,
                 flights, matcher, swaps, counts, verdicts>>

-----------------------------------------------------------------------------
(***************************************************************************)
(* The cache stage on the way in.                                          *)
(***************************************************************************)

Lookup(q) == pc[q] = "cache"

CacheHit(q) ==
  /\ Lookup(q)
  /\ GetHit(KeyOf(q))
  /\ Returns(q, [AgedResponse(entries[KeyOf(q)], clock) EXCEPT !.id = reqID[q]])
  /\ Count("hit")
  /\ Goto(q, "finish")
  /\ UNCHANGED <<request, reqID, cancelled, blocked, upstream, attempt, call, result,
                 flights, matcher, swaps, verdicts>>

CacheMiss(q) ==
  /\ Lookup(q)
  /\ GetMiss(KeyOf(q)) \/ GetExpired(KeyOf(q))
  /\ Count("miss")
  /\ Goto(q, "coalesce")
  /\ UNCHANGED <<request, reqID, cancelled, blocked, upstream, attempt, call, result, ret,
                 flights, matcher, swaps, verdicts>>

-----------------------------------------------------------------------------
(***************************************************************************)
(* The coalesce stage: Group.Do.                                           *)
(***************************************************************************)

\* Variant: the call is not registered.
LeadUnregistered(q) ==
  /\ pc[q] = "coalesce"
  /\ flights[KeyOf(q)] = Nil
  /\ call' = [call EXCEPT ![q] = q]
  /\ Goto(q, "forward")
  /\ UNCHANGED <<cacheVars, request, reqID, cancelled, blocked, upstream, attempt, result,
                 ret, flights, matcher, swaps, counts, verdicts>>

\* No call is in flight for the key: this goroutine makes it.
Lead(q) ==
  /\ pc[q] = "coalesce"
  /\ flights[KeyOf(q)] = Nil
  /\ flights' = [flights EXCEPT ![KeyOf(q)] = q]
  /\ call' = [call EXCEPT ![q] = q]
  /\ Goto(q, "forward")
  /\ UNCHANGED <<cacheVars, request, reqID, cancelled, blocked, upstream, attempt, result,
                 ret, matcher, swaps, counts, verdicts>>

\* A call is in flight: this goroutine waits for it, whatever its own context.
Follow(q) ==
  /\ pc[q] = "coalesce"
  /\ flights[KeyOf(q)] # Nil
  /\ call' = [call EXCEPT ![q] = flights[KeyOf(q)]]
  /\ Goto(q, "wait")
  /\ UNCHANGED <<cacheVars, request, reqID, cancelled, blocked, upstream, attempt, result,
                 ret, flights, matcher, swaps, counts, verdicts>>

Followers(q) == {p \in Callers \ {q} : call[p] = q}

-----------------------------------------------------------------------------
(***************************************************************************)
(* The forward stage: Pool.Exchange asks one upstream after another.       *)
(***************************************************************************)

\* The forward stage is about to ask an upstream of type p.
Forwarding(q, p) == pc[q] = "forward" /\ Protocols[attempt[q]] = p

\* UDPClient: the answer is truncated, and is asked for again over TCP.
Truncated(q) ==
  /\ Forwarding(q, "udp")
  /\ Goto(q, "tcp")
  /\ UNCHANGED <<cacheVars, request, reqID, cancelled, blocked, upstream, attempt, call,
                 result, ret, flights, matcher, swaps, counts, verdicts>>

\* DoHClient: the request goes out with the id 0.
PostDoH(q) ==
  /\ Forwarding(q, "doh")
  /\ reqID' = [reqID EXCEPT ![q] = ZeroID]
  /\ Goto(q, "doh")
  /\ UNCHANGED <<cacheVars, request, cancelled, blocked, upstream, attempt, call, result,
                 ret, flights, matcher, swaps, counts, verdicts>>

\* The exchange with an upstream may end.
Asking(q) == Forwarding(q, "udp") \/ pc[q] \in {"tcp", "doh"}

\* What an HTTP cache has held for age seconds.  DoHClient ages it and gives it the id
\* of the caller, in the fields of the message.  The bytes it was decoded from stay in
\* Data, and WriteTo prefers them: of a message that no stage copies (CloneMsg clears
\* Data) the client gets the id 0 and the TTLs as they were.
AgedDoH(q, a, age) ==
  IF Single(q) THEN decrementTTLs(Response(q, request[q], a), age)
  ELSE Response(ZeroID, request[q], a)

\* The ids under which dns.Client may send the request: the one in its fields, or the
\* one in the bytes that an earlier DoH upstream has left in its Data.  (With one
\* question we keep the former: the id of the response is replaced in any case, see
\* CopyFor.)
SentIDs(q) ==
  {reqID[q]} \cup
  {id \in {ZeroID} : ~Single(q) /\ \E i \in 1 .. attempt[q] - 1 : Protocols[i] = "doh"}

\* What the exchange may return.
Received(q) ==
  IF pc[q] = "doh" THEN {AgedDoH(q, a, age) : a \in Answers, age \in Ages}
  ELSE {Response(id, request[q], a) : id \in SentIDs(q), a \in Answers}

\* Variant: the id is not restored.
RestoreIDNever(q) == UNCHANGED reqID

\* The deferred function of DoHClient.Exchange, which runs on every way out, that
\* of a panic included.  It does not pack the request again: see SentIDs.  (UDPClient
\* leaves the id alone.)
RestoreID(q) == reqID' = [reqID EXCEPT ![q] = q]

\* The marker in the context of q names the upstream that answered.
MarkUpstream(q) == upstream' = [upstream EXCEPT ![q] = attempt[q]]

AttemptAnswers(q, m) ==
  /\ Asking(q)
  /\ result' = [result EXCEPT ![q] = m]
  /\ RestoreID(q)
  /\ MarkUpstream(q)
  /\ Count("ok")
  /\ Goto(q, "land")
  /\ UNCHANGED <<cacheVars, request, cancelled, blocked, attempt, call, ret, flights,
                 matcher, swaps, verdicts>>

\* Asking an upstream ended in an error: give up, or go on to upstream "next".
AfterError(q, next, giveUp) ==
  /\ Asking(q)
  /\ RestoreID(q)
  /\ Count("failed")
  /\ IF giveUp THEN /\ result' = [result EXCEPT ![q] = Failed]
                    /\ Goto(q, "land")
                    /\ UNCHANGED attempt
     ELSE /\ attempt' = [attempt EXCEPT ![q] = next]
          /\ Goto(q, "forward")
          /\ UNCHANGED result
  /\ UNCHANGED <<cacheVars, request, cancelled, blocked, upstream, call, ret, flights,
                 matcher, swaps, verdicts>>

\* Variants: the index runs past the last upstream; the loop always ends.
AttemptFailsPastEnd(q) ==
  AfterError(q, attempt[q] + 1, attempt[q] > NumUpstreams \/ cancelled[q])

AttemptFailsAtOnce(q) == AfterError(q, attempt[q], TRUE)

\* An error: the next upstream, unless this was the last or the context is done.
AttemptFails(q) ==
  AfterError(q, attempt[q] + 1, attempt[q] = NumUpstreams \/ cancelled[q])

AttemptPanics(q) ==
  /\ Asking(q)
  /\ result' = [result EXCEPT ![q] = Panicked]
  /\ RestoreID(q)
  /\ Goto(q, "land")
  /\ UNCHANGED <<cacheVars, request, cancelled, blocked, upstream, attempt, call, ret,
                 flights, matcher, swaps, counts, verdicts>>

-----------------------------------------------------------------------------
(***************************************************************************)
(* The way back out.                                                       *)
(***************************************************************************)

\* Variant: the key of the call is not deleted.
LandKept(q) ==
  /\ pc[q] = "land"
  /\ call[q] = q
  /\ pc' = [p \in Callers |-> IF call[p] = q THEN "deliver" ELSE pc[p]]
  /\ UNCHANGED <<cacheVars, request, reqID, cancelled, blocked, upstream, attempt, call,
                 result, ret, flights, matcher, swaps, counts, verdicts>>

\* The call ends: in one critical section of Group its key is deleted and its
\* followers are released.
Land(q) ==
  /\ pc[q] = "land"
  /\ call[q] = q
  /\ flights' = [flights EXCEPT ![KeyOf(q)] = Nil]
  /\ pc' = [p \in Callers |-> IF call[p] = q THEN "deliver" ELSE pc[p]]
  /\ UNCHANGED <<cacheVars, request, reqID, cancelled, blocked, upstream, attempt, call,
                 result, ret, matcher, swaps, counts, verdicts>>

\* What was not coalesced is neither copied nor cached, and leaves as it arrived.
LandUncoalesced(q) ==
  /\ pc[q] = "land"
  /\ call[q] = Nil
  /\ Returns(q, result[q])
  /\ Goto(q, "finish")
  /\ UNCHANGED <<cacheVars, request, reqID, cancelled, blocked, upstream, attempt, call,
                 result, flights, matcher, swaps, counts, verdicts>>

\* Do says "shared" to the followers and to a leader that has any.
Shared(q) == call[q] # q \/ Followers(q) # {}

CountShared(q) == IF Shared(q) THEN Count("coalesced") ELSE UNCHANGED counts

\* Do panics again in every goroutine that took part in a call that panicked.
DeliverPanic(q) ==
  /\ pc[q] = "deliver"
  /\ result[call[q]] = Panicked
  /\ Returns(q, Panicked)
  /\ Goto(q, "finish")
  /\ UNCHANGED <<cacheVars, request, reqID, cancelled, blocked, upstream, attempt, call,
                 result, flights, matcher, swaps, counts, verdicts>>

DeliverError(q) ==
  /\ pc[q] = "deliver"
  /\ result[call[q]] = Failed
  /\ CountShared(q)
  /\ Returns(q, Failed)
  /\ Goto(q, "finish")
  /\ UNCHANGED <<cacheVars, request, reqID, cancelled, blocked, upstream, attempt, call,
                 result, flights, matcher, swaps, verdicts>>

\* Variant: the copy keeps the id of the leader.
CopyForLeader(q) == result[call[q]]

\* The goroutine's copy of the shared response, with its own id.
CopyFor(q) == [result[call[q]] EXCEPT !.id = reqID[q]]

\* Every goroutine of the call takes its copy, and every one of them stores it
\* if computeTTL says so.
DeliverResponse(q) ==
  /\ pc[q] = "deliver"
  /\ result[call[q]] \notin {Failed, Panicked}
  /\ CountShared(q)
  /\ Returns(q, CopyFor(q))
  /\ IF computeTTL(CopyFor(q)) > 0
       THEN StoreStamp(q, KeyOf(q), CopyFor(q), computeTTL(CopyFor(q))) /\ Goto(q, "store")
       ELSE UNCHANGED cacheVars /\ Goto(q, "finish")
  /\ UNCHANGED <<request, reqID, cancelled, blocked, upstream, attempt, call, result,
                 flights, matcher, swaps, verdicts>>

StoreResponse(q) ==
  /\ pc[q] = "store"
  /\ StoreReplace(q) \/ StoreInsert(q)
  /\ Goto(q, "finish")
  /\ UNCHANGED <<request, reqID, cancelled, blocked, upstream, attempt, call, result, ret,
                 flights, matcher, swaps, counts, verdicts>>

\* resolver.Outcome.  The metrics stage has turned a panic into an error.
Outcome(q) ==
  CASE ret[q] \in {Failed, Panicked}   -> "error"
    [] ret[q] \notin {Failed, Panicked} /\ ret[q].rcode = "NXDOMAIN"
                                       -> IF blocked[q] THEN "blocked" ELSE "nxdomain"
    [] OTHER                           -> "forwarded"

\* Variant: a panic is counted as such only.
FinishPanicApart(q) ==
  /\ pc[q] = "finish"
  /\ Count(IF ret[q] = Panicked THEN "panic" ELSE Outcome(q))
  /\ Goto(q, "done")
  /\ UNCHANGED <<cacheVars, request, reqID, cancelled, blocked, upstream, attempt, call,
                 result, ret, flights, matcher, swaps, verdicts>>

\* The metrics stage recovers from a panic and counts the outcome; ServeDNS
\* writes the response, or SERVFAIL in place of an error.
Finish(q) ==
  /\ pc[q] = "finish"
  /\ counts' = [c \in Counters |->
                  IF c = Outcome(q) \/ (c = "panic" /\ ret[q] = Panicked)
                  THEN counts[c] + 1 ELSE counts[c]]
  /\ Goto(q, "done")
  /\ UNCHANGED <<cacheVars, request, reqID, cancelled, blocked, upstream, attempt, call,
                 result, ret, flights, matcher, swaps, verdicts>>

\* What ServeDNS has written, on the wire, for a query that is done.
Reply(q) ==
  IF ret[q] \in {Failed, Panicked} THEN Response(reqID[q], request[q], Empty("SERVFAIL"))
  ELSE ret[q]

-----------------------------------------------------------------------------
(***************************************************************************)
(* The environment.                                                        *)
(***************************************************************************)

Underway(q) == pc[q] \notin {"idle", "done"}

\* The context of a query ends.  Only the forward stage looks at it, and sees
\* one that ended earlier; that of a follower is looked at by nobody.
Cancel(q) ==
  /\ pc[q] \in {"forward", "tcp", "doh", "wait"}
  /\ ~cancelled[q]
  /\ cancelled' = [cancelled EXCEPT ![q] = TRUE]
  /\ UNCHANGED <<cacheVars, pc, request, reqID, blocked, upstream, attempt, call, result,
                 ret, flights, matcher, swaps, counts, verdicts>>

\* A reload replaces the matcher.
Swap(m) ==
  /\ swaps < MaxSwaps
  /\ m # matcher
  /\ matcher' = m
  /\ swaps' = swaps + 1
  /\ verdicts' = [q \in Callers |-> IF Underway(q) THEN verdicts[q] \cup Verdict(m, q)
                                    ELSE verdicts[q]]
  /\ UNCHANGED <<cacheVars, queryVars, flights, counts>>

TimePasses == Tick /\ UNCHANGED chainVars

Step(q) ==
  \/ PassUnkeyed(q) \/ PassUnblocked(q) \/ Block(q)
  \/ CacheHit(q) \/ CacheMiss(q)
  \/ Lead(q) \/ Follow(q)
  \/ Truncated(q) \/ PostDoH(q)
  \/ \E m \in Received(q) : AttemptAnswers(q, m)
  \/ AttemptFails(q) \/ AttemptPanics(q)
  \/ Land(q) \/ LandUncoalesced(q)
  \/ DeliverPanic(q) \/ DeliverError(q) \/ DeliverResponse(q)
  \/ StoreResponse(q)
  \/ Finish(q)

Next ==
  \/ \E q \in Callers : \/ \E qs \in Requests : Arrive(q, qs)
                        \/ Step(q)
                        \/ Cancel(q)
  \/ \E m \in BlockLists : Swap(m)
  \/ TimePasses

Spec == Init /\ [][Next]_vars

\* As long as some goroutine can run, one does, and an exchange ends: UDPClient
\* and DoHClient give every exchange a timeout.  No query is treated fairly by
\* itself; that is not needed, since each takes a bounded number of steps.
FairSpec == Spec /\ WF_vars(\E q \in Callers : Step(q))

-----------------------------------------------------------------------------
(***************************************************************************)
(* Properties.                                                             *)
(***************************************************************************)

\* Every variable has the type it is declared with; in particular the loop of
\* Pool.Exchange stays within the list of upstreams.
TypeOK ==
  /\ pc \in [Callers -> {"idle", "block", "cache", "coalesce", "forward", "tcp", "doh",
                         "wait", "land", "deliver", "store", "finish", "done"}]
  /\ request \in [Callers -> Requests \cup {<< >>}]
  /\ reqID \in [Callers -> Callers \cup {ZeroID}]
  /\ cancelled \in [Callers -> BOOLEAN]
  /\ blocked \in [Callers -> BOOLEAN]
  /\ upstream \in [Callers -> 0 .. NumUpstreams]
  /\ attempt \in [Callers -> 1 .. NumUpstreams]
  /\ call \in [Callers -> Callers \cup {Nil}]
  /\ result \in [Callers -> Msgs \cup {Nil, Failed, Panicked}]
  /\ ret \in [Callers -> Msgs \cup {Nil, Failed, Panicked}]
  /\ flights \in [Keys -> Callers \cup {Nil}]
  /\ matcher \in BlockLists
  /\ counts \in [Counters -> Nat]
  /\ verdicts \in [Callers -> SUBSET BOOLEAN]

\* Two question sections ask the same, whatever the spelling.
AsksTheSame(a, b) ==
  /\ Len(a) = Len(b)
  /\ \A i \in DOMAIN a : a[i].name = b[i].name /\ a[i].qtype = b[i].qtype

\* At most one call per question is at the upstreams at any time: New of
\* coalesce.go promises that "only one call reaches next".
OneCallPerQuestion ==
  \A p, q \in Callers :
    /\ {pc[p], pc[q]} \subseteq {"forward", "tcp", "doh", "land"}
    /\ Single(p) /\ Single(q)
    /\ AsksTheSame(request[p], request[q])
    => p = q

\* Whatever way an answer took (upstream, a call of another query, the cache,
\* the blocklist, an error), it answers what the query that gets it asked, and carries
\* the id of that query on the wire if the query has one question.  (With several
\* questions, nothing repairs what a DoH upstream did to the id.)
ReplyMatches ==
  \A q \in Callers :
    pc[q] = "done" => /\ AsksTheSame(Reply(q).question, request[q])
                      /\ Single(q) => Reply(q).id = q

\* What is cached under a key answers the question of that key.
CacheKeyed ==
  \A k \in Resident : AsksTheSame(entries[k].response.question, <<k>>)

\* A cached answer leaves the cache no later than the first of its records runs
\* out, in whatever section that is, unless min_ttl keeps it longer; a negative
\* one stays for negative_ttl_max at most.
CachedLifetime ==
  \A k \in Resident :
    LET m == entries[k].response
        lifetime == entries[k].expiresAt - entries[k].storedAt
    IN IF IsNegative(m) THEN lifetime <= NegativeTTLMax
       ELSE \A i \in DOMAIN RRs(m) :
              lifetime <= AtLeast(RRs(m)[i].ttl * Second, MinTTL)

\* A query is blocked, or let through, only if some matcher that was active
\* while the query was underway said so: a name that is blocked throughout is
\* never answered from the cache or from a call that was started earlier.
BlockVerdict ==
  \A q \in Callers : pc[q] = "done" /\ Single(q) => blocked[q] \in verdicts[q]

\* A query whose own context has not ended fails only with the call it took part in,
\* and a call fails only when the last upstream has failed or the context of its leader
\* is done.  (Nothing is said of a query whose own context has ended: Resolver asks it
\* to "propagate ctx cancellation", and Group.Do has a follower wait on.)
FailsWithItsCall ==
  \A q \in Callers :
    pc[q] = "done" /\ ret[q] \in {Failed, Panicked} /\ ~cancelled[q] =>
      LET l == IF call[q] = Nil THEN q ELSE call[q]
      IN /\ result[l] = ret[q]
         /\ ret[q] = Failed => attempt[l] = NumUpstreams \/ cancelled[l]

Done == {q \in Callers : pc[q] = "done"}

\* The exchanges that ended in an error: those before the current one, and the one with
\* which Pool.Exchange gave up.
FailedExchanges ==
  {e \in Callers \X (1 .. NumUpstreams) :
     e[2] < attempt[e[1]] \/ (e[2] = attempt[e[1]] /\ result[e[1]] = Failed)}

\* The queries that waited for the call of another one, and got what it returned.
Piggybacked ==
  {q \in Callers : /\ call[q] \notin {Nil, q}
                   /\ pc[q] \in {"store", "finish", "done"} /\ ret[q] # Panicked}

\* The queries of a call that more than one took part in.
InSharedCalls == {q \in Callers : call[q] # Nil /\ Shared(q)}

\* The counters account for the queries: each one that is done has one outcome,
\* each miss is in the coalesce stage or took part in a call, each exchange that
\* succeeded is named in the log line of exactly one query, each that failed is one
\* upstream of one query, each query that piggybacked counts as coalesced, no query
\* does so twice or alone in its call, and each panic is an error too.  (Whether the
\* leader of a shared call counts is left open: Do says that it shared, and the design
\* of the metrics speaks of the others only.)
CountersAgree ==
  /\ counts["blocked"] + counts["nxdomain"] + counts["forwarded"] + counts["error"]
       = Cardinality(Done)
  /\ counts["miss"] = Cardinality({q \in Callers : pc[q] = "coalesce" \/ call[q] # Nil})
  /\ counts["ok"] = Cardinality({q \in Callers : upstream[q] # 0})
  /\ counts["failed"] = Cardinality(FailedExchanges)
  /\ counts["coalesced"] >= Cardinality(Piggybacked)
  /\ counts["coalesced"] <= Cardinality(InSharedCalls)
  /\ counts["error"] >= counts["panic"]
  /\ counts["panic"] = Cardinality({q \in Done : ret[q] = Panicked})

\* Every query that arrives is answered: neither a failure, a panic, a cancelled
\* context nor the end of another query's call leaves one waiting.  (There are
\* finitely many, so that at some point none is under way any more.)
EveryQueryAnswered == <>[](\A q \in Callers : ~Underway(q))

-----------------------------------------------------------------------------
(***************************************************************************)
(* What the contract of Resolver says and the chain does not do.           *)
(***************************************************************************)

\* The contract of Resolver.Resolve asks for "a response with Id and Question
\* matching req"; the cache and coalesce stages set the id alone.
QuestionEchoed ==
  \A q \in Callers : pc[q] = "done" => Reply(q).question = request[q]

=============================================================================
