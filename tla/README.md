# A TLA+ model of bns

bns is a caching DNS forwarder with a blocklist. This directory models its
concurrent parts, its configuration check, its blocklist parser and its stress
harness in TLA+, checks them with TLC on small instances, and proves their safety
with TLAPS for all instances. Paths are relative to `src/`; `PROJECT.json` maps
each definition to its lines.

## The system

| Part | State | Operations | Interacts with |
|---|---|---|---|
| Answer cache, `internal/cache` | list, map, two metrics; one mutex | `Store`, `Get` | cache stage |
| Lifetimes, `cachestage/cache.go` | none | `computeTTL`, `minTTL`, `findSOA` | cache stage |
| Resolver chain, `internal/resolver/...` | per query: request, context, markers, result; shared: calls in flight, counters | `ServeDNS`, `Resolve` of each stage | cache, pool, matcher |
| Upstream pool, `upstream/pool.go` | position in the list | `Exchange` | clients |
| Upstream clients, `upstream/{udp,doh}_client.go` | round robin counter, HTTP connections | `Exchange` | network |
| Blocklist cache, `blocklist/cache_store.go` | a body and a sidecar file per URL | `Write`, `Read`, `ReadMeta`, `Sweep` | fetcher, HTTP sources |
| Fetcher, `blocklist/http_fetcher.go` | pending poke, ticker | `FetchOne`, `Run`, `RefreshNow` | store, reload |
| Parser and matcher, `blocklist/{parse,matcher}.go` | none | `ParseLine`, `NewMatcher`, `Match` | loader, block stage |
| Sources, loader, holder, `blocklist/*.go` | the matcher in use | `Load`, `Swap` | fetcher, SIGHUP, block stage |
| Configuration, `internal/config` | none | `Validate` | process |
| Process, `cmd/bns/serve.go` | errgroup, context, signals | startup, reload, shutdown | everything |
| DNS server, `internal/server` | two listeners | `Serve`, `Ready`, `Shutdown` | process |
| Admin and health | server, three flags | `Serve`, `Shutdown`, setters | process |
| Stress harness, `internal/stress` | two child processes, a load, two scrapes | `Run` | a bns |

What is hard about it:

* `Store` stamps an entry before it takes the lock; list, map and metrics are
  changed by four paths.
* Queries for one question share a call that runs with the context of whoever
  came first, and that may fail, be cancelled or panic.
* The matcher is swapped while queries are under way.
* A body and its sidecar are two files; any file operation may fail, and a crash
  or a loss of power may come between any two.
* The fetcher and the SIGHUP goroutine reload concurrently.
* Six goroutines of an errgroup must all end, whichever fails first.
* The harness must reap its processes and report what the load saw, whichever of
  them dies, and although the server counts queries nobody waits for any more.

`PROJECT.json` lists these as hazards, each at its line.

## Modules

| Module | Models |
|---|---|
| `DNSMessage` | a `dns.Msg` reduced to id, question, rcode and the TTLs of its sections; `decrementTTLs` |
| `LRUCache` | `internal/cache/lru.go`. `StoreStamp` is `Store` up to `Lock`; `StoreReplace` and `StoreInsert` are its two branches under the lock; `GetMiss`, `GetExpired`, `GetHit` are the outcomes of `Get` |
| `LRUHistory` | `LRUCache` with history variables (last use, last store, last hit), which never restrict it, and the properties |
| `AnswerCache` | what the cache promises: a bounded map from keys to live entries, without a list, an order or metrics. the LRU implements it, by itself (`LRUHistory`) and in the chain; the mapping keeps the entries that have not expired |
| `CacheTTL` | `computeTTL` and its helpers as operators |
| `ResolverChain` | a query from `ServeDNS` to its reply, composed with `LRUCache` and `CacheTTL`; the failover of `Pool.Exchange` over UDP and DoH clients (retry over TCP, id 0 on the wire, HTTP Age); `Holder.Swap` |
| `BlocklistParse` | `ParseLine`, `isValidFQDN`, the readers with their scanner errors, `NewMatcher` and `Match`, on words split into labels |
| `BlocklistStore` | the files of the cache, `FetchOne`, `Write` and `Sweep` operation by operation, crashes, losses of power, restarts with another configuration |
| `BlocklistRefresh` | extends `BlocklistStore` with `Run`, `RefreshNow`, `reloadFromDisk`, `Loader.Load` source by source, the SIGHUP goroutine and the end of the context |
| `Config` | `Validate` with its checks, and what `runServe` makes of the fields |
| `Lifecycle` | `runServe` from the check of its configuration, its errgroup, the two listeners, the admin server, readiness, exit status |
| `Stress` | `Run` of `internal/stress/orchestrator.go` from its preparation to the deferred `terminate` of its processes, the load, the scrapes and `Diff` |
| `MC*` | the constants for TLC; `MCBlocklist` holds the texts of blocklists |
| `*Proofs` | the theorems, see below |

Definitions that begin with "Variant" in their comment are deliberate mistakes.
They are not part of any specification: each shows that a property notices it.

What is abstracted. Messages keep only what the code looks at. A stage that only
touches a query's own data is joined to the next step that touches shared data.
A body is a version number, whose text `Body` gives; `Torn` is a file half
written. The set `recoverable` holds every directory a loss of power may leave:
renames and removals are lost from the latest backwards, down to the last sync of
the directory, as on a file system that journals them in order. In `Stress` a fault
is anything that fails without a cause in the model (a lost packet, a process that
dies, a signal);
`Because` says which failures need one. External code (`singleflight`,
`dns.Server`, `http.Server`, exchanges with upstreams and HTTP servers, dnspyre,
the file system, the processes) is modelled from its use; a `dns.Server` shut down
before its init is over may or may not notice, as the comment of `Server.Shutdown`
warns.

## Runs

| Run | States | Shows |
|---|---|---|
| `lru` | 442,689 | list, map and metrics agree; only expired or least recently used entries leave; hits are fresh; the LRU implements `AnswerCache` |
| `chain` | 758,590 | one call per question, failures stay with their call, counters account for all queries and exchanges, nothing is cached for too long |
| `chain_answered` | 545,944 | replies belong to their queries, block verdicts under swaps, what is cached under which key, and every query is answered |
| `store` | 289,884 | no reader sees half a body or one that was refused, no sidecar is ahead of its body, the cache converges |
| `refresh` | 1,346,461 | the matcher is always of a complete load; the fetcher installs what is cached; a new body in any fetch of a cycle is loaded |
| `refresh_live` | 57,488 | the matcher blocks exactly what the lines of its sources list; new bodies take effect unless the last reload failed, each SIGHUP causes a cycle, both goroutines stop |
| `lifecycle` | 59,098 | readiness is not early, failures are not clean exits, what `Validate` accepts is usable, shutdown ends |
| `stress` | 586,013 | no process is left, a run passes only with a report that accounts for every query and errors within the limit, the report covers the answers, `Run` fails only for a reason and always returns |

Four runs end in a counterexample, each to a sentence of the repository:

| Run | The repository says | The code |
|---|---|---|
| `question_echo` | `resolver.go:21`: a response has "Id and Question matching req" | the cache and coalesce stages set the id only; with other letter case the question differs |
| `reload_race` | HTTP blocklist design, 166: a fetch with a new body leads to a fresh matcher, "one matcher snapshot" | a concurrent SIGHUP reload that read earlier may swap later, and the old matcher stays |
| `listener_failure` | `server.go:43`: "until either errors" | `Serve` waits for both listeners |
| `mini_run` | `cmd/bns-stress/main_test.go:80-82`: `Run` with the bns of this repository returns no error and leaves `report.md`; stress design, 109: a process that exits early leads to a "`FAILED` marker file" | `orchestrator.go:182` passes `--upstream` and `--blocklist`, which `newServeCmd` does not define; bns exits, nobody looks, and `Run` fails at its deadline with neither file |

Other sentences of the repository that the code does not keep are left open by the
properties, which take neither side:

| The repository says | The code | The property |
|---|---|---|
| `resolver.go:22`: implementations "propagate ctx cancellation" | a follower waits in `Group.Do`, which takes no context, although its own client has gone | `FailsWithItsCall` speaks of queries that were not cancelled |
| `resolver.go:21`: "Id ... matching req" | a query with two questions passes the stages by; its reply is written from the bytes of the DoH response, whose id is 0 | `ReplyMatches` asks for the id where there is one question |
| MVP design, 243-244: coalesced are the "callers who did NOT initiate the upstream call" | `singleflight` says "shared" to the leader too, and it counts | `CountersAgree` bounds the counter: all the followers, at most everyone in a shared call |
| `cache_store.go:92`: after a failed sidecar write "the next fetch will lose ETag" | the sidecar of the body before stays, and its ETag is sent | `Converges` holds because that ETag no longer matches |
| `serve.go:230-231`: `Ready` comes "before any shutdown could race with init" | the shutdown goroutine does not wait for it | `ShutdownEnds` excepts a listener that had not started |
| stress design, 109: "Partial reports are never claimed as successful" | a load that was interrupted, or whose mock died, passes if its errors are within the limit | `VerdictSound` does not speak of the length of the load |

Bounds.

* `lru`: three keys over a capacity of two make eviction, replacement and expiry
  compete; two callers inside `Store` overtake each other; half-second ticks give
  ages that are not whole seconds; five calls (`MaxOps`) fill the cache, evict and
  hit.
* Chain: three queries are a leader, a follower and a latecomer. `chain_answered`,
  with multi-question requests, swaps and time, has two. One DoH and one UDP
  upstream give a failover from a request whose id was changed; answers over DoH
  are one second old (`Ages`), after which one of them may not be cached; a cache of
  one entry gives evictions. `MaxSwaps` and `MaxTime` bound swaps and the clock.
* Store: two URLs, one of which a restart may drop; three versions, one of them
  an error page without entries and one without a byte, which `FetchOne` accepts;
  `MaxChanges`, `MaxFaults`, `MaxCrashes` bound what the environment does. Two
  crashes allow one during the recovery from the other.
* Refresh: one edit removes the file or gives it an overlong line, during any load;
  a fault makes a source unreadable once; one SIGHUP is enough for the race.
  Liveness is checked with one URL.
* Lifecycle: the default configuration, others that are accepted, and one for each
  check of `Validate` that a field can fail.
* Stress: two queries, two probes in a row, two faults and one tolerated I/O
  error, with a bns of its own, one that is there already, both and none. The bns
  that `Run` starts is that of this repository (`MiniRun`), or one that has the flags
  that `Run` passes.

Deadlock is not checked where the system may come to rest: all queries answered,
the process exited, `Run` returned, or a bound reached. `store` checks it.

## Fairness

* Chain: weak fairness of the queries together. A goroutine that can run does run,
  and both clients give every exchange a time limit, so that an exchange ends.
* Store: weak fairness of the fetcher; requests have a time limit and the file
  system answers. Faults are finite (`MaxFaults`). `Converges` is about servers
  that do not return to an earlier version (`MayRevert` is false): with one that
  does, the stale sidecar makes it answer 304 for another body.
* Refresh: weak fairness of both goroutines, and strong fairness of receiving a
  poke and of noticing the end of the context, because `select` chooses at random
  among the ready cases. `FetchesTakeEffect` supposes that from some time on the last
  reload has not failed: a failed one is not tried again, since the next fetch is a
  304.
* Lifecycle: weak fairness of the steps that make progress; nothing has to fail.
  `ShutdownEnds` excepts a listener that had not started when it was shut down,
  which the comment of `Server.Shutdown` warns of.
* Stress: weak fairness of the steps of `Run`, of a bns that can start or has to
  end, and of the failures that have a cause: every wait of `Run` has a deadline,
  and `terminate` kills a process ten seconds after SIGINT.

## Proofs

Every safety property that a passing run checks is proved for all values of the
constants. None of them is inductive alone; each module begins with the strengthening it
needs. A proof has one lemma per action or group of actions that change the same
variables, and a lemma for the steps that change none of them.

| Module | Theorems | What carries them |
|---|---|---|
| `CacheProofs` | lemmas on `lru.go` | what each operation does to list, map and live entries, whoever calls it; `AgeingArithmetic`, that rounding an age down loses less than a second |
| `LRUProofs` | `CacheTypeCorrect`, `CacheConsistent` (`ListMapAgree`), `MetricsExact`, `EntriesFaithful`, `EvictionIsLRU`, `HitsAreFresh`, `LRUImplementsAnswerCache` | `IInv`: that the list is in order of use depends on each key being in it once, that the map is right after an eviction on list and map agreeing; `UseBounded` adds that no key was used later than the last call. The two action properties and the refinement follow from `IInv` and one step |
| `ChainProofs` | `ChainTypeCorrect`, `CoalesceIsExclusive`, `RepliesMatch`, `CacheIsKeyed`, `LifetimesBounded`, `FailuresAreShared`, `VerdictsAreTimely` | lemmas on `computeTTL` (bounds of a minimum over the records), then `ChainInv`: for a query at each stage, which call it leads or follows, which id its request carries, what its call has returned, what it is about to return, what the cache holds and what the matcher has said |
| `ChainCacheProofs` | `ChainCacheConsistent`, `ChainCacheIsAnswerCache`, `ChainHitsAreFresh` | `CacheSteps`: a step of the chain is a lookup, half a `Store` of a message with a positive lifetime, a tick, or nothing to its cache; then the lemmas of `CacheProofs` |
| `CounterProofs` | `CountersAccount`, `NobodyIsStuck`, `QueriesAdvance` | `CountInv`: each counter is the size of a set of queries (`Tallied`), or of pairs of a query and an upstream that failed it (`FailuresCounted`). That a query enters such a set once and leaves none depends on how calls end: each call has a leader (`Rooted`) that is at the upstreams while its key is in the group (`OpenFlights`), and nobody leaves a call before it has landed (`Over`). `ProgressInv`: who waits has a leader that has not landed (`Awaited`), and an entry is in hand exactly between the two halves of `Store` (`Staged`) |
| `BlocklistProofs` | of the store: `StoreTypeCorrect`, `BodiesAreWhole`, `SidecarsFollow`, `NotModifiedIsSound` | `InWrite`: what the steps of `Write` have done before a rename; the properties speak of every directory in `recoverable`. `FreshInv`, for servers that do not go back: the body is the newest that was held, and nothing older is written over it |
| | of the reloads: `MatcherIsComplete`, `CyclesReload`, `FetcherSwapsWhatIsCached`, `BodiesReadAreWhole`, `SignalsAreHeld` | `RefreshInv`: the matcher comes from a load, so what holds of it must hold of every load under way (`LoadsComplete`, `FetcherLoads`); that no new body is forgotten is a matter of what a cycle owes the matcher, the body being written excepted (`NothingOwed`) |
| | of the lists: `BlocksWhatIsListed` | that two words with the same text, but for case and final dot, have the same canonical form (`TextDecides`, `CanonicalWord`), that `Match` finds an entry exactly when it is a suffix (`SuffixIsBelow`), and so line by line (`LineBlocks`) and source by source |
| `LifecycleProofs` | `TypeCorrect`, `ReadinessIsSound`, `CleanExitIsAsked`, `ValidateIsSound`, `GroupStops`, `StartedListenersStop`, `ProcessIsBounded` | `Inv`: the group only starts with a valid configuration, the SIGHUP goroutine witnesses that the context is done once the group is empty, "canceled" is the first error only after a signal. `ShutdownInv`: where the shutdown goroutine stands and what it has done to the admin server |
| `StressProofs` | `ChildrenAreReaped`, `VerdictIsSound`, `ReportCoversAnswers`, `RunsComplete`, `OwnFlagsNeverServe`, `RunIsNeverStuck`, `RunAdvances` | `StopOrder`: processes are started before `Run` returns and stopped one after the other; `Accounted`: every query is in one counter; `Measured`: a bns that went away stays away; `Covered`: between the scrapes, what was counted and what is still to be counted never exceed what was asked; `Flawless`: without a fault, the bns that `Run` depends on runs; `Awaits`: what `Run` waits for is there |

`RefreshInv` was also checked with TLC on the constants of `refresh`, and `Linked`
and `Tallied` of `CountInv` on those of `chain`.

The cache twice. `LRUProofs` lets any number of callers store and look up anything,
at any time. `ChainCacheProofs` proves the same of the cache with the queries of the
chain as its callers, where every query of a call stores its own copy of the one
answer: it refines `AnswerCache`, and what a query takes from it is the live entry
of its question, with the time since the store taken off its TTLs.

Progress. Liveness needs fairness, which is out of the prover's reach. What it rests
on besides is proved where it says something: that nobody is stuck and nothing is
lost, and that every step counts.

| Liveness property | Nobody is stuck, nothing is lost | Every step counts |
|---|---|---|
| `EveryQueryAnswered` | `NobodyIsStuck`: a query can take a step, or waits for a leader that can | `QueriesAdvance`: the rank of no query ever rises, and its own steps lower it; the rank begins at 8 plus twice the number of upstreams |
| `ShutdownEnds` | `GroupStops`: once the context is done, a step is possible unless a listener was missed; `StartedListenersStop`: none is missed that had started before | `ProcessIsBounded`: each step uses up one of 22 |
| `RunReturns` | `RunIsNeverStuck`: until `Run` returns, a statement, a failure with a cause or the start of bns is possible | `RunAdvances`: statements and failures of `Run` lower its rank, and only a lost probe raises it |
| `Converges` | `NotModifiedIsSound`: a 304 is only ever taken for a body that is current, although a failed write leaves an older sidecar, because that one no longer matches | |
| `HangupRefetches` | `SignalsAreHeld`: an unanswered SIGHUP is in a channel or with the goroutine that will poke the fetcher | |

That a step is possible is written out as a condition on the state (`Ready`,
`GoesOn`), since the prover has no `ENABLED`. TLC has compared each of these
conditions with `ENABLED` in all reachable states of small instances, those of
`lifecycle` (where the 22 steps are attained) and `stress` among them.

Assumptions, all on constants and named in the module that declares them:
`SecondAssumption`, `LRUAssumption` (the capacity is any integer, since `NewLRU`
clamps it), `NilAssumption`, `HistoryAssumption`, `TTLAssumption` (`min_ttl` is any
integer, since `Validate` does not look at it), `ChainAssumption`,
`ChainEntryAssumption` (`Nil` is not an entry), `StoreAssumption`,
`RefreshAssumption`, `TextAssumption` (the texts are made of labels, and labels with
the same text are the same label, but for the case they are written in),
`LifecycleAssumption`, `StressAssumption`. The set of queries may be infinite:
`CounterProofs` shows that the sets it counts stay finite.

`RunsComplete` and `OwnFlagsNeverServe` belong together. The first says that `Run`
fails without a fault only where nothing can serve the address (`CanServe`). The
second, that the bns of this repository cannot: `newServeCmd` (`cmd/bns/serve.go:48`)
does not define the flags that `orchestrator.go:182` passes, and `README.md:112` says
that `--blocklist` "has been removed"; without another bns at the address, `Run` can
only return an error.

What is only model-checked is liveness (`EveryQueryAnswered`, `Converges`,
`FetchesTakeEffect`, `HangupRefetches`, `ShutdownCompletes`, `ShutdownEnds`,
`RunReturns`): the step from the theorems above to "eventually" needs fairness.

## Not modelled

* The round robin of DoH addresses and of the bootstrap dialer; the several ways in
  which a DoH exchange fails are one error.
* The merge of flags, environment and file into a configuration, done by viper.
* Histograms, log lines, HTTP handlers that only read, the report's formatting, the
  scenarios' tables of queries, the answers of the mock upstream and the test
  helpers.
