# Verification of the ingestion plane

TLA+ models of this repository, the TLC runs that check them and the theorems
TLAPS proves about them. The system takes log lines in over HTTP, mines
templates from them, samples them, and stores raw and processed lines in Loki;
template candidates go to an index that a planner searches.

Paths below are relative to the repository's root.

## Inventory

| Component | State | Operations | Talks to |
|---|---|---|---|
| gateway HTTP server and pipeline, `gateway/pkg/server/http*.go` | raw queue, five channels, worker goroutines, `isRunning`, the server's mutex | handlers of three protocols, `enqueueRawBatch`, `runRawWorker`, `runMinerToSamplerBridge`, `runSamplerToLokiBridge`, `Start`, `Stop` | channels to the batchers, calls to the sinks and the index feed |
| gateway miner batcher and client, `gateway/pkg/miner` | batch buffer, timer | collect, flush (join by `record_index`, fallback), `Stop`; retries with a timeout per attempt | miner service over gRPC |
| gateway sampler batcher, client and breaker, `gateway/pkg/sampler` | batch buffer, ticker; failure count and reset time | collect, flush, route, `Stop`; `DecideBatch`; `Open`, `Success`, `Fail` | sampler service over gRPC |
| gateway index feed client, `gateway/pkg/indexfeed` | none | `PublishCandidate` with retries | index feed service over gRPC |
| gateway Loki sink (two instances), `gateway/pkg/sink/loki/loki.go` | stream buffers, counters, a mutex, the ticker goroutine | `Enqueue`, `EnqueuePushRequest`, `flushDue`, `flushAll`, `flushStream`, `postWithRetry`, `Stop` | Loki over HTTP |
| gateway gRPC server and main, `grpc.go`, `server.go`, `cmd/main.go` | listener, `isRunning`, a mutex | `Start`, `Stop`, `IsRunning`, `Push` | the ingest handler |
| gateway ingest, `gateway/pkg/ingest` | none | normalisation, schema detection, redaction, emission to standard output | |
| sampler service, `sampler/pkg` | Redis counters, minute buckets, EMA | `DecideBatch`: `Touch`, then the policy ladder of `evaluate` | Redis |
| index feed service, `indexfeed/pkg` | templates and statistics in PostgreSQL, points in Qdrant | `handleCandidate` | both stores |
| planner, `planner/pkg` | none | search, fetch, boost and rank | Qdrant, PostgreSQL |
| miner service, `miner/main.py` | templates and exemplars in Redis, the drain tree | `Analyze` on a pool of threads | Redis |
| documentation site's script, `docs/assets/js/application.js` | toggle, timers, result stack, index, promises, cookie, scroll offsets, menu styles | handlers of keys, clicks, scrolls, resizes; timers; fetches | browser, GitHub |
| contracts, deploy, docs | | generated code, manifests, documentation | |

What is hard about them: two flushers and any number of enqueuers share the
sink's buffers and counters, and posts happen outside the mutex; five
goroutines hand records on over bounded channels with blocking sends while
`Stop` takes them down one by one; every call to another service has a timeout
and a retry, so it may have been carried out although it failed; the services
write to two stores, or read and write Redis in separate calls. PROJECT.json
lists these hazards at their lines. The site's script is third-party code
(Material for MkDocs with lunr, promise-polyfill and js-cookie) that the
repository carries as a source file. It runs in one thread, and what is hard
about it is that every handler may be followed by any other before the timers,
animations and fetches it started come back.

What makes each component correct:

* Loki sink: an admitted entry is settled once, as sent or as dropped; the
  counters the drop policy reads are exact; droppable entries do not pass the
  limit; what is counted as sent is in Loki; a stream is stored in order.
* Pipeline: an accepted request's records go through once and in order to the
  sink or to the suppressed channel, and are offered to the index feed once; a
  refused request leaves nothing in the pipeline; `Stop` ends and loses nothing.
* Sampler: a record is decided once; what is suppressed is represented by what
  is kept; the breaker opens on failures in a row; errors are kept.
* Index feed: what a search finds has its row; what was accepted is in both
  stores; late handlers take nothing back.
* Miner: the first `first_seen` stands, and times are those of records.
* Site script: a reaction runs once and in order; the index finds what the
  documents hold; the page, the list, the marks and the menus are what the
  reader's last action made of them, whatever fires late.
* Servers: `Stop` ends, may be called twice, and does not wait for itself.

## Plan

| | Module | Content | State |
|---|---|---|---|
| 1 | `LokiSink`, `LogDelivery` | the sink and what it promises | checked |
| 2 | `GatewayPipeline` | handlers, workers, batchers, Stop | checked |
| 3 | `GatewayPipelineProofs` | types and capacities, order, index feed; answers, routing, the join of the workers | proved |
| 4 | `LokiSinkProofs` | types, ownership, counters; what is sent is stored, the refinement of `LogDelivery`, copies; order | proved |
| 5 | `Sampling`, `SamplingProofs` | client, breaker, service and Redis, end to end | checked and proved |
| 6 | `MinerMemory`, `IndexFeed`, composed by `TemplateCatalog`; `CatalogProofs` | from a record to the two stores, with retries and abandoned handlers | checked and proved |
| 7 | `Promises`, with `PromiseProofs`; `SearchIndex`, with `IndexProofs`, `TokenSetProofs` | the libraries of the site's script, against what they promise | checked and proved |
| 8 | `SearchPanel`, `SearchResult`, `SourceFacts`, `PageScroll`, `NavCollapse`, `NavScrolling`, with `PageProofs` | its components | checked and proved |

The order follows the damage: losing or duplicating log lines first, then
deciding wrongly about them, then the catalog, then the documentation site.
Modules 5 and 6 meet the pipeline only through answers that `GatewayPipeline`
leaves open, so they are checked on their own. Every safety property of a
passing run is proved; the three liveness properties are left to TLC.

## LokiSink

One action is one critical section of `s.mu`, or one HTTP attempt outside it.

| Model | Code |
|---|---|
| `pending` | rest of the loop of the enqueue call that holds `s.mu`; `MutexFree` is its emptiness |
| `buffer`, `labels` | `streams[key].entries`, `.labels`; `None` when the key has no buffer yet |
| `usedEntries`, `usedBytes` | the fields of the same names |
| `due`, `taken` | `toFlushKeys` / `keys` and the popped `entries` of each of the two goroutines that run `flushStream` |
| `attempt`, `verdict` | the loop of `postWithRetry` and its result |
| `ticker`, `phase` | the goroutine `Start` spawns; where `Stop` is |
| `loki` | the Loki server, external: what it stored, in order, with labels |
| `offered`, `admitted`, `shed`, `sent`, `failed` | history, for the properties |
| `Enqueue`, `EnqueuePushRequest`, `AdmitEntry`, `ShedEntry` | the two calls and an iteration of their loops |
| `Tick`, `FlushStream`, `PostAccepted`, `PostRejected`, `PostUnclear`, `Settle` | `flushDue`, the pop, an attempt by its outcome, the end of the chunk loop's body |
| `StopClose`, `FlushAll`, `FlushDeadline`, `StopReturn`, `TickerReturn` | `Stop`, `flushAll` and the goroutine's end |

Time is abstracted: any set of non-empty streams that contains the full ones
may be due at a tick, and the deadline of `flushAll` may pass at any key. An
unclear attempt is a network error, a timeout, a 429 or a 5xx: the chunk may
have been stored or not, and is retried up to `MaxAttempts` (5 in the code).
An entry carries its key, severity, size and labels as constants. Sizes are
`len(Line) + 32`; `Bytes` is the code's running sum because the entries of a
buffer are distinct positions. Not modelled: metrics, log lines and mock
output; the JSON encode error (543-549), which strings cannot cause; and the
late execution of a request whose client gave up after the last attempt. The
`time.Ticker` of Go 1.23 and later (the module asks for 1.25) delivers no
tick after `Stop`, so after `StopClose` at most a tick already received is
handled.

`LogDelivery` is the promise without the mechanism: an entry is taken or shed
when offered, shed only if its severity may be and what is held at that moment
is at the limit; it is then held until confirmed, which needs Loki to have it,
or lost. `ImplementsDelivery` is the refinement, with `Fate` as the mapping:
it holds because the counters, changed by three kinds of actors in different
critical sections, always equal what is held.

Runs (module `MCLokiSink`):

* `LokiSink_safety`, 221,564 states. Entries 1 to 4 in two pushed batches over
  stream `a` (three debug entries of two label sets) and `b` (an error entry);
  limits of 2 entries or 6 bytes, batches of 2 entries or 3 bytes, two
  attempts. With these an entry is shed, a protected one passes the limit, a
  stream splits into chunks by count and by bytes, an entry is pushed while
  another of its stream is in flight, and `Stop` races the ticker. Four
  entries are the smallest number that gives two chunks in flight, one entry
  buffered behind them and one shed.
* `LokiSink_liveness`. Two entries through `Enqueue`, with fairness.
* `LokiSink_LabelsPreserved` is violated, see the findings.

Properties: `EntriesAccounted`, `BytesAccounted` (the counters equal what is
buffered or in flight), `EachEntryOnce` (one owner per entry, one settlement),
`DroppableBounded`, `SentIsStored`, `BoundedCopies` (at most `MaxAttempts`
copies, none after settlement), `StoredInOrder` (first copies, until `Stop`),
`ImplementsDelivery`, `HeldIsSettled`, `StopReturns`.

Fairness: goroutines that can run do, weakly; strongly where a step needs
`s.mu`, because Go's mutex does not starve a waiter. Ticks recur, so a
stream that stays non-empty is due at some tick. Every HTTP attempt ends,
because the client has a timeout, with an outcome nothing constrains. Nobody
has to call `Stop` or an enqueue.

## GatewayPipeline

One action is one channel operation, or one call between two of them. The
records a goroutine holds in local variables are places next to the channels.

| Model | Code |
|---|---|
| `req`, `rawQueue`, `forwarded` | the answer to each request, `rawQueue`, the requests given to the raw sink |
| `at["minerIn"]` ... `at["suppressed"]` | the five channels |
| `at["work"]`, `"minerBuf"`, `"mined"`, `"bridge"`, `"samplerBuf"`, `"decided"`, `"toSink"` | what the raw worker, the two batchers and the two bridges hold |
| `toIndex`, `offered` | the record `ProcessMinedRecord` is called with; those it ended for |
| `suppress`, `routed`, `sunk`, `late` | the sampler's answers and the history of routing and of the sink, `late` after its last flush |
| `goroutine`, `stage` | each goroutine; the step of `Stop` |

The handlers start at a well-formed request: parsing and conversion are left
out. What the miner answers changes no record's way, so `MinerFlush` is one
step; the sampler's answer is any set of suppressed records, the empty one
standing for a failure or an open breaker as well. `Enforced` is the result of
`shouldEnforce`. The sends of the workers and the batchers block whatever the
context says, as in the code; a `select` with several ready cases takes any.
The sinks are seen from outside here (`sunk`), `LokiSink` models them.

Runs (module `MCGatewayPipeline`):

* `Pipeline_order`, 608,114 states. Two requests of two records, all
  capacities 1, batches of 2, one record enforced, `Stop` at any moment.
  Capacity 1 makes every channel full in turn; two records per request tell
  contiguous from interleaved.
* `Pipeline_routed`. The same without `Stop`, fair, with a miner batch larger
  than what may come, so that only the timer flushes.
* `Pipeline_StopHangs`, `Pipeline_StopDrains` and `Pipeline_SuppressedNeverBlocks`
  are violated, see the findings.

Properties: `TypeOK` with the capacities, `PipelineInOrder` (what was taken is
what was routed followed by what is on its way), `IndexInOrder` (offered once,
in order, at most one behind), `RoutedInOrder` (kept and suppressed split
without loss; only enforced suppressions are dropped), `AnswersAreTrue` (200
and 503), `QuietAfterJoin` (nothing reaches the sink, the index feed or the
miner's channel after `workerWg.Wait`), `AcceptedIsRouted`.

Fairness: each goroutine takes the step it can take, timers fire, calls have
timeouts; strong for the cases that see a stop channel, because a `select`
chooses at random among ready cases. Clients need not send, and only a
handler that is waiting has to end, by acceptance or by the timeout.

## Sampling

One action is what a gateway, or a handler of the service, does between two
round trips: `call` is the gateway's side, `handler` the service's, `bucket`,
`total` and `ema` are Redis, `failures` and `cooling` the breaker, `fate` what
becomes of a record.

The round trips of `Touch` that a decision depends on are steps of their own,
and each may fail before or after Redis has carried it out. The deadline of a
call may pass at any step, and its handler goes on or ends. Decisions follow
the ladder of `evaluate` stage by stage. The EMA is an integer in units of
1/`Scale`; a failed read of it counts as 0, as in the code (`store.go:89`).
Left out: window sums (`sumWindow` adds span + 1 buckets, `store.go:127`) and
first and last seen, which reach the answer and no decision; expiry, since
`Minute` stays within a day; and answers of a wrong length or with unknown
indexes, which this service does not give.

`Sampling` (two gateways, three calls, four records of one key over two
minutes, breaker opening at one failure, alpha 1/2, factor 5/3): 114,070
states. One key is where handlers disturb each other; three calls are the
least that let one be late, one overlap and one find the breaker open. The
constants are small so that the warm-up, the milestones, the spike stage and
the steady rate are all reached; `LagAssumption` says what alpha, the factor
and the spike threshold must have in common with the defaults, the rounding of
the average included: that one update takes it close enough to the count.

* `SuppressedAreRepresented`: a suppressed record drew no milestone, and each
  milestone before its number was drawn by a record that is kept. It needs the
  increment to be atomic, the fallback to keep, and failed handlers not to
  hand out decisions.
* `OpenIsEarned`: only failures in a row open the breaker, and calls it decides
  itself are none.
* `SpikesComeFromDisorder`: the spike stage compares the count of the minute
  with an average that already contains it, so it matches only where updates
  of a key were lost, overlapped or went back a minute. The comparison of a
  service meant to relax sampling in a spike cannot otherwise succeed.
* `DecisionsAreFinal`: late answers change nothing.
* `Sampling_ErrorsKept` is violated, see the findings.

## MinerMemory, IndexFeed, TemplateCatalog

`MinerMemory` has the client's attempts (`analysis`), one `worker` per attempt,
going on after the client gave up, the template's `entry` in Redis, and the
batcher's `outbox`. `upsert` is the lookup, the write and the read as separate
steps that may fail and are then skipped, as in `main.py`. `IndexFeed` has
`published` (the client), one `publisher` per attempt, and the two stores
`row` and `point`; `handleCandidate` writes the first and then the second, and
either may fail. `TemplateCatalog` composes them: the bridge publishes each
result in order and goes on when publishing fails.

`Catalog`: 233,384 states, three records (one of them blank) in two batches,
two attempts for every call, two tenants, two candidates followed. The
constraint `FewGiveUps` allows `MaxGiveUps` = 2 attempts to be abandoned: two
are needed to overlap a pair of handlers in each service, and more only add
handlers of the same kind.

* `RowsAreWitnessed`: both times of a row are times of records of its template.
* `FirstSeenStands`: `first_seen` in Redis moves only where two workers create
  a template at once (`main.py:172`), which `raced` marks.
* `PointHasRow`, `AcceptedIsCovered`, `RowsOnlyWiden`: the two stores against
  each other, against what the client was told, and over time.

Drain3 is a choice among the templates a record may have; texts and versions
are functions of the template, so the branch of the upsert on versions never
holds; statistics are never sent by the gateway.

## The documentation site's script

Eight parts that share nothing, in one run, `DocsSite` (1,541,135 states, at
most one part moves in a behaviour, chosen by `part`). What one does to another
is an event that may come at any time there. In `docs/_layouts` nothing has
`data-md-component=title`, so `new Header.Title` throws and what is wired after
it (line 222 on) does not start on this site's own pages; `PageScroll` has that
as `Wired`, and the other modules describe a page that has the component. A
change to a layout turns them on, which is why they are modelled.

* `Promises`: `world` holds the promises and the tasks of `setImmediate`.
  `ReactionsRunOnce` (each reaction is in one place, and those of a promise run
  in the order added, across adoptions) and `SettledForGood`. Four promises,
  one join of two: the least with a chain of adoptions beside a join. `Root` is
  where `handle` gets by following adoptions; a loop of calls of `handle` on
  one promise is one `Handle` of a sequence, and the loops of `all` and `race`
  are `HandleEach`. The array of a join names distinct promises, at least one;
  an empty one is settled at once, or never, without a reaction.
* `SearchIndex`: lunr's builder, the automaton of terms, and queries by words
  with wildcards. The loops are folds and recursive functions (no RECURSIVE
  operator, so that they can be proved about). Characters are numbers, a word
  is a sequence of them, and `InOrder` ranks the terms as JavaScript sorts
  strings. `IndexAssumption`: finite fields, texts of words, queries of words
  with a wildcard that is no number. The run has two documents of two fields:
  `AutomatonIsTheTerms` (against the set of terms, and minimal) and
  `QueriesFindAndScore` (against `Glob` and a plain sum). The words share
  prefixes and suffixes, so nodes are both split and shared.
* `SearchPanel`: the toggle, the focus and `Search.Lock`, with timers that fire
  in the order of their delays, while the reader may scroll and the window may
  change its width at any time. `MaxTimers` = 5 pending timers: those of two
  changes and one more. `PlaceIsKept`: once nothing is left to scroll, the page
  is where the reader scrolled or followed a result to, and it is hidden only
  behind an open panel of a narrow window.
* `SearchResult`: keys, the fetch after 250 ms, the stack of closures that
  scrolling renders. `MaxLoads` = 3. `ListIsOfItsText`.
* `SourceFacts`: two views share a cookie of 15 minutes (`Life` = 1 tick of
  `LastTick` = 2) while GitHub's list and counts change. GitHub gives an answer
  (`Serve`), the handler reads it (`Answer`) and the reactions set the cookie
  (`Keep`) with any time in between, so an answer may be kept when it is older
  than `Life` and replace a younger one. `FactsAreTrue` therefore bounds what the
  cookie adds: an answer a view shows was true when it was given, after the view
  was opened or to a window that received it less than `Life` before that. Two
  ticks are an answer a whole `Life` late, and a view opened when the cookie is
  over.
* `PageScroll`: shadow, title, tabs, sidebar and `Nav.Blur` under scrolls,
  resizes and silent relayouts of three layouts. `MarksFollowScroll`.
* `NavCollapse`: a click folds by the height it finds, in a frame and in a
  listener at the end of the animation, beside a toggle that it never reads.
  `Full` = 2 gives a height in between; `MaxEnds` = 4 clicks at once.
  `MenuIsAsOpened`. The ends of transitions inside a menu, which bubble to its
  listener (1549), are left out.
* `NavScrolling`: sliding panes, three of them, two nested. What `reset` takes for
  the outermost list, the second child of the navigation (1612), is the link to
  the repository in `_includes/sidebar.html`. `FrontScrolls`.

Several of these properties name when they do not hold (`disturbed`, `hasty`,
`reloaded`, `delisted`): those are what the code really gets wrong,
and the property fails without its exception. `disturbed` stands for four such
things, until the reader scrolls with nothing pending: the reader scrolls while
`Search.Lock` has yet to scroll, as in the 100 ms after closing, and is taken back
(1668-1670); the toggle changes on a narrow window in such a time, or before a
result is gone to, as when the search is opened and closed again within 400 ms;
the window is widened in the 400 ms after opening, and the page goes to the top
and is locked although it is wide (1666); the window is narrowed in such a time,
or with the panel closed when the last `offset_` is not the reader's place any
more, and the page jumps to that `offset_` (1662, 1668). The last needs no haste at
all. A second load of the index
loses the results still on the stack; a menu clicked while it folds, or a
window resized then, leaves menu and toggle at odds; a repository that goes
from the list while it is paged through hides the one looked for. No text
promises otherwise, so they are no findings.

## Bounds and deadlock

Capped by name: `MaxAttempts`, `MinerAttempts`, `FeedAttempts` (the code's
retry limits, made 2), `MaxGiveUps`, `MaxTimers`, `MaxLoads`, `LastTick`,
`MaxEnds`. All other sets are the instances' entries, records and words. No run
of modules 5 to 8 assumes fairness, and none states liveness.

Deadlock checking is off in all runs: requests, calls, records and clocks are
finite, the sink and the pipeline may stop, and the runs that are violated
show the states in which they hang.

## Findings

* `Pipeline_StopHangs`. `Stop` ends the sampler batcher first; the miner bridge
  blocks on a full `samplerInputCh` (`http.go:607`) and `workerWg.Wait` never
  returns. The capacities of the run are 1; in the code 4096 records must be
  waiting.
* `Pipeline_StopDrains`. The sinks are flushed and stopped before the stages
  that feed them (`http.go:244-252`); records of requests answered 200 remain
  in channels nobody reads, or reach the sink after its last flush.
* `Pipeline_SuppressedNeverBlocks`. No goroutine reads the channel of suppressed
  records (`http.go:144`, `sampler/batcher.go:110`): after 4096 enforced
  suppressions the pipeline stands still. `AcceptedIsRouted` holds in
  `Pipeline_routed` because only one record is enforced there.
* `LokiSink_LabelsPreserved`. Entries pushed with labels outside the five of the
  stream key are stored under the labels of the first request of that key.
* `Sampling_ErrorsKept`. `DecideBatch` sends the name of the line's schema as its
  severity (`client.go:66`), so the floor of the policy never matches and an
  error line may be suppressed, where `component-services.md:140` says that
  errors are always kept.

Further differences between code and text, not given a run:
`gateway-service.md:244` has the index feed before the sampler, the code the
reverse order; `user-guide.md:545` takes a line that is raw and not processed
for suppressed, but a push answered 503 has been forwarded too; the comment
at `loki.go:467` says that all streams are flushed, but `Stop` does not wait
for the chunks the ticker goroutine has in flight; buffers may grow past the
configured limits with entries of protected severities.

* Gateway: only the Loki endpoint feeds the raw sink, where `README.md:96` has
  all protocols; a push answered 503 and sent again is in the raw log twice
  (`http_loki.go:44`); an unknown action of a decision would panic a slice
  (`sampler/batcher.go:99`), which this service never sends.
* Sampler: novelty is a total of at most 1 (`service.go:116`), where
  `component-services.md:141` has the first 24 hours since first seen.
* Index feed: the upsert's `WHERE` (`database.go:53`) skips a candidate with the
  same version and an older `last_seen`, so its earlier `first_seen` is lost;
  points are keyed by the template alone (`service.go:155`), so one tenant's
  replaces another's, against `use-cases.md:127` ("separate template spaces and
  indexes per tenant"); `first_seen` may exceed `last_seen`.
* Planner: `FetchTemplates` selects `count_24h`
  (`planner/pkg/database/database.go:62`), which the index feed's schema
  (`indexfeed/pkg/database/database.go:15`) does not have.
* Site script: Enter tests for an `HTMLLinkElement` where results are anchors
  (line 266); a cycle of adopted promises loops (401); an emptied query leaves
  the stack (1735); an index that arrives after the last key is not searched
  (1733); node keys of the automaton collide where terms hold digits (2214).

## Proofs

All theorems hold for every value of the constants that the named assumption
of the module allows, and rest on nothing else: `PipelineAssumption` (each
record is one position of one request, capacities and batch sizes are
positive), `SinkAssumption` (finite entries with a key, a size and a severity
that the key determines, requests that name each entry once, limits in `Nat`,
zero included), `SamplingAssumption` (each record is one position of one
batch, no batch is empty), `MinerAssumption`, `FeedAssumption` and
`CatalogAssumption` (the records of batches that are not empty, a template for
each record, the fallback templates apart, attempts positive). The assumptions
that batches are not empty are the batchers' own guard
(`sampler/batcher.go:80`, `miner/batcher.go:74`). `SpikesNeedDisorder` also
rests on `LagAssumption`: alpha, the factor and the rounding of the average are
related as the defaults are (alpha 0.067, factor 3, at least 100 a minute, six
decimals). The assumptions of the site's script are with its proofs below.

`GatewayPipelineProofs`:

* `TypeCorrect`: the types of all variables, and that no channel or batch
  exceeds its capacity. The two halves are proved one after the other, with
  one step per action; `MoveEffect` and `MoveAllEffect` say once what handing
  a record, or a batch, to the next place does.
* `OrderKept`: `PipelineInOrder`. It is inductive once types are known. The
  argument is one lemma, `MoveHead`: moving the head of a place to the end of
  the next one leaves their concatenation as it was; `MoveKeepsOrder` applies
  it to each pair of neighbours, and only taking a new batch changes both
  sides, at the end.
* `IndexFedInOrder`: `IndexInOrder`, strengthened by "the record at the index
  feed and the one in the bridge are at most one each", without which the
  offered records could run ahead by more than one.
* `NothingAfterJoin`: a worker that has returned holds no record
  (`WorkersEmpty`), and after `workerWg.Wait` all of them have (`Joined`), so
  no step that could reach the sink or the index feed is left.
* `AnswersKept`: `AnswersAreTrue` is inductive beside the types; accepting and
  taking a batch are the two steps with content (`AcceptAnswers`,
  `TakeBatchAnswers`), and everything else is a frame.
* `RoutedWithoutLoss`: both streams grow with what is routed (`SelectsMore`).
  A decision that comes later changes nothing for records already routed,
  because a record is in one place only, which follows from `PipelineInOrder`
  and `AnswersAreTrue`.

`LokiSinkProofs`:

* `SinkTypeCorrect`: types; the part with content is that a chunk never takes
  more entries than the popped stream has, whatever the limits.
* `SinkOwnsOnce`: `EachEntryOnce`. It is not inductive: that an admitted entry
  is not already held depends on what the enqueue call has yet to handle
  (`PendingIsNew`), and that popping a stream leaves none of its entries in
  another buffer depends on the keys (`BufferedByKey`). With both it is
  (`OwnershipHolds`). `AdmitSets`, `FlushSets` and `SettleSets` state what the
  three actions that move entries do to the buffers and the flushers.
* `SinkCountsEntries`, `SinkCountsBytes`: the counters, from ownership: entries
  admitted and chunks settled are disjoint from what stays, so numbers and
  sizes add up (`DisjointAdds`), and the length of a chunk is the number of
  its entries (`LenCounts`). `SinkBoundsDroppable` follows from the exact
  counter, one step at a time.
* `SinkSentIsStored`: needs that a chunk whose attempt was answered 2xx, and
  is not yet counted, is in Loki (`PostedIsStored`).
* `SinkImplementsDelivery`: `Spec => ImplementsDelivery`. Ownership gives every
  entry one fate (`FateCases`), the exact counters make the test of the drop
  policy the abstract one (`PressureIsReal`), and `PostedIsStored` justifies
  confirming. Admitting maps to `Take`, shedding to `Shed`, an attempt to
  `Store` or a stutter, settling to `Confirm` or `Lose`, and every other
  step, popping a stream among them, to a stutter.
* `SinkBoundsCopies`: `BoundedCopies`, strengthened by `CopiesCounted`: what
  was never posted has no copy, the rest of a popped stream has none, and the
  chunk at the head has at most as many as its attempts so far.
* `SinkStoresInOrder`: `StoredInOrder`, by the invariant `OrderedSink`. While
  the sink runs the ticker goroutine is the only flusher, so the entries of a
  key are in a line: sent or failed, then what it popped, then the buffer
  (`LineOrdered`). In Loki a copy of the earlier entry precedes every copy of
  the later one, and a chunk is stored as a whole or not at all
  (`LokiOrdered`). `SameOrder` turns that into a statement about first copies,
  which exist by a least-number argument (`LeastOf`).

`SamplingProofs`:

* `SamplingTyped`: types need that a handler's answer is as long as the items
  it is done with (`AtItems`).
* `BreakerOpensOnARow`: `OpenIsEarned` is inductive beside the types.
* `DecisionsStand`: a record is in one batch, and is decided only when its
  call is over (`DecidedByCall`); a call ends once.
* `SuppressionIsRepresented`: it needs who drew which number (`NumbersDrawn`),
  what a handler has drawn for the item at hand and not for later ones
  (`ItemDrawn`), and that an answer that skips a record skips one that drew
  no milestone (`SkippedPassed`).
* `SpikesNeedDisorder`: `SpikesComeFromDisorder`. For a key without disorder
  the average in Redis has followed every count so far (`Following`), and one
  more update keeps it so (`NewEmaFollows`). `LagSurvives` and `LagBelowFactor`
  are the arithmetic: what rounds off at each update stays below the margin
  that `LagAssumption` leaves, and with it a count never exceeds the factor
  times an average that contains it (`FollowedIsNoSpike`).

`CatalogProofs`, by the invariant `Catalog`:

* `FirstSeenKept`: between its lookup and its write a worker is right about
  whether the template exists, or the template is marked (`RaceMarked`).
* `RowsFromRecords`: the times of every entry, result and output of the
  batcher have a record as their witness (`MinerWitnessed`), so candidates
  have (`BridgePublishes`), and the merge takes one of two times (`Merged`).
* `StoresAgree`, `AcceptedStays`, `LateHandlersOnlyWiden`: `Merged` says once
  what the upsert does to a row; `RowWritten` and `PointWritten` lift it to the
  stores. A handler that goes on to the point, or has ended well, believes
  something of the row that stays true because rows only widen and points are
  never removed (`BeliefsHold`, `BeliefsKept`).
* `CatalogTyped`: the types, a part of the same invariant.

`PageProofs` proves each component of the site's script from its own
specification (`CollapseSpec`, `NavSpec`, `PageSpec`, `ResultSpec`,
`FactsSpec`, `PanelSpec`), whose initial states and steps are the ones that
`MCDocsSite` gives that part, for any constants under `CollapseAssumption`,
`PanesAssumption` (panes are nested, without cycles), `ScrollAssumption` (the
layouts of one page have the same headings, in the order of their offsets),
`ResultAssumption`, `FactsAssumption` and `PanelAssumption`:

* `MenuFollowsToggle`: while clicks wait for their transitions, the last of
  them agrees with the toggle (`AsClicked`).
* `FrontListScrolls`: `FrontScrolls`, for any nesting. `Chain` is a recursive
  function; that it satisfies its equation is proved by the least sets closed
  under it (`ChainEquation`).
* `MarksFollow`: `MarksFollowScroll`. `Nav.Blur` never looks at the whole
  list again. What it may leave out is justified by `BlurFits`, which holds
  whatever the headings do: on the way up nothing from the index on is
  blurred, on the way down all before it is. `BlurDown` and `BlurUp` follow
  from it for one update. The proof showed that any scroll puts right what an
  earlier relayout left wrong in its direction, so the property asks for no
  change of direction.
* `ListFollowsText`: the rendered results and those on the stack make up the
  results of the text (`FirstAndFrom`).
* `ShownFactsAreTrue`: a view that is paging is past no page with the name
  unless a repository has gone, and the page it was served has the name or is
  full (`NameAhead`, by `PageOrBehind`); an answer on its way was true when it was
  given (`AnswerIsTrue`), and so was what a cookie holds, which some window kept
  `Life` before it expires (`CookieIsTrue`); stars and times only grow
  (`PastStays`).
* `PlaceComesBack`: `PlaceIsKept`, by `PlaceKept`, which holds unless `disturbed`:
  the reader's place is with `Search.Lock` while the panel is open on a narrow
  window, then with the timer that gives it back, which fires before one that
  follows a result (`UnlockFirst`), then where the page is. Disturbed or not,
  `Search.Lock` has a position when it hides the page (`LockHasPlace`), and hides
  it, now or soon, when the panel is open on a narrow window (`LockComes`), which
  is why a reader who can scroll behind an open panel has its timer pending.
  `WaitsInBoth` and `WaitsAfter` say what setting and firing timers does to the
  ones that wait.

`PromiseProofs`, from `PromiseSpec`, for any number of promises, any values and
any joins under `PromisesAssumption` (a promise is no value, arrays name
distinct promises). A program may do anything but close a cycle of adoptions.
The invariant `PromiseInv` is:

* `Adoptions`: they have no cycle (`Acyclic`) and lead somewhere (`Leads`).
  There is one such function (`LeadsOnce`), so `Root` satisfies its own
  equation (`RootFacts`), and one more adoption sends what led to the adopter
  where the adopted promise leads (`NewAdoption`).
* `Held`: where the reactions are, each once (`OnceEach`), in the place its
  root allows (`Right`), those on one promise in line (`OlderFirst`). Its last
  argument is the reactions in hand. A step takes some up (`NewReaction`, or
  `LetGo` for those that waited on a promise that is settled or adopts) and
  puts all of them down (`Placed`), so that each half is stated once;
  `Becomes`, `FollowsEach` and `ReactionTaken` put the halves together.
* `Owed`: a promise is settled by its functions while its resolver is open, or
  by the one reaction it was made for while that has not run.
* `Counted`: a promise made by `all` still counts each element whose reaction
  has not run, so its count is positive when one runs.

`PromiseTyped` reads off the types, `ReactionsOnce` that the numbers of places
of a reaction add up to one (`CountOnce`), and `SettlesOnce` follows from `Owed`:
whoever settles a promise finds it pending.

`CollapseTyped`, `NavTyped`, `PageTyped`, `ResultTyped`, `FactsTyped` and
`PanelTyped` are the types of the components, with the same invariants.
`SiteTyped` joins them with `PromiseTyped` and `IndexTyped` to the whole `TypeOK`
of `MCDocsSite`: a step of the composition moves one part and leaves the
others as they are.

`IndexProofs` and `TokenSetProofs`, from `IndexSpec`, for any documents, fields,
texts and queries under `IndexAssumption`, of words whose characters a node's
`toString` tells apart, that is, without digits. The library's induction theorems take an operator as a
parameter, which the provers cannot instantiate, so induction is by least
numbers: the least number of a set (`LeastNumber`) gives induction over an
interval (`CountUp`) and over a measure (`MeasureDown`). That a recursive
function satisfies its equation is proved by exhibiting a solution, and that
there is one solution by a measure; `LoopRuns` and `LoopStays` do this once for
the loops over a counter.

* `IndexTyped`: the types, by the invariant `IndexInv`: the texts are those
  added; the numbers of terms are distinct and below their count (`Numbered`),
  a posting names the fields and documents that hold its term (`Posted`),
  frequencies count the words of the texts (`Tallies`); and an index, once there,
  is what `build` makes of them (`Built`).
* Vectors, on which the queries rest: the binary search finds the place of an
  index in a sorted vector, or where it belongs (`PositionFound`), so `upsert`
  keeps the vector sorted and adds to the entry of one index (`UpsertAdds`);
  `dot`, which walks two sorted vectors at once, is the sum over the products
  (`DotIsTheSum`), hence linear (`DotGrows`).

`TokenSetProofs`:

* `AutomatonHolds`: `AutomatonIsTheTerms`. The terms are inserted in the order
  of strings (`InOrderOrders`), so a word and the one before it part where the
  later one has the greater character or goes on (`BeforeParts`, `CommonParts`).
  The builder's invariant is `Shape` with `Spells`, what each node stands for:
  the nodes not yet minimized are those along the last word (`Path`), every
  other edge leads to a minimized node (`Aims`), a node on the path gets edges
  only of later characters (`Fresh`), and no two minimized nodes are equal
  (`Least`). `Inserted` keeps it from word to word (`Ready`), and
  `ArrayIsAutomaton` ends with an automaton that is `Finished`. `ToArrayIs` and
  `ReachIs` say what the two recursive functions of the property make of it, and
  two nodes that stand for the same words are equal, hence one
  (`LeastAutomaton`, from the shorter words up by `FromBelow`).
* `QueriesHold`: `QueriesFindAndScore`. What a clause stands for is said of its
  suffixes (`SuffixSets`, `GlobIs`). `FromStringDraws` gives the edges that
  `fromString` draws, and `Accepts` the words with a run along them. `Complete`:
  each word the clause stands for has a run. `Sound`: no other has; a wildcard
  is drawn as a loop on the node where it stands, and an edge that leads back
  to the start after it does no harm because the wildcard takes in whatever
  precedes (`StarTakesIn`). `IntersectIs` walks both automata at once, so a clause
  yields the terms that it stands for (`TermsMatched`). The vector of a query
  counts, and that of a field sums, what they should (`QueryVectorCounts`,
  `FieldVectorSums`), so a document is found when one of its fields holds a
  matched term (`QueryFinds`), and its score is the plain sum (`QueryScores`).

The inductive invariants are conjunctions of what the theorems name and of the
parts named here, which only the proofs use.

## Only model-checked, and not modelled

Every safety and action property of the passing runs, and the refinement, is
proved for all constants. The liveness properties of the sink and the pipeline,
`HeldIsSettled`, `StopReturns` and `AcceptedIsRouted`, are checked by TLC on the
instances above only: liveness under fairness and `ENABLED` are beyond the proof
system. What the proofs take from the models, and so do not show of the code,
is stated there: a node's `toString` tells nodes apart as long as no term holds
a digit, weights are counts, and Drain3 is a choice.

Not modelled:

* The two servers' mutexes and `main` (`http.go:227`, `http.go:346`,
  `grpc.go:102`, `main.go:64`): each is one lock held over one call, or a call
  that is never made. Reading settles them, and they are listed as hazards.
* Normalisation, redaction and label parsing: functions on text, best tested
  with text. `parseLokiLabelsString` splits inside quoted values
  (`loki.go:379`); the sink's model takes keys as given.
* The planner, which reads only, and ranks in floating point.
* Configuration, metrics, caches, generated code and deployment.
* Of the site's script: stemmers, the query language, fuzzy terms, ranking
  weights, FastClick, the touch fixes and the keys that move the focus; the
  minified bundle is the same script.
