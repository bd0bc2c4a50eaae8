# Confidence resolver: TLA+ models, checks and proofs

Confidence resolves feature flags inside the customer's process: a Rust core
(`src/confidence-resolver`), compiled to a WASM guest (`src/wasm`) or linked
directly, evaluates the rules of an account's flags and logs what it resolved.
Hosts (the providers in `src/openfeature-provider`, the Cloudflare worker in
`src/confidence-cloudflare-resolver`) fetch the account state, keep the store of
sticky assignments ("materializations"), and ship the logs.

This directory holds TLA+ modules translated from that code, the TLC
configurations that check them on small instances, and proofs that TLAPS checks
for every value of the constants. `PROJECT.json` lists the runs, the lines each
definition models, the hazards, the findings and the theorems.

## 1. The system

| Component | State | Operations | Talks to |
|---|---|---|---|
| Flag resolution (`confidence-resolver/src/lib.rs`) | one `ResolverState`, replaced whole; per request a `MaterializationContext` and, when suspended, a continuation | resolve (deferred, static, without materializations), resume, apply | the host reads and writes materializations between and after the halves |
| Segment targeting (`lib.rs` 1402-1594) | none | three-valued evaluation of expressions over criteria, materializations and other segments | called by every rule |
| Resolve logger (`resolve_logger.rs`) | an `ArcSwap` of `RwLock<Option<state>>` of counters | `log_resolve` on any thread, `checkpoint` on any thread | the bounded set of schemas; the host's flush |
| Bounded schema sample (`bounded_set.rs`) | atomic slots, a counter, a concurrent set | `insert`, iteration, drop | resolve logger |
| Assign logger, event logger (`assign_logger.rs`, `event_logger.rs`) | a lock-free queue, a locked pending list with its byte count | log, checkpoint with a size limit, flush of everything | the host's flush |
| Apply deduplication (`apply_dedup.rs`, guest) | hash to apply time, time of the last sweep, counters and their reported baseline | check, sweep, report deltas | assign logger; telemetry |
| Buffer sink of the worker (`flag_log/buffer.rs`) | isolate-wide buffer, waiter flag, delivery slots | `offer` in the request, `tick`, timer loop, stand-down drain | `deliver`; requests come and go, futures may be dropped |
| Delivery (`flag_log/mod.rs`) | a deadline per invocation | split to fit, walk destinations, retry, back off | the logs backend |
| Queue sink (`flag_log/queue.rs`, `shards.rs`) | Cloudflare's queues | publish with failover, consume, ack or nack | delivery; the metrics in KV |
| Metrics (`confidence-cloudflare-resolver/src/lib.rs`) | a snapshot in KV for each pipeline | read, merge, write, show | every consumer at once |
| Telemetry collector (`telemetry.rs`) | atomic counters and buckets, the snapshot of the last flush | observe on any thread, take a delta on any thread | every flush |
| Aggregation (`flag_logger.rs`) | none | merge the logs of a batch, deduplicate applied flags | the queue consumer |
| Attribute criteria (`value.rs`), contexts (`managed_context.rs`, `schema_util.rs`), state loading (`lib.rs`, `gzip.rs`, `bloom_filter.rs`) | none | conversion and comparison, merge, schema, decoding | flag resolution |
| Deferred exposures (`lib.rs`) | a token in the client's hands | hand out, apply later with the client's clock | assign logger, apply deduplication |
| Rust provider (`openfeature-provider/rust`) | state, account, log destinations, ETag; a background task; the init count | initialise, refresh, resolve, flush, shut down; typed getters; remote materializations | CDN, log backends, materialization service |
| Go, Java, JS, Python, Ruby providers | instance pools, log senders | the same around the WASM guest | the same |

What is hard here, and untested or nearly so: futures cancelled at any await
while they hold a slot or a role; two checkpoints and many resolves on one
swapped state; the moment between drawing a slot and storing into it; the moment
between suspending a resolve and resuming it, when the state may change;
deadlines shared by a sequence of retries; redelivery of a batch of which a part
has already landed; read-merge-write on a store without compare-and-swap; server
time and client time in one table; a final flush next to a background task that
did not stop in time. The list with
lines is `hazards` in `PROJECT.json`.

What makes each part correct:

* resolution: suspending and resuming is invisible in the result; a stored
  variant is kept; evaluation is Kleene's logic, and one round of reading is
  enough;
* resolve logger: each resolve is reported once, whole, and no later than the
  first checkpoint that begins after it;
* bounded set: no double free, no gap;
* assign and event logger: once, in order, within the size limit, eventually;
* apply deduplication: suppress only duplicates and only for about the TTL;
  report every count;
* buffer sink: slots and the waiter role are never leaked, memory is bounded,
  a record is in one place, every record eventually leaves;
* delivery and queue: acked means landed, finish within the budget, a stalled
  destination leaves the next one its time, telemetry is counted once;
* telemetry: deltas add up to what was observed;
* Rust provider: state, account, destinations and ETag fit together whenever
  they are read; each log goes into one request; refreshing and flushing cannot
  starve each other; shutdown leaves nothing behind but what has no room;
* the algorithms on data: agreement with an independent definition of the result.

## 2. Modules

| Module | Models | Kind |
|---|---|---|
| `FlagLogBuffer` | the buffer sink | state machine, proved about in `FlagLogBufferProofs` |
| `BoundedSet` | `BoundedSet::insert` at the granularity of its atomic operations | state machine, `MemoryProofs` |
| `LogLedger` | what a resolve logger promises: recorded once, reported once | abstract specification |
| `ResolveLogger` | `with_state`, `log_resolve`, `checkpoint` | state machine, implements `LogLedger`; `LoggerProofs` |
| `BatchLogger` | `AssignLogger` and `EventLogger`, which share their algorithm | state machine, `LoggerProofs` |
| `ApplyDedup` | the dedup table, its sweeping and its telemetry in the guest | state machine, `MemoryProofs` |
| `Telemetry` | the telemetry collector at the granularity of its atomic operations | state machine, `MemoryProofs` |
| `Targeting` | segment and expression evaluation | operators, `ResolverProofs` |
| `TargetingLaws` | every pair of small segments, compared with Kleene's logic | reference check, `ResolverProofs` |
| `Resolver` | rules, sticky assignments, suspend, read, resume, write, state update | state machine over `Targeting`, `ResolverProofs` |
| `ChunkDelivery` | what delivering the chunks of a batch promises | abstract specification |
| `Delivery` | chunks, destinations, attempts and back-offs against one deadline | state machine, implements `ChunkDelivery`; `PipelineProofs` |
| `Pipeline` | the worker's handlers, the queues, their consumers and the metrics in KV, over what `ChunkDelivery` promises | state machine, `PipelineProofs` |
| `Provider` | life of the Rust provider: fetch, update, flush, fall back, shut down | state machine, `ProviderProofs` |
| `Criteria`, `StateLoading`, `DedupKey`, `LogSplit`, `Context`, `ProviderValues` | the algorithms on data, see below | operators |
| `DataLaws` | one input of one of the first four at a time, compared with a reference | reference check, `DataProofs` |
| `Laws` | the same of the other two, whose operators are recursive | reference check |
| `Metrics`, `Aggregation` | telemetry data; the two ways to log a resolve, fed with the same resolves | operators; state machine, `LoggerProofs` |
| `Exposure` | tokens, late, repeated and reordered applies, two clocks | state machine, `LoggerProofs` |
| `MC*` | instances for TLC: symmetry sets and configuration sets; `MCLaws`, `MCLockFree` and `MCPipeline` also put machines that share nothing side by side: a behaviour is one of either | |

### FlagLogBuffer

Variables are the fields of `Buffer` (`logs`, `bytes`, `waiter_active`),
`IN_FLIGHT`, and per request future its program counter, the batch it carries,
its sequence boundary and what is left of its budget. `Offer` is the whole of
`offer`: append, stamp, decide (flush, hold or shed) and take the chunk with a
slot. `EnterTick`, `Poll` (retire, stand down, sleep, shed, deliver),
`FinishDelivery` and the drain passes are the timer loop; `Cancel` drops a future
at any await and runs its destructors. Time is `Tick`: ages grow and budgets
shrink together. With `Punctual` set, time does not pass while a future is due,
which is what the liveness run needs; the safety run lets futures be late.
Record lengths are 1 or more units, so that "does not fit in the chunk" happens.

### BoundedSet, ResolveLogger, LogLedger

`Insert`, `PickSlot`, `Place`, `Discard`, `Evict` are the atomic operations of
`insert`, one step each, so that any two threads interleave between them. The
sampling of a slot past the capacity is a choice of any slot.

In `ResolveLogger` a logging thread loads the state, tries the read lock,
applies its counter updates one by one (`Parts`), and leaves; a checkpointing
thread swaps, waits for the readers, takes, returns. `MaxCells` bounds the
states swapped in. Schema updates are entries like the counters: the sampling of
`BoundedSet` is not repeated here.

### BatchLogger

`Lock`, `Pull`, `Emit` are one checkpoint: the mutex is taken for a job (limit,
bytes already in the request, whether only full batches are wanted), events are
pulled until the limit is reached, and a prefix is emitted. `Log` interleaves
with all of them: the queue is lock-free. An event longer than the room but
shorter than the limit waits until a request is empty enough or others fill the
batch with it; `Sendable` tells the lengths to which this cannot happen.

### ApplyDedup

`Apply` is one flag of `filter_duplicates`, or `check_hash`, for an enabled
table, with the client's apply time up to
`BEHIND` before and `AHEAD` after the host clock; `FlushAssign` and `FlushLogs`
are the guest's flushes, which sweep, throttled by `INTERVAL`, and report the
difference of the counters, narrowed to 32 bits (`U32_MAX`). Flushes come at
least every `CADENCE`. With the table disabled `log_assign` leaves it alone,
which `SetResolverState` switches.

### Targeting and Resolver

Expressions are trees of `and`, `or`, `not`, references; a criterion is a
constant (true, false or unrecognized), a materialization or another segment.
Every operator returns its value and what it asked for, so discovery of missing
materializations is part of the value. A segment met again on its own path is
false, as in the code.

`Resolver` has one action for each entry point of `resolve_flags`, `Read` for
each key the host reads, `Resume`, `Write` for each record, and
`SetResolverState`. The bucket of a unit is a choice of the configuration (`hit`
of an assignment), since nothing but the ranges it falls into matters. Flags of
one request are independent up to the shared lists, which the model joins.

### Telemetry

An observation adds to three of the counters (`Add`, one counter a step, in any
order: the accesses are relaxed). A flush loads the counters one by one, in any
order too, then swaps the baseline and subtracts (`Swap`). `overtaken` is the
history that tells whether another flush swapped during a snapshot: exactly then
the subtraction may wrap, which the code allows.

### Delivery and Pipeline

`Delivery` is one invocation: a POST with a share of the time left and its
outcomes (`Accepted`, `Refused`, `NoAnswer`), the back-off before another attempt,
the next destination, the next chunk (`GoOn`), or giving up on all that is left
(`GiveUp`). Time is in
milliseconds with the code's own budget, share and back-offs.

`Pipeline` is everything around it. A request is a program counter: parse,
resolve (perhaps suspended), log assignments the isolate has not seen
(`LogAssign`), then `Ship` and `Publish`. The isolate may go at any time, and its
map with it (`Evict`). The platform hands each consumer any waiting messages
(`Take`); it delivers chunk by chunk (each lands, or is reported lost and may
have landed), reads, merges and writes the snapshot of its pipeline, and answers;
an answer that is no ack, or an invocation that is cut off, makes the platform
deliver the batch again, up to `MaxTries`. `Foreign` are messages of another
version of the worker, which this one may not parse. What lies in a log is
reduced to its resolve and its set of assignments.

### Provider

`refresh` is the program counter of `refresh_state` and of the loop around it,
`bg` that of the background task, `flush[a]` that of `flush_all` or
`flush_assign`, either in the background task or in shutdown. An update stores
state, account and destinations in three steps, holding the account's lock
between the second and the third; a flush reads destinations and account in two,
so every order of the five is covered. `Pending` says where `select!` can leave
the refresh: only where it awaits something. Retries, back-offs and the fallback
destination are `Retry`, `Fallback` and `Finish`; `send` answers Ok in every case.
Resolves stop when shutdown begins, because shutdown borrows the provider
exclusively. The trait's `Drop` and the HTTP client's settings are not modelled.

### The algorithms on data

Each is written as the code computes it and compared in `DataLaws`, `Laws` or
`Aggregation` with a reference of another shape. What can be proved about is in
`DataLaws`; `Context` and `ProviderValues` descend into nested values with
recursive operators, which the prover does not take, and stay with TLC in `Laws`.

* `Criteria` (`value.rs`): conversion of an attribute to the kind a rule
  compares with, element by element, and every rule. A string is a member of
  `StringOrder`; what it parses as (number, time, version, prefixes) is the table
  `StringFacts`. A number is a float: a multiple of 1/`UNIT`, an infinity or NaN,
  which no comparison orders and which equals nothing, itself included (`Same`, the
  code's `==`, of lists too). One that is not finite, or beyond the instants of
  chrono (`EARLIEST`, `LATEST`), is no timestamp. Reference: ranges cut at any value
  partition what converts, except NaN, which no range holds; `any` and `all` on
  lists agree with the inner rule on elements.
* `Context`: unflattening and merging of the managed context, attribute paths,
  the targeting key, the derived schema, filling values to a flag's schema.
  Reference: what is read at each path before and after.
* `StateLoading`: clients and credentials, gzip members, bloom filters with a
  "long" of `LONG` bytes of `BYTE` bits. Reference: a filter packed as the
  backend's library packs it answers yes for its members; a state is whole or
  refused.
* `ProviderValues`: contexts and results of the Rust provider, its typed getters,
  the operations of the remote store. Reference: what the flag's value holds at
  the path; what the store holds.
* `DedupKey`: the words of a deduplication key over bytes in {0, 1} and words of
  two bytes, computed from an assignment and from the event built of it, and the
  mask of kept flags with `MASK_BITS` bits. Reference: keys equal if and only if
  identities are.
* `LogSplit`: halving of batches and of bodies, its tree threaded through the
  outcomes of the POSTs. Reference: what is reported delivered and lost, against
  the set of parts that landed. Something that did not land is always reported, and
  so is something that did; the converse holds of batches in which no record and no
  assignment is empty (`Filled`). Shards: every shard is tried.
* `Metrics`, `Aggregation`: the same resolves go through the logger's counters
  and through single logs merged in any order and grouping; results must agree,
  as must deltas, accumulated snapshots, thinned histograms and the lines shown.
* `Exposure`: offsets between the client's and the server's clock, and between
  a token and the key in use. Reference: an exposure is dated at the server time
  at which the client showed the flag; a token is logged whole or refused.

## 3. What the runs check

A run's properties are named for what they are about, and most are conjunctions
of parts that each have a name and a comment of their own, next to the model they
are about. `GuardsExact` of the buffer is `SlotAccounting` and `OneWaiter`, for
instance, and `LogsTaken` of the provider says five things about who takes which
log. Every part has a mutant of the code that breaks it (`mutants` in
`PROJECT.json`).

Passing runs:

| Run | Bounds | Shows |
|---|---|---|
| `buffer_safety` | 3 futures, 6 records of length 1 or 3, one soft and two hard slots, buffer of 5 bytes or 3 records | slots and the waiter role are exact under any cancellation, counts are exact, each record is in one place, the buffer is the newest part of what arrived, a retired waiter takes only its own records, and only cancellation or an exhausted budget leaves records without an owner |
| `buffer_liveness` | 2 futures, 4 records, fair futures without cancellation | every record leaves the buffer, provided requests keep coming |
| `lockfree` | schema sample: 3 threads, 4 items, 3 slots, 5 inserts; telemetry: 1 recorder, 2 flushers, 2 observations, 3 deltas, 4 bits of width | one owner per pointer and an exact quiescent view; deltas add up to what was observed unless snapshots overlap |
| `resolvelogger` | 2 loggers, 2 checkpointers, 2 calls of 2 updates, 4 states | reports are whole and complete, the logger implements the ledger, every call and every checkpoint returns |
| `batchlogger` | limit 4, lengths 1, 2, 3 and 6, up to 3 events, requests that start empty, part full or over full | order, exact byte count, limit; every event of a sendable length is sent in the end |
| `applydedup_safety` | 2 identities, table of 1, TTL 4, interval 2, clock 10 to 18 | suppression is bounded, memory is long enough, counts are reported |
| `resolver_resume` | flags of up to two rules in every shape, with every store of the records they name; one state update at any point of a resolve; reads and writes that fail | a record that was read decides the variant, whichever other reads failed; the records read are all a resume needs, and resuming equals one go. Left to `resolver_fallthrough`: a rule that falls through and has a write |
| `pipeline` | one request of each kind, one assignment, 2 consumers, batches of 2, 2 deliveries, 1 fault (eviction, cut-off consumer or failed KV call), a message that may be unreadable; delivery: 2 chunks, 2 destinations, 3 attempts, a budget of 25 s of which stalled POSTs take their share and answers take none | acked means landed; no assignment is swallowed unless its log is reported dropped, dead or lost with the isolate; a message is counted at most once, unless a consumer is cut off after counting it, and an acknowledged one was counted, unless the put that would have counted it failed; the snapshot is exact unless an update was based on a stale read; the deadline holds, the fallback gets its attempts for as many chunks as `FundedChunks`, and delivery implements `ChunkDelivery` |
| `provider` | 2 published states, 2 resolves, 2 attempts, requests of 1 assignment, destinations that grow and then swap | what an update stores fits together; each log and the init count are in one request; shutdown takes what it can; states get fresh and resolves are taken |
| `laws` | all pairs of segments over expressions of depth 2; up to 4 resolves aggregated in any grouping; 2 exposures over 2 clock offsets; lists, structs and strings of every kind the code tells apart; numbers with halves, negative, infinite, NaN and beyond the instants of chrono; batches of up to 3 records and 4 posts; 4 shards; 7 flags in a mask of 3 bits | each algorithm agrees with its reference |

The bounds are the smallest at which every branch of every action is taken: the
table is smaller than the identities so it overflows, the buffer is smaller than
the records so it sheds, three threads so that two can be between draw and store
while a third evicts, two consumers so that one writes between the other's read
and write, two deliveries so that a message is redelivered and then dead, two
states so that a flush can read the destinations of one and the account of the
next. TLC's coverage shows every disjunct of the next-state relations fired.

Runs that show a disagreement between the code and what the repository says
(`findings` in `PROJECT.json` quotes both):

* `resolver_fallthrough`: a resumed resolve that fell through a rule with a write
  fails on its own write;
* `aggregate_assignments`: aggregating two logs that count different assignments
  of one rule keeps only those of the second.

Seen while modelling, and not covered by a run:

* The waiter looks at its budget only after a sleep. From 8 s, three stalled
  attempts at 0.4 of what is left and two back-offs leave about 1038 ms, and the
  250 ms poll before the next look brings that below the 1000 ms a drain needs
  (`flag_log/buffer.rs` 590-609).
* A thread that has drawn a slot of the filling phase may be overtaken by one
  that evicts from it, so it then evicts itself; the comment "no eviction
  possible" (`bounded_set.rs` 97) is about a single thread. The consequence is
  harmless: `OneOwner` and `QuiescentExact` hold.
* A later rule's key error, or an unrecognized criterion beside an undecided one,
  settles a flag whose earlier rule is still undecided (`lib.rs` 1160, 1240), so
  the resumed result may differ from one pass with every record. The
  configurations of `resolver_resume` have neither: their rules share one
  selector, and a bad key stops at the first rule. `ResumeMatches` has the absence
  of each as a hypothesis (`KeysAlike`, `Recognizing`).
* An event almost as long as a whole request stays pending while no other event
  follows it: beside the counters and telemetry of a periodic flush it does not
  fit, and alone it does not fill a batch. `EveryEventSent` is stated for the
  other lengths (`Sendable`).
* Shedding one chunk per push does not keep the buffer's `bytes` under the cap
  when short and long records alternate (`flag_log/buffer.rs` 425).
* Before the first sweep `apply_dedup` has nothing to clamp an apply time to, so
  an old apply is forgotten at once (`apply_dedup.rs` 350). Its key names no
  client: one unit that applies a flag through two clients is logged once.
* A state update between the halves of a resolve makes records that were never
  read count as absent. The Rust provider holds on to one state for the whole
  request; the JS provider awaits between the halves.
* When shutdown has given up on the background task, its flush reads the
  destinations and then waits for the account, while the task's update may hold the
  account and wait for the destinations. Once `select!` has taken its flush branch
  the update is not polled again: the account's lock stays held and both flushes
  wait for it (`state.rs` 196-212, `provider.rs` 273). `Provider` has these states;
  no liveness property is stated of shutdown.
* Shutdown flushes once, with the limit of a single request: assignments beyond
  it are lost (`ShutdownLeavesOnlyOverflow`). `send` answers Ok when every
  destination failed, so the init count is taken for sent (`logger.rs` 153), and
  the HTTP client has no timeout of its own.
* "Loss is bounded to a single batch" (worker `lib.rs`, above the KV snapshot)
  takes no account of a slow consumer that overwrites two updates, nor of a failed
  read, which reads as an empty snapshot. `SnapshotExact` states what does hold.
* Overlapping `delta_snapshot` calls may subtract a newer baseline from an older
  snapshot, and the counts wrap; a histogram whose count did not change drops the
  increments of its buckets in between (`telemetry.rs` 895-901). Recording takes
  several adds, so a flush between them sees part of an observation.
* `merge_telemetry` adds in 32 bits what snapshots hold in 64 (`flag_logger.rs`).
  Label values of the init counter that are not valid are skipped, and two series
  could then be one; `SeriesUnique` covers the label sets that are valid.
* Deduplication takes applied flags out of a batch and removes the assignments it
  empties (`flag_log/mod.rs` 731-742), so a record may have nothing left in it. A
  resolve in which no flag applied is logged as an assignment without flags, which
  stays where a batch is not deduplicated. A half that consists of such records
  counts as delivered or as lost by what became of its empty body (`Filled`).
* The string "NaN" parses as a number (`value.rs` 71-73), and an attribute may be
  NaN: such a value is in no range, whatever its bounds, so two ranges that meet
  leave it out on both sides, and no `eq` or `set` rule matches it. As a targeting
  key it is refused, like a fraction.
* The queue consumer acknowledges a whole batch of which no message can be
  parsed. A record whose other parts alone are too large takes all its flag
  pieces with it (`LogSplit`).
* A string rule sees the string "null" for a missing attribute; an `any` rule
  around an `eq` without value never matches null; a version that does not parse
  compares as 0.0.0.0 (`value.rs`).
* A managed attribute "a" is lost when the managed context has "a.b" too
  (`managed_context.rs`). A credential is assigned to the client whose name its
  own begins with, so a client name that is the beginning of another's may claim
  its credentials (`lib.rs`).
* A typed getter whose path ends at a struct reads one of its fields, whichever
  the hash map yields first (`provider.rs`).

### Fairness

* `FlagLogBuffer`: weak fairness of each future's own steps, of time, and of some
  request arriving, which may log nothing. The runtime polls futures whose timers
  or fetches are ready, and every delivery is bounded by its deadline.
  Cancellation is excluded from the fair specification: an evicted isolate loses
  its buffer by design.
* `ResolveLogger`: weak fairness of each thread inside a call. Nothing makes a
  call begin. Weak fairness of `Take` says that the `RwLock` does not pass over a
  waiting writer for ever, which holds because new readers go to the new state.
* `BatchLogger`: weak fairness of the holder of the mutex, and strong fairness of
  the two periodic flushes of the hosts, of a request that carries the usual
  amount of other data (`USUAL`) and of full batches only: the mutex is free again
  and again, and each timer gets it again and again.
* `Provider`: weak fairness of the steps of a flush (timers fire, locks are
  granted, HTTP calls return) and of `StartInit`; strong fairness of the refresh's
  steps and of the flush interval, since `select!` picks among its ready branches
  at random; `FetchOk` in this list says that a fetch succeeds from time to time.
* `Pipeline`, `Delivery`, `Telemetry`: safety only. What the platform redelivers,
  and when, is not the code's to promise.

## 4. What is proved

All with constants arbitrary up to the named assumptions of the modules
(`BufferAssumption`, `BoundedSetAssumption`, `ResolveLoggerAssumption`,
`BatchAssumption`, `DedupAssumption`, `DeliveryAssumption`,
`PipelineAssumption`, `TelemetryAssumption`, `ProviderAssumption`,
`ExposureAssumption`, `TargetingAssumption`, `SegmentsAssumption`,
`ResolverAssumption`, and for the data `CriteriaAssumption`,
`StateLoadingAssumption`, `DedupKeyAssumption`, `AttributesAssumption`,
`ShapesAssumption`, `CountsAssumption`, `StatesAssumption`,
`IdentitiesAssumption` and `ResolvesAssumption`), which say what kind of value each constant is. A
hypothesis beyond these is part of the theorem's statement.

* `FlagLogBufferProofs`: `TypeCorrect`, `GuardsCorrect` and `QueueCorrect`, from
  a theorem for each of their parts. The inductive invariant is
  the conjunction of these with "a future that holds no slot carries nothing"
  (`QuietCarriesNothing`), needed because `Cancel` gives back a slot if and only
  if the future has one. The slot count is a cardinality; three lemmas say how
  it moves when a guard is kept, taken or dropped. `StrandingExplained` and
  `RecordsCorrect` add who may leave records behind without an owner, that the
  byte count is the sum of the lengths of what is buffered, and that each
  record is in one place.
* `MemoryProofs`, of `BoundedSet`: `OwnersCorrect` and `QuiescentCorrect`.
  `Hands` says what a thread holds at each step, `Filled` that each slot below
  the counter is stored or about to be, by the thread that drew it. Of
  `Telemetry`: `DeltasCorrect`. `Below` says that nothing read from a counter is
  above it, `Ahead` that a snapshot nobody overtook is not behind the baseline it
  will be compared with.
* `LoggerProofs`, of `ResolveLogger`: `CallsCorrect`, `CheckpointsComplete`, `RefinesLedger`,
  and `RetriesAdvance`: whenever `with_state` retries, another state is current.
  `Locks` (who may be in which cell), `Entries` and
  `UniqueCell` (whose entries a cell holds, and that a call is in one cell),
  `Covering` (where the calls are that a checkpoint must report) are inductive
  only together.
* `LoggerProofs`, of `BatchLogger`: `OrderKept`, since the emitted prefix and the rest make up
  what was pending, and `BoundsKept`: the running byte count is the sum of the
  pending lengths, and no request exceeds its limit.
* `LoggerProofs`, of `Exposure`: `ExposureCorrect`. `ExposureInv` follows the time
  a client noted through its report (`Reported`: shown, then sent, then received)
  to the log entry (`Dated`); the difference of the clocks cancels because both
  times of a report are the client's.
* `LoggerProofs`, of `Aggregation`: `LoggersCorrect`, that the resolve logger and the
  aggregation of messages count alike by flag, rule and variant (`LoggersAgree`, the
  first part of `CountsAgree`). The two ways fold over different lists: one over the
  resolved flags and, of each, the rules it fell through and then the one that
  matched; the other over the messages' flags, rules and variants, which are lists of
  their own. `CountTrace`, `RuleTrace`, `LoggedTrace`, `FlagTrace` and `JoinTrace` say
  what each fold holds after every step; `RuleAlike`, `RulesAlike`, `ValueAlike`,
  `FlagAlike` and `MessageAlike` relate the two after each (`SameCounts`,
  `SameFlags`), from a rule up to a resolve. The counts by assignment are left out
  of the relation because they differ: that is the finding of the run
  `aggregate_assignments`.
* `MemoryProofs`, of `ApplyDedup`: `RememberingCorrect` and the dates in `MapCorrect` from
  `Dates`, `Swept` and `Entries` (the last sweep is never far behind the clock;
  what survived it is younger than the TTL); the capacity in `MapCorrect` from
  `Room`, with two lemmas on how the map's size moves; `ReportsComplete` from
  `Rows`.
* `PipelineProofs`, of `Delivery`: `BudgetKept` and `DeliveryImplements`, the
  refinement of `ChunkDelivery`. `WithinDeadline` becomes
  inductive with the type invariant and `Open`: the chunk being delivered and those
  after it are not settled, which is what lets each step map to `Arrive`,
  `Deliver`, `Lose` or a stutter. `FallbackCorrect` says when a stalled destination
  leaves the next its time: if there is a schedule (`Funded`), a lower bound on
  what is left of the budget at every attempt of every chunk that falls with the
  share a stalled attempt takes and with the back-off, and is at least
  `MIN_ATTEMPT` where a destination of the first `FundedChunks` chunks has its first
  attempt. The inductive invariant is that no behaviour is behind the schedule;
  it needs that what an attempt leaves grows with what it had (`SharedRises`).
  `BudgetsFund` gives the schedules of the worker's two budgets: 25 s fund one
  chunk (25000, 14750, 7850 ms at the first destination, 4710, 2576, 546 at the
  second), and 120 s fund two, with 314 ms left for the second destination of the
  second, against a `MIN_ATTEMPT` of 250. The 25 s do not fund a second chunk, whose
  second destination may find less than that.
* `PipelineProofs`, of `Pipeline`: `AckedCorrect`, `NothingSwallowedEver` and
  `MetricsCorrect`, for any number of requests and consumers, any batch and chunk
  size, and any faults. Three invariants carry them. `SafetyInv` says that a log
  does not change once it is published (`Unpublished`), that a message is in one
  queue or in the hands of one consumer (`InPlace`), how often it was delivered
  and counted (`TriesRight`, `CountedOnceInv`), and that a consumer which has lost
  nothing has delivered every chunk before the one it is at (`Delivered`): an ack
  is decided at the end of an invocation from what the consumer remembers, so
  `AckedLanded` alone is not inductive. `MetricsPart` says that the base of an
  update which nothing overlapped is still in KV (`BaseExact`), and that KV is
  the sum of what was counted outside the marked windows (`SumsExact`);
  `CountedPart`, that a consumer about to acknowledge has counted its batch, or
  its put failed. Chunks,
  batches and sums are followed with the lemmas of `FoldProofs`.
* `ProviderProofs`: all three invariants of the run (`ProviderTypeCorrect`,
  `StoredCorrect`, `LogsCorrect`), from a theorem for each part.
  `Control` relates init, the background task, the refresh and shutdown; `Stored`
  orders what an update stores; `Requests` says that a flush which saw the
  destinations of a state finds an account; `Places` that no assignment is in two
  of the three places; `Claimed` who holds the init count.
* `ResolverProofs`, of `Targeting` and `TargetingLaws`: `TargetingCorrect`, for
  every finite table of segments, which may refer to each other in circles, and
  expressions of every depth up to `MaxDepth`. Evaluation is a recursive function of a call, the
  segments on the path and an expression. A call leads to calls with fewer segments
  left or a smaller depth (`CallsGrow`), so `CallInduction`, a least counterexample,
  can compare two evaluations of a call: `Pair` (what reading records may change),
  `Agree` (stores that agree on what was asked for give the same value).
* `ResolverProofs`, of `Resolver`, for any states, rules, contexts and stores:
  * `StickyCorrect`. `StickyInv` says that what a suspended resolve has read are
    records of the store, and that no rule that needs one has answered yet
    (`Silent`); `RuleRight` is the same for one rule, carried over the rules of a
    flag and over the flags.
  * `ResumeComplete`, from `AskedInv` (what is suspended is what a discovery leaves)
    and `Halves` (what the evaluations of the two halves say of one segment). It has
    two hypotheses, and each is needed. With `Or(And(m1, unknown), m2)` a discovery
    fails at the criterion this version does not know, before it reaches `m2`; the
    second half looks `m2` up when there is no record for `m1`. With a segment
    that refers to itself, `Or(And(self, m2), m1)`, `segment_match` counts it as on the
    path, so a discovery asks for `m1` only; the `targeting_match` of a rule with
    a record does not, and finds `self` true by `m1`. `Recognizing` and `Acyclic`
    exclude the two.
  * `ResumeMatches` and `ResumeFailsLikeOneGo`. `CarriedInv` adds to `AskedInv` that
    the records read, while nothing disturbed the resolve, are what the store says
    of the keys read so far. `Same` relates the accumulators of the two halves and
    of one go, flag by flag (`FlagFirst` for a flag the first half settled, `FlagSecond`
    for one it left). Two more hypotheses say where the code does differ:
    `FallsUnwritten`, that no write-only rule falls through, which is the finding of
    `resolver_fallthrough`, and `KeysAlike`, that a bad key for one rule of a flag
    does not come with a unit for another. The configurations of `resolver_resume`
    meet all four.
* `DataProofs`, of `DataLaws`: `CriteriaCorrect`, `StateCorrect` and
  `NothingDroppedCorrect`, for inputs of any size: lists and sets of any length as
  attributes and rules, any hashes and filters, states with any clients, strings of
  any bytes, batches of any records, any number of shards and of flags in a mask.
  `Picked` says what the input may be; each law is then a fact about one function.
  * Identities. Two keys are equal only for equal assignments since each part of a
    key can be told apart from what follows it (`Delimited`): a string is written as
    its length and its words, so of two strings written before anything else, equal
    words mean equal lengths, then equal chunks, then equal bytes (`ChunkedApart`,
    `WordApart`). `FlattenDelimited` carries this over a list of parts, and
    `FellApart` over the rules an assignment fell through, whose number is written
    first.
  * Cut batches. `Lands` says of a delivery which of its ids landed, and relates
    that set to whether it says that some were delivered and some lost. Two
    deliveries one after the other, of ids that are apart, are one of both
    (`LandsBoth`). So the law follows a call through its halves: of the flags of one
    assignment (`SplitFlagsLaw`), of the assignments of one request
    (`AggregateCallLaw`), of the records of a batch (`CutCallLaw`), each by
    `StrongInduct` on the length. `AggregateIs` and `HalvesRecords` say that joining
    and halving keep the ids and keep them apart; `Solid`, that nothing is empty, is
    what the converses need.
  * Masks: `MarkedIs` says which bits are set after marking, `CollectIs` which flags
    are collected. Shards: `WalkMeets`, a walk of `len` steps meets every shard.
* `FoldProofs` has the lemmas about sums and recursion that these use. A fold of the
  community modules, or a recursive function, is a `CHOOSE` of a solution of its
  equation; that there is one, and what it is at a given argument, is shown by
  assuming the contrary and taking the least counterexample (`LeastNumber`), since
  the induction theorems of the library take an operator as an argument. Induction
  is stated over sets of numbers instead (`NatInduct`, `RangeInduct`,
  `StrongInduct`), and recursion over functions (`RecursionExists`,
  `IterationExists`), and a fold over a sequence is followed by its trace
  (`TraceExists`, `FoldsAlike`). So
  sums over sequences (`LenSum*`), sums over finite sets (`SetSum*`, `Total*`) and
  the increasing sequence of a set of numbers (`IncreasingExists`) are available
  for all sizes.

Only model-checked, and why:

* Liveness (`EveryRecordLeaves` and the like), and anything else that needs
  `ENABLED`: out of the prover's reach.
* `ContextsSound`: its operators are recursive over values of unbounded depth, and
  compared with references that are recursive in another way; this is induction over
  data.
* Of `CountsAgree` all but `LoggersAgree`: sums of seven folds over deltas merged in
  any grouping, modulo the width of the counters, and the samples shown of them.
* The two violated properties; `ResumeFailsLikeOneGo` proves one of them under the
  hypothesis its counterexample breaks.

## 5. Not modelled

* The WASM message layout and the guest's allocation: single-threaded memory.
* Formats and cryptography: protobuf encoding, DEFLATE, the encryption of tokens,
  the hash that picks a bucket (a choice of the configuration).
* `err.rs` (an error number that encodes a source location), the gateway of the
  Rust provider (set-up of an HTTP client).
* HTTP routing, CORS and token checks of the worker beyond which of its answers a
  handler gives: local to one request.
* What Cloudflare's runtime, KV and queues do internally; the models assume what
  the code assumes of them (futures may be dropped at an await, a KV call may
  fail, an unacknowledged batch comes again).
* The Go, Java, JS, Python and Ruby providers, the mock support server, the
  deployer and the protos. The first three have pools and schedules of their own
  and come next in the plan.

`components` in `PROJECT.json` says this per part.

## 6. Plan

What is left, in order of importance:

1. The instance pools of the Go and Java providers: checkout, trap and recovery,
   state update across instances; the scheduling of the JS provider around its
   suspended resolve.
2. `Pipeline` over `Delivery` itself rather than over `ChunkDelivery`: the
   refinement is proved, so the composition would add the deadline to the
   consumers.
3. The guest with `ResolveLogger`, `BatchLogger` and `ApplyDedup` behind one
   flush.
4. The record store of the worker over time: a failed read buckets a unit anew
   and the write that follows overwrites its record. `StickyKept` says that the
   failure stays with the rule whose record it was; that the code overwrites is
   what it does.
5. Proofs: that the metrics of a batch do not depend on their way (`MetricsAgree`, a
   part of `CountsAgree`), with the folds over the deltas followed as those of
   `LoggersCorrect` are; what the consumers promise over `Delivery`, once item 2
   composes them.
