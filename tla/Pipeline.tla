------------------------------ MODULE Pipeline ------------------------------
(***************************************************************************)
(* The Cloudflare worker under the queue sink: the request handlers of one *)
(* isolate (confidence-cloudflare-resolver/src/lib.rs), the publish to a   *)
(* queue shard (flag_log/shards.rs), the queue consumers (flag_log/        *)
(* queue.rs and consume_events_queue) and the metrics they keep in KV.     *)
(*                                                                         *)
(* A handler runs between its awaits without interruption; requests and    *)
(* consumers interleave at the awaits.  A request publishes at most one    *)
(* message and the message is named after it.                              *)
(***************************************************************************)
EXTENDS Integers, Sequences, FiniteSets, FiniteSetsExt, SequencesExt

CONSTANTS
  ResolveRequests, \* numbers of the flags:resolve requests
  ApplyRequests, \* numbers of the flags:apply requests
  EventRequests, \* numbers of the events:publish requests
  Keys,          \* assignments as the deduplication tells them apart
  Foreign,       \* requests that another version of the worker may serve
  Jobs,          \* consumer invocations that run at a time
  Size(_),       \* encoded size of a log
  PROTO_CHUNK,   \* PROTO_CHUNK_BYTES
  MaxBatch,      \* messages the platform hands to a consumer at a time
  MaxFaults,     \* bound: evictions, cut-off consumers and failed KV operations
  MaxTries       \* deliveries before the platform moves a message to the DLQ

Requests == ResolveRequests \cup ApplyRequests
Messages == Requests \cup EventRequests

ASSUME PipelineAssumption ==
  /\ Messages \subseteq Nat /\ Requests \cap EventRequests = {}
  /\ ResolveRequests \cap ApplyRequests = {}
  /\ IsFiniteSet(Messages)
  /\ Foreign \subseteq Messages
  /\ PROTO_CHUNK \in Nat
  /\ MaxBatch \in Nat \ {0} /\ MaxTries \in Nat \ {0} /\ MaxFaults \in Nat

VARIABLES
  unreadable,\* the messages that the consumer's version cannot parse
  req,       \* the handler of each request
  seen,      \* APPLY_DEDUP
  log,       \* the log of each request
  queue,     \* waiting messages of the flag log shards and of the events queue
  tries,     \* deliveries of each message so far
  job,       \* the consumers
  kv,        \* the metrics snapshot of each pipeline: resolves or events counted
  landed,    \* what the backend has: logs by number, assignments by key
  acked,     \* messages the consumer acknowledged
  dead,      \* messages in the dead letter queue
  dropped,   \* history: requests whose log no shard took
  evicted,   \* history: requests whose log went with the isolate
  assigned,  \* history: assignments the resolver reported
  counted,   \* history: how often each message was counted in a snapshot
  recounted, \* history: messages redelivered after they were counted
  faults,    \* history: how many faults there were
  raced,     \* history: pipelines of which an update was based on a stale read
  missed     \* history: messages that a failed update of the snapshot left out

reqVars  == <<req, seen, log, assigned>>
metrics  == <<kv, counted, raced, missed>>
vars == <<unreadable, reqVars, queue, tries, job, landed, acked, dead, dropped, evicted, metrics, recounted, faults>>

Pipelines == {"flaglogs", "events"}
NoLog == [applies |-> {}, resolves |-> 0, any |-> FALSE]
IdleJob == [pc |-> "idle", of |-> "flaglogs", batch |-> {}, chunks |-> << >>, ok |-> FALSE,
            lost |-> FALSE, base |-> 0, stale |-> FALSE]

Init ==
  /\ unreadable \in SUBSET Foreign
  /\ req = [r \in Messages |-> "new"]
  /\ seen = {}
  /\ log = [r \in Messages |-> NoLog]
  /\ queue = [p \in Pipelines |-> {}]
  /\ tries = [r \in Messages |-> 0]
  /\ job = [j \in Jobs |-> IdleJob]
  /\ kv = [p \in Pipelines |-> 0]
  /\ landed = {} /\ acked = {} /\ dead = {} /\ dropped = {} /\ evicted = {}
  /\ assigned = {}
  /\ counted = [r \in Messages |-> 0]
  /\ recounted = {}
  /\ faults = 0
  /\ raced = {}
  /\ missed = {}

-----------------------------------------------------------------------------
\* Host::log_assign: the assignments the isolate has not seen yet.
Kept(keys) == keys \ seen

\* The resolver logs the resolve and the assignments it made.
LogAssign(r, keys, resolves) ==
  /\ log' = [log EXCEPT ![r] = [applies |-> Kept(keys), resolves |-> resolves, any |-> TRUE]]
  /\ seen' = seen \cup keys
  /\ assigned' = assigned \cup keys

\* flags:resolve: a body that does not parse is answered at once; the
\* resolver answers, or suspends to have materializations read.  An error
\* is logged too: the telemetry counts it.
Resolve(r) ==
  /\ req[r] = "new"
  /\ \/ \E keys \in SUBSET Keys : LogAssign(r, keys, 1) /\ req' = [req EXCEPT ![r] = "ship"]
     \/ req' = [req EXCEPT ![r] = "reading"] /\ UNCHANGED <<log, seen, assigned>>
     \/ req' = [req EXCEPT ![r] = "done"] /\ UNCHANGED <<log, seen, assigned>>
  /\ UNCHANGED <<queue, tries, job, landed, acked, dead, dropped, evicted, metrics, recounted, faults>>

\* The materializations are read and the resolve is resumed.
Resume(r) ==
  /\ req[r] = "reading"
  /\ \E keys \in SUBSET Keys : LogAssign(r, keys, 1)
  /\ req' = [req EXCEPT ![r] = "ship"]
  /\ UNCHANGED <<queue, tries, job, landed, acked, dead, dropped, evicted, metrics, recounted, faults>>

\* flags:apply: the assignments of a token are logged, and with them what the
\* deduplication counted; a request that fails has nothing to publish (but
\* counters others left, which are not modelled); one without a token, or
\* that does not parse, is answered.
Apply(r) ==
  /\ req[r] = "new"
  /\ \/ /\ \E keys \in (SUBSET Keys) \ {{}} : LogAssign(r, keys, 0)
        /\ req' = [req EXCEPT ![r] = "ship"]
     \/ req' = [req EXCEPT ![r] = "ship"] /\ UNCHANGED <<log, seen, assigned>>
     \/ req' = [req EXCEPT ![r] = "done"] /\ UNCHANGED <<log, seen, assigned>>
  /\ UNCHANGED <<queue, tries, job, landed, acked, dead, dropped, evicted, metrics, recounted, faults>>

\* queue_flag_log: the sweep forgets what is older than the TTL, ...
Swept == {seen \ old : old \in SUBSET seen}

\* ... before the log is sent.
Ship(r) ==
  /\ req[r] = "ship"
  /\ seen' \in Swept
  /\ req' = [req EXCEPT ![r] = IF log[r].any THEN "publish" ELSE "done"]
  /\ UNCHANGED <<log, queue, tries, job, landed, acked, dead, dropped, evicted, metrics, recounted, faults,
                 assigned>>

\* send_to_any: some shard takes the log, or all refuse it and it is dropped.
Publish(r) ==
  /\ req[r] = "publish"
  /\ req' = [req EXCEPT ![r] = "done"]
  /\ \/ queue' = [queue EXCEPT !["flaglogs"] = @ \cup {r}] /\ UNCHANGED dropped
     \/ dropped' = dropped \cup {r} /\ UNCHANGED queue
  /\ UNCHANGED <<seen, log, tries, job, landed, acked, dead, evicted, metrics, recounted, faults, assigned>>

\* Mutant: events go to the queue of the flag logs.
PublishEvents_WrongQueue(r) ==
  /\ req[r] = "new"
  /\ req' = [req EXCEPT ![r] = "done"]
  /\ queue' = [queue EXCEPT !["flaglogs"] = @ \cup {r}]
  /\ log' = [log EXCEPT ![r].resolves = 1, ![r].any = TRUE]
  /\ UNCHANGED <<seen, tries, job, landed, acked, dead, dropped, evicted, metrics, recounted, faults, assigned>>

\* events:publish: the caller is refused (400, 401, 503, a failed send), or
\* its events are queued before it is answered.
PublishEvents(r) ==
  /\ req[r] = "new"
  /\ req' = [req EXCEPT ![r] = "done"]
  /\ \E sent \in BOOLEAN :
       /\ queue' = IF sent THEN [queue EXCEPT !["events"] = @ \cup {r}] ELSE queue
       /\ log' = IF sent THEN [log EXCEPT ![r].resolves = 1, ![r].any = TRUE] ELSE log
  /\ UNCHANGED <<seen, tries, job, landed, acked, dead, dropped, evicted, metrics, recounted, faults, assigned>>

Running == {r \in Requests : req[r] \in {"reading", "ship", "publish"}}

\* The platform evicts the isolate: its requests, what wait_until still had
\* to do and the deduplication map are gone.
Evict ==
  /\ Running # {} /\ faults < MaxFaults
  /\ faults' = faults + 1
  /\ req' = [r \in Messages |-> IF r \in Running THEN "done" ELSE req[r]]
  /\ evicted' = evicted \cup Running
  /\ seen' = {}
  /\ UNCHANGED <<log, queue, tries, job, landed, acked, dead, dropped, metrics, recounted, assigned>>

-----------------------------------------------------------------------------
Encoded(ms) == MapThenSumSet(Size, {ms[i] : i \in DOMAIN ms})

\* deliver_all_within_limit: halves, until a half fits or is one message.
\* Written over the bounds of the halves: chunks[<<i, k>>] are the chunks of
\* the messages i to k.
Split(ms) ==
  LET n == Len(ms)
      chunks[b \in (1 .. n) \X (1 .. n)] ==
        LET i == b[1]
            k == b[2]
            mid == i + (k - i + 1) \div 2 - 1
        IN  IF Encoded(SubSeq(ms, i, k)) > PROTO_CHUNK /\ i < k
            THEN chunks[<<i, mid>>] \o chunks[<<mid + 1, k>>]
            ELSE <<SubSeq(ms, i, k)>>
  IN  IF n = 0 THEN << >> ELSE chunks[<<1, n>>]

\* What the consumer can parse of a batch, in order.
Readable(batch) ==
  LET parsed == batch \ unreadable
  IN  CHOOSE ms \in [1 .. Cardinality(parsed) -> parsed] :
        \A i, k \in DOMAIN ms : i < k => ms[i] < ms[k]

\* Mutant: an assignment in two logs of a batch stays with neither.
Deduped_Both(batch, r) ==
  {k \in log[r].applies : \A q \in (batch \ unreadable) \ {r} : k \notin log[q].applies}

\* dedup_batch_flag_applies: an assignment stays with the first log it is in.
Deduped(batch, r) ==
  {k \in log[r].applies : \A q \in batch \ unreadable : q < r => k \notin log[q].applies}

Content(batch, ms) ==
  UNION {{<<"log", r>>} \cup {<<"apply", k>> : k \in Deduped(batch, r)} : r \in Range(ms)}

\* A batch of one queue is handed to a consumer.  Events without any that
\* can be parsed are done at once.
Take(j, p) ==
  /\ job[j].pc = "idle"
  /\ \E batch \in (SUBSET queue[p]) \ {{}} :
       /\ Cardinality(batch) <= MaxBatch
       /\ queue' = [queue EXCEPT ![p] = @ \ batch]
       /\ tries' = [r \in Messages |-> tries[r] + IF r \in batch THEN 1 ELSE 0]
       /\ job' = [job EXCEPT ![j] = [IdleJob EXCEPT
            !.of = p, !.batch = batch,
            !.pc = IF p = "events" /\ batch \subseteq unreadable THEN "answer" ELSE "deliver",
            !.chunks = IF p = "events" THEN <<Readable(batch)>> ELSE Split(Readable(batch))]]
  /\ UNCHANGED <<reqVars, landed, acked, dead, dropped, evicted, metrics, recounted, faults>>

\* deliver_aggregate of the next chunk, or the POST of all events: what is
\* reported as delivered has landed, what is reported as lost may have
\* (ChunkDelivery).  Of the counts only ack_decision's questions are kept:
\* whether anything was delivered and whether anything was lost.
DeliverChunk(j) ==
  /\ job[j].pc = "deliver" /\ job[j].chunks # << >>
  /\ LET ms == Head(job[j].chunks)
         all == landed \cup Content(job[j].batch, ms)
     IN  \/ /\ landed' = all
            /\ job' = [job EXCEPT ![j].chunks = Tail(@), ![j].ok = TRUE]
         \/ /\ landed' \in {landed, all}
            /\ job' = [job EXCEPT ![j].chunks = Tail(@), ![j].lost = TRUE]
  /\ UNCHANGED <<reqVars, queue, tries, acked, dead, dropped, evicted, metrics, recounted, faults>>

\* Mutant: both pipelines accumulate into the same key.
SnapshotKey_Shared(p) == "flaglogs"

\* SnapshotPipeline::key.
SnapshotKey(p) == p

\* update_kv_snapshot reads the snapshot; a read that fails reads as empty.
ReadSnapshot(j) ==
  /\ job[j].pc = "deliver" /\ job[j].chunks = << >>
  /\ \E failed \in BOOLEAN :
       /\ failed => faults < MaxFaults
       /\ faults' = faults + IF failed THEN 1 ELSE 0
       /\ job' = [job EXCEPT ![j].pc = "write", ![j].stale = failed,
                             ![j].base = IF failed THEN 0 ELSE kv[SnapshotKey(job[j].of)]]
  /\ UNCHANGED <<reqVars, queue, tries, landed, acked, dead, dropped, evicted, metrics, recounted>>

\* Mutant: the telemetry of a batch counts whether or not it was delivered.
Accounted_Always(j) == job[j].batch \ unreadable

\* Mutant: an update whose base is not what the snapshot holds adds nothing.
Accounted_Fresh(j) == IF job[j].lost \/ job[j].stale THEN {} ELSE job[j].batch \ unreadable

\* The messages whose telemetry, or events, the update of a job adds.
Accounted(j) == IF job[j].lost THEN {} ELSE job[j].batch \ unreadable

Resolves(r) == log[r].resolves

Updated(j) == job[j].base + MapThenSumSet(Resolves, Accounted(j))

\* ... and puts it, over whatever others put meanwhile; a put may fail.
WriteSnapshot(j) ==
  /\ job[j].pc = "write"
  /\ \/ /\ kv' = [kv EXCEPT ![SnapshotKey(job[j].of)] = Updated(j)]
        /\ counted' = [r \in Messages |-> counted[r] + IF r \in Accounted(j) THEN 1 ELSE 0]
        /\ raced' = IF job[j].stale THEN raced \cup {job[j].of} ELSE raced
        /\ job' = [i \in Jobs |->
             IF i = j THEN [job[j] EXCEPT !.pc = "answer"]
             ELSE [job[i] EXCEPT !.stale = @ \/ (job[i].pc = "write" /\ job[i].of = job[j].of)]]
        /\ UNCHANGED <<faults, missed>>
     \/ /\ faults < MaxFaults /\ faults' = faults + 1
        /\ job' = [job EXCEPT ![j].pc = "answer"]
        /\ missed' = missed \cup Accounted(j)
        /\ UNCHANGED <<kv, counted, raced>>
  /\ UNCHANGED <<reqVars, queue, tries, landed, acked, dead, dropped, evicted, recounted>>

\* A batch that was not acknowledged is delivered again, until it is dead.
Redeliver(j) ==
  /\ dead' = dead \cup {r \in job[j].batch : tries[r] >= MaxTries}
  /\ queue' = [queue EXCEPT ![job[j].of] = @ \cup {r \in job[j].batch : tries[r] < MaxTries}]

\* Mutant: a batch of which a part landed is acknowledged.
Acknowledge_Partial(j) == ~job[j].lost \/ job[j].ok

\* ack_decision: Complete.
Acknowledge(j) == ~job[j].lost

\* The consumer returns Ok or Err.
Answer(j) ==
  /\ job[j].pc = "answer"
  /\ job' = [job EXCEPT ![j] = IdleJob]
  /\ IF Acknowledge(j) THEN acked' = acked \cup job[j].batch /\ UNCHANGED <<dead, queue>>
                       ELSE Redeliver(j) /\ UNCHANGED acked
  /\ UNCHANGED <<reqVars, tries, landed, dropped, evicted, metrics, recounted, faults>>

\* The invocation of a consumer ends without an answer.
Interrupt(j) ==
  /\ job[j].pc # "idle" /\ faults < MaxFaults
  /\ faults' = faults + 1
  /\ job' = [job EXCEPT ![j] = IdleJob]
  /\ Redeliver(j)
  /\ recounted' = recounted \cup {r \in job[j].batch : counted[r] > 0}
  /\ UNCHANGED <<reqVars, tries, landed, acked, dropped, evicted, metrics>>

Step ==
  \/ \E r \in ResolveRequests : Resolve(r) \/ Resume(r)
  \/ \E r \in ApplyRequests : Apply(r)
  \/ \E r \in Requests : Ship(r) \/ Publish(r)
  \/ \E r \in EventRequests : PublishEvents(r)
  \/ Evict
  \/ \E j \in Jobs, p \in Pipelines : Take(j, p)
  \/ \E j \in Jobs : DeliverChunk(j) \/ ReadSnapshot(j) \/ WriteSnapshot(j) \/ Answer(j) \/ Interrupt(j)

Next == Step /\ UNCHANGED unreadable

Spec == Init /\ [][Next]_vars

-----------------------------------------------------------------------------
Queued(r) == \E p \in Pipelines : r \in queue[p]
InHand(r) == \E j \in Jobs : r \in job[j].batch

(* The type of every variable: in particular each pipeline publishes to    *)
(* its own queue.                                                          *)
TypeOK ==
  /\ seen \subseteq Keys
  /\ log \in [Messages -> [applies : SUBSET Keys, resolves : {0, 1}, any : BOOLEAN]]
  /\ queue["events"] \subseteq EventRequests /\ queue["flaglogs"] \subseteq Requests
  /\ tries \in [Messages -> 0 .. MaxTries]
  /\ \A j \in Jobs : job[j].batch \subseteq Messages /\ job[j].of \in Pipelines
  /\ counted \in [Messages -> 0 .. MaxTries]
  /\ acked \subseteq Messages /\ dead \subseteq Messages /\ dropped \subseteq Requests /\ evicted \subseteq Requests

(* An acknowledged message is one the backend has, with every assignment   *)
(* in it: a batch of which a chunk is missing is delivered again as a      *)
(* whole.  The one exception is a log that cannot be parsed (queue.rs,     *)
(* consume; ack_decision).                                                 *)
AckedLanded ==
  \A r \in acked \ unreadable :
    /\ <<"log", r>> \in landed
    /\ \A k \in log[r].applies : <<"apply", k>> \in landed

(* An assignment that the resolver reported reaches the backend, or is     *)
(* still on its way, or was lost in one of the known ways: dropped by all  *)
(* shards, evicted, unreadable or dead.  It is never swallowed by the      *)
(* deduplication, which remembers only what some log has (lib.rs,          *)
(* log_assign; flag_log/mod.rs, dedup_flag_applies).                       *)
NothingSwallowed ==
  \A k \in assigned :
    \/ <<"apply", k>> \in landed
    \/ \E r \in Requests : /\ k \in log[r].applies
                           /\ \/ req[r] \in {"ship", "publish"} \/ Queued(r) \/ InHand(r)
                              \/ r \in dropped \/ r \in evicted \/ r \in dead \/ r \in acked \cap unreadable

(* The resolves and events of a message are counted at most once, however  *)
(* often its batch is delivered again, unless a consumer is cut off after  *)
(* it counted them (queue.rs, the condition on lost).                      *)
CountedAtMostOnce == \A r \in Messages : r \notin recounted => counted[r] <= 1

(* A message is acknowledged only after it was counted, unless it cannot   *)
(* be parsed or the put that would have counted it failed: the consumer    *)
(* awaits the update of the snapshot before it answers.                    *)
AckedCounted == \A r \in acked \ unreadable : r \notin missed => counted[r] >= 1

(* So an acknowledged message is counted exactly once.                     *)
CountedOnce == CountedAtMostOnce /\ AckedCounted

(* The snapshot of a pipeline is the sum of what its consumers counted, as *)
(* long as no two updates of this pipeline overlapped and no read failed:  *)
(* the other pipeline cannot disturb it (lib.rs, SnapshotPipeline).        *)
SnapshotExact ==
  \A p \in Pipelines : p \notin raced =>
    LET mine == IF p = "events" THEN EventRequests ELSE Requests
        Times(r) == counted[r] * log[r].resolves
    IN  kv[p] = MapThenSumSet(Times, mine)

(* The metrics in KV count no message twice and every acknowledged one     *)
(* once, and are the sum of what was counted, outside the known windows: a *)
(* consumer cut off after counting, a failed read or put, two overlapping  *)
(* updates.                                                                *)
MetricsExact == TypeOK /\ CountedOnce /\ SnapshotExact

=============================================================================
