---------------------------- MODULE BatchLogger -----------------------------
(***************************************************************************)
(* The two size-bounded event logs: the assignment log                     *)
(* (confidence-resolver/src/assign_logger.rs) and the event log            *)
(* (confidence-event-engine/src/event_logger.rs), which are the same       *)
(* algorithm.  Writers push into a lock-free queue; a checkpoint holds the *)
(* mutex, moves events from the queue to `pending` until they reach the    *)
(* limit, and emits the longest prefix of `pending` that fits.             *)
(*                                                                         *)
(* Writers interleave with the moves of a running checkpoint; the mutex    *)
(* makes checkpoints of several threads take turns.                        *)
(***************************************************************************)
EXTENDS Integers, Sequences, FiniteSets, SequencesExt, FiniteSetsExt

CONSTANTS
  LIMIT,        \* LOG_TARGET_BYTES
  Lens,         \* encoded lengths an event may have
  Starts,       \* encoded lengths of what a request holds before it is filled
  USUAL,        \* what a request that is to be filled usually holds
  USIZE_MAX,    \* usize::MAX: no limit
  MaxEvents,    \* bound: events logged in one behaviour
  NoJob         \* the mutex is free

ASSUME BatchAssumption ==
  /\ LIMIT \in Nat \ {0}
  /\ Lens \subseteq Nat \ {0}
  /\ Starts \subseteq Nat /\ USUAL \in Starts
  /\ USIZE_MAX \in Nat /\ LIMIT < USIZE_MAX
  /\ MaxEvents \in Nat

VARIABLES
  queue,          \* the SegQueue
  pending,        \* State.pending
  pending_bytes,  \* State.pending_bytes
  job,            \* the checkpoint that holds the mutex, or NoJob
  log,            \* history: every event logged, in the order of the pushes
  sent,           \* history: every event emitted, in order
  last            \* history: what the last finished checkpoint did

batchVars == <<queue, pending, pending_bytes, job, log, sent, last>>

Event == [id : 1 .. MaxEvents, len : Lens]

(***************************************************************************)
(* The ways the log is flushed: with the resolve log and telemetry in the  *)
(* request already (bounded_flush_logs, flush_all), events alone and only  *)
(* when a batch is full (bounded_flush_assign), events alone whatever      *)
(* their size (bounded_flush_events, a start of 0), and without a limit    *)
(* (flush_logs, checkpoint).                                               *)
(***************************************************************************)
Filling(start) == [limit |-> LIMIT, start |-> start, full |-> FALSE]
OnlyFull       == [limit |-> LIMIT, start |-> 0, full |-> TRUE]
Everything(start) == [limit |-> USIZE_MAX, start |-> start, full |-> FALSE]

Jobs == {Filling(s) : s \in Starts} \cup {OnlyFull} \cup {Everything(s) : s \in Starts}

\* usize::saturating_sub
SatSub(a, b) == IF b \in 0 .. a THEN a - b ELSE 0

\* Mutant: the bytes already in the request are not counted.
Room_IgnoresStart(j) == j.limit

\* limit_bytes after the bytes the request already holds.
Room(j) == SatSub(j.limit, j.start)

SumLen(es) == FoldLeft(LAMBDA acc, e : acc + e.len, 0, es)

\* The first n pending events may go out together; a lone event of an
\* otherwise empty request may exceed the limit.
Fits(es, n, j) == \/ n = 0
                  \/ n = 1 /\ j.start = 0
                  \/ SumLen(SubSeq(es, 1, n)) <= Room(j)

\* Mutant: no exception for the oversized first event.
Batch_NeverOversized(es, j) ==
  Max({n \in 0 .. Len(es) : SumLen(SubSeq(es, 1, n)) <= Room(j)})

\* How many events the emitting loop pops.
Batch(es, j) == Max({n \in 0 .. Len(es) : Fits(es, n, j)})

BatchInit ==
  /\ queue = <<>> /\ pending = <<>> /\ pending_bytes = 0
  /\ job = NoJob
  /\ log = <<>> /\ sent = <<>>
  /\ last = [written |-> 0, count |-> 0, job |-> NoJob]

\* log_assigns, track
Log(l) ==
  LET e == [id |-> Len(log) + 1, len |-> l] IN
  /\ Len(log) < MaxEvents
  /\ queue' = Append(queue, e)
  /\ log' = Append(log, e)
  /\ UNCHANGED <<pending, pending_bytes, job, sent, last>>

\* checkpoint_fill_with_limit, flush_fill: the mutex is acquired.
Lock(j) ==
  /\ job = NoJob
  /\ job' = j
  /\ UNCHANGED <<queue, pending, pending_bytes, log, sent, last>>

\* Mutant: the newest event is moved first.
Pull_FromBack ==
  /\ job # NoJob /\ pending_bytes < Room(job) /\ queue # <<>>
  /\ pending' = Append(pending, Last(queue))
  /\ pending_bytes' = pending_bytes + Last(queue).len
  /\ queue' = Front(queue)
  /\ UNCHANGED <<job, log, sent, last>>

\* Below the limit, an event is moved from the queue.
Pull ==
  /\ job # NoJob /\ pending_bytes < Room(job) /\ queue # <<>>
  /\ pending' = Append(pending, Head(queue))
  /\ pending_bytes' = pending_bytes + Head(queue).len
  /\ queue' = Tail(queue)
  /\ UNCHANGED <<job, log, sent, last>>

\* Mutant: the byte count is not reduced by what was written.
Emit_KeepsBytes ==
  LET n == Batch(pending, job)
      written == SumLen(SubSeq(pending, 1, n))
  IN
  /\ job # NoJob /\ (pending_bytes >= Room(job) \/ queue = <<>>)
  /\ \/ /\ pending_bytes >= Room(job) \/ ~job.full
        /\ pending' = SubSeq(pending, n + 1, Len(pending))
        /\ sent' = sent \o SubSeq(pending, 1, n)
        /\ last' = [written |-> written, count |-> n, job |-> job]
     \/ /\ pending_bytes < Room(job) /\ job.full
        /\ last' = [written |-> 0, count |-> 0, job |-> job]
        /\ UNCHANGED <<pending, sent>>
  /\ job' = NoJob
  /\ UNCHANGED <<queue, pending_bytes, log>>

\* The limit is reached or the queue was found empty: emit what fits, unless
\* a full batch is required and there is none, and release the mutex.
Emit ==
  LET n == Batch(pending, job)
      written == SumLen(SubSeq(pending, 1, n))
  IN
  /\ job # NoJob /\ (pending_bytes >= Room(job) \/ queue = <<>>)
  /\ \/ /\ pending_bytes >= Room(job) \/ ~job.full
        /\ pending' = SubSeq(pending, n + 1, Len(pending))
        /\ pending_bytes' = SatSub(pending_bytes, written)
        /\ sent' = sent \o SubSeq(pending, 1, n)
        /\ last' = [written |-> written, count |-> n, job |-> job]
     \/ /\ pending_bytes < Room(job) /\ job.full
        /\ last' = [written |-> 0, count |-> 0, job |-> job]
        /\ UNCHANGED <<pending, pending_bytes, sent>>
  /\ job' = NoJob
  /\ UNCHANGED <<queue, log>>

BatchNext == \/ \E l \in Lens : Log(l)
        \/ \E j \in Jobs : Lock(j)
        \/ Pull
        \/ Emit

BatchSpec == BatchInit /\ [][BatchNext]_batchVars

(***************************************************************************)
(* Fairness: a checkpoint that holds the mutex runs on, and both periodic  *)
(* flushes of the providers, of everything with little else in the request *)
(* and of full batches, keep getting the mutex.                            *)
(***************************************************************************)
BatchFairSpec ==
  /\ BatchSpec
  /\ WF_batchVars(Pull \/ Emit)
  /\ SF_batchVars(Lock(Filling(USUAL)))
  /\ SF_batchVars(Lock(OnlyFull))

-----------------------------------------------------------------------------
(* Every variable keeps its type.                                          *)
BatchTypeOK ==
  /\ queue \in Seq(Event) /\ pending \in Seq(Event)
  /\ log \in Seq(Event) /\ sent \in Seq(Event)
  /\ pending_bytes \in Nat
  /\ job \in Jobs \cup {NoJob}
  /\ last \in [written : Nat, count : Nat, job : Jobs \cup {NoJob}]

(* Nothing is lost, duplicated or reordered on the way through the queue,  *)
(* the pending list and any number of partial checkpoints: what was sent,  *)
(* then what is pending, then what is queued, is what was logged.          *)
InOrder == sent \o pending \o queue = log

(* The cached byte count never drifts from the pending events, so the      *)
(* moving loop neither stops early nor overfills.                          *)
PendingBytesExact == pending_bytes = SumLen(pending)

(* A request stays within its limit, except for an event that is larger    *)
(* than the limit and travels alone.                                       *)
WithinLimit ==
  last.count > 0 =>
    \/ last.job.start + last.written <= last.job.limit
    \/ last.count = 1 /\ last.job.start = 0

(* The cached byte count is right and no request is larger than it may be. *)
BatchBounds == PendingBytesExact /\ WithinLimit

(* Every event that fits beside what else a request holds, or fills a      *)
(* request of its own, is sent although no further event is logged.        *)
Sendable(e) == e.len <= LIMIT - USUAL \/ e.len >= LIMIT

EveryEventSent ==
  \A k \in 1 .. MaxEvents :
    Len(log) >= k ~> \/ Len(sent) >= k
                     \/ \E i \in DOMAIN log : ~Sendable(log[i])

=============================================================================
