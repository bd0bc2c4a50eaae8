--------------------------- MODULE FlagLogBuffer ---------------------------
(***************************************************************************)
(* The in-isolate flag-log buffer of the Cloudflare resolver               *)
(* (confidence-cloudflare-resolver/src/flag_log/buffer.rs), together with  *)
(* the background future that every request hands to `wait_until`          *)
(* (queue_flag_log in lib.rs).                                             *)
(*                                                                         *)
(* An isolate is single-threaded: code between two `await`s is atomic, so  *)
(* an action is everything from one await to the next.  Several background *)
(* futures ("invocations") interleave at their awaits, and the platform    *)
(* may drop any of them at an await (Cancel), which runs the Drop of the   *)
(* delivery slot and of the waiter role it holds.                          *)
(*                                                                         *)
(* Time is relative: `left` is what remains of an invocation's deadline,   *)
(* `age` how long ago a record landed, both in quanta of Tick.             *)
(***************************************************************************)
EXTENDS Integers, Sequences, FiniteSets, SequencesExt, FiniteSetsExt

CONSTANTS
  Invs,              \* background futures that may be alive at once
  Lens,              \* encoded lengths a record may have
  MaxSeq,            \* bound: records offered in one behaviour
  FLUSH_BYTES, FLUSH_RECORDS, MAX_BUFFER_BYTES, MAX_BUFFER_RECORDS,
  MAX_IN_FLIGHT, HARD_IN_FLIGHT,
  IDLE, MAX_AGE,     \* IDLE_MS and MAX_AGE_MS, in quanta
  POLL,              \* POLL_MS
  BUDGET,            \* INVOCATION_BUDGET_MS
  RETIRE_AT,         \* RETIRE_AT_REMAINING_MS
  MIN_DRAIN,         \* MIN_DRAIN_BUDGET_MS
  Punctual           \* TRUE: timers and deadlines fire within a quantum

ASSUME BufferAssumption ==
  /\ IsFiniteSet(Invs)
  /\ Lens \subseteq Nat
  /\ MaxSeq \in Nat
  /\ FLUSH_BYTES \in Nat /\ MAX_BUFFER_BYTES \in Nat
  /\ FLUSH_BYTES < MAX_BUFFER_BYTES
  /\ FLUSH_RECORDS \in Nat \ {0} /\ MAX_BUFFER_RECORDS \in Nat
  /\ FLUSH_RECORDS <= MAX_BUFFER_RECORDS
  /\ MAX_IN_FLIGHT \in Nat /\ HARD_IN_FLIGHT \in Nat
  /\ MAX_IN_FLIGHT < HARD_IN_FLIGHT
  /\ IDLE \in Nat /\ MAX_AGE \in Nat /\ POLL \in Nat
  /\ MIN_DRAIN \in Nat /\ RETIRE_AT \in Nat /\ BUDGET \in Nat
  /\ MIN_DRAIN < RETIRE_AT /\ RETIRE_AT <= BUDGET
  /\ Punctual \in BOOLEAN

VARIABLES
  logs,          \* Buffer.logs: the entries, oldest first
  bytes,         \* Buffer.bytes
  next_seq,      \* Buffer.next_seq
  waiter_active, \* Buffer.waiter_active
  in_flight,     \* IN_FLIGHT
  pc,            \* where each invocation is suspended
  batch,         \* the records an invocation's delivery carries
  left,          \* what remains of each invocation's Deadline
  wake,          \* quanta until a sleeping waiter's Delay fires
  boundary,      \* the drain boundary of a waiter that stood down
  settled        \* history: records delivered, lost, shed or cancelled

vars == <<logs, bytes, next_seq, waiter_active, in_flight,
          pc, batch, left, wake, boundary, settled>>

(***************************************************************************)
(* "queued"     created, handed to wait_until, never polled                *)
(* "sending"    awaiting the delivery of the batch its request flushed     *)
(* "sleeping"   the waiter, awaiting its poll timer                        *)
(* "delivering" the waiter, awaiting the delivery of a due chunk           *)
(* "draining"   a former waiter, awaiting a delivery of its final drain    *)
(* A delivering invocation whose batch is empty has its outcome and awaits *)
(* the metrics write, still holding its slot.                              *)
(***************************************************************************)
Delivering == {"sending", "delivering", "draining"}
WaiterRole == {"sleeping", "delivering"}
PCs        == {"idle", "queued", "sleeping"} \cup Delivering

Seqs    == 0 .. MaxSeq - 1
Entry   == [seq : Seqs, len : Lens, age : 0 .. MAX_AGE]
Record  == [seq : Seqs, len : Lens]

HoldsSlot(i) == pc[i] \in Delivering \/ batch[i] # {}

-----------------------------------------------------------------------------
(* Buffer: size, triggers and chunking.                                    *)

SumLen(ls) == FoldLeft(LAMBDA acc, e : acc + e.len, 0, ls)

\* Mutant: plain subtraction.
SatSub_Plain(a, b) == a - b

\* usize::saturating_sub
SatSub(a, b) == IF b \in 0 .. a THEN a - b ELSE 0

SizeDue(ls, b)   == b >= FLUSH_BYTES \/ Len(ls) >= FLUSH_RECORDS
\* Mutant: the record ceiling is forgotten.
AtCeiling_BytesOnly(ls, b) == b >= MAX_BUFFER_BYTES

AtCeiling(ls, b) == b >= MAX_BUFFER_BYTES \/ Len(ls) >= MAX_BUFFER_RECORDS

TimeDue(ls) == Len(ls) > 0 /\ (ls[Len(ls)].age >= IDLE \/ ls[1].age >= MAX_AGE)

\* The first n entries can go out as one chunk: a lone record always may,
\* more only within both flush limits, and none from `bound` on.
FitsChunk(ls, n, bound) ==
  \/ n = 0
  \/ /\ ls[n].seq < bound
     /\ n = 1 \/ (n <= FLUSH_RECORDS /\ SumLen(SubSeq(ls, 1, n)) <= FLUSH_BYTES)

\* Mutant: the drain ignores its boundary.
ChunkBefore_NoBoundary(ls, bound) ==
  Max({n \in 0 .. Len(ls) : FitsChunk(ls, n, MaxSeq)})

\* How many entries take_chunk_before(bound) removes.
ChunkBefore(ls, bound) == Max({n \in 0 .. Len(ls) : FitsChunk(ls, n, bound)})

\* take_chunk: the same scan without a boundary.
Chunk(ls) == ChunkBefore(ls, MaxSeq)

\* Mutant: the newest records leave instead of the oldest.
Drop_FromBack(ls, n) == SubSeq(ls, 1, Len(ls) - n)

\* Mutant: a chunk leaves the buffer without its bytes.
BytesAfter_Unchanged(ls, b, n) == b

\* Mutant: the last record of a chunk is dropped on the floor.
Records_OffByOne(ls, n) ==
  {[seq |-> ls[k].seq, len |-> ls[k].len] : k \in 1 .. n - 1}

\* The buffer after its first n entries were drained, its byte count, and
\* the records that left.
Drop(ls, n) == SubSeq(ls, n + 1, Len(ls))

BytesAfter(ls, b, n) == SatSub(b, SumLen(SubSeq(ls, 1, n)))

Records(ls, n) == {[seq |-> ls[k].seq, len |-> ls[k].len] : k \in 1 .. n}

SeqsOf(rs) == {r.seq : r \in rs}

\* How many entries the timer path's shedding loop removes, having removed m:
\* it goes on until the size trigger no longer fires.
ShedFrom(ls, b) ==
  LET upTo[m \in 0 .. Len(ls)] ==
        LET rest == Drop(ls, m)
        IN  IF rest = <<>> \/ ~SizeDue(rest, BytesAfter(ls, b, m))
            THEN m ELSE upTo[m + Chunk(rest)]
  IN  upTo[Chunk(ls)]

Decide(ceiling, n) ==
  IF n >= HARD_IN_FLIGHT /\ ceiling THEN "Shed"
  ELSE IF n >= MAX_IN_FLIGHT /\ ~ceiling THEN "Hold"
  ELSE "Deliver"

-----------------------------------------------------------------------------
Init ==
  /\ logs = <<>> /\ bytes = 0 /\ next_seq = 0
  /\ waiter_active = FALSE /\ in_flight = 0
  /\ pc = [i \in Invs |-> "idle"]
  /\ batch = [i \in Invs |-> {}]
  /\ left = [i \in Invs |-> 0]
  /\ wake = [i \in Invs |-> 0]
  /\ boundary = [i \in Invs |-> 0]
  /\ settled = {}

(***************************************************************************)
(* A request logs one record of encoded length l: offer_at runs in the     *)
(* request path, then queue_flag_log is handed to wait_until.              *)
(***************************************************************************)
Offer(i, l) ==
  LET ls == Append(logs, [seq |-> next_seq, len |-> l, age |-> 0])
      b  == bytes + l
      n  == Chunk(ls)
      d  == IF SizeDue(ls, b) THEN Decide(AtCeiling(ls, b), in_flight) ELSE "Hold"
  IN
  /\ pc[i] = "idle" /\ next_seq < MaxSeq
  /\ next_seq' = next_seq + 1
  /\ pc' = [pc EXCEPT ![i] = "queued"]
  /\ \/ /\ d = "Hold"
        /\ logs' = ls /\ bytes' = b
        /\ UNCHANGED <<in_flight, batch, settled>>
     \/ /\ d = "Shed"
        /\ logs' = Drop(ls, n) /\ bytes' = BytesAfter(ls, b, n)
        /\ settled' = settled \cup SeqsOf(Records(ls, n))
        /\ UNCHANGED <<in_flight, batch>>
     \/ /\ d = "Deliver"
        /\ in_flight' = in_flight + 1
        /\ logs' = Drop(ls, n) /\ bytes' = BytesAfter(ls, b, n)
        /\ batch' = [batch EXCEPT ![i] = Records(ls, n)]
        /\ UNCHANGED settled
  /\ UNCHANGED <<waiter_active, left, wake, boundary>>

\* An apply that logged nothing still schedules queue_flag_log.
OfferNothing(i) ==
  /\ pc[i] = "idle"
  /\ pc' = [pc EXCEPT ![i] = "queued"]
  /\ UNCHANGED <<logs, bytes, next_seq, waiter_active, in_flight, batch,
                 left, wake, boundary, settled>>

\* Mutant: the role is claimed without looking whether it is vacant.
EnterTick_NoVacancyCheck(i, budget) ==
  \/ /\ logs # <<>>
     /\ waiter_active' = TRUE
     /\ pc' = [pc EXCEPT ![i] = "sleeping"]
     /\ wake' = [wake EXCEPT ![i] = POLL]
     /\ left' = [left EXCEPT ![i] = budget]
  \/ /\ logs = <<>>
     /\ pc' = [pc EXCEPT ![i] = "idle"]
     /\ left' = [left EXCEPT ![i] = 0]
     /\ UNCHANGED <<waiter_active, wake>>

(***************************************************************************)
(* tick up to its first await: claim the waiter role or return.            *)
(***************************************************************************)
EnterTick(i, budget) ==
  \/ /\ logs # <<>> /\ ~waiter_active
     /\ waiter_active' = TRUE
     /\ pc' = [pc EXCEPT ![i] = "sleeping"]
     /\ wake' = [wake EXCEPT ![i] = POLL]
     /\ left' = [left EXCEPT ![i] = budget]
  \/ /\ logs = <<>> \/ waiter_active
     /\ pc' = [pc EXCEPT ![i] = "idle"]
     /\ left' = [left EXCEPT ![i] = 0]
     /\ UNCHANGED <<waiter_active, wake>>

\* queue_flag_log is polled for the first time: its deadline starts here.
Begin(i) ==
  /\ pc[i] = "queued"
  /\ \/ /\ batch[i] # {}
        /\ pc' = [pc EXCEPT ![i] = "sending"]
        /\ left' = [left EXCEPT ![i] = BUDGET]
        /\ UNCHANGED <<waiter_active, wake>>
     \/ /\ batch[i] = {}
        /\ EnterTick(i, BUDGET)
  /\ UNCHANGED <<logs, bytes, next_seq, in_flight, batch, boundary, settled>>

\* deliver_all_within_limit returns: every record of the batch was delivered
\* or, its attempts exhausted, dropped.
Deliver(i) ==
  /\ pc[i] \in Delivering /\ batch[i] # {}
  /\ settled' = settled \cup SeqsOf(batch[i])
  /\ batch' = [batch EXCEPT ![i] = {}]
  /\ UNCHANGED <<logs, bytes, next_seq, waiter_active, in_flight, pc, left,
                 wake, boundary>>

(***************************************************************************)
(* One pass of drain_before_standing_down's loop up to its next await,     *)
(* with n deliveries in flight: take another owned chunk, or stop.         *)
(***************************************************************************)
DrainPass(i, bound, n) ==
  LET c == ChunkBefore(logs, bound)
      admitted == /\ left[i] >= MIN_DRAIN
                  /\ logs # <<>>
                  /\ n < MAX_IN_FLIGHT \/ AtCeiling(logs, bytes)
                  /\ n < HARD_IN_FLIGHT
  IN
  \/ /\ admitted /\ c > 0
     /\ in_flight' = n + 1
     /\ logs' = Drop(logs, c) /\ bytes' = BytesAfter(logs, bytes, c)
     /\ batch' = [batch EXCEPT ![i] = Records(logs, c)]
     /\ pc' = [pc EXCEPT ![i] = "draining"]
     /\ boundary' = [boundary EXCEPT ![i] = bound]
     /\ UNCHANGED left
  \/ /\ ~(admitted /\ c > 0)
     /\ in_flight' = n
     /\ pc' = [pc EXCEPT ![i] = "idle"]
     /\ left' = [left EXCEPT ![i] = 0]
     /\ boundary' = [boundary EXCEPT ![i] = 0]
     /\ UNCHANGED <<logs, bytes, batch>>

\* The metrics write has finished: deliver returns, which releases the slot,
\* and the caller runs on to its next await.
FinishDelivery(i) ==
  /\ pc[i] \in Delivering /\ batch[i] = {}
  /\ \/ /\ pc[i] = "sending"
        /\ in_flight' = SatSub(in_flight, 1)
        /\ EnterTick(i, left[i])
        /\ UNCHANGED <<logs, bytes, batch, boundary>>
     \/ /\ pc[i] = "delivering"
        /\ in_flight' = SatSub(in_flight, 1)
        /\ pc' = [pc EXCEPT ![i] = "sleeping"]
        /\ wake' = [wake EXCEPT ![i] = POLL]
        /\ UNCHANGED <<logs, bytes, batch, waiter_active, left, boundary>>
     \/ /\ pc[i] = "draining"
        /\ DrainPass(i, boundary[i], SatSub(in_flight, 1))
        /\ UNCHANGED <<waiter_active, wake>>
  /\ UNCHANGED <<next_seq, settled>>

\* Mutant: the role is still set after the waiter is gone.
Retire_KeepsRole(i) ==
  /\ UNCHANGED <<waiter_active, wake, settled>>
  /\ \/ /\ logs = <<>>
        /\ pc' = [pc EXCEPT ![i] = "idle"]
        /\ left' = [left EXCEPT ![i] = 0]
        /\ UNCHANGED <<logs, bytes, in_flight, batch, boundary>>
     \/ logs # <<>> /\ DrainPass(i, next_seq, in_flight)

(***************************************************************************)
(* The waiter's poll timer fires.                                          *)
(***************************************************************************)
Retire(i) ==     \* out of budget: release the role, then drain what it owned
  /\ waiter_active' = FALSE
  /\ \/ /\ logs = <<>>
        /\ pc' = [pc EXCEPT ![i] = "idle"]
        /\ left' = [left EXCEPT ![i] = 0]
        /\ UNCHANGED <<logs, bytes, in_flight, batch, boundary>>
     \/ /\ logs # <<>>
        /\ DrainPass(i, next_seq, in_flight)
  /\ UNCHANGED <<wake, settled>>

StandDownEmpty(i) ==     \* Step::Done: a size flush emptied the buffer
  /\ logs = <<>>
  /\ waiter_active' = FALSE
  /\ pc' = [pc EXCEPT ![i] = "idle"]
  /\ left' = [left EXCEPT ![i] = 0]
  /\ UNCHANGED <<logs, bytes, in_flight, batch, wake, boundary, settled>>

SleepAgain(i) ==     \* Step::Wait: not due, or the pipe is busy
  /\ logs # <<>>
  /\ \/ ~TimeDue(logs)
     \/ Decide(AtCeiling(logs, bytes), in_flight) = "Hold"
  /\ wake' = [wake EXCEPT ![i] = POLL]
  /\ UNCHANGED <<logs, bytes, waiter_active, in_flight, pc, batch, left,
                 boundary, settled>>

ShedDue(i) ==     \* Step::Shed: discard down to the flush size
  /\ TimeDue(logs) /\ Decide(AtCeiling(logs, bytes), in_flight) = "Shed"
  /\ \E m \in 1 .. Len(logs) :
       /\ m = ShedFrom(logs, bytes)
       /\ logs' = Drop(logs, m) /\ bytes' = BytesAfter(logs, bytes, m)
       /\ settled' = settled \cup SeqsOf(Records(logs, m))
  /\ wake' = [wake EXCEPT ![i] = POLL]
  /\ UNCHANGED <<waiter_active, in_flight, pc, batch, left, boundary>>

\* Mutant: the waiter leaves its role with the chunk it takes.
DeliverDue_DropsRole(i) ==
  LET n == Chunk(logs) IN
  /\ TimeDue(logs) /\ Decide(AtCeiling(logs, bytes), in_flight) = "Deliver"
  /\ waiter_active' = FALSE
  /\ in_flight' = in_flight + 1
  /\ logs' = Drop(logs, n) /\ bytes' = BytesAfter(logs, bytes, n)
  /\ batch' = [batch EXCEPT ![i] = Records(logs, n)]
  /\ pc' = [pc EXCEPT ![i] = "delivering"]
  /\ UNCHANGED <<left, wake, boundary, settled>>

DeliverDue(i) ==     \* Step::Deliver: one chunk, keeping the role
  LET n == Chunk(logs) IN
  /\ TimeDue(logs) /\ Decide(AtCeiling(logs, bytes), in_flight) = "Deliver"
  /\ in_flight' = in_flight + 1
  /\ logs' = Drop(logs, n) /\ bytes' = BytesAfter(logs, bytes, n)
  /\ batch' = [batch EXCEPT ![i] = Records(logs, n)]
  /\ pc' = [pc EXCEPT ![i] = "delivering"]
  /\ UNCHANGED <<waiter_active, left, wake, boundary, settled>>

Poll(i) ==
  /\ pc[i] = "sleeping" /\ wake[i] = 0
  /\ \/ left[i] < RETIRE_AT /\ Retire(i)
     \/ left[i] >= RETIRE_AT /\ StandDownEmpty(i)
     \/ left[i] >= RETIRE_AT /\ SleepAgain(i)
     \/ left[i] >= RETIRE_AT /\ ShedDue(i)
     \/ left[i] >= RETIRE_AT /\ DeliverDue(i)
  /\ UNCHANGED next_seq

\* Mutant: the slot is released after the await, so a cancelled future leaks it.
Cancel_LeaksSlot(i) ==
  /\ pc[i] # "idle"
  /\ UNCHANGED <<in_flight, logs, bytes, next_seq>>
  /\ waiter_active' = IF pc[i] \in WaiterRole THEN FALSE ELSE waiter_active
  /\ settled' = settled \cup SeqsOf(batch[i])
  /\ batch' = [batch EXCEPT ![i] = {}]
  /\ pc' = [pc EXCEPT ![i] = "idle"]
  /\ left' = [left EXCEPT ![i] = 0]
  /\ wake' = [wake EXCEPT ![i] = 0]
  /\ boundary' = [boundary EXCEPT ![i] = 0]

(***************************************************************************)
(* The platform drops the future at one of its awaits: Drop releases the   *)
(* slot and the waiter role, and the batch it carried is gone.             *)
(***************************************************************************)
Cancel(i) ==
  /\ pc[i] # "idle"
  /\ in_flight' = IF HoldsSlot(i) THEN SatSub(in_flight, 1) ELSE in_flight
  /\ waiter_active' = IF pc[i] \in WaiterRole THEN FALSE ELSE waiter_active
  /\ settled' = settled \cup SeqsOf(batch[i])
  /\ batch' = [batch EXCEPT ![i] = {}]
  /\ pc' = [pc EXCEPT ![i] = "idle"]
  /\ left' = [left EXCEPT ![i] = 0]
  /\ wake' = [wake EXCEPT ![i] = 0]
  /\ boundary' = [boundary EXCEPT ![i] = 0]
  /\ UNCHANGED <<logs, bytes, next_seq>>

(***************************************************************************)
(* One quantum passes.  If Punctual, an expired timer is served and a      *)
(* delivery out of budget is given up before time moves on.                *)
(***************************************************************************)
Overdue(i) == \/ pc[i] = "sleeping" /\ wake[i] = 0
              \/ pc[i] \in Delivering /\ left[i] = 0

Tick ==
  /\ Punctual => \A i \in Invs : ~Overdue(i)
  /\ left' = [i \in Invs |-> SatSub(left[i], 1)]
  /\ wake' = [i \in Invs |-> SatSub(wake[i], 1)]
  /\ logs' = [k \in DOMAIN logs |->
               [logs[k] EXCEPT !.age = IF @ < MAX_AGE THEN @ + 1 ELSE @]]
  /\ UNCHANGED <<bytes, next_seq, waiter_active, in_flight, pc, batch,
                 boundary, settled>>

-----------------------------------------------------------------------------
Run(i) == Begin(i) \/ Deliver(i) \/ FinishDelivery(i) \/ Poll(i)

Request(i) == OfferNothing(i) \/ \E l \in Lens : Offer(i, l)

Next ==
  \/ \E i \in Invs : Request(i) \/ Run(i) \/ Cancel(i)
  \/ Tick

Spec == Init /\ [][Next]_vars

(***************************************************************************)
(* Fairness.  The event loop polls every runnable future, every delivery   *)
(* is bounded by its deadline, and time passes; requests keep arriving,    *)
(* though they may log nothing.  The platform does not drop futures.       *)
(***************************************************************************)
NextUncancelled ==
  \/ \E i \in Invs : Request(i) \/ Run(i)
  \/ Tick

FairSpec ==
  /\ Init /\ [][NextUncancelled]_vars
  /\ \A i \in Invs : WF_vars(Run(i))
  /\ WF_vars(\E i \in Invs : OfferNothing(i))
  /\ WF_vars(Tick)

-----------------------------------------------------------------------------
(* Every variable keeps its type.                                          *)
TypeOK ==
  /\ logs \in Seq(Entry)
  /\ bytes \in Nat
  /\ next_seq \in 0 .. MaxSeq
  /\ waiter_active \in BOOLEAN
  /\ in_flight \in Nat
  /\ pc \in [Invs -> PCs]
  /\ batch \in [Invs -> SUBSET Record]
  /\ left \in [Invs -> 0 .. BUDGET]
  /\ wake \in [Invs -> 0 .. POLL]
  /\ boundary \in [Invs -> 0 .. MaxSeq]
  /\ settled \in SUBSET Seqs

(* No slot leaks and none is released twice, whatever is cancelled where:  *)
(* IN_FLIGHT counts exactly the invocations that hold an InFlight guard,   *)
(* and the hard cap on concurrent deliveries is never passed although      *)
(* admission and release happen in three different paths.                  *)
SlotAccounting ==
  /\ in_flight = Cardinality({i \in Invs : HoldsSlot(i)})
  /\ in_flight <= HARD_IN_FLIGHT

(* The waiter role: waiter_active is set exactly while one, and only one,  *)
(* live invocation runs the timer loop.                                    *)
OneWaiter ==
  /\ waiter_active <=> \E i \in Invs : pc[i] \in WaiterRole
  /\ \A i, j \in Invs :
       pc[i] \in WaiterRole /\ pc[j] \in WaiterRole => i = j

(* Both guards of the sink are exact, InFlight and Waiter: whatever is     *)
(* cancelled, whenever, no delivery slot and no waiter role is leaked or   *)
(* held twice.                                                             *)
GuardsExact == SlotAccounting /\ OneWaiter

(* The cached byte count is the sum of the buffered records' lengths, so   *)
(* saturating_sub never hides a drift of the size trigger.                 *)
BytesExact == bytes = SumLen(logs)

(* The record ceiling holds in every path: whatever the pipe does, a push  *)
(* that reaches MAX_BUFFER_RECORDS removes a chunk before the request ends.*)
RecordsBounded == Len(logs) < MAX_BUFFER_RECORDS

Buffered(s) == \E k \in DOMAIN logs : logs[k].seq = s
Carriers(s) == {i \in Invs : s \in SeqsOf(batch[i])}

(* Conservation: an offered record is in exactly one place: buffered, in   *)
(* one delivery, or settled.  None is delivered twice, none vanishes.      *)
ExactlyOnePlace ==
  \A s \in Seqs :
    LET places == (IF Buffered(s) THEN 1 ELSE 0) + Cardinality(Carriers(s))
                  + (IF s \in settled THEN 1 ELSE 0)
    IN  places = IF s < next_seq THEN 1 ELSE 0

(* The buffer loses, repeats and miscounts no record, however size         *)
(* flushes, timers, drains and cancellations interleave.                   *)
RecordsExact == BytesExact /\ ExactlyOnePlace

(* What is buffered is always the contiguous newest part of what arrived:  *)
(* size flushes, timers and drains of several invocations only ever remove *)
(* from the front.                                                         *)
NewestSuffix ==
  \A k \in DOMAIN logs : logs[k].seq = next_seq - Len(logs) + k - 1

(* A waiter that stood down takes only records that had arrived before it  *)
(* did, whatever size flushes removed from under it meanwhile.             *)
DrainsOnlyItsOwn ==
  \A i \in Invs : pc[i] = "draining" =>
    \A s \in SeqsOf(batch[i]) : s < boundary[i]

(* The buffer is a bounded queue, also when several invocations take from  *)
(* it: never over the ceiling, emptied from the front only, and drained by *)
(* a waiter no further than its boundary.                                  *)
OrderAndBounds == RecordsBounded /\ NewestSuffix /\ DrainsOnlyItsOwn

(* A future that has not flushed a batch, and a waiter between deliveries, *)
(* carry no records.                                                       *)
QuietCarriesNothing ==
  \A i \in Invs : pc[i] \in {"idle", "sleeping"} => batch[i] = {}

(* Someone is still going to look at the buffer: the waiter, or a future   *)
(* that has yet to enter tick.                                             *)
Owned == \/ logs = <<>>
         \/ waiter_active
         \/ \E i \in Invs : pc[i] \in {"queued", "sending"}

(* Records lose their last owner only when a waiter stands down on budget  *)
(* or the platform cancels a future; no other interleaving of claims,      *)
(* flushes and deliveries strands a tail.                                  *)
NoSilentStranding ==
  [][ Owned /\ ~Owned' =>
        \E i \in Invs : \/ Cancel(i)
                        \/ pc[i] = "sleeping" /\ left[i] < RETIRE_AT /\ Poll(i) ]_vars

(* While requests keep arriving, no record stays buffered forever, even    *)
(* though waiters retire and strand what their budget cannot drain.        *)
EveryRecordLeaves == \A s \in Seqs : Buffered(s) ~> ~Buffered(s)

=============================================================================
