------------------------------ MODULE Delivery ------------------------------
(***************************************************************************)
(* One invocation that delivers the chunks of its batch one after the      *)
(* other against a single deadline (confidence-cloudflare-resolver/src/    *)
(* flag_log/mod.rs: Deadline, attempt_budget_ms, deliver).  Time is in     *)
(* milliseconds and passes in the awaits, a POST and a back-off.           *)
(***************************************************************************)
EXTENDS Integers

CONSTANTS
  NChunks,           \* chunks the batch was split into
  NDest,             \* LOG_DESTINATIONS, in order of preference
  DELIVERY_ATTEMPTS, \* attempts per destination
  MIN_ATTEMPT,       \* MIN_ATTEMPT_MS
  Budget,            \* INVOCATION_BUDGET_MS or QUEUE_BUDGET_MS
  Durations,         \* how long an answered POST takes
  HasSecret,         \* CONFIDENCE_CLIENT_SECRET is configured
  FundedChunks       \* chunks that a budget of this size must pay for

ASSUME DeliveryAssumption ==
  /\ NChunks \in Nat /\ NDest \in Nat \ {0} /\ DELIVERY_ATTEMPTS \in Nat \ {0}
  /\ MIN_ATTEMPT \in Nat \ {0} /\ Budget \in Nat
  /\ Durations \subseteq Nat
  /\ HasSecret \in BOOLEAN
  /\ FundedChunks \in Nat

VARIABLES
  settled,    \* of each chunk: "none", "ok" or "lost"
  reached,    \* the chunks some destination has received
  chunk,      \* the chunk being delivered, NChunks + 1 at the end
  dest,       \* the destination being tried
  attempt,    \* the attempt to be made
  spent,      \* time since the invocation started
  untried     \* history: chunks given up before every destination was tried

deliveryVars == <<settled, reached, chunk, dest, attempt, spent, untried>>

DeliveryInit ==
  /\ settled = [c \in 1 .. NChunks |-> "none"]
  /\ reached = {}
  /\ chunk = 1 /\ dest = 1 /\ attempt = 1
  /\ spent = 0
  /\ untried = {}

MinOf(a, b) == IF a < b THEN a ELSE b
MaxOf(a, b) == IF a < b THEN b ELSE a

\* Deadline::remaining_from, never negative.
Remaining == MaxOf(Budget - spent, 0)

\* Mutant: an attempt may take all of the time that is left.
attempt_budget_ms_All(left) == MaxOf(left, MIN_ATTEMPT)

\* A share of the time left, so that a stalled destination cannot use up the
\* time of the next one.
attempt_budget_ms(left) == MaxOf((left * 4) \div 10, MIN_ATTEMPT)

retry_backoff_ms(n) == IF n = 1 THEN 250 ELSE 1000

\* The chunk is settled and the next one starts over with the destinations.
Settle(result) ==
  /\ settled' = [settled EXCEPT ![chunk] = result]
  /\ chunk' = chunk + 1
  /\ dest' = 1 /\ attempt' = 1

\* Without a client secret, or with less time left than an attempt is worth,
\* deliver gives up on all destinations.
GiveUp ==
  /\ chunk <= NChunks
  /\ ~HasSecret \/ Remaining < MIN_ATTEMPT
  /\ Settle("lost")
  /\ untried' = IF HasSecret /\ ~(dest = NDest /\ attempt > 1) THEN untried \cup {chunk} ELSE untried
  /\ UNCHANGED <<reached, spent>>

Trying ==
  /\ chunk <= NChunks
  /\ HasSecret /\ Remaining >= MIN_ATTEMPT

\* A POST that is answered in time: an HTTP status below 400.
Accepted(t) ==
  /\ Trying /\ t <= attempt_budget_ms(Remaining)
  /\ spent' = spent + t
  /\ reached' = reached \cup {chunk}
  /\ Settle("ok")
  /\ UNCHANGED untried

\* Mutant: one attempt too many.
GoOn_OneMore(t, retryable) ==
  IF retryable /\ attempt <= DELIVERY_ATTEMPTS
  THEN /\ attempt' = attempt + 1
       /\ spent' = t + MinOf(retry_backoff_ms(attempt), MaxOf(Budget - t, 0))
       /\ UNCHANGED <<settled, chunk, dest>>
  ELSE /\ spent' = t
       /\ IF dest < NDest THEN dest' = dest + 1 /\ attempt' = 1 /\ UNCHANGED <<settled, chunk>>
                          ELSE Settle("lost")

\* Mutant: the back-off is not cut to what is left.
GoOn_FullBackoff(t, retryable) ==
  IF retryable /\ attempt < DELIVERY_ATTEMPTS
  THEN /\ attempt' = attempt + 1
       /\ spent' = t + retry_backoff_ms(attempt)
       /\ UNCHANGED <<settled, chunk, dest>>
  ELSE /\ spent' = t
       /\ IF dest < NDest THEN dest' = dest + 1 /\ attempt' = 1 /\ UNCHANGED <<settled, chunk>>
                          ELSE Settle("lost")

\* The walk goes on after a failed POST that ended at time t: the same
\* destination again after a back-off, the next one, or the chunk is lost.
GoOn(t, retryable) ==
  IF retryable /\ attempt < DELIVERY_ATTEMPTS
  THEN /\ attempt' = attempt + 1
       /\ spent' = t + MinOf(retry_backoff_ms(attempt), MaxOf(Budget - t, 0))
       /\ UNCHANGED <<settled, chunk, dest>>
  ELSE /\ spent' = t
       /\ IF dest < NDest THEN dest' = dest + 1 /\ attempt' = 1 /\ UNCHANGED <<settled, chunk>>
                          ELSE Settle("lost")

\* Mutant: a refused chunk counts as delivered at the last destination.
Refused_CountsAsOk(t, retryable) ==
  /\ Trying /\ t <= attempt_budget_ms(Remaining)
  /\ IF dest = NDest THEN Settle("ok") /\ spent' = spent + t ELSE GoOn(spent + t, retryable)
  /\ UNCHANGED <<reached, untried>>

\* The backend answers with an error: 408, 429 and 5xx are worth a retry.
Refused(t, retryable) ==
  /\ Trying /\ t <= attempt_budget_ms(Remaining)
  /\ GoOn(spent + t, retryable)
  /\ UNCHANGED <<reached, untried>>

\* No answer: a transport error, or the attempt is aborted at its budget.
\* The request may have been received all the same.
NoAnswer(t) ==
  /\ Trying
  /\ reached' \in {reached, reached \cup {chunk}}
  /\ GoOn(spent + MinOf(t, attempt_budget_ms(Remaining)), TRUE)
  /\ UNCHANGED untried

DeliveryNext ==
  \/ GiveUp
  \/ \E t \in Durations : Accepted(t) \/ NoAnswer(t) \/ \E retryable \in BOOLEAN : Refused(t, retryable)
  \/ NoAnswer(Budget)

DeliverySpec == DeliveryInit /\ [][DeliveryNext]_deliveryVars

-----------------------------------------------------------------------------
(* The type of every variable: in particular a destination gets at most    *)
(* DELIVERY_ATTEMPTS attempts for a chunk.                                 *)
DeliveryTypeOK ==
  /\ settled \in [1 .. NChunks -> {"none", "ok", "lost"}]
  /\ reached \subseteq 1 .. NChunks
  /\ chunk \in 1 .. NChunks + 1
  /\ dest \in 1 .. NDest
  /\ attempt \in 1 .. DELIVERY_ATTEMPTS
  /\ spent \in Nat
  /\ untried \subseteq 1 .. NChunks

(* All destinations, attempts, back-offs and chunks of an invocation fit   *)
(* into its budget: whatever is slow, the deadline is never overrun        *)
(* (flag_log/mod.rs, INVOCATION_BUDGET_MS and deliver).                    *)
WithinDeadline == spent <= Budget

(* No destination gets more attempts than allowed, and all of them         *)
(* together no more time than the invocation has.                          *)
WithinBudget == DeliveryTypeOK /\ WithinDeadline

(* A stalled destination leaves the next one time: the first chunks are    *)
(* given up only after every destination was tried (ATTEMPT_SHARE).        *)
FallbackGetsTime == \A c \in untried : c > FundedChunks

\* The delivery a caller sees.
Abstract == INSTANCE ChunkDelivery WITH Chunks <- 1 .. NChunks, outcome <- settled, arrived <- reached

(* Every delivery is one that ChunkDelivery allows: a chunk counts as      *)
(* delivered only if a destination has it, and each chunk is settled once. *)
ImplementsChunkDelivery == Abstract!Spec

=============================================================================
