----------------------------- MODULE Telemetry ------------------------------
(***************************************************************************)
(* The lock-free telemetry collector (confidence-resolver/src/telemetry.rs)*)
(* and its deltas.  Resolving threads add to counters, flushing threads    *)
(* load every counter, swap the snapshot of the flush before for theirs    *)
(* and report the difference.  All accesses are Relaxed atomics, so the    *)
(* adds of one observation and the loads of one snapshot may take effect   *)
(* in any order; only the swap is a point all flushes agree on.            *)
(***************************************************************************)
EXTENDS Integers

CONSTANTS
  Recorders,    \* threads that resolve flags
  Flushers,     \* threads inside delta_snapshot
  Latencies,    \* the latencies observed, in microseconds
  Reasons,      \* indices of ResolveReason
  U32,          \* 2^32, the width of a counter on the wire; bound: no counter gets there
  MaxObserved,  \* bound: observations in one behaviour
  MaxFlushes    \* bound: deltas taken in one behaviour

\* telemetry.rs:24-30, 18 buckets per power of ten: the largest k with
\* 10^(k/18) <= v, and bucket 0 for a latency of zero.
BucketOf(v) ==
  IF v = 0 THEN 0 ELSE CHOOSE k \in 0 .. 173 : 10 ^ k <= v ^ 18 /\ v ^ 18 < 10 ^ (k + 1)

CountCell == <<"count", 0>>
Bucket(v) == <<"bucket", BucketOf(v)>>
Rate(r) == <<"rate", r>>
RateCells == {Rate(r) : r \in Reasons}

Cells == {CountCell} \cup {Bucket(v) : v \in Latencies} \cup RateCells

\* What an observation adds to each counter.  The sum of the latencies is
\* left out: it is added, loaded and reported like a bucket.
Observation(v, r) ==
  [c \in Cells |-> IF c \in {CountCell, Bucket(v), Rate(r)} THEN 1 ELSE 0]

Nothing == [c \in Cells |-> 0]

ASSUME TelemetryAssumption ==
  /\ Latencies \subseteq Nat
  /\ U32 \in Nat \ {0}
  /\ MaxObserved \in Nat
  /\ MaxFlushes \in Nat

VARIABLES
  cell,         \* the counters
  todo,         \* what each recorder has still to add
  observed,     \* history: observations started
  loaded,       \* the counters each flusher has loaded
  snap,         \* the values it loaded
  last,         \* LAST_FLUSHED
  delta,        \* the delta taken last
  flushes,      \* history: deltas taken
  reported,     \* history: the sum of all deltas taken, as a receiver adds them
  overtaken,    \* history: flushers during whose snapshot another one swapped
  raced         \* history: some flusher swapped although overtaken

telVars == <<cell, todo, observed, loaded, snap, last, delta, flushes, reported, overtaken, raced>>

TelInit ==
  /\ cell = Nothing
  /\ todo = [r \in Recorders |-> Nothing]
  /\ observed = 0
  /\ loaded = [f \in Flushers |-> {}]
  /\ snap = [f \in Flushers |-> Nothing]
  /\ last = Nothing
  /\ delta = Nothing
  /\ flushes = 0
  /\ reported = Nothing
  /\ overtaken = {}
  /\ raced = FALSE

\* record_latency_us and mark_resolve, at the end of a resolve.
Register(r, v, q) ==
  /\ todo[r] = Nothing /\ observed < MaxObserved
  /\ todo' = [todo EXCEPT ![r] = Observation(v, q)]
  /\ observed' = observed + 1
  /\ UNCHANGED <<cell, loaded, snap, last, delta, flushes, reported, overtaken, raced>>

\* One fetch_add.
Add(r, c) ==
  /\ todo[r][c] # 0 /\ cell[c] + todo[r][c] < U32
  /\ cell' = [cell EXCEPT ![c] = @ + todo[r][c]]
  /\ todo' = [todo EXCEPT ![r][c] = 0]
  /\ UNCHANGED <<observed, loaded, snap, last, delta, flushes, reported, overtaken, raced>>

\* One load of a snapshot.
Load(f, c) ==
  /\ c \notin loaded[f] /\ flushes < MaxFlushes
  /\ loaded' = [loaded EXCEPT ![f] = @ \cup {c}]
  /\ snap' = [snap EXCEPT ![f][c] = cell[c]]
  /\ UNCHANGED <<cell, todo, observed, last, delta, flushes, reported, overtaken, raced>>

\* Mutant: the subtraction does not wrap.
WrappingSub_Plain(a, b) == a - b

\* wrapping_sub, cast to u32, of two counters less than 2^32 apart.
WrappingSub(a, b) == IF a >= b THEN a - b ELSE a - b + U32

\* Mutant: the operands are swapped.
DeltaOf_Reversed(now, before) ==
  LET d == [c \in Cells |-> WrappingSub(before[c], now[c])]
  IN  [c \in Cells |-> IF c \in RateCells \/ d[CountCell] > 0 THEN d[c] ELSE 0]

\* The delta on the wire: the latency histogram is left out when its count
\* did not change, whatever its sum and buckets did.
DeltaOf(now, before) ==
  LET d == [c \in Cells |-> WrappingSub(now[c], before[c])]
  IN  [c \in Cells |-> IF c \in RateCells \/ d[CountCell] > 0 THEN d[c] ELSE 0]

\* Mutant: the counters are read again for the baseline of the next flush.
Swap_Rereads(f) ==
  /\ loaded[f] = Cells /\ flushes < MaxFlushes
  /\ delta' = DeltaOf(snap[f], last)
  /\ flushes' = flushes + 1
  /\ reported' = [c \in Cells |-> reported[c] + DeltaOf(snap[f], last)[c]]
  /\ last' = cell
  /\ loaded' = [loaded EXCEPT ![f] = {}]
  /\ overtaken' = (overtaken \ {f}) \cup {g \in Flushers \ {f} : loaded[g] # {}}
  /\ raced' = (raced \/ f \in overtaken)
  /\ snap' = [snap EXCEPT ![f] = Nothing]
  /\ UNCHANGED <<cell, todo, observed>>

\* last.swap(current) and the differences.
Swap(f) ==
  /\ loaded[f] = Cells /\ flushes < MaxFlushes
  /\ delta' = DeltaOf(snap[f], last)
  /\ flushes' = flushes + 1
  /\ reported' = [c \in Cells |-> reported[c] + DeltaOf(snap[f], last)[c]]
  /\ last' = snap[f]
  /\ loaded' = [loaded EXCEPT ![f] = {}]
  /\ overtaken' = (overtaken \ {f}) \cup {g \in Flushers \ {f} : loaded[g] # {}}
  /\ raced' = (raced \/ f \in overtaken)
  /\ snap' = [snap EXCEPT ![f] = Nothing]
  /\ UNCHANGED <<cell, todo, observed>>

TelNext ==
  \/ \E r \in Recorders, v \in Latencies, q \in Reasons : Register(r, v, q)
  \/ \E r \in Recorders, c \in Cells : Add(r, c)
  \/ \E f \in Flushers, c \in Cells : Load(f, c)
  \/ \E f \in Flushers : Swap(f)

TelSpec == TelInit /\ [][TelNext]_telVars

-----------------------------------------------------------------------------
(* The type of every variable: in particular a delta fits into the u32 it  *)
(* is sent as.                                                             *)
TelTypeOK ==
  /\ cell \in [Cells -> 0 .. U32 - 1]
  /\ todo \in [Recorders -> [Cells -> Nat]]
  /\ loaded \in [Flushers -> SUBSET Cells]
  /\ snap \in [Flushers -> [Cells -> 0 .. U32 - 1]]
  /\ last \in [Cells -> 0 .. U32 - 1]
  /\ delta \in [Cells -> 0 .. U32 - 1]
  /\ reported \in [Cells -> Nat]
  /\ overtaken \subseteq Flushers
  /\ raced \in BOOLEAN

(* The resolves and the number of latencies reported, added up over every  *)
(* delta any thread took, are what the last flush saw: nothing is reported *)
(* twice and nothing falls between two flushes, unless two snapshots       *)
(* overlapped (telemetry.rs, delta_snapshot's swap).                       *)
ReportedExact ==
  ~raced => \A c \in RateCells \cup {CountCell} : reported[c] = last[c]

(* A delta is never more than all that was ever counted, unless a flush of *)
(* another thread swapped between this one's first load and its swap: then *)
(* the subtraction may wrap to a number near 2^32.                         *)
PlausibleDelta ==
  ~raced => \A c \in Cells : delta[c] <= cell[c]

(* What is reported is what was counted, to the counters' width, unless    *)
(* two snapshots overlapped (telemetry.rs, delta_snapshot).                *)
DeltasExact == TelTypeOK /\ ReportedExact /\ PlausibleDelta

=============================================================================
