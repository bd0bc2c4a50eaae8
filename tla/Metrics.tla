------------------------------ MODULE Metrics -------------------------------
(***************************************************************************)
(* Telemetry as data: the deltas a resolver reports (TelemetryData), their *)
(* merging into one (flag_logger.rs), their accumulation into cumulative   *)
(* snapshots (telemetry.rs), the merging of snapshots, and the samples the *)
(* metrics endpoint shows (telemetry.rs, the worker's lib.rs).             *)
(*                                                                         *)
(* A delta is [latency, rates, inits, dedup, flush, events, memory]; what  *)
(* is optional is << >> or <<x>>.  Of the counters that come and go        *)
(* together one stands for all: dedup is [n, size] with a counter and a    *)
(* gauge, flush and events are counters.  Counters of a delta are of type  *)
(* u32; those of a snapshot are u64 and do not overflow here.              *)
(***************************************************************************)
EXTENDS Integers, Sequences, SequencesExt

CONSTANTS
  U32,          \* 2^32, scaled down
  BUCKET_COUNT, \* buckets of a histogram, 174 in the code
  REASON_COUNT, \* known resolve reasons are 0 .. REASON_COUNT - 1
  PER_DECADE,   \* buckets per decade, 18 in the code
  ValidLabels   \* label names that Prometheus takes

Add32(a, b) == (a + b) % U32

\* An optional part of x is that of y where x has none; both are put together.
Both(x, y, Op(_, _)) ==
  IF x = << >> THEN y ELSE IF y = << >> THEN x ELSE <<Op(x[1], y[1])>>

Padded(s, n) == [i \in 1 .. (IF Len(s) < n THEN n ELSE Len(s)) |-> IF i <= Len(s) THEN s[i] ELSE 0]

\* The runs of non-zero buckets, as [offset, counts].
bucket_spans(buckets) ==
  LET starts == {i \in DOMAIN buckets : buckets[i] > 0 /\ (i = 1 \/ buckets[i - 1] = 0)}
      last(i) == CHOOSE j \in i .. Len(buckets) :
                   /\ \A k \in i .. j : buckets[k] > 0
                   /\ j = Len(buckets) \/ buckets[j + 1] = 0
  IN  [n \in 1 .. Cardinality(starts) |->
         LET i == SetToSortSeq(starts, LAMBDA a, b : a < b)[n]
         IN  [offset |-> i - 1, counts |-> SubSeq(buckets, i, last(i))]]

\* The delta of one resolve, with its latency or without.
build_request_telemetry(latency, reasons) ==
  LET counted(r) == Len(SelectSeq(reasons, LAMBDA x : x = r))
      first == SelectSeq([i \in DOMAIN reasons |-> [reason |-> reasons[i], at |-> i]],
                         LAMBDA x : \A j \in 1 .. x.at - 1 : reasons[j] # x.reason)
  IN  [latency |-> IF latency = << >> THEN << >>
                   ELSE <<[sum |-> latency[1].us, count |-> 1,
                           spans |-> <<[offset |-> latency[1].bucket, counts |-> <<1>>]>>]>>,
       rates |-> [i \in DOMAIN first |-> [reason |-> first[i].reason, count |-> counted(first[i].reason)]],
       inits |-> << >>, dedup |-> << >>, flush |-> << >>, events |-> << >>, memory |-> 0]

NoTelemetry == build_request_telemetry(<< >>, << >>)

-----------------------------------------------------------------------------
MergeLatency(a, d) ==
  [sum |-> Add32(a.sum, d.sum), count |-> Add32(a.count, d.count), spans |-> a.spans \o d.spans]

\* Mutant: the counter of the dedup is taken for a gauge.
MergeDedup_Gauge(a, d) == [n |-> d.n, size |-> d.size]

MergeDedup(a, d) == [n |-> Add32(a.n, d.n), size |-> d.size]

Put(f, k, v) == [x \in DOMAIN f \cup {k} |-> IF x = k THEN v ELSE f[x]]
Lookup0(f, k) == IF k \in DOMAIN f THEN f[k] ELSE 0

\* Entries [reason, count] by reason, in the order of their first arrival.
MergeRate(acc, r) ==
  IF \E i \in DOMAIN acc : acc[i].reason = r.reason
  THEN [i \in DOMAIN acc |-> IF acc[i].reason = r.reason
                             THEN [acc[i] EXCEPT !.count = Add32(@, r.count)] ELSE acc[i]]
  ELSE Append(acc, r)

\* Entries [labels, count] by label set, kept sorted: the one of e's labels is
\* replaced.  Label sets are numbered in their order.
Inserted(acc, e) ==
  SelectSeq(acc, LAMBDA x : x.labels < e.labels) \o <<e>>
    \o SelectSeq(acc, LAMBDA x : x.labels > e.labels)

\* The count that an entry is added to.
Counted(acc, labels) == FoldLeft(LAMBDA n, x : IF x.labels = labels THEN x.count ELSE n, 0, acc)

MergeInit(acc, e) == Inserted(acc, [e EXCEPT !.count = Add32(Counted(acc, e.labels), @)])
AddInit(acc, e)   == Inserted(acc, [e EXCEPT !.count = Counted(acc, e.labels) + @])

merge_telemetry(acc, d) ==
  [latency |-> Both(acc.latency, d.latency, MergeLatency),
   rates   |-> FoldLeft(MergeRate, acc.rates, d.rates),
   inits   |-> FoldLeft(MergeInit, acc.inits, d.inits),
   dedup   |-> Both(acc.dedup, d.dedup, MergeDedup),
   flush   |-> Both(acc.flush, d.flush, Add32),
   events  |-> Both(acc.events, d.events, Add32),
   memory  |-> IF d.memory > 0 THEN d.memory ELSE acc.memory]

-----------------------------------------------------------------------------
NoSnapshot ==
  [sum |-> 0, count |-> 0, buckets |-> << >>, rates |-> << >>, memory |-> 0,
   dedup |-> << >>, flush |-> 0, events |-> 0, inits |-> << >>]

Plus(a, b) == a + b

\* Adds n to position i (from 0) of a vector that grows to hold it.
Bump(s, i, n) == [Padded(s, i + 1) EXCEPT ![i + 1] = @ + n]

\* A span outside the histogram is skipped, one that leaves it is cut.
Expand(buckets, span) ==
  IF span.offset \notin 0 .. BUCKET_COUNT - 1 THEN buckets
  ELSE FoldLeft(LAMBDA b, i : IF span.offset + i - 1 < BUCKET_COUNT
                              THEN Bump(b, span.offset + i - 1, span.counts[i]) ELSE b,
                buckets, [i \in DOMAIN span.counts |-> i])

\* An unknown reason is skipped.
CountRate(rates, r) == IF r.reason \in 0 .. REASON_COUNT - 1 THEN Bump(rates, r.reason, r.count) ELSE rates

OrZero(x) == IF x = << >> THEN 0 ELSE x[1]

accumulate_delta(s, d) ==
  [sum     |-> s.sum + (IF d.latency = << >> THEN 0 ELSE d.latency[1].sum),
   count   |-> s.count + (IF d.latency = << >> THEN 0 ELSE d.latency[1].count),
   buckets |-> IF d.latency = << >> THEN s.buckets ELSE FoldLeft(Expand, s.buckets, d.latency[1].spans),
   rates   |-> FoldLeft(CountRate, s.rates, d.rates),
   memory  |-> IF d.memory > 0 THEN d.memory ELSE s.memory,
   dedup   |-> Both(s.dedup, d.dedup, LAMBDA a, b : [n |-> a.n + b.n, size |-> b.size]),
   flush   |-> s.flush + OrZero(d.flush),
   events  |-> s.events + OrZero(d.events),
   inits   |-> FoldLeft(AddInit, s.inits, d.inits)]

\* Two vectors, the longer one's length.
AddUp(a, b) == LET n == IF Len(a) < Len(b) THEN Len(b) ELSE Len(a)
               IN  [i \in 1 .. n |-> Padded(a, n)[i] + Padded(b, n)[i]]

\* Mutant: a frozen source is taken over whole.
Adopted_Whole(dedup, live) == dedup

\* What a snapshot without a dedup takes over: of a frozen one no gauges.
Adopted(dedup, live) ==
  IF dedup = << >> \/ live THEN dedup ELSE <<[dedup[1] EXCEPT !.size = 0]>>

merge_snapshots(acc, other, live) ==
  [sum     |-> acc.sum + other.sum,
   count   |-> acc.count + other.count,
   buckets |-> AddUp(acc.buckets, other.buckets),
   rates   |-> AddUp(acc.rates, other.rates),
   memory  |-> IF live /\ other.memory > 0 THEN other.memory ELSE acc.memory,
   dedup   |-> IF acc.dedup = << >> THEN Adopted(other.dedup, live)
               ELSE Both(acc.dedup, other.dedup,
                         LAMBDA a, b : [n |-> a.n + b.n, size |-> IF live THEN b.size ELSE a.size]),
   flush   |-> acc.flush + other.flush,
   events  |-> acc.events + other.events,
   inits   |-> FoldLeft(AddInit, acc.inits, other.inits)]

\* The total of the live keys and of the frozen legacy key.
Total(flaglogs, evts, legacy) ==
  merge_snapshots(merge_snapshots(merge_snapshots(NoSnapshot, flaglogs, TRUE), evts, TRUE), legacy, FALSE)

-----------------------------------------------------------------------------
\* Mutant: the division of the buckets per decade is rounded down.
Stride_Floor(perDecade) ==
  IF perDecade = 0 THEN 1 ELSE PER_DECADE \div (IF perDecade > PER_DECADE THEN PER_DECADE ELSE perDecade)

\* Every stride-th bucket is shown: at most perDecade in a decade, 0 for all.
Stride(perDecade) ==
  LET bpd == IF perDecade = 0 \/ perDecade > PER_DECADE THEN PER_DECADE ELSE perDecade
  IN  (PER_DECADE + bpd - 1) \div bpd

CumulativeTo(buckets, i) == FoldLeft(Plus, 0, SubSeq(buckets, 1, i))

\* The samples of a scrape: [metric, label, n].  The buckets of a histogram
\* are cumulative and begin with the first one that is not empty.
write_histogram(s, perDecade) ==
  IF s.count = 0 THEN {}
  ELSE {[metric |-> "latency_bucket", label |-> i, n |-> CumulativeTo(s.buckets, i)] :
          i \in {i \in DOMAIN s.buckets : i % Stride(perDecade) = 0 /\ CumulativeTo(s.buckets, i) > 0}}
       \cup {[metric |-> "latency_sum", label |-> 0, n |-> s.sum],
             [metric |-> "latency_count", label |-> 0, n |-> s.count]}

NonZero(metric, label, n) == IF n = 0 THEN {} ELSE {[metric |-> metric, label |-> label, n |-> n]}

write_resolve_rates(s) == UNION {NonZero("resolves", i - 1, s.rates[i]) : i \in DOMAIN s.rates}

write_memory(s) == NonZero("memory", 0, s.memory)

\* A dedup that never saw an apply is not shown.
write_apply_dedup(s) ==
  IF s.dedup = << >> \/ s.dedup[1].n = 0 THEN {}
  ELSE {[metric |-> "dedup", label |-> 0, n |-> s.dedup[1].n],
        [metric |-> "dedup_map_size", label |-> 0, n |-> s.dedup[1].size]}

write_flush(s)  == NonZero("flush", 0, s.flush)
write_events(s) == NonZero("events", 0, s.events)

\* Of a label set the invalid names are skipped: LabelsShown numbers what is
\* left of each set.
LabelsShown(labels) == labels \in ValidLabels

\* Mutant: an invalid name is made into a valid one.
write_provider_init_Renamed(s) ==
  UNION {NonZero("init", IF LabelsShown(s.inits[i].labels) THEN s.inits[i].labels ELSE 1, s.inits[i].count) :
           i \in DOMAIN s.inits}

write_provider_init(s) ==
  UNION {NonZero("init", IF LabelsShown(s.inits[i].labels) THEN s.inits[i].labels ELSE 0, s.inits[i].count) :
           i \in DOMAIN s.inits}

to_prometheus(s, perDecade) ==
  write_histogram(s, perDecade) \cup write_resolve_rates(s) \cup write_memory(s) \cup write_apply_dedup(s)
    \cup write_flush(s) \cup write_events(s) \cup write_provider_init(s)

=============================================================================
