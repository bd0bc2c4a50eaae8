---------------------------- MODULE Aggregation -----------------------------
(***************************************************************************)
(* What is logged of a resolve, in two ways.  A worker logs each resolve   *)
(* as a message of its own (build_resolve_log) and aggregates a batch of   *)
(* them into one request (flag_logger.rs, aggregate_batch); a provider     *)
(* counts resolves in its resolve logger and reports the counters          *)
(* (resolve_logger.rs).  Next to them are the metrics snapshots the same   *)
(* messages lead to on the ways a worker may take (Metrics).               *)
(*                                                                         *)
(* A resolve is [values, credential, schema, assigned, telemetry]: values  *)
(* is a sequence of [flag, rule, variant, id, fallthrough], where rule is  *)
(* "" if none matched and fallthrough is a sequence of [rule, id].         *)
(***************************************************************************)
EXTENDS Metrics

CONSTANTS
  Resolves,    \* the resolves a batch is made of
  Legacies,    \* snapshots the legacy key may hold
  MaxResolves  \* bound: the length of a batch

\* What is listed in a resolve is a sequence.
Listed(s) == s \in Seq({s[i] : i \in DOMAIN s})

ASSUME ResolvesAssumption ==
  \A r \in Resolves :
    /\ Listed(r.values) /\ Listed(r.assigned)
    /\ \A i \in DOMAIN r.values : Listed(r.values[i].fallthrough)

VARIABLES
  batch,    \* the resolves so far
  counters, \* ResolveInfoState: flag -> [rules, variants], like flags
  schemas,  \* credential -> schemas
  flags,    \* flag -> [rules |-> rule -> [count, assignments], variants |-> variant -> count]
  assigned, \* flag_assigned of the aggregate
  telemetry \* its telemetry_data, << >> for none

aggVars == <<batch, counters, schemas, flags, assigned, telemetry>>

NoName == ""
NoEntries == [x \in {} |-> 0]

AggInit ==
  /\ batch = << >>
  /\ counters = NoEntries
  /\ schemas = NoEntries /\ flags = NoEntries
  /\ assigned = << >> /\ telemetry = << >>

-----------------------------------------------------------------------------
\* The entries of a resolved flag: the rules it fell through and the one that
\* matched, and the variant, which is NoName without.
RuleEntry(rule, id) == [rule |-> rule, count |-> 1, assignments |-> <<[id |-> id, count |-> 1]>>]

FlagInfo(v) ==
  [flag     |-> v.flag,
   rules    |-> [i \in DOMAIN v.fallthrough |-> RuleEntry(v.fallthrough[i].rule, v.fallthrough[i].id)]
                  \o (IF v.rule = NoName THEN << >> ELSE <<RuleEntry(v.rule, v.id)>>),
   variants |-> <<[variant |-> IF v.rule = NoName THEN NoName ELSE v.variant, count |-> 1]>>]

\* A resolve as a message: [flags, clients, assigned, telemetry].
build_resolve_log(r) ==
  [flags    |-> [i \in DOMAIN r.values |-> FlagInfo(r.values[i])],
   clients  |-> <<[credential |-> r.credential, schemas |-> {r.schema}]>>,
   assigned |-> r.assigned, telemetry |-> r.telemetry]

-----------------------------------------------------------------------------
NoInfo == [rules |-> NoEntries, variants |-> NoEntries]
NoRuleInfo == [count |-> 0, assignments |-> NoEntries]
Get(f, k, default) == IF k \in DOMAIN f THEN f[k] ELSE default

increment(f, k) == Put(f, k, Lookup0(f, k) + 1)

\* A rule of a flag counts a resolve.
CountRule(info, rule, id) ==
  LET known == Get(info.rules, rule, NoRuleInfo)
  IN  [info EXCEPT !.rules = Put(@, rule, [count |-> known.count + 1,
                                           assignments |-> increment(known.assignments, id)])]

\* Mutant: a resolve that no rule matched is not counted as a variant.
CountValue_OnlyMatches(info, v) ==
  LET fell == FoldLeft(LAMBDA f, x : CountRule(f, x.rule, x.id), info, v.fallthrough)
  IN  IF v.rule = NoName THEN fell
      ELSE [CountRule(fell, v.rule, v.id) EXCEPT !.variants = increment(@, v.variant)]

\* The resolve logger counts a resolved flag.
CountValue(info, v) ==
  LET fell == FoldLeft(LAMBDA f, x : CountRule(f, x.rule, x.id), info, v.fallthrough)
  IN  IF v.rule = NoName THEN [fell EXCEPT !.variants = increment(@, NoName)]
      ELSE [CountRule(fell, v.rule, v.id) EXCEPT !.variants = increment(@, v.variant)]

log_resolve(cs, r) ==
  FoldLeft(LAMBDA f, v : Put(f, v.flag, CountValue(Get(f, v.flag, NoInfo), v)), cs, r.values)

-----------------------------------------------------------------------------
\* The assignments of a rule are those of this message, each added to what
\* the rule had of it before.
AddedTo(known, assignments) ==
  FoldLeft(LAMBDA f, a : Put(f, a.id, Lookup0(known, a.id) + a.count), NoEntries, assignments)

WithRule(info, r) ==
  LET known == Get(info.rules, r.rule, NoRuleInfo)
  IN  [info EXCEPT !.rules =
         Put(@, r.rule, [count |-> known.count + r.count, assignments |-> AddedTo(known.assignments, r.assignments)])]

WithVariant(info, v) ==
  [info EXCEPT !.variants = Put(@, v.variant, Lookup0(@, v.variant) + v.count)]

update_rule_variant_info(info, f) == FoldLeft(WithVariant, FoldLeft(WithRule, info, f.rules), f.variants)

WithFlag(fs, f) ==
  Put(fs, f.flag, update_rule_variant_info(Get(fs, f.flag, NoInfo), f))

WithClient(known, c) ==
  Put(known, c.credential, c.schemas \cup Get(known, c.credential, {}))

\* One message of the batch.
aggregate_batch(m) ==
  /\ schemas' = FoldLeft(WithClient, schemas, m.clients)
  /\ flags' = FoldLeft(WithFlag, flags, m.flags)
  /\ assigned' = assigned \o m.assigned
  /\ telemetry' = IF m.telemetry = << >> THEN telemetry
                  ELSE <<merge_telemetry(IF telemetry = << >> THEN NoTelemetry ELSE telemetry[1], m.telemetry[1])>>

AggNext == \E r \in Resolves :
  /\ Len(batch) < MaxResolves
  /\ batch' = Append(batch, r)
  /\ counters' = log_resolve(counters, r)
  /\ aggregate_batch(build_resolve_log(r))

AggSpec == AggInit /\ [][AggNext]_aggVars

-----------------------------------------------------------------------------
(* The counts by rule and by variant are the same whether resolves are     *)
(* counted in the resolve logger or logged one by one and aggregated, for  *)
(* flags with several rules fallen through, and the assignments and the    *)
(* schemas of every client are kept.                                       *)
LoggersAgree ==
  /\ DOMAIN flags = DOMAIN counters
  /\ \A f \in DOMAIN flags :
       /\ flags[f].variants = counters[f].variants
       /\ DOMAIN flags[f].rules = DOMAIN counters[f].rules
       /\ \A r \in DOMAIN flags[f].rules : flags[f].rules[r].count = counters[f].rules[r].count
  /\ assigned = FoldLeft(LAMBDA s, r : s \o r.assigned, << >>, batch)
  /\ \A i \in DOMAIN batch : batch[i].schema \in schemas[batch[i].credential]

(* And so are the counts by assignment: each is the number of resolves in  *)
(* the batch (AssignmentResolveInfo, protos/.../admin/v1/types.proto:      *)
(* "Number of times the assignment id was resolved in this period").       *)
AssignmentsAgree ==
  \A f \in DOMAIN flags : \A r \in DOMAIN flags[f].rules :
    flags[f].rules[r].assignments = counters[f].rules[r].assignments

-----------------------------------------------------------------------------
Deltas == FoldLeft(LAMBDA s, m : s \o m.telemetry, << >>, batch)

\* The snapshot when every message is accumulated by itself ...
OneByOne == FoldLeft(accumulate_delta, NoSnapshot, Deltas)
\* ... when the last n messages are gathered into a snapshot of their own ...
PerBatch(n) ==
  LET k == Len(Deltas) - n
  IN  merge_snapshots(FoldLeft(accumulate_delta, NoSnapshot, SubSeq(Deltas, 1, k)),
                      FoldLeft(accumulate_delta, NoSnapshot, SubSeq(Deltas, k + 1, Len(Deltas))), TRUE)
\* ... and when the aggregate is accumulated.
Aggregated == IF telemetry = << >> THEN NoSnapshot ELSE accumulate_delta(NoSnapshot, telemetry[1])

\* Counters that were summed as u32 are known modulo U32.
Narrow(s) ==
  [s EXCEPT !.sum = @ % U32, !.count = @ % U32, !.flush = @ % U32, !.events = @ % U32,
            !.rates = [i \in DOMAIN @ |-> @[i] % U32],
            !.dedup = IF @ = << >> THEN @ ELSE <<[@[1] EXCEPT !.n = @ % U32]>>,
            !.inits = [i \in DOMAIN @ |-> [@[i] EXCEPT !.count = @ % U32]]]

(* The metrics of a batch do not depend on the way they took: accumulated  *)
(* message by message, gathered per batch and merged, or aggregated first. *)
(* Gauges are the latest reading on each way, and the buckets of the       *)
(* histogram agree even where a 32-bit sum has wrapped around.             *)
MetricsAgree ==
  /\ \A n \in 0 .. Len(Deltas) : PerBatch(n) = OneByOne
  /\ Narrow(Aggregated) = Narrow(OneByOne)
  /\ Aggregated.buckets = OneByOne.buckets

(* The legacy key adds its counters to a scrape and never shows one of its *)
(* frozen gauges (GaugeSource).                                            *)
FrozenShowsNoGauge ==
  \A legacy \in Legacies :
    LET live  == Total(OneByOne, NoSnapshot, NoSnapshot)
        total == Total(OneByOne, NoSnapshot, legacy)
    IN  /\ total.memory = live.memory
        /\ total.dedup # << >> => total.dedup[1].size = IF live.dedup = << >> THEN 0 ELSE live.dedup[1].size
        /\ total.count = live.count + legacy.count

\* Observations up to bucket i (from 1), from the messages themselves.
Observed(i) ==
  FoldLeft(LAMBDA n, span : n + FoldLeft(Plus, 0, SubSeq(span.counts, 1,
             IF i <= span.offset THEN 0
             ELSE IF i - span.offset < Len(span.counts) THEN i - span.offset ELSE Len(span.counts))),
           0, FoldLeft(LAMBDA s, d : IF d.latency = << >> THEN s ELSE s \o d.latency[1].spans, << >>, Deltas))

(* However many buckets per decade are asked for, at most so many of a     *)
(* decade are shown, each counts the observations up to it, and the total  *)
(* is not less.                                                            *)
HistogramShown ==
  \A perDecade \in 0 .. PER_DECADE + 1 :
    LET shown == {x \in to_prometheus(OneByOne, perDecade) : x.metric = "latency_bucket"}
    IN  /\ \A x \in shown : x.n = Observed(x.label) /\ x.n <= OneByOne.count
        /\ perDecade \in 1 .. PER_DECADE =>
             \A d \in 0 .. BUCKET_COUNT \div PER_DECADE :
               Cardinality({x \in shown : x.label \in d * PER_DECADE + 1 .. (d + 1) * PER_DECADE}) <= perDecade

(* Every series of a scrape appears once, unless two label sets differ     *)
(* only in names that are skipped.                                         *)
SeriesUnique ==
  \A x, y \in to_prometheus(OneByOne, 0) :
    x.metric = y.metric /\ x.label = y.label /\ (x.metric = "init" => x.label # 0) => x = y

(* Every way a resolve is counted gives the same numbers: in one message   *)
(* or in several that are merged, from the new log format or the old one,  *)
(* as text of a scrape.                                                    *)
CountsAgree ==
  /\ LoggersAgree
  /\ MetricsAgree
  /\ FrozenShowsNoGauge
  /\ HistogramShown
  /\ SeriesUnique

=============================================================================
