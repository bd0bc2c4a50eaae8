--------------------------- MODULE MCAggregation ----------------------------
(***************************************************************************)
(* Aggregation for TLC: two flags whose rules assign two ids, two clients, *)
(* and deltas in which every optional part is present and absent, spans    *)
(* and reasons lie outside their range, and 32-bit sums wrap around.       *)
(***************************************************************************)
EXTENDS Aggregation

Resolved(flag, rule, id, variant, fell) ==
  [flag |-> flag, rule |-> rule, id |-> id, variant |-> variant, fallthrough |-> fell]

FullDelta ==
  [latency |-> <<[sum |-> 3, count |-> 4, spans |-> bucket_spans(<<1, 0, 2, 1>>)]>>,
   rates |-> <<[reason |-> 2, count |-> 4], [reason |-> 9, count |-> 1]>>,
   inits |-> <<[labels |-> 2, count |-> 1]>>, dedup |-> <<[n |-> 3, size |-> 2]>>,
   flush |-> <<1>>, events |-> <<2>>, memory |-> 5]

LaterDelta ==
  [latency |-> <<[sum |-> 1, count |-> 2, spans |-> <<[offset |-> 5, counts |-> <<1, 1>>]>>]>>,
   rates |-> << >>,
   inits |-> <<[labels |-> 1, count |-> 1], [labels |-> 3, count |-> 2]>>, dedup |-> <<[n |-> 2, size |-> 0]>>,
   flush |-> << >>, events |-> <<1>>, memory |-> 0]

Resolve(values, credential, schema, as, td) ==
  [values |-> values, credential |-> credential, schema |-> schema, assigned |-> as, telemetry |-> td]

Fell == <<[rule |-> "r1", id |-> "a"]>>

MCResolves ==
  {Resolve(<<Resolved("f", "r1", "a", "on", << >>), Resolved("g", "", "", "", << >>)>>, "c1", "s1", <<1>>,
           <<build_request_telemetry(<<[us |-> 2, bucket |-> 1]>>, <<0, 2, 0>>)>>),
   Resolve(<<Resolved("f", "r1", "b", "on", << >>)>>, "c1", "s2", <<2, 3>>, <<FullDelta>>),
   Resolve(<<Resolved("f", "r2", "b", "", Fell)>>, "c2", "s1", << >>, <<LaterDelta>>),
   Resolve(<<Resolved("f", "r2", "a", "off", Fell)>>, "c2", "s2", <<4>>, << >>)}

MCLegacies ==
  {NoSnapshot,
   [NoSnapshot EXCEPT !.count = 7, !.memory = 9, !.dedup = <<[n |-> 4, size |-> 6]>>]}

=============================================================================
