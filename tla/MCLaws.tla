------------------------------- MODULE MCLaws -------------------------------
(***************************************************************************)
(* The laws of the pure parts for TLC: segment matching (TargetingLaws),   *)
(* logging and metrics (Aggregation), deferred exposure (Exposure) and the *)
(* data functions (Laws).  The parts share no state: `part` says which one *)
(* a behaviour is about, and the others rest in an initial state.          *)
(***************************************************************************)
EXTENDS TargetingLaws, Exposure, MCAggregation, Laws

VARIABLE part

allVars == <<targetingVars, aggVars, exposureVars, input, part>>

-----------------------------------------------------------------------------
(* Segments: two materializations that are looked up and one with a bloom  *)
(* filter, a reference in either direction, two levels of operators.       *)
MCMats   == {"m1", "m2"}
MCBlooms == [m \in {"m3"} |-> {"u"}]

Leaves ==
  {[op |-> "attribute", val |-> v] : v \in {T, F}}
    \cup {[op |-> "materialized", mat |-> m] : m \in MCMats \cup {"m3"}}
    \cup {[op |-> "segment", seg |-> s] : s \in {"s1", "s2"}}

Over(exprs) ==
  {[op |-> "not", args |-> <<e>>] : e \in exprs}
    \cup {[op |-> o, args |-> <<e, f>>] : o \in {"and", "or"}, e, f \in exprs}

\* The inner operands that can tell an order of evaluation from another.
Inner == {e \in Leaves : (e.op = "attribute" => e.val = F) /\ (e.op = "materialized" => e.mat = "m2")}

MCRootExprs ==
  Over(Leaves)
    \cup {[op |-> o, args |-> <<e, f>>] : o \in {"and", "or"}, e \in Leaves, f \in Over(Inner)}
    \cup {[op |-> o, args |-> <<f, e>>] : o \in {"and", "or"}, e \in Leaves, f \in Over(Inner)}

MCLeafExprs == {e \in Leaves : e.op = "materialized" => e.mat = "m2"}

-----------------------------------------------------------------------------
(* Strings: numbers (in halves), versions, a date, a country and words, in *)
(* byte order.                                                             *)
MCStringOrder ==
  <<"", "0.5", "1", "1.0", "1.2.3", "2.5", "2024-01-01", "30", "5", "6", "NaN", "SE", "TRUE", "ab", "abc",
    "inf", "null", "true">>

MCINFINITY == 100
MCEARLIEST == -20
Infinite   == Number(MCINFINITY)

Digits(n) == <<[len |-> 1, n |-> n]>>
Word(len) == <<[len |-> len, n |-> -1]>>

Fact(len, num, time, segments, parts, sem) ==
  [len |-> len, num |-> num, time |-> time, segments |-> segments, sem |-> sem,
   prefixes |-> parts[1], suffixes |-> parts[2], infixes |-> parts[3]]

NoParts == <<{}, {}, {}>>

MCStringFacts ==
  [s \in {MCStringOrder[i] : i \in DOMAIN MCStringOrder} |->
     CASE s = "0.5"        -> Fact(3, <<Number(1)>>, << >>, Digits(0) \o Digits(5), NoParts, "")
       [] s = "1"          -> Fact(1, <<Number(2)>>, << >>, Digits(1), NoParts, "")
       [] s = "1.0"        -> Fact(3, <<Number(2)>>, << >>, Digits(1) \o Digits(0), NoParts, "")
       [] s = "2.5"        -> Fact(3, <<Number(5)>>, << >>, Digits(2) \o Digits(5), NoParts, "")
       [] s = "5"          -> Fact(1, <<Number(10)>>, << >>, Digits(5), NoParts, "")
       [] s = "6"          -> Fact(1, <<Number(12)>>, << >>, Digits(6), NoParts, "")
       [] s = "30"         -> Fact(2, <<Number(60)>>, << >>, Digits(30), NoParts, "")
       [] s = "NaN"        -> Fact(3, <<NaN>>, << >>, Word(3), NoParts, "")
       [] s = "inf"        -> Fact(3, <<Infinite>>, << >>, Word(3), NoParts, "")
       [] s = "1.2.3"      -> Fact(5, << >>, << >>, Digits(1) \o Digits(2) \o Digits(3), NoParts, "version")
       [] s = "2024-01-01" -> Fact(10, << >>, <<6>>, Word(10), NoParts, "date")
       [] s = "SE"         -> Fact(2, << >>, << >>, Word(2), NoParts, "country")
       [] s = "ab"         -> Fact(2, << >>, << >>, Word(2), <<{"a", "ab"}, {"b", "ab"}, {"a", "b", "ab"}>>, "")
       [] s = "abc"        -> Fact(3, << >>, << >>, Word(3),
                                   <<{"a", "ab", "abc"}, {"c", "bc", "abc"}, {"a", "b", "c", "ab", "bc", "abc"}>>, "")
       [] OTHER            -> Fact(4, << >>, << >>, Word(4), NoParts, "")]

MCNumText(n) ==
  CASE n = 1 -> "0.5" [] n = 2 -> "1" [] n = 5 -> "2.5" [] n = 10 -> "5" [] n = 12 -> "6"
    [] n = 60 -> "30" [] n = MCINFINITY -> "inf"

NoKind == TypedValue("none", 0, "")

MCAttributes ==
  {Null, Number(1), Number(5), Number(12), Number(60), Infinite, NaN, Bool(TRUE), Struct}
    \cup {Text(s) : s \in {"0.5", "1.0", "1.2.3", "2024-01-01", "NaN", "TRUE", "abc", "null"}}
    \cup {List(s) : s \in {<< >>, <<Number(1), Number(5)>>, <<Number(1), Text("0.5")>>, <<Text("ab"), Text("1.2.3")>>,
                           <<Null, Bool(TRUE)>>, <<List(<<Number(1)>>), Text("0.5")>>, <<Text("NaN"), Number(1)>>}}

MCBounds ==
  {Number(1), Number(2), Infinite, NaN, Text("1.0"), Text("ab"), Time(2), Time(6), Version("1.0"), Version("1.2.3"), Version("ab"), Bool(TRUE)}

EqRules == {[op |-> "eq", value |-> v] :
              v \in {Number(1), NaN, Text("0.5"), Text("null"), Bool(TRUE), Version("1.0"), Time(6), Empty, TypedValue("absent", 0, "")}}

MCPlainRules ==
  EqRules
    \cup {[op |-> "set", values |-> s] : s \in {<< >>, <<Number(1), Number(5)>>, <<NaN, Number(1)>>, <<Text("0.5"), Text("abc")>>, <<Time(2), Time(6)>>}}
    \cup {Range2(<<"in", Number(1)>>, <<"ex", Number(5)>>), Range2(<<"ex", Text("1")>>, << >>), Range2(<< >>, << >>)}
    \cup {[op |-> "starts", text |-> "ab"], [op |-> "ends", text |-> "bc"], [op |-> "contains", text |-> "b"], [op |-> "none"]}

-----------------------------------------------------------------------------
(* Contexts: scalars, lists and structs on the paths a, b, b.c, b.c.d and  *)
(* a.c, set and crossed by managed paths.                                  *)
One(x, v) == [y \in {x} |-> v]
Two(x, v, y, w) == Insert(One(x, v), y, w)

MCRequests ==
  {StructOf(f) : f \in {
     NoFields,
     Two("a", Text("1"), "b", StructOf(One("c", Number(5)))),
     Two("a", StructOf(One("c", Bool(TRUE))), "b", Null),
     Two("a", List(<<Number(1), NoKind, Number(5)>>), "b", StructOf(Two("c", Text("2024-01-01"), "d", Text("SE")))),
     Two("a", List(<<Number(5), Text("ab")>>), "country", Text("SE")),
     Two("b", Number(-3), "a", StructOf(One("c", StructOf(NoFields))))}}

Managed1(path, v) == <<[path |-> path, value |-> v]>>

MCManaged ==
  {<< >>, Managed1(<<"a">>, Text("ab")), Managed1(<<"b", "c">>, Number(2)), Managed1(<<"b">>, Bool(TRUE)),
   Managed1(<<"a">>, Text("ab")) \o Managed1(<<"a", "c">>, Number(2)),
   Managed1(<<"a", "c">>, Null) \o Managed1(<<"b", "c", "d">>, Text("1")),
   Managed1(<<TargetingKey>>, Text("ab")), Managed1(<<TargetingKey>>, Number(2)), Managed1(<<TargetingKey>>, Null)}

MCFlagSchemas ==
  {NoFields, Two("a", << >>, "b", <<Two("c", << >>, "d", << >>)>>), One("a", <<One("c", <<One("e", << >>)>>)>>)}

MCCustom ==
  [key : {<< >>, <<"ab">>, <<"2024-01-01">>},
   custom : {NoFields} \cup
            {One(TargetingKey, v) : v \in {TypedValue("int", 2, ""), TypedValue("float", 2, ""), TypedValue("float", 1, ""),
                                          TypedValue("float", 0, NaN.s), TypedValue("float", MCINFINITY, ""), Text("SE"),
                                          Bool(TRUE), TypedValue("datetime", 1, ""), Struct}}]

-----------------------------------------------------------------------------
(* Batches: records that fit, ones whose flags or whose other parts do     *)
(* not; a backend limit of 10 and chunks of 8.                             *)
MCShapes ==
  {[size |-> 2, carry |-> 0, assigned |-> <<<<3>>>>],
   [size |-> 5, carry |-> 4, assigned |-> <<<<3, 3, 3>>>>],
   [size |-> 3, carry |-> 2, assigned |-> << >>],
   [size |-> 4, carry |-> 12, assigned |-> <<<<1>>>>],
   [size |-> 5, carry |-> 3, assigned |-> <<<<4, 4>>, <<12>>, <<2>>>>],
   [size |-> 3, carry |-> 0, assigned |-> <<<<4, 4>>, << >>, <<3>>>>],
   [size |-> 1, carry |-> 0, assigned |-> << >>]}

MCBloomKeys == [h1 : {0, 3, 13}, h2 : {1, 5, 14}]

Member(crc, isize, fs) ==
  [magic |-> TRUE, method |-> 8, flags |-> fs, body |-> <<<<1, 0>>>>, crc |-> crc, isize |-> isize, size |-> 20]

Bitset(segment, kind, member) == [segment |-> segment, kind |-> kind, member |-> member]
Whole == Member(<<1, 0>>, 2, {})

MCBitsets ==
  {{}, {Bitset("s", "gz", Whole), Bitset("t", "full", Whole)}, {Bitset("s", "gz", Member(<<1, 1>>, 2, {}))},
   {Bitset("s", "gz", Member(<<1, 0>>, 3, {}))}, {Bitset("s", "gz", Member(<<1, 0>>, 2, {"name"}))},
   {Bitset("s", "none", Whole)}, {Bitset("s", "empty", Whole)}, {Bitset("s", "gz", [Whole EXCEPT !.size = 17])}}

Client(name) == [name |-> name, managed |-> << >>]

Credential(owner, kind, secret) ==
  [name |-> owner \o <<"/", secret>>, owner |-> owner, kind |-> kind, secret |-> secret, environments |-> {secret}]

MCStates ==
  [clients : {<<Client(<<"a">>), Client(<<"b">>)>>, <<Client(<<"b">>), Client(<<"a">>)>>,
              <<Client(<<"a">>), Client(<<"a", "b">>)>>, <<Client(<<"b", "b">>)>>},
   credentials : SUBSET {Credential(<<"a">>, "secret", "x"), Credential(<<"b">>, "secret", "y"),
                         Credential(<<"a">>, "other", "z"), Credential(<<"a", "b">>, "secret", "w")},
   bitsets : MCBitsets,
   blooms : {{}, {[name |-> "s", strategy |-> 2, packed |-> GuavaPacked({}, 1, 4)]}}]

MCStoreRecords ==
  {[unit |-> "u", mat |-> "m", rule |-> "r1", variant |-> "v1"], [unit |-> "u", mat |-> "m", rule |-> "r1", variant |-> "v2"],
   [unit |-> "u", mat |-> "m", rule |-> "", variant |-> ""], [unit |-> "u", mat |-> "m2", rule |-> "r2", variant |-> "v1"]}

\* Bytes are 0 and 1 and a word has two of them.
Strings(n) == UNION {[1 .. k -> {0, 1}] : k \in 0 .. n}
FellThrough(rule, id) == [rule |-> rule, assignment_id |-> id, targeting_key |-> << >>, targeting_key_selector |-> <<1>>]

MCIdentities ==
  {[flag |-> f, targeting_key |-> k, targeting_key_selector |-> << >>, assignment_id |-> <<1>>, variant |-> x[1],
    segment |-> x[2], rule |-> <<0>>, reason |-> x[3], fell |-> << >>] :
      f \in Strings(3), k \in Strings(3), x \in {<<<<1>>, <<0>>, 1>>}}
    \cup
  {[flag |-> f, targeting_key |-> << >>, targeting_key_selector |-> << >>, assignment_id |-> <<1>>, variant |-> v,
    segment |-> s, rule |-> << >>, reason |-> r, fell |-> fell] :
      f \in {<<1>>, <<1, 0>>}, v \in Strings(1), s \in Strings(1), r \in 0 .. 5,
      fell \in {<< >>} \cup {<<FellThrough(a, b)>> : a \in Strings(1), b \in Strings(1)} \cup {<<FellThrough(<< >>, <<0>>), FellThrough(<<1>>, << >>)>>}}

-----------------------------------------------------------------------------
(* Exposures: a variant, a default of a flag that fell through, and a flag *)
(* that is not to be applied.                                              *)
MCValues ==
  {[flag |-> "f", reason |-> "Match", variant |-> "on", fell |-> FALSE],
   [flag |-> "g", reason |-> "NoSegmentMatch", variant |-> "", fell |-> TRUE],
   [flag |-> "h", reason |-> "NoSegmentMatch", variant |-> "", fell |-> FALSE]}

MCOffsets == {-2, 5}
MCKeys    == <<"k1", "k2">>

-----------------------------------------------------------------------------
TargetingIdle ==
  /\ segs = [s \in {"s1", "s2"} |-> [expr |-> [op |-> "attribute", val |-> T], bits |-> "none"]]
  /\ unit = "u" /\ included = {}

AllInit ==
  /\ part \in {"targeting", "aggregation", "exposure", "data"}
  /\ IF part = "targeting" THEN TargetingInit ELSE TargetingIdle
  /\ AggInit /\ LawsInit
  /\ ExposureInit /\ (part # "exposure" => offset = 5)

TargetingStep   == part = "targeting" /\ TargetingNext /\ UNCHANGED <<aggVars, exposureVars, input, part>>
AggregationStep == part = "aggregation" /\ AggNext /\ UNCHANGED <<targetingVars, exposureVars, input, part>>
ExposureStep    == part = "exposure" /\ ExposureNext /\ UNCHANGED <<targetingVars, aggVars, input, part>>
DataStep        == part = "data" /\ LawsNext /\ UNCHANGED <<targetingVars, aggVars, exposureVars, part>>

AllNext == TargetingStep \/ AggregationStep \/ ExposureStep \/ DataStep

AllSpec == AllInit /\ [][AllNext]_allVars

=============================================================================
