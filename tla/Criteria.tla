------------------------------ MODULE Criteria ------------------------------
(***************************************************************************)
(* Attribute criteria (confidence-resolver/src/value.rs): an attribute of  *)
(* the evaluation context is converted to the kind of value the rule       *)
(* compares with, wrapped into a list, and compared element by element.    *)
(*                                                                         *)
(* A value is [k, n, s]: its kind, its number (also of a bool, 0 or 1, and *)
(* of a timestamp) and its string (also of a version).  A list is          *)
(* [k |-> "list", items].  "empty" is a targeting value without content.   *)
(* What a string reads as is a fact of the constant StringFacts.           *)
(*                                                                         *)
(* A number is a float: a multiple of 1/UNIT, one of the two infinities    *)
(* (INFINITY and -INFINITY), or NaN, which neither equals nor is ordered   *)
(* with any number.                                                        *)
(***************************************************************************)
EXTENDS Integers, Sequences

CONSTANTS
  StringOrder,     \* the strings, in the order of their bytes
  StringFacts,     \* string -> [num, time, segments, prefixes, suffixes, infixes]
  NumText(_),\* a number as a string
  UNIT, INFINITY,     \* parts of a whole number; what stands for infinitely many
  MILLIS_FROM, SECOND,\* a number from here on is in milliseconds; a second in them
  EARLIEST, LATEST    \* the instants that chrono has, in milliseconds

TypedValue(k, n, s) == [k |-> k, n |-> n, s |-> s]
Null       == TypedValue("null", 0, "")
Empty      == TypedValue("empty", 0, "")
Number(n)  == TypedValue("number", n, "")
NaN        == TypedValue("number", 0, "NaN")
Text(s)    == TypedValue("string", 0, s)
Bool(b)    == TypedValue("bool", IF b THEN 1 ELSE 0, "")
Time(n)    == TypedValue("timestamp", n, "")
Version(s) == TypedValue("version", 0, s)
Struct     == TypedValue("struct", 0, "")
List(vs)   == [k |-> "list", items |-> vs]

\* What a value that cannot be converted, or is not there, turns into.
Sentinel == Text("null")

Ordered == {StringOrder[i] : i \in DOMAIN StringOrder}

IsNumber(v) == v = NaN \/ (v.n \in -INFINITY .. INFINITY /\ v = Number(v.n))

\* Every string is one of StringOrder, and reads as a number and an instant
\* or as none (<< >>).
ASSUME CriteriaAssumption ==
  /\ StringOrder \in Seq(STRING) /\ Sentinel.s \in Ordered
  /\ \A s \in Ordered : /\ StringFacts[s].num # << >> => IsNumber(StringFacts[s].num[1])
                        /\ StringFacts[s].time \in Seq(Int)
  /\ UNIT \in Nat \ {0} /\ INFINITY \in Nat
  /\ MILLIS_FROM \in Int /\ SECOND \in Int /\ EARLIEST \in Int /\ LATEST \in Int

\* An attribute that makes the whole resolve fail, and a rule that this
\* version of the resolver does not know.
Unparsable  == TypedValue("unparsable", 0, "")
UnknownRule == "unrecognized"
Failed      == "failed"
Truth(b)    == IF b THEN "true" ELSE "false"

Abs(n) == IF n < 0 THEN -n ELSE n

is_finite(v) == v.s # NaN.s /\ Abs(v.n) < INFINITY

\* A float as an integer loses its fraction.
Truncated(n) == IF n < 0 THEN -((-n) \div UNIT) ELSE n \div UNIT

\* A finite number is an instant in seconds, or in milliseconds if it is
\* large, unless it is too large.  (The abs of i64::MIN wraps in a release
\* build; it is no instant either way.)
number_to_timestamp(v) ==
  LET n == Truncated(v.n)
      t == IF Abs(n) >= MILLIS_FROM THEN n ELSE n * SECOND
  IN  IF is_finite(v) /\ t \in EARLIEST .. LATEST THEN Time(t) ELSE Sentinel

\* A string that is no timestamp has the fact << >>.
from_str(s) == IF StringFacts[s].time = << >> THEN Sentinel ELSE Time(StringFacts[s].time[1])

FromNumber(v, kind) ==
  CASE kind = "number"    -> v
    [] kind = "string"    -> Text(IF v = NaN THEN v.s ELSE NumText(v.n))
    [] kind = "timestamp" -> number_to_timestamp(v)
    [] OTHER              -> Sentinel

FromString(v, kind) ==
  CASE kind = "bool"      -> Bool(v.s \in {"true", "TRUE"})
    [] kind = "number"    -> IF StringFacts[v.s].num = << >> THEN Unparsable ELSE StringFacts[v.s].num[1]
    [] kind = "string"    -> v
    [] kind = "timestamp" -> from_str(v.s)
    [] kind = "version"   -> Version(v.s)
    [] OTHER              -> Sentinel

\* An element of an attribute, or an attribute that is no list.
ConvertOne(v, kind) ==
  CASE v.k = "number" -> FromNumber(v, kind)
    [] v.k = "string" -> FromString(v, kind)
    [] v.k = "bool"   -> IF kind = "bool" THEN v ELSE Sentinel
    [] OTHER          -> Sentinel

\* Lists are converted element by element, lists in them too.
ConvertItem(v, kind) ==
  IF v.k = "list" THEN List([i \in DOMAIN v.items |-> ConvertOne(v.items[i], kind)])
  ELSE ConvertOne(v, kind)

convert_to_targeting_value(v, kind) ==
  IF v.k = "list" THEN List([i \in DOMAIN v.items |-> ConvertItem(v.items[i], kind)])
  ELSE ConvertOne(v, kind)

\* The string operators take strings only, and nothing instead of the rest.
StrictItem(v) ==
  IF v.k = "list" THEN List([i \in DOMAIN v.items |-> IF v.items[i].k = "string" THEN v.items[i] ELSE Empty])
  ELSE IF v.k = "string" THEN v ELSE Empty

convert_to_strict_string_operator_value(v) ==
  IF v.k = "list" THEN List([i \in DOMAIN v.items |-> StrictItem(v.items[i])])
  ELSE IF v.k = "string" THEN v ELSE List(<<Empty>>)

-----------------------------------------------------------------------------
(***************************************************************************)
(* A rule is [op |-> "eq", value], [op |-> "set", values], [op |->         *)
(* "range", start, end] with bounds <<>>, <<"in", v>> or <<"ex", v>>,      *)
(* [op |-> "starts" | "ends" | "contains", text], [op |-> "any" | "all",   *)
(* inner] or [op |-> "none"].  An eq rule without value has "absent".      *)
(***************************************************************************)
Collection(rule) == rule.op \in {"any", "all"}
StringOps        == {"starts", "ends", "contains"}

uses_strict_string_operator(rule) ==
  (IF Collection(rule) THEN rule.inner.op ELSE rule.op) \in StringOps

Content(v) == IF v.k \in {"empty", "absent"} THEN "none" ELSE v.k

ExpectedPlain(rule) ==
  CASE rule.op = "eq"       -> Content(rule.value)
    [] rule.op = "set"      -> IF rule.values = << >> THEN "none" ELSE Content(rule.values[1])
    [] rule.op = "range"    -> IF rule.start # << >> THEN Content(rule.start[2])
                               ELSE IF rule.end # << >> THEN Content(rule.end[2]) ELSE "none"
    [] rule.op \in StringOps -> "string"
    [] OTHER                -> "none"

expected_value_type(rule) ==
  IF Collection(rule) THEN ExpectedPlain(rule.inner) ELSE ExpectedPlain(rule)

\* A version has two to four numeric segments [len, n] (n < 0: not a number),
\* none longer than ten digits; a third of more than three digits, with
\* no fourth, is the tag.
Malformed(s) == \/ Len(s) \notin 2 .. 4
                \/ \E i \in DOMAIN s : s[i].len \notin 1 .. 10 \/ s[i].n < 0

parse_version(s) ==
  IF Malformed(s) THEN <<0, 0, 0, 0>>
  ELSE CASE Len(s) = 2 -> <<s[1].n, s[2].n, 0, 0>>
         [] Len(s) = 3 -> IF s[3].len > 3 THEN <<s[1].n, s[2].n, 0, s[3].n>>
                                          ELSE <<s[1].n, s[2].n, s[3].n, 0>>
         [] Len(s) = 4 -> <<s[1].n, s[2].n, s[3].n, s[4].n>>

LexLess(a, b) == \E i \in DOMAIN a : a[i] < b[i] /\ \A j \in 1 .. i - 1 : a[j] = b[j]
Rank(s) == CHOOSE i \in DOMAIN StringOrder : StringOrder[i] = s

\* Only values of one kind compare, and NaN, lists and bools not at all.
lt(a, b) ==
  /\ a.k = b.k /\ NaN \notin {a, b}
  /\ CASE a.k \in {"number", "timestamp"} -> a.n < b.n
       [] a.k = "string"  -> Rank(a.s) < Rank(b.s)
       [] a.k = "version" -> LexLess(parse_version(StringFacts[a.s].segments), parse_version(StringFacts[b.s].segments))
       [] OTHER           -> FALSE

\* Mutant: a version is at most another only if it is less.
lte_Strict(a, b) == lt(a, b) \/ (a.k \in {"number", "timestamp", "string"} /\ a = b)

\* Mutant: what is not greater is at most the other.
lte_NotGreater(a, b) == a.k = b.k /\ a.k \notin {"bool", "list", "empty"} /\ ~lt(b, a)

lte(a, b) ==
  /\ a.k = b.k /\ NaN \notin {a, b}
  /\ CASE a.k \in {"number", "timestamp"} -> a.n <= b.n
       [] a.k = "string"  -> Rank(a.s) <= Rank(b.s)
       [] a.k = "version" -> ~LexLess(parse_version(StringFacts[b.s].segments), parse_version(StringFacts[a.s].segments))
       [] OTHER           -> FALSE

evaluate_range_rule(rule, v) ==
  /\ rule.start # << >> \/ rule.end # << >>
  /\ rule.start # << >> => IF rule.start[1] = "in" THEN lte(rule.start[2], v) ELSE lt(rule.start[2], v)
  /\ rule.end # << >>   => IF rule.end[1] = "in" THEN lte(v, rule.end[2]) ELSE lt(v, rule.end[2])

starts_with(v, text) == v.k = "string" /\ text \in StringFacts[v.s].prefixes
ends_with(v, text)   == v.k = "string" /\ text \in StringFacts[v.s].suffixes
contains(v, text)    == v.k = "string" /\ text \in StringFacts[v.s].infixes

Items(v) == {v.items[i] : i \in DOMAIN v.items}

\* PartialEq of values: one with a NaN in it does not equal itself.
Same(a, b) == a = b /\ a # NaN /\ (a.k = "list" => NaN \notin Items(a))

Known(rule) == rule.op \notin {"none", "any", "all"} /\ (rule.op = "eq" => rule.value.k # "absent")

\* One element under a plain rule.
evaluate_inner_rule(rule, v) ==
  CASE rule.op = "eq"       -> Same(v, rule.value)
    [] rule.op = "set"      -> \E i \in DOMAIN rule.values : Same(rule.values[i], v)
    [] rule.op = "range"    -> evaluate_range_rule(rule, v)
    [] rule.op = "starts"   -> starts_with(v, rule.text)
    [] rule.op = "ends"     -> ends_with(v, rule.text)
    [] rule.op = "contains" -> contains(v, rule.text)

\* Mutant: an any rule looks at the first element only.
evaluate_criterion_First(rule, vs) ==
  LET inner == IF Collection(rule) THEN rule.inner ELSE rule
  IN  IF ~Known(inner) THEN UnknownRule
      ELSE IF rule.op = "all" THEN Truth(\A i \in DOMAIN vs : evaluate_inner_rule(inner, vs[i]))
      ELSE Truth(\E i \in DOMAIN vs : (rule.op = "any" => i = 1) /\ evaluate_inner_rule(inner, vs[i]))

\* A plain rule holds of some element.  Of an unknown inner rule the error is
\* met at the first element, so a list without elements does not meet it.
evaluate_criterion(rule, vs) ==
  LET inner == IF Collection(rule) THEN rule.inner ELSE rule
  IN  IF ~Known(inner) /\ (vs # << >> \/ ~Collection(rule)) THEN UnknownRule
      ELSE IF rule.op = "all" THEN Truth(\A i \in DOMAIN vs : evaluate_inner_rule(inner, vs[i]))
      ELSE Truth(\E i \in DOMAIN vs : evaluate_inner_rule(inner, vs[i]))

\* An eq rule with an empty value asks for null, of the attribute itself.
NullEquality(rule) == rule.op = "eq" /\ rule.value = Empty

evaluate_null_equality(v) ==
  IF v.k = "list" THEN \E i \in DOMAIN v.items : v.items[i].k = "null" ELSE v.k = "null"

list_wrapper(v) == IF v.k = "list" THEN v.items ELSE <<v>>

\* Some element, of a list in the list too, could not be converted.
FailsIn(v) ==
  \/ v = Unparsable
  \/ v.k = "list" /\ \E w \in Items(v) : w = Unparsable \/ (w.k = "list" /\ Unparsable \in Items(w))

convert_to_targeting_value_for_criterion(v, rule) ==
  IF uses_strict_string_operator(rule) THEN convert_to_strict_string_operator_value(v)
  ELSE convert_to_targeting_value(v, expected_value_type(rule))

\* The criterion_evaluator of targeting_match, for an attribute.
Matches(v, rule) ==
  LET converted == convert_to_targeting_value_for_criterion(v, rule)
  IN  IF NullEquality(rule) THEN Truth(evaluate_null_equality(v))
      ELSE IF Collection(rule) /\ v.k = "null" THEN evaluate_criterion(rule, << >>)
      ELSE IF FailsIn(converted) THEN Failed
      ELSE evaluate_criterion(rule, list_wrapper(converted))

=============================================================================
