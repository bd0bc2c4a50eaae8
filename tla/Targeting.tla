----------------------------- MODULE Targeting ------------------------------
(***************************************************************************)
(* Segment matching in the resolver core (confidence-resolver/src/lib.rs): *)
(* three-valued evaluation of targeting expressions, in which looking up a *)
(* materialization may be impossible for now (Unknown), references between *)
(* segments, and the bitset of the units allocated to a segment.           *)
(*                                                                         *)
(* An evaluation yields a value and `asked`, the materializations it       *)
(* looked up.  Attribute criteria read only the evaluation context, so     *)
(* they are constants here: TRUE, FALSE, or a rule this version of the     *)
(* resolver does not recognise.                                            *)
(***************************************************************************)
EXTENDS Integers, Sequences, FiniteSets, FiniteSetsExt

CONSTANTS
  Refs,     \* the criteria that expressions refer to
  MaxDepth  \* bound: how deeply operators are nested

\* Tribool: Some(true), Some(false), None.
T == "true"
F == "false"
U == "unknown"

\* ResolveError::UnrecognizedRule, ResolveError::MaterializationsUnsupported
Unrecognized == "unrecognized"
Unsupported  == "unsupported"
Errors       == {Unrecognized, Unsupported}

ASSUME TargetingAssumption ==
  /\ MaxDepth \in Nat
  /\ \A e \in Refs : \/ e.op \in {"segment", "materialized"}
                     \/ e.op = "attribute" /\ e.val \in {T, F, Unrecognized}

NoUnit == "no unit"
NoRule == "no rule"

Negate(v) == IF v = T THEN F ELSE IF v = F THEN T ELSE v

(***************************************************************************)
(* A segment is [expr, bits].  Its bitset is absent ("none"), full         *)
(* ("all"), or partial with the unit's bit set ("in") or not ("out").      *)
(* An expression is [op |-> "not" | "and" | "or", args |-> <<...>>] or a   *)
(* criterion: [op |-> "attribute", val], [op |-> "segment", seg] or        *)
(* [op |-> "materialized", mat].                                           *)
(* The environment env of an evaluation holds the segments of the resolver *)
(* state, its bloom filters (the units each one says yes to; its segment   *)
(* needs no lookup), the unit and the materialization context: its mode    *)
(* "discovery", "unsupported" or "complete", and the records of a complete *)
(* one.                                                                    *)
(***************************************************************************)
Nested[n \in 0 .. MaxDepth] ==
  IF n = 0 THEN Refs
  ELSE Refs \cup [op : {"not"}, args : [1 .. 1 -> Nested[n - 1]]]
            \cup [op : {"and", "or"}, args : Seq(Nested[n - 1])]

Exprs == Nested[MaxDepth]

Key(unit, mat, rule) == [unit |-> unit, mat |-> mat, rule |-> rule]

Value(v) == [val |-> v, asked |-> {}]

\* What a lookup says that finds a record or does not (is_unit_in_materialization,
\* has_rule_materialization).
Lookup(ctx, found) ==
  IF ctx.mode = "discovery" THEN U
  ELSE IF ctx.mode = "unsupported" THEN Unsupported
  ELSE IF found THEN T ELSE F

Inclusion(ctx, unit, mat) ==
  [val   |-> Lookup(ctx, \E r \in ctx.records : r.unit = unit /\ r.mat = mat),
   asked |-> {Key(unit, mat, NoRule)}]

\* Mutant: an operand that is not yet known is decisive too.
FirstDecisive_Unknown(vals, decisive) ==
  LET stops == {i \in DOMAIN vals : vals[i] \in {decisive, U} \cup Errors}
  IN  IF stops = {} THEN Len(vals) ELSE Min(stops)

\* Operands are evaluated in order, up to one that decides or fails.
FirstDecisive(vals, decisive) ==
  LET stops == {i \in DOMAIN vals : vals[i] \in {decisive} \cup Errors}
  IN  IF stops = {} THEN Len(vals) ELSE Min(stops)

\* Mutant: a missing materialization replaces the ones recorded before it.
Combine_KeepsLast(outs, decisive) ==
  LET vals == [i \in DOMAIN outs |-> outs[i].val]
      last == FirstDecisive(vals, decisive)
  IN  [val   |-> IF last > 0 /\ vals[last] \in {decisive} \cup Errors THEN vals[last]
                 ELSE IF \E i \in 1 .. last : vals[i] = U THEN U
                 ELSE Negate(decisive),
       asked |-> UNION {outs[i].asked : i \in {last} \ {0}}]

\* evaluate_expression for And (decisive F) and Or (decisive T).
Combine(outs, decisive) ==
  LET vals == [i \in DOMAIN outs |-> outs[i].val]
      last == FirstDecisive(vals, decisive)
  IN  [val   |-> IF last > 0 /\ vals[last] \in {decisive} \cup Errors THEN vals[last]
                 ELSE IF \E i \in 1 .. last : vals[i] = U THEN U
                 ELSE Negate(decisive),
       asked |-> UNION {outs[i].asked : i \in 1 .. last}]

\* The bitset's verdict on the unit, or on the absence of one.
Allocated(bits, unit) ==
  IF unit = NoUnit THEN bits \in {"none", "all"} ELSE bits \in {"none", "all", "in"}

\* segment_match_internal, where out is what the segment's targeting gives: a
\* segment that is being matched already does not match.
Matched(env, visited, s, out) ==
  IF s \in visited THEN Value(F)
  ELSE IF out.val \in {T, U} /\ ~Allocated(env.segs[s].bits, env.unit)
  THEN [out EXCEPT !.val = F] ELSE out

MaterializedMatch(env, mat) ==
  IF env.unit = NoUnit THEN Value(F)
  ELSE IF mat \in DOMAIN env.blooms THEN Value(IF env.unit \in env.blooms[mat] THEN T ELSE F)
  ELSE Inclusion(env.ctx, env.unit, mat)

\* evaluate_expression and the criterion evaluator of targeting_match: the value
\* of an expression from those of its operands, or of the segment it refers to.
EvaluateOne(env, eval, passed, x) ==
  LET operands == [i \in DOMAIN x.args |-> eval[<<passed, x.args[i]>>]]
  IN CASE x.op = "attribute"    -> Value(x.val)
       [] x.op = "materialized" -> MaterializedMatch(env, x.mat)
       [] x.op = "segment"      -> IF x.seg \in DOMAIN env.segs
                                   THEN Matched(env, passed, x.seg,
                                                eval[<<passed \cup {x.seg}, env.segs[x.seg].expr>>])
                                   ELSE Value(F)
       [] x.op = "not"          -> [operands[1] EXCEPT !.val = Negate(@)]
       [] x.op = "and"          -> Combine(operands, F)
       [] x.op = "or"           -> Combine(operands, T)

\* The value of an expression inside the segments that are being matched.
Evaluate(env, visited, e) ==
  LET eval[c \in (SUBSET DOMAIN env.segs) \X Exprs] == EvaluateOne(env, eval, c[1], c[2])
  IN  eval[<<visited, e>>]

\* targeting_match
TargetingMatch(env, visited, s) == Evaluate(env, visited, env.segs[s].expr)

\* segment_match
SegmentMatch(env, visited, s) ==
  Matched(env, visited, s, TargetingMatch(env, visited \cup {s}, s))

=============================================================================
