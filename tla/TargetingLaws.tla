--------------------------- MODULE TargetingLaws ----------------------------
(***************************************************************************)
(* What segment matching has to satisfy, over every small pair of segments *)
(* and every content of the materialization included: s1 is matched, s2 is a  *)
(* segment it may refer to (and which may refer back).                     *)
(***************************************************************************)
EXTENDS Targeting

CONSTANTS
  Mats,        \* materialized segments
  Blooms,      \* of which those with a bloom filter, and the units it has
  RootExprs, LeafExprs, \* the expressions of s1 and of s2
  Bits         \* the bitsets of the segments

ASSUME SegmentsAssumption ==
  /\ \A e \in Refs : e.op = "attribute" => e.val \in {T, F}
  /\ [op |-> "segment", seg |-> "s1"] \in Refs
  /\ RootExprs \cup LeafExprs \subseteq Exprs
  /\ Bits \subseteq {"none", "all", "in", "out"}

VARIABLES segs, unit, included

targetingVars == <<segs, unit, included>>

TargetingInit ==
  /\ \E e1 \in RootExprs, e2 \in LeafExprs, b1, b2 \in Bits :
       segs = [s \in {"s1", "s2"} |-> IF s = "s1" THEN [expr |-> e1, bits |-> b1]
                                                  ELSE [expr |-> e2, bits |-> b2]]
  /\ unit \in {"u", NoUnit}
  /\ included = {}

\* Some other resolve, or a batch job, adds the unit to a materialization.
Include(m) ==
  /\ unit # NoUnit
  /\ included' = included \cup {[unit |-> unit, mat |-> m, rule |-> NoRule, variant |-> ""]}
  /\ UNCHANGED <<segs, unit>>

TargetingNext == \E m \in Mats : Include(m)

TargetingSpec == TargetingInit /\ [][TargetingNext]_targetingVars

-----------------------------------------------------------------------------
Env(mode, records) ==
  [segs |-> segs, blooms |-> Blooms, unit |-> unit, ctx |-> [mode |-> mode, records |-> records]]

Discovered == SegmentMatch(Env("discovery", {}), {}, "s1")
Settled(records) == SegmentMatch(Env("complete", records), {}, "s1")

KleeneOne(value, passed, x) ==
  LET args == {value[<<passed, x.args[i]>>] : i \in DOMAIN x.args}
  IN CASE x.op = "attribute"    -> x.val
       [] x.op = "materialized" -> IF unit = NoUnit THEN F
                                   ELSE IF x.mat \notin DOMAIN Blooms THEN U
                                   ELSE IF unit \in Blooms[x.mat] THEN T ELSE F
       [] x.op = "segment"      -> IF \/ x.seg \notin DOMAIN segs \/ x.seg \in passed
                                      \/ ~Allocated(segs[x.seg].bits, unit)
                                   THEN F ELSE value[<<passed \cup {x.seg}, segs[x.seg].expr>>]
       [] x.op = "not"          -> Negate(value[<<passed, x.args[1]>>])
       [] x.op = "and"          -> IF F \in args THEN F ELSE IF U \in args THEN U ELSE T
       [] x.op = "or"           -> IF T \in args THEN T ELSE IF U \in args THEN U ELSE F

\* The value of an expression in Kleene's strong logic, with no order of
\* evaluation and no short cuts, nothing known about materializations.
Kleene(visited, e) ==
  LET value[c \in (SUBSET DOMAIN segs) \X Exprs] == KleeneOne(value, c[1], c[2])
  IN  value[<<visited, e>>]

(* Short-circuit evaluation in operand order computes Kleene's value, for  *)
(* diamonds and cycles of segments too.                                    *)
MatchesKleene ==
  Discovered.val = Kleene({}, [op |-> "segment", seg |-> "s1"])

(* One round of discovery is enough: a value found without the store       *)
(* stands whatever the store holds, and otherwise matching with just the   *)
(* records discovery asked for gives what the whole store would give.      *)
DiscoverySound ==
  LET found == Discovered
      whole == Settled(included)
      known == Settled({r \in included : Key(r.unit, r.mat, NoRule) \in found.asked})
  IN  /\ found.val \in {T, F} => whole.val = found.val
      /\ known.val = whole.val
      /\ whole.val \in {T, F}
      /\ whole.asked \subseteq found.asked

(* Evaluating a segment gives its logical value, and one round of          *)
(* discovering the materializations it needs is enough.                    *)
TargetingSound == MatchesKleene /\ DiscoverySound

=============================================================================
