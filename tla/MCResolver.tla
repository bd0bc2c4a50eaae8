----------------------------- MODULE MCResolver -----------------------------
(***************************************************************************)
(* Resolver for TLC: a flag with two rules of many shapes beside a plain   *)
(* one, a segment that is a materialization, one that excludes the unit,   *)
(* and stores with and without the records the rules look for.             *)
(***************************************************************************)
EXTENDS Resolver

Attribute(v) == [op |-> "attribute", val |-> v]
Materialized == [op |-> "materialized", mat |-> "m"]

MCRefs == {Attribute(T), Materialized}

Segs ==
  [s \in {"all", "mat", "out"} |->
     CASE s = "all" -> [expr |-> Attribute(T), bits |-> "all"]
       [] s = "mat" -> [expr |-> Materialized, bits |-> "none"]
       [] s = "out" -> [expr |-> Attribute(T), bits |-> "out"]]

Variant(v, hit) == [kind |-> "variant", variant |-> v, hit |-> hit]
Fall == [kind |-> "fallthrough", variant |-> Blank, hit |-> TRUE]
Default == [kind |-> "default", variant |-> Blank, hit |-> TRUE]

\* One variant for all, two by bucket, none for this bucket, fallthrough.
Rollouts == {<<Variant("v1", TRUE)>>, <<Variant("v1", FALSE), Variant("v2", TRUE)>>}
Splits   == Rollouts \cup {<<Variant("v1", FALSE)>>, <<Fall>>}

Sticky(ignore, must) == [read |-> "m2", write |-> "m2", ignore |-> ignore, must |-> must]
WriteOnly == [read |-> Blank, write |-> "m2", ignore |-> FALSE, must |-> FALSE]
Stickies  == {Sticky(TRUE, FALSE), Sticky(FALSE, FALSE), Sticky(FALSE, TRUE)}

Rule(name, on, seg, selector, assigns, mat) ==
  [name |-> name, on |-> on, seg |-> seg, selector |-> selector, assigns |-> assigns,
   full |-> assigns[1].hit, mat |-> mat]

Plain == [active |-> TRUE, variants |-> {"v1"},
          rules |-> <<Rule("g1", TRUE, "all", Blank, <<Default>>, NoSpec)>>]

Conf(r1, r2) ==
  [segs  |-> Segs, blooms |-> [m \in {} |-> {}],
   flags |-> [f \in {"f", "g"} |->
                IF f = "g" THEN Plain
                ELSE [active |-> TRUE, variants |-> {"v1", "v2"}, rules |-> <<r1, r2>>]]]

Rules(name, segs, splits, mats) ==
  {Rule(name, TRUE, s, Blank, a, m) : s \in segs, a \in splits, m \in mats}

\* Fallthrough with a write of its own is left to FallConfs.
MCConfs ==
  {Conf(r1, r2) :
     r1 \in {r \in Rules("r1", {"all", "mat", "out"}, Splits, Stickies \cup {NoSpec, WriteOnly}) :
               r.mat # WriteOnly \/ r.assigns # <<Fall>>},
     r2 \in Rules("r2", {"all", "mat"}, {<<Variant("v1", FALSE), Variant("v2", TRUE)>>, <<Default>>},
                  {NoSpec, Sticky(TRUE, FALSE)})}

\* An early rule that falls through and is to be remembered.
FallConfs ==
  {Conf(r1, r2) : r1 \in Rules("r1", {"all"}, {<<Fall>>}, {WriteOnly}),
                  r2 \in Rules("r2", {"all", "mat"}, Rollouts, {NoSpec, Sticky(TRUE, FALSE)})}

\* Two allocations of the same rules, one with a rule the other has not.
UpdateConfs ==
  {Conf(Rule("r1", TRUE, "mat", Blank, <<Variant("v1", TRUE)>>, NoSpec), r2) :
     r2 \in {Rule("r2", on, "all", Blank, a, Sticky(TRUE, FALSE)) :
               on \in BOOLEAN,
               a \in {<<Variant("v1", TRUE), Variant("v2", FALSE)>>,
                      <<Variant("v1", FALSE), Variant("v2", TRUE)>>}}}

AllConfs == MCConfs \cup UpdateConfs
Updates  == {p \in UpdateConfs \X UpdateConfs : p[1] # p[2]}
NoUpdates == {}

Context(blank, other) == [s \in {Blank, "other"} |-> IF s = Blank THEN blank ELSE other]
UnitKeys == {Context("u", "u"), Context(NoUnit, "u"), Context(Bad, "u")}

Rec(mat, rule, variant) == [unit |-> "u", mat |-> mat, rule |-> rule, variant |-> variant]
MCStores == {inc \cup r1 \cup r2 :
               inc \in {{}, {Rec("m", NoRule, Blank)}},
               r1 \in {{}, {Rec("m2", "r1", "v1")}, {Rec("m2", "r1", Blank)}},
               r2 \in {{}, {Rec("m2", "r2", "v1")}}}

=============================================================================
