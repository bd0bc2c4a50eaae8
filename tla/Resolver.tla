------------------------------ MODULE Resolver ------------------------------
(***************************************************************************)
(* Resolving flags (confidence-resolver/src/lib.rs): the rules of a flag   *)
(* are tried in order, rules may look up and write materializations, and a *)
(* resolve that lacks materializations suspends with what it has done so   *)
(* far, to be resumed with the records its caller has read from the store. *)
(*                                                                         *)
(* Between the two halves of a resolve the store is read one key at a      *)
(* time, and the resolver state may be replaced (set_resolver_state): the  *)
(* guest resumes with whatever state it then has.                          *)
(*                                                                         *)
(* A rule is [name, on, seg, selector, assigns, full, mat].  `on` says     *)
(* that it is enabled, in the client's environment, and its segment is     *)
(* known.  An assignment is [kind, variant, hit]: hit says that the unit's *)
(* bucket falls into its ranges, full that the one assignment covers all   *)
(* buckets.  mat is the materialization spec [read, write, ignore, must]   *)
(* or NoSpec.  A flag is [active, rules, variants]; a rule without an       *)
(* assignment spec has no assigns.                                         *)
(***************************************************************************)
EXTENDS Targeting, SequencesExt

CONSTANTS
  Confs,       \* resolver states: [flags, segs, blooms]
  Revisions,   \* pairs of states: a state and one that may replace it
  Keys,        \* evaluation contexts: what each targeting key selector yields
  Stores,      \* contents of the materialization store
  MAX_FLAGS,   \* MAX_NO_OF_FLAGS_TO_BATCH_RESOLVE
  MaxUpdates,  \* bound: state updates in one behaviour
  MaxResolves  \* bound: resolves in one behaviour

ASSUME ResolverAssumption ==
  /\ Revisions \subseteq Confs \X Confs
  /\ MAX_FLAGS \in Nat /\ MaxUpdates \in Nat /\ MaxResolves \in Nat

Blank  == ""          \* no targeting_key_selector, no read_materialization
Bad    == "bad key"   \* get_targeting_key fails
NoSpec == [read |-> Blank, write |-> "no spec", ignore |-> FALSE, must |-> FALSE]

\* Rules and variants have resource names of their own; an assignment of no
\* variant names none; a store has one record per unit, materialization
\* and rule.
ASSUME StatesAssumption ==
  /\ \A c \in Confs :
       /\ IsFiniteSet(DOMAIN c.segs) /\ IsFiniteSet(DOMAIN c.flags)
       /\ \A s \in DOMAIN c.segs :
            c.segs[s].expr \in Exprs /\ c.segs[s].bits \in {"none", "all", "in", "out"}
       /\ \A f \in DOMAIN c.flags :
            LET rules == c.flags[f].rules
            IN  /\ Blank \notin c.flags[f].variants
                /\ Len(rules) \in Nat /\ DOMAIN rules = 1 .. Len(rules)
                /\ \A i \in DOMAIN rules :
                     /\ rules[i].name # NoRule
                     /\ \A g \in DOMAIN c.flags : \A j \in DOMAIN c.flags[g].rules :
                          rules[i].name = c.flags[g].rules[j].name => f = g /\ i = j
                     /\ rules[i].on => rules[i].seg \in DOMAIN c.segs
                     /\ Len(rules[i].assigns) \in Nat
                     /\ DOMAIN rules[i].assigns = 1 .. Len(rules[i].assigns)
                     /\ \A k \in DOMAIN rules[i].assigns :
                          \/ rules[i].assigns[k].kind = "variant"
                          \/ /\ rules[i].assigns[k].kind \in {"none", "fallthrough", "default"}
                             /\ rules[i].assigns[k].variant = Blank
  /\ \A s \in Stores : \A r1, r2 \in s :
       r1.unit = r2.unit /\ r1.mat = r2.mat /\ r1.rule = r2.rule => r1 = r2

VARIABLES
  conf,      \* RESOLVER_STATE
  keys,      \* the evaluation context
  store,     \* the materialization store
  pc,        \* "idle", "suspended", "answered" or "failed"
  resolved,  \* state.resolved_flags: what each resolved flag was assigned
  writes,    \* materializations_to_write
  to_read,   \* materializations_to_read
  got,       \* the records read for to_read so far
  left,      \* the keys of to_read not read yet
  disturbed, \* history: a read failed, or the state was replaced between the halves
  looked,    \* history: what the resumed half looked up
  began,     \* history: mode, state and store the resolve began with
  updates, resolves \* bounds

vars == <<conf, keys, store, pc, resolved, writes, to_read, got, left, disturbed, looked,
          began, updates, resolves>>

-----------------------------------------------------------------------------
(* Resolving one flag.  The accumulator of the loop over its rules:        *)
Going == [kind |-> "going"]
Fail(e) == [kind |-> "error", error |-> e]
Answer(reason, rule, variant) ==
  [kind |-> "answer", reason |-> reason, rule |-> rule, variant |-> variant]

Start(written) ==
  [end |-> Going, missing |-> FALSE, asked |-> {}, writes |-> written, fall |-> <<>>]

Stop(acc, end) == [acc EXCEPT !.end = end]
Asking(acc, out) == [acc EXCEPT !.asked = @ \cup out.asked]

\* has_only_one_full_variant
Full(rule) == Len(rule.assigns) = 1 /\ rule.full

NoAssignment == [kind |-> "none", variant |-> Blank, hit |-> FALSE]

FirstAt(assigns, is) == IF is = {} THEN NoAssignment ELSE assigns[Min(is)]

Hits(assigns) == {i \in DOMAIN assigns : assigns[i].hit}

\* The assignment of the unit's bucket, if it has one.
MatchedAssignment(rule, unit) ==
  IF Full(rule) THEN rule.assigns[1]
  ELSE IF unit = NoUnit THEN NoAssignment ELSE FirstAt(rule.assigns, Hits(rule.assigns))

\* Mutant: the stored variant is not looked at.
SelectAssignment_ByBucket(rule, record) == FirstAt(rule.assigns, Hits(rule.assigns))

\* select_assignment: the assignment of the variant that was stored.
SelectAssignment(rule, record) ==
  LET matching == {i \in DOMAIN rule.assigns :
                     /\ rule.assigns[i].kind = "variant" /\ record.variant # Blank
                     /\ rule.assigns[i].variant = record.variant}
  IN  FirstAt(rule.assigns, IF Cardinality(matching) <= 1 THEN matching
                            ELSE matching \cap Hits(rule.assigns))

\* add_to_write
AddToWrite(env, acc, rule, variant) ==
  LET same(w) == w.unit = env.unit /\ w.mat = rule.mat.write /\ w.rule = rule.name
  IN  IF env.unit = NoUnit \/ rule.mat = NoSpec THEN acc
      ELSE IF env.ctx.mode = "unsupported" THEN Stop(acc, Fail(Unsupported))
      ELSE IF \E w \in acc.writes : same(w) THEN Stop(acc, Fail("internal"))
      ELSE [acc EXCEPT !.writes = @ \cup {[unit |-> env.unit, mat |-> rule.mat.write,
                                           rule |-> rule.name, variant |-> variant]}]

VariantMatch(flag, acc, rule, variant) ==
  Stop(acc, IF variant \in flag.variants THEN Answer("match", rule.name, variant)
                                         ELSE Fail("internal"))

\* Credit the rule for assignment a, once its write is accepted.
Credit(flag, acc, rule, a) ==
  CASE acc.end # Going          -> acc
    [] acc.end = Going /\ a.kind = "fallthrough" -> [acc EXCEPT !.fall = Append(@, rule.name)]
    [] acc.end = Going /\ a.kind = "default"     -> Stop(acc, Answer("match", rule.name, Blank))
    [] acc.end = Going /\ a.kind = "variant"     -> VariantMatch(flag, acc, rule, a.variant)

\* The segment matches: write what is to be remembered and credit the rule.
Assign(env, flag, acc, rule, a) ==
  IF a.kind = "none" THEN acc
  ELSE Credit(flag,
              AddToWrite(env, acc, rule, IF a.kind = "variant" THEN a.variant ELSE Blank),
              rule, a)

\* Mutant: a rule that matches is taken although an earlier one is undecided.
Conclude_IgnoresMissing(env, flag, acc, rule, val) ==
  CASE val = Unsupported -> Stop(acc, Fail(Unsupported))
    [] val \in {F, Unrecognized} -> acc
    [] val = U -> [acc EXCEPT !.missing = TRUE]
    [] val = T -> Assign(env, flag, acc, rule, MatchedAssignment(rule, env.unit))

\* What follows from the segment's value: undecided rules leave the flag
\* undecided, whatever later rules say.
Conclude(env, flag, acc, rule, val) ==
  CASE val = Unsupported -> Stop(acc, Fail(Unsupported))
    [] val \in {F, Unrecognized} -> acc
    [] val = U -> [acc EXCEPT !.missing = TRUE]
    [] val = T -> IF acc.missing THEN acc ELSE Assign(env, flag, acc, rule, MatchedAssignment(rule, env.unit))

ConcludeWith(env, flag, acc, rule, out) == Conclude(env, flag, Asking(acc, out), rule, out.val)

BySegment(env, flag, acc, rule) ==
  ConcludeWith(env, flag, acc, rule, SegmentMatch(env, {}, rule.seg))

\* The record of the rule was found and its targeting gave val; a is the
\* assignment of the stored variant.
ByRecord(env, flag, acc, rule, val, a) ==
  CASE val \in {F, U}             -> BySegment(env, flag, acc, rule)
    [] val = T /\ a.kind # "none" -> VariantMatch(flag, acc, rule, a.variant)
    [] val \in Errors \/ (val = T /\ a.kind = "none") -> Conclude(env, flag, acc, rule, val)

\* The segment's targeting, without its bitset, decides whether a record
\* still counts.
BySticky(env, flag, acc, rule, record, out) ==
  ByRecord(env, flag, Asking(acc, out), rule, out.val, SelectAssignment(rule, record))

\* Mutant: an undecided rule is left without looking at its segment.
Looked_SkipsSegment(env, flag, acc, rule, found, val) ==
  CASE val = Unsupported -> Stop(acc, Fail(Unsupported))
    [] val = U -> [acc EXCEPT !.missing = TRUE]
    [] val = F -> IF rule.mat.must THEN acc ELSE BySegment(env, flag, acc, rule)
    [] val = T -> BySticky(env, flag, acc, rule, CHOOSE r \in found : TRUE,
                           IF rule.mat.ignore THEN Value(T) ELSE TargetingMatch(env, {}, rule.seg))

\* What a lookup that found these records says of a rule.
Looked(env, flag, acc, rule, found, val) ==
  CASE val = Unsupported -> Stop(acc, Fail(Unsupported))
    [] val = T -> BySticky(env, flag, acc, rule, CHOOSE r \in found : TRUE,
                           IF rule.mat.ignore THEN Value(T) ELSE TargetingMatch(env, {}, rule.seg))
    [] val = F /\ rule.mat.must -> acc
    [] val = U \/ (val = F /\ ~rule.mat.must) ->
         BySegment(env, flag, [acc EXCEPT !.missing = @ \/ val = U], rule)

RecordsOf(env, rule) ==
  {r \in env.ctx.records : r.unit = env.unit /\ r.mat = rule.mat.read /\ r.rule = rule.name}

\* A rule with a read_materialization (has_rule_materialization).
ByMaterialization(env, flag, acc, rule) ==
  Looked(env, flag, [acc EXCEPT !.asked = @ \cup {Key(env.unit, rule.mat.read, rule.name)}], rule,
         RecordsOf(env, rule), Lookup(env.ctx, RecordsOf(env, rule) # {}))

\* One turn of the loop in resolve_flag_internal.
TryRule(base, flag, acc, rule) ==
  LET key    == base.keys[rule.selector]
      badKey == key = Bad /\ ~(rule.selector = Blank /\ Full(rule))
      env    == [segs |-> base.segs, blooms |-> base.blooms, ctx |-> base.ctx,
                 unit |-> IF key = Bad THEN NoUnit ELSE key]
      reads  == rule.mat # NoSpec /\ rule.mat.read # Blank
  IN  CASE acc.end # Going \/ ~rule.on -> acc
        [] acc.end = Going /\ rule.on /\ badKey -> Stop(acc, Answer("key error", NoRule, Blank))
        [] acc.end = Going /\ rule.on /\ ~badKey ->
             IF \/ env.unit = NoUnit /\ rule.selector # Blank
                \/ rule.assigns = <<>>
                \/ reads /\ env.unit = NoUnit
             THEN acc
             ELSE IF reads THEN ByMaterialization(env, flag, acc, rule)
                           ELSE BySegment(env, flag, acc, rule)

\* The end of a flag's rules.
Ended(acc) ==
  CASE acc.end = Fail(Unsupported) ->
         [acc EXCEPT !.end = Answer("unsupported", NoRule, Blank), !.fall = <<>>]
    [] acc.end = Going /\ acc.missing  -> Stop(acc, Fail("missing"))
    [] acc.end = Going /\ ~acc.missing -> Stop(acc, Answer("no match", NoRule, Blank))
    [] acc.end \notin {Going, Fail(Unsupported)} -> acc

\* resolve_flag
ResolveFlag(base, flag, written) ==
  LET tried[i \in 0 .. Len(flag.rules)] ==
        IF i = 0 THEN Start(written) ELSE TryRule(base, flag, tried[i - 1], flag.rules[i])
  IN  Ended(tried[Len(flag.rules)])

-----------------------------------------------------------------------------
Base(c, mode, records) ==
  [segs |-> c.segs, blooms |-> c.blooms, keys |-> keys, ctx |-> [mode |-> mode, records |-> records]]

Result(out) == [end |-> out.end, fall |-> out.fall]

(***************************************************************************)
(* resolve_flags: flags are resolved in no particular order, and share     *)
(* only the lists of keys to read and records to write, whose entries name *)
(* the rule.  An error other than missing materializations fails the whole *)
(* request.                                                                *)
(***************************************************************************)
Active(c) == {f \in DOMAIN c.flags : c.flags[f].active}

\* Flags resolved earlier whose variant the state no longer has.
Gone(c, done) ==
  {f \in DOMAIN done : \/ f \notin DOMAIN c.flags
                       \/ done[f].end.variant \notin c.flags[f].variants \cup {Blank}}

Gathered(c, mode, done, written, out, open, asked) ==
  [pc       |-> IF \/ Cardinality(DOMAIN out) > MAX_FLAGS
                   \/ \E f \in DOMAIN out \ open : out[f].end.kind = "error" THEN "failed"
                ELSE IF mode = "discovery" /\ asked # {} THEN "suspended"
                ELSE IF Gone(c, done) # {} THEN "failed" ELSE "answered",
   resolved |-> [f \in (DOMAIN out \ open) \cup DOMAIN done |->
                   IF f \in DOMAIN done THEN done[f] ELSE Result(out[f])],
   writes   |-> written \cup UNION {out[f].writes : f \in DOMAIN out},
   to_read  |-> IF mode = "discovery" THEN asked ELSE {},
   asked    |-> asked]

Gather(c, mode, done, written, out) ==
  Gathered(c, mode, done, written, out,
           {f \in DOMAIN out : out[f].end = Fail("missing")},
           UNION {out[f].asked : f \in DOMAIN out})

ResolveFlags(c, mode, records, done, written) ==
  Gather(c, mode, done, written,
         [f \in Active(c) \ DOMAIN done |->
            ResolveFlag(Base(c, mode, records), c.flags[f], written)])

\* What the caller sees of it.
Becomes(out) ==
  /\ pc' = out.pc
  /\ resolved' = out.resolved /\ writes' = out.writes
  /\ to_read' = out.to_read /\ left' = out.to_read

Init ==
  /\ conf \in Confs /\ keys \in Keys /\ store \in Stores
  /\ pc = "idle"
  /\ resolved = << >> /\ writes = {} /\ to_read = {} /\ left = {} /\ got = {}
  /\ disturbed = FALSE /\ looked = {}
  /\ began = [mode |-> "none", conf |-> conf, store |-> store, updates |-> 0]
  /\ updates = 0 /\ resolves = 0

Begin(mode, records) ==
  /\ pc = "idle" /\ resolves < MaxResolves
  /\ Becomes(ResolveFlags(conf, mode, records, << >>, {}))
  /\ began' = [mode |-> mode, conf |-> conf, store |-> store, updates |-> updates]
  /\ got' = {} /\ disturbed' = FALSE /\ looked' = {}
  /\ resolves' = resolves + 1
  /\ UNCHANGED <<conf, keys, store, updates>>

\* The caller has a store to read later, has the records at hand, or has none.
ResolveDeferred == Begin("discovery", {})
ResolveStatic   == Begin("complete", store)
ResolveWithout  == Begin("unsupported", {})

\* What the store says of a key: for a rule its record, for a segment
\* whether it has any record of the unit.
Stored(k) ==
  IF k.rule = NoRule
  THEN {[unit |-> k.unit, mat |-> k.mat, rule |-> NoRule, variant |-> Blank] :
          r \in {s \in store : s.unit = k.unit /\ s.mat = k.mat}}
  ELSE {r \in store : r.unit = k.unit /\ r.mat = k.mat /\ r.rule = k.rule}

\* read_materializations: the keys are read independently, and a read that
\* fails counts as no record.
Read(k) ==
  /\ pc = "suspended" /\ k \in left
  /\ left' = left \ {k}
  /\ \/ got' = got \cup Stored(k) /\ UNCHANGED disturbed
     \/ disturbed' = TRUE /\ UNCHANGED got
  /\ UNCHANGED <<conf, keys, store, pc, resolved, writes, to_read, looked, began, updates, resolves>>

Resume ==
  /\ pc = "suspended" /\ left = {}
  /\ \E out \in {ResolveFlags(conf, "complete", got, resolved, writes)} :
       Becomes(out) /\ looked' = out.asked
  /\ UNCHANGED <<conf, keys, store, got, disturbed, began, updates, resolves>>

\* write_materializations, record by record; a write that fails is dropped.
Write(w) ==
  /\ pc = "answered" /\ w \in writes
  /\ writes' = writes \ {w}
  /\ \/ store' = {r \in store : ~(r.unit = w.unit /\ r.mat = w.mat /\ r.rule = w.rule)} \cup {w}
     \/ UNCHANGED store
  /\ UNCHANGED <<conf, keys, pc, resolved, to_read, got, left, disturbed, looked, began, updates, resolves>>

\* The caller has its answer or its error.
Done ==
  /\ \/ pc = "failed"
     \/ pc = "answered" /\ writes = {}
  /\ pc' = "idle"
  /\ resolved' = << >> /\ writes' = {} /\ to_read' = {} /\ left' = {} /\ got' = {}
  /\ looked' = {}
  /\ UNCHANGED <<conf, keys, store, disturbed, began, updates, resolves>>

SetResolverState(c) ==
  /\ <<conf, c>> \in Revisions /\ updates < MaxUpdates
  /\ conf' = c /\ updates' = updates + 1
  /\ disturbed' = (disturbed \/ pc = "suspended")
  /\ UNCHANGED <<keys, store, pc, resolved, writes, to_read, got, left, looked, began, resolves>>

Next ==
  \/ ResolveDeferred \/ ResolveStatic \/ ResolveWithout
  \/ \E k \in left : Read(k)
  \/ Resume
  \/ \E w \in writes : Write(w)
  \/ Done
  \/ \E c \in Confs : SetResolverState(c)

Spec == Init /\ [][Next]_vars

-----------------------------------------------------------------------------
\* The same request resolved in one go, with the whole store at hand.
OneGo == ResolveFlags(began.conf, "complete", began.store, << >>, {})

(* Suspending and resuming changes nothing: a resumed resolve gives every  *)
(* flag the assignment, and writes the records, that one resolve with the  *)
(* whole store would have.                                                 *)
ResumeMatchesOneGo ==
  [][ Resume /\ ~disturbed =>
        \E one \in {OneGo} : pc' = one.pc /\ resolved' = one.resolved /\ writes' = one.writes ]_vars

(* The resumed half takes a record that was not read for one that does not *)
(* exist, so it looks up only what the first half asked for, provided both *)
(* have the same resolver state.                                           *)
ResumeIsComplete == [][ Resume /\ conf = began.conf => looked' \subseteq to_read ]_vars

\* The records the rules were given: what was read, or all there are.
Given == IF began.mode = "discovery" THEN got ELSE began.store

(* A unit keeps its variant: when a rule with a read materialization is    *)
(* given a record of a variant it still offers, and its targeting is to be *)
(* ignored, the rule can only answer with that variant, however the        *)
(* buckets have been reallocated since, and whichever other reads failed.  *)
StickyKept ==
  pc = "answered" /\ began.mode # "unsupported" /\ updates = began.updates =>
    \A f \in DOMAIN resolved : \A i \in DOMAIN began.conf.flags[f].rules :
      LET rule == began.conf.flags[f].rules[i]
      IN  resolved[f].end.rule = rule.name /\ rule.mat # NoSpec =>
            \A r \in Given :
              /\ rule.mat.ignore /\ rule.mat.read # Blank
              /\ r.unit = keys[rule.selector] /\ r.mat = rule.mat.read /\ r.rule = rule.name
              /\ Cardinality({j \in DOMAIN rule.assigns : rule.assigns[j].variant = r.variant}) = 1
              /\ r.variant \in began.conf.flags[f].variants
              => resolved[f].end.variant = r.variant

(* lib.rs, add_to_write: the check that fails a resolve is there because   *)
(* it "cannot write multiple variants to the same rule".  So a resumed     *)
(* resolve fails only if it would have failed in one go.                   *)
ResumeFailsOnlyLikeOneGo ==
  [][ Resume /\ ~disturbed /\ pc' = "failed" => OneGo.pc = "failed" ]_vars

=============================================================================
