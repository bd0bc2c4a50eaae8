--------------------------- MODULE ProviderValues ---------------------------
(***************************************************************************)
(* The data path of the Rust provider (openfeature-provider/rust/src): the *)
(* evaluation context it sends to the resolver, the typed value it reads   *)
(* out of a resolved flag and the resolve reason it counts (provider.rs),  *)
(* and the reads and writes of a materialization store (materialization.rs).*)
(*                                                                         *)
(* Numbers are those of Criteria, also the whole ones of kind "int".  A    *)
(* field of an OpenFeature context is a value of kind "bool", "int",       *)
(* "float", "string", "datetime" or "struct".                              *)
(***************************************************************************)
EXTENDS Context

TargetingKey == "targeting_key"

\* Fields that protobuf has no value for are left out.
context_field_to_proto(v) ==
  CASE v.k \in {"bool", "string"} -> <<v>>
    [] v.k = "int"                -> <<Number(v.n)>>
    [] v.k = "float"              -> <<TypedValue("number", v.n, v.s)>>
    [] OTHER                      -> << >>

\* Mutant: the targeting key is entered last.
convert_evaluation_context_KeyLast(ctx) ==
  LET sent == {x \in DOMAIN ctx.custom : context_field_to_proto(ctx.custom[x]) # << >>}
      custom == [x \in sent |-> context_field_to_proto(ctx.custom[x])[1]]
  IN  StructOf(IF ctx.key = << >> THEN custom ELSE Insert(custom, TargetingKey, Text(ctx.key[1])))

\* Custom fields are entered after the targeting key.
convert_evaluation_context(ctx) ==
  LET sent == {x \in DOMAIN ctx.custom : context_field_to_proto(ctx.custom[x]) # << >>}
  IN  StructOf([x \in sent \cup (IF ctx.key = << >> THEN {} ELSE {TargetingKey}) |->
                  IF x \in sent THEN context_field_to_proto(ctx.custom[x])[1] ELSE Text(ctx.key[1])])

-----------------------------------------------------------------------------
\* A flag key is the flag's name and the path of a field.
parse_flag_path(key) == [flag |-> Head(key), path |-> Tail(key)]

RECURSIVE Navigate(_, _)

\* The struct at the path; a value that is none is put into a struct.
Navigate(s, path) ==
  LET name == Head(path)
      last == Len(path) = 1
  IN  IF name \notin DOMAIN s.fields THEN << >>
      ELSE IF IsStruct(s.fields[name]) THEN IF last THEN <<s.fields[name]>> ELSE Navigate(s.fields[name], Tail(path))
      ELSE IF last THEN <<StructOf([x \in {name} |-> s.fields[name]])>> ELSE << >>

navigate_path(value, path) == IF value = << >> \/ path = << >> THEN value ELSE Navigate(value[1], path)

\* The end of resolve_flag: flags is << >> or has the resolved flag, with the
\* reason of the resolver.
Reason(reason) ==
  CASE reason = "Match"          -> "TargetingMatch"
    [] reason = "NoSegmentMatch" -> "Default"
    [] reason = "FlagArchived"   -> "Disabled"
    [] reason \in {"TargetingKeyError", "Error", "UnrecognizedTargetingRule"} -> "Error"
    [] OTHER -> "Unknown"

ResolveResult(flags, path) ==
  IF flags = << >> THEN [value |-> << >>, variant |-> "", reason |-> "Error", resolve_reason |-> "FlagNotFound"]
  ELSE IF flags[1].variant = ""
  THEN [value |-> << >>, variant |-> "", reason |-> Reason(flags[1].reason), resolve_reason |-> flags[1].reason]
  ELSE [value |-> navigate_path(flags[1].value, path), variant |-> flags[1].variant,
        reason |-> "TargetingMatch", resolve_reason |-> flags[1].reason]

RECURSIVE proto_value_to_openfeature(_)
\* Nulls are left out of structs and lists; << >> for a value that is one.
proto_value_to_openfeature(v) ==
  CASE v.k \in {"bool", "number", "string"} -> <<v>>
    [] v.k = "list"   -> <<List(FoldLeft(LAMBDA s, w : s \o proto_value_to_openfeature(w), << >>, v.items))>>
    [] v.k = "struct" -> <<StructOf([x \in {x \in DOMAIN v.fields : proto_value_to_openfeature(v.fields[x]) # << >>} |->
                                       proto_value_to_openfeature(v.fields[x])[1]])>>
    [] OTHER          -> << >>

\* The first field of a struct is an arbitrary one: these are the candidates.
First(value) == IF value = << >> THEN {} ELSE {value[1].fields[x] : x \in DOMAIN value[1].fields}

\* What a getter of kind "bool", "int", "float" or "string" takes from a value.
extract(kind, v) ==
  CASE kind \in {"bool", "string"} /\ v.k = kind -> <<v>>
    [] kind = "float" /\ v.k = "number"          -> <<v>>
    [] kind = "int" /\ v.k = "number"            -> <<Number(Truncated(v.n) * UNIT)>>
    [] OTHER                                     -> << >>

Answer(out, value, counted) == [out |-> out, value |-> value, counted |-> counted]

\* Mutant: a null is a value of the wrong type.
GetFrom_NullMismatch(kind, v, r) ==
  IF extract(kind, v) = << >> THEN Answer("TypeMismatch", << >>, "TypeMismatch")
  ELSE Answer("ok", extract(kind, v), r.resolve_reason)

GetFrom(kind, v, r) ==
  IF v.k \in {"null", "none"} THEN Answer("null", << >>, r.resolve_reason)
  ELSE IF extract(kind, v) = << >> THEN Answer("TypeMismatch", << >>, "TypeMismatch")
  ELSE Answer("ok", extract(kind, v), r.resolve_reason)

\* The answers a getter may give to a result, with the reason it counts.
resolve_value(kind, r) ==
  IF r.variant = "" THEN {Answer("no variant", << >>, r.resolve_reason)}
  ELSE IF kind = "struct"
  THEN {Answer("ok", IF r.value = << >> THEN <<StructOf(NoFields)>> ELSE proto_value_to_openfeature(r.value[1]),
               r.resolve_reason)}
  ELSE IF First(r.value) = {} THEN {Answer("null", << >>, r.resolve_reason)}
  ELSE {GetFrom(kind, v, r) : v \in First(r.value)}

-----------------------------------------------------------------------------
(***************************************************************************)
(* Materialization records are [unit, mat, rule, variant], rule and        *)
(* variant "" where there is none.  The remote store answers the reads in  *)
(* order; it holds records and answers a read of a variant it does not     *)
(* have with "".                                                           *)
(***************************************************************************)
materialization_records_to_read_ops(records) ==
  [i \in DOMAIN records |->
     [op |-> IF records[i].rule # "" THEN "variant" ELSE "inclusion",
      unit |-> records[i].unit, mat |-> records[i].mat, rule |-> records[i].rule]]

\* External: the remote store.
StoreAnswer(store, op) ==
  IF op.op = "variant"
  THEN LET hits == {r \in store : r.unit = op.unit /\ r.mat = op.mat /\ r.rule = op.rule}
       IN  [op EXCEPT !.op = "variant"] @@ [variant |-> IF hits = {} THEN "" ELSE (CHOOSE r \in hits : TRUE).variant]
  ELSE op @@ [included |-> \E r \in store : r.unit = op.unit /\ r.mat = op.mat]

\* An answer without a variant has None, an answer of no kind is left out.
read_results_from_remote_proto(answers) == SelectSeq(answers, LAMBDA a : a.op # "none")

\* Mutant: an inclusion is taken for a yes.
Recorded_Always(a) == a.op = "inclusion" \/ a.variant # ""

\* Absence means not included.
Recorded(a) == IF a.op = "inclusion" THEN a.included ELSE a.variant # ""

read_results_to_materialization_records(results) ==
  LET kept == SelectSeq(results, Recorded)
  IN  [i \in DOMAIN kept |->
         [unit |-> kept[i].unit, mat |-> kept[i].mat, rule |-> kept[i].rule,
          variant |-> IF kept[i].op = "variant" THEN kept[i].variant ELSE ""]]

read_materializations(store, records) ==
  LET ops == materialization_records_to_read_ops(records)
  IN  read_results_to_materialization_records(
        read_results_from_remote_proto([i \in DOMAIN ops |-> StoreAnswer(store, ops[i])]))

\* A write replaces what the store has for the unit and the rule.
write_materializations(store, records) ==
  {r \in store : \A i \in DOMAIN records :
     ~(r.unit = records[i].unit /\ r.mat = records[i].mat /\ r.rule = records[i].rule)}
  \cup {records[i] : i \in DOMAIN records}

=============================================================================
