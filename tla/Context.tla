------------------------------ MODULE Context -------------------------------
(***************************************************************************)
(* The evaluation context (confidence-resolver/src): the merge of a        *)
(* client's managed context into that of a request (managed_context.rs),   *)
(* reading an attribute and the targeting key (lib.rs), the schema derived *)
(* for the log (schema_util.rs), and the value a resolve answers with,     *)
(* filled up to the flag's schema (lib.rs).                                *)
(*                                                                         *)
(* A struct is [k |-> "struct", fields], fields a function of names; other *)
(* values are those of Criteria.  A path is a sequence of names.           *)
(***************************************************************************)
EXTENDS Criteria, FiniteSets, SequencesExt

CONSTANTS
  CountryNames, \* field names that contain "country"
  MAX_KEY       \* the longest targeting key, 100 in the code

StructOf(fields) == [k |-> "struct", fields |-> fields]
NoFields         == [x \in {} |-> Null]
IsStruct(v)      == v.k = "struct"
Insert(f, name, v) == [x \in DOMAIN f \cup {name} |-> IF x = name THEN v ELSE f[x]]

-----------------------------------------------------------------------------
RECURSIVE set_nested(_, _, _)
\* A value on the way that is no struct gives way to one.
set_nested(fields, path, v) ==
  LET name   == Head(path)
      nested == IF name \in DOMAIN fields /\ IsStruct(fields[name]) THEN fields[name].fields ELSE NoFields
  IN  Insert(fields, name, IF Len(path) = 1 THEN v ELSE StructOf(set_nested(nested, Tail(path), v)))

\* flat is a sequence of [path, value], in the order of the paths' strings.
unflatten(flat) == StructOf(FoldLeft(LAMBDA f, e : set_nested(f, e.path, e.value), NoFields, flat))

RECURSIVE merge_structs(_, _)

\* Mutant: a struct of the managed context replaces one of the request.
merge_structs_Shallow(managed, request) ==
  StructOf([x \in DOMAIN managed.fields \cup DOMAIN request.fields |->
              IF x \in DOMAIN managed.fields THEN managed.fields[x] ELSE request.fields[x]])

merge_structs(managed, request) ==
  LET m == managed.fields
      r == request.fields
  IN  StructOf([x \in DOMAIN m \cup DOMAIN r |->
                  IF x \notin DOMAIN m THEN r[x]
                  ELSE IF x \in DOMAIN r /\ IsStruct(m[x]) /\ IsStruct(r[x]) THEN merge_structs(m[x], r[x])
                  ELSE m[x]])

merge(managed, request) == IF managed = << >> THEN request ELSE merge_structs(unflatten(managed), request)

RECURSIVE get_attribute_value(_, _)
get_attribute_value(s, path) ==
  LET name == Head(path)
  IN  IF name \notin DOMAIN s.fields THEN Null
      ELSE IF Len(path) = 1 THEN s.fields[name]
      ELSE IF IsStruct(s.fields[name]) THEN get_attribute_value(s.fields[name], Tail(path))
      ELSE Null

IsWhole(v) == is_finite(v) /\ v.n % UNIT = 0

\* The unit: << >> for none, or Failed.  A number has to be finite and whole;
\* len is the length of a string.
get_targeting_key(s, path) ==
  LET v == get_attribute_value(s, path)
      unit == IF v.k = "number" THEN NumText(v.n) ELSE v.s
  IN  IF v.k \in {"null", "none"} THEN << >>
      ELSE IF v.k \notin {"string", "number"} \/ (v.k = "number" /\ ~IsWhole(v)) THEN <<Failed>>
      ELSE IF StringFacts[unit].len > MAX_KEY THEN <<Failed>>
      ELSE <<unit>>

-----------------------------------------------------------------------------
\* Schema entries are [path, kind, semantic]; "none" stands for a value
\* without a kind.
is_valid_country_code(s) == StringFacts[s].sem = "country"
is_date(s)               == StringFacts[s].sem = "date"
is_timestamp(s)          == StringFacts[s].sem = "timestamp"
is_semantic_version(s)   == StringFacts[s].sem = "version"

\* The name decides for a country: no other meaning is tried then.
guess_semantic_type(s, path) ==
  IF \E i \in DOMAIN path : path[i] \in CountryNames
  THEN IF is_valid_country_code(s) THEN "country" ELSE ""
  ELSE IF is_date(s) THEN "date" ELSE IF is_timestamp(s) THEN "timestamp"
  ELSE IF is_semantic_version(s) THEN "version" ELSE ""

RECURSIVE add_field_schema(_, _)

\* Mutant: the kinds of a list's elements are not compared.
add_field_schema_First(v, path) ==
  LET w == IF v.k = "list" THEN (IF v.items = << >> THEN Null ELSE v.items[1]) ELSE v
  IN  IF w.k \in {"string", "bool", "number", "null"}
      THEN {[path |-> path, kind |-> w.k, semantic |-> IF w.k = "string" THEN guess_semantic_type(w.s, path) ELSE ""]}
      ELSE {}

\* A list has the schema of its first element if its elements are of one
\* kind, those without kind aside.
add_field_schema(v, path) ==
  CASE v.k \in {"string", "bool", "number", "null"} ->
         {[path |-> path, kind |-> v.k, semantic |-> IF v.k = "string" THEN guess_semantic_type(v.s, path) ELSE ""]}
    [] v.k = "list" ->
         IF Cardinality({w.k : w \in Items(v)} \ {"none"}) = 1 THEN add_field_schema(v.items[1], path) ELSE {}
    [] OTHER -> {}

RECURSIVE flattened_schema(_, _)
flattened_schema(s, path) ==
  UNION {IF IsStruct(s.fields[x]) THEN flattened_schema(s.fields[x], Append(path, x))
         ELSE add_field_schema(s.fields[x], Append(path, x)) : x \in DOMAIN s.fields}

get_schema(s) == flattened_schema(s, << >>)

-----------------------------------------------------------------------------
(***************************************************************************)
(* A flag schema is a function of field names: "leaf", or the schema of a  *)
(* struct as [fields].                                                     *)
(***************************************************************************)
RECURSIVE fill_schema_nulls(_, _)

\* Mutant: only the fields at the top are filled in.
fill_schema_nulls_Top(v, schema) ==
  StructOf([x \in DOMAIN v.fields \cup DOMAIN schema |-> IF x \in DOMAIN v.fields THEN v.fields[x] ELSE Null])

fill_schema_nulls(v, schema) ==
  StructOf([x \in DOMAIN v.fields \cup DOMAIN schema |->
              IF x \notin DOMAIN v.fields THEN Null
              ELSE IF x \in DOMAIN schema /\ IsStruct(v.fields[x]) /\ schema[x] # << >>
              THEN fill_schema_nulls(v.fields[x], schema[x][1]) ELSE v.fields[x]])

\* A resolved flag: [variant, value, reason, should_apply], of an assigned value
\* [reason, rule, segment, variant, fell] and the flag's variants and schema.
\* A variant the flag does not have makes the resolve fail.
ResolvedFlag(a, variants, schema) ==
  LET known == {x \in variants : x.name = a.variant}
      base  == [reason |-> a.reason, should_apply |-> a.reason = "Match" \/ a.fell, variant |-> "", value |-> << >>]
  IN  IF a.rule = "" /\ a.segment = "" THEN <<base>>
      ELSE IF a.variant = "" THEN <<[base EXCEPT !.value = <<StructOf(NoFields)>>]>>
      ELSE IF known = {} THEN << >>
      ELSE <<[base EXCEPT !.variant = a.variant,
                          !.value = <<fill_schema_nulls((CHOOSE x \in known : TRUE).value, schema)>>]>>

=============================================================================
