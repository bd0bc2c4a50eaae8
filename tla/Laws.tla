-------------------------------- MODULE Laws --------------------------------
(***************************************************************************)
(* What the functions on contexts, schemas, flag values and materializa-   *)
(* tions have to satisfy, over every small input, next to the laws of      *)
(* DataLaws.                                                               *)
(***************************************************************************)
EXTENDS ProviderValues, DataLaws

CONSTANTS
  Managed, Requests, FlagSchemas, Custom, \* contexts, flag schemas, OpenFeature contexts
  StoreRecords                            \* materializations

PickContext == Pick("context", Managed \X Requests)
PickUnit    == Pick("unit", Managed \X Custom)

FlagKinds   == {"bool", "int", "float", "string", "struct"}
Assigned4   == [reason : {"Match", "NoSegmentMatch"}, rule : {"", "r"}, segment : {""}, variant : {"", "v", "gone"}, fell : {FALSE}]
GetterPaths == {<< >>, <<"a">>, <<"b">>, <<"b", "c">>, <<"a", "c">>}
PickGetter  == Pick("getter", Assigned4 \X Requests \X FlagSchemas \X GetterPaths \X FlagKinds)

Contents  == SUBSET StoreRecords
PickStore == Pick("store", Contents \X Contents \X Contents)

LawsNext == DataNext \/ PickContext \/ PickUnit \/ PickGetter \/ PickStore

-----------------------------------------------------------------------------
RECURSIVE LeavesOf(_, _)
LeavesOf(s, path) ==
  UNION {IF IsStruct(s.fields[x]) THEN LeavesOf(s.fields[x], Append(path, x)) ELSE {Append(path, x)} : x \in DOMAIN s.fields}

Related(p, q) == IsPrefix(p, q) \/ IsPrefix(q, p)
ManagedPaths(m) == {m[i].path : i \in DOMAIN m}

(* Managed values win on their path, a value of the request stays wherever *)
(* no managed path lies above or below it, and nothing else is in the      *)
(* merged context (managed_context.rs); of two managed paths of which one  *)
(* continues the other the longer one wins.                                *)
ManagedWins ==
  input.law = "context" =>
    LET m == input.of[1]
        r == input.of[2]
        merged == merge(m, r)
    IN  /\ \A i \in DOMAIN m :
             (\A p \in ManagedPaths(m) : IsPrefix(m[i].path, p) => p = m[i].path)
               => get_attribute_value(merged, m[i].path) = m[i].value
        /\ \A p \in LeavesOf(r, << >>) :
             (\A q \in ManagedPaths(m) : ~Related(p, q)) => get_attribute_value(merged, p) = get_attribute_value(r, p)
        /\ LeavesOf(merged, << >>) \subseteq ManagedPaths(m) \cup LeavesOf(r, << >>)

(* A rule of the kind the derived schema gives a field can be evaluated:   *)
(* the attribute read at the field's path converts to that kind, every     *)
(* element of a list too, and no field with a scalar is missing from the   *)
(* schema (schema_util.rs against lib.rs and value.rs).                    *)
SchemaUsable ==
  input.law = "context" =>
    LET s == merge(input.of[1], input.of[2])
        read(p) == get_attribute_value(s, p)
    IN  /\ \A e \in get_schema(s) :
             \/ e.kind = "null"
             \/ \A i \in DOMAIN list_wrapper(read(e.path)) :
                  LET w == list_wrapper(read(e.path))[i]
                  IN  w.k \in {"none", "list"} \/ ConvertOne(w, e.kind).k = e.kind
        /\ \A p \in LeavesOf(s, << >>) :
             read(p).k \in {"string", "number", "bool", "null"} => \E e \in get_schema(s) : e.path = p /\ e.kind = read(p).k

(* The unit is the managed one before a custom field of the name before    *)
(* the OpenFeature targeting key; a date or a struct under the name leaves *)
(* the key in place (convert_evaluation_context, merge, get_targeting_key).*)
UnitPrecedence ==
  input.law = "unit" =>
    LET m == input.of[1]
        c == input.of[2]
        mine == {i \in DOMAIN m : m[i].path = <<TargetingKey>>}
        unit == get_targeting_key(merge(m, convert_evaluation_context(c)), <<TargetingKey>>)
        text(t) == IF StringFacts[t].len > MAX_KEY THEN <<Failed>> ELSE <<t>>
        as(v) == CASE v.k \in {"int", "float", "number"} /\ IsWhole(v) -> text(NumText(v.n))
                   [] v.k = "string" -> text(v.s)
                   [] v.k = "null"   -> << >>
                   [] OTHER          -> <<Failed>>
    IN  unit = IF mine # {} THEN as(m[CHOOSE i \in mine : TRUE].value)
               ELSE IF TargetingKey \in DOMAIN c.custom /\ c.custom[TargetingKey].k \in {"int", "float", "string", "bool"}
               THEN as(c.custom[TargetingKey])
               ELSE IF c.key = << >> THEN << >> ELSE text(c.key[1])

-----------------------------------------------------------------------------
OfKind(kind, v) ==
  CASE kind \in {"bool", "string"} -> v.k = kind
    [] kind \in {"int", "float"}   -> v.k = "number"
    [] kind = "struct"             -> v.k = "struct"

\* The resolver's answer to a request whose flag has the variant v.
Resolved1(c) == ResolvedFlag(c[1], {[name |-> "v", value |-> c[2]]}, c[3])

(* A getter answers a value only if the variant has one of its type at the *)
(* path, and then that one; a field the variant leaves open is null and    *)
(* not of the wrong type; and the counted reason is the resolver's unless  *)
(* the type was wrong (ResolvedFlag, navigate_path, the typed getters).    *)
GetterReads ==
  input.law = "getter" =>
    LET c    == input.of
        path == c[4]
        kind == c[5]
        flag == Resolved1(c)
        at   == get_attribute_value(c[2], path)
        answers == resolve_value(kind, ResolveResult(flag, path))
    IN  flag # << >> =>
          /\ \A a \in answers : a.counted = IF a.out = "TypeMismatch" THEN a.out ELSE c[1].reason
          /\ flag[1].variant = "" => answers = {Answer("no variant", << >>, c[1].reason)}
          /\ flag[1].variant # "" /\ path # << >> /\ ~IsStruct(at) /\ kind # "struct" =>
               \A a \in answers :
                 a.out = IF at.k = "null" THEN "null" ELSE IF OfKind(kind, at) THEN "ok" ELSE "TypeMismatch"
          /\ \A a \in answers : a.out = "ok" /\ kind = "float" /\ path # << >> /\ ~IsStruct(at) => a.value = <<at>>
          /\ \A a \in answers : a.out = "ok" /\ kind = "int" /\ path # << >> /\ ~IsStruct(at) =>
               a.value[1].n % UNIT = 0 /\ Abs(a.value[1].n - at.n) < UNIT /\ Abs(a.value[1].n) <= Abs(at.n)

RECURSIVE SchemaPaths(_, _)
SchemaPaths(schema, path) ==
  UNION {{Append(path, x)} \cup (IF schema[x] = << >> THEN {} ELSE SchemaPaths(schema[x][1], Append(path, x))) : x \in DOMAIN schema}

RECURSIVE Present(_, _)
Present(s, path) ==
  /\ Head(path) \in DOMAIN s.fields
  /\ Len(path) > 1 /\ IsStruct(s.fields[Head(path)]) => Present(s.fields[Head(path)], Tail(path))

(* The value of a resolved flag has every field of the flag's schema, down *)
(* to where the variant has no struct, and every value of the variant.     *)
FilledToSchema ==
  input.law = "getter" /\ Resolved1(input.of) # << >> /\ Resolved1(input.of)[1].variant # "" =>
    LET s == Resolved1(input.of)[1].value[1]
    IN  /\ \A p \in SchemaPaths(input.of[3], << >>) :
             (Len(p) = 1 \/ IsStruct(get_attribute_value(s, Front(p)))) => Present(s, p)
        /\ \A p \in LeavesOf(input.of[2], << >>) : get_attribute_value(s, p) = get_attribute_value(input.of[2], p)

-----------------------------------------------------------------------------
ReadBack(store, asked) ==
  {r \in {[unit |-> x.unit, mat |-> x.mat, rule |-> x.rule, variant |-> v] : x \in asked, v \in {"", "v1", "v2"}} :
     IF r.rule = "" THEN r.variant = "" /\ \E x \in store : x.unit = r.unit /\ x.mat = r.mat
     ELSE r.variant # "" /\ r \in store}

OneVariant(store) ==
  \A x, y \in store : x.unit = y.unit /\ x.mat = y.mat /\ x.rule = y.rule => x = y

(* Through the remote store a resolve reads what the store has of the      *)
(* records it asked for, after writes too, and an absent record stays      *)
(* absent (materialization.rs).                                            *)
StoreReadsBack ==
  input.law = "store" /\ OneVariant(input.of[1]) /\ OneVariant(input.of[2]) =>
    LET written == write_materializations(input.of[1], SetToSeq({r \in input.of[2] : r.rule # ""}))
        asked   == SetToSeq(input.of[3])
        got     == read_materializations(written, asked)
    IN  {got[i] : i \in DOMAIN got} = ReadBack(written, input.of[3])

-----------------------------------------------------------------------------
(* What is put into a context, a flag's value or a store means the same    *)
(* wherever it is read: merged with the managed context, derived into a    *)
(* schema, filled into the value, as the targeting key, through a typed    *)
(* getter, from a materialization record.                                  *)
ContextsSound ==
  /\ ManagedWins
  /\ SchemaUsable
  /\ FilledToSchema
  /\ UnitPrecedence
  /\ GetterReads
  /\ StoreReadsBack

=============================================================================
