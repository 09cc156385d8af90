----------------------------- MODULE Adaptation -----------------------------
(***************************************************************************)
(* What adapt.rs of schemaforge-openapi makes of the keywords of one       *)
(* schema object: `nullable' and the boolean exclusive bounds of OpenAPI   *)
(* 3.0 become JSON Schema 2020-12.  OpenApi applies it to all of a schema. *)
(***************************************************************************)
EXTENDS Assertions, SchemaKeywords

(* The values directly inside a value.                                     *)
Inside(v) == IF Is(v, "obj") THEN Range(v.obj) ELSE IF Is(v, "arr") THEN Range(v.arr) ELSE {}

NoMembers == [key \in {} |-> Null]

Put(s, key, v) == [k \in DOMAIN s \cup {key} |-> IF k = key THEN v ELSE s[k]]

Without(s, key) == [k \in DOMAIN s \ {key} |-> s[k]]

Push(list, v) == IF v \in ToSet(list) THEN list ELSE Append(list, v)

(* The types that null is added to where no type is named.                 *)
AllTypes == <<"string", "number", "integer", "boolean", "array", "object">>

make_nullable_type(existing) ==
  IF existing # <<>> /\ Is(existing[1], "str")
  THEN Array(<<existing[1], Text("null")>>)
  ELSE IF existing # <<>> /\ Is(existing[1], "arr")
  THEN Array(Push(existing[1].arr, Text("null")))
  ELSE Array([i \in 1 .. 6 |-> Text(AllTypes[i])] \o <<Text("null")>>)

(* Mutant of adapt_nullable: with enum the type is left as it is.          *)
adapt_nullableEnumOnly(s) ==
  LET plain == Without(s, "nullable")
  IN IF ~IsTrue(s, "nullable") THEN s
     ELSE IF Has(plain, "enum", "arr") THEN Put(plain, "enum", Array(Push(plain["enum"].arr, Null)))
     ELSE IF "const" \in DOMAIN plain
     THEN Put(Without(plain, "const"), "enum", Array(<<plain["const"], Null>>))
     ELSE Put(plain, "type", make_nullable_type(Get(plain, "type")))

adapt_nullable(s) ==
  LET plain == Without(s, "nullable")
      widened(o) ==
        IF "type" \in DOMAIN o THEN Put(o, "type", make_nullable_type(Get(o, "type"))) ELSE o
  IN IF ~IsTrue(s, "nullable") THEN s
     ELSE IF Has(plain, "enum", "arr")
     THEN widened(Put(plain, "enum", Array(Push(plain["enum"].arr, Null))))
     ELSE IF "const" \in DOMAIN plain
     THEN widened(Put(Without(plain, "const"), "enum", Array(<<plain["const"], Null>>)))
     ELSE Put(plain, "type", make_nullable_type(Get(plain, "type")))

(* Mutant of adapt_exclusive_bound: a bound that is not exclusive stays.   *)
adapt_exclusive_boundIfTrue(s, exclusive_key, bound_key) ==
  IF ~IsTrue(s, exclusive_key) THEN s
  ELSE IF bound_key \in DOMAIN s
  THEN Put(Without(s, bound_key), exclusive_key, s[bound_key])
  ELSE Without(s, exclusive_key)

adapt_exclusive_bound(s, exclusive_key, bound_key) ==
  IF ~Has(s, exclusive_key, "bool") THEN s
  ELSE IF s[exclusive_key].bool /\ bound_key \in DOMAIN s
  THEN Put(Without(s, bound_key), exclusive_key, s[bound_key])
  ELSE Without(s, exclusive_key)

adapt_keywords(s) ==
  LET nulled == adapt_nullable(s)
      lower == adapt_exclusive_bound(nulled, "exclusiveMinimum", "minimum")
  IN adapt_exclusive_bound(lower, "exclusiveMaximum", "maximum")

(* `adapted' gives what each schema inside becomes.                        *)
(* Mutant of adapt_children: the schemas in lists are left as they are.    *)
adapt_childrenOfMaps(s, adapted) ==
  [key \in DOMAIN s |->
     IF key \in ToSet(SCHEMA_MAP_KEYWORDS) /\ Is(s[key], "obj")
     THEN Object([k \in DOMAIN s[key].obj |-> adapted[s[key].obj[k]]])
     ELSE IF key \in ToSet(SCHEMA_SINGLE_KEYWORDS) THEN adapted[s[key]]
     ELSE s[key]]

adapt_children(s, adapted) ==
  [key \in DOMAIN s |->
     IF key \in ToSet(SCHEMA_MAP_KEYWORDS) /\ Is(s[key], "obj")
     THEN Object([k \in DOMAIN s[key].obj |-> adapted[s[key].obj[k]]])
     ELSE IF key \in ToSet(SCHEMA_SINGLE_KEYWORDS) THEN adapted[s[key]]
     ELSE IF key \in ToSet(SCHEMA_ARRAY_KEYWORDS) /\ Is(s[key], "arr")
     THEN Array([i \in DOMAIN s[key].arr |-> adapted[s[key].arr[i]]])
     ELSE s[key]]

-----------------------------------------------------------------------------
(***************************************************************************)
(* What OpenAPI 3.0 means by the keywords: with `nullable', null passes    *)
(* the assertions about values, and every other value is judged as without *)
(* it.                                                                     *)
(***************************************************************************)
Means30(s, v) == IF IsTrue(s, "nullable") /\ Is(v, "null") THEN TRUE ELSE apply(s, v)
=============================================================================
