----------------------------- MODULE Assertions -----------------------------
(***************************************************************************)
(* The assertions of one schema object: what the validator makes of them   *)
(* (validation.rs) and what the compiler keeps of them in the node that    *)
(* code generation and analysis read (extract_* of schemaforge-compiler).  *)
(*                                                                         *)
(* A JSON value is a record whose one field names its variant.  An f64     *)
(* counts halves, so that 1.0 is [half |-> 2] and equal to no integer, as  *)
(* in serde_json.  An object is a function from keys to values.  An Option *)
(* is a sequence of at most one element.                                   *)
(***************************************************************************)
EXTENDS Integers, SequencesExt, Functions

CONSTANTS
  length,    (* the number of characters of each text                      *)
  compiled,  (* patterns that are in the validator's cache                 *)
  matches,   (* <<pattern, text>> where the text matches                   *)
  refused    (* <<format, text>> where an asserted format refuses the text *)

Null       == [null |-> TRUE]
Boolean(b) == [bool |-> b]
Integer(i) == [int |-> i]
Double(h)  == [half |-> h]
Text(t)    == [str |-> t]
Array(a)   == [arr |-> a]
Object(o)  == [obj |-> o]

Is(v, variant) == variant \in DOMAIN v

IsNumber(v) == Is(v, "int") \/ Is(v, "half")

as_f64(v) == IF Is(v, "int") THEN 2 * v.int ELSE v.half

(* Keyword `key' of object s has a value of that variant.                  *)
Has(s, key, variant) == key \in DOMAIN s /\ Is(s[key], variant)

HasNumber(s, key) == key \in DOMAIN s /\ IsNumber(s[key])

IsTrue(s, key) == Has(s, key, "bool") /\ s[key].bool

Strings(list) == {x.str : x \in {y \in ToSet(list) : Is(y, "str")}}

-----------------------------------------------------------------------------
(***************************************************************************)
(* The validator.  `s' is the schema object, `v' the instance.             *)
(***************************************************************************)
is_integer(v) == Is(v, "int") \/ (Is(v, "half") /\ v.half % 2 = 0)

instance_matches_type(v, t) ==
  \/ t = "null" /\ Is(v, "null")
  \/ t = "boolean" /\ Is(v, "bool")
  \/ t = "integer" /\ is_integer(v)
  \/ t = "number" /\ IsNumber(v)
  \/ t = "string" /\ Is(v, "str")
  \/ t = "array" /\ Is(v, "arr")
  \/ t = "object" /\ Is(v, "obj")

collect_types(type) ==
  IF Is(type, "str") THEN {type.str} ELSE IF Is(type, "arr") THEN Strings(type.arr) ELSE {}

apply_type(s, v) ==
  "type" \in DOMAIN s => \E t \in collect_types(s["type"]) : instance_matches_type(v, t)

apply_enum(s, v) == Has(s, "enum", "arr") => v \in ToSet(s["enum"].arr)

apply_const(s, v) == "const" \in DOMAIN s => v = s["const"]

(* Limits are as_u64: anything but an integer from 0 on is no limit.       *)
HasLimit(s, key) == Has(s, key, "int") /\ s[key].int >= 0

AtLeast(s, key, n) == HasLimit(s, key) => n >= s[key].int

AtMost(s, key, n) == HasLimit(s, key) => n <= s[key].int

apply_pattern(s, text) ==
  Has(s, "pattern", "str") =>
    s["pattern"].str \in compiled /\ <<s["pattern"].str, text>> \in matches

apply_format(s, text) == Has(s, "format", "str") => <<s["format"].str, text>> \notin refused

apply_string_constraints(s, v) ==
  Is(v, "str") =>
    /\ AtLeast(s, "minLength", length[v.str])
    /\ AtMost(s, "maxLength", length[v.str])
    /\ apply_pattern(s, v.str)
    /\ apply_format(s, v.str)

(* Mutant of check_minimum: a boolean exclusiveMinimum is not looked at.   *)
check_minimumInclusive(s, n) ==
  /\ HasNumber(s, "minimum") => n >= as_f64(s["minimum"])
  /\ HasNumber(s, "exclusiveMinimum") => n > as_f64(s["exclusiveMinimum"])

check_minimum(s, n) ==
  /\ HasNumber(s, "minimum") =>
       IF IsTrue(s, "exclusiveMinimum") THEN n > as_f64(s["minimum"]) ELSE n >= as_f64(s["minimum"])
  /\ HasNumber(s, "exclusiveMinimum") => n > as_f64(s["exclusiveMinimum"])

check_maximum(s, n) ==
  /\ HasNumber(s, "maximum") =>
       IF IsTrue(s, "exclusiveMaximum") THEN n < as_f64(s["maximum"]) ELSE n <= as_f64(s["maximum"])
  /\ HasNumber(s, "exclusiveMaximum") => n < as_f64(s["exclusiveMaximum"])

(* Quotients are taken to be further from an integer than the tolerance.   *)
check_multiple_of(s, n) ==
  HasNumber(s, "multipleOf") /\ as_f64(s["multipleOf"]) > 0 => n % as_f64(s["multipleOf"]) = 0

apply_numeric_constraints(s, v) ==
  IsNumber(v) =>
    check_minimum(s, as_f64(v)) /\ check_maximum(s, as_f64(v)) /\ check_multiple_of(s, as_f64(v))

check_unique_items(s, list) ==
  IsTrue(s, "uniqueItems") => \A i, j \in DOMAIN list : i < j => list[i] # list[j]

apply_array_constraints(s, v) ==
  Is(v, "arr") =>
    /\ AtLeast(s, "minItems", Len(v.arr))
    /\ AtMost(s, "maxItems", Len(v.arr))
    /\ check_unique_items(s, v.arr)

apply_required(s, keys) == Has(s, "required", "arr") => Strings(s["required"].arr) \subseteq keys

apply_dependent_required(s, keys) ==
  Has(s, "dependentRequired", "obj") =>
    LET dep_req == s["dependentRequired"].obj
    IN \A p \in DOMAIN dep_req \cap keys :
         Is(dep_req[p], "arr") => Strings(dep_req[p].arr) \subseteq keys

apply_object_constraints(s, v) ==
  Is(v, "obj") =>
    /\ AtLeast(s, "minProperties", Cardinality(DOMAIN v.obj))
    /\ AtMost(s, "maxProperties", Cardinality(DOMAIN v.obj))
    /\ apply_required(s, DOMAIN v.obj)
    /\ apply_dependent_required(s, DOMAIN v.obj)

apply(s, v) ==
  /\ apply_type(s, v)
  /\ apply_enum(s, v)
  /\ apply_const(s, v)
  /\ apply_string_constraints(s, v)
  /\ apply_numeric_constraints(s, v)
  /\ apply_array_constraints(s, v)
  /\ apply_object_constraints(s, v)

-----------------------------------------------------------------------------
(***************************************************************************)
(* The compiler.                                                           *)
(***************************************************************************)
Types == {"null", "boolean", "integer", "number", "string", "array", "object"}

from_json(type) ==
  LET names == collect_types(type)
  IN {t \in Types : t \in names \/ (t = "integer" /\ "number" \in names)}

Get(s, key) == IF key \in DOMAIN s THEN <<s[key]>> ELSE <<>>

Number(s, key) == IF HasNumber(s, key) THEN <<as_f64(s[key])>> ELSE <<>>

as_u64(s, key) == IF HasLimit(s, key) THEN <<s[key].int>> ELSE <<>>

as_str(s, key) == IF Has(s, key, "str") THEN <<s[key].str>> ELSE <<>>

Bounds(opt, exclusive) == [i \in DOMAIN opt |-> [value |-> opt[i], exclusive |-> exclusive]]

(* Mutant of extract_bound: any exclusive keyword makes it exclusive.      *)
extract_boundAny(s, exclusive_key, adjacent_value) ==
  IF HasNumber(s, exclusive_key) THEN Bounds(Number(s, exclusive_key), TRUE)
  ELSE Bounds(adjacent_value, exclusive_key \in DOMAIN s)

extract_bound(s, exclusive_key, adjacent_value) ==
  IF HasNumber(s, exclusive_key) THEN Bounds(Number(s, exclusive_key), TRUE)
  ELSE Bounds(adjacent_value, IsTrue(s, exclusive_key))

extract_types(s) ==
  [types |-> IF "type" \in DOMAIN s THEN from_json(s["type"]) ELSE Types,
   enum_values |-> IF Has(s, "enum", "arr") THEN <<ToSet(s["enum"].arr)>> ELSE <<>>,
   const_value |-> Get(s, "const")]

extract_string_constraints(s) ==
  [min_length |-> as_u64(s, "minLength"), max_length |-> as_u64(s, "maxLength"),
   pattern |-> as_str(s, "pattern"), format |-> as_str(s, "format")]

extract_numeric_constraints(s) ==
  [minimum |-> extract_bound(s, "exclusiveMinimum", Number(s, "minimum")),
   maximum |-> extract_bound(s, "exclusiveMaximum", Number(s, "maximum")),
   multiple_of |-> Number(s, "multipleOf")]

extract_array_constraints(s) ==
  [min_items |-> as_u64(s, "minItems"), max_items |-> as_u64(s, "maxItems"),
   unique_items |-> IsTrue(s, "uniqueItems")]

extract_object_constraints(s) ==
  [required |-> IF Has(s, "required", "arr") THEN Strings(s["required"].arr) ELSE {},
   min_properties |-> as_u64(s, "minProperties"), max_properties |-> as_u64(s, "maxProperties")]

(* The constraints of the node that is built for s.                        *)
Node(s) ==
  [value |-> extract_types(s), string |-> extract_string_constraints(s),
   numeric |-> extract_numeric_constraints(s), array |-> extract_array_constraints(s),
   object |-> extract_object_constraints(s)]

-----------------------------------------------------------------------------
(***************************************************************************)
(* What the fields of a node say of a value, read by their documentation.  *)
(***************************************************************************)
Every(opt, Allowed(_)) == \A i \in DOMAIN opt : Allowed(opt[i])

Within(node, n) ==
  /\ Every(node.minimum, LAMBDA b : IF b.exclusive THEN n > b.value ELSE n >= b.value)
  /\ Every(node.maximum, LAMBDA b : IF b.exclusive THEN n < b.value ELSE n <= b.value)
  /\ Every(node.multiple_of, LAMBDA m : m > 0 => n % m = 0)

Counted(n, min, max) == Every(min, LAMBDA m : n >= m) /\ Every(max, LAMBDA m : n <= m)

Allows(node, v) ==
  /\ \E t \in node.value.types : instance_matches_type(v, t)
  /\ Every(node.value.enum_values, LAMBDA vs : v \in vs)
  /\ Every(node.value.const_value, LAMBDA c : v = c)
  /\ Is(v, "str") =>
       /\ Counted(length[v.str], node.string.min_length, node.string.max_length)
       /\ Every(node.string.pattern, LAMBDA p : <<p, v.str>> \in matches)
       /\ Every(node.string.format, LAMBDA f : <<f, v.str>> \notin refused)
  /\ IsNumber(v) => Within(node.numeric, as_f64(v))
  /\ Is(v, "arr") =>
       /\ Counted(Len(v.arr), node.array.min_items, node.array.max_items)
       /\ node.array.unique_items => \A i, j \in DOMAIN v.arr : i < j => v.arr[i] # v.arr[j]
  /\ Is(v, "obj") =>
       /\ Counted(Cardinality(DOMAIN v.obj), node.object.min_properties, node.object.max_properties)
       /\ node.object.required \subseteq DOMAIN v.obj

(* The compiler and the validator read the same from these keywords.       *)
SameKeywords(s) ==
  /\ "dependentRequired" \notin DOMAIN s
  /\ ~(HasNumber(s, "minimum") /\ HasNumber(s, "exclusiveMinimum"))
  /\ ~(HasNumber(s, "maximum") /\ HasNumber(s, "exclusiveMaximum"))
  /\ Has(s, "pattern", "str") => s["pattern"].str \in compiled
=============================================================================
