---------------------------- MODULE KeywordProofs ----------------------------
(***************************************************************************)
(* The keywords of schema objects.  What the assertions of one object say  *)
(* survives its two translations, for every object and value: the          *)
(* compiler's constraints refuse nothing that the validator accepts, and,  *)
(* read from the same keywords, everything that it refuses; and            *)
(* the adaptation to 2020-12 keeps the meaning, of one object and of whole *)
(* schemas; and all schemas of a document are extracted.  What unevaluated *)
(* keywords say is what they are documented to, for every graph of         *)
(* schemas inside one base URI: the traversal that collects the evaluated  *)
(* parts collects those that the evaluation evaluated.                     *)
(***************************************************************************)
EXTENDS OpenApi, Unevaluated, FiniteSetTheorems, WellFoundedInduction, TLAPS

(***************************************************************************)
(* The compiler.                                                           *)
(***************************************************************************)
(* A lower bound that is kept is one that the validator enforces.          *)
LEMMA MinimumKept ==
  ASSUME NEW s, NEW n, check_minimum(s, n),
         NEW i \in DOMAIN extract_bound(s, "exclusiveMinimum", Number(s, "minimum"))
  PROVE LET b == extract_bound(s, "exclusiveMinimum", Number(s, "minimum"))[i]
        IN IF b.exclusive THEN n > b.value ELSE n >= b.value
<1>1. CASE HasNumber(s, "exclusiveMinimum")
  BY <1>1 DEF check_minimum, extract_bound, Number, Bounds
<1>2. CASE ~HasNumber(s, "exclusiveMinimum")
  BY <1>2 DEF check_minimum, extract_bound, Number, Bounds
<1> QED BY <1>1, <1>2

(* So is an upper bound.                                                   *)
LEMMA MaximumKept ==
  ASSUME NEW s, NEW n, check_maximum(s, n),
         NEW i \in DOMAIN extract_bound(s, "exclusiveMaximum", Number(s, "maximum"))
  PROVE LET b == extract_bound(s, "exclusiveMaximum", Number(s, "maximum"))[i]
        IN IF b.exclusive THEN n < b.value ELSE n <= b.value
<1>1. CASE HasNumber(s, "exclusiveMaximum")
  BY <1>1 DEF check_maximum, extract_bound, Number, Bounds
<1>2. CASE ~HasNumber(s, "exclusiveMaximum")
  BY <1>2 DEF check_maximum, extract_bound, Number, Bounds
<1> QED BY <1>1, <1>2

(* Limits are read alike.                                                  *)
LEMMA LimitsKept ==
  ASSUME NEW s, NEW n, NEW min, NEW max, AtLeast(s, min, n), AtMost(s, max, n)
  PROVE Counted(n, as_u64(s, min), as_u64(s, max))
BY DEF AtLeast, AtMost, Counted, Every, as_u64

(* A type that the validator matches is in the node's set.                 *)
LEMMA TypesKept ==
  ASSUME NEW s, NEW v, apply_type(s, v), "type" \in DOMAIN s
  PROVE \E t \in extract_types(s).types : instance_matches_type(v, t)
<1>1. PICK t \in collect_types(s["type"]) : instance_matches_type(v, t)
  BY DEF apply_type
<1>2. t \in Types
  BY <1>1 DEF instance_matches_type, Types
<1> QED BY <1>1, <1>2 DEF extract_types, from_json

(* The constraints that the compiler keeps of a schema object never refuse *)
(* a value that the validator accepts by that object: the looser half of   *)
(* NodeExact, for every object, value, length, pattern and format.         *)
THEOREM NodeSound ==
  ASSUME NEW s, NEW v, apply(s, v), \E t \in Types : instance_matches_type(v, t)
  PROVE Allows(Node(s), v)
<1> DEFINE node == Node(s)
<1>1. \E t \in node.value.types : instance_matches_type(v, t)
  <2>1. CASE "type" \in DOMAIN s
    BY <2>1, TypesKept DEF apply, Node
  <2>2. CASE "type" \notin DOMAIN s
    BY <2>2 DEF Node, extract_types
  <2> QED BY <2>1, <2>2
<1>2. Every(node.value.enum_values, LAMBDA vs : v \in vs)
  BY DEF apply, apply_enum, Node, extract_types, Every
<1>3. Every(node.value.const_value, LAMBDA c : v = c)
  BY DEF apply, apply_const, Node, extract_types, Every, Get
<1>4. ASSUME Is(v, "str")
      PROVE /\ Counted(length[v.str], node.string.min_length, node.string.max_length)
            /\ Every(node.string.pattern, LAMBDA p : <<p, v.str>> \in matches)
            /\ Every(node.string.format, LAMBDA f : <<f, v.str>> \notin refused)
  <2>1. apply_string_constraints(s, v)
    BY DEF apply
  <2>2. Counted(length[v.str], node.string.min_length, node.string.max_length)
    BY <1>4, <2>1, LimitsKept DEF apply_string_constraints, Node, extract_string_constraints
  <2>3. Every(node.string.pattern, LAMBDA p : <<p, v.str>> \in matches)
    BY <1>4, <2>1
       DEF apply_string_constraints, apply_pattern, Node, extract_string_constraints, Every, as_str
  <2>4. Every(node.string.format, LAMBDA f : <<f, v.str>> \notin refused)
    BY <1>4, <2>1
       DEF apply_string_constraints, apply_format, Node, extract_string_constraints, Every, as_str
  <2> QED BY <2>2, <2>3, <2>4
<1>5. ASSUME IsNumber(v) PROVE Within(node.numeric, as_f64(v))
  <2> DEFINE n == as_f64(v)
  <2>1. check_minimum(s, n) /\ check_maximum(s, n) /\ check_multiple_of(s, n)
    BY <1>5 DEF apply, apply_numeric_constraints
  <2>2. Every(node.numeric.minimum, LAMBDA b : IF b.exclusive THEN n > b.value ELSE n >= b.value)
    BY <2>1, MinimumKept DEF Node, extract_numeric_constraints, Every
  <2>3. Every(node.numeric.maximum, LAMBDA b : IF b.exclusive THEN n < b.value ELSE n <= b.value)
    BY <2>1, MaximumKept DEF Node, extract_numeric_constraints, Every
  <2>4. Every(node.numeric.multiple_of, LAMBDA m : m > 0 => n % m = 0)
    BY <2>1 DEF check_multiple_of, Node, extract_numeric_constraints, Every, Number
  <2> QED BY <2>2, <2>3, <2>4 DEF Within
<1>6. ASSUME Is(v, "arr")
      PROVE /\ Counted(Len(v.arr), node.array.min_items, node.array.max_items)
            /\ node.array.unique_items => \A i, j \in DOMAIN v.arr : i < j => v.arr[i] # v.arr[j]
  <2>1. apply_array_constraints(s, v)
    BY DEF apply
  <2>2. Counted(Len(v.arr), node.array.min_items, node.array.max_items)
    BY <1>6, <2>1, LimitsKept DEF apply_array_constraints, Node, extract_array_constraints
  <2>3. node.array.unique_items <=> IsTrue(s, "uniqueItems")
    BY DEF Node, extract_array_constraints
  <2> QED BY <1>6, <2>1, <2>2, <2>3 DEF apply_array_constraints, check_unique_items
<1>7. ASSUME Is(v, "obj")
      PROVE /\ Counted(Cardinality(DOMAIN v.obj), node.object.min_properties, node.object.max_properties)
            /\ node.object.required \subseteq DOMAIN v.obj
  <2>1. apply_object_constraints(s, v)
    BY DEF apply
  <2>2. Counted(Cardinality(DOMAIN v.obj), node.object.min_properties, node.object.max_properties)
    BY <1>7, <2>1, LimitsKept DEF apply_object_constraints, Node, extract_object_constraints
  <2>3. node.object.required \subseteq DOMAIN v.obj
    BY <1>7, <2>1 DEF apply_object_constraints, apply_required, Node, extract_object_constraints
  <2> QED BY <2>2, <2>3
<1> QED BY <1>1, <1>2, <1>3, <1>4, <1>5, <1>6, <1>7 DEF Allows

(* A value that the kept lower bound allows is one that the validator      *)
(* accepts, when there is one bound only.                                  *)
LEMMA MinimumWhole ==
  ASSUME NEW s, NEW n, ~(HasNumber(s, "minimum") /\ HasNumber(s, "exclusiveMinimum")),
         \A i \in DOMAIN extract_bound(s, "exclusiveMinimum", Number(s, "minimum")) :
           LET b == extract_bound(s, "exclusiveMinimum", Number(s, "minimum"))[i]
           IN IF b.exclusive THEN n > b.value ELSE n >= b.value
  PROVE check_minimum(s, n)
<1> DEFINE bounds == extract_bound(s, "exclusiveMinimum", Number(s, "minimum"))
<1>1. CASE HasNumber(s, "exclusiveMinimum")
  <2>1. 1 \in DOMAIN bounds /\ bounds[1].value = as_f64(s["exclusiveMinimum"]) /\ bounds[1].exclusive
    BY <1>1 DEF extract_bound, Number, Bounds
  <2> QED BY <1>1, <2>1 DEF check_minimum
<1>2. CASE ~HasNumber(s, "exclusiveMinimum") /\ HasNumber(s, "minimum")
  <2>1. /\ 1 \in DOMAIN bounds /\ bounds[1].value = as_f64(s["minimum"])
        /\ bounds[1].exclusive = IsTrue(s, "exclusiveMinimum")
    BY <1>2 DEF extract_bound, Number, Bounds
  <2> QED BY <1>2, <2>1 DEF check_minimum
<1> QED BY <1>1, <1>2 DEF check_minimum

(* So is one that the kept upper bound allows.                             *)
LEMMA MaximumWhole ==
  ASSUME NEW s, NEW n, ~(HasNumber(s, "maximum") /\ HasNumber(s, "exclusiveMaximum")),
         \A i \in DOMAIN extract_bound(s, "exclusiveMaximum", Number(s, "maximum")) :
           LET b == extract_bound(s, "exclusiveMaximum", Number(s, "maximum"))[i]
           IN IF b.exclusive THEN n < b.value ELSE n <= b.value
  PROVE check_maximum(s, n)
<1> DEFINE bounds == extract_bound(s, "exclusiveMaximum", Number(s, "maximum"))
<1>1. CASE HasNumber(s, "exclusiveMaximum")
  <2>1. 1 \in DOMAIN bounds /\ bounds[1].value = as_f64(s["exclusiveMaximum"]) /\ bounds[1].exclusive
    BY <1>1 DEF extract_bound, Number, Bounds
  <2> QED BY <1>1, <2>1 DEF check_maximum
<1>2. CASE ~HasNumber(s, "exclusiveMaximum") /\ HasNumber(s, "maximum")
  <2>1. /\ 1 \in DOMAIN bounds /\ bounds[1].value = as_f64(s["maximum"])
        /\ bounds[1].exclusive = IsTrue(s, "exclusiveMaximum")
    BY <1>2 DEF extract_bound, Number, Bounds
  <2> QED BY <1>2, <2>1 DEF check_maximum
<1> QED BY <1>1, <1>2 DEF check_maximum

(* No limit is lost.                                                       *)
LEMMA LimitsWhole ==
  ASSUME NEW s, NEW n, NEW min, NEW max, Counted(n, as_u64(s, min), as_u64(s, max))
  PROVE AtLeast(s, min, n) /\ AtMost(s, max, n)
BY DEF AtLeast, AtMost, Counted, Every, as_u64

(* A value whose type the node has is of one of the types that the keyword *)
(* names, although the node has integer wherever it has number.            *)
LEMMA TypesWhole ==
  ASSUME NEW s, NEW v, NEW t \in extract_types(s).types, instance_matches_type(v, t)
  PROVE apply_type(s, v)
<1> SUFFICES ASSUME "type" \in DOMAIN s
             PROVE  \E u \in collect_types(s["type"]) : instance_matches_type(v, u)
  BY DEF apply_type
<1>1. t \in collect_types(s["type"]) \/ (t = "integer" /\ "number" \in collect_types(s["type"]))
  BY DEF extract_types, from_json
<1>2. t = "integer" => instance_matches_type(v, "number")
  BY DEF instance_matches_type, is_integer, IsNumber
<1> QED BY <1>1, <1>2

(* Nor do they allow a value that the validator refuses, where both read   *)
(* the keywords of the object alike: the stricter half of NodeExact.       *)
THEOREM NodeComplete ==
  ASSUME NEW s, NEW v, SameKeywords(s), Allows(Node(s), v)
  PROVE apply(s, v)
<1> DEFINE node == Node(s)
<1>1. apply_type(s, v)
  <2>1. PICK t \in extract_types(s).types : instance_matches_type(v, t)
    BY DEF Allows, Node
  <2> QED BY <2>1, TypesWhole
<1>2. apply_enum(s, v)
  BY DEF Allows, apply_enum, Node, extract_types, Every
<1>3. apply_const(s, v)
  BY DEF Allows, apply_const, Node, extract_types, Every, Get
<1>4. apply_string_constraints(s, v)
  <2> SUFFICES ASSUME Is(v, "str")
               PROVE  /\ AtLeast(s, "minLength", length[v.str])
                      /\ AtMost(s, "maxLength", length[v.str])
                      /\ apply_pattern(s, v.str) /\ apply_format(s, v.str)
    BY DEF apply_string_constraints
  <2>1. Counted(length[v.str], as_u64(s, "minLength"), as_u64(s, "maxLength"))
    BY DEF Allows, Node, extract_string_constraints
  <2>2. Every(as_str(s, "pattern"), LAMBDA p : <<p, v.str>> \in matches)
    BY DEF Allows, Node, extract_string_constraints
  <2>3. Every(as_str(s, "format"), LAMBDA f : <<f, v.str>> \notin refused)
    BY DEF Allows, Node, extract_string_constraints
  <2>4. apply_pattern(s, v.str)
    BY <2>2 DEF apply_pattern, Every, as_str, SameKeywords
  <2>5. apply_format(s, v.str)
    BY <2>3 DEF apply_format, Every, as_str
  <2> QED BY <2>1, <2>4, <2>5, LimitsWhole
<1>5. apply_numeric_constraints(s, v)
  <2> DEFINE n == as_f64(v)
  <2> SUFFICES ASSUME IsNumber(v)
               PROVE  check_minimum(s, n) /\ check_maximum(s, n) /\ check_multiple_of(s, n)
    BY DEF apply_numeric_constraints
  <2>1. Within(node.numeric, n)
    BY DEF Allows
  <2>2. check_minimum(s, n)
    BY <2>1, MinimumWhole DEF Within, Node, extract_numeric_constraints, Every, SameKeywords
  <2>3. check_maximum(s, n)
    BY <2>1, MaximumWhole DEF Within, Node, extract_numeric_constraints, Every, SameKeywords
  <2>4. check_multiple_of(s, n)
    BY <2>1 DEF Within, Node, extract_numeric_constraints, Every, Number, check_multiple_of
  <2> QED BY <2>2, <2>3, <2>4
<1>6. apply_array_constraints(s, v)
  <2> SUFFICES ASSUME Is(v, "arr")
               PROVE  /\ AtLeast(s, "minItems", Len(v.arr)) /\ AtMost(s, "maxItems", Len(v.arr))
                      /\ check_unique_items(s, v.arr)
    BY DEF apply_array_constraints
  <2>1. Counted(Len(v.arr), as_u64(s, "minItems"), as_u64(s, "maxItems"))
    BY DEF Allows, Node, extract_array_constraints
  <2>2. check_unique_items(s, v.arr)
    BY DEF Allows, Node, extract_array_constraints, check_unique_items
  <2> QED BY <2>1, <2>2, LimitsWhole
<1>7. apply_object_constraints(s, v)
  <2> SUFFICES ASSUME Is(v, "obj")
               PROVE  /\ AtLeast(s, "minProperties", Cardinality(DOMAIN v.obj))
                      /\ AtMost(s, "maxProperties", Cardinality(DOMAIN v.obj))
                      /\ apply_required(s, DOMAIN v.obj)
                      /\ apply_dependent_required(s, DOMAIN v.obj)
    BY DEF apply_object_constraints
  <2>1. Counted(Cardinality(DOMAIN v.obj), as_u64(s, "minProperties"), as_u64(s, "maxProperties"))
    BY DEF Allows, Node, extract_object_constraints
  <2>2. apply_required(s, DOMAIN v.obj)
    BY DEF Allows, Node, extract_object_constraints, apply_required
  <2>3. apply_dependent_required(s, DOMAIN v.obj)
    BY DEF SameKeywords, apply_dependent_required, Has
  <2> QED BY <2>1, <2>2, <2>3, LimitsWhole
<1> QED BY <1>1, <1>2, <1>3, <1>4, <1>5, <1>6, <1>7 DEF apply

-----------------------------------------------------------------------------
(***************************************************************************)
(* The adaptation.                                                         *)
(***************************************************************************)
(* A bound is a number, and a keyword's value has one variant.             *)
BoundsOk(s) ==
  /\ \A key \in {"exclusiveMinimum", "exclusiveMaximum"} : Has(s, key, "bool") => ~HasNumber(s, key)
  /\ "minimum" \in DOMAIN s => IsNumber(s["minimum"])
  /\ "maximum" \in DOMAIN s => IsNumber(s["maximum"])

(* Of the upper bound alone.                                               *)
UpperOk(s) ==
  /\ Has(s, "exclusiveMaximum", "bool") => ~HasNumber(s, "exclusiveMaximum")
  /\ "maximum" \in DOMAIN s => IsNumber(s["maximum"])

(* A nullable schema names its types, and has no const beside an enum.     *)
NullableOk(s) ==
  IsTrue(s, "nullable") =>
    /\ "type" \in DOMAIN s =>
         \/ Is(s["type"], "str")
         \/ ~Is(s["type"], "str") /\ Is(s["type"], "arr") /\ s["type"].arr \in Seq(Range(s["type"].arr))
    /\ Has(s, "enum", "arr") =>
         "const" \notin DOMAIN s /\ s["enum"].arr \in Seq(Range(s["enum"].arr))

(* Objects s and t have the same under a key.                              *)
Same(s, t, key) == (key \in DOMAIN t <=> key \in DOMAIN s) /\ (key \in DOMAIN s => t[key] = s[key])

(* Adapting a bound touches no other keyword.                              *)
LEMMA BoundFrame ==
  ASSUME NEW s, NEW exclusive, NEW bound, NEW key, key \notin {exclusive, bound}
  PROVE Same(s, adapt_exclusive_bound(s, exclusive, bound), key)
BY DEF Same, adapt_exclusive_bound, Put, Without

(* Adapted, a lower bound is the bound it was.                             *)
LEMMA LowerBound ==
  ASSUME NEW s, NEW n, BoundsOk(s)
  PROVE check_minimum(adapt_exclusive_bound(s, "exclusiveMinimum", "minimum"), n)
          <=> check_minimum(s, n)
<1> DEFINE t == adapt_exclusive_bound(s, "exclusiveMinimum", "minimum")
<1>1. CASE ~Has(s, "exclusiveMinimum", "bool")
  BY <1>1 DEF adapt_exclusive_bound
<1>2. CASE Has(s, "exclusiveMinimum", "bool") /\ s["exclusiveMinimum"].bool /\ "minimum" \in DOMAIN s
  <2>1. t = Put(Without(s, "minimum"), "exclusiveMinimum", s["minimum"])
    BY <1>2 DEF adapt_exclusive_bound
  <2>2. /\ "minimum" \notin DOMAIN t
        /\ "exclusiveMinimum" \in DOMAIN t /\ t["exclusiveMinimum"] = s["minimum"]
    BY <2>1 DEF Put, Without
  <2>3. IsNumber(s["minimum"]) /\ ~HasNumber(s, "exclusiveMinimum") /\ IsTrue(s, "exclusiveMinimum")
    BY <1>2 DEF BoundsOk, IsTrue, Has
  <2> QED BY <1>2, <2>2, <2>3 DEF check_minimum, HasNumber
<1>3. CASE Has(s, "exclusiveMinimum", "bool") /\ ~(s["exclusiveMinimum"].bool /\ "minimum" \in DOMAIN s)
  <2>1. t = Without(s, "exclusiveMinimum")
    BY <1>3 DEF adapt_exclusive_bound
  <2>2. "exclusiveMinimum" \notin DOMAIN t /\ Same(s, t, "minimum")
    BY <2>1 DEF Without, Same
  <2>3. ~HasNumber(s, "exclusiveMinimum")
    BY <1>3 DEF BoundsOk
  <2>4. HasNumber(s, "minimum") => ~IsTrue(s, "exclusiveMinimum")
    BY <1>3 DEF HasNumber, IsTrue
  <2> QED BY <2>2, <2>3, <2>4 DEF check_minimum, HasNumber, IsTrue, Has, Same
<1> QED BY <1>1, <1>2, <1>3

(* So is an upper bound.                                                   *)
LEMMA UpperBound ==
  ASSUME NEW s, NEW n, UpperOk(s)
  PROVE check_maximum(adapt_exclusive_bound(s, "exclusiveMaximum", "maximum"), n)
          <=> check_maximum(s, n)
<1> DEFINE t == adapt_exclusive_bound(s, "exclusiveMaximum", "maximum")
<1>1. CASE ~Has(s, "exclusiveMaximum", "bool")
  BY <1>1 DEF adapt_exclusive_bound
<1>2. CASE Has(s, "exclusiveMaximum", "bool") /\ s["exclusiveMaximum"].bool /\ "maximum" \in DOMAIN s
  <2>1. t = Put(Without(s, "maximum"), "exclusiveMaximum", s["maximum"])
    BY <1>2 DEF adapt_exclusive_bound
  <2>2. /\ "maximum" \notin DOMAIN t
        /\ "exclusiveMaximum" \in DOMAIN t /\ t["exclusiveMaximum"] = s["maximum"]
    BY <2>1 DEF Put, Without
  <2>3. IsNumber(s["maximum"]) /\ ~HasNumber(s, "exclusiveMaximum") /\ IsTrue(s, "exclusiveMaximum")
    BY <1>2 DEF UpperOk, IsTrue, Has
  <2> QED BY <1>2, <2>2, <2>3 DEF check_maximum, HasNumber
<1>3. CASE Has(s, "exclusiveMaximum", "bool") /\ ~(s["exclusiveMaximum"].bool /\ "maximum" \in DOMAIN s)
  <2>1. t = Without(s, "exclusiveMaximum")
    BY <1>3 DEF adapt_exclusive_bound
  <2>2. "exclusiveMaximum" \notin DOMAIN t /\ Same(s, t, "maximum")
    BY <2>1 DEF Without, Same
  <2>3. ~HasNumber(s, "exclusiveMaximum")
    BY <1>3 DEF UpperOk
  <2>4. HasNumber(s, "maximum") => ~IsTrue(s, "exclusiveMaximum")
    BY <1>3 DEF HasNumber, IsTrue
  <2> QED BY <2>2, <2>3, <2>4 DEF check_maximum, HasNumber, IsTrue, Has, Same
<1> QED BY <1>1, <1>2, <1>3

(* `nullable' touches four keywords.                                       *)
LEMMA NullableFrame ==
  ASSUME NEW s, NEW key, key \notin {"nullable", "type", "enum", "const"}
  PROVE Same(s, adapt_nullable(s), key)
BY DEF Same, adapt_nullable, Put, Without

(* Pushing adds one element.                                               *)
LEMMA PushSet ==
  ASSUME NEW list, list \in Seq(Range(list)), NEW v
  PROVE ToSet(Push(list, v)) = ToSet(list) \cup {v}
<1>1. CASE v \in ToSet(list)
  BY <1>1 DEF Push
<1>2. CASE v \notin ToSet(list)
  <2> DEFINE new == Append(list, v)
  <2>1. Len(list) \in Nat /\ DOMAIN list = 1 .. Len(list) /\ DOMAIN new = 1 .. Len(list) + 1
    OBVIOUS
  <2>2. new[Len(list) + 1] = v /\ \A i \in 1 .. Len(list) : new[i] = list[i]
    OBVIOUS
  <2>3. ToSet(new) = ToSet(list) \cup {v}
    <3>1. \A x \in ToSet(new) : x \in ToSet(list) \cup {v}
      BY <2>1, <2>2 DEF ToSet
    <3>2. \A x \in ToSet(list) \cup {v} : x \in ToSet(new)
      BY <2>1, <2>2 DEF ToSet
    <3> QED BY <3>1, <3>2
  <2> QED BY <1>2, <2>3 DEF Push
<1> QED BY <1>1, <1>2

(* So it does to the strings of a list.                                    *)
LEMMA PushStrings ==
  ASSUME NEW list, list \in Seq(Range(list))
  PROVE Strings(Push(list, Text("null"))) = Strings(list) \cup {"null"}
<1>1. ToSet(Push(list, Text("null"))) = ToSet(list) \cup {Text("null")}
  BY PushSet
<1>2. Is(Text("null"), "str") /\ Text("null").str = "null"
  BY DEF Text, Is
<1> QED BY <1>1, <1>2 DEF Strings

(* Made nullable, types are those they were and "null".                    *)
LEMMA NullableTypes ==
  ASSUME NEW s, NEW v, IsTrue(s, "nullable"), NullableOk(s), "type" \in DOMAIN s
  PROVE collect_types(make_nullable_type(<<s["type"]>>)) = collect_types(s["type"]) \cup {"null"}
<1> DEFINE new == make_nullable_type(<<s["type"]>>)
<1>1. CASE Is(s["type"], "str")
  <2>1. new = Array(<<s["type"], Text("null")>>)
    BY <1>1 DEF make_nullable_type
  <2>2. ~Is(new, "str") /\ Is(new, "arr") /\ new.arr = <<s["type"], Text("null")>>
    BY <2>1 DEF Array, Is
  <2>3. Strings(<<s["type"], Text("null")>>) = {s["type"].str, "null"}
    BY <1>1 DEF Strings, ToSet, Text, Is
  <2> QED BY <1>1, <2>2, <2>3 DEF collect_types
<1>2. CASE ~Is(s["type"], "str") /\ Is(s["type"], "arr")
  <2>1. new = Array(Push(s["type"].arr, Text("null")))
    BY <1>2 DEF make_nullable_type
  <2>2. ~Is(new, "str") /\ Is(new, "arr") /\ new.arr = Push(s["type"].arr, Text("null"))
    BY <2>1 DEF Array, Is
  <2> QED BY <1>2, <2>2, PushStrings DEF collect_types, NullableOk
<1> QED BY <1>1, <1>2 DEF NullableOk

(* Without a type, all of them are named.                                  *)
LEMMA AllNamed == collect_types(make_nullable_type(<<>>)) = Types
<1> DEFINE new == make_nullable_type(<<>>)
           list == [i \in 1 .. 6 |-> Text(AllTypes[i])] \o <<Text("null")>>
<1>1. new = Array(list)
  BY DEF make_nullable_type
<1>2. ~Is(new, "str") /\ Is(new, "arr") /\ new.arr = list
  BY <1>1 DEF Array, Is
<1>3. ToSet(list) = {Text(t) : t \in Types}
  BY DEF ToSet, AllTypes, Types
<1>4. \A t \in Types : Is(Text(t), "str") /\ Text(t).str = t
  BY DEF Text, Is
<1>5. {y \in ToSet(list) : Is(y, "str")} = {Text(t) : t \in Types}
  BY <1>3, <1>4
<1>6. {x.str : x \in {Text(t) : t \in Types}} = Types
  BY <1>4
<1>7. Strings(list) = Types
  BY <1>5, <1>6 DEF Strings
<1> QED BY <1>2, <1>7 DEF collect_types

(* Assertions that read none of the keywords that differ agree.            *)
Others ==
  {"minLength", "maxLength", "pattern", "format", "multipleOf", "minItems", "maxItems",
   "uniqueItems", "minProperties", "maxProperties", "required", "dependentRequired"}

Rest(s, v) ==
  /\ apply_string_constraints(s, v)
  /\ IsNumber(v) => check_multiple_of(s, as_f64(v))
  /\ apply_array_constraints(s, v)
  /\ apply_object_constraints(s, v)

(* The rest reads only the other keywords.                                 *)
LEMMA RestSame ==
  ASSUME NEW s, NEW t, NEW v, \A key \in Others : Same(s, t, key)
  PROVE Rest(t, v) <=> Rest(s, v)
<1> USE DEF Others, Same
<1>1. apply_string_constraints(t, v) <=> apply_string_constraints(s, v)
  BY DEF apply_string_constraints, AtLeast, AtMost, HasLimit, apply_pattern, apply_format, Has
<1>2. ASSUME NEW n PROVE check_multiple_of(t, n) <=> check_multiple_of(s, n)
  BY DEF check_multiple_of, HasNumber
<1>3. apply_array_constraints(t, v) <=> apply_array_constraints(s, v)
  BY DEF apply_array_constraints, AtLeast, AtMost, HasLimit, check_unique_items, IsTrue, Has
<1>4. ASSUME NEW keys PROVE apply_required(t, keys) <=> apply_required(s, keys)
  BY DEF apply_required, Has
<1>5. ASSUME NEW keys PROVE apply_dependent_required(t, keys) <=> apply_dependent_required(s, keys)
  <2>1. Has(t, "dependentRequired", "obj") <=> Has(s, "dependentRequired", "obj")
    BY DEF Has
  <2>2. Has(s, "dependentRequired", "obj") => t["dependentRequired"] = s["dependentRequired"]
    BY DEF Has
  <2> QED BY <2>1, <2>2 DEF apply_dependent_required
<1>6. apply_object_constraints(t, v) <=> apply_object_constraints(s, v)
  BY <1>4, <1>5 DEF apply_object_constraints, AtLeast, AtMost, HasLimit, Has
<1> QED BY <1>1, <1>2, <1>3, <1>6 DEF Rest

(* The assertions, by what the adaptation touches.                         *)
LEMMA ApplyParts ==
  ASSUME NEW s, NEW v
  PROVE apply(s, v) <=>
          /\ apply_type(s, v) /\ apply_enum(s, v) /\ apply_const(s, v)
          /\ IsNumber(v) => check_minimum(s, as_f64(v)) /\ check_maximum(s, as_f64(v))
          /\ Rest(s, v)
BY DEF apply, apply_numeric_constraints, Rest

(* Of a nullable object: null passes the type, any other value as before.  *)
LEMMA NullableType ==
  ASSUME NEW s, NEW v, IsTrue(s, "nullable"), NullableOk(s),
         \E t \in Types : instance_matches_type(v, t)
  PROVE apply_type(adapt_nullable(s), v) <=> Is(v, "null") \/ apply_type(s, v)
<1> DEFINE t == adapt_nullable(s)
<1>1. \A names : (\E x \in names \cup {"null"} : instance_matches_type(v, x))
                   <=> Is(v, "null") \/ \E x \in names : instance_matches_type(v, x)
  BY DEF instance_matches_type
<1>2. CASE "type" \in DOMAIN s
  <2>1. "type" \in DOMAIN t /\ t["type"] = make_nullable_type(<<s["type"]>>)
    BY <1>2 DEF adapt_nullable, Put, Without, Get
  <2> QED BY <1>1, <1>2, <2>1, NullableTypes DEF apply_type
<1>3. CASE "type" \notin DOMAIN s
  <2>1. CASE "type" \in DOMAIN t
    <3>1. t["type"] = make_nullable_type(<<>>)
      BY <1>3, <2>1 DEF adapt_nullable, Put, Without, Get
    <3> QED BY <1>3, <2>1, <3>1, AllNamed DEF apply_type
  <2>2. CASE "type" \notin DOMAIN t
    BY <1>3, <2>2 DEF apply_type
  <2> QED BY <2>1, <2>2
<1> QED BY <1>2, <1>3

(* So it is with the values that are listed.                               *)
LEMMA NullableListed ==
  ASSUME NEW s, NEW v, IsTrue(s, "nullable"), NullableOk(s), Is(v, "null") <=> v = Null
  PROVE apply_enum(adapt_nullable(s), v) /\ apply_const(adapt_nullable(s), v)
          <=> Is(v, "null") \/ (apply_enum(s, v) /\ apply_const(s, v))
<1> DEFINE t == adapt_nullable(s)
<1>1. CASE Has(s, "enum", "arr")
  <2>1. "const" \notin DOMAIN s /\ "const" \notin DOMAIN t
    BY <1>1 DEF NullableOk, adapt_nullable, Put, Without, Has
  <2>2. "enum" \in DOMAIN t /\ t["enum"] = Array(Push(s["enum"].arr, Null))
    BY <1>1 DEF adapt_nullable, Put, Without, Has
  <2>3. Has(t, "enum", "arr") /\ t["enum"].arr = Push(s["enum"].arr, Null)
    BY <2>2 DEF Has, Array, Is
  <2>4. ToSet(t["enum"].arr) = ToSet(s["enum"].arr) \cup {Null}
    BY <1>1, <2>3, PushSet DEF NullableOk
  <2> QED BY <1>1, <2>1, <2>3, <2>4 DEF apply_enum, apply_const
<1>2. CASE ~Has(s, "enum", "arr") /\ "const" \in DOMAIN s
  <2>1. "const" \notin DOMAIN t
    BY <1>2 DEF adapt_nullable, Put, Without, Has
  <2>2. "enum" \in DOMAIN t /\ t["enum"] = Array(<<s["const"], Null>>)
    BY <1>2 DEF adapt_nullable, Put, Without, Has
  <2>3. Has(t, "enum", "arr") /\ ToSet(t["enum"].arr) = {s["const"], Null}
    BY <2>2 DEF Has, Array, Is, ToSet
  <2> QED BY <1>2, <2>1, <2>3 DEF apply_enum, apply_const
<1>3. CASE ~Has(s, "enum", "arr") /\ "const" \notin DOMAIN s
  <2>1. "const" \notin DOMAIN t /\ ~Has(t, "enum", "arr")
    BY <1>3 DEF adapt_nullable, Put, Without, Has
  <2> QED BY <1>3, <2>1 DEF apply_enum, apply_const
<1> QED BY <1>1, <1>2, <1>3

(* `nullable', adapted, means what OpenAPI 3.0 means by it.                *)
LEMMA NullableMeans ==
  ASSUME NEW s, NEW v, NullableOk(s), Is(v, "null") <=> v = Null,
         \E t \in Types : instance_matches_type(v, t)
  PROVE apply(adapt_nullable(s), v) <=> Means30(s, v)
<1> DEFINE t == adapt_nullable(s)
<1>1. CASE ~IsTrue(s, "nullable")
  BY <1>1 DEF adapt_nullable, Means30
<1>2. CASE IsTrue(s, "nullable")
  <2>1. Rest(t, v) <=> Rest(s, v)
    <3>1. \A key \in Others : key \notin {"nullable", "type", "enum", "const"}
      BY DEF Others
    <3>2. \A key \in Others : Same(s, t, key)
      BY <3>1, NullableFrame
    <3> QED BY <3>2, RestSame
  <2>2. /\ check_minimum(t, as_f64(v)) <=> check_minimum(s, as_f64(v))
        /\ check_maximum(t, as_f64(v)) <=> check_maximum(s, as_f64(v))
    <3>1. /\ Same(s, t, "minimum") /\ Same(s, t, "exclusiveMinimum")
          /\ Same(s, t, "maximum") /\ Same(s, t, "exclusiveMaximum")
      BY NullableFrame
    <3>2. check_minimum(t, as_f64(v)) <=> check_minimum(s, as_f64(v))
      BY <3>1 DEF Same, check_minimum, HasNumber, IsTrue, Has
    <3>3. check_maximum(t, as_f64(v)) <=> check_maximum(s, as_f64(v))
      BY <3>1 DEF Same, check_maximum, HasNumber, IsTrue, Has
    <3> QED BY <3>2, <3>3
  <2>3. CASE Is(v, "null")
    <3>1. ~Is(v, "str") /\ ~IsNumber(v) /\ ~Is(v, "arr") /\ ~Is(v, "obj")
      BY <2>3 DEF Null, Is, IsNumber
    <3>2. Rest(t, v)
      BY <3>1 DEF Rest, apply_string_constraints, apply_array_constraints, apply_object_constraints
    <3> QED BY <1>2, <2>3, <3>1, <3>2, NullableType, NullableListed, ApplyParts DEF Means30
  <2>4. CASE ~Is(v, "null")
    BY <1>2, <2>1, <2>2, <2>4, NullableType, NullableListed, ApplyParts DEF Means30
  <2> QED BY <2>3, <2>4
<1> QED BY <1>1, <1>2

(* The adaptation of bounds changes no verdict.                            *)
LEMMA BoundsMean ==
  ASSUME NEW s, NEW v, BoundsOk(s)
  PROVE LET lower == adapt_exclusive_bound(s, "exclusiveMinimum", "minimum")
            both == adapt_exclusive_bound(lower, "exclusiveMaximum", "maximum")
        IN apply(both, v) <=> apply(s, v)
<1> DEFINE lower == adapt_exclusive_bound(s, "exclusiveMinimum", "minimum")
           both == adapt_exclusive_bound(lower, "exclusiveMaximum", "maximum")
<1>1. \A key : key \notin {"minimum", "exclusiveMinimum"} => Same(s, lower, key)
  BY BoundFrame
<1>2. \A key : key \notin {"maximum", "exclusiveMaximum"} => Same(lower, both, key)
  BY BoundFrame
<1> HIDE DEF lower, both
<1>3. \A key \in Others \cup {"type", "enum", "const"} : Same(s, both, key)
  <2>1. \A key \in Others \cup {"type", "enum", "const"} :
          key \notin {"minimum", "exclusiveMinimum", "maximum", "exclusiveMaximum"}
    BY DEF Others
  <2> QED BY <1>1, <1>2, <2>1 DEF Same
<1>4. Rest(both, v) <=> Rest(s, v)
  BY <1>3, RestSame
<1>5. /\ apply_type(both, v) <=> apply_type(s, v)
      /\ apply_enum(both, v) <=> apply_enum(s, v)
      /\ apply_const(both, v) <=> apply_const(s, v)
  <2>1. Same(s, both, "type") /\ Same(s, both, "enum") /\ Same(s, both, "const")
    BY <1>3
  <2> QED BY <2>1 DEF Same, apply_type, apply_enum, apply_const, Has
<1>6. check_minimum(both, as_f64(v)) <=> check_minimum(s, as_f64(v))
  <2>1. check_minimum(lower, as_f64(v)) <=> check_minimum(s, as_f64(v))
    BY LowerBound DEF lower
  <2>2. Same(lower, both, "minimum") /\ Same(lower, both, "exclusiveMinimum")
    BY <1>2
  <2>3. check_minimum(both, as_f64(v)) <=> check_minimum(lower, as_f64(v))
    BY <2>2 DEF Same, check_minimum, HasNumber, IsTrue, Has
  <2> QED BY <2>1, <2>3
<1>7. check_maximum(both, as_f64(v)) <=> check_maximum(s, as_f64(v))
  <2>1. Same(s, lower, "maximum") /\ Same(s, lower, "exclusiveMaximum")
    BY <1>1
  <2>2. check_maximum(lower, as_f64(v)) <=> check_maximum(s, as_f64(v))
    BY <2>1 DEF Same, check_maximum, HasNumber, IsTrue, Has
  <2>3. UpperOk(lower)
    BY <2>1 DEF BoundsOk, UpperOk, Same, Has, HasNumber
  <2>4. check_maximum(both, as_f64(v)) <=> check_maximum(lower, as_f64(v))
    BY <2>3, UpperBound DEF both
  <2> QED BY <2>2, <2>4
<1>8. apply(both, v) <=> apply(s, v)
  BY <1>4, <1>5, <1>6, <1>7, ApplyParts
<1> QED BY <1>8 DEF lower, both

(* Adapted, a schema object of OpenAPI 3.0 means to the validator what     *)
(* OpenAPI means by it, for every value: AdaptExact of one object.         *)
THEOREM AdaptationExact ==
  ASSUME NEW s, NEW v, NullableOk(s), BoundsOk(s), Is(v, "null") <=> v = Null,
         \E t \in Types : instance_matches_type(v, t)
  PROVE apply(adapt_keywords(s), v) <=> Means30(s, v)
<1> DEFINE nulled == adapt_nullable(s)
<1>1. /\ Same(s, nulled, "minimum") /\ Same(s, nulled, "exclusiveMinimum")
      /\ Same(s, nulled, "maximum") /\ Same(s, nulled, "exclusiveMaximum")
  BY NullableFrame
<1>2. BoundsOk(nulled)
  BY <1>1 DEF BoundsOk, Same, Has, HasNumber
<1>3. apply(adapt_keywords(s), v) <=> apply(nulled, v)
  BY <1>2, BoundsMean DEF adapt_keywords
<1> QED BY <1>3, NullableMeans

-----------------------------------------------------------------------------
(***************************************************************************)
(* Values and schemas.                                                     *)
(***************************************************************************)
(* Induction, with the set of the numbers that a property holds of.        *)
LEMMA SetInduction ==
  ASSUME NEW S \in SUBSET Nat, 0 \in S, \A n \in S : n + 1 \in S
  PROVE  S = Nat
<1> SUFFICES ASSUME Nat \ S # {} PROVE FALSE
  OBVIOUS
<1>1. PICK x \in Nat \ S : \A y \in Nat \ S : ~(<<y, x>> \in OpToRel(<, Nat))
  BY NatLessThanWellFounded, WFMin
<1>2. x \in Nat /\ x # 0 /\ x - 1 \in Nat
  OBVIOUS
<1>3. x - 1 \in S
  <2>1. x - 1 < x
    BY <1>2
  <2>2. <<x - 1, x>> \in OpToRel(<, Nat)
    BY <1>2, <2>1 DEF OpToRel
  <2> QED
    BY <1>1, <1>2, <2>2
<1>4. (x - 1) + 1 = x
  BY <1>2
<1> QED
  BY <1>1, <1>3, <1>4

(* The keywords that hold schemas, and those that the adaptation rewrites. *)
SchemaKeys == ToSet(SCHEMA_SINGLE_KEYWORDS) \cup ToSet(SCHEMA_ARRAY_KEYWORDS) \cup ToSet(SCHEMA_MAP_KEYWORDS)

Rewritten ==
  {"nullable", "type", "enum", "const", "minimum", "exclusiveMinimum", "maximum", "exclusiveMaximum"}

(* No keyword that holds schemas is an assertion.                          *)
LEMMA SchemaKeysApart == SchemaKeys \cap (Rewritten \cup Others) = {}
<1>1. ToSet(SCHEMA_SINGLE_KEYWORDS) \cap (Rewritten \cup Others) = {}
  BY DEF ToSet, SCHEMA_SINGLE_KEYWORDS, Rewritten, Others
<1>2. ToSet(SCHEMA_ARRAY_KEYWORDS) \cap (Rewritten \cup Others) = {}
  BY DEF ToSet, SCHEMA_ARRAY_KEYWORDS, Rewritten, Others
<1>3. ToSet(SCHEMA_MAP_KEYWORDS) \cap (Rewritten \cup Others) = {}
  BY DEF ToSet, SCHEMA_MAP_KEYWORDS, Rewritten, Others
<1> QED BY <1>1, <1>2, <1>3 DEF SchemaKeys

(* The adaptation of an object's keywords rewrites no other.               *)
LEMMA KeywordsFrame ==
  ASSUME NEW s, NEW key, key \notin Rewritten
  PROVE  Same(s, adapt_keywords(s), key)
<1> DEFINE nulled == adapt_nullable(s)
           lower == adapt_exclusive_bound(nulled, "exclusiveMinimum", "minimum")
           both == adapt_exclusive_bound(lower, "exclusiveMaximum", "maximum")
<1>1. Same(s, nulled, key)
  BY NullableFrame DEF Rewritten
<1>2. Same(nulled, lower, key)
  BY BoundFrame DEF Rewritten
<1>3. Same(lower, both, key)
  BY BoundFrame DEF Rewritten
<1>4. adapt_keywords(s) = both
  BY DEF adapt_keywords
<1> HIDE DEF nulled, lower, both
<1> QED BY <1>1, <1>2, <1>3, <1>4 DEF Same

(* What is inside a value is a value, and less deep.                       *)
LEMMA InsideJson ==
  ASSUME NEW v \in Json
  PROVE  /\ Is(v, "obj") => \A key \in DOMAIN v.obj : v.obj[key] \in Json /\ depth[v.obj[key]] < depth[v]
         /\ Is(v, "arr") => v.arr \in Seq(Json) /\ \A i \in DOMAIN v.arr : v.arr[i] \in Json /\ depth[v.arr[i]] < depth[v]
         /\ depth[v] \in Nat
<1>1. depth[v] \in Nat /\ (Is(v, "arr") => v.arr \in Seq(Json)) /\ \A w \in Inside(v) : w \in Json /\ depth[w] < depth[v]
  BY JsonAssumption
<1>2. Is(v, "obj") => \A key \in DOMAIN v.obj : v.obj[key] \in Inside(v)
  BY DEF Inside, Range
<1>3. Is(v, "arr") => \A i \in DOMAIN v.arr : v.arr[i] \in Inside(v)
  <2>1. v = Null \/ \E variant \in Variants : DOMAIN v = {variant}
    BY JsonAssumption
  <2>2. Is(v, "arr") => ~Is(v, "obj")
    BY <2>1 DEF Is, Variants, Null
  <2> QED BY <2>2 DEF Inside, Range
<1> QED BY <1>1, <1>2, <1>3

(* Value w is a schema inside schema v, one level down.                    *)
Subschema(v, w) ==
  Is(v, "obj") /\ \E key \in DOMAIN v.obj :
    \/ key \in ToSet(SCHEMA_SINGLE_KEYWORDS) /\ w = v.obj[key]
    \/ /\ key \in ToSet(SCHEMA_ARRAY_KEYWORDS) /\ Is(v.obj[key], "arr")
       /\ \E i \in DOMAIN v.obj[key].arr : w = v.obj[key].arr[i]
    \/ /\ key \in ToSet(SCHEMA_MAP_KEYWORDS) /\ Is(v.obj[key], "obj")
       /\ \E k \in DOMAIN v.obj[key].obj : w = v.obj[key].obj[k]

(* It is a value, and less deep.                                           *)
LEMMA SubschemaJson ==
  ASSUME NEW v \in Json, NEW w, Subschema(v, w)
  PROVE  w \in Json /\ depth[w] \in Nat /\ depth[v] \in Nat /\ depth[w] < depth[v]
<1>0. Is(v, "obj")
  BY DEF Subschema
<1>1. PICK key \in DOMAIN v.obj :
        \/ w = v.obj[key]
        \/ Is(v.obj[key], "arr") /\ \E i \in DOMAIN v.obj[key].arr : w = v.obj[key].arr[i]
        \/ Is(v.obj[key], "obj") /\ \E k \in DOMAIN v.obj[key].obj : w = v.obj[key].obj[k]
  BY DEF Subschema
<1> DEFINE u == v.obj[key]
<1>2. u \in Json /\ depth[u] < depth[v] /\ depth[u] \in Nat /\ depth[v] \in Nat
  BY <1>0, InsideJson
<1>3. CASE w = u
  BY <1>2, <1>3
<1>4. CASE w # u
  <2>1. w \in Json /\ depth[w] < depth[u] /\ depth[w] \in Nat
    BY <1>1, <1>2, <1>4, InsideJson
  <2> HIDE DEF u
  <2> QED BY <2>1, <1>2
<1> QED BY <1>3, <1>4

(* What a schema becomes, from what the schemas inside it become.          *)
Adapting(schema, f) ==
  IF Is(schema, "obj") THEN Object(adapt_children(adapt_keywords(schema.obj), f)) ELSE schema

(* It reads no more of them.                                               *)
LEMMA AdaptingReads ==
  ASSUME NEW v, NEW f, NEW g, \A w : Subschema(v, w) => f[w] = g[w]
  PROVE  Adapting(v, f) = Adapting(v, g)
<1> SUFFICES ASSUME Is(v, "obj") PROVE adapt_children(adapt_keywords(v.obj), f) = adapt_children(adapt_keywords(v.obj), g)
  BY DEF Adapting
<1> DEFINE s == v.obj
           t == adapt_keywords(s)
<1>1. ASSUME NEW key \in DOMAIN t, key \in SchemaKeys PROVE key \in DOMAIN s /\ t[key] = s[key]
  BY <1>1, KeywordsFrame, SchemaKeysApart DEF Same
<1> HIDE DEF t
<1>2. ASSUME NEW key \in DOMAIN t PROVE adapt_children(t, f)[key] = adapt_children(t, g)[key]
  <2>1. CASE key \in ToSet(SCHEMA_MAP_KEYWORDS) /\ Is(t[key], "obj")
    <3>1. \A k \in DOMAIN t[key].obj : Subschema(v, t[key].obj[k])
      BY <1>1, <2>1 DEF SchemaKeys, Subschema
    <3>2. [k \in DOMAIN t[key].obj |-> f[t[key].obj[k]]] = [k \in DOMAIN t[key].obj |-> g[t[key].obj[k]]]
      BY <3>1
    <3>3. adapt_children(t, f)[key] = Object([k \in DOMAIN t[key].obj |-> f[t[key].obj[k]]])
      BY <2>1 DEF adapt_children
    <3>4. adapt_children(t, g)[key] = Object([k \in DOMAIN t[key].obj |-> g[t[key].obj[k]]])
      BY <2>1 DEF adapt_children
    <3> QED BY <3>2, <3>3, <3>4
  <2>2. CASE ~(key \in ToSet(SCHEMA_MAP_KEYWORDS) /\ Is(t[key], "obj")) /\ key \in ToSet(SCHEMA_SINGLE_KEYWORDS)
    <3>1. Subschema(v, t[key])
      BY <1>1, <2>2 DEF SchemaKeys, Subschema
    <3> QED BY <3>1, <2>2 DEF adapt_children
  <2>3. CASE /\ ~(key \in ToSet(SCHEMA_MAP_KEYWORDS) /\ Is(t[key], "obj")) /\ key \notin ToSet(SCHEMA_SINGLE_KEYWORDS)
             /\ key \in ToSet(SCHEMA_ARRAY_KEYWORDS) /\ Is(t[key], "arr")
    <3>1. \A i \in DOMAIN t[key].arr : Subschema(v, t[key].arr[i])
      BY <1>1, <2>3 DEF SchemaKeys, Subschema
    <3>2. [i \in DOMAIN t[key].arr |-> f[t[key].arr[i]]] = [i \in DOMAIN t[key].arr |-> g[t[key].arr[i]]]
      BY <3>1
    <3>3. adapt_children(t, f)[key] = Array([i \in DOMAIN t[key].arr |-> f[t[key].arr[i]]])
      BY <2>3 DEF adapt_children
    <3>4. adapt_children(t, g)[key] = Array([i \in DOMAIN t[key].arr |-> g[t[key].arr[i]]])
      BY <2>3 DEF adapt_children
    <3> QED BY <3>2, <3>3, <3>4
  <2>4. CASE /\ ~(key \in ToSet(SCHEMA_MAP_KEYWORDS) /\ Is(t[key], "obj")) /\ key \notin ToSet(SCHEMA_SINGLE_KEYWORDS)
             /\ ~(key \in ToSet(SCHEMA_ARRAY_KEYWORDS) /\ Is(t[key], "arr"))
    BY <2>4 DEF adapt_children
  <2> QED BY <2>1, <2>2, <2>3, <2>4
<1>3. adapt_children(t, f) = [key \in DOMAIN t |-> adapt_children(t, f)[key]] /\ adapt_children(t, g) = [key \in DOMAIN t |-> adapt_children(t, g)[key]]
  BY DEF adapt_children
<1> QED BY <1>2, <1>3 DEF t

(* Whether a question is answered with yes, from the answers to others.    *)
Accepting(q, f) ==
  LET s == q.schema.obj
      v == q.value
      declared == Fields(Get(s, "properties"))
      accepts(schema, value) == f[[schema |-> schema, value |-> value, reading |-> q.reading]]
  IN IF ~Is(q.schema, "obj") THEN q.schema = Boolean(TRUE)
     ELSE /\ IF q.reading = "OpenAPI 3.0" THEN Means30(s, v) ELSE apply(s, v)
          /\ Has(s, "allOf", "arr") =>
               \A i \in DOMAIN s["allOf"].arr : accepts(s["allOf"].arr[i], v)
          /\ Has(s, "anyOf", "arr") =>
               \E i \in DOMAIN s["anyOf"].arr : accepts(s["anyOf"].arr[i], v)
          /\ "not" \in DOMAIN s => ~accepts(s["not"], v)
          /\ "items" \in DOMAIN s /\ Is(v, "arr") =>
               \A i \in DOMAIN v.arr : accepts(s["items"], v.arr[i])
          /\ Is(v, "obj") =>
               \A p \in DOMAIN declared \cap DOMAIN v.obj : accepts(declared[p], v.obj[p])

(* Whether a schema is modern, from which of those inside it are.          *)
Modernity(schema, f) ==
  Is(schema, "obj") =>
    LET s == schema.obj
    IN /\ ~IsTrue(s, "nullable")
       /\ \A key \in {"exclusiveMinimum", "exclusiveMaximum"} : ~Has(s, key, "bool")
       /\ \A key \in DOMAIN s \cap ToSet(SCHEMA_SINGLE_KEYWORDS) : f[s[key]]
       /\ \A key \in DOMAIN s \cap ToSet(SCHEMA_ARRAY_KEYWORDS) :
            Is(s[key], "arr") => \A i \in DOMAIN s[key].arr : f[s[key].arr[i]]
       /\ \A key \in DOMAIN s \cap ToSet(SCHEMA_MAP_KEYWORDS) :
            Is(s[key], "obj") => \A k \in DOMAIN s[key].obj : f[s[key].obj[k]]

(* What is left of the first x parameters, and the last schema among them. *)
Retaining(list, x, f) ==
  IF x = 0 THEN [kept |-> <<>>, schema |-> <<>>]
  ELSE IF is_body(list[x]) THEN [f[x - 1] EXCEPT !.schema = Member(<<list[x]>>, "schema")]
  ELSE [f[x - 1] EXCEPT !.kept = Append(@, list[x])]

(* What each recursive function gives for x, where f is what it gives for  *)
(* smaller arguments: three along the depth of a value, three along a list.*)
Recurring(of, x, f) ==
  CASE of.name = "adapted" -> Adapting(x, f)
    [] of.name = "accepted" -> Accepting(x, f)
    [] of.name = "modern" -> Modernity(x, f)
    [] of.name = "at" -> IF x = 0 THEN <<of.value>> ELSE Member(f[x - 1], of.keys[x])
    [] of.name = "retained" -> Retaining(of.list, x, f)
    [] of.name = "joined" -> IF x = 1 THEN of.seqs[x] ELSE f[x - 1] \o of.seqs[x]

(* It reads only what f gives for arguments of smaller rank.               *)
ReadsLess(of, D, rank) ==
  \A x \in D : \A g, h :
    (\A y \in D : rank[y] < rank[x] => g[y] = h[y]) => Recurring(of, x, g) = Recurring(of, x, h)

(* There is a function that gives this.                                    *)
Defined(of, D) == \E f : f = [x \in D |-> Recurring(of, x, f)]

(* There is one where each value depends on those of smaller rank.         *)
LEMMA RecursionExists ==
  ASSUME NEW of, NEW D, NEW rank \in [D -> Nat], ReadsLess(of, D, rank)
  PROVE  Defined(of, D)
<1>0. ASSUME NEW x \in D, NEW g, NEW h, \A y \in D : rank[y] < rank[x] => g[y] = h[y]
      PROVE  Recurring(of, x, g) = Recurring(of, x, h)
  BY <1>0 DEF ReadsLess
<1> DEFINE Good(n, f) == f = [x \in D |-> f[x]] /\ \A x \in D : rank[x] < n => f[x] = Recurring(of, x, f)
           S == {n \in Nat : \E f : Good(n, f)}
<1>1. 0 \in S
  <2>1. Good(0, [x \in D |-> 0])
    OBVIOUS
  <2> QED BY <2>1
<1>2. ASSUME NEW n \in S PROVE n + 1 \in S
  <2>1. PICK f : Good(n, f)
    OBVIOUS
  <2> DEFINE g == [x \in D |-> Recurring(of, x, f)]
  <2>3. ASSUME NEW x \in D, rank[x] < n + 1 PROVE g[x] = Recurring(of, x, g)
    <3>1. ASSUME NEW y \in D, rank[y] < rank[x] PROVE f[y] = g[y]
      <4>1. rank[x] \in Nat /\ rank[y] \in Nat /\ n \in Nat
        OBVIOUS
      <4>2. rank[y] < n
        BY <4>1, <3>1, <2>3
      <4> QED BY <4>2, <2>1
    <3> HIDE DEF g
    <3>2. Recurring(of, x, f) = Recurring(of, x, g)
      BY <3>1, <1>0
    <3> QED BY <3>2 DEF g
  <2>4. Good(n + 1, g)
    BY <2>3
  <2>5. n + 1 \in Nat
    OBVIOUS
  <2> HIDE DEF g, Good
  <2> QED BY <2>4, <2>5
<1>3. S = Nat
  <2> HIDE DEF S
  <2>1. S \in SUBSET Nat
    BY DEF S
  <2> QED BY <1>1, <1>2, <2>1, SetInduction
<1>4. ASSUME NEW n \in Nat, NEW m \in Nat, n <= m, NEW f, NEW g, Good(n, f), Good(m, g),
             NEW x \in D, rank[x] < n
      PROVE  f[x] = g[x]
  <2> DEFINE T == {k \in Nat : \A y \in D : rank[y] < k /\ k <= n => f[y] = g[y]}
  <2>1. 0 \in T
    OBVIOUS
  <2>2. ASSUME NEW k \in T PROVE k + 1 \in T
    <3> SUFFICES ASSUME NEW y \in D, rank[y] < k + 1, k + 1 <= n PROVE f[y] = g[y]
      OBVIOUS
    <3>1. rank[y] \in Nat /\ k \in Nat
      OBVIOUS
    <3>2. \A z \in D : rank[z] < rank[y] => f[z] = g[z]
      <4> TAKE z \in D
      <4>1. rank[z] \in Nat
        OBVIOUS
      <4> QED BY <3>1, <4>1
    <3>3. Recurring(of, y, f) = Recurring(of, y, g)
      BY <3>2, <1>0
    <3>4. rank[y] < n /\ rank[y] < m
      BY <3>1, <1>4
    <3> QED BY <3>3, <3>4, <1>4
  <2>3. T = Nat
    <3> HIDE DEF T
    <3>1. T \in SUBSET Nat
      BY DEF T
    <3> QED BY <2>1, <2>2, <3>1, SetInduction
  <2>4. n \in T
    BY <2>3
  <2> QED BY <2>4, <1>4
<1> DEFINE G == [n \in Nat |-> CHOOSE g : Good(n, g)]
           f == [x \in D |-> G[rank[x] + 1][x]]
<1>5. ASSUME NEW n \in Nat PROVE Good(n, G[n])
  <2>1. \E g : Good(n, g)
    BY <1>3
  <2> HIDE DEF Good
  <2>2. G[n] = CHOOSE g : Good(n, g)
    OBVIOUS
  <2> QED BY <2>1, <2>2
<1>6. \A x \in D : rank[x] \in Nat /\ rank[x] + 1 \in Nat /\ rank[x] < rank[x] + 1
  OBVIOUS
<1>8. ASSUME NEW x \in D PROVE f[x] = Recurring(of, x, f)
  <2> DEFINE g == G[rank[x] + 1]
  <2>1. Good(rank[x] + 1, g)
    BY <1>5, <1>6
  <2>2. f[x] = g[x] /\ g[x] = Recurring(of, x, g)
    BY <2>1, <1>6
  <2>3. ASSUME NEW y \in D, rank[y] < rank[x] PROVE f[y] = g[y]
    <3>1. Good(rank[y] + 1, G[rank[y] + 1])
      BY <1>5, <1>6
    <3>2. rank[y] + 1 \in Nat /\ rank[x] + 1 \in Nat /\ rank[y] + 1 <= rank[x] + 1 /\ rank[y] < rank[y] + 1
      BY <1>6, <2>3
    <3> HIDE DEF Good, G
    <3>3. G[rank[y] + 1][y] = g[y]
      BY <3>1, <3>2, <2>1, <1>4
    <3> QED BY <3>3
  <2> HIDE DEF f, g
  <2>4. Recurring(of, x, f) = Recurring(of, x, g)
    BY <2>3, <1>0
  <2> QED BY <2>2, <2>4
<1>9. f = [x \in D |-> f[x]]
  OBVIOUS
<1> QED
  <2> HIDE DEF f
  <2>1. f = [x \in D |-> Recurring(of, x, f)]
    BY <1>8, <1>9
  <2> QED BY <2>1 DEF Defined

(* The adaptation of a schema, from that of the schemas inside it.         *)
LEMMA AdaptEquation ==
  \A v \in Json : adapt_oas30_schema[v] = Adapting(v, adapt_oas30_schema)
<1> DEFINE of == [name |-> "adapted"]
<1>3. \A v, f : Recurring(of, v, f) = Adapting(v, f)
  BY DEF Recurring
<1> HIDE DEF of
<1>1. ASSUME NEW v \in Json, NEW g, NEW h, \A y \in Json : depth[y] < depth[v] => g[y] = h[y]
      PROVE  Recurring(of, v, g) = Recurring(of, v, h)
  <2>1. \A w : Subschema(v, w) => g[w] = h[w]
    BY <1>1, SubschemaJson
  <2> QED BY <2>1, AdaptingReads, <1>3
<1>2. \E f : f = [v \in Json |-> Recurring(of, v, f)]
  <2>1. depth \in [Json -> Nat]
    BY JsonAssumption
  <2>2. ReadsLess(of, Json, depth)
    BY <1>1 DEF ReadsLess
  <2>3. Defined(of, Json)
    BY <2>1, <2>2, RecursionExists
  <2> QED BY <2>3 DEF Defined
<1>4. \E f : f = [v \in Json |-> Adapting(v, f)]
  BY <1>2, <1>3
<1>5. adapt_oas30_schema = CHOOSE f : f = [v \in Json |-> Adapting(v, f)]
  BY DEF adapt_oas30_schema, Adapting
<1>6. adapt_oas30_schema = [v \in Json |-> Adapting(v, adapt_oas30_schema)]
  BY <1>4, <1>5
<1> QED BY <1>6

(* Whether a schema is modern, by the schemas inside it.                   *)
LEMMA ModernEquation == \A v \in Json : Modern[v] = Modernity(v, Modern)
<1> DEFINE of == [name |-> "modern"]
<1>3. \A v, f : Recurring(of, v, f) = Modernity(v, f)
  BY DEF Recurring
<1> HIDE DEF of
<1>1. ASSUME NEW v \in Json, NEW g, NEW h, \A y \in Json : depth[y] < depth[v] => g[y] = h[y]
      PROVE  Recurring(of, v, g) = Recurring(of, v, h)
  <2>1. \A w : Subschema(v, w) => g[w] = h[w]
    BY <1>1, SubschemaJson
  <2>2. Modernity(v, g) = Modernity(v, h)
    BY <2>1 DEF Modernity, Subschema
  <2> QED BY <2>2, <1>3
<1>2. \E f : f = [v \in Json |-> Recurring(of, v, f)]
  <2>1. depth \in [Json -> Nat]
    BY JsonAssumption
  <2>2. ReadsLess(of, Json, depth)
    BY <1>1 DEF ReadsLess
  <2>3. Defined(of, Json)
    BY <2>1, <2>2, RecursionExists
  <2> QED BY <2>3 DEF Defined
<1>4. \E f : f = [v \in Json |-> Modernity(v, f)]
  BY <1>2, <1>3
<1>5. Modern = CHOOSE f : f = [v \in Json |-> Modernity(v, f)]
  BY DEF Modern, Modernity
<1>6. Modern = [v \in Json |-> Modernity(v, Modern)]
  BY <1>4, <1>5
<1> QED BY <1>6

(* The schemas that an answer asks about are inside the schema.            *)
LEMMA AskedInside ==
  ASSUME NEW schema, Is(schema, "obj")
  PROVE  LET s == schema.obj
             declared == Fields(Get(s, "properties"))
         IN /\ \A key \in {"allOf", "anyOf"} : Has(s, key, "arr") =>
                 \A i \in DOMAIN s[key].arr : Subschema(schema, s[key].arr[i])
            /\ \A key \in {"not", "items"} : key \in DOMAIN s => Subschema(schema, s[key])
            /\ \A p \in DOMAIN declared : Subschema(schema, declared[p])
<1> DEFINE s == schema.obj
           declared == Fields(Get(s, "properties"))
<1>1. {"allOf", "anyOf"} \subseteq ToSet(SCHEMA_ARRAY_KEYWORDS)
  BY DEF ToSet, SCHEMA_ARRAY_KEYWORDS
<1>2. {"not", "items"} \subseteq ToSet(SCHEMA_SINGLE_KEYWORDS)
  BY DEF ToSet, SCHEMA_SINGLE_KEYWORDS
<1>3. "properties" \in ToSet(SCHEMA_MAP_KEYWORDS)
  BY DEF ToSet, SCHEMA_MAP_KEYWORDS
<1>4. \A key \in {"allOf", "anyOf"} : Has(s, key, "arr") =>
        \A i \in DOMAIN s[key].arr : Subschema(schema, s[key].arr[i])
  BY <1>1 DEF Has, Subschema
<1>5. \A key \in {"not", "items"} : key \in DOMAIN s => Subschema(schema, s[key])
  BY <1>2 DEF Subschema
<1>6. ASSUME NEW p \in DOMAIN declared PROVE Subschema(schema, declared[p])
  <2>1. "properties" \in DOMAIN s /\ Is(s["properties"], "obj") /\ declared = s["properties"].obj
    BY DEF Fields, Get, NoMembers
  <2> QED BY <2>1, <1>3 DEF Subschema
<1> QED BY <1>4, <1>5, <1>6

(* Whether a schema accepts a value, by what those inside it accept.       *)
LEMMA AcceptsEquation == \A q \in Question : Accepts[q] = Accepting(q, Accepts)
<1> DEFINE of == [name |-> "accepted"]
<1>3. \A q, f : Recurring(of, q, f) = Accepting(q, f)
  BY DEF Recurring
<1> HIDE DEF of
<1> DEFINE rank == [q \in Question |-> depth[q.schema]]
<1>0. depth \in [Json -> Nat] /\ rank \in [Question -> Nat]
  BY JsonAssumption DEF Question
<1>1. ASSUME NEW q \in Question, NEW g, NEW h, \A y \in Question : rank[y] < rank[q] => g[y] = h[y]
      PROVE  Recurring(of, q, g) = Recurring(of, q, h)
  <2> DEFINE s == q.schema.obj
             v == q.value
             declared == Fields(Get(s, "properties"))
             Ask(w, x) == [schema |-> w, value |-> x, reading |-> q.reading]
  <2>0. q.schema \in Json /\ v \in Json /\ q.reading \in Readings
    BY DEF Question
  <2>1. ASSUME NEW w, Subschema(q.schema, w), NEW x \in Json PROVE g[Ask(w, x)] = h[Ask(w, x)]
    <3>1. w \in Json /\ depth[w] < depth[q.schema]
      BY <2>0, <2>1, SubschemaJson
    <3>2. Ask(w, x) \in Question /\ Ask(w, x).schema = w
      BY <2>0, <3>1 DEF Question
    <3>3. rank[Ask(w, x)] < rank[q]
      BY <3>1, <3>2
    <3> QED BY <1>1, <3>2, <3>3
  <2>2. CASE ~Is(q.schema, "obj")
    <3>1. Accepting(q, g) = Accepting(q, h)
      BY <2>2 DEF Accepting
    <3> QED BY <3>1, <1>3
  <2>3. CASE Is(q.schema, "obj")
    <3>1. /\ \A key \in {"allOf", "anyOf"} : Has(s, key, "arr") =>
               \A i \in DOMAIN s[key].arr : g[Ask(s[key].arr[i], v)] = h[Ask(s[key].arr[i], v)]
          /\ "not" \in DOMAIN s => g[Ask(s["not"], v)] = h[Ask(s["not"], v)]
      BY <2>0, <2>1, <2>3, AskedInside
    <3>2. "items" \in DOMAIN s /\ Is(v, "arr") =>
            \A i \in DOMAIN v.arr : g[Ask(s["items"], v.arr[i])] = h[Ask(s["items"], v.arr[i])]
      BY <2>0, <2>1, <2>3, AskedInside, InsideJson
    <3>3. Is(v, "obj") =>
            \A p \in DOMAIN declared \cap DOMAIN v.obj :
              g[Ask(declared[p], v.obj[p])] = h[Ask(declared[p], v.obj[p])]
      BY <2>0, <2>1, <2>3, AskedInside, InsideJson
    <3>5. /\ (Has(s, "allOf", "arr") => \A i \in DOMAIN s["allOf"].arr : g[Ask(s["allOf"].arr[i], v)])
            = (Has(s, "allOf", "arr") => \A i \in DOMAIN s["allOf"].arr : h[Ask(s["allOf"].arr[i], v)])
          /\ (Has(s, "anyOf", "arr") => \E i \in DOMAIN s["anyOf"].arr : g[Ask(s["anyOf"].arr[i], v)])
            = (Has(s, "anyOf", "arr") => \E i \in DOMAIN s["anyOf"].arr : h[Ask(s["anyOf"].arr[i], v)])
          /\ ("not" \in DOMAIN s => ~g[Ask(s["not"], v)]) = ("not" \in DOMAIN s => ~h[Ask(s["not"], v)])
      BY <3>1
    <3>6. ("items" \in DOMAIN s /\ Is(v, "arr") => \A i \in DOMAIN v.arr : g[Ask(s["items"], v.arr[i])])
            = ("items" \in DOMAIN s /\ Is(v, "arr") => \A i \in DOMAIN v.arr : h[Ask(s["items"], v.arr[i])])
      BY <3>2
    <3>7. (Is(v, "obj") => \A p \in DOMAIN declared \cap DOMAIN v.obj : g[Ask(declared[p], v.obj[p])])
            = (Is(v, "obj") => \A p \in DOMAIN declared \cap DOMAIN v.obj : h[Ask(declared[p], v.obj[p])])
      BY <3>3
    <3>4. Accepting(q, g) = Accepting(q, h)
      BY <3>5, <3>6, <3>7, <2>3 DEF Accepting
    <3> HIDE DEF s, v, declared, Ask
    <3> QED BY <3>4, <1>3
  <2> QED BY <2>2, <2>3
<1>2. \E f : f = [q \in Question |-> Recurring(of, q, f)]
  <2> HIDE DEF rank
  <2>1. ReadsLess(of, Question, rank)
    BY <1>1 DEF ReadsLess
  <2>2. Defined(of, Question)
    BY <1>0, <2>1, RecursionExists
  <2> QED BY <2>2 DEF Defined
<1>4. \E f : f = [q \in Question |-> Accepting(q, f)]
  BY <1>2, <1>3
<1>5. Accepts = CHOOSE f : f = [q \in Question |-> Accepting(q, f)]
  BY DEF Accepts, Accepting
<1>6. Accepts = [q \in Question |-> Accepting(q, Accepts)]
  BY <1>4, <1>5
<1> QED BY <1>6

-----------------------------------------------------------------------------
(* The keywords that hold schemas, one by one.                             *)
LEMMA KeywordSets ==
  /\ ToSet(SCHEMA_SINGLE_KEYWORDS) =
       {"additionalProperties", "contains", "contentSchema", "else", "if", "items", "not",
        "propertyNames", "then", "unevaluatedItems", "unevaluatedProperties"}
  /\ ToSet(SCHEMA_ARRAY_KEYWORDS) = {"allOf", "anyOf", "oneOf", "prefixItems"}
  /\ ToSet(SCHEMA_MAP_KEYWORDS) =
       {"$defs", "definitions", "dependentSchemas", "patternProperties", "properties"}
<1>1. ToSet(SCHEMA_SINGLE_KEYWORDS) =
        {"additionalProperties", "contains", "contentSchema", "else", "if", "items", "not",
         "propertyNames", "then", "unevaluatedItems", "unevaluatedProperties"}
  BY DEF ToSet, SCHEMA_SINGLE_KEYWORDS
<1>2. ToSet(SCHEMA_ARRAY_KEYWORDS) = {"allOf", "anyOf", "oneOf", "prefixItems"}
  BY DEF ToSet, SCHEMA_ARRAY_KEYWORDS
<1>3. ToSet(SCHEMA_MAP_KEYWORDS) =
        {"$defs", "definitions", "dependentSchemas", "patternProperties", "properties"}
  BY DEF ToSet, SCHEMA_MAP_KEYWORDS
<1> QED BY <1>1, <1>2, <1>3

(* The three kinds are apart.                                              *)
LEMMA KindsApart ==
  /\ ToSet(SCHEMA_SINGLE_KEYWORDS) \cap ToSet(SCHEMA_MAP_KEYWORDS) = {}
  /\ ToSet(SCHEMA_ARRAY_KEYWORDS) \cap ToSet(SCHEMA_MAP_KEYWORDS) = {}
  /\ ToSet(SCHEMA_SINGLE_KEYWORDS) \cap ToSet(SCHEMA_ARRAY_KEYWORDS) = {}
BY KeywordSets

(* What the adapted schema has under each keyword.                         *)
LEMMA AdaptedMembers ==
  ASSUME NEW v \in Json, Is(v, "obj")
  PROVE  LET new == adapt_oas30_schema
             s == v.obj
             u == new[v].obj
         IN /\ Is(new[v], "obj")
            /\ \A key : key \notin SchemaKeys => Same(adapt_keywords(s), u, key)
            /\ \A key \in SchemaKeys : key \in DOMAIN u <=> key \in DOMAIN s
            /\ \A key \in DOMAIN s \cap ToSet(SCHEMA_SINGLE_KEYWORDS) : u[key] = new[s[key]]
            /\ \A key \in DOMAIN s \cap ToSet(SCHEMA_ARRAY_KEYWORDS) :
                 /\ Is(u[key], "arr") <=> Is(s[key], "arr")
                 /\ Is(s[key], "arr") =>
                      u[key].arr = [i \in DOMAIN s[key].arr |-> new[s[key].arr[i]]]
            /\ \A key \in DOMAIN s \cap ToSet(SCHEMA_MAP_KEYWORDS) :
                 /\ Is(u[key], "obj") <=> Is(s[key], "obj")
                 /\ Is(s[key], "obj") =>
                      u[key].obj = [k \in DOMAIN s[key].obj |-> new[s[key].obj[k]]]
<1> DEFINE new == adapt_oas30_schema
           s == v.obj
           t == adapt_keywords(s)
           u == adapt_children(t, new)
<1>1. new[v] = Object(u)
  BY AdaptEquation DEF Adapting
<1>2. Is(new[v], "obj") /\ new[v].obj = u
  BY <1>1 DEF Object, Is
<1>3. \A key \in SchemaKeys : Same(s, t, key)
  BY KeywordsFrame, SchemaKeysApart
<1> HIDE DEF t, new
<1>4. DOMAIN u = DOMAIN t
  BY DEF adapt_children
<1>5. \A key : key \notin SchemaKeys => Same(t, u, key)
  BY DEF adapt_children, SchemaKeys, Same
<1>6. \A key \in SchemaKeys : key \in DOMAIN u <=> key \in DOMAIN s
  BY <1>3, <1>4 DEF Same
<1>7. \A key \in DOMAIN s \cap ToSet(SCHEMA_SINGLE_KEYWORDS) : u[key] = new[s[key]]
  <2> TAKE key \in DOMAIN s \cap ToSet(SCHEMA_SINGLE_KEYWORDS)
  <2>1. key \in DOMAIN t /\ t[key] = s[key] /\ key \notin ToSet(SCHEMA_MAP_KEYWORDS)
    BY <1>3, KindsApart DEF SchemaKeys, Same
  <2> QED BY <2>1 DEF adapt_children
<1>8. \A key \in DOMAIN s \cap ToSet(SCHEMA_ARRAY_KEYWORDS) :
        /\ Is(u[key], "arr") <=> Is(s[key], "arr")
        /\ Is(s[key], "arr") => u[key].arr = [i \in DOMAIN s[key].arr |-> new[s[key].arr[i]]]
  <2> TAKE key \in DOMAIN s \cap ToSet(SCHEMA_ARRAY_KEYWORDS)
  <2>1. /\ key \in DOMAIN t /\ t[key] = s[key]
        /\ key \notin ToSet(SCHEMA_MAP_KEYWORDS) /\ key \notin ToSet(SCHEMA_SINGLE_KEYWORDS)
    BY <1>3, KindsApart DEF SchemaKeys, Same
  <2>2. CASE Is(s[key], "arr")
    <3>1. u[key] = Array([i \in DOMAIN s[key].arr |-> new[s[key].arr[i]]])
      BY <2>1, <2>2 DEF adapt_children
    <3> QED BY <2>2, <3>1 DEF Array, Is
  <2>3. CASE ~Is(s[key], "arr")
    BY <2>1, <2>3 DEF adapt_children
  <2> QED BY <2>2, <2>3
<1>9. \A key \in DOMAIN s \cap ToSet(SCHEMA_MAP_KEYWORDS) :
        /\ Is(u[key], "obj") <=> Is(s[key], "obj")
        /\ Is(s[key], "obj") => u[key].obj = [k \in DOMAIN s[key].obj |-> new[s[key].obj[k]]]
  <2> TAKE key \in DOMAIN s \cap ToSet(SCHEMA_MAP_KEYWORDS)
  <2>1. /\ key \in DOMAIN t /\ t[key] = s[key]
        /\ key \notin ToSet(SCHEMA_ARRAY_KEYWORDS) /\ key \notin ToSet(SCHEMA_SINGLE_KEYWORDS)
    BY <1>3, KindsApart DEF SchemaKeys, Same
  <2>2. CASE Is(s[key], "obj")
    <3>1. u[key] = Object([k \in DOMAIN s[key].obj |-> new[s[key].obj[k]]])
      BY <2>1, <2>2 DEF adapt_children
    <3> QED BY <2>2, <3>1 DEF Object, Is
  <2>3. CASE ~Is(s[key], "obj")
    BY <2>1, <2>3 DEF adapt_children
  <2> QED BY <2>2, <2>3
<1> HIDE DEF u
<1> QED BY <1>2, <1>5, <1>6, <1>7, <1>8, <1>9 DEF t, new

(* The assertions read no other keywords than these.                       *)
LEMMA ApplySame ==
  ASSUME NEW s, NEW t, NEW v, \A key \in Rewritten \cup Others : Same(s, t, key)
  PROVE  apply(t, v) <=> apply(s, v)
<1>1. Rest(t, v) <=> Rest(s, v)
  BY RestSame
<1>2. /\ apply_type(t, v) <=> apply_type(s, v)
      /\ apply_enum(t, v) <=> apply_enum(s, v)
      /\ apply_const(t, v) <=> apply_const(s, v)
  <2>1. Same(s, t, "type") /\ Same(s, t, "enum") /\ Same(s, t, "const")
    BY DEF Rewritten
  <2> QED BY <2>1 DEF Same, apply_type, apply_enum, apply_const, Has
<1>3. /\ check_minimum(t, as_f64(v)) <=> check_minimum(s, as_f64(v))
      /\ check_maximum(t, as_f64(v)) <=> check_maximum(s, as_f64(v))
  <2>1. /\ Same(s, t, "minimum") /\ Same(s, t, "exclusiveMinimum")
        /\ Same(s, t, "maximum") /\ Same(s, t, "exclusiveMaximum")
    BY DEF Rewritten
  <2>2. check_minimum(t, as_f64(v)) <=> check_minimum(s, as_f64(v))
    BY <2>1 DEF Same, check_minimum, HasNumber, IsTrue, Has
  <2>3. check_maximum(t, as_f64(v)) <=> check_maximum(s, as_f64(v))
    BY <2>1 DEF Same, check_maximum, HasNumber, IsTrue, Has
  <2> QED BY <2>2, <2>3
<1> QED BY <1>1, <1>2, <1>3, ApplyParts

(* A value has a JSON type, and the only one that is null is Null.         *)
LEMMA JsonTyped ==
  ASSUME NEW v \in Json
  PROVE  /\ Is(v, "null") <=> v = Null
         /\ \E t \in Types : instance_matches_type(v, t)
         /\ \A a, b \in Variants : Is(v, a) /\ Is(v, b) => a = b
<1>1. v = Null \/ \E variant \in Variants : DOMAIN v = {variant}
  BY JsonAssumption
<1>2. CASE v = Null
  <2>1. DOMAIN v = {"null"}
    BY <1>2 DEF Null
  <2>2. "null" \in Types /\ instance_matches_type(v, "null")
    BY <2>1 DEF Types, instance_matches_type, Is
  <2> QED BY <2>1, <2>2, <1>2 DEF Is, Variants
<1>3. CASE \E variant \in Variants : DOMAIN v = {variant}
  <2>1. PICK variant \in Variants : DOMAIN v = {variant}
    BY <1>3
  <2>2. ~Is(v, "null") /\ v # Null
    BY <2>1 DEF Variants, Is, Null
  <2>3. \E t \in Types : instance_matches_type(v, t)
    <3>1. CASE variant \in {"int", "half"}
      BY <2>1, <3>1 DEF Types, instance_matches_type, Is, IsNumber
    <3>2. CASE variant = "bool"
      BY <2>1, <3>2 DEF Types, instance_matches_type, Is
    <3>3. CASE variant = "str"
      BY <2>1, <3>3 DEF Types, instance_matches_type, Is
    <3>4. CASE variant = "arr"
      BY <2>1, <3>4 DEF Types, instance_matches_type, Is
    <3>5. CASE variant = "obj"
      BY <2>1, <3>5 DEF Types, instance_matches_type, Is
    <3> QED BY <2>1, <3>1, <3>2, <3>3, <3>4, <3>5 DEF Variants
  <2> QED BY <2>1, <2>2, <2>3 DEF Is
<1> QED BY <1>1, <1>2, <1>3

(* A list of values is one of its elements.                                *)
LEMMA OwnRange ==
  ASSUME NEW list \in Seq(Json)
  PROVE  list \in Seq(Range(list))
<1>1. Len(list) \in Nat /\ DOMAIN list = 1 .. Len(list)
  OBVIOUS
<1>2. \A i \in 1 .. Len(list) : list[i] \in Range(list)
  BY <1>1 DEF Range
<1>3. list = [i \in 1 .. Len(list) |-> list[i]]
  BY <1>1
<1> QED BY <1>1, <1>2, <1>3

(* With a value's variant known, that is all the adaptation supposes.      *)
LEMMA RegularObjects ==
  ASSUME NEW v \in Json, Is(v, "obj"), Regular(v.obj)
  PROVE  BoundsOk(v.obj) /\ NullableOk(v.obj)
<1> DEFINE s == v.obj
<1>1. \A key \in DOMAIN s : s[key] \in Json
  BY InsideJson
<1>2. \A key \in DOMAIN s : Is(s[key], "bool") => ~IsNumber(s[key])
  BY <1>1, JsonTyped DEF Variants, IsNumber
<1>3. \A key \in DOMAIN s : Is(s[key], "arr") =>
        ~Is(s[key], "str") /\ s[key].arr \in Seq(Range(s[key].arr))
  BY <1>1, JsonTyped, InsideJson, OwnRange DEF Variants
<1>4. BoundsOk(s)
  BY <1>2 DEF Regular, BoundsOk, Has, HasNumber
<1>5. NullableOk(s)
  BY <1>3 DEF Regular, NullableOk, Has
<1> QED BY <1>4, <1>5

(* Adapted, an object has no keyword left that only OpenAPI 3.0 knows.     *)
LEMMA KeywordsModern ==
  ASSUME NEW v \in Json, Is(v, "obj"), Regular(v.obj)
  PROVE  LET t == adapt_keywords(v.obj)
         IN /\ ~IsTrue(t, "nullable")
            /\ ~Has(t, "exclusiveMinimum", "bool")
            /\ ~Has(t, "exclusiveMaximum", "bool")
<1> DEFINE s == v.obj
           nulled == adapt_nullable(s)
           lower == adapt_exclusive_bound(nulled, "exclusiveMinimum", "minimum")
           both == adapt_exclusive_bound(lower, "exclusiveMaximum", "maximum")
<1>1. \A key \in DOMAIN s : IsNumber(s[key]) => ~Is(s[key], "bool")
  BY InsideJson, JsonTyped DEF Variants, IsNumber
<1>2. \A key \in {"minimum", "maximum"} : key \in DOMAIN s => ~Is(s[key], "bool")
  BY <1>1 DEF Regular
<1>3. ~IsTrue(nulled, "nullable")
  BY DEF adapt_nullable, IsTrue, Has, Put, Without
<1>4. \A key \in {"minimum", "maximum"} : Same(s, nulled, key)
  BY NullableFrame
<1> HIDE DEF nulled
<1>5. ASSUME NEW o, NEW exclusive, NEW bound, bound \in DOMAIN o => ~Is(o[bound], "bool")
      PROVE  ~Has(adapt_exclusive_bound(o, exclusive, bound), exclusive, "bool")
  <2>1. CASE ~Has(o, exclusive, "bool")
    BY <2>1 DEF adapt_exclusive_bound
  <2>2. CASE Has(o, exclusive, "bool") /\ o[exclusive].bool /\ bound \in DOMAIN o
    BY <2>2, <1>5 DEF adapt_exclusive_bound, Put, Without, Has
  <2>3. CASE Has(o, exclusive, "bool") /\ ~(o[exclusive].bool /\ bound \in DOMAIN o)
    BY <2>3 DEF adapt_exclusive_bound, Without, Has
  <2> QED BY <2>1, <2>2, <2>3
<1>6. ~Has(lower, "exclusiveMinimum", "bool")
  BY <1>2, <1>4, <1>5 DEF Same
<1>7. \A key : key \notin {"minimum", "exclusiveMinimum"} => Same(nulled, lower, key)
  BY BoundFrame
<1> HIDE DEF lower
<1>8. \A key : key \notin {"maximum", "exclusiveMaximum"} => Same(lower, both, key)
  BY BoundFrame
<1>9. ~Has(both, "exclusiveMaximum", "bool")
  <2>1. "maximum" \in DOMAIN lower => ~Is(lower["maximum"], "bool")
    BY <1>2, <1>4, <1>7 DEF Same
  <2> QED BY <2>1, <1>5
<1> HIDE DEF both
<1>10. ~IsTrue(both, "nullable") /\ ~Has(both, "exclusiveMinimum", "bool")
  BY <1>3, <1>6, <1>7, <1>8 DEF Same, IsTrue, Has
<1>11. adapt_keywords(s) = both
  BY DEF adapt_keywords, both, lower, nulled
<1> QED BY <1>9, <1>10, <1>11

Asked(schema, v, reading) == [schema |-> schema, value |-> v, reading |-> reading]

(* Of a schema the adaptation keeps the meaning, if it does of those       *)
(* inside it.                                                              *)
LEMMA AdaptedAccepts ==
  ASSUME NEW schema \in Json, NEW v \in Json, Is(schema, "obj") => Regular(schema.obj),
         \A w : Subschema(schema, w) =>
           \A x \in Json : Accepts[Asked(adapt_oas30_schema[w], x, "2020-12")]
                             = Accepts[Asked(w, x, "OpenAPI 3.0")]
  PROVE  Accepts[Asked(adapt_oas30_schema[schema], v, "2020-12")]
           = Accepts[Asked(schema, v, "OpenAPI 3.0")]
<1> DEFINE new == adapt_oas30_schema
           a == Asked(new[schema], v, "2020-12")
           b == Asked(schema, v, "OpenAPI 3.0")
<1>1. new[schema] \in Json
  BY JsonAssumption
<1>2. a \in Question /\ b \in Question
  BY <1>1 DEF Question, Asked, Readings
<1>3. Accepts[a] = Accepting(a, Accepts) /\ Accepts[b] = Accepting(b, Accepts)
  BY <1>2, AcceptsEquation
<1>4. CASE ~Is(schema, "obj")
  <2>1. new[schema] = schema
    BY <1>4, AdaptEquation DEF Adapting
  <2>2. Accepting(a, Accepts) = (schema = Boolean(TRUE)) /\ Accepting(b, Accepts) = (schema = Boolean(TRUE))
    BY <1>4, <2>1 DEF Accepting, Asked
  <2> QED BY <1>3, <2>2
<1>5. CASE Is(schema, "obj")
  <2> DEFINE s == schema.obj
             u == new[schema].obj
             d == Fields(Get(s, "properties"))
             e == Fields(Get(u, "properties"))
             P(w, x) == Accepts[Asked(w, x, "OpenAPI 3.0")]
             Q(w, x) == Accepts[Asked(w, x, "2020-12")]
  <2>1. Is(new[schema], "obj")
    BY <1>5, AdaptedMembers
  <2>2. apply(u, v) <=> Means30(s, v)
    <3>1. \A key \in Rewritten \cup Others : Same(adapt_keywords(s), u, key)
      BY <1>5, AdaptedMembers, SchemaKeysApart
    <3>2. apply(u, v) <=> apply(adapt_keywords(s), v)
      BY <3>1, ApplySame
    <3> QED BY <1>5, <3>2, AdaptationExact, RegularObjects, JsonTyped
  <2>3. \A w : Subschema(schema, w) => \A x \in Json : Q(new[w], x) = P(w, x)
    OBVIOUS
  <2>4. \A key \in {"allOf", "anyOf"} :
          /\ Has(u, key, "arr") <=> Has(s, key, "arr")
          /\ Has(s, key, "arr") =>
               /\ DOMAIN u[key].arr = DOMAIN s[key].arr
               /\ \A i \in DOMAIN s[key].arr : Q(u[key].arr[i], v) = P(s[key].arr[i], v)
    <3> TAKE key \in {"allOf", "anyOf"}
    <3>1. key \in ToSet(SCHEMA_ARRAY_KEYWORDS) /\ key \in SchemaKeys
      BY KeywordSets DEF SchemaKeys
    <3>2. key \in DOMAIN u <=> key \in DOMAIN s
      BY <1>5, <3>1, AdaptedMembers
    <3>3. key \in DOMAIN s =>
            /\ Is(u[key], "arr") <=> Is(s[key], "arr")
            /\ Is(s[key], "arr") => u[key].arr = [i \in DOMAIN s[key].arr |-> new[s[key].arr[i]]]
      BY <1>5, <3>1, AdaptedMembers
    <3>4. Has(s, key, "arr") => \A i \in DOMAIN s[key].arr : Subschema(schema, s[key].arr[i])
      BY <1>5, AskedInside
    <3> HIDE DEF u, s, P, Q, new
    <3>5. Has(u, key, "arr") <=> Has(s, key, "arr")
      BY <3>2, <3>3 DEF Has
    <3>6. ASSUME Has(s, key, "arr")
          PROVE  /\ DOMAIN u[key].arr = DOMAIN s[key].arr
                 /\ \A i \in DOMAIN s[key].arr : Q(u[key].arr[i], v) = P(s[key].arr[i], v)
      <4>1. u[key].arr = [i \in DOMAIN s[key].arr |-> new[s[key].arr[i]]]
        BY <3>3, <3>6 DEF Has
      <4>2. ASSUME NEW i \in DOMAIN s[key].arr PROVE Q(u[key].arr[i], v) = P(s[key].arr[i], v)
        <5>1. u[key].arr[i] = new[s[key].arr[i]]
          BY <4>1
        <5>2. Q(new[s[key].arr[i]], v) = P(s[key].arr[i], v)
          BY <2>3, <3>4, <3>6
        <5> QED BY <5>1, <5>2
      <4> QED BY <4>1, <4>2
    <3> QED BY <3>5, <3>6
  <2>5. \A key \in {"not", "items"} :
          /\ key \in DOMAIN u <=> key \in DOMAIN s
          /\ key \in DOMAIN s => \A x \in Json : Q(u[key], x) = P(s[key], x)
    <3> TAKE key \in {"not", "items"}
    <3>1. key \in ToSet(SCHEMA_SINGLE_KEYWORDS) /\ key \in SchemaKeys
      BY KeywordSets DEF SchemaKeys
    <3>2. key \in DOMAIN u <=> key \in DOMAIN s
      BY <1>5, <3>1, AdaptedMembers
    <3>3. key \in DOMAIN s => u[key] = new[s[key]]
      BY <1>5, <3>1, AdaptedMembers
    <3>4. key \in DOMAIN s => Subschema(schema, s[key])
      BY <1>5, AskedInside
    <3> HIDE DEF u, s, P, Q, new
    <3> QED BY <3>2, <3>3, <3>4, <2>3
  <2>6. /\ DOMAIN e = DOMAIN d
        /\ \A p \in DOMAIN d : \A x \in Json : Q(e[p], x) = P(d[p], x)
    <3>1. "properties" \in ToSet(SCHEMA_MAP_KEYWORDS) /\ "properties" \in SchemaKeys
      BY KeywordSets DEF SchemaKeys
    <3>2. "properties" \in DOMAIN u <=> "properties" \in DOMAIN s
      BY <1>5, <3>1, AdaptedMembers
    <3>3. "properties" \in DOMAIN s =>
            /\ Is(u["properties"], "obj") <=> Is(s["properties"], "obj")
            /\ Is(s["properties"], "obj") =>
                 u["properties"].obj = [p \in DOMAIN s["properties"].obj |-> new[s["properties"].obj[p]]]
      BY <1>5, <3>1, AdaptedMembers
    <3>4. \A p \in DOMAIN d : Subschema(schema, d[p])
      BY <1>5, AskedInside
    <3>5. CASE "properties" \in DOMAIN s /\ Is(s["properties"], "obj")
      <4>1. d = s["properties"].obj /\ e = u["properties"].obj
        BY <3>2, <3>3, <3>5 DEF Fields, Get
      <4>2. e = [p \in DOMAIN d |-> new[d[p]]]
        BY <3>3, <3>5, <4>1
      <4> HIDE DEF e, d, P, Q, new
      <4> QED BY <4>2, <3>4, <2>3
    <3>6. CASE ~("properties" \in DOMAIN s /\ Is(s["properties"], "obj"))
      <4>1. d = NoMembers /\ e = NoMembers
        BY <3>2, <3>3, <3>6 DEF Fields, Get
      <4>2. DOMAIN NoMembers = {}
        BY DEF NoMembers
      <4> HIDE DEF e, d
      <4> QED BY <4>1, <4>2
    <3> QED BY <3>5, <3>6
  <2> DEFINE U1 == Has(u, "allOf", "arr") => \A i \in DOMAIN u["allOf"].arr : Q(u["allOf"].arr[i], v)
             U2 == Has(u, "anyOf", "arr") => \E i \in DOMAIN u["anyOf"].arr : Q(u["anyOf"].arr[i], v)
             U3 == "not" \in DOMAIN u => ~Q(u["not"], v)
             U4 == "items" \in DOMAIN u /\ Is(v, "arr") => \A i \in DOMAIN v.arr : Q(u["items"], v.arr[i])
             U5 == Is(v, "obj") => \A p \in DOMAIN e \cap DOMAIN v.obj : Q(e[p], v.obj[p])
             S1 == Has(s, "allOf", "arr") => \A i \in DOMAIN s["allOf"].arr : P(s["allOf"].arr[i], v)
             S2 == Has(s, "anyOf", "arr") => \E i \in DOMAIN s["anyOf"].arr : P(s["anyOf"].arr[i], v)
             S3 == "not" \in DOMAIN s => ~P(s["not"], v)
             S4 == "items" \in DOMAIN s /\ Is(v, "arr") => \A i \in DOMAIN v.arr : P(s["items"], v.arr[i])
             S5 == Is(v, "obj") => \A p \in DOMAIN d \cap DOMAIN v.obj : P(d[p], v.obj[p])
  <2>7. Accepting(a, Accepts) = (apply(u, v) /\ U1 /\ U2 /\ U3 /\ U4 /\ U5)
    BY <2>1 DEF Accepting, Asked
  <2>8. Accepting(b, Accepts) = (Means30(s, v) /\ S1 /\ S2 /\ S3 /\ S4 /\ S5)
    BY <1>5 DEF Accepting, Asked
  <2>9. /\ Is(v, "arr") => \A i \in DOMAIN v.arr : v.arr[i] \in Json
        /\ Is(v, "obj") => \A p \in DOMAIN v.obj : v.obj[p] \in Json
    BY InsideJson
  <2> HIDE DEF u, s, d, e, P, Q, a, b
  <2>10. (U1 <=> S1) /\ (U2 <=> S2)
    BY <2>4
  <2>11. (U3 <=> S3) /\ (U4 <=> S4)
    BY <2>5, <2>9
  <2>12. U5 <=> S5
    BY <2>6, <2>9
  <2> HIDE DEF U1, U2, U3, U4, U5, S1, S2, S3, S4, S5
  <2>13. (apply(u, v) /\ U1 /\ U2 /\ U3 /\ U4 /\ U5) = (Means30(s, v) /\ S1 /\ S2 /\ S3 /\ S4 /\ S5)
    BY <2>2, <2>10, <2>11, <2>12
  <2>14. Accepts[a] = Accepts[b]
    BY <1>3, <2>7, <2>8, <2>13
  <2> QED BY <2>14 DEF a, b
<1> QED BY <1>4, <1>5

(* It leaves no keyword of OpenAPI 3.0 alone, if none is left inside.      *)
LEMMA AdaptedModern ==
  ASSUME NEW schema \in Json, Is(schema, "obj") => Regular(schema.obj),
         \A w : Subschema(schema, w) => Modern[adapt_oas30_schema[w]]
  PROVE  Modern[adapt_oas30_schema[schema]]
<1> DEFINE new == adapt_oas30_schema
<1>1. new[schema] \in Json
  BY JsonAssumption
<1>2. Modern[new[schema]] = Modernity(new[schema], Modern)
  BY <1>1, ModernEquation
<1>3. CASE ~Is(schema, "obj")
  <2>1. new[schema] = schema
    BY <1>3, AdaptEquation DEF Adapting
  <2> QED BY <1>2, <1>3, <2>1 DEF Modernity
<1>4. CASE Is(schema, "obj")
  <2> DEFINE s == schema.obj
             u == new[schema].obj
             t == adapt_keywords(s)
  <2>1. /\ ~IsTrue(t, "nullable")
        /\ ~Has(t, "exclusiveMinimum", "bool")
        /\ ~Has(t, "exclusiveMaximum", "bool")
    BY <1>4, KeywordsModern
  <2>2. \A key \in {"nullable", "exclusiveMinimum", "exclusiveMaximum"} : Same(t, u, key)
    <3>1. \A key \in {"nullable", "exclusiveMinimum", "exclusiveMaximum"} : key \notin SchemaKeys
      BY SchemaKeysApart DEF Rewritten
    <3> QED BY <1>4, <3>1, AdaptedMembers
  <2>3. /\ ~IsTrue(u, "nullable")
        /\ \A key \in {"exclusiveMinimum", "exclusiveMaximum"} : ~Has(u, key, "bool")
    <3> HIDE DEF t, u
    <3> QED BY <2>1, <2>2 DEF Same, IsTrue, Has
  <2>4. \A key \in SchemaKeys : key \in DOMAIN u <=> key \in DOMAIN s
    BY <1>4, AdaptedMembers
  <2>5. \A key \in DOMAIN u \cap ToSet(SCHEMA_SINGLE_KEYWORDS) : Modern[u[key]]
    <3> TAKE key \in DOMAIN u \cap ToSet(SCHEMA_SINGLE_KEYWORDS)
    <3>1. key \in DOMAIN s
      BY <2>4 DEF SchemaKeys
    <3>2. u[key] = new[s[key]]
      BY <1>4, <3>1, AdaptedMembers
    <3>3. Subschema(schema, s[key])
      BY <1>4, <3>1 DEF Subschema
    <3> QED BY <3>2, <3>3
  <2>6. \A key \in DOMAIN u \cap ToSet(SCHEMA_ARRAY_KEYWORDS) :
          Is(u[key], "arr") => \A i \in DOMAIN u[key].arr : Modern[u[key].arr[i]]
    <3> SUFFICES ASSUME NEW key \in DOMAIN u \cap ToSet(SCHEMA_ARRAY_KEYWORDS), Is(u[key], "arr"),
                        NEW i \in DOMAIN u[key].arr
                 PROVE  Modern[u[key].arr[i]]
      OBVIOUS
    <3>1. key \in DOMAIN s
      BY <2>4 DEF SchemaKeys
    <3>2. Is(s[key], "arr") /\ u[key].arr = [k \in DOMAIN s[key].arr |-> new[s[key].arr[k]]]
      BY <1>4, <3>1, AdaptedMembers
    <3>3. Subschema(schema, s[key].arr[i]) /\ u[key].arr[i] = new[s[key].arr[i]]
      BY <1>4, <3>1, <3>2 DEF Subschema
    <3> QED BY <3>3
  <2>7. \A key \in DOMAIN u \cap ToSet(SCHEMA_MAP_KEYWORDS) :
          Is(u[key], "obj") => \A k \in DOMAIN u[key].obj : Modern[u[key].obj[k]]
    <3> SUFFICES ASSUME NEW key \in DOMAIN u \cap ToSet(SCHEMA_MAP_KEYWORDS), Is(u[key], "obj"),
                        NEW k \in DOMAIN u[key].obj
                 PROVE  Modern[u[key].obj[k]]
      OBVIOUS
    <3>1. key \in DOMAIN s
      BY <2>4 DEF SchemaKeys
    <3>2. Is(s[key], "obj") /\ u[key].obj = [j \in DOMAIN s[key].obj |-> new[s[key].obj[j]]]
      BY <1>4, <3>1, AdaptedMembers
    <3>3. Subschema(schema, s[key].obj[k]) /\ u[key].obj[k] = new[s[key].obj[k]]
      BY <1>4, <3>1, <3>2 DEF Subschema
    <3> QED BY <3>3
  <2>8. Modernity(new[schema], Modern)
    BY <2>3, <2>5, <2>6, <2>7 DEF Modernity
  <2> QED BY <1>2, <2>8
<1> QED BY <1>3, <1>4

(* Adapted, a schema of OpenAPI 3.0 means what it meant to every value, at *)
(* any depth, and has no keyword left that only OpenAPI 3.0 knows.         *)
THEOREM SchemaAdapted ==
  ASSUME NEW S, Written30(S), NEW schema \in S
  PROVE  /\ Modern[adapt_oas30_schema[schema]]
         /\ \A v \in Json : Accepts[Asked(adapt_oas30_schema[schema], v, "2020-12")]
                              = Accepts[Asked(schema, v, "OpenAPI 3.0")]
<1> DEFINE Holds(w) ==
             /\ Modern[adapt_oas30_schema[w]]
             /\ \A v \in Json : Accepts[Asked(adapt_oas30_schema[w], v, "2020-12")]
                                  = Accepts[Asked(w, v, "OpenAPI 3.0")]
           N == {n \in Nat : \A w \in S : depth[w] < n => Holds(w)}
<1>0. S \subseteq Json /\ \A w \in Json : depth[w] \in Nat
  BY JsonAssumption DEF Written30
<1> HIDE DEF Holds
<1>1. 0 \in N
  BY <1>0
<1>2. ASSUME NEW n \in N PROVE n + 1 \in N
  <2>1. n \in Nat /\ n + 1 \in Nat
    OBVIOUS
  <2>2. ASSUME NEW w \in S, depth[w] < n + 1 PROVE Holds(w)
    <3>1. w \in Json /\ (Is(w, "obj") => Regular(w.obj)) /\ \A x : Subschema(w, x) => x \in S
      BY DEF Written30, Subschema
    <3>2. \A x : Subschema(w, x) => Holds(x)
      <4> SUFFICES ASSUME NEW x, Subschema(w, x) PROVE Holds(x)
        OBVIOUS
      <4>1. x \in S /\ depth[x] \in Nat /\ depth[w] \in Nat /\ depth[x] < depth[w]
        BY <3>1, SubschemaJson
      <4>2. depth[x] < n
        BY <4>1, <2>1, <2>2
      <4> QED BY <4>1, <4>2
    <3>3. Modern[adapt_oas30_schema[w]]
      BY <3>1, <3>2, AdaptedModern DEF Holds
    <3>4. \A v \in Json : Accepts[Asked(adapt_oas30_schema[w], v, "2020-12")]
                            = Accepts[Asked(w, v, "OpenAPI 3.0")]
      BY <3>1, <3>2, AdaptedAccepts DEF Holds
    <3> QED BY <3>3, <3>4 DEF Holds
  <2> QED BY <2>1, <2>2
<1>3. N = Nat
  <2> HIDE DEF N
  <2>1. N \in SUBSET Nat
    BY DEF N
  <2> QED BY <1>1, <1>2, <2>1, SetInduction
<1>4. depth[schema] + 1 \in N
  BY <1>0, <1>3
<1>5. depth[schema] < depth[schema] + 1
  BY <1>0
<1>6. Holds(schema)
  BY <1>4, <1>5
<1> QED BY <1>6 DEF Holds

-----------------------------------------------------------------------------
(***************************************************************************)
(* The documents.                                                          *)
(***************************************************************************)
(* Along a list, there is one where each value depends on the one before.  *)
ReadsBefore(of, m, n) ==
  \A x \in m .. n : \A g, h :
    (x # m => g[x - 1] = h[x - 1]) => Recurring(of, x, g) = Recurring(of, x, h)

(* As above.                                                               *)
LEMMA ListRecursion ==
  ASSUME NEW of, NEW m \in Nat, NEW n \in Nat, ReadsBefore(of, m, n)
  PROVE  Defined(of, m .. n)
<1> DEFINE rank == [x \in m .. n |-> x]
<1>1. rank \in [m .. n -> Nat]
  OBVIOUS
<1>2. ASSUME NEW x \in m .. n, NEW g, NEW h, \A y \in m .. n : rank[y] < rank[x] => g[y] = h[y]
      PROVE  Recurring(of, x, g) = Recurring(of, x, h)
  <2>1. x # m => x - 1 \in m .. n /\ rank[x - 1] < rank[x]
    OBVIOUS
  <2> HIDE DEF rank
  <2> QED BY <1>2, <2>1 DEF ReadsBefore
<1> HIDE DEF rank
<1>3. ReadsLess(of, m .. n, rank)
  BY <1>2 DEF ReadsLess
<1> QED BY <1>1, <1>3, RecursionExists

(* What is under the first n keys.                                         *)
Path(v, keys, n) ==
  CHOOSE at : at = [i \in 0 .. n |-> IF i = 0 THEN <<v>> ELSE Member(at[i - 1], keys[i])]

(* It is found key by key.                                                 *)
LEMMA PathSteps ==
  ASSUME NEW v, NEW keys, NEW n \in Nat
  PROVE  LET at == Path(v, keys, n)
         IN at[0] = <<v>> /\ \A i \in 1 .. n : at[i] = Member(at[i - 1], keys[i])
<1> DEFINE of == [name |-> "at", value |-> v, keys |-> keys]
<1>1. \A x, f : Recurring(of, x, f) = (IF x = 0 THEN <<v>> ELSE Member(f[x - 1], keys[x]))
  BY DEF Recurring
<1> HIDE DEF of
<1>2. \E f : f = [x \in 0 .. n |-> Recurring(of, x, f)]
  <2>1. ReadsBefore(of, 0, n)
    BY <1>1 DEF ReadsBefore
  <2>2. Defined(of, 0 .. n)
    BY <2>1, ListRecursion
  <2> QED BY <2>2 DEF Defined
<1>3. \E at : at = [i \in 0 .. n |-> IF i = 0 THEN <<v>> ELSE Member(at[i - 1], keys[i])]
  BY <1>1, <1>2
<1> DEFINE at == Path(v, keys, n)
<1>5. at = [i \in 0 .. n |-> IF i = 0 THEN <<v>> ELSE Member(at[i - 1], keys[i])]
  BY <1>3 DEF Path
<1> HIDE DEF at
<1>6. 0 \in 0 .. n /\ \A i \in 1 .. n : i \in 0 .. n /\ i # 0
  OBVIOUS
<1>7. at[0] = <<v>> /\ \A i \in 1 .. n : at[i] = Member(at[i - 1], keys[i])
  BY <1>5, <1>6
<1> QED BY <1>7 DEF at

(* Under no key is the value itself.                                       *)
LEMMA AtNone == \A v : At(v, <<>>) = <<v>>
<1> TAKE v
<1>1. At(v, <<>>) = Path(v, <<>>, 0)[0]
  BY DEF At, Path
<1> QED BY <1>1, PathSteps

(* Under one key more is what is under that key there.                     *)
LEMMA AtMore ==
  ASSUME NEW v, NEW T, NEW keys \in Seq(T), NEW key \in T
  PROVE  At(v, Append(keys, key)) = Member(At(v, keys), key)
<1> DEFINE n == Len(keys)
           more == Append(keys, key)
           a == Path(v, keys, n)
           b == Path(v, more, n + 1)
<1>1. n \in Nat /\ n + 1 \in Nat /\ Len(more) = n + 1 /\ more[n + 1] = key /\ \A i \in 1 .. n : more[i] = keys[i]
  OBVIOUS
<1>2. At(v, keys) = a[n] /\ At(v, more) = b[n + 1]
  BY <1>1 DEF At, Path
<1>3. /\ a[0] = <<v>> /\ \A i \in 1 .. n : a[i] = Member(a[i - 1], keys[i])
      /\ b[0] = <<v>> /\ \A i \in 1 .. n + 1 : b[i] = Member(b[i - 1], more[i])
  <2> HIDE DEF n, more
  <2>1. a[0] = <<v>> /\ \A i \in 1 .. n : a[i] = Member(a[i - 1], keys[i])
    BY <1>1, PathSteps
  <2>2. b[0] = <<v>> /\ \A i \in 1 .. n + 1 : b[i] = Member(b[i - 1], more[i])
    BY <1>1, PathSteps
  <2> HIDE DEF a, b
  <2> QED BY <2>1, <2>2
<1> HIDE DEF a, b
<1> DEFINE S == {k \in Nat : k <= n => a[k] = b[k]}
<1>4. 0 \in S
  BY <1>3
<1>5. ASSUME NEW k \in S PROVE k + 1 \in S
  <2> SUFFICES ASSUME k + 1 <= n PROVE a[k + 1] = b[k + 1]
    OBVIOUS
  <2>1. k + 1 \in 1 .. n /\ k + 1 \in 1 .. n + 1 /\ (k + 1) - 1 = k /\ k <= n
    BY <1>1
  <2>2. a[k + 1] = Member(a[k], keys[k + 1]) /\ b[k + 1] = Member(b[k], more[k + 1])
    BY <1>3, <2>1
  <2> HIDE DEF more, n
  <2> QED BY <2>1, <2>2, <1>1
<1>6. S = Nat
  <2> HIDE DEF S
  <2>1. S \in SUBSET Nat
    BY DEF S
  <2> QED BY <1>4, <1>5, <2>1, SetInduction
<1>7. a[n] = b[n]
  <2>1. n \in S
    BY <1>1, <1>6
  <2> QED BY <2>1, <1>1
<1>8. b[n + 1] = Member(b[n], more[n + 1])
  <2>1. n + 1 \in 1 .. n + 1 /\ (n + 1) - 1 = n
    BY <1>1
  <2> HIDE DEF more, n
  <2> QED BY <2>1, <1>3
<1> HIDE DEF more, n
<1>9. At(v, more) = Member(At(v, keys), key)
  BY <1>1, <1>2, <1>7, <1>8
<1> QED BY <1>9 DEF more

(* Short sequences, put together from shorter ones.                        *)
LEMMA ShortSequences ==
  ASSUME NEW a, NEW b, NEW c
  PROVE  /\ Append(<<>>, a) = <<a>> /\ Append(<<a>>, b) = <<a, b>> /\ Append(<<a, b>>, c) = <<a, b, c>>
         /\ <<a>> \o <<b>> = <<a, b>> /\ <<a, b>> \o <<c>> = <<a, b, c>>
<1> DEFINE T == {a, b, c}
<1>1. <<>> \in Seq(T) /\ <<a>> \in Seq(T) /\ <<b>> \in Seq(T) /\ <<c>> \in Seq(T) /\ <<a, b>> \in Seq(T)
  OBVIOUS
<1>2. ASSUME NEW m \in Seq(T), NEW l \in Seq(T), Len(m) = Len(l), \A i \in 1 .. Len(m) : m[i] = l[i] PROVE m = l
  <2>1. m = [i \in 1 .. Len(m) |-> m[i]] /\ l = [i \in 1 .. Len(l) |-> l[i]]
    OBVIOUS
  <2> QED BY <2>1, <1>2
<1>3. Append(<<>>, a) = <<a>>
  <2> DEFINE m == Append(<<>>, a)
  <2>1. m \in Seq(T) /\ Len(m) = 1 /\ m[1] = a
    BY <1>1
  <2>2. Len(<<a>>) = 1 /\ <<a>>[1] = a
    OBVIOUS
  <2> HIDE DEF m, T
  <2>3. \A i \in 1 .. 1 : i = 1
    OBVIOUS
  <2>4. m = <<a>>
    BY <1>1, <1>2, <2>1, <2>2, <2>3
  <2> QED BY <2>4 DEF m
<1>4. \A m : m \in Seq(T) /\ Len(m) = 2 /\ m[1] = a /\ m[2] = b => m = <<a, b>>
  <2> SUFFICES ASSUME NEW m \in Seq(T), Len(m) = 2, m[1] = a, m[2] = b PROVE m = <<a, b>>
    OBVIOUS
  <2>2. Len(<<a, b>>) = 2 /\ <<a, b>>[1] = a /\ <<a, b>>[2] = b
    OBVIOUS
  <2>3. \A i \in 1 .. 2 : i = 1 \/ i = 2
    OBVIOUS
  <2> HIDE DEF T
  <2> QED BY <1>1, <1>2, <2>2, <2>3
<1>5. \A m : m \in Seq(T) /\ Len(m) = 3 /\ m[1] = a /\ m[2] = b /\ m[3] = c => m = <<a, b, c>>
  <2> SUFFICES ASSUME NEW m \in Seq(T), Len(m) = 3, m[1] = a, m[2] = b, m[3] = c PROVE m = <<a, b, c>>
    OBVIOUS
  <2>1. <<a, b, c>> \in Seq(T)
    OBVIOUS
  <2>2. Len(<<a, b, c>>) = 3 /\ <<a, b, c>>[1] = a /\ <<a, b, c>>[2] = b /\ <<a, b, c>>[3] = c
    OBVIOUS
  <2>3. \A i \in 1 .. 3 : i = 1 \/ i = 2 \/ i = 3
    OBVIOUS
  <2> HIDE DEF T
  <2> QED BY <1>2, <2>1, <2>2, <2>3
<1>6. Append(<<a>>, b) = <<a, b>>
  <2> DEFINE m == Append(<<a>>, b)
  <2>1. m \in Seq(T) /\ Len(m) = 2 /\ m[1] = a /\ m[2] = b
    BY <1>1
  <2> HIDE DEF m, T
  <2> QED BY <2>1, <1>4 DEF m
<1>7. <<a>> \o <<b>> = <<a, b>>
  <2> DEFINE m == <<a>> \o <<b>>
  <2>1. m \in Seq(T) /\ Len(m) = 2 /\ m[1] = a /\ m[2] = b
    BY <1>1
  <2> HIDE DEF m, T
  <2> QED BY <2>1, <1>4 DEF m
<1>8. Append(<<a, b>>, c) = <<a, b, c>>
  <2> DEFINE m == Append(<<a, b>>, c)
  <2>1. m \in Seq(T) /\ Len(m) = 3 /\ m[1] = a /\ m[2] = b /\ m[3] = c
    BY <1>1
  <2> HIDE DEF m, T
  <2> QED BY <2>1, <1>5 DEF m
<1>9. <<a, b>> \o <<c>> = <<a, b, c>>
  <2> DEFINE m == <<a, b>> \o <<c>>
  <2>1. m \in Seq(T) /\ Len(m) = 3 /\ m[1] = a /\ m[2] = b /\ m[3] = c
    BY <1>1
  <2> HIDE DEF m, T
  <2> QED BY <2>1, <1>5 DEF m
<1> QED BY <1>3, <1>6, <1>7, <1>8, <1>9

(* Under two keys, and under three.                                        *)
LEMMA AtTwo == \A v, a, b : At(v, <<a, b>>) = Member(Member(<<v>>, a), b)
<1> TAKE v, a, b
<1>1. At(v, Append(<<>>, a)) = Member(At(v, <<>>), a)
  <2>1. <<>> \in Seq({a}) /\ a \in {a}
    OBVIOUS
  <2> QED BY <2>1, AtMore
<1>2. At(v, Append(<<a>>, b)) = Member(At(v, <<a>>), b)
  <2>1. <<a>> \in Seq({a, b}) /\ b \in {a, b}
    OBVIOUS
  <2> QED BY <2>1, AtMore
<1>3. Append(<<>>, a) = <<a>> /\ Append(<<a>>, b) = <<a, b>>
  BY ShortSequences
<1> QED BY <1>1, <1>2, <1>3, AtNone

(* As above.                                                               *)
LEMMA AtThree == \A v, a, b, c : At(v, <<a, b, c>>) = Member(Member(Member(<<v>>, a), b), c)
<1> TAKE v, a, b, c
<1>1. At(v, Append(<<a, b>>, c)) = Member(At(v, <<a, b>>), c)
  <2>1. <<a, b>> \in Seq({a, b, c}) /\ c \in {a, b, c}
    OBVIOUS
  <2> QED BY <2>1, AtMore
<1>2. Append(<<a, b>>, c) = <<a, b, c>>
  BY ShortSequences
<1>3. At(v, <<a, b, c>>) = Member(At(v, <<a, b>>), c)
  <2> DEFINE keys == Append(<<a, b>>, c)
  <2>1. At(v, keys) = Member(At(v, <<a, b>>), c)
    BY <1>1
  <2>2. keys = <<a, b, c>>
    BY <1>2
  <2> HIDE DEF keys
  <2> QED BY <2>1, <2>2
<1>4. At(v, <<a, b>>) = Member(Member(<<v>>, a), b)
  BY AtTwo
<1> QED BY <1>3, <1>4

(* From two keys to a third one.                                           *)
LEMMA AtLast ==
  \A v, a, b, c : At(v, <<a, b, c>>) = Member(At(v, <<a, b>>), c)
<1> TAKE v, a, b, c
<1>1. At(v, <<a, b, c>>) = Member(Member(Member(<<v>>, a), b), c)
  BY AtThree
<1>2. At(v, <<a, b>>) = Member(Member(<<v>>, a), b)
  BY AtTwo
<1> QED BY <1>1, <1>2

(* What the first n of these sequences are together.                       *)
Joined(seqs, n) ==
  CHOOSE flatten : flatten = [i \in 1 .. n |-> IF i = 1 THEN seqs[i] ELSE flatten[i - 1] \o seqs[i]]

(* The tokens of the first keys, for each number of them.                  *)
Along(keys) == Joined([i \in DOMAIN keys |-> Tokens(keys[i])], Len(keys))

(* A pointer grows by the tokens of one key after the other.               *)
LEMMA PointerSteps ==
  ASSUME NEW T, NEW keys \in Seq(T), Len(keys) # 0
  PROVE  /\ Pointer(keys) = Along(keys)[Len(keys)] /\ Along(keys)[1] = Tokens(keys[1])
         /\ \A i \in 2 .. Len(keys) : Along(keys)[i] = Along(keys)[i - 1] \o Tokens(keys[i])
<1> DEFINE n == Len(keys)
           seqs == [i \in DOMAIN keys |-> Tokens(keys[i])]
           f == Joined(seqs, n)
           of == [name |-> "joined", seqs |-> seqs]
<1>1. n \in Nat /\ n # 0 /\ DOMAIN keys = 1 .. n /\ DOMAIN seqs = 1 .. n /\ Len(seqs) = n
  <2>1. n \in Nat /\ n # 0 /\ DOMAIN keys = 1 .. n
    OBVIOUS
  <2>2. DOMAIN seqs = 1 .. n
    BY <2>1
  <2>3. seqs = [i \in 1 .. n |-> Tokens(keys[i])]
    BY <2>1
  <2>4. Len(seqs) = n
    <3> HIDE DEF n
    <3> QED BY <2>1, <2>3
  <2> QED BY <2>1, <2>2, <2>4
<1>2. \A i \in 1 .. n : seqs[i] = Tokens(keys[i])
  BY <1>1
<1> HIDE DEF seqs, n
<1>3. \A x, g : Recurring(of, x, g) = (IF x = 1 THEN seqs[x] ELSE g[x - 1] \o seqs[x])
  BY DEF Recurring
<1> HIDE DEF of
<1>4. \E g : g = [i \in 1 .. n |-> IF i = 1 THEN seqs[i] ELSE g[i - 1] \o seqs[i]]
  <2>1. ReadsBefore(of, 1, n)
    BY <1>3 DEF ReadsBefore
  <2>2. Defined(of, 1 .. n)
    BY <1>1, <2>1, ListRecursion
  <2>3. PICK g : g = [i \in 1 .. n |-> Recurring(of, i, g)]
    BY <2>2 DEF Defined
  <2>4. \A i \in 1 .. n : Recurring(of, i, g) = (IF i = 1 THEN seqs[i] ELSE g[i - 1] \o seqs[i])
    BY <1>3
  <2>5. g = [i \in 1 .. n |-> IF i = 1 THEN seqs[i] ELSE g[i - 1] \o seqs[i]]
    BY <2>3, <2>4
  <2> QED BY <2>5
<1>5. f = [i \in 1 .. n |-> IF i = 1 THEN seqs[i] ELSE f[i - 1] \o seqs[i]]
  BY <1>4 DEF Joined
<1>6. Pointer(keys) = f[n]
  <2>1. Pointer(keys) = FlattenSeq(seqs)
    BY DEF Pointer, seqs
  <2>2. FlattenSeq(seqs) = f[n]
    BY <1>1 DEF FlattenSeq, Joined
  <2> QED BY <2>1, <2>2
<1> HIDE DEF f
<1>7. \A i \in 1 .. n : f[i] = (IF i = 1 THEN seqs[i] ELSE f[i - 1] \o seqs[i])
  BY <1>5
<1>8. 1 \in 1 .. n /\ \A i \in 2 .. n : i \in 1 .. n /\ i # 1
  BY <1>1
<1>9. f[1] = Tokens(keys[1])
  BY <1>2, <1>7, <1>8
<1>10. ASSUME NEW i \in 2 .. n PROVE f[i] = f[i - 1] \o Tokens(keys[i])
  <2>1. i \in 1 .. n /\ i # 1
    BY <1>8
  <2>2. f[i] = f[i - 1] \o seqs[i]
    BY <1>7, <2>1, Zenon
  <2> QED BY <2>1, <2>2, <1>2
<1> QED BY <1>6, <1>9, <1>10 DEF f, seqs, n, Along

(* A pointer of three keys without slash and tilde is these three.         *)
LEMMA PlainPointer ==
  ASSUME NEW a, NEW b, NEW c, Tokens(a) = <<a>>, Tokens(b) = <<b>>, Tokens(c) = <<c>>
  PROVE  Pointer(<<a, b, c>>) = <<a, b, c>>
<1> DEFINE keys == <<a, b, c>>
           f == Along(keys)
           T == {a, b, c}
<1>1. keys \in Seq(T) /\ Len(keys) = 3 /\ keys[1] = a /\ keys[2] = b /\ keys[3] = c
  OBVIOUS
<1> HIDE DEF keys, T
<1> HIDE DEF f
<1>0. /\ Pointer(keys) = f[Len(keys)] /\ f[1] = Tokens(keys[1])
      /\ \A i \in 2 .. Len(keys) : f[i] = f[i - 1] \o Tokens(keys[i])
  <2>1. Len(keys) # 0
    BY <1>1
  <2>2. keys \in Seq(T)
    BY <1>1
  <2> QED BY <2>1, <2>2, PointerSteps DEF f
<1>2. Pointer(keys) = f[3] /\ f[1] = Tokens(a) /\ \A i \in 2 .. 3 : f[i] = f[i - 1] \o Tokens(keys[i])
  BY <1>0, <1>1
<1>3. f[2] = f[1] \o Tokens(b) /\ f[3] = f[2] \o Tokens(c)
  <2>1. 2 \in 2 .. 3 /\ 3 \in 2 .. 3 /\ 2 - 1 = 1 /\ 3 - 1 = 2
    OBVIOUS
  <2>2. f[2] = f[2 - 1] \o Tokens(keys[2])
    BY <1>2, <2>1, Zenon
  <2>3. f[3] = f[3 - 1] \o Tokens(keys[3])
    BY <1>2, <2>1, Zenon
  <2> QED BY <1>1, <2>1, <2>2, <2>3
<1>4. f[2] = <<a, b>>
  BY <1>2, <1>3, ShortSequences
<1>5. f[3] = <<a, b>> \o <<c>>
  BY <1>3, <1>4
<1>6. Pointer(keys) = <<a, b, c>>
  BY <1>2, <1>5, ShortSequences
<1> QED BY <1>6 DEF keys

(* The document that schemas are extracted from.                           *)
Normalised(doc, v) == IF v = "2.0" THEN normalise_swagger(doc) ELSE doc

Holder(doc) == Member(<<doc>>, "components")

(* After the conversion `components' has the definitions for its schemas,  *)
(* or is what it was.                                                      *)
LEMMA LiftedComponents ==
  ASSUME NEW doc, Is(doc, "obj")
  PROVE  LET s == doc.obj
             comp == IF "components" \in DOMAIN s THEN s["components"] ELSE Object(NoMembers)
         IN Holder(normalise_swagger(doc)) =
              IF "definitions" \notin DOMAIN s THEN Holder(doc)
              ELSE <<IF Is(comp, "obj") THEN Object(Put(comp.obj, "schemas", s["definitions"])) ELSE comp>>
<1> DEFINE s == doc.obj
           comp == IF "components" \in DOMAIN s THEN s["components"] ELSE Object(NoMembers)
           new == IF Is(comp, "obj") THEN Object(Put(comp.obj, "schemas", s["definitions"])) ELSE comp
           lifted == lift_definitions(s)
           t == lift_body_parameters(lifted)
<1>1. Is(Object(t), "obj") /\ Object(t).obj = t /\ normalise_swagger(doc) = Object(t)
  BY DEF Object, Is, normalise_swagger
<1>2. Same(lifted, t, "components")
  BY DEF lift_body_parameters, Put, Same
<1>3. Holder(normalise_swagger(doc)) = Get(lifted, "components")
  <2> HIDE DEF t, lifted
  <2> QED BY <1>1, <1>2 DEF Holder, Member, Get, Same
<1>4. CASE "definitions" \notin DOMAIN s
  <2>1. lifted = s
    BY <1>4 DEF lift_definitions
  <2> QED BY <1>3, <1>4, <2>1 DEF Holder, Member
<1>5. CASE "definitions" \in DOMAIN s
  <2>1. comp = IF "components" \in DOMAIN Without(s, "definitions")
               THEN Without(s, "definitions")["components"] ELSE Object(NoMembers)
    BY DEF Without
  <2>2. lifted = Put(Without(s, "definitions"), "components", new)
    BY <1>5, <2>1 DEF lift_definitions
  <2> HIDE DEF new, comp
  <2>3. Get(lifted, "components") = <<new>>
    BY <2>2 DEF Put, Get
  <2> QED BY <1>3, <1>5, <2>3 DEF new, comp
<1> QED BY <1>4, <1>5

(* The schemas of the document, as extraction finds them.                  *)
Found(doc) == Fields(At(doc, <<"components", "schemas">>))

(* They are the written ones, or none where `components' is no object.     *)
LEMMA FoundGiven ==
  ASSUME NEW doc, Is(doc, "obj"), NEW v
  PROVE  LET new == Normalised(doc, v)
         IN /\ Found(new) = Given(doc, v) \/ Found(new) = NoMembers
            /\ Holder(new) = <<>> \/ Is(Holder(new)[1], "obj") => Found(new) = Given(doc, v)
<1> DEFINE new == Normalised(doc, v)
           s == doc.obj
           comp == IF "components" \in DOMAIN s THEN s["components"] ELSE Object(NoMembers)
           moved == v = "2.0" /\ "definitions" \in DOMAIN s
<1>1. \A d : Found(d) = Fields(Member(Holder(d), "schemas"))
  BY AtTwo DEF Found, Holder
<1>2. CASE ~moved
  <2>1. Holder(new) = Holder(doc)
    BY <1>2, LiftedComponents DEF Normalised
  <2>2. Found(new) = Found(doc)
    BY <1>1, <2>1
  <2>3. Given(doc, v) = Found(doc)
    BY <1>2 DEF Given, Found
  <2> QED BY <2>2, <2>3
<1>3. CASE moved /\ Is(comp, "obj")
  <2> DEFINE put == Put(comp.obj, "schemas", s["definitions"])
  <2>1. Holder(new) = <<Object(put)>>
    BY <1>3, LiftedComponents DEF Normalised
  <2>2. Is(Object(put), "obj") /\ Object(put).obj = put
    BY DEF Object, Is
  <2>3. "schemas" \in DOMAIN put /\ put["schemas"] = s["definitions"]
    BY DEF Put
  <2> HIDE DEF put
  <2>4. Member(<<Object(put)>>, "schemas") = <<s["definitions"]>>
    BY <2>2, <2>3 DEF Member, Get
  <2>5. Member(<<doc>>, "definitions") = <<s["definitions"]>>
    BY <1>3 DEF Member, Get
  <2>6. Found(new) = Given(doc, v)
    BY <1>1, <1>3, <2>1, <2>4, <2>5 DEF Given
  <2> QED BY <2>6
<1>4. CASE moved /\ ~Is(comp, "obj")
  <2>1. Holder(new) = <<comp>>
    BY <1>4, LiftedComponents DEF Normalised
  <2>2. Member(<<comp>>, "schemas") = <<>>
    <3> HIDE DEF comp
    <3> QED BY <1>4 DEF Member
  <2>3. Found(new) = NoMembers
    BY <1>1, <2>1, <2>2 DEF Fields
  <2>4. Holder(new) # <<>> /\ ~Is(Holder(new)[1], "obj")
    <3> HIDE DEF comp
    <3> QED BY <1>4, <2>1
  <2> QED BY <2>3, <2>4
<1> QED BY <1>2, <1>3, <1>4

-----------------------------------------------------------------------------
(* What is extracted is what the version makes of the document as it was   *)
(* read.                                                                   *)
Kept ==
  /\ input \in Docs
  /\ version # Pending => version = detect_version(input)
  /\ raw = Normalised(input, version)
  /\ diagnostics = IF version = "2.0" THEN swagger_diagnostics(input) ELSE <<>>
  /\ components # Pending =>
       version \in Versions /\ components = extract_component_schemas(raw, version)
  /\ paths # Pending => version \in Versions /\ paths = extract_path_schemas(raw, version)

(* It is so from the start on.                                             *)
LEMMA KeptHolds == OpenApiSpec => []Kept
<1> USE OpenApiAssumption DEF Versions
<1>1. OpenApiInit => Kept
  BY DEF OpenApiInit, Kept, Normalised
<1>2. Kept /\ [OpenApiNext]_openapi_vars => Kept'
  <2> SUFFICES ASSUME Kept, [OpenApiNext]_openapi_vars PROVE Kept'
    OBVIOUS
  <2>1. CASE from_value
    <3>1. components = Pending /\ paths = Pending /\ raw = input /\ diagnostics = <<>>
      BY <2>1 DEF from_value, Kept, Normalised
    <3>2. raw' = Normalised(input, version')
      BY <2>1, <3>1 DEF from_value, Normalised
    <3>3. diagnostics' = IF version' = "2.0" THEN swagger_diagnostics(input) ELSE <<>>
      BY <2>1, <3>1 DEF from_value
    <3> QED BY <2>1, <3>1, <3>2, <3>3 DEF from_value, Kept
  <2>2. CASE component_schemas
    BY <2>2 DEF component_schemas, Kept
  <2>3. CASE path_schemas
    BY <2>3 DEF path_schemas, Kept
  <2>4. CASE UNCHANGED openapi_vars
    BY <2>4 DEF openapi_vars, Kept
  <2> QED BY <2>1, <2>2, <2>3, <2>4 DEF OpenApiNext, Extracted
<1> QED BY <1>1, <1>2, PTL DEF OpenApiSpec

(* With these, each entry is the found schema, adapted.                    *)
LEMMA EntriesFound ==
  ASSUME Kept, components # Pending
  PROVE  /\ version \in Versions /\ Is(input, "obj") /\ raw = Normalised(input, version)
         /\ Written = Given(input, version)
         /\ DOMAIN components = DOMAIN Found(raw)
         /\ \A n \in DOMAIN components :
              /\ components[n].schema = adapt_schema(Found(raw)[n], version)
              /\ components[n].pointer = Pointer(<<"components", "schemas", n>>)
<1>1. version \in Versions /\ components = extract_component_schemas(raw, version)
  BY DEF Kept
<1>2. Is(input, "obj") /\ raw = Normalised(input, version)
  BY OpenApiAssumption DEF Kept, Is
<1>3. Written = Given(input, version)
  BY DEF Written
<1>4. components = [n \in DOMAIN Found(raw) |->
                      [name |-> <<n>>, schema |-> adapt_schema(Found(raw)[n], version),
                       pointer |-> Pointer(<<"components", "schemas", n>>)]]
  BY <1>1 DEF extract_component_schemas, Found
<1>5. DOMAIN components = DOMAIN Found(raw)
  BY <1>4
<1>6. ASSUME NEW n \in DOMAIN components
      PROVE  /\ components[n].schema = adapt_schema(Found(raw)[n], version)
             /\ components[n].pointer = Pointer(<<"components", "schemas", n>>)
  BY <1>4, <1>5
<1> QED BY <1>1, <1>2, <1>3, <1>5, <1>6

(* Every schema of a document is extracted under its name, with a pointer  *)
(* that leads to it; or none is, where `components' is no object.          *)
THEOREM ComponentsExactHolds == OpenApiSpec => []ComponentsExact
<1>1. Kept => ComponentsExact
  <2> DEFINE holder == Member(<<raw>>, "components")
             kept == holder = <<>> \/ Is(holder[1], "obj")
  <2> SUFFICES ASSUME Kept, components # Pending
               PROVE  /\ DOMAIN components = IF kept THEN DOMAIN Written ELSE {}
                      /\ \A n \in DOMAIN components :
                           Tokens(n) = <<n>> => At(raw, components[n].pointer) = <<Written[n]>>
    BY DEF ComponentsExact
  <2>0. Found(raw) = IF kept THEN Written ELSE NoMembers
    <3>1. kept => Found(raw) = Written
      BY EntriesFound, FoundGiven DEF Holder
    <3>2. Found(raw) = Fields(Member(holder, "schemas"))
      BY AtTwo DEF Found
    <3>3. ~kept => Found(raw) = NoMembers
      <4> HIDE DEF holder
      <4> QED BY <3>2 DEF Member, Fields
    <3> QED BY <3>1, <3>3
  <2>2. DOMAIN components = IF kept THEN DOMAIN Written ELSE {}
    BY EntriesFound, <2>0 DEF NoMembers
  <2>3. ASSUME NEW n \in DOMAIN components, Tokens(n) = <<n>>
        PROVE  At(raw, components[n].pointer) = <<Written[n]>>
    <3>0. n \in DOMAIN Written /\ Found(raw) = Written
      BY <2>0, <2>2, <2>3
    <3>1. Tokens("components") = <<"components">> /\ Tokens("schemas") = <<"schemas">>
      BY OpenApiAssumption DEF PointerKeys, Tokens
    <3>2. components[n].pointer = <<"components", "schemas", n>>
      BY EntriesFound, <2>2, <2>3, <3>1, PlainPointer
    <3>3. At(raw, <<"components", "schemas", n>>) = Member(At(raw, <<"components", "schemas">>), n)
      BY AtLast
    <3>4. Fields(At(raw, <<"components", "schemas">>)) = Written
      BY <3>0 DEF Found
    <3> DEFINE opt == At(raw, <<"components", "schemas">>)
    <3> HIDE DEF opt
    <3>5. Fields(opt) = Written => Member(opt, n) = <<Written[n]>>
      BY <3>0 DEF Fields, Member, NoMembers, Get
    <3> QED BY <3>2, <3>3, <3>4, <3>5 DEF opt
  <2> QED BY <2>2, <2>3
<1> QED BY <1>1, KeptHolds, PTL

(* What is extracted of such documents means to the validator what they    *)
(* mean by it, and has no keyword of OpenAPI 3.0 left.                     *)
THEOREM AdaptExactHolds ==
  ASSUME NEW S, Documents30(S)
  PROVE  OpenApiSpec => []AdaptExact
<1>1. Kept => AdaptExact
  <2> SUFFICES ASSUME Kept, components # Pending
               PROVE  /\ \A n \in DOMAIN components \cap DOMAIN Written :
                           SameMeaning(Written[n], components[n].schema, version)
                      /\ version \in {"2.0", "3.0"} => \A n \in DOMAIN components : Modern[components[n].schema]
    BY DEF AdaptExact
  <2>0. input \in Docs /\ version \in Versions /\ Values \subseteq Json
    BY EntriesFound, JsonAssumption DEF Kept
  <2>1. Found(raw) = Written \/ Found(raw) = NoMembers
    BY EntriesFound, FoundGiven
  <2>2. \A n \in DOMAIN components : n \in DOMAIN Written /\ components[n].schema = adapt_schema(Written[n], version)
    <3>1. DOMAIN NoMembers = {}
      BY DEF NoMembers
    <3> QED BY EntriesFound, <2>1, <3>1
  <2>3. ASSUME NEW n \in DOMAIN components, version \in {"2.0", "3.0"}
        PROVE  /\ Modern[components[n].schema]
               /\ SameMeaning(Written[n], components[n].schema, version)
    <3>1. Written[n] \in S
      <4>1. Written[n] \in Range(Written)
        BY <2>2, <2>3 DEF Range
      <4>2. Written = Given(input, version)
        BY EntriesFound
      <4> QED BY <4>1, <4>2, <2>0, <2>3 DEF Documents30
    <3>2. components[n].schema = adapt_oas30_schema[Written[n]]
      BY <2>2, <2>3 DEF adapt_schema
    <3>3. /\ Modern[adapt_oas30_schema[Written[n]]]
          /\ \A v \in Json : Accepts[Asked(adapt_oas30_schema[Written[n]], v, "2020-12")]
                               = Accepts[Asked(Written[n], v, "OpenAPI 3.0")]
      BY <3>1, SchemaAdapted DEF Documents30
    <3> QED BY <2>0, <2>3, <3>2, <3>3 DEF SameMeaning, Asked
  <2>4. ASSUME NEW n \in DOMAIN components, version \notin {"2.0", "3.0"}
        PROVE  SameMeaning(Written[n], components[n].schema, version)
    <3>1. components[n].schema = Written[n]
      BY <2>0, <2>2, <2>4 DEF adapt_schema, Versions
    <3> QED BY <2>4, <3>1 DEF SameMeaning
  <2> QED BY <2>3, <2>4
<1> QED BY <1>1, KeptHolds, PTL

(* The constraints that the compiler keeps of a schema refuse nothing that *)
(* the validator accepts; and all that it refuses, if by keywords that     *)
(* both read.                                                              *)
THEOREM NodeExactHolds == OpenApiSpec => []NodeExact
<1>1. NodeExact
  <2> SUFFICES ASSUME NEW schema, NEW v \in Values
               PROVE  /\ apply(schema.obj, v) => Allows(Node(schema.obj), v)
                      /\ SameKeywords(schema.obj) /\ Allows(Node(schema.obj), v) => apply(schema.obj, v)
    BY DEF NodeExact
  <2>1. \E t \in Types : instance_matches_type(v, t)
    BY JsonTyped, JsonAssumption
  <2> QED BY <2>1, NodeSound, NodeComplete
<1> QED BY <1>1, PTL

-----------------------------------------------------------------------------
(* What is left of the first i parameters.                                 *)
Passed(parameters, n) ==
  CHOOSE pass : pass = [i \in 0 .. n |->
    IF i = 0 THEN [kept |-> <<>>, schema |-> <<>>]
    ELSE IF is_body(parameters[i])
    THEN [pass[i - 1] EXCEPT !.schema = Member(<<parameters[i]>>, "schema")]
    ELSE [pass[i - 1] EXCEPT !.kept = Append(@, parameters[i])]]

(* It is found one parameter after the other.                              *)
LEMMA RetainSteps ==
  ASSUME NEW T, NEW list \in Seq(T)
  PROVE  LET pass == Passed(list, Len(list))
         IN /\ retain(list) = pass[Len(list)]
            /\ \A i \in 0 .. Len(list) : pass[i] = Retaining(list, i, pass)
<1> DEFINE n == Len(list)
           pass == Passed(list, n)
           of == [name |-> "retained", list |-> list]
<1>1. n \in Nat
  OBVIOUS
<1>2. \A x, g : Recurring(of, x, g) = Retaining(list, x, g)
  BY DEF Recurring
<1> HIDE DEF of, n
<1>3. PICK g : g = [i \in 0 .. n |-> Recurring(of, i, g)]
  <2>1. \A x, g, h : (x # 0 => g[x - 1] = h[x - 1]) => Retaining(list, x, g) = Retaining(list, x, h)
    BY DEF Retaining
  <2>2. ReadsBefore(of, 0, n)
    BY <1>2, <2>1 DEF ReadsBefore
  <2>3. Defined(of, 0 .. n)
    BY <1>1, <2>2, ListRecursion
  <2> QED BY <2>3 DEF Defined
<1>4. g = [i \in 0 .. n |-> Retaining(list, i, g)]
  BY <1>2, <1>3
<1>5. pass = [i \in 0 .. n |-> Retaining(list, i, pass)]
  <2>1. pass = CHOOSE f : f = [i \in 0 .. n |-> Retaining(list, i, f)]
    BY DEF Passed, Retaining
  <2> QED BY <1>4, <2>1
<1>6. retain(list) = pass[n]
  BY DEF retain, Passed, n
<1> HIDE DEF pass
<1>7. \A i \in 0 .. n : pass[i] = Retaining(list, i, pass)
  BY <1>5
<1> QED BY <1>6, <1>7 DEF pass, n

(* The parameters that stay are those that are no body parameters, and the *)
(* schema that is kept is that of a body parameter, if there is one.       *)
LEMMA RetainExact ==
  ASSUME NEW T, NEW list \in Seq(T)
  PROVE  /\ ToSet(retain(list).kept) = {p \in ToSet(list) : ~is_body(p)}
         /\ (\E p \in ToSet(list) : is_body(p)) =>
              \E p \in ToSet(list) : is_body(p) /\ retain(list).schema = Member(<<p>>, "schema")
         /\ (\A p \in ToSet(list) : ~is_body(p)) => retain(list).schema = <<>>
<1> DEFINE n == Len(list)
           pass == Passed(list, n)
           Good(i) ==
             /\ pass[i] = [kept |-> pass[i].kept, schema |-> pass[i].schema]
             /\ pass[i].kept \in Seq(T)
             /\ Range(pass[i].kept) = {list[k] : k \in {j \in 1 .. i : ~is_body(list[j])}}
             /\ (\E k \in 1 .. i : is_body(list[k])) =>
                  \E k \in 1 .. i : is_body(list[k]) /\ pass[i].schema = Member(<<list[k]>>, "schema")
             /\ (\A k \in 1 .. i : ~is_body(list[k])) => pass[i].schema = <<>>
           S == {i \in Nat : i <= n => Good(i)}
<1>1. n \in Nat /\ retain(list) = pass[n] /\ \A i \in 0 .. n : pass[i] = Retaining(list, i, pass)
  BY RetainSteps
<1>2. \A i \in 1 .. n : list[i] \in T
  OBVIOUS
<1> HIDE DEF pass, n
<1>3. Good(0)
  <2>0. 0 \in 0 .. n
    BY <1>1
  <2>4. pass[0] = Retaining(list, 0, pass)
    BY <1>1, <2>0
  <2>1. pass[0] = [kept |-> <<>>, schema |-> <<>>]
    BY <2>4 DEF Retaining
  <2>2. 1 .. 0 = {}
    OBVIOUS
  <2>3. Range(<<>>) = {} /\ <<>> \in Seq(T)
    BY DEF Range
  <2> QED BY <2>1, <2>2, <2>3
<1>4. ASSUME NEW i \in Nat, i + 1 <= n, Good(i) PROVE Good(i + 1)
  <2> DEFINE m == i + 1
             p == list[m]
  <2>1. m \in 1 .. n /\ m # 0 /\ m - 1 = i /\ 1 .. m = (1 .. i) \cup {m} /\ m \notin 1 .. i /\ m \in 0 .. n
    BY <1>1, <1>4
  <2>2. pass[m] = Retaining(list, m, pass)
    BY <1>1, <2>1
  <2> HIDE DEF m
  <2>3. CASE is_body(p)
    <3>1. pass[m] = [pass[i] EXCEPT !.schema = Member(<<p>>, "schema")]
      BY <2>1, <2>2, <2>3 DEF Retaining
    <3>2. pass[m] = [kept |-> pass[i].kept, schema |-> Member(<<p>>, "schema")]
      BY <1>4, <3>1
    <3>3. pass[m].kept = pass[i].kept /\ pass[m].schema = Member(<<p>>, "schema")
      BY <3>2
    <3>4. {j \in 1 .. m : ~is_body(list[j])} = {j \in 1 .. i : ~is_body(list[j])}
      BY <2>1, <2>3
    <3>5. Range(pass[m].kept) = {list[k] : k \in {j \in 1 .. m : ~is_body(list[j])}}
      BY <3>3, <3>4, <1>4
    <3>6. m \in 1 .. m
      BY <2>1
    <3>7. Good(m)
      BY <3>2, <3>3, <3>5, <3>6, <2>3, <1>4
    <3> QED BY <3>7 DEF m
  <2>4. CASE ~is_body(p)
    <3>1. pass[m] = [pass[i] EXCEPT !.kept = Append(@, p)]
      BY <2>1, <2>2, <2>4 DEF Retaining
    <3>2. pass[m] = [kept |-> Append(pass[i].kept, p), schema |-> pass[i].schema]
      BY <1>4, <3>1
    <3>3. pass[m].kept = Append(pass[i].kept, p) /\ pass[m].schema = pass[i].schema
      BY <3>2
    <3>4. p \in T
      BY <1>2, <2>1
    <3>5. Range(Append(pass[i].kept, p)) = Range(pass[i].kept) \cup {p} /\ Append(pass[i].kept, p) \in Seq(T)
      <4> DEFINE l == pass[i].kept
                 q == Append(l, p)
      <4>1. l \in Seq(T) /\ Len(l) \in Nat /\ DOMAIN l = 1 .. Len(l) /\ DOMAIN q = 1 .. Len(l) + 1
        BY <1>4, <3>4
      <4>2. q[Len(l) + 1] = p /\ \A k \in 1 .. Len(l) : q[k] = l[k]
        BY <1>4, <3>4
      <4>3. 1 .. Len(l) + 1 = (1 .. Len(l)) \cup {Len(l) + 1}
        BY <4>1
      <4>4. q \in Seq(T)
        BY <4>1, <3>4
      <4> HIDE DEF l, q
      <4>5. Range(q) = Range(l) \cup {p}
        BY <4>1, <4>2, <4>3 DEF Range
      <4> QED BY <4>4, <4>5 DEF l, q
    <3>6. {j \in 1 .. m : ~is_body(list[j])} = {j \in 1 .. i : ~is_body(list[j])} \cup {m}
      BY <2>1, <2>4
    <3>7. Range(pass[m].kept) = {list[k] : k \in {j \in 1 .. m : ~is_body(list[j])}}
      <4> DEFINE A == {j \in 1 .. i : ~is_body(list[j])}
      <4>1. Range(pass[m].kept) = {list[k] : k \in A} \cup {p}
        BY <3>3, <3>5, <1>4
      <4>2. {list[k] : k \in A \cup {m}} = {list[k] : k \in A} \cup {p}
        OBVIOUS
      <4> HIDE DEF A
      <4> QED BY <3>6, <4>1, <4>2 DEF A
    <3>8. Good(m)
      BY <3>2, <3>3, <3>5, <3>7, <2>1, <2>4, <1>4
    <3> QED BY <3>8 DEF m
  <2> QED BY <2>3, <2>4
<1>5. S = Nat
  <2> HIDE DEF Good
  <2>1. 0 \in S
    BY <1>3
  <2>2. ASSUME NEW i \in S PROVE i + 1 \in S
    <3>1. i \in Nat /\ i + 1 \in Nat /\ (i + 1 <= n => i <= n)
      BY <1>1
    <3> QED BY <3>1, <1>4
  <2> HIDE DEF S
  <2>3. S \in SUBSET Nat
    BY DEF S
  <2> QED BY <2>1, <2>2, <2>3, SetInduction
<1>6. Good(n)
  <2> HIDE DEF Good
  <2> QED BY <1>1, <1>5
<1>7. ToSet(list) = {list[k] : k \in 1 .. n}
  BY DEF ToSet, n
<1>8. ToSet(pass[n].kept) = Range(pass[n].kept)
  BY <1>6 DEF ToSet, Range
<1>9. {list[k] : k \in {j \in 1 .. n : ~is_body(list[j])}} = {p \in ToSet(list) : ~is_body(p)}
  BY <1>7
<1>10. ToSet(retain(list).kept) = {p \in ToSet(list) : ~is_body(p)}
  BY <1>1, <1>6, <1>8, <1>9
<1>11. (\E p \in ToSet(list) : is_body(p)) =>
         \E p \in ToSet(list) : is_body(p) /\ retain(list).schema = Member(<<p>>, "schema")
  BY <1>1, <1>6, <1>7
<1>12. (\A p \in ToSet(list) : ~is_body(p)) => retain(list).schema = <<>>
  BY <1>1, <1>6, <1>7
<1> QED BY <1>10, <1>11, <1>12

(* The conversion converts each path item.                                 *)
LEMMA ItemsConverted ==
  ASSUME NEW doc, Is(doc, "obj")
  PROVE  Items(normalise_swagger(doc))
           = [path \in DOMAIN Items(doc) |-> lift_body_params_in_path(Items(doc)[path])]
<1> DEFINE s == doc.obj
           lifted == lift_definitions(s)
           t == lift_body_parameters(lifted)
<1>1. Is(Object(t), "obj") /\ Object(t).obj = t /\ normalise_swagger(doc) = Object(t)
  BY DEF Object, Is, normalise_swagger
<1>2. Same(s, lifted, "paths")
  BY DEF lift_definitions, Put, Without, Same
<1> HIDE DEF lifted
<1>3. Items(doc) = Fields(Get(s, "paths")) /\ Fields(Get(s, "paths")) = Fields(Get(lifted, "paths"))
  BY <1>2 DEF Items, Member, Get, Same
<1>4. Items(normalise_swagger(doc)) = Fields(Get(t, "paths"))
  <2> HIDE DEF t
  <2> QED BY <1>1 DEF Items, Member
<1>5. CASE Has(lifted, "paths", "obj")
  <2> DEFINE new == [path \in DOMAIN lifted["paths"].obj |->
                       lift_body_params_in_path(lifted["paths"].obj[path])]
  <2>1. t = Put(lifted, "paths", Object(new))
    BY <1>5 DEF lift_body_parameters
  <2> HIDE DEF new, t
  <2>2. Get(t, "paths") = <<Object(new)>> /\ Is(Object(new), "obj") /\ Object(new).obj = new
    BY <2>1 DEF Put, Get, Object, Is
  <2>3. Fields(Get(t, "paths")) = new
    BY <2>2 DEF Fields
  <2>4. Fields(Get(lifted, "paths")) = lifted["paths"].obj
    BY <1>5 DEF Fields, Get, Has
  <2> QED BY <1>3, <1>4, <2>3, <2>4 DEF new
<1>6. CASE ~Has(lifted, "paths", "obj")
  <2>1. t = lifted
    BY <1>6 DEF lift_body_parameters
  <2>2. Fields(Get(lifted, "paths")) = NoMembers
    BY <1>6 DEF Fields, Get, Has
  <2>3. DOMAIN NoMembers = {} /\ NoMembers = [path \in {} |-> NoMembers[path]]
    BY DEF NoMembers
  <2>4. [path \in {} |-> lift_body_params_in_path(NoMembers[path])] = [path \in {} |-> NoMembers[path]]
    OBVIOUS
  <2> HIDE DEF t
  <2> QED BY <1>3, <1>4, <2>1, <2>2, <2>3, <2>4
<1> QED BY <1>5, <1>6

(* Where there is an operation, one by one.                                *)
LEMMA OperationPlaces ==
  ASSUME NEW doc, NEW o
  PROVE  o \in Operations(doc) <=>
           \E path \in DOMAIN Items(doc) : \E method \in DOMAIN Fields(<<Items(doc)[path]>>) : o = <<path, method>>
BY DEF Operations, Items

(* An operation is found under its path and method.                        *)
LEMMA OperationFound ==
  ASSUME NEW doc, NEW o \in Operations(doc)
  PROVE  /\ o = <<o[1], o[2]>> /\ o[1] \in DOMAIN Items(doc)
         /\ Is(Items(doc)[o[1]], "obj") /\ o[2] \in DOMAIN Items(doc)[o[1]].obj
         /\ At(doc, <<"paths", o[1], o[2]>>) = <<Items(doc)[o[1]].obj[o[2]]>>
         /\ Operation(doc, o) = Items(doc)[o[1]].obj[o[2]]
<1> DEFINE items == Items(doc)
<1>1. PICK path \in DOMAIN items : \E method \in DOMAIN Fields(<<items[path]>>) : o = <<path, method>>
  BY OperationPlaces
<1>2. PICK method \in DOMAIN Fields(<<items[path]>>) : o = <<path, method>>
  BY <1>1
<1>3. o[1] = path /\ o[2] = method /\ o = <<o[1], o[2]>>
  BY <1>2
<1>4. Is(items[path], "obj") /\ method \in DOMAIN items[path].obj
  BY <1>2 DEF Fields, NoMembers
<1>5. At(doc, <<"paths", path, method>>) = Member(Member(Member(<<doc>>, "paths"), path), method)
  BY AtThree
<1> DEFINE opt == Member(<<doc>>, "paths")
<1>6. items = Fields(opt)
  BY DEF Items
<1> HIDE DEF opt, items
<1>7. Member(opt, path) = <<items[path]>>
  BY <1>6, <1>1 DEF Fields, NoMembers, Member, Get
<1>8. Member(<<items[path]>>, method) = <<items[path].obj[method]>>
  BY <1>4 DEF Member, Get
<1>9. At(doc, <<"paths", path, method>>) = <<items[path].obj[method]>>
  BY <1>5, <1>7, <1>8 DEF opt
<1>10. Operation(doc, o) = items[path].obj[method]
  <2>1. Operation(doc, o) = At(doc, <<"paths", path, method>>)[1]
    BY <1>3 DEF Operation
  <2> QED BY <1>9, <2>1
<1> QED BY <1>1, <1>3, <1>4, <1>9, <1>10 DEF items

(* After the conversion there are the same operations, converted.          *)
LEMMA OperationsConverted ==
  ASSUME NEW doc, Is(doc, "obj")
  PROVE  /\ Operations(normalise_swagger(doc)) = Operations(doc)
         /\ \A o \in Operations(doc) :
              Operation(normalise_swagger(doc), o) = lift_body_from_operation(Operation(doc, o))
<1> DEFINE new == normalise_swagger(doc)
           old == Items(doc)
           items == Items(new)
<1>1. DOMAIN items = DOMAIN old /\ \A path \in DOMAIN old : items[path] = lift_body_params_in_path(old[path])
  BY ItemsConverted
<1> HIDE DEF items, old, new
<1>2. ASSUME NEW item, Is(item, "obj")
      PROVE  LET lifted == lift_body_params_in_path(item)
             IN Is(lifted, "obj") /\ lifted.obj = [method \in DOMAIN item.obj |-> lift_body_from_operation(item.obj[method])]
  BY <1>2 DEF lift_body_params_in_path, Object, Is
<1>3. ASSUME NEW item PROVE DOMAIN Fields(<<lift_body_params_in_path(item)>>) = DOMAIN Fields(<<item>>)
  <2> DEFINE lifted == lift_body_params_in_path(item)
  <2>1. CASE Is(item, "obj")
    <3>1. Is(lifted, "obj") /\ DOMAIN lifted.obj = DOMAIN item.obj
      BY <1>2, <2>1
    <3> HIDE DEF lifted
    <3>2. DOMAIN Fields(<<lifted>>) = DOMAIN Fields(<<item>>)
      BY <2>1, <3>1 DEF Fields
    <3> QED BY <3>2 DEF lifted
  <2>2. CASE ~Is(item, "obj")
    BY <2>2 DEF lift_body_params_in_path
  <2> QED BY <2>1, <2>2
<1>4. \A o : o \in Operations(new) <=> o \in Operations(doc)
  <2> TAKE o
  <2>1. o \in Operations(new) <=>
          \E path \in DOMAIN items : \E method \in DOMAIN Fields(<<items[path]>>) : o = <<path, method>>
    BY OperationPlaces DEF items
  <2>2. o \in Operations(doc) <=>
          \E path \in DOMAIN old : \E method \in DOMAIN Fields(<<old[path]>>) : o = <<path, method>>
    BY OperationPlaces DEF old
  <2> QED BY <2>1, <2>2, <1>1, <1>3
<1>5. Operations(new) = Operations(doc)
  BY <1>4
<1>6. ASSUME NEW o \in Operations(doc) PROVE Operation(new, o) = lift_body_from_operation(Operation(doc, o))
  <2>1. /\ o[1] \in DOMAIN old /\ Is(old[o[1]], "obj") /\ o[2] \in DOMAIN old[o[1]].obj
        /\ Operation(doc, o) = old[o[1]].obj[o[2]]
    BY OperationFound DEF old
  <2>2. Operation(new, o) = items[o[1]].obj[o[2]]
    BY <1>5, OperationFound DEF items
  <2> DEFINE item == old[o[1]]
  <2>3. items[o[1]] = lift_body_params_in_path(item)
    BY <1>1, <2>1
  <2>4. lift_body_params_in_path(item).obj = [method \in DOMAIN item.obj |-> lift_body_from_operation(item.obj[method])]
    BY <1>2, <2>1
  <2>5. lift_body_params_in_path(item).obj[o[2]] = lift_body_from_operation(item.obj[o[2]])
    BY <2>1, <2>4
  <2> QED BY <2>1, <2>2, <2>3, <2>5
<1> QED BY <1>5, <1>6 DEF new

(* An object with one member has that one.                                 *)
LEMMA OneMember ==
  ASSUME NEW key, NEW v
  PROVE  Is(Only(key, v), "obj") /\ DOMAIN Only(key, v).obj = {key} /\ Only(key, v).obj[key] = v
<1>1. Is(Only(key, v), "obj") /\ Only(key, v).obj = [k \in {key} |-> v]
  BY DEF Only, Object, Is
<1> QED BY <1>1

(* What the conversion makes of an operation with parameters.              *)
LEMMA LiftedOperation ==
  ASSUME NEW op, Parameters(op) # <<>>
  PROVE  LET list == Parameters(op)[1]
             new == lift_body_from_operation(op)
             schema == retain(list).schema
         IN /\ Is(op, "obj") /\ Is(new, "obj") /\ Parameters(op) = <<list>>
            /\ Has(op.obj, "parameters", "arr") /\ list = op.obj["parameters"].arr
            /\ Parameters(new) = <<retain(list).kept>>
            /\ schema = <<>> => Get(new.obj, "requestBody") = Get(op.obj, "requestBody")
            /\ schema # <<>> => Get(new.obj, "requestBody") = <<request_body(schema[1])>>
<1> DEFINE list == Parameters(op)[1]
           left == retain(list)
           plain == Put(op.obj, "parameters", Array(left.kept))
           new == lift_body_from_operation(op)
           full == IF left.schema = <<>> THEN plain ELSE Put(plain, "requestBody", request_body(left.schema[1]))
<1>1. /\ Is(op, "obj") /\ "parameters" \in DOMAIN op.obj /\ Is(op.obj["parameters"], "arr")
      /\ Parameters(op) = <<op.obj["parameters"].arr>>
  BY DEF Parameters, Member, Get
<1>2. new = Object(full)
  BY DEF lift_body_from_operation
<1>3. list = op.obj["parameters"].arr
  BY <1>1
<1> HIDE DEF list, left
<1>4. Is(new, "obj") /\ new.obj = full
  BY <1>2 DEF Object, Is
<1>5. "parameters" \in DOMAIN full /\ full["parameters"] = Array(left.kept)
  BY DEF Put
<1>6. left.schema = <<>> => Same(op.obj, full, "requestBody")
  BY DEF Put, Same
<1>7. left.schema # <<>> => Get(full, "requestBody") = <<request_body(left.schema[1])>>
  BY DEF Put, Get
<1> HIDE DEF full, new
<1>8. Parameters(new) = <<left.kept>>
  <2>1. Member(<<new>>, "parameters") = <<Array(left.kept)>>
    BY <1>4, <1>5 DEF Member, Get
  <2>2. Is(Array(left.kept), "arr") /\ Array(left.kept).arr = left.kept
    BY DEF Array, Is
  <2> QED BY <2>1, <2>2 DEF Parameters
<1>9. left.schema = <<>> => Get(new.obj, "requestBody") = Get(op.obj, "requestBody")
  BY <1>4, <1>6 DEF Same, Get
<1>10. left.schema # <<>> => Get(new.obj, "requestBody") = <<request_body(left.schema[1])>>
  BY <1>4, <1>7
<1>11. Parameters(op) = <<list>> /\ Has(op.obj, "parameters", "arr")
  BY <1>1, <1>3 DEF Has
<1> QED BY <1>1, <1>3, <1>4, <1>8, <1>9, <1>10, <1>11 DEF list, new, left

(* The keys that lead to a request's content.                              *)
LEMMA KeysBelow ==
  \A a, b, c, d : <<"paths">> \o <<a, b>> \o <<c>> \o <<d>> = Append(Append(<<"paths", a, b>>, c), d)
<1> TAKE a, b, c, d
<1> DEFINE T == {"paths", a, b, c, d}
           three == <<"paths", a, b>>
           four == Append(three, c)
<1>1. /\ three \in Seq(T) /\ <<c>> \in Seq(T) /\ <<d>> \in Seq(T)
      /\ Len(three) = 3 /\ three[1] = "paths" /\ three[2] = a /\ three[3] = b
  OBVIOUS
<1>2. ASSUME NEW l \in Seq(T), NEW x \in T PROVE l \o <<x>> = Append(l, x)
  OBVIOUS
<1>3. <<"paths">> \o <<a, b>> = three
  <2> DEFINE l == <<"paths">> \o <<a, b>>
  <2>1. Len(l) = 3 /\ DOMAIN l = 1 .. 3 /\ l[1] = "paths" /\ l[2] = a /\ l[3] = b
    OBVIOUS
  <2>2. l = [i \in 1 .. 3 |-> l[i]] /\ three = [i \in 1 .. 3 |-> three[i]]
    OBVIOUS
  <2>3. \A i \in 1 .. 3 : i = 1 \/ i = 2 \/ i = 3
    OBVIOUS
  <2> HIDE DEF l, three
  <2>4. \A i \in 1 .. 3 : l[i] = three[i]
    BY <1>1, <2>1, <2>3
  <2>5. l = three
    BY <2>2, <2>4
  <2> QED BY <2>5 DEF l
<1> HIDE DEF three
<1>4. four \in Seq(T)
  BY <1>1
<1>5. three \o <<c>> = four
  BY <1>1, <1>2
<1> HIDE DEF four
<1>6. four \o <<d>> = Append(four, d)
  BY <1>4, <1>2
<1> QED BY <1>3, <1>5, <1>6 DEF four, three

(* What is there.                                                          *)
LEMMA AtBelow ==
  ASSUME NEW doc, NEW o \in Operations(doc), NEW c, NEW d
  PROVE  At(doc, <<"paths">> \o o \o <<c>> \o <<d>>) = Member(Member(<<Operation(doc, o)>>, c), d)
<1> DEFINE three == <<"paths", o[1], o[2]>>
           four == Append(three, c)
           T == {"paths", o[1], o[2], c, d}
<1>1. <<"paths">> \o o \o <<c>> \o <<d>> = Append(four, d)
  <2>1. o = <<o[1], o[2]>>
    BY OperationFound
  <2>2. <<"paths">> \o <<o[1], o[2]>> \o <<c>> \o <<d>> = Append(four, d)
    BY KeysBelow
  <2> HIDE DEF four
  <2> QED BY <2>1, <2>2
<1>2. three \in Seq(T) /\ c \in T /\ d \in T
  OBVIOUS
<1>3. At(doc, three) = <<Operation(doc, o)>>
  BY OperationFound
<1> HIDE DEF three, T
<1>4. four \in Seq(T)
  BY <1>2
<1>5. At(doc, four) = Member(At(doc, three), c)
  BY <1>2, AtMore
<1> HIDE DEF four
<1>6. At(doc, Append(four, d)) = Member(At(doc, four), d)
  BY <1>2, <1>4, AtMore
<1>7. At(doc, <<"paths">> \o o \o <<c>> \o <<d>>) = At(doc, Append(four, d))
  BY <1>1
<1> QED BY <1>3, <1>5, <1>6, <1>7

-----------------------------------------------------------------------------
(* What a function has as values is finite with its domain, and as much    *)
(* where no two of them are the same.                                      *)
LEMMA FiniteRange ==
  ASSUME NEW f, f = [x \in DOMAIN f |-> f[x]], IsFiniteSet(DOMAIN f)
  PROVE  /\ IsFiniteSet(Range(f))
         /\ (\A x, y \in DOMAIN f : f[x] = f[y] => x = y) => Cardinality(Range(f)) = Cardinality(DOMAIN f)
<1> DEFINE S == DOMAIN f
           T == Range(f)
<1>1. f \in [S -> T]
  BY DEF Range
<1>2. \A y \in T : \E x \in S : f[x] = y
  BY DEF Range
<1> HIDE DEF T
<1>3. f \in Surjection(S, T)
  BY <1>1, <1>2 DEF Surjection
<1>4. IsFiniteSet(T) /\ (Cardinality(T) = Cardinality(S) <=> f \in Injection(S, T))
  BY <1>3, FS_Surjection
<1>5. ASSUME \A x, y \in S : f[x] = f[y] => x = y PROVE f \in Injection(S, T)
  BY <1>1, <1>5 DEF Injection, IsInjective
<1> QED BY <1>4, <1>5 DEF T

(* What a list holds is finite.                                            *)
LEMMA FiniteList ==
  ASSUME NEW T, NEW list \in Seq(T)
  PROVE  IsFiniteSet(ToSet(list))
<1>1. list = [x \in DOMAIN list |-> list[x]] /\ DOMAIN list = 1 .. Len(list) /\ Len(list) \in Nat
  OBVIOUS
<1>2. IsFiniteSet(1 .. Len(list))
  <2>1. 1 \in Int /\ Len(list) \in Int
    BY <1>1
  <2> QED BY <2>1, FS_Interval
<1>3. IsFiniteSet(Range(list))
  BY <1>1, <1>2, FiniteRange
<1>4. ToSet(list) = Range(list)
  BY DEF ToSet, Range
<1> QED BY <1>3, <1>4

(* The parts of an operation are values.                                   *)
LEMMA OperationJson ==
  ASSUME NEW doc \in Docs, NEW o \in Operations(doc)
  PROVE  /\ doc \in Json /\ Is(doc, "obj") /\ Operation(doc, o) \in Json
         /\ o[1] \in STRING /\ o[2] \in STRING
         /\ Parameters(Operation(doc, o)) # <<>> =>
              /\ Parameters(Operation(doc, o))[1] \in Seq(Json)
              /\ Parameters(Operation(doc, o)) = <<Parameters(Operation(doc, o))[1]>>
<1> DEFINE items == Items(doc)
           item == items[o[1]]
           op == Operation(doc, o)
<1>1. doc \in Json /\ Is(doc, "obj")
  BY OpenApiAssumption, JsonAssumption DEF Is
<1>2. items # NoMembers => "paths" \in DOMAIN doc.obj /\ Is(doc.obj["paths"], "obj") /\ items = doc.obj["paths"].obj
  BY DEF Items, Fields, Member, Get
<1>3. o[1] \in DOMAIN items /\ Is(item, "obj") /\ o[2] \in DOMAIN item.obj /\ op = item.obj[o[2]]
  BY OperationFound
<1> HIDE DEF items, op
<1>4. items # NoMembers
  BY <1>3 DEF NoMembers
<1>5. doc.obj["paths"] \in Json
  BY <1>1, <1>2, <1>4, InsideJson
<1>6. item \in Json /\ o[1] \in STRING
  BY <1>2, <1>3, <1>4, <1>5, InsideJson, JsonAssumption
<1>7. op \in Json /\ o[2] \in STRING
  BY <1>3, <1>6, InsideJson, JsonAssumption
<1>8. ASSUME Parameters(op) # <<>>
      PROVE  Parameters(op)[1] \in Seq(Json) /\ Parameters(op) = <<Parameters(op)[1]>>
  <2>1. /\ Is(op, "obj") /\ Has(op.obj, "parameters", "arr")
        /\ Parameters(op) = <<Parameters(op)[1]>> /\ Parameters(op)[1] = op.obj["parameters"].arr
    BY <1>8, LiftedOperation
  <2>2. op.obj["parameters"] \in Json
    BY <1>7, <2>1, InsideJson DEF Has
  <2> QED BY <2>1, <2>2, InsideJson DEF Has
<1> QED BY <1>1, <1>6, <1>7, <1>8 DEF op

(* There are finitely many operations.                                     *)
LEMMA FiniteOperations ==
  ASSUME NEW doc \in Docs
  PROVE  IsFiniteSet(Operations(doc))
<1> DEFINE items == Items(doc)
           of == [path \in DOMAIN items |-> {<<path, method>> : method \in DOMAIN Fields(<<items[path]>>)}]
<1>1. doc \in Json /\ Is(doc, "obj")
  BY OpenApiAssumption, JsonAssumption DEF Is
<1>2. items = NoMembers \/ ("paths" \in DOMAIN doc.obj /\ Is(doc.obj["paths"], "obj") /\ items = doc.obj["paths"].obj)
  BY DEF Items, Fields, Member, Get
<1> HIDE DEF items
<1>3. DOMAIN NoMembers = {} /\ IsFiniteSet({})
  BY FS_EmptySet DEF NoMembers
<1>4. IsFiniteSet(DOMAIN items) /\ \A path \in DOMAIN items : items[path] \in Json
  <2>1. CASE items = NoMembers
    BY <1>3, <2>1
  <2>2. CASE items # NoMembers
    <3>1. doc.obj["paths"] \in Json
      BY <1>1, <1>2, <2>2, InsideJson
    <3> QED BY <1>2, <2>2, <3>1, InsideJson, JsonAssumption
  <2> QED BY <2>1, <2>2
<1>5. ASSUME NEW path \in DOMAIN items PROVE IsFiniteSet(of[path])
  <2> DEFINE methods == DOMAIN Fields(<<items[path]>>)
             f == [method \in methods |-> <<path, method>>]
  <2>1. IsFiniteSet(methods)
    BY <1>3, <1>4, JsonAssumption DEF Fields
  <2> HIDE DEF methods
  <2>2. DOMAIN f = methods /\ f = [x \in DOMAIN f |-> f[x]] /\ Range(f) = {<<path, method>> : method \in methods}
    BY DEF Range
  <2> HIDE DEF f
  <2>3. IsFiniteSet(Range(f))
    BY <2>1, <2>2, FiniteRange
  <2> QED BY <2>2, <2>3 DEF methods
<1>6. DOMAIN of = DOMAIN items /\ of = [x \in DOMAIN of |-> of[x]]
  OBVIOUS
<1>7. Operations(doc) = UNION Range(of)
  BY DEF Operations, Items, items, Range
<1> HIDE DEF of
<1>8. IsFiniteSet(Range(of))
  BY <1>4, <1>6, FiniteRange
<1>9. \A T \in Range(of) : IsFiniteSet(T)
  BY <1>5, <1>6 DEF Range
<1> QED BY <1>7, <1>8, <1>9, FS_UNION

(* What is written below an operation's requestBody after the conversion   *)
(* is its body's schema.                                                   *)
LEMMA RequestConverted ==
  ASSUME NEW doc \in Docs, NEW o \in Operations(doc), Member(<<Operation(doc, o)>>, "requestBody") = <<>>
  PROVE  LET schema == BodySchema(Operation(doc, o))
             content == Fields(At(normalise_swagger(doc), <<"paths">> \o o \o <<"requestBody">> \o <<"content">>))
         IN /\ schema = <<>> => content = NoMembers
            /\ schema # <<>> =>
                 /\ schema = <<schema[1]>> /\ DOMAIN content = {"application/json"}
                 /\ Member(<<content["application/json"]>>, "schema") = schema
<1> DEFINE new == normalise_swagger(doc)
           op == Operation(doc, o)
           lifted == lift_body_from_operation(op)
           schema == BodySchema(op)
           content == Fields(At(new, <<"paths">> \o o \o <<"requestBody">> \o <<"content">>))
           written == Member(<<lifted>>, "requestBody")
<1>1. o \in Operations(new) /\ Operation(new, o) = lifted
  BY OperationJson, OperationsConverted
<1> HIDE DEF new
<1>2. content = Fields(Member(written, "content"))
  BY <1>1, AtBelow
<1> HIDE DEF content
<1>3. CASE Parameters(op) = <<>>
  <2>1. lifted = op /\ schema = <<>>
    BY <1>3 DEF lift_body_from_operation, BodySchema
  <2>2. content = NoMembers
    BY <1>2, <2>1 DEF Member, Fields
  <2> QED BY <2>1, <2>2 DEF content, new
<1>4. CASE Parameters(op) # <<>>
  <2> DEFINE list == Parameters(op)[1]
  <2>1. schema = retain(list).schema
    BY <1>4 DEF BodySchema
  <2>2. list \in Seq(Json)
    BY <1>4, OperationJson
  <2>3. /\ Is(op, "obj") /\ Is(lifted, "obj")
        /\ retain(list).schema = <<>> => Get(lifted.obj, "requestBody") = Get(op.obj, "requestBody")
        /\ retain(list).schema # <<>> => Get(lifted.obj, "requestBody") = <<request_body(retain(list).schema[1])>>
    BY <1>4, LiftedOperation
  <2>4. schema = <<>> \/ \E p : schema = Member(<<p>>, "schema")
    BY <2>1, <2>2, RetainExact
  <2>5. schema # <<>> => schema = <<schema[1]>>
    <3>1. ASSUME NEW p, Member(<<p>>, "schema") # <<>>
          PROVE  Member(<<p>>, "schema") = <<Member(<<p>>, "schema")[1]>>
      BY <3>1 DEF Member, Get
    <3> HIDE DEF schema
    <3> QED BY <2>4, <3>1
  <2>6. written = Get(lifted.obj, "requestBody") /\ Get(op.obj, "requestBody") = <<>>
    BY <2>3 DEF Member
  <2> HIDE DEF list, lifted, op, schema, written
  <2>7. CASE schema = <<>>
    <3>1. written = <<>>
      BY <2>1, <2>3, <2>6, <2>7
    <3>2. content = NoMembers
      BY <1>2, <3>1 DEF Member, Fields
    <3> QED BY <2>7, <3>2 DEF content, new, schema, op
  <2>8. CASE schema # <<>>
    <3> DEFINE typed == Only("schema", schema[1])
               media == Only("application/json", typed)
               request == Only("content", media)
    <3>1. written = <<request>>
      BY <2>1, <2>3, <2>6, <2>8 DEF request_body
    <3>2. Is(request, "obj") /\ DOMAIN request.obj = {"content"} /\ request.obj["content"] = media
      BY OneMember
    <3>3. Is(media, "obj") /\ DOMAIN media.obj = {"application/json"} /\ media.obj["application/json"] = typed
      BY OneMember
    <3>4. Is(typed, "obj") /\ DOMAIN typed.obj = {"schema"} /\ typed.obj["schema"] = schema[1]
      BY OneMember
    <3> HIDE DEF typed, media, request
    <3>5. Member(written, "content") = <<media>>
      BY <3>1, <3>2 DEF Member, Get
    <3>6. content = media.obj
      BY <1>2, <3>3, <3>5 DEF Fields
    <3>7. DOMAIN content = {"application/json"} /\ Member(<<content["application/json"]>>, "schema") = <<schema[1]>>
      BY <3>3, <3>4, <3>6 DEF Member, Get
    <3> QED BY <2>5, <2>8, <3>7 DEF content, new, schema, op
  <2> QED BY <2>7, <2>8
<1> QED BY <1>3, <1>4

(* The keys that lead to the schema of a request.                          *)
RequestKeys(o) == (<<"paths">> \o o \o <<"requestBody">> \o <<"content">>) \o <<"application/json", "schema">>

(* What is extracted for an operation's request.                           *)
RequestEntry(doc, o) ==
  [name |-> Append(<<o[2], trim[o[1]], "request">>, "application/json"),
   schema |-> adapt_oas30_schema[BodySchema(Operation(doc, o))[1]],
   pointer |-> Pointer(RequestKeys(o))]

(* It is that alone, where a body has a schema.                            *)
LEMMA RequestExtracted ==
  ASSUME NEW doc \in Docs, NEW o \in Operations(doc), Member(<<Operation(doc, o)>>, "requestBody") = <<>>
  PROVE  collect_request_body_schemas(normalise_swagger(doc), "2.0", o)
           = IF BodySchema(Operation(doc, o)) = <<>> THEN {} ELSE {RequestEntry(doc, o)}
<1> DEFINE new == normalise_swagger(doc)
           schema == BodySchema(Operation(doc, o))
           below == <<"paths">> \o o \o <<"requestBody">> \o <<"content">>
           content == Fields(At(new, below))
           name == <<o[2], trim[o[1]], "request">>
           media_types == {m \in DOMAIN content : Member(<<content[m]>>, "schema") # <<>>}
           entry(m) == [name |-> Append(name, m),
                        schema |-> adapt_schema(Member(<<content[m]>>, "schema")[1], "2.0"),
                        pointer |-> Pointer(below \o <<m, "schema">>)]
<1>1. collect_request_body_schemas(new, "2.0", o) = {entry(m) : m \in media_types}
  BY DEF collect_request_body_schemas, collect_content
<1>2. /\ schema = <<>> => content = NoMembers
      /\ schema # <<>> => /\ DOMAIN content = {"application/json"}
                          /\ Member(<<content["application/json"]>>, "schema") = schema
  BY RequestConverted
<1>3. RequestEntry(doc, o) = [name |-> Append(name, "application/json"), schema |-> adapt_oas30_schema[schema[1]],
                              pointer |-> Pointer(below \o <<"application/json", "schema">>)]
  BY DEF RequestEntry, RequestKeys
<1> HIDE DEF new, schema, content, below, name
<1>4. CASE schema = <<>>
  <2>1. media_types = {}
    BY <1>2, <1>4 DEF NoMembers
  <2> HIDE DEF media_types
  <2> QED BY <1>1, <1>4, <2>1 DEF new, schema
<1>5. CASE schema # <<>>
  <2>1. media_types = {"application/json"}
    BY <1>2, <1>5
  <2>2. entry("application/json") = RequestEntry(doc, o)
    BY <1>2, <1>3, <1>5 DEF adapt_schema
  <2> HIDE DEF media_types, entry
  <2>3. {entry(m) : m \in media_types} = {RequestEntry(doc, o)}
    BY <2>1, <2>2
  <2> QED BY <1>1, <1>5, <2>3 DEF new, schema
<1> QED BY <1>4, <1>5

(* What is appended stands last, and what is put before stands before.     *)
LEMMA Appended ==
  ASSUME NEW T, NEW list \in Seq(T), NEW x \in T
  PROVE  LET longer == Append(list, x)
         IN /\ longer \in Seq(T) /\ Len(longer) = Len(list) + 1 /\ longer[Len(list) + 1] = x
            /\ \A i \in 1 .. Len(list) : longer[i] = list[i]
OBVIOUS

(* They are seven.                                                         *)
LEMMA SevenKeys ==
  ASSUME NEW T, NEW path \in T, NEW method \in T,
         {"paths", "requestBody", "content", "application/json", "schema"} \subseteq T
  PROVE  LET keys == RequestKeys(<<path, method>>)
         IN /\ keys \in Seq(T) /\ Len(keys) = 7
            /\ keys[1] = "paths" /\ keys[2] = path /\ keys[3] = method /\ keys[4] = "requestBody"
            /\ keys[5] = "content" /\ keys[6] = "application/json" /\ keys[7] = "schema"
<1> DEFINE three == <<"paths", path, method>>
           four == Append(three, "requestBody")
           five == Append(four, "content")
           six == Append(five, "application/json")
           keys == Append(six, "schema")
<1>0. "paths" \in T /\ "requestBody" \in T /\ "content" \in T /\ "application/json" \in T /\ "schema" \in T
  OBVIOUS
<1>1. three \in Seq(T)
  OBVIOUS
<1>2. Len(three) = 3 /\ three[1] = "paths" /\ three[2] = path /\ three[3] = method
  OBVIOUS
<1>3. <<"paths">> \o <<path, method>> \o <<"requestBody">> \o <<"content">> = five
  BY KeysBelow
<1> HIDE DEF three
<1>4. four \in Seq(T) /\ Len(four) = Len(three) + 1 /\ four[Len(three) + 1] = "requestBody" /\ \A i \in 1 .. Len(three) : four[i] = three[i]
  BY <1>0, <1>1, Appended
<1> HIDE DEF four
<1>5. five \in Seq(T) /\ Len(five) = Len(four) + 1 /\ five[Len(four) + 1] = "content" /\ \A i \in 1 .. Len(four) : five[i] = four[i]
  BY <1>0, <1>4, Appended
<1> HIDE DEF five
<1>6. six \in Seq(T) /\ Len(six) = Len(five) + 1 /\ six[Len(five) + 1] = "application/json" /\ \A i \in 1 .. Len(five) : six[i] = five[i]
  BY <1>0, <1>5, Appended
<1>7. five \o <<"application/json", "schema">> = Append(six, "schema")
  <2>1. ASSUME NEW l \in Seq(T), NEW x \in T, NEW y \in T PROVE l \o <<x, y>> = Append(Append(l, x), y)
    OBVIOUS
  <2> QED BY <1>0, <1>5, <2>1
<1> HIDE DEF six
<1>8. keys \in Seq(T) /\ Len(keys) = Len(six) + 1 /\ keys[Len(six) + 1] = "schema" /\ \A i \in 1 .. Len(six) : keys[i] = six[i]
  BY <1>0, <1>6, Appended
<1>9. RequestKeys(<<path, method>>) = keys
  BY <1>3, <1>7 DEF RequestKeys
<1> HIDE DEF keys
<1>10. Len(four) = 4 /\ four[4] = "requestBody" /\ four[1] = "paths" /\ four[2] = path /\ four[3] = method
  BY <1>2, <1>4
<1>11. Len(five) = 5 /\ five[5] = "content" /\ \A i \in 1 .. 4 : five[i] = four[i]
  BY <1>10, <1>5
<1>12. Len(six) = 6 /\ six[6] = "application/json" /\ \A i \in 1 .. 5 : six[i] = five[i]
  BY <1>11, <1>6
<1>13. Len(keys) = 7 /\ keys[7] = "schema" /\ \A i \in 1 .. 6 : keys[i] = six[i]
  BY <1>12, <1>8
<1>14. keys[1] = four[1] /\ keys[2] = four[2] /\ keys[3] = four[3] /\ keys[4] = four[4] /\ keys[5] = five[5] /\ keys[6] = six[6]
  BY <1>11, <1>12, <1>13
<1> QED BY <1>8, <1>9, <1>10, <1>11, <1>12, <1>13, <1>14

(* What is put before or after two sequences tells them not apart.         *)
LEMMA Cancelled ==
  ASSUME NEW T, NEW a \in Seq(T), NEW b \in Seq(T), NEW c \in Seq(T)
  PROVE  /\ a \o c = b \o c => a = b
         /\ c \o a = c \o b => a = b
<1>1. a = [i \in 1 .. Len(a) |-> a[i]] /\ b = [i \in 1 .. Len(b) |-> b[i]]
  OBVIOUS
<1>2. /\ Len(a \o c) = Len(a) + Len(c) /\ Len(b \o c) = Len(b) + Len(c)
      /\ Len(c \o a) = Len(c) + Len(a) /\ Len(c \o b) = Len(c) + Len(b)
      /\ Len(a) \in Nat /\ Len(b) \in Nat /\ Len(c) \in Nat
  OBVIOUS
<1>3. /\ \A i \in 1 .. Len(a) : (a \o c)[i] = a[i] /\ (c \o a)[Len(c) + i] = a[i]
      /\ \A i \in 1 .. Len(b) : (b \o c)[i] = b[i] /\ (c \o b)[Len(c) + i] = b[i]
  OBVIOUS
<1>4. ASSUME Len(a) = Len(b), \A i \in 1 .. Len(a) : a[i] = b[i] PROVE a = b
  BY <1>1, <1>4
<1>5. ASSUME a \o c = b \o c PROVE a = b
  <2>1. Len(a) = Len(b)
    BY <1>2, <1>5
  <2>2. \A i \in 1 .. Len(a) : a[i] = b[i]
    BY <1>3, <1>5, <2>1
  <2> QED BY <1>4, <2>1, <2>2
<1>6. ASSUME c \o a = c \o b PROVE a = b
  <2>1. Len(a) = Len(b)
    BY <1>2, <1>6
  <2>2. \A i \in 1 .. Len(a) : a[i] = b[i]
    BY <1>3, <1>6, <2>1
  <2> QED BY <1>4, <2>1, <2>2
<1> QED BY <1>5, <1>6

(* The tokens of a key are strings, or are the key.                        *)
LEMMA TokensTyped ==
  ASSUME NEW T, STRING \subseteq T, NEW key \in T
  PROVE  Tokens(key) \in Seq(T)
<1>1. ASSUME NEW x \in T PROVE <<x>> \in Seq(T)
  OBVIOUS
<1>2. ASSUME NEW U, U \subseteq T, NEW list \in Seq(U) PROVE list \in Seq(T)
  BY <1>2
<1>3. ASSUME key \in DOMAIN split PROVE split[key] \in Seq(T)
  <2> DEFINE U == STRING
             list == split[key]
  <2>1. list \in Seq(U) /\ U \subseteq T
    BY <1>3, OpenApiAssumption
  <2> HIDE DEF U, list
  <2>2. list \in Seq(T)
    BY <1>2, <2>1
  <2> QED BY <2>2 DEF list
<1> QED BY <1>1, <1>3 DEF Tokens

(* The pointers to the requests of a method tell the paths apart.          *)
LEMMA RequestPointers ==
  ASSUME NEW a \in STRING, NEW b \in STRING, NEW method \in STRING,
         Pointer(RequestKeys(<<a, method>>)) = Pointer(RequestKeys(<<b, method>>))
  PROVE  Tokens(a) = Tokens(b)
<1> DEFINE p == RequestKeys(<<a, method>>)
           q == RequestKeys(<<b, method>>)
           f == Along(p)
           g == Along(q)
           given == {"paths", "requestBody", "content", "application/json", "schema"}
           T == STRING \cup given
<1>0. /\ a \in T /\ b \in T /\ method \in T /\ \A key \in T : Tokens(key) \in Seq(T)
      /\ {"paths", "requestBody", "content", "application/json", "schema"} \subseteq T
  <2>1. STRING \subseteq T /\ given \subseteq T
    OBVIOUS
  <2>2. \A key \in T : Tokens(key) \in Seq(T)
    BY <2>1, TokensTyped
  <2> QED BY <2>1, <2>2
<1> HIDE DEF T
<1>1. /\ p \in Seq(T) /\ Len(p) = 7 /\ p[1] = "paths" /\ p[2] = a
      /\ q \in Seq(T) /\ Len(q) = 7 /\ q[1] = "paths" /\ q[2] = b
      /\ p[3] = q[3] /\ p[4] = q[4] /\ p[5] = q[5] /\ p[6] = q[6] /\ p[7] = q[7]
  <2> HIDE DEF given
  <2>1. ASSUME NEW path \in T
        PROVE  LET keys == RequestKeys(<<path, method>>)
               IN /\ keys \in Seq(T) /\ Len(keys) = 7
                  /\ keys[1] = "paths" /\ keys[2] = path /\ keys[3] = method /\ keys[4] = "requestBody"
                  /\ keys[5] = "content" /\ keys[6] = "application/json" /\ keys[7] = "schema"
    BY <1>0, SevenKeys
  <2>2. /\ p \in Seq(T) /\ Len(p) = 7
        /\ p[1] = "paths" /\ p[2] = a /\ p[3] = method /\ p[4] = "requestBody"
        /\ p[5] = "content" /\ p[6] = "application/json" /\ p[7] = "schema"
    BY <1>0, <2>1
  <2>3. /\ q \in Seq(T) /\ Len(q) = 7
        /\ q[1] = "paths" /\ q[2] = b /\ q[3] = method /\ q[4] = "requestBody"
        /\ q[5] = "content" /\ q[6] = "application/json" /\ q[7] = "schema"
    BY <1>0, <2>1
  <2> HIDE DEF p, q
  <2> QED BY <2>2, <2>3
<1>2. Pointer(p) = Pointer(q)
  OBVIOUS
<1> HIDE DEF p, q
<1>3. \A i \in 1 .. 7 : p[i] \in T /\ q[i] \in T
  <2>1. ASSUME NEW list \in Seq(T) PROVE \A i \in 1 .. Len(list) : list[i] \in T
    OBVIOUS
  <2>2. (\A i \in 1 .. Len(p) : p[i] \in T) /\ (\A i \in 1 .. Len(q) : q[i] \in T)
    BY <1>1, <2>1
  <2> QED BY <1>1, <2>2
<1>4. /\ Pointer(p) = f[7] /\ f[1] = Tokens(p[1]) /\ \A i \in 2 .. 7 : f[i] = f[i - 1] \o Tokens(p[i])
      /\ Pointer(q) = g[7] /\ g[1] = Tokens(q[1]) /\ \A i \in 2 .. 7 : g[i] = g[i - 1] \o Tokens(q[i])
  <2>1. Len(p) # 0 /\ Len(q) # 0
    BY <1>1
  <2>2. Pointer(p) = f[Len(p)] /\ f[1] = Tokens(p[1]) /\ \A i \in 2 .. Len(p) : f[i] = f[i - 1] \o Tokens(p[i])
    BY <1>1, <2>1, PointerSteps
  <2>3. Pointer(q) = g[Len(q)] /\ g[1] = Tokens(q[1]) /\ \A i \in 2 .. Len(q) : g[i] = g[i - 1] \o Tokens(q[i])
    BY <1>1, <2>1, PointerSteps
  <2> HIDE DEF f, g
  <2> QED BY <1>1, <2>2, <2>3
<1> HIDE DEF f, g
<1>5. \A i \in 1 .. 7 : Tokens(p[i]) \in Seq(T) /\ Tokens(q[i]) \in Seq(T)
  BY <1>0, <1>3
<1>6. ASSUME NEW i \in 2 .. 7, f[i - 1] \in Seq(T), g[i - 1] \in Seq(T)
      PROVE  f[i] \in Seq(T) /\ g[i] \in Seq(T) /\ (i # 2 /\ f[i] = g[i] => f[i - 1] = g[i - 1])
  <2>1. f[i] = f[i - 1] \o Tokens(p[i]) /\ g[i] = g[i - 1] \o Tokens(q[i])
    BY <1>4
  <2>0. i \in 1 .. 7
    OBVIOUS
  <2>2. Tokens(p[i]) \in Seq(T) /\ Tokens(q[i]) \in Seq(T)
    BY <1>5, <2>0
  <2>3. i # 2 => Tokens(p[i]) = Tokens(q[i])
    <3>1. i = 2 \/ i = 3 \/ i = 4 \/ i = 5 \/ i = 6 \/ i = 7
      OBVIOUS
    <3>2. i # 2 => p[i] = q[i]
      BY <1>1, <3>1
    <3> QED BY <3>2
  <2>4. f[i] \in Seq(T) /\ g[i] \in Seq(T)
    BY <1>6, <2>1, <2>2
  <2>5. ASSUME i # 2, f[i] = g[i] PROVE f[i - 1] = g[i - 1]
    <3> DEFINE x == f[i - 1]
               y == g[i - 1]
               t == Tokens(p[i])
    <3>1. x \in Seq(T) /\ y \in Seq(T) /\ t \in Seq(T) /\ x \o t = y \o t
      BY <1>6, <2>1, <2>2, <2>3, <2>5
    <3> HIDE DEF x, y, t
    <3>2. x = y
      BY <3>1, Cancelled
    <3> QED BY <3>2 DEF x, y
  <2> QED BY <2>4, <2>5
<1>7. f[1] \in Seq(T) /\ g[1] \in Seq(T) /\ f[1] = g[1]
  <2>1. 1 \in 1 .. 7
    OBVIOUS
  <2> QED BY <1>1, <1>4, <1>5, <2>1
<1>8. /\ f[2] \in Seq(T) /\ g[2] \in Seq(T)
      /\ f[2] = f[1] \o Tokens(p[2]) /\ g[2] = g[1] \o Tokens(q[2])
  <2>1. 2 \in 2 .. 7 /\ 2 - 1 = 1
    OBVIOUS
  <2>2. f[2] = f[2 - 1] \o Tokens(p[2]) /\ g[2] = g[2 - 1] \o Tokens(q[2])
    BY <1>4, <2>1, Zenon
  <2>3. f[2 - 1] \in Seq(T) /\ g[2 - 1] \in Seq(T)
    BY <1>7, <2>1
  <2>4. f[2] \in Seq(T) /\ g[2] \in Seq(T)
    BY <1>6, <2>1, <2>3, Zenon
  <2> QED BY <2>1, <2>2, <2>4
<1>9. ASSUME NEW i \in 2 .. 6, f[i] \in Seq(T), g[i] \in Seq(T)
      PROVE  f[i + 1] \in Seq(T) /\ g[i + 1] \in Seq(T) /\ (f[i + 1] = g[i + 1] => f[i] = g[i])
  <2> DEFINE m == i + 1
  <2>1. m \in 2 .. 7 /\ m # 2 /\ m - 1 = i
    OBVIOUS
  <2> HIDE DEF m
  <2>2. f[m] \in Seq(T) /\ g[m] \in Seq(T) /\ (m # 2 /\ f[m] = g[m] => f[m - 1] = g[m - 1])
    <3>1. f[m - 1] \in Seq(T) /\ g[m - 1] \in Seq(T)
      BY <1>9, <2>1
    <3> QED BY <1>6, <2>1, <3>1
  <2>3. f[m] \in Seq(T) /\ g[m] \in Seq(T) /\ (f[m] = g[m] => f[i] = g[i])
    BY <2>1, <2>2
  <2> QED BY <2>3 DEF m
<1>10. f[3] \in Seq(T) /\ g[3] \in Seq(T) /\ (f[3] = g[3] => f[2] = g[2])
  <2>1. 2 \in 2 .. 6 /\ 2 + 1 = 3
    OBVIOUS
  <2> QED BY <1>8, <1>9, <2>1
<1>11. f[4] \in Seq(T) /\ g[4] \in Seq(T) /\ (f[4] = g[4] => f[3] = g[3])
  <2>1. 3 \in 2 .. 6 /\ 3 + 1 = 4
    OBVIOUS
  <2> QED BY <1>10, <1>9, <2>1
<1>12. f[5] \in Seq(T) /\ g[5] \in Seq(T) /\ (f[5] = g[5] => f[4] = g[4])
  <2>1. 4 \in 2 .. 6 /\ 4 + 1 = 5
    OBVIOUS
  <2> QED BY <1>11, <1>9, <2>1
<1>13. f[6] \in Seq(T) /\ g[6] \in Seq(T) /\ (f[6] = g[6] => f[5] = g[5])
  <2>1. 5 \in 2 .. 6 /\ 5 + 1 = 6
    OBVIOUS
  <2> QED BY <1>12, <1>9, <2>1
<1>14. f[7] = g[7] => f[6] = g[6]
  <2>1. 6 \in 2 .. 6 /\ 6 + 1 = 7
    OBVIOUS
  <2> QED BY <1>13, <1>9, <2>1
<1>15. f[2] = g[2]
  BY <1>2, <1>4, <1>10, <1>11, <1>12, <1>13, <1>14
<1>16. Tokens(p[2]) \in Seq(T) /\ Tokens(q[2]) \in Seq(T)
  BY <1>5
<1>17. Tokens(p[2]) = Tokens(q[2])
  <2> DEFINE x == Tokens(p[2])
             y == Tokens(q[2])
             t == f[1]
  <2>1. x \in Seq(T) /\ y \in Seq(T) /\ t \in Seq(T) /\ t \o x = t \o y
    BY <1>7, <1>8, <1>15, <1>16
  <2> HIDE DEF x, y, t
  <2>2. x = y
    BY <2>1, Cancelled
  <2> QED BY <2>2 DEF x, y
<1> QED BY <1>1, <1>17

(* The name of a request is the method, the path and the media type.       *)
LEMMA RequestName ==
  ASSUME NEW a, NEW b, NEW c, NEW d
  PROVE  Append(<<a, b, c>>, d) = <<a, b, c, d>> /\ Append(<<a, b, c>>, d)[3] = c
<1> DEFINE T == {a, b, c, d}
           three == <<a, b, c>>
           m == Append(three, d)
           l == <<a, b, c, d>>
<1>1. /\ three \in Seq(T) /\ d \in T
      /\ l = [i \in 1 .. 4 |-> l[i]] /\ l[1] = a /\ l[2] = b /\ l[3] = c /\ l[4] = d
  OBVIOUS
<1>2. Len(three) = 3 /\ three[1] = a /\ three[2] = b /\ three[3] = c
  OBVIOUS
<1> HIDE DEF T, three, l
<1>3. m \in Seq(T) /\ Len(m) = Len(three) + 1 /\ m[Len(three) + 1] = d /\ \A i \in 1 .. Len(three) : m[i] = three[i]
  BY <1>1, Appended
<1>4. m = [i \in 1 .. Len(m) |-> m[i]]
  <2> HIDE DEF m
  <2> QED BY <1>3
<1> HIDE DEF m
<1>5. Len(m) = 4 /\ m[4] = d /\ m[1] = a /\ m[2] = b /\ m[3] = c
  BY <1>2, <1>3
<1>6. \A i \in 1 .. 4 : m[i] = l[i]
  <2>1. \A i \in 1 .. 4 : i = 1 \/ i = 2 \/ i = 3 \/ i = 4
    OBVIOUS
  <2> QED BY <1>1, <1>5, <2>1
<1>7. m = l
  BY <1>1, <1>4, <1>5, <1>6
<1> QED BY <1>5, <1>7 DEF m, l, three

(* No name of a response is one of a request.                              *)
LEMMA ResponseName ==
  ASSUME NEW doc, NEW o, NEW v, NEW e \in collect_response_schemas(doc, v, o)
  PROVE  e.name[3] = "response"
<1>1. PICK status : e \in collect_content(doc, v, o, <<"responses", status>>, <<o[2], trim[o[1]], "response", status>>)
  BY DEF collect_response_schemas
<1> DEFINE name == <<o[2], trim[o[1]], "response", status>>
<1>2. \E m : e.name = Append(name, m)
  <2>1. \A keys : e \in collect_content(doc, v, o, keys, name) => \E m : e.name = Append(name, m)
    <3> TAKE keys
    <3> DEFINE below == <<"paths">> \o o \o keys \o <<"content">>
               content == Fields(At(doc, below))
               schema(m) == adapt_schema(Member(<<content[m]>>, "schema")[1], v)
               pointer(m) == Pointer(below \o <<m, "schema">>)
               media_types == {m \in DOMAIN content : Member(<<content[m]>>, "schema") # <<>>}
    <3>1. collect_content(doc, v, o, keys, name)
            = {[name |-> Append(name, m), schema |-> schema(m), pointer |-> pointer(m)] : m \in media_types}
      BY DEF collect_content
    <3> HIDE DEF name, schema, pointer, media_types
    <3> QED BY <3>1
  <2> QED BY <1>1, <2>1
<1>3. PICK m : e.name = Append(name, m)
  BY <1>2
<1> DEFINE T == {o[2], trim[o[1]], "response", status, m}
<1>4. name \in Seq(T) /\ m \in T
  OBVIOUS
<1>5. Len(name) = 4 /\ name[3] = "response"
  OBVIOUS
<1> HIDE DEF name, T
<1>6. \A i \in 1 .. Len(name) : Append(name, m)[i] = name[i]
  BY <1>4, Appended
<1>7. 3 \in 1 .. Len(name)
  BY <1>5
<1> QED BY <1>3, <1>5, <1>6, <1>7

(* Where there is a body with a schema.                                    *)
Bodies(doc) == {o \in Operations(doc) : BodySchema(Operation(doc, o)) # <<>>}

(* There is one request for each of them among what is extracted.          *)
LEMMA RequestsExact ==
  ASSUME NEW S, Documents20(S), NEW doc \in Docs, detect_version(doc) = "2.0"
  PROVE  LET entries == extract_path_schemas(normalise_swagger(doc), "2.0")
         IN /\ {e \in entries : e.name[3] = "request"} = {RequestEntry(doc, o) : o \in Bodies(doc)}
            /\ Cardinality({e \in entries : e.name[3] = "request"}) = converted(doc)
<1> DEFINE new == normalise_swagger(doc)
           entries == extract_path_schemas(new, "2.0")
           requests == {e \in entries : e.name[3] = "request"}
           f == [o \in Bodies(doc) |-> RequestEntry(doc, o)]
<1>1. Is(doc, "obj") /\ Operations(new) = Operations(doc)
  <2>1. Is(doc, "obj")
    BY OpenApiAssumption DEF Is
  <2> QED BY <2>1, OperationsConverted
<1>2. ASSUME NEW o \in Operations(doc)
      PROVE  collect_request_body_schemas(new, "2.0", o) = IF o \in Bodies(doc) THEN {RequestEntry(doc, o)} ELSE {}
  <2>1. Member(<<Operation(doc, o)>>, "requestBody") = <<>>
    BY DEF Documents20
  <2> QED BY <2>1, RequestExtracted DEF Bodies
<1> HIDE DEF new
<1>3. \A e : e \in entries <=>
        \E o \in Operations(doc) : e \in collect_request_body_schemas(new, "2.0", o)
                                     \/ e \in collect_response_schemas(new, "2.0", o)
  BY <1>1 DEF extract_path_schemas
<1> HIDE DEF entries
<1>4. ASSUME NEW o \in Bodies(doc) PROVE RequestEntry(doc, o).name[3] = "request"
  <2>1. RequestEntry(doc, o).name = Append(<<o[2], trim[o[1]], "request">>, "application/json")
    BY DEF RequestEntry
  <2> QED BY <2>1, RequestName
<1>5. requests = {RequestEntry(doc, o) : o \in Bodies(doc)}
  <2>1. ASSUME NEW e \in requests PROVE e \in {RequestEntry(doc, o) : o \in Bodies(doc)}
    <3>1. PICK o \in Operations(doc) : \/ e \in collect_request_body_schemas(new, "2.0", o)
                                       \/ e \in collect_response_schemas(new, "2.0", o)
      BY <1>3
    <3>2. e \notin collect_response_schemas(new, "2.0", o)
      BY ResponseName
    <3>3. o \in Bodies(doc) /\ e = RequestEntry(doc, o)
      BY <1>2, <3>1, <3>2
    <3> QED BY <3>3
  <2>2. ASSUME NEW o \in Bodies(doc) PROVE RequestEntry(doc, o) \in requests
    <3>1. o \in Operations(doc)
      BY DEF Bodies
    <3>2. RequestEntry(doc, o) \in entries
      BY <1>2, <1>3, <3>1
    <3> QED BY <1>4, <3>2
  <2> HIDE DEF requests
  <2> QED BY <2>1, <2>2
<1>6. ASSUME NEW o \in Bodies(doc), NEW u \in Bodies(doc), RequestEntry(doc, o) = RequestEntry(doc, u)
      PROVE  o = u
  <2>1. o \in Operations(doc) /\ u \in Operations(doc)
    BY DEF Bodies
  <2>2. /\ o = <<o[1], o[2]>> /\ o[1] \in DOMAIN Items(doc) /\ o[1] \in STRING /\ o[2] \in STRING
        /\ u = <<u[1], u[2]>> /\ u[1] \in DOMAIN Items(doc) /\ u[1] \in STRING /\ u[2] \in STRING
    BY <2>1, OperationFound, OperationJson
  <2>3. o[2] = u[2]
    <3>1. \A w : RequestEntry(doc, w).name = <<w[2], trim[w[1]], "request", "application/json">>
      BY RequestName DEF RequestEntry
    <3>2. <<o[2], trim[o[1]], "request", "application/json">> = <<u[2], trim[u[1]], "request", "application/json">>
      BY <1>6, <3>1
    <3> QED BY <3>2
  <2>4. Pointer(RequestKeys(o)) = Pointer(RequestKeys(u))
    <3>1. \A w : RequestEntry(doc, w).pointer = Pointer(RequestKeys(w))
      BY DEF RequestEntry
    <3> QED BY <1>6, <3>1
  <2>5. Pointer(RequestKeys(<<o[1], o[2]>>)) = Pointer(RequestKeys(<<u[1], o[2]>>))
    BY <2>2, <2>3, <2>4
  <2>6. Tokens(o[1]) = Tokens(u[1])
    BY <2>2, <2>5, RequestPointers
  <2>7. o[1] = u[1]
    BY <2>2, <2>6 DEF Documents20
  <2> QED BY <2>2, <2>3, <2>7
<1>7. Cardinality(requests) = converted(doc)
  <2>1. IsFiniteSet(Bodies(doc))
    <3>1. Bodies(doc) \in SUBSET Operations(doc)
      BY DEF Bodies
    <3> QED BY <3>1, FiniteOperations, FS_Subset
  <2>2. DOMAIN f = Bodies(doc) /\ f = [o \in DOMAIN f |-> f[o]] /\ \A o \in Bodies(doc) : f[o] = RequestEntry(doc, o)
    OBVIOUS
  <2>3. Range(f) = requests
    BY <1>5, <2>2 DEF Range
  <2> HIDE DEF f, requests
  <2>4. \A o, u \in DOMAIN f : f[o] = f[u] => o = u
    BY <1>6, <2>2
  <2>5. Cardinality(Range(f)) = Cardinality(DOMAIN f)
    BY <2>1, <2>2, <2>4, FiniteRange
  <2>6. converted(doc) = Cardinality(Bodies(doc))
    BY DEF converted, Bodies
  <2> QED BY <2>2, <2>3, <2>5, <2>6
<1> QED BY <1>5, <1>7 DEF requests, entries, new

(* How many bodies the diagnostics report.                                 *)
LEMMA ConvertedReported ==
  ASSUME NEW doc, NEW i \in DOMAIN swagger_diagnostics(doc), swagger_diagnostics(doc)[i].kind = "converted"
  PROVE  swagger_diagnostics(doc)[i].count = converted(doc)
<1> DEFINE lossy == [kind |-> "lossy", count |-> 0]
           moved == [kind |-> "moved", count |-> 0]
           told == [kind |-> "converted", count |-> converted(doc)]
           T == {lossy, moved, told}
           second == IF "definitions" \in DOMAIN doc.obj THEN <<moved>> ELSE <<>>
           third == IF converted(doc) > 0 THEN <<told>> ELSE <<>>
           list == <<lossy>> \o second \o third
<1>1. swagger_diagnostics(doc) = list
  BY DEF swagger_diagnostics
<1>2. lossy.kind = "lossy" /\ moved.kind = "moved" /\ told.count = converted(doc)
  OBVIOUS
<1> HIDE DEF lossy, moved, told
<1>3. list \in Seq(T)
  <2>1. <<lossy>> \in Seq(T) /\ <<moved>> \in Seq(T) /\ <<told>> \in Seq(T) /\ <<>> \in Seq(T)
    OBVIOUS
  <2>2. second \in Seq(T) /\ third \in Seq(T)
    BY <2>1
  <2>3. ASSUME NEW a \in Seq(T), NEW b \in Seq(T) PROVE a \o b \in Seq(T)
    OBVIOUS
  <2> HIDE DEF second, third, T
  <2> QED BY <2>1, <2>2, <2>3
<1> HIDE DEF list
<1>4. \A j \in DOMAIN list : list[j] \in T
  BY <1>3
<1> QED BY <1>1, <1>2, <1>4

(* Of each Swagger operation with one body parameter the schema is         *)
(* extracted with its meaning, the other parameters stay, and as many      *)
(* conversions are reported as there are requests.                         *)
THEOREM BodiesExactHolds ==
  ASSUME NEW S, Written30(S), Documents20(S)
  PROVE  OpenApiSpec => []BodiesExact
<1>1. Kept => BodiesExact
  <2> DEFINE bodies(o) == BodyParameters(o)
             schemas(o) == {Member(<<p>>, "schema") : p \in bodies(o)} \ {<<>>}
             request(o) == <<o[2], trim[o[1]], "request", "application/json">>
             single == {o \in Operations(input) : Cardinality(bodies(o)) = 1 /\ schemas(o) # {}}
  <2> SUFFICES ASSUME Kept, version = "2.0", paths # Pending
               PROVE  /\ \A o \in single : \E e \in paths :
                           /\ e.name = request(o)
                           /\ \A schema \in schemas(o) : SameMeaning(schema[1], e.schema, "2.0")
                      /\ \A o \in Operations(input) :
                           LET kept == Parameters(Operation(raw, o))
                               given == Parameters(Operation(input, o))
                           IN given # <<>> => kept # <<>> /\ ToSet(kept[1]) = ToSet(given[1]) \ bodies(o)
                      /\ \A i \in DOMAIN diagnostics : diagnostics[i].kind = "converted" =>
                           diagnostics[i].count = Cardinality({e \in paths : e.name[3] = "request"})
    BY DEF BodiesExact
  <2>1. /\ input \in Docs /\ detect_version(input) = "2.0" /\ raw = normalise_swagger(input)
        /\ paths = extract_path_schemas(raw, "2.0") /\ diagnostics = swagger_diagnostics(input)
        /\ Is(input, "obj") /\ Values \subseteq Json
    <3>1. version # Pending
      BY OpenApiAssumption DEF Versions
    <3> QED BY <3>1, OpenApiAssumption, JsonAssumption DEF Kept, Normalised, Is
  <2>2. /\ {e \in paths : e.name[3] = "request"} = {RequestEntry(input, o) : o \in Bodies(input)}
        /\ Cardinality({e \in paths : e.name[3] = "request"}) = converted(input)
    BY <2>1, RequestsExact
  <2>3. ASSUME NEW o \in Operations(input), Parameters(Operation(input, o)) # <<>>
        PROVE  LET list == Parameters(Operation(input, o))[1]
               IN /\ list \in Seq(Json) /\ bodies(o) = {p \in ToSet(list) : is_body(p)}
                  /\ BodySchema(Operation(input, o)) = retain(list).schema
                  /\ Parameters(Operation(raw, o)) = <<retain(list).kept>>
                  /\ ToSet(retain(list).kept) = {p \in ToSet(list) : ~is_body(p)}
                  /\ bodies(o) # {} => \E p \in bodies(o) : retain(list).schema = Member(<<p>>, "schema")
    <3> DEFINE op == Operation(input, o)
               list == Parameters(op)[1]
    <3>1. list \in Seq(Json)
      BY <2>1, <2>3, OperationJson
    <3>2. bodies(o) = {p \in ToSet(list) : is_body(p)}
      BY <2>3 DEF BodyParameters
    <3>3. BodySchema(op) = retain(list).schema
      BY <2>3 DEF BodySchema
    <3>4. Operation(raw, o) = lift_body_from_operation(op)
      BY <2>1, OperationsConverted
    <3>5. Parameters(Operation(raw, o)) = <<retain(list).kept>>
      BY <2>3, <3>4, LiftedOperation
    <3> HIDE DEF list
    <3>6. /\ ToSet(retain(list).kept) = {p \in ToSet(list) : ~is_body(p)}
          /\ (\E p \in ToSet(list) : is_body(p)) =>
               \E p \in ToSet(list) : is_body(p) /\ retain(list).schema = Member(<<p>>, "schema")
      BY <3>1, RetainExact
    <3>7. bodies(o) # {} => \E p \in bodies(o) : retain(list).schema = Member(<<p>>, "schema")
      BY <3>2, <3>6
    <3> QED BY <3>1, <3>2, <3>3, <3>5, <3>6, <3>7 DEF list
  <2>4. ASSUME NEW o \in single
        PROVE  \E e \in paths : /\ e.name = request(o)
                                /\ \A schema \in schemas(o) : SameMeaning(schema[1], e.schema, "2.0")
    <3> DEFINE op == Operation(input, o)
               list == Parameters(op)[1]
               e == RequestEntry(input, o)
    <3>1. o \in Operations(input) /\ Cardinality(bodies(o)) = 1 /\ schemas(o) # {} /\ bodies(o) # {}
      OBVIOUS
    <3>2. Parameters(op) # <<>>
      BY <3>1 DEF BodyParameters
    <3>3. PICK p : bodies(o) = {p}
      <4>1. IsFiniteSet(ToSet(list)) /\ bodies(o) \in SUBSET ToSet(list)
        BY <2>3, <3>1, <3>2, FiniteList
      <4>2. IsFiniteSet(bodies(o))
        BY <4>1, FS_Subset
      <4> QED BY <3>1, <4>2, FS_Singleton
    <3>4. BodySchema(op) = Member(<<p>>, "schema")
      BY <2>3, <3>1, <3>2, <3>3
    <3>5. schemas(o) = {BodySchema(op)} /\ BodySchema(op) # <<>>
      BY <3>1, <3>3, <3>4
    <3>6. e \in paths
      BY <2>2, <3>1, <3>5 DEF Bodies
    <3>7. e.name = request(o) /\ e.schema = adapt_oas30_schema[BodySchema(op)[1]]
      BY RequestName DEF RequestEntry
    <3>8. BodySchema(op)[1] \in S
      BY <2>1, <3>1, <3>5 DEF Documents20
    <3>9. SameMeaning(BodySchema(op)[1], e.schema, "2.0")
      <4>1. \A v \in Json : Accepts[Asked(adapt_oas30_schema[BodySchema(op)[1]], v, "2020-12")]
                              = Accepts[Asked(BodySchema(op)[1], v, "OpenAPI 3.0")]
        BY <3>8, SchemaAdapted
      <4> HIDE DEF e
      <4> QED BY <2>1, <3>7, <4>1 DEF SameMeaning, Asked
    <3> HIDE DEF e
    <3> QED BY <3>5, <3>6, <3>7, <3>9
  <2>5. ASSUME NEW o \in Operations(input), Parameters(Operation(input, o)) # <<>>
        PROVE  /\ Parameters(Operation(raw, o)) # <<>>
               /\ ToSet(Parameters(Operation(raw, o))[1]) = ToSet(Parameters(Operation(input, o))[1]) \ bodies(o)
    <3> DEFINE list == Parameters(Operation(input, o))[1]
               kept == Parameters(Operation(raw, o))
               taken == bodies(o)
    <3>1. /\ taken = {p \in ToSet(list) : is_body(p)} /\ kept = <<retain(list).kept>>
          /\ ToSet(retain(list).kept) = {p \in ToSet(list) : ~is_body(p)}
      BY <2>3, <2>5
    <3> HIDE DEF list, kept, taken
    <3>2. kept # <<>> /\ kept[1] = retain(list).kept
      BY <3>1
    <3>3. ToSet(kept[1]) = ToSet(list) \ taken
      BY <3>1, <3>2
    <3> QED BY <3>2, <3>3 DEF list, kept, taken
  <2>6. ASSUME NEW i \in DOMAIN diagnostics, diagnostics[i].kind = "converted"
        PROVE  diagnostics[i].count = Cardinality({e \in paths : e.name[3] = "request"})
    BY <2>1, <2>2, <2>6, ConvertedReported
  <2> HIDE DEF bodies, schemas, request, single
  <2> QED BY <2>4, <2>5, <2>6
<1> QED BY <1>1, KeptHolds, PTL

-----------------------------------------------------------------------------
(***************************************************************************)
(* The unevaluated keywords.                                               *)
(***************************************************************************)
(* Downwards: what holds at the top level, and of a level when of the one  *)
(* above it.                                                               *)
LEMMA DownInduction ==
  ASSUME NEW M \in Nat, NEW S, M \in S, \A d \in 0 .. M : d # M /\ d + 1 \in S => d \in S
  PROVE  \A d \in 0 .. M : d \in S
<1> DEFINE T == {n \in Nat : n <= M => M - n \in S}
<1>1. 0 \in T
  OBVIOUS
<1>2. ASSUME NEW n \in T PROVE n + 1 \in T
  <2> SUFFICES ASSUME n + 1 <= M PROVE M - (n + 1) \in S
    OBVIOUS
  <2>1. n \in Nat /\ (n <= M => M - n \in S)
    OBVIOUS
  <2>2. /\ n <= M /\ M - (n + 1) \in 0 .. M /\ M - (n + 1) # M
        /\ (M - (n + 1)) + 1 = M - n
    BY <2>1
  <2> DEFINE d == M - (n + 1)
  <2>3. d \in 0 .. M /\ d # M /\ d + 1 \in S
    BY <2>1, <2>2
  <2> HIDE DEF d
  <2>4. d \in S
    BY <2>3
  <2> QED
    BY <2>4 DEF d
<1>3. T = Nat
  <2>1. T \in SUBSET Nat
    OBVIOUS
  <2> HIDE DEF T
  <2> QED
    BY <1>1, <1>2, <2>1, SetInduction
<1>4. ASSUME NEW d \in 0 .. M PROVE d \in S
  <2>1. M - d \in Nat /\ M - d <= M /\ M - (M - d) = d
    OBVIOUS
  <2>2. M - d \in T
    BY <1>3, <2>1
  <2> QED
    BY <2>1, <2>2
<1> QED
  BY <1>4

(* Levels that are each made of the one above it, below a given top.       *)
Levels(M, D, top, F) ==
  {g \in [0 .. M -> D] : g[M] = top /\ \A d \in 0 .. M : d # M => g[d] = F[d][g[d + 1]]}

(* Such levels exist, whatever each is made of.                            *)
LEMMA LevelsExist ==
  ASSUME NEW M \in Nat, NEW D, NEW top \in D, NEW F \in [Nat -> [D -> D]]
  PROVE  \E g : g \in Levels(M, D, top, F)
<1> DEFINE Up(f, n) == f[0] = top
                         /\ \A m \in Nat : m < n /\ m + 1 <= M => f[m + 1] = F[M - (m + 1)][f[m]]
           T == {n \in Nat : \E f \in [Nat -> D] : Up(f, n)}
<1>1. 0 \in T
  <2> DEFINE f == [m \in Nat |-> top]
  <2>1. f \in [Nat -> D] /\ Up(f, 0)
    OBVIOUS
  <2> QED
    BY <2>1
<1>2. ASSUME NEW n \in T PROVE n + 1 \in T
  <2>1. PICK f \in [Nat -> D] : Up(f, n)
    OBVIOUS
  <2> DEFINE next == IF n + 1 <= M THEN F[M - (n + 1)][f[n]] ELSE top
             h == [f EXCEPT ![n + 1] = next]
  <2>2. n \in Nat /\ next \in D
    <3>1. n + 1 <= M => M - (n + 1) \in Nat
      OBVIOUS
    <3> QED
      BY <3>1
  <2>3. h \in [Nat -> D] /\ h[n + 1] = next /\ \A m \in Nat : m # n + 1 => h[m] = f[m]
    BY <2>2
  <2> HIDE DEF h
  <2>4. h[0] = top
    BY <2>1, <2>2, <2>3
  <2>5. ASSUME NEW m \in Nat, m < n + 1, m + 1 <= M
        PROVE  h[m + 1] = F[M - (m + 1)][h[m]]
    <3>1. h[m] = f[m]
      BY <2>2, <2>3, <2>5
    <3>2. CASE m = n
      BY <2>3, <2>5, <3>1, <3>2
    <3>3. CASE m # n
      <4>1. m < n /\ m + 1 # n + 1
        BY <2>2, <2>5, <3>3
      <4> QED
        BY <2>1, <2>3, <2>5, <3>1, <4>1
    <3> QED
      BY <3>2, <3>3
  <2> QED
    BY <2>2, <2>3, <2>4, <2>5
<1>3. T = Nat
  <2>1. T \in SUBSET Nat
    OBVIOUS
  <2> HIDE DEF T
  <2> QED
    BY <1>1, <1>2, <2>1, SetInduction
<1>4. PICK f \in [Nat -> D] : Up(f, M)
  BY <1>3
<1> DEFINE g == [d \in 0 .. M |-> f[M - d]]
<1>5. g \in [0 .. M -> D] /\ g[M] = top
  BY <1>4
<1>6. ASSUME NEW d \in 0 .. M, d # M PROVE g[d] = F[d][g[d + 1]]
  <2> DEFINE m == M - (d + 1)
  <2>1. /\ m \in Nat /\ m < M /\ m + 1 <= M /\ M - (m + 1) = d /\ m + 1 = M - d
        /\ d + 1 \in 0 .. M /\ M - (d + 1) = m
    BY <1>6
  <2> HIDE DEF m
  <2>2. f[m + 1] = F[d][f[m]]
    BY <1>4, <2>1
  <2>3. g[d] = f[m + 1] /\ g[d + 1] = f[m]
    BY <2>1
  <2> QED
    BY <2>2, <2>3
<1> HIDE DEF g
<1>7. g \in Levels(M, D, top, F)
  BY <1>5, <1>6 DEF Levels
<1> QED
  BY <1>7

-----------------------------------------------------------------------------
(* Answers.                                                                *)
Answer == {"valid", "failed", "aborted"}

(* Merging aborts if and only if something merged did.                     *)
LEMMA MergedFacts ==
  ASSUME NEW outs
  PROVE  Merged(outs) \in Answer /\ (Merged(outs) = "aborted" <=> "aborted" \in outs)
BY DEF Merged, Answer

(* So does deciding between branches, whatever it takes of them.           *)
LEMMA DecidedFacts ==
  ASSUME NEW outs, NEW enough
  PROVE  /\ Decided(outs, enough) \in Answer
         /\ Decided(outs, enough) = "aborted" <=> "aborted" \in outs
BY DEF Decided, Answer

(* The parts of a schema.                                                  *)
LEMMA BodyParts ==
  ASSUME task \in Task, NEW s \in Schema
  PROVE  /\ body(s).allOf \subseteq Schema /\ body(s).anyOf \subseteq Schema
         /\ body(s).oneOf \subseteq Schema /\ body(s).dependents \subseteq Schema
         /\ body(s).if \in Schema \cup {NoSchema} /\ body(s).then \in Schema \cup {NoSchema}
         /\ body(s).else \in Schema \cup {NoSchema}
         /\ body(s).named \subseteq Part /\ body(s).matching \subseteq Part
         /\ body(s).rest \in {"absent", "false", "schema"}
         /\ \A u \in Base : body(s).ref[u].schema \in Schema \cup {NoSchema}
                            /\ body(s).ref[u].base \in Base
         /\ \A u \in Base : base_of(s, u) \in Base
<1>1. body(s) \in Body
  BY DEF Task, body
<1>2. \A u \in Base : body(s).ref[u] \in Target
  BY <1>1 DEF Body
<1> QED
  BY <1>1, <1>2 DEF Body, Target, base_of

(* What a schema evaluates itself are parts of the instance.               *)
LEMMA LocalPartsType ==
  ASSUME task \in Task, NEW s \in Schema
  PROVE  LocalParts(s) \subseteq Part
BY BodyParts DEF LocalParts

(* One level of validate_schema, from the level below it.                  *)
Verdicts(d, sub) ==
  [s \in Schema |-> [u \in Base |->
     LET base == base_of(s, u)
         valid == {t \in Schema : sub[t][base] = "valid"}
     IN CASE d = MaxDepth -> "aborted"
          [] d < MaxDepth /\ ~body(s).object -> IF body(s).accepts THEN "valid" ELSE "failed"
          [] OTHER -> Merged({Applied(s, u, sub), Unevaluated(s, Walk(s, base, valid))})]]

(* validate_schema satisfies its own equation.                             *)
LEMMA VerdictEquation ==
  \A d \in 0 .. MaxDepth : validate_schema[d] = Verdicts(d, validate_schema[d + 1])
<1> DEFINE D == [Schema -> [Base -> Answer]]
           F == [d \in Nat |-> [sub \in D |-> Verdicts(d, sub)]]
           top == Verdicts(MaxDepth, 0)
<1>1. \A d, sub : Verdicts(d, sub) \in D
  <2> TAKE d, sub
  <2> DEFINE V(s, u) ==
               LET base == base_of(s, u)
                   valid == {t \in Schema : sub[t][base] = "valid"}
               IN CASE d = MaxDepth -> "aborted"
                    [] d < MaxDepth /\ ~body(s).object -> IF body(s).accepts THEN "valid" ELSE "failed"
                    [] OTHER -> Merged({Applied(s, u, sub), Unevaluated(s, Walk(s, base, valid))})
  <2>1. \A s, u : V(s, u) \in Answer
    BY MergedFacts DEF Answer
  <2>2. Verdicts(d, sub) = [s \in Schema |-> [u \in Base |-> V(s, u)]]
    BY DEF Verdicts
  <2> HIDE DEF V
  <2> QED
    BY <2>1, <2>2
<1>2. \A sub : Verdicts(MaxDepth, sub) = top
  BY DEF Verdicts
<1>3. F \in [Nat -> [D -> D]]
  BY <1>1
<1>4. PICK g : g \in Levels(MaxDepth, D, top, F)
  <2> HIDE DEF D, F, top
  <2>1. top \in D /\ MaxDepth \in Nat
    BY <1>1, UnevaluatedAssumption DEF top
  <2> QED
    BY <1>3, <2>1, LevelsExist
<1>5. \A d \in 0 .. MaxDepth : g[d] = Verdicts(d, g[d + 1])
  <2> TAKE d \in 0 .. MaxDepth
  <2>1. CASE d = MaxDepth
    BY <1>2, <1>4, <2>1 DEF Levels
  <2>2. CASE d # MaxDepth
    <3>1. d \in Nat /\ d + 1 \in 0 .. MaxDepth
      BY <2>2, UnevaluatedAssumption
    <3>2. g[d + 1] \in D
      BY <1>4, <3>1 DEF Levels
    <3>3. g[d] = F[d][g[d + 1]]
      BY <1>4, <2>2 DEF Levels
    <3> QED
      BY <3>1, <3>2, <3>3
  <2> QED
    BY <2>1, <2>2
<1>6. \E f : f = [d \in 0 .. MaxDepth |-> Verdicts(d, f[d + 1])]
  <2>1. g = [d \in 0 .. MaxDepth |-> g[d]]
    BY <1>4 DEF Levels
  <2>2. g = [d \in 0 .. MaxDepth |-> Verdicts(d, g[d + 1])]
    BY <1>5, <2>1
  <2> QED
    BY <2>2
<1>7. validate_schema = CHOOSE f : f = [d \in 0 .. MaxDepth |-> Verdicts(d, f[d + 1])]
  BY DEF validate_schema, Verdicts
<1>8. validate_schema = [d \in 0 .. MaxDepth |-> Verdicts(d, validate_schema[d + 1])]
  <2> HIDE DEF F, D
  <2> QED
    BY <1>6, <1>7
<1> QED
  BY <1>8

(* What a row of the documented evaluation takes from the level below it.  *)
AnswersOf(sub) == [t \in Schema |-> [v \in Base |-> sub[t][v].out]]

Counting(s, u, sub) ==
  LET b == body(s)
      base == base_of(s, u)
  IN b.allOf \cup {t \in b.anyOf \cup b.oneOf : sub[t][base].out = "valid"}
       \cup (IF task.array THEN {} ELSE b.dependents)
       \cup (IF b.if = NoSchema THEN {}
             ELSE {b.if, IF sub[b.if][base].out = "valid" THEN b.then ELSE b.else} \ {NoSchema})

Referenced(s, u, sub) ==
  LET b == body(s)
      base == base_of(s, u)
  IN IF ~b.refers \/ b.ref[base].schema = NoSchema THEN {}
     ELSE sub[b.ref[base].schema][b.ref[base].base].parts

PartsOf(s, u, sub) ==
  LocalParts(s) \cup Referenced(s, u, sub)
    \cup UNION {sub[t][base_of(s, u)].parts : t \in Counting(s, u, sub)}

Forbidden(s, parts) ==
  IF body(s).forbids /\ body(s).rest = "absent" /\ parts # Part THEN "failed" ELSE "valid"

Row(d, s, u, sub) ==
  CASE d = MaxDepth -> [out |-> "aborted", parts |-> {}]
    [] d < MaxDepth /\ ~body(s).object ->
         [out |-> IF body(s).accepts THEN "valid" ELSE "failed", parts |-> {}]
    [] OTHER -> [out |-> Merged({Applied(s, u, AnswersOf(sub)), Forbidden(s, PartsOf(s, u, sub))}),
                 parts |-> PartsOf(s, u, sub)]

(* One level of Documented, from the level below it.                       *)
Documents(d, sub) == [s \in Schema |-> [u \in Base |-> Row(d, s, u, sub)]]

DocumentedLevels ==
  CHOOSE f : f = [d \in 0 .. MaxDepth |-> Documents(d, f[d + 1])]

(* Documented is the first level, at the root.                             *)
LEMMA DocumentedIsLevel == Documented = DocumentedLevels[0][task.root][task.base].out
BY DEF Documented, DocumentedLevels, Documents, Row, AnswersOf, Forbidden, PartsOf, Referenced,
   Counting

Documentation == [Schema -> [Base -> [out : Answer, parts : SUBSET Part]]]

(* The levels keep their type.                                             *)
LEMMA DocumentsType ==
  ASSUME task \in Task, NEW d, NEW sub \in Documentation
  PROVE  Documents(d, sub) \in Documentation
<1>1. ASSUME NEW s \in Schema, NEW u \in Base
      PROVE  Row(d, s, u, sub) \in [out : Answer, parts : SUBSET Part]
  <2>1. base_of(s, u) \in Base /\ LocalParts(s) \subseteq Part
    BY BodyParts, LocalPartsType
  <2>2. \A t \in Schema, v \in Base : sub[t][v].parts \subseteq Part
    BY DEF Documentation
  <2>3. Counting(s, u, sub) \subseteq Schema
    BY BodyParts DEF Counting
  <2>4. Referenced(s, u, sub) \subseteq Part
    BY <2>1, <2>2, BodyParts DEF Referenced
  <2>5. PartsOf(s, u, sub) \subseteq Part
    <3> DEFINE base == base_of(s, u)
               U == UNION {sub[t][base].parts : t \in Counting(s, u, sub)}
    <3>1. \A t \in Counting(s, u, sub) : sub[t][base].parts \subseteq Part
      BY <2>1, <2>2, <2>3
    <3>2. U \subseteq Part
      <4> SUFFICES ASSUME NEW t \in Counting(s, u, sub), NEW x \in sub[t][base].parts
                   PROVE  x \in Part
        OBVIOUS
      <4> QED
        BY <3>1
    <3>3. PartsOf(s, u, sub) = LocalParts(s) \cup Referenced(s, u, sub) \cup U
      BY DEF PartsOf
    <3> HIDE DEF U
    <3> QED
      BY <2>1, <2>4, <3>2, <3>3
  <2>6. \A o \in Answer, p \in SUBSET Part : [out |-> o, parts |-> p] \in [out : Answer, parts : SUBSET Part]
    OBVIOUS
  <2>7. /\ "aborted" \in Answer /\ "valid" \in Answer /\ "failed" \in Answer
        /\ \A outs : Merged(outs) \in Answer
    BY MergedFacts DEF Answer
  <2> DEFINE o == Merged({Applied(s, u, AnswersOf(sub)), Forbidden(s, PartsOf(s, u, sub))})
             p == PartsOf(s, u, sub)
  <2>8. o \in Answer /\ p \in SUBSET Part /\ {} \in SUBSET Part
    BY <2>5, <2>7
  <2>9. Row(d, s, u, sub) =
          CASE d = MaxDepth -> [out |-> "aborted", parts |-> {}]
            [] d < MaxDepth /\ ~body(s).object ->
                 [out |-> IF body(s).accepts THEN "valid" ELSE "failed", parts |-> {}]
            [] OTHER -> [out |-> o, parts |-> p]
    BY DEF Row
  <2> HIDE DEF o, p
  <2>10. [out |-> o, parts |-> p] \in [out : Answer, parts : SUBSET Part]
    BY <2>6, <2>8
  <2>11. \A a \in Answer : [out |-> a, parts |-> {}] \in [out : Answer, parts : SUBSET Part]
    BY <2>6, <2>8
  <2> QED
    BY <2>7, <2>9, <2>10, <2>11
<1> QED
  BY <1>1 DEF Documents, Documentation

(* Documented satisfies its own equation.                                  *)
LEMMA DocumentedEquation ==
  ASSUME task \in Task
  PROVE  \A d \in 0 .. MaxDepth :
           /\ DocumentedLevels[d] = Documents(d, DocumentedLevels[d + 1])
           /\ DocumentedLevels[d] \in Documentation
<1> DEFINE D == Documentation
           F == [d \in Nat |-> [sub \in D |-> Documents(d, sub)]]
           top == Documents(MaxDepth, 0)
<1>1. \A sub : Documents(MaxDepth, sub) = top
  BY DEF Documents, Row
<1>2. top \in D
  <2>1. \A s \in Schema, u \in Base :
          Row(MaxDepth, s, u, 0) \in [out : Answer, parts : SUBSET Part]
    BY DEF Row, Answer
  <2> QED
    BY <2>1 DEF Documents, Documentation
<1>3. F \in [Nat -> [D -> D]]
  BY DocumentsType
<1>4. PICK g : g \in Levels(MaxDepth, D, top, F)
  <2> HIDE DEF D, F, top
  <2>1. MaxDepth \in Nat
    BY UnevaluatedAssumption
  <2> QED
    BY <1>2, <1>3, <2>1, LevelsExist
<1>5. \A d \in 0 .. MaxDepth : g[d] = Documents(d, g[d + 1])
  <2> TAKE d \in 0 .. MaxDepth
  <2>1. CASE d = MaxDepth
    BY <1>1, <1>4, <2>1 DEF Levels
  <2>2. CASE d # MaxDepth
    <3>1. d \in Nat /\ d + 1 \in 0 .. MaxDepth
      BY <2>2, UnevaluatedAssumption
    <3>2. g[d + 1] \in D
      BY <1>4, <3>1 DEF Levels
    <3>3. g[d] = F[d][g[d + 1]]
      BY <1>4, <2>2 DEF Levels
    <3> QED
      BY <3>1, <3>2, <3>3
  <2> QED
    BY <2>1, <2>2
<1>6. \E f : f = [d \in 0 .. MaxDepth |-> Documents(d, f[d + 1])]
  <2>1. g = [d \in 0 .. MaxDepth |-> g[d]]
    BY <1>4 DEF Levels
  <2>2. g = [d \in 0 .. MaxDepth |-> Documents(d, g[d + 1])]
    BY <1>5, <2>1
  <2> QED
    BY <2>2
<1>7. DocumentedLevels = [d \in 0 .. MaxDepth |-> Documents(d, DocumentedLevels[d + 1])]
  <2> HIDE DEF F, D
  <2> QED
    BY <1>6 DEF DocumentedLevels
<1>8. \A d \in 0 .. MaxDepth : DocumentedLevels[d] = Documents(d, DocumentedLevels[d + 1])
  BY <1>7
<1> DEFINE S == {d \in 0 .. MaxDepth : DocumentedLevels[d] \in Documentation}
<1>9. MaxDepth \in S
  BY <1>1, <1>2, <1>8, UnevaluatedAssumption
<1>10. \A d \in 0 .. MaxDepth : d # MaxDepth /\ d + 1 \in S => d \in S
  BY <1>8, DocumentsType
<1>11. \A d \in 0 .. MaxDepth : d \in S
  <2> HIDE DEF S
  <2> QED
    BY <1>9, <1>10, DownInduction, UnevaluatedAssumption
<1> QED
  BY <1>8, <1>11

(* One level of the collection walk, from the level below it.              *)
WalkLevel(k, base, valid, below) ==
  [t \in Schema |->
     IF task.array /\ ~body(t).object THEN Nothing
     ELSE IF k > Budget THEN [seen |-> {}, exceeded |-> TRUE]
     ELSE IF ~body(t).object THEN Nothing
     ELSE Together({[seen |-> {t}, exceeded |-> FALSE]}
                     \cup {below[c] : c \in Children(t, base, valid)})]

WalkLevels(base, valid) ==
  CHOOSE f : f = [k \in 0 .. Budget + 1 |-> WalkLevel(k, base, valid, f[k + 1])]

(* The walk, by its levels.                                                *)
LEMMA WalkIsLevel ==
  ASSUME NEW s, NEW base, NEW valid
  PROVE  Walk(s, base, valid) =
           IF task.array THEN WalkLevels(base, valid)[0][s]
           ELSE Together({WalkLevels(base, valid)[0][c] : c \in Children(s, base, valid)})
BY DEF Walk, WalkLevels, WalkLevel

(* The children are schemas.                                               *)
LEMMA ChildrenType ==
  ASSUME task \in Task, NEW t \in Schema, NEW base \in Base, NEW valid
  PROVE  Children(t, base, valid) \subseteq Schema
BY BodyParts DEF Children

(* The walk satisfies its own equation.                                    *)
LEMMA WalkEquation ==
  ASSUME task \in Task, NEW base \in Base, NEW valid
  PROVE  \A k \in 0 .. Budget + 1 :
           WalkLevels(base, valid)[k] = WalkLevel(k, base, valid, WalkLevels(base, valid)[k + 1])
<1> DEFINE R == [seen : SUBSET Schema, exceeded : BOOLEAN]
           D == [Schema -> R]
           M == Budget + 1
           Lev(k, below) == WalkLevel(k, base, valid, below)
           F == [k \in Nat |-> [below \in D |-> Lev(k, below)]]
           top == Lev(M, 0)
<1>0. M \in Nat /\ M > Budget
  BY UnevaluatedAssumption DEF Budget
<1>1. \A below : Lev(M, below) = top
  BY <1>0 DEF WalkLevel
<1>2. top \in D
  BY <1>0 DEF WalkLevel, Nothing
<1>3. ASSUME NEW k, NEW below \in D PROVE Lev(k, below) \in D
  <2>1. ASSUME NEW t \in Schema
        PROVE  Together({[seen |-> {t}, exceeded |-> FALSE]}
                          \cup {below[c] : c \in Children(t, base, valid)}) \in R
    <3> DEFINE W == {[seen |-> {t}, exceeded |-> FALSE]}
                      \cup {below[c] : c \in Children(t, base, valid)}
    <3>1. [seen |-> {t}, exceeded |-> FALSE] \in R
      OBVIOUS
    <3>2. \A c \in Children(t, base, valid) : below[c] \in R
      <4> HIDE DEF R
      <4> QED
        BY ChildrenType
    <3>3. \A w \in W : w \in R
      <4> HIDE DEF R
      <4> QED
        BY <3>1, <3>2
    <3> HIDE DEF W
    <3>4. UNION {w.seen : w \in W} \subseteq Schema
      BY <3>3
    <3>5. \A U \in SUBSET Schema, b \in BOOLEAN : [seen |-> U, exceeded |-> b] \in R
      OBVIOUS
    <3>6. (\E w \in W : w.exceeded) \in BOOLEAN
      OBVIOUS
    <3>7. [seen |-> UNION {w.seen : w \in W}, exceeded |-> \E w \in W : w.exceeded] \in R
      <4> HIDE DEF R
      <4> QED
        BY <3>4, <3>5, <3>6, Zenon
    <3>8. Together(W) = [seen |-> UNION {w.seen : w \in W}, exceeded |-> \E w \in W : w.exceeded]
      BY DEF Together
    <3> QED
      BY <3>7, <3>8 DEF W
  <2>2. Nothing \in R /\ [seen |-> {}, exceeded |-> TRUE] \in R
    BY DEF Nothing
  <2> HIDE DEF R
  <2> QED
    BY <2>1, <2>2 DEF WalkLevel
<1>4. F \in [Nat -> [D -> D]]
  <2> HIDE DEF D, Lev
  <2> QED
    BY <1>3
<1>5. PICK g : g \in Levels(M, D, top, F)
  <2> HIDE DEF D, F, top, M
  <2> QED
    BY <1>0, <1>2, <1>4, LevelsExist
<1>6. \A k \in 0 .. M : g[k] = Lev(k, g[k + 1])
  <2> TAKE k \in 0 .. M
  <2> HIDE DEF Lev, M, D
  <2>1. CASE k = M
    BY <1>1, <1>5, <2>1 DEF Levels
  <2>2. CASE k # M
    <3>1. k \in Nat /\ k + 1 \in 0 .. M
      BY <1>0, <2>2
    <3>2. g[k + 1] \in D
      BY <1>5, <3>1 DEF Levels
    <3>3. g[k] = F[k][g[k + 1]]
      BY <1>5, <2>2 DEF Levels
    <3> QED
      BY <3>1, <3>2, <3>3
  <2> QED
    BY <2>1, <2>2
<1>7. \E f : f = [k \in 0 .. M |-> Lev(k, f[k + 1])]
  <2> HIDE DEF Lev, M, D
  <2>1. g = [k \in 0 .. M |-> g[k]]
    BY <1>5 DEF Levels
  <2>2. g = [k \in 0 .. M |-> Lev(k, g[k + 1])]
    BY <1>6, <2>1
  <2> QED
    BY <2>2
<1>8. WalkLevels(base, valid) = [k \in 0 .. M |-> Lev(k, WalkLevels(base, valid)[k + 1])]
  <2>1. WalkLevels(base, valid) = CHOOSE f : f = [k \in 0 .. M |-> Lev(k, f[k + 1])]
    BY DEF WalkLevels
  <2> HIDE DEF Lev, M, D, F
  <2> QED
    BY <1>7, <2>1
<1> QED
  BY <1>8

-----------------------------------------------------------------------------
(* The schemas whose answers schema s asks for, under one base URI.        *)
Branch(s, u, sub) == IF sub[body(s).if][u] = "valid" THEN body(s).then ELSE body(s).else

AskedBelow(s, u, sub) ==
  LET b == body(s)
  IN b.allOf \cup b.anyOf \cup b.oneOf \cup (IF task.array THEN {} ELSE b.dependents)
       \cup (IF b.if = NoSchema THEN {} ELSE {b.if, Branch(s, u, sub)} \ {NoSchema})
       \cup (IF b.refers THEN {b.ref[u].schema} \ {NoSchema} ELSE {})

AnswersTo(X, u, sub) == {sub[t][u] : t \in X}

ValidOf(X, u, sub) == {t \in X : sub[t][u] = "valid"}

Closed(s) ==
  body(s).rest = "false"
    /\ Part # body(s).named \cup (IF task.array THEN {} ELSE body(s).matching)

(* The answers that Applied merges.                                        *)
AppliedTo(s, u, sub) ==
  LET b == body(s)
  IN AnswersTo(b.allOf, u, sub)
       \cup (IF task.array THEN {} ELSE AnswersTo(b.dependents, u, sub))
       \cup (IF b.anyOf = {} THEN {}
             ELSE {Decided(AnswersTo(b.anyOf, u, sub), ValidOf(b.anyOf, u, sub) # {})})
       \cup (IF b.oneOf = {} THEN {}
             ELSE {Decided(AnswersTo(b.oneOf, u, sub), Cardinality(ValidOf(b.oneOf, u, sub)) = 1)})
       \cup (CASE b.if = NoSchema -> {}
               [] b.if # NoSchema /\ sub[b.if][u] = "aborted" -> {"aborted"}
               [] OTHER -> IF Branch(s, u, sub) = NoSchema THEN {} ELSE {sub[Branch(s, u, sub)][u]})
       \cup (IF ~b.refers THEN {}
             ELSE IF b.ref[u].schema = NoSchema THEN {"aborted"}
             ELSE {sub[b.ref[u].schema][u]})
       \cup {IF b.accepts /\ ~Closed(s) THEN "valid" ELSE "failed"}

(* Inside one base URI nothing changes it.                                 *)
LEMMA InOneBase ==
  ASSUME OneBase, NEW s \in Schema, NEW u \in Base
  PROVE  base_of(s, u) = u /\ (body(s).refers => body(s).ref[u].base = u)
BY DEF OneBase, base_of

(* There Applied merges just these.                                        *)
LEMMA AppliedMerges ==
  ASSUME OneBase, NEW s \in Schema, NEW u \in Base, NEW sub
  PROVE  Applied(s, u, sub) = Merged(AppliedTo(s, u, sub))
<1>1. base_of(s, u) = u
  BY InOneBase
<1>2. CASE body(s).refers
  <2>1. body(s).ref[u].base = u
    BY <1>2, InOneBase
  <2> QED
    BY <1>1, <1>2, <2>1 DEF Applied, AppliedTo, AnswersTo, ValidOf, Closed, Branch
<1>3. CASE ~body(s).refers
  BY <1>1, <1>3 DEF Applied, AppliedTo, AnswersTo, ValidOf, Closed, Branch
<1> QED
  BY <1>2, <1>3

(* The schemas asked are schemas.                                          *)
LEMMA AskedType ==
  ASSUME task \in Task, NEW s \in Schema, NEW u \in Base, NEW sub
  PROVE  AskedBelow(s, u, sub) \subseteq Schema
BY BodyParts DEF AskedBelow, Branch

(* An answer that is not aborted rests on answers that are not.            *)
LEMMA AbortSpreads ==
  ASSUME task \in Task, OneBase, NEW s \in Schema, NEW u \in Base, NEW sub,
         Applied(s, u, sub) # "aborted"
  PROVE  /\ \A c \in AskedBelow(s, u, sub) : sub[c][u] # "aborted"
         /\ body(s).refers => body(s).ref[u].schema # NoSchema
<1>1. "aborted" \notin AppliedTo(s, u, sub)
  BY AppliedMerges, MergedFacts
<1>2. \A X : (\A c \in X : sub[c][u] # "aborted") <=> "aborted" \notin AnswersTo(X, u, sub)
  BY DEF AnswersTo
<1>3. \A outs, enough : Decided(outs, enough) = "aborted" <=> "aborted" \in outs
  BY DecidedFacts
<1>4. \A c \in body(s).allOf : sub[c][u] # "aborted"
  BY <1>1, <1>2 DEF AppliedTo
<1>5. ~task.array => \A c \in body(s).dependents : sub[c][u] # "aborted"
  BY <1>1, <1>2 DEF AppliedTo
<1>6. \A c \in body(s).anyOf : sub[c][u] # "aborted"
  BY <1>1, <1>2, <1>3 DEF AppliedTo
<1>7. \A c \in body(s).oneOf : sub[c][u] # "aborted"
  BY <1>1, <1>2, <1>3 DEF AppliedTo
<1>8. body(s).if # NoSchema =>
        /\ sub[body(s).if][u] # "aborted"
        /\ Branch(s, u, sub) # NoSchema => sub[Branch(s, u, sub)][u] # "aborted"
  BY <1>1 DEF AppliedTo
<1>9. body(s).refers => body(s).ref[u].schema # NoSchema /\ sub[body(s).ref[u].schema][u] # "aborted"
  BY <1>1 DEF AppliedTo
<1> QED
  BY <1>4, <1>5, <1>6, <1>7, <1>8, <1>9 DEF AskedBelow

(* An answer depends on the answers it asks for alone.                     *)
LEMMA AppliedSame ==
  ASSUME task \in Task, OneBase, NEW s \in Schema, NEW u \in Base, NEW sub, NEW alt,
         \A c \in AskedBelow(s, u, sub) : alt[c][u] = sub[c][u]
  PROVE  Applied(s, u, alt) = Applied(s, u, sub) /\ AskedBelow(s, u, alt) = AskedBelow(s, u, sub)
<1>1. \A X : X \subseteq AskedBelow(s, u, sub) =>
        AnswersTo(X, u, alt) = AnswersTo(X, u, sub) /\ ValidOf(X, u, alt) = ValidOf(X, u, sub)
  BY DEF AnswersTo, ValidOf
<1>2. /\ body(s).allOf \subseteq AskedBelow(s, u, sub) /\ body(s).anyOf \subseteq AskedBelow(s, u, sub)
      /\ body(s).oneOf \subseteq AskedBelow(s, u, sub)
      /\ ~task.array => body(s).dependents \subseteq AskedBelow(s, u, sub)
      /\ body(s).if # NoSchema =>
           /\ body(s).if \in AskedBelow(s, u, sub)
           /\ Branch(s, u, sub) # NoSchema => Branch(s, u, sub) \in AskedBelow(s, u, sub)
      /\ body(s).refers /\ body(s).ref[u].schema # NoSchema =>
           body(s).ref[u].schema \in AskedBelow(s, u, sub)
  BY DEF AskedBelow
<1>3. body(s).if # NoSchema =>
        /\ alt[body(s).if][u] = sub[body(s).if][u]
        /\ Branch(s, u, alt) = Branch(s, u, sub)
        /\ Branch(s, u, sub) # NoSchema =>
             alt[Branch(s, u, sub)][u] = sub[Branch(s, u, sub)][u]
  BY <1>2 DEF Branch
<1>4. body(s).refers /\ body(s).ref[u].schema # NoSchema =>
        alt[body(s).ref[u].schema][u] = sub[body(s).ref[u].schema][u]
  BY <1>2
<1>5. AppliedTo(s, u, alt) = AppliedTo(s, u, sub)
  BY <1>1, <1>2, <1>3, <1>4 DEF AppliedTo
<1>6. AskedBelow(s, u, alt) = AskedBelow(s, u, sub)
  BY <1>3 DEF AskedBelow
<1> QED
  BY <1>5, <1>6, AppliedMerges

(* The answers are those of the level.                                     *)
LEMMA AnswersOfFacts ==
  ASSUME NEW sub, NEW c \in Schema, NEW u \in Base
  PROVE  AnswersOf(sub)[c][u] = sub[c][u].out
BY DEF AnswersOf

(* So do the parts that are evaluated.                                     *)
LEMMA PartsSame ==
  ASSUME task \in Task, OneBase, NEW s \in Schema, NEW u \in Base, NEW sub, NEW alt,
         \A c \in AskedBelow(s, u, AnswersOf(sub)) : alt[c][u] = sub[c][u]
  PROVE  PartsOf(s, u, alt) = PartsOf(s, u, sub)
<1> DEFINE A == AskedBelow(s, u, AnswersOf(sub))
<1>1. base_of(s, u) = u /\ (body(s).refers => body(s).ref[u].base = u)
  BY InOneBase
<1>2. /\ body(s).allOf \subseteq A /\ body(s).anyOf \subseteq A /\ body(s).oneOf \subseteq A
      /\ ~task.array => body(s).dependents \subseteq A
      /\ body(s).if # NoSchema =>
           /\ body(s).if \in A
           /\ Branch(s, u, AnswersOf(sub)) # NoSchema => Branch(s, u, AnswersOf(sub)) \in A
      /\ body(s).refers /\ body(s).ref[u].schema # NoSchema => body(s).ref[u].schema \in A
  BY DEF AskedBelow
<1>3. body(s).if # NoSchema =>
        Branch(s, u, AnswersOf(sub)) = IF sub[body(s).if][u].out = "valid" THEN body(s).then
                                       ELSE body(s).else
  <2>1. body(s).if # NoSchema => body(s).if \in Schema
    BY BodyParts
  <2> QED
    BY <2>1, AnswersOfFacts DEF Branch
<1> HIDE DEF A
<1>4. {t \in body(s).anyOf \cup body(s).oneOf : alt[t][u].out = "valid"}
        = {t \in body(s).anyOf \cup body(s).oneOf : sub[t][u].out = "valid"}
  BY <1>2 DEF A
<1>5. Counting(s, u, alt) = Counting(s, u, sub)
  <2>1. body(s).if # NoSchema => alt[body(s).if][u].out = sub[body(s).if][u].out
    BY <1>2 DEF A
  <2> QED
    BY <1>1, <1>4, <2>1 DEF Counting
<1>6. Counting(s, u, sub) \subseteq A
  BY <1>1, <1>2, <1>3 DEF Counting
<1>7. {alt[t][u].parts : t \in Counting(s, u, sub)} = {sub[t][u].parts : t \in Counting(s, u, sub)}
  BY <1>6 DEF A
<1>8. Referenced(s, u, alt) = Referenced(s, u, sub)
  BY <1>1, <1>2 DEF Referenced, A
<1>9. \A p : PartsOf(s, u, p) = LocalParts(s) \cup Referenced(s, u, p)
                                  \cup UNION {p[t][u].parts : t \in Counting(s, u, p)}
  BY <1>1 DEF PartsOf
<1> DEFINE P(p) == UNION {p[t][u].parts : t \in Counting(s, u, p)}
<1>10. P(alt) = P(sub)
  BY <1>5, <1>7
<1> HIDE DEF P
<1>11. \A p : PartsOf(s, u, p) = LocalParts(s) \cup Referenced(s, u, p) \cup P(p)
  BY <1>9 DEF P
<1> QED
  BY <1>8, <1>10, <1>11

(* So does a whole row, at whatever depth below the limit.                 *)
LEMMA RowSame ==
  ASSUME task \in Task, OneBase, NEW s \in Schema, NEW u \in Base, NEW sub, NEW alt,
         NEW d \in 0 .. MaxDepth, NEW i \in 0 .. MaxDepth, d # MaxDepth, i # MaxDepth,
         \A c \in AskedBelow(s, u, AnswersOf(sub)) : alt[c][u] = sub[c][u]
  PROVE  Row(d, s, u, alt) = Row(i, s, u, sub)
<1>1. d < MaxDepth /\ i < MaxDepth
  BY UnevaluatedAssumption
<1>2. PartsOf(s, u, alt) = PartsOf(s, u, sub)
  BY PartsSame
<1>3. Applied(s, u, AnswersOf(alt)) = Applied(s, u, AnswersOf(sub))
  <2>1. \A c \in AskedBelow(s, u, AnswersOf(sub)) : AnswersOf(alt)[c][u] = AnswersOf(sub)[c][u]
    BY AskedType, AnswersOfFacts
  <2> QED
    BY <2>1, AppliedSame
<1> QED
  BY <1>1, <1>2, <1>3 DEF Row

(* A row that is not aborted rests on rows that are not.                   *)
LEMMA RowAsks ==
  ASSUME task \in Task, OneBase, NEW s \in Schema, NEW u \in Base, NEW sub, NEW d,
         body(s).object, Row(d, s, u, sub).out # "aborted"
  PROVE  /\ d # MaxDepth
         /\ \A c \in AskedBelow(s, u, AnswersOf(sub)) : sub[c][u].out # "aborted"
         /\ body(s).refers => body(s).ref[u].schema # NoSchema
         /\ Row(d, s, u, sub).parts = PartsOf(s, u, sub)
<1>1. d # MaxDepth
  BY DEF Row
<1>2. /\ Row(d, s, u, sub).out =
           Merged({Applied(s, u, AnswersOf(sub)), Forbidden(s, PartsOf(s, u, sub))})
      /\ Row(d, s, u, sub).parts = PartsOf(s, u, sub)
  BY <1>1 DEF Row
<1>3. Applied(s, u, AnswersOf(sub)) # "aborted"
  BY <1>2, MergedFacts
<1>4. /\ \A c \in AskedBelow(s, u, AnswersOf(sub)) : AnswersOf(sub)[c][u] # "aborted"
      /\ body(s).refers => body(s).ref[u].schema # NoSchema
  BY <1>3, AbortSpreads
<1> QED
  BY <1>1, <1>2, <1>4, AskedType, AnswersOfFacts

-----------------------------------------------------------------------------
(* The documented evaluation of a schema at a depth.                       *)
AtLevel(d, s, u) == DocumentedLevels[d][s][u]

(* It is a row of its level.                                               *)
LEMMA AtRow ==
  ASSUME task \in Task, NEW d \in 0 .. MaxDepth, NEW s \in Schema, NEW u \in Base
  PROVE  AtLevel(d, s, u) = Row(d, s, u, DocumentedLevels[d + 1])
<1>1. DocumentedLevels[d] = Documents(d, DocumentedLevels[d + 1])
  BY DocumentedEquation
<1>2. \A sub : Documents(d, sub)[s][u] = Row(d, s, u, sub)
  BY DEF Documents
<1> QED
  BY <1>1, <1>2 DEF AtLevel

(* What did not abort is the same from any smaller depth: there is more    *)
(* room, and it did not need it.                                           *)
LEMMA Settles ==
  ASSUME task \in Task, OneBase, NEW u \in Base
  PROVE  \A d \in 0 .. MaxDepth : \A i \in d .. MaxDepth : \A s \in Schema :
           AtLevel(i, s, u).out # "aborted" => AtLevel(d, s, u) = AtLevel(i, s, u)
<1> DEFINE S == {d \in 0 .. MaxDepth : \A i \in d .. MaxDepth : \A s \in Schema :
                   AtLevel(i, s, u).out # "aborted" => AtLevel(d, s, u) = AtLevel(i, s, u)}
<1>1. MaxDepth \in S
  BY UnevaluatedAssumption
<1>2. ASSUME NEW d \in 0 .. MaxDepth, d # MaxDepth, d + 1 \in S PROVE d \in S
  <2> SUFFICES ASSUME NEW i \in d .. MaxDepth, NEW s \in Schema, AtLevel(i, s, u).out # "aborted"
               PROVE  AtLevel(d, s, u) = AtLevel(i, s, u)
    OBVIOUS
  <2> DEFINE sub == DocumentedLevels[i + 1]
             alt == DocumentedLevels[d + 1]
  <2>1. d \in Nat /\ i \in 0 .. MaxDepth
    BY UnevaluatedAssumption
  <2>2. AtLevel(i, s, u) = Row(i, s, u, sub) /\ AtLevel(d, s, u) = Row(d, s, u, alt)
    BY <2>1, AtRow
  <2>3. i # MaxDepth
    BY <2>2 DEF Row
  <2>4. i + 1 \in (d + 1) .. MaxDepth
    BY <2>1, <2>3, UnevaluatedAssumption
  <2>5. CASE body(s).object
    <3>1. \A c \in AskedBelow(s, u, AnswersOf(sub)) : c \in Schema /\ AtLevel(i + 1, c, u).out # "aborted"
      BY <2>2, <2>5, RowAsks, AskedType DEF AtLevel
    <3>2. \A c \in AskedBelow(s, u, AnswersOf(sub)) : AtLevel(d + 1, c, u) = AtLevel(i + 1, c, u)
      BY <1>2, <2>4, <3>1
    <3>3. \A c \in AskedBelow(s, u, AnswersOf(sub)) : alt[c][u] = sub[c][u]
      BY <3>2 DEF AtLevel
    <3> HIDE DEF sub, alt
    <3> QED
      BY <1>2, <2>1, <2>2, <2>3, <3>3, RowSame
  <2>6. CASE ~body(s).object
    <3>1. d < MaxDepth /\ i < MaxDepth
      BY <1>2, <2>1, <2>3, UnevaluatedAssumption
    <3> QED
      BY <1>2, <2>2, <2>3, <2>6, <3>1 DEF Row
  <2> QED
    BY <2>5, <2>6
<1>3. \A d \in 0 .. MaxDepth : d \in S
  <2> HIDE DEF S
  <2> QED
    BY <1>1, <1>2, DownInduction, UnevaluatedAssumption
<1> QED
  BY <1>3

-----------------------------------------------------------------------------
(* What a walk gathers: schemas whose own parts are those given, within    *)
(* the budget.                                                             *)
Gathers(w, parts) ==
  /\ ~w.exceeded
  /\ w.seen \subseteq Schema
  /\ UNION {LocalParts(x) : x \in w.seen} = parts

(* The walks from schemas C, and the parts that their evaluations have.    *)
From(C, w) == {w[c] : c \in C}

PartsIn(C, u, sub) == UNION {sub[c][u].parts : c \in C}

(* A walk of nothing gathers nothing.                                      *)
LEMMA GathersNothing == Gathers(Nothing, {})
BY DEF Gathers, Nothing

(* Walks taken together gather what each of them does.                     *)
LEMMA GathersTogether ==
  ASSUME NEW C, NEW w, NEW sub, NEW u, \A c \in C : Gathers(w[c], sub[c][u].parts)
  PROVE  Gathers(Together(From(C, w)), PartsIn(C, u, sub))
<1> DEFINE T == Together(From(C, w))
<1>1. T.seen = UNION {w[c].seen : c \in C} /\ T.exceeded = \E c \in C : w[c].exceeded
  <2>1. \A W : Together(W).seen = UNION {x.seen : x \in W}
               /\ Together(W).exceeded = \E x \in W : x.exceeded
    BY DEF Together
  <2>2. UNION {x.seen : x \in {w[c] : c \in C}} = UNION {w[c].seen : c \in C}
    OBVIOUS
  <2>3. (\E x \in {w[c] : c \in C} : x.exceeded) = \E c \in C : w[c].exceeded
    OBVIOUS
  <2> QED
    BY <2>1, <2>2, <2>3 DEF From
<1> HIDE DEF T
<1>2. ~T.exceeded /\ T.seen \subseteq Schema
  BY <1>1 DEF Gathers
<1>3. \A c \in C : UNION {LocalParts(x) : x \in w[c].seen} = sub[c][u].parts
  BY DEF Gathers
<1>4. ASSUME NEW p \in UNION {LocalParts(x) : x \in T.seen}
      PROVE  p \in UNION {sub[c][u].parts : c \in C}
  <2>1. PICK x \in T.seen : p \in LocalParts(x)
    OBVIOUS
  <2>2. PICK c \in C : x \in w[c].seen
    BY <1>1
  <2>3. p \in UNION {LocalParts(y) : y \in w[c].seen}
    BY <2>1, <2>2
  <2> QED
    BY <1>3, <2>3
<1>5. ASSUME NEW p \in UNION {sub[c][u].parts : c \in C}
      PROVE  p \in UNION {LocalParts(x) : x \in T.seen}
  <2>1. PICK c \in C : p \in sub[c][u].parts
    OBVIOUS
  <2>2. PICK x \in w[c].seen : p \in LocalParts(x)
    BY <1>3, <2>1
  <2>3. x \in T.seen
    BY <1>1, <2>2
  <2> QED
    BY <2>2, <2>3
<1>6. UNION {LocalParts(x) : x \in T.seen} = UNION {sub[c][u].parts : c \in C}
  BY <1>4, <1>5
<1> QED
  BY <1>2, <1>6 DEF Gathers, PartsIn, T

(* With the schema that the walk stands on.                                *)
LEMMA GathersFrom ==
  ASSUME NEW t \in Schema, NEW W, NEW parts, Gathers(Together(W), parts)
  PROVE  Gathers(Together({[seen |-> {t}, exceeded |-> FALSE]} \cup W), LocalParts(t) \cup parts)
<1> DEFINE A == Together({[seen |-> {t}, exceeded |-> FALSE]} \cup W)
           B == Together(W)
<1>1. B.seen = UNION {x.seen : x \in W} /\ B.exceeded = \E x \in W : x.exceeded
  BY DEF Together
<1>2. A.seen = {t} \cup B.seen
  <2>1. A.seen = UNION {x.seen : x \in {[seen |-> {t}, exceeded |-> FALSE]} \cup W}
    BY DEF Together
  <2>2. UNION {x.seen : x \in {[seen |-> {t}, exceeded |-> FALSE]} \cup W}
          = {t} \cup UNION {x.seen : x \in W}
    <3> DEFINE here == [seen |-> {t}, exceeded |-> FALSE]
    <3>1. here.seen = {t}
      OBVIOUS
    <3> HIDE DEF here
    <3>2. UNION {x.seen : x \in {here} \cup W} = here.seen \cup UNION {x.seen : x \in W}
      OBVIOUS
    <3> QED
      BY <3>1, <3>2 DEF here
  <2> HIDE DEF A, B
  <2> QED
    BY <1>1, <2>1, <2>2
<1>3. A.exceeded = B.exceeded
  <2>1. A.exceeded = \E x \in {[seen |-> {t}, exceeded |-> FALSE]} \cup W : x.exceeded
    BY DEF Together
  <2>2. (\E x \in {[seen |-> {t}, exceeded |-> FALSE]} \cup W : x.exceeded) = \E x \in W : x.exceeded
    OBVIOUS
  <2> HIDE DEF A, B
  <2> QED
    BY <1>1, <2>1, <2>2
<1>4. Gathers(B, parts)
  OBVIOUS
<1> HIDE DEF A, B
<1>5. UNION {LocalParts(x) : x \in A.seen} = LocalParts(t) \cup UNION {LocalParts(x) : x \in B.seen}
  BY <1>2
<1> QED
  BY <1>2, <1>3, <1>4, <1>5 DEF Gathers, A

(* The branches taken for successful are the ones that are, of those that  *)
(* answer at all.                                                          *)
Right(X, u, sub) ==
  \A c \in Schema : sub[c][u].out # "aborted" => (c \in X <=> sub[c][u].out = "valid")

(* The walk goes to the schemas that count and to the one referenced.      *)
LEMMA ChildParts ==
  ASSUME task \in Task, OneBase, NEW t \in Schema, NEW u \in Base, NEW sub, NEW X,
         Right(X, u, sub), \A c \in AskedBelow(t, u, AnswersOf(sub)) : sub[c][u].out # "aborted"
  PROVE  LET C == Children(t, u, X)
         IN /\ C \subseteq AskedBelow(t, u, AnswersOf(sub))
            /\ LocalParts(t) \cup PartsIn(C, u, sub) = PartsOf(t, u, sub)
<1> DEFINE A == AskedBelow(t, u, AnswersOf(sub))
           C == Children(t, u, X)
           R == IF body(t).refers THEN {body(t).ref[u].schema} \ {NoSchema} ELSE {}
<1>1. base_of(t, u) = u /\ (body(t).refers => body(t).ref[u].base = u)
  BY InOneBase
<1>2. A \subseteq Schema
  BY AskedType
<1>3. /\ body(t).anyOf \subseteq A /\ body(t).oneOf \subseteq A
      /\ body(t).if # NoSchema => body(t).if \in A
  BY DEF AskedBelow
<1> HIDE DEF A
<1>4. \A c \in A : c \in X <=> sub[c][u].out = "valid"
  BY <1>2 DEF Right, A
<1>5. (body(t).anyOf \cup body(t).oneOf) \cap X
        = {c \in body(t).anyOf \cup body(t).oneOf : sub[c][u].out = "valid"}
  BY <1>3, <1>4
<1>6. C = Counting(t, u, sub) \cup R
  <2>1. body(t).if # NoSchema => (body(t).if \in X <=> sub[body(t).if][u].out = "valid")
    BY <1>3, <1>4
  <2> QED
    BY <1>1, <1>5, <2>1 DEF Children, Counting
<1>7. C \subseteq A
  <2>1. body(t).if # NoSchema =>
          Branch(t, u, AnswersOf(sub)) = IF body(t).if \in X THEN body(t).then ELSE body(t).else
    <3>1. body(t).if # NoSchema => body(t).if \in Schema
      BY <1>2, <1>3
    <3> QED
      BY <1>3, <1>4, <3>1, AnswersOfFacts DEF Branch
  <2> QED
    BY <2>1 DEF Children, AskedBelow, A
<1>8. Referenced(t, u, sub) = UNION {sub[c][u].parts : c \in R}
  BY <1>1 DEF Referenced
<1>9. PartsOf(t, u, sub) = LocalParts(t) \cup Referenced(t, u, sub)
                             \cup UNION {sub[c][u].parts : c \in Counting(t, u, sub)}
  BY <1>1 DEF PartsOf
<1> HIDE DEF R, C
<1>10. UNION {sub[c][u].parts : c \in C}
         = (UNION {sub[c][u].parts : c \in R}) \cup UNION {sub[c][u].parts : c \in Counting(t, u, sub)}
  BY <1>6
<1>11. LocalParts(t) \cup UNION {sub[c][u].parts : c \in C} = PartsOf(t, u, sub)
  BY <1>8, <1>9, <1>10
<1> QED
  BY <1>7, <1>11 DEF PartsIn, A, C

-----------------------------------------------------------------------------
(* The walk below a schema that did not abort stays within its budget and  *)
(* gathers the parts that its evaluation did: the walk descends where the  *)
(* evaluation descends.  `e' is the depth that the walk starts at.         *)
LEMMA WalkLive ==
  ASSUME task \in Task, OneBase, NEW u \in Base, NEW X, NEW e \in Nat,
         \A i \in (e + 1) .. MaxDepth : Right(X, u, DocumentedLevels[i])
  PROVE  \A k \in 0 .. Budget + 1 : e + k <= MaxDepth =>
           \A t \in Schema : AtLevel(e + k, t, u).out # "aborted" =>
             Gathers(WalkLevels(u, X)[k][t], AtLevel(e + k, t, u).parts)
<1> DEFINE S == {k \in 0 .. Budget + 1 : e + k <= MaxDepth =>
                   \A t \in Schema : AtLevel(e + k, t, u).out # "aborted" =>
                     Gathers(WalkLevels(u, X)[k][t], AtLevel(e + k, t, u).parts)}
           M == Budget + 1
<1>1. M \in Nat /\ M = MaxDepth + 1 /\ ~(e + M <= MaxDepth)
  BY UnevaluatedAssumption DEF Budget
<1>2. M \in S
  BY <1>1
<1>3. ASSUME NEW k \in 0 .. M, k # M, k + 1 \in S PROVE k \in S
  <2> SUFFICES ASSUME e + k <= MaxDepth, NEW t \in Schema, AtLevel(e + k, t, u).out # "aborted"
               PROVE  Gathers(WalkLevels(u, X)[k][t], AtLevel(e + k, t, u).parts)
    OBVIOUS
  <2> DEFINE d == e + k
             sub == DocumentedLevels[d + 1]
             below == WalkLevels(u, X)[k + 1]
             C == Children(t, u, X)
  <2>1. d \in 0 .. MaxDepth /\ k \in Nat /\ ~(k > Budget)
    BY <1>1, <1>3, UnevaluatedAssumption DEF Budget
  <2>2. AtLevel(d, t, u) = Row(d, t, u, sub)
    BY <2>1, AtRow
  <2>3. d # MaxDepth
    BY <2>2 DEF Row
  <2>4. d < MaxDepth /\ d + 1 \in (e + 1) .. MaxDepth /\ d + 1 = e + (k + 1) /\ d + 1 <= MaxDepth
    BY <1>3, <2>1, <2>3, UnevaluatedAssumption
  <2>5. WalkLevels(u, X)[k][t] =
          IF ~body(t).object THEN Nothing
          ELSE Together({[seen |-> {t}, exceeded |-> FALSE]} \cup From(C, below))
    <3>1. WalkLevels(u, X)[k] = WalkLevel(k, u, X, below)
      BY WalkEquation
    <3>2. \A g : WalkLevel(k, u, X, g)[t] =
            IF ~body(t).object THEN Nothing
            ELSE Together({[seen |-> {t}, exceeded |-> FALSE]} \cup From(C, g))
      BY <2>1 DEF WalkLevel, From
    <3> HIDE DEF below
    <3> QED
      BY <3>1, <3>2
  <2>6. CASE ~body(t).object
    <3>1. AtLevel(d, t, u).parts = {}
      BY <2>2, <2>3, <2>4, <2>6 DEF Row
    <3> QED
      BY <2>5, <2>6, <3>1, GathersNothing
  <2>7. CASE body(t).object
    <3> HIDE DEF sub, below, d
    <3>1. AtLevel(d, t, u).out # "aborted"
      BY DEF d
    <3>2. /\ \A c \in AskedBelow(t, u, AnswersOf(sub)) : sub[c][u].out # "aborted"
          /\ AtLevel(d, t, u).parts = PartsOf(t, u, sub)
      BY <2>2, <2>7, <3>1, RowAsks
    <3>3. Right(X, u, sub)
      BY <2>4 DEF sub
    <3>4. /\ C \subseteq AskedBelow(t, u, AnswersOf(sub))
          /\ LocalParts(t) \cup PartsIn(C, u, sub) = PartsOf(t, u, sub)
      BY <3>2, <3>3, ChildParts
    <3>5. ASSUME NEW c \in C PROVE Gathers(below[c], sub[c][u].parts)
      <4>1. c \in Schema /\ sub[c][u].out # "aborted"
        BY <3>2, <3>4, AskedType
      <4>2. sub[c][u] = AtLevel(e + (k + 1), c, u)
        BY <2>4 DEF AtLevel, sub
      <4> QED
        BY <1>3, <2>4, <4>1, <4>2 DEF below
    <3> HIDE DEF C
    <3>6. Gathers(Together(From(C, below)), PartsIn(C, u, sub))
      BY <3>5, GathersTogether
    <3>7. Gathers(WalkLevels(u, X)[k][t], LocalParts(t) \cup PartsIn(C, u, sub))
      BY <2>5, <2>7, <3>6, GathersFrom
    <3> QED
      BY <3>2, <3>4, <3>7 DEF d
  <2> QED
    BY <2>6, <2>7
<1>4. \A k \in 0 .. M : k \in S
  <2> HIDE DEF S, M
  <2> QED
    BY <1>1, <1>2, <1>3, DownInduction
<1> QED
  BY <1>4

(* So does the walk for the schema itself.                                 *)
LEMMA WalkWhole ==
  ASSUME task \in Task, OneBase, NEW u \in Base, NEW X, NEW d \in 0 .. MaxDepth, NEW s \in Schema,
         body(s).object, AtLevel(d, s, u).out # "aborted",
         \A i \in (d + 1) .. MaxDepth : Right(X, u, DocumentedLevels[i])
  PROVE  \E parts : /\ Gathers(Walk(s, u, X), parts)
                    /\ LocalParts(s) \cup parts = AtLevel(d, s, u).parts
<1> DEFINE sub == DocumentedLevels[d + 1]
           C == Children(s, u, X)
<1>1. d \in Nat /\ 0 \in 0 .. Budget + 1 /\ d + 0 = d /\ (d + 1) + 0 = d + 1 /\ d <= MaxDepth
  BY UnevaluatedAssumption DEF Budget
<1>2. AtLevel(d, s, u) = Row(d, s, u, sub)
  BY AtRow
<1>3. /\ d # MaxDepth
      /\ \A c \in AskedBelow(s, u, AnswersOf(sub)) : sub[c][u].out # "aborted"
      /\ AtLevel(d, s, u).parts = PartsOf(s, u, sub)
  <2> HIDE DEF sub
  <2> QED
    BY <1>2, RowAsks
<1>4. d + 1 \in (d + 1) .. MaxDepth /\ d + 1 \in Nat /\ (d + 1) + 0 <= MaxDepth
  BY <1>1, <1>3, UnevaluatedAssumption
<1>5. CASE task.array
  <2>1. Gathers(WalkLevels(u, X)[0][s], AtLevel(d, s, u).parts)
    <3>1. d + 0 <= MaxDepth
      BY <1>1
    <3>2. AtLevel(d + 0, s, u).out # "aborted" =>
            Gathers(WalkLevels(u, X)[0][s], AtLevel(d + 0, s, u).parts)
      BY <1>1, <3>1, WalkLive
    <3> QED
      BY <1>1, <3>2
  <2>2. Walk(s, u, X) = WalkLevels(u, X)[0][s]
    BY <1>5, WalkIsLevel
  <2>3. LocalParts(s) \cup AtLevel(d, s, u).parts = AtLevel(d, s, u).parts
    <3>1. LocalParts(s) \subseteq PartsOf(s, u, sub)
      BY DEF PartsOf
    <3> HIDE DEF sub
    <3> QED
      BY <1>3, <3>1
  <2> QED
    BY <2>1, <2>2, <2>3
<1>6. CASE ~task.array
  <2> DEFINE g == WalkLevels(u, X)[0]
  <2>1. Walk(s, u, X) = Together(From(C, g))
    BY <1>6, WalkIsLevel DEF From
  <2>2. Right(X, u, sub)
    BY <1>4
  <2> HIDE DEF sub
  <2>3. /\ C \subseteq AskedBelow(s, u, AnswersOf(sub))
        /\ LocalParts(s) \cup PartsIn(C, u, sub) = PartsOf(s, u, sub)
    BY <1>3, <2>2, ChildParts
  <2>4. ASSUME NEW c \in C PROVE Gathers(g[c], sub[c][u].parts)
    <3>1. c \in Schema /\ sub[c][u].out # "aborted"
      BY <1>3, <2>3, AskedType
    <3>2. sub[c][u] = AtLevel((d + 1) + 0, c, u)
      BY <1>4 DEF AtLevel, sub
    <3>3. \A i \in ((d + 1) + 1) .. MaxDepth : Right(X, u, DocumentedLevels[i])
      <4>1. \A i \in ((d + 1) + 1) .. MaxDepth : i \in (d + 1) .. MaxDepth
        BY <1>1, UnevaluatedAssumption
      <4> QED
        BY <4>1
    <3>4. \A k \in 0 .. Budget + 1 : (d + 1) + k <= MaxDepth =>
            \A t \in Schema : AtLevel((d + 1) + k, t, u).out # "aborted" =>
              Gathers(WalkLevels(u, X)[k][t], AtLevel((d + 1) + k, t, u).parts)
      BY <1>4, <3>3, WalkLive
    <3> QED
      BY <1>1, <1>4, <3>1, <3>2, <3>4
  <2> HIDE DEF C, g
  <2>5. Gathers(Walk(s, u, X), PartsIn(C, u, sub))
    BY <2>1, <2>4, GathersTogether
  <2> QED
    BY <1>3, <2>3, <2>5
<1> QED
  BY <1>5, <1>6

-----------------------------------------------------------------------------
(* On what it needs to know the second walk decides as the first.          *)
LEMMA UnevaluatedSame ==
  ASSUME task \in Task, NEW s \in Schema, NEW w, NEW parts, Gathers(w, parts)
  PROVE  Unevaluated(s, w) = Forbidden(s, LocalParts(s) \cup parts)
<1> DEFINE P == UNION {LocalParts(t) : t \in w.seen}
           has_rest == \/ body(s).rest # "absent"
                       \/ task.array /\ \E t \in w.seen : body(t).rest # "absent"
<1>1. ~w.exceeded /\ w.seen \subseteq Schema /\ P = parts
  BY DEF Gathers
<1>2. Unevaluated(s, w) =
        IF ~body(s).forbids THEN "valid"
        ELSE IF task.array /\ has_rest THEN "valid"
        ELSE IF w.exceeded THEN "failed"
        ELSE IF has_rest \/ Part = LocalParts(s) \cup P THEN "valid" ELSE "failed"
  BY DEF Unevaluated
<1>3. LocalParts(s) \cup parts \subseteq Part
  <2>1. \A t \in w.seen : LocalParts(t) \subseteq Part
    BY <1>1, LocalPartsType
  <2>2. P \subseteq Part
    BY <2>1
  <2> HIDE DEF P
  <2> QED
    BY <1>1, <2>2, LocalPartsType
<1>4. (task.array /\ \E t \in w.seen : body(t).rest # "absent") => LocalParts(s) \cup parts = Part
  <2> SUFFICES ASSUME task.array, NEW t \in w.seen, body(t).rest # "absent"
               PROVE  LocalParts(s) \cup parts = Part
    OBVIOUS
  <2>1. body(t).rest \in {"absent", "false", "schema"}
    BY <1>1, BodyParts
  <2>2. LocalParts(t) = Part
    BY <2>1 DEF LocalParts
  <2>3. Part \subseteq P
    BY <2>2
  <2> HIDE DEF P
  <2> QED
    BY <1>1, <1>3, <2>3
<1> HIDE DEF P
<1> QED
  BY <1>1, <1>2, <1>4 DEF Forbidden

(* The verdict of validate_schema is that of the documented rules, at      *)
(* every depth.                                                            *)
LEMMA Agree ==
  ASSUME task \in Task, OneBase, NEW u \in Base
  PROVE  \A d \in 0 .. MaxDepth : \A s \in Schema : validate_schema[d][s][u] = AtLevel(d, s, u).out
<1> DEFINE S == {d \in 0 .. MaxDepth : \A s \in Schema : validate_schema[d][s][u] = AtLevel(d, s, u).out}
<1>0. ASSUME NEW d \in 0 .. MaxDepth, NEW s \in Schema
      PROVE  validate_schema[d][s][u] = Verdicts(d, validate_schema[d + 1])[s][u]
  BY VerdictEquation
<1>1. MaxDepth \in S
  <2>0. MaxDepth \in 0 .. MaxDepth
    BY UnevaluatedAssumption
  <2> SUFFICES ASSUME NEW s \in Schema
               PROVE  validate_schema[MaxDepth][s][u] = AtLevel(MaxDepth, s, u).out
    BY <2>0
  <2>1. \A sub : Verdicts(MaxDepth, sub)[s][u] = "aborted"
    BY UnevaluatedAssumption DEF Verdicts
  <2>2. AtLevel(MaxDepth, s, u).out = "aborted"
    <3>1. \A sub : Row(MaxDepth, s, u, sub).out = "aborted"
      BY UnevaluatedAssumption DEF Row
    <3> QED
      BY <2>0, <3>1, AtRow
  <2> QED
    BY <1>0, <2>0, <2>1, <2>2
<1>2. ASSUME NEW d \in 0 .. MaxDepth, d # MaxDepth, d + 1 \in S PROVE d \in S
  <2> SUFFICES ASSUME NEW s \in Schema PROVE validate_schema[d][s][u] = AtLevel(d, s, u).out
    OBVIOUS
  <2> DEFINE sub == DocumentedLevels[d + 1]
             alt == validate_schema[d + 1]
             X == {t \in Schema : alt[t][u] = "valid"}
             w == Walk(s, u, X)
  <2>1. d < MaxDepth /\ d \in Nat /\ d + 1 \in 0 .. MaxDepth
    BY <1>2, UnevaluatedAssumption
  <2>2. AtLevel(d, s, u) = Row(d, s, u, sub)
    BY AtRow
  <2>3. base_of(s, u) = u
    BY InOneBase
  <2>4. \A c \in Schema : alt[c][u] = sub[c][u].out
    BY <1>2 DEF AtLevel
  <2> HIDE DEF sub, alt
  <2>5. validate_schema[d][s][u] =
          CASE d = MaxDepth -> "aborted"
            [] d < MaxDepth /\ ~body(s).object -> IF body(s).accepts THEN "valid" ELSE "failed"
            [] OTHER -> Merged({Applied(s, u, alt), Unevaluated(s, w)})
    <3>1. validate_schema[d][s][u] = Verdicts(d, alt)[s][u]
      BY <1>0 DEF alt
    <3> QED
      BY <2>3, <3>1 DEF Verdicts
  <2>6. CASE ~body(s).object
    BY <1>2, <2>1, <2>2, <2>5, <2>6 DEF Row
  <2>7. CASE body(s).object
    <3>1. Applied(s, u, alt) = Applied(s, u, AnswersOf(sub))
      <4>1. \A c \in AskedBelow(s, u, AnswersOf(sub)) : alt[c][u] = AnswersOf(sub)[c][u]
        BY <2>4, AskedType, AnswersOfFacts
      <4> QED
        BY <4>1, AppliedSame
    <3> DEFINE a == Applied(s, u, alt)
    <3>2. /\ AtLevel(d, s, u).out = Merged({a, Forbidden(s, PartsOf(s, u, sub))})
          /\ AtLevel(d, s, u).parts = PartsOf(s, u, sub)
      BY <1>2, <2>2, <2>7, <3>1 DEF Row
    <3>3. validate_schema[d][s][u] = Merged({a, Unevaluated(s, w)})
      BY <1>2, <2>5, <2>7
    <3> HIDE DEF a, w
    <3>4. CASE a = "aborted"
      <4>1. \A x : Merged({a, x}) = "aborted"
        BY <3>4 DEF Merged
      <4> QED
        BY <3>2, <3>3, <4>1
    <3>5. CASE a # "aborted"
      <4>1. Forbidden(s, PartsOf(s, u, sub)) # "aborted"
        BY DEF Forbidden
      <4>2. AtLevel(d, s, u).out # "aborted"
        BY <3>2, <3>5, <4>1, MergedFacts
      <4>3. \A i \in (d + 1) .. MaxDepth : Right(X, u, DocumentedLevels[i])
        <5> SUFFICES ASSUME NEW i \in (d + 1) .. MaxDepth, NEW c \in Schema, AtLevel(i, c, u).out # "aborted"
                     PROVE  c \in X <=> AtLevel(i, c, u).out = "valid"
          BY DEF Right, AtLevel
        <5>1. AtLevel(d + 1, c, u) = AtLevel(i, c, u)
          BY <2>1, Settles
        <5>2. sub[c][u] = AtLevel(d + 1, c, u)
          BY DEF AtLevel, sub
        <5> QED
          BY <2>4, <5>1, <5>2
      <4>4. PICK parts : Gathers(w, parts) /\ LocalParts(s) \cup parts = AtLevel(d, s, u).parts
        <5> HIDE DEF X
        <5> QED
          BY <2>7, <4>2, <4>3, WalkWhole DEF w
      <4>5. Unevaluated(s, w) = Forbidden(s, PartsOf(s, u, sub))
        BY <3>2, <4>4, UnevaluatedSame
      <4> QED
        BY <3>2, <3>3, <4>5
    <3> QED
      BY <3>4, <3>5
  <2> QED
    BY <2>6, <2>7
<1>3. \A d \in 0 .. MaxDepth : d \in S
  <2> HIDE DEF S
  <2> QED
    BY <1>1, <1>2, DownInduction, UnevaluatedAssumption
<1> QED
  BY <1>3

-----------------------------------------------------------------------------
(* A level of the documented evaluation is a matter of the task alone.     *)
LEMMA RowSteady ==
  ASSUME task' = task
  PROVE  /\ OneBase' = OneBase
         /\ \A s, u, sub : Applied(s, u, sub)' = Applied(s, u, sub)
         /\ \A d, s, u, sub : Row(d, s, u, sub)' = Row(d, s, u, sub)
<1>1. \A s : body(s)' = body(s) /\ LocalParts(s)' = LocalParts(s)
  BY DEF body, LocalParts
<1>2. \A s, u : base_of(s, u)' = base_of(s, u)
  BY <1>1 DEF base_of
<1>3. OneBase' = OneBase
  BY <1>1 DEF OneBase
<1>4. \A s, u, sub : Applied(s, u, sub)' = Applied(s, u, sub)
  BY DEF Applied, base_of, body, Merged, Decided
<1>5. \A s, u, sub : PartsOf(s, u, sub)' = PartsOf(s, u, sub)
  <2>1. \A s, u, sub : Counting(s, u, sub)' = Counting(s, u, sub)
    BY <1>1, <1>2 DEF Counting
  <2>2. \A s, u, sub : Referenced(s, u, sub)' = Referenced(s, u, sub)
    BY <1>1, <1>2 DEF Referenced
  <2> QED
    BY <1>1, <1>2, <2>1, <2>2 DEF PartsOf
<1>6. \A s, p : Forbidden(s, p)' = Forbidden(s, p)
  BY <1>1 DEF Forbidden
<1>7. \A d, s, u, sub : Row(d, s, u, sub)' = Row(d, s, u, sub)
  <2> TAKE d, s, u, sub
  <2>1. Applied(s, u, AnswersOf(sub))' = Applied(s, u, AnswersOf(sub))
    BY <1>4 DEF AnswersOf
  <2>2. Forbidden(s, PartsOf(s, u, sub))' = Forbidden(s, PartsOf(s, u, sub))
    BY <1>5, <1>6
  <2> QED
    BY <1>1, <1>5, <2>1, <2>2 DEF Row
<1> QED
  BY <1>3, <1>4, <1>7

(* A task has a root and a base URI.                                       *)
LEMMA TaskParts ==
  ASSUME task \in Task
  PROVE  task.root \in Schema /\ task.base \in Base
BY DEF Task

(* The rows again, as a formula that holds in every state.                 *)
LEMMA LevelRows ==
  task \in Task =>
    \A d \in 0 .. MaxDepth, s \in Schema, u \in Base :
      DocumentedLevels[d][s][u] = Row(d, s, u, DocumentedLevels[d + 1])
BY AtRow DEF AtLevel

(* A row asks the level below it for schemas and bases alone.              *)
LEMMA RowReads ==
  ASSUME task \in Task, NEW d, NEW s \in Schema, NEW u \in Base, NEW sub, NEW alt,
         \A t \in Schema, v \in Base : alt[t][v] = sub[t][v]
  PROVE  Row(d, s, u, alt) = Row(d, s, u, sub)
<1>1. AnswersOf(alt) = AnswersOf(sub)
  BY DEF AnswersOf
<1>2. base_of(s, u) \in Base
  BY BodyParts
<1>3. Counting(s, u, alt) = Counting(s, u, sub) /\ Counting(s, u, sub) \subseteq Schema
  <2>1. \A t \in Schema : alt[t][base_of(s, u)] = sub[t][base_of(s, u)]
    BY <1>2
  <2>2. {t \in body(s).anyOf \cup body(s).oneOf : alt[t][base_of(s, u)].out = "valid"}
          = {t \in body(s).anyOf \cup body(s).oneOf : sub[t][base_of(s, u)].out = "valid"}
    BY <2>1, BodyParts
  <2>3. body(s).if # NoSchema => alt[body(s).if][base_of(s, u)] = sub[body(s).if][base_of(s, u)]
    BY <2>1, BodyParts
  <2>4. Counting(s, u, alt) = Counting(s, u, sub)
    BY <2>2, <2>3 DEF Counting
  <2>5. Counting(s, u, sub) \subseteq Schema
    BY BodyParts DEF Counting
  <2> QED
    BY <2>4, <2>5
<1>4. Referenced(s, u, alt) = Referenced(s, u, sub)
  BY <1>2, BodyParts DEF Referenced
<1>5. {alt[t][base_of(s, u)].parts : t \in Counting(s, u, sub)}
        = {sub[t][base_of(s, u)].parts : t \in Counting(s, u, sub)}
  BY <1>2, <1>3
<1>6. PartsOf(s, u, alt) = PartsOf(s, u, sub)
  BY <1>3, <1>4, <1>5 DEF PartsOf
<1> QED
  BY <1>1, <1>6 DEF Row

(* So the documented answer stays what it is while the task does.          *)
LEMMA DocumentedSteady ==
  ASSUME task \in Task, task' = task
  PROVE  Documented' = Documented
<1> DEFINE S == {d \in 0 .. MaxDepth : \A s \in Schema, u \in Base :
                   DocumentedLevels'[d][s][u] = DocumentedLevels[d][s][u]}
<1>1. task' \in Task => \A d \in 0 .. MaxDepth, s \in Schema, u \in Base :
        DocumentedLevels'[d][s][u] = Row(d, s, u, DocumentedLevels[d + 1])'
  <2>1. (task \in Task =>
           \A d \in 0 .. MaxDepth, s \in Schema, u \in Base :
             DocumentedLevels[d][s][u] = Row(d, s, u, DocumentedLevels[d + 1]))'
    BY LevelRows, PTL
  <2> QED
    BY <2>1
<1>2. \A d, s, u : Row(d, s, u, DocumentedLevels[d + 1])' = Row(d, s, u, DocumentedLevels'[d + 1])
  BY RowSteady
<1>3. \A d \in 0 .. MaxDepth, s \in Schema, u \in Base :
        DocumentedLevels'[d][s][u] = Row(d, s, u, DocumentedLevels'[d + 1])
  BY <1>1, <1>2
<1>4. MaxDepth \in S
  <2>1. \A s, u, sub, alt : Row(MaxDepth, s, u, sub) = Row(MaxDepth, s, u, alt)
    BY UnevaluatedAssumption DEF Row
  <2>2. MaxDepth \in 0 .. MaxDepth
    BY UnevaluatedAssumption
  <2> QED
    BY <1>3, <2>1, <2>2, LevelRows
<1>5. ASSUME NEW d \in 0 .. MaxDepth, d # MaxDepth, d + 1 \in S PROVE d \in S
  <2> DEFINE sub == DocumentedLevels[d + 1]
             alt == DocumentedLevels'[d + 1]
  <2>1. \A t \in Schema, v \in Base : alt[t][v] = sub[t][v]
    BY <1>5
  <2>2. \A s \in Schema, u \in Base :
          DocumentedLevels'[d][s][u] = Row(d, s, u, alt) /\ DocumentedLevels[d][s][u] = Row(d, s, u, sub)
    BY <1>3, LevelRows
  <2> HIDE DEF sub, alt
  <2>3. \A s \in Schema, u \in Base : Row(d, s, u, alt) = Row(d, s, u, sub)
    BY <2>1, RowReads
  <2> QED
    BY <2>2, <2>3
<1>6. \A d \in 0 .. MaxDepth : d \in S
  <2> HIDE DEF S
  <2> QED
    BY <1>4, <1>5, DownInduction, UnevaluatedAssumption
<1>7. Documented' = DocumentedLevels'[0][task'.root][task'.base].out
  <2>1. (Documented = DocumentedLevels[0][task.root][task.base].out)'
    BY DocumentedIsLevel, PTL
  <2> QED
    BY <2>1
<1>8. 0 \in 0 .. MaxDepth
  BY UnevaluatedAssumption
<1> QED
  BY <1>6, <1>7, <1>8, DocumentedIsLevel, TaskParts

-----------------------------------------------------------------------------
(* What a validation that has been done answered.                          *)
Recorded ==
  /\ task \in Task
  /\ out = "pending" => ~exceeded
  /\ AgreesInOneBase
  /\ ExceededIsAborted

(* The step of validation records what the documented rules answer.        *)
LEMMA ValidateRecords ==
  ASSUME task \in Task, Validate
  PROVE  OneBase => out' = Documented /\ (exceeded' => out' = "aborted")
<1> DEFINE s == task.root
           u == task.base
           X == {t \in Schema : validate_schema[1][t][u] = "valid"}
<1> SUFFICES ASSUME OneBase PROVE out' = Documented /\ (exceeded' => out' = "aborted")
  OBVIOUS
<1>1. s \in Schema /\ u \in Base /\ 0 \in 0 .. MaxDepth
  BY TaskParts, UnevaluatedAssumption
<1>2. out' = validate_schema[0][s][u]
  BY DEF Validate
<1>3. out' = AtLevel(0, s, u).out
  BY <1>1, <1>2, Agree
<1>4. out' = Documented
  BY <1>3, DocumentedIsLevel DEF AtLevel
<1>5. ASSUME exceeded', out' # "aborted" PROVE FALSE
  <2>1. base_of(s, u) = u
    BY <1>1, InOneBase
  <2>2. body(s).object /\ MaxDepth > 0 /\ Walk(s, u, X).exceeded
    BY <1>5, <2>1 DEF Validate
  <2>3. \A i \in (0 + 1) .. MaxDepth : Right(X, u, DocumentedLevels[i])
    <3> SUFFICES ASSUME NEW i \in (0 + 1) .. MaxDepth, NEW c \in Schema, AtLevel(i, c, u).out # "aborted"
                 PROVE  c \in X <=> AtLevel(i, c, u).out = "valid"
      BY DEF Right, AtLevel
    <3>1. 1 \in 0 .. MaxDepth /\ i \in 1 .. MaxDepth
      BY <2>2, UnevaluatedAssumption
    <3>2. AtLevel(1, c, u) = AtLevel(i, c, u)
      BY <1>1, <3>1, Settles
    <3>3. validate_schema[1][c][u] = AtLevel(1, c, u).out
      BY <1>1, <3>1, Agree
    <3> QED
      BY <3>2, <3>3
  <2> HIDE DEF s, u, X
  <2>4. PICK parts : Gathers(Walk(s, u, X), parts)
    BY <1>1, <1>3, <1>5, <2>2, <2>3, WalkWhole
  <2> QED
    BY <2>2, <2>4 DEF Gathers
<1> QED
  BY <1>4, <1>5

(* Every run keeps the record.                                             *)
LEMMA RecordedHolds == Spec => []Recorded
<1>1. Init => Recorded
  BY UnevaluatedAssumption DEF Init, Recorded, AgreesInOneBase, ExceededIsAborted
<1>2. Recorded /\ [Next]_vars => Recorded'
  <2> SUFFICES ASSUME Recorded, [Next]_vars PROVE Recorded'
    OBVIOUS
  <2>1. task \in Task /\ task' = task
    BY DEF Recorded, Next, Validate, Done, vars
  <2>2. OneBase' = OneBase /\ Documented' = Documented
    BY <2>1, RowSteady, DocumentedSteady
  <2>3. CASE Validate
    <3>1. OneBase => out' = Documented /\ (exceeded' => out' = "aborted")
      BY <2>1, <2>3, ValidateRecords
    <3>2. out' # "pending"
      <4>1. \A d \in 0 .. MaxDepth, x \in Schema, y \in Base : validate_schema[d][x][y] # "pending"
        <5>1. \A outs : Merged(outs) # "pending"
          BY DEF Merged
        <5>2. \A d, sub : \A x \in Schema, y \in Base : Verdicts(d, sub)[x][y] # "pending"
          BY <5>1 DEF Verdicts
        <5> QED
          BY <5>2, VerdictEquation
      <4>2. out' = validate_schema[0][task.root][task.base]
        BY <2>3 DEF Validate
      <4> QED
        BY <2>1, <4>1, <4>2, TaskParts, UnevaluatedAssumption
    <3> QED
      BY <2>1, <2>2, <3>1, <3>2 DEF Recorded, AgreesInOneBase, ExceededIsAborted
  <2>4. CASE UNCHANGED vars
    BY <2>1, <2>2, <2>4 DEF vars, Recorded, AgreesInOneBase, ExceededIsAborted
  <2> QED
    BY <2>3, <2>4 DEF Next, Done
<1> QED
  BY <1>1, <1>2, PTL DEF Spec

(* Inside one base URI the answer of a validation is that of the           *)
(* documented rules, which evaluate and collect in one traversal: the      *)
(* second traversal collects exactly the parts that the first evaluated,   *)
(* for every graph of schemas, cycles of references included, and every    *)
(* limit on depth.                                                         *)
THEOREM AgreementHolds == Spec => []AgreesInOneBase
<1>1. Recorded => AgreesInOneBase
  BY DEF Recorded
<1> QED
  BY <1>1, RecordedHolds, PTL

(* Inside one base URI the budget of the collection walk is never what     *)
(* decides: the walk descends only where the evaluation did, so where it   *)
(* runs out the evaluation has aborted.                                    *)
THEOREM BudgetNeverDecides == Spec => []ExceededIsAborted
<1>1. Recorded => ExceededIsAborted
  BY DEF Recorded
<1> QED
  BY <1>1, RecordedHolds, PTL
=============================================================================
