------------------------------ MODULE Analysis ------------------------------
(***************************************************************************)
(* Analyses of a compiled schema (crates/schemaforge-analysis): inference  *)
(* of the types a node accepts, classification for the code generator, and *)
(* the comparison of two schemas, against the values that the validator    *)
(* (validation.rs of schemaforge-jsonschema) accepts.                      *)
(*                                                                         *)
(* Nodes form a forest: the parts of node n have numbers above n.          *)
(***************************************************************************)
EXTENDS Naturals, Sequences

CONSTANTS
  Value,     (* JSON values                                                *)
  class,     (* their representation in serde_json                         *)
  inside,    (* the member of an object or array; NoValue if it has none   *)
  NoValue,
  Nodes,     (* how many nodes a forest has                                *)
  Absent,    (* a keyword that is not there                                *)
  Pending,   (* no answer yet                                              *)
  Pairs      (* the forests, with the roots of an old and a new schema     *)

Types == {"null", "boolean", "integer", "number", "string", "array", "object"}

Node == 1 .. Nodes

(* Numbers are i64, u64 beyond i64, or f64 with or without a fraction.     *)
Class == {"null", "boolean", "i64", "u64", "whole", "fraction", "string", "array", "object"}

(* `type' holds the names in the keyword, known or not; FALSE is the one   *)
(* without any.  An object has at most one member, which `property'        *)
(* declares and `required' requires.  `narrowed' is any keyword that       *)
(* analyse does not look at, and refuses every value of type string.       *)
Schema ==
  [type : {Absent} \cup SUBSET (Types \cup {"unknown"}),
   enum : {Absent} \cup SUBSET Value, const : {Absent} \cup Value,
   allOf : Seq(Node), anyOf : Seq(Node), oneOf : Seq(Node), not : Node \cup {Absent},
   property : Node \cup {Absent}, required : BOOLEAN, items : Node \cup {Absent},
   narrowed : BOOLEAN]

Elements(ms) == {ms[i] : i \in DOMAIN ms}

Parts(s) ==
  Elements(s.allOf) \cup Elements(s.anyOf) \cup Elements(s.oneOf)
    \cup ({s.not, s.property, s.items} \ {Absent})

ASSUME AnalysisAssumption ==
  /\ class \in [Value -> Class]
  /\ NoValue \notin Value
  /\ inside \in [Value -> Value \cup {NoValue}]
  /\ Nodes \in Nat
  /\ Absent \notin Node /\ Absent \notin Value
  /\ {} \notin {Absent, Pending}
  /\ Pairs \subseteq [schema : [Node -> Schema], old : Node, new : Node]
  /\ \A p \in Pairs : \A n \in Node : \A m \in Parts(p.schema[n]) : m > n

VARIABLES
  pair,      (* the input                                                  *)
  inferred,  (* analyse of every node; <<>> before                         *)
  changes    (* find_breaking_changes of old and new                       *)

vars == <<pair, inferred, changes>>

schema(n) == pair.schema[n]

-----------------------------------------------------------------------------
(***************************************************************************)
(* TypeSet.                                                                *)
(***************************************************************************)
(* Mutant of from_json: a number is not an integer as well.                *)
from_jsonExact(names) == names \cap Types

from_json(names) ==
  {t \in Types : t \in names \/ (t = "integer" /\ "number" \in names)}

types(n) == IF schema(n).type = Absent THEN Types ELSE from_json(schema(n).type)

is_never(n) ==
  \/ schema(n).enum = {}
  \/ types(n) = {} /\ schema(n).const = Absent /\ schema(n).enum = Absent

(***************************************************************************)
(* Inference.  An answer has the types, or the path of a contradiction: a  *)
(* node, and which part of its allOf left no type.                         *)
(***************************************************************************)
NoError == [at |-> 0, part |-> 0]

Answer(error, ts) == [error |-> error, types |-> IF error = NoError THEN ts ELSE {}]

(* The flag that a value in `enum' or `const' sets, if any.                *)
Flags(v) ==
  CASE class[v] = "i64" -> {"integer"}
    [] class[v] \in {"whole", "fraction"} -> {"number"}
    [] class[v] = "u64" -> {}
    [] OTHER -> {class[v]}

narrow_with_enum(n, ts) ==
  IF schema(n).enum = Absent THEN ts ELSE ts \cap UNION {Flags(v) : v \in schema(n).enum}

narrow_with_const(n, ts) ==
  IF schema(n).const = Absent THEN ts ELSE ts \cap Flags(schema(n).const)

(* Of calls that follow one another, the first error ends the analysis.    *)
FirstOf(errors) ==
  LET failed == {i \in DOMAIN errors : errors[i] # NoError}
  IN IF failed = {} THEN NoError ELSE errors[CHOOSE i \in failed : \A j \in failed : i <= j]

Unless(error, answer) == IF error.error # NoError THEN error ELSE answer

(* The types left after i parts of allOf.                                  *)
Left(ts, parts, i, inference) == {t \in ts : \A j \in 1 .. i : t \in inference[parts[j]].types}

(* Mutant of intersect_all_of: the part before is blamed.                  *)
intersect_all_ofBlamingPrevious(n, ts, inference) ==
  LET parts == schema(n).allOf
      error(i) == IF inference[parts[i]].error = NoError /\ Left(ts, parts, i, inference) = {}
                  THEN [at |-> n, part |-> i - 1] ELSE inference[parts[i]].error
  IN Answer(FirstOf([i \in DOMAIN parts |-> error(i)]), Left(ts, parts, Len(parts), inference))

intersect_all_of(n, ts, inference) ==
  LET parts == schema(n).allOf
      error(i) == IF inference[parts[i]].error = NoError /\ Left(ts, parts, i, inference) = {}
                  THEN [at |-> n, part |-> i] ELSE inference[parts[i]].error
  IN Answer(FirstOf([i \in DOMAIN parts |-> error(i)]), Left(ts, parts, Len(parts), inference))

Variants(n) == schema(n).anyOf \o schema(n).oneOf

narrow_with_union(n, ts, inference) ==
  LET parts == Variants(n)
      union == UNION {inference[m].types : m \in Elements(parts)}
  IN Answer(FirstOf([i \in DOMAIN parts |-> inference[parts[i]].error]),
            IF parts = <<>> THEN ts ELSE ts \cap union)

(* analyse_properties and analyse_items only add errors.                   *)
Members(n) == <<schema(n).property, schema(n).items>>

analyse_members(n, ts, inference) ==
  LET error(m) == IF m = Absent THEN NoError ELSE inference[m].error
  IN Answer(FirstOf([i \in 1 .. 2 |-> error(Members(n)[i])]), ts)

analyse_at(n, inference) ==
  LET narrowed == narrow_with_const(n, narrow_with_enum(n, types(n)))
      all == intersect_all_of(n, narrowed, inference)
      union == Unless(all, narrow_with_union(n, all.types, inference))
  IN IF is_never(n) THEN Answer(NoError, {})
     ELSE Unless(union, analyse_members(n, union.types, inference))

analyse ==
  LET inference[n \in Node] == analyse_at(n, inference)
  IN inference

(***************************************************************************)
(* Classification.                                                         *)
(***************************************************************************)
pick_variants(n) == IF schema(n).anyOf = <<>> THEN schema(n).oneOf ELSE schema(n).anyOf

is_single_type(ts) ==
  \/ ts \in {{"number"}, {"integer"}, {"number", "integer"}}
  \/ ts \in {{t} : t \in Types}

(* Mutant of variants_share_single_type: the types are not compared.       *)
variants_share_single_typeEach(n) ==
  \A i \in DOMAIN pick_variants(n) : is_single_type(types(pick_variants(n)[i]))

variants_share_single_type(n) ==
  \A i \in DOMAIN pick_variants(n) :
    /\ types(pick_variants(n)[i]) = types(pick_variants(n)[1])
    /\ is_single_type(types(pick_variants(n)[1]))

is_fully_unconstrained(n) ==
  LET s == schema(n)
  IN /\ types(n) = Types
     /\ {s.property, s.not, s.items, s.enum, s.const} = {Absent}
     /\ s.allOf = <<>>
     /\ ~s.required /\ ~s.narrowed

has_union(n) == pick_variants(n) # <<>>

classify(n) ==
  LET declares == schema(n).property # Absent
      object == "object" \in types(n)
  IN CASE is_never(n) -> "Unsupported"
       [] ~is_never(n) /\ has_union(n) ->
            IF object /\ declares THEN "Nominal"
            ELSE IF variants_share_single_type(n) THEN "Structural" ELSE "Dynamic"
       [] ~is_never(n) /\ ~has_union(n) ->
            IF is_fully_unconstrained(n) THEN "Dynamic"
            ELSE IF declares THEN "Nominal"
            ELSE IF object THEN "Structural"
            ELSE IF "array" \in types(n) THEN "Structural"
            ELSE IF types(n) \ {"null"} # {} THEN "Nominal" ELSE "Dynamic"

(***************************************************************************)
(* Comparison.                                                             *)
(***************************************************************************)
(* Mutant of check_type_removals: integer is taken to be part of number.   *)
check_type_removalsOfNumber(a, b) ==
  {<<"type", t>> : t \in (types(a) \ types(b)) \ {"integer"}}

check_type_removals(a, b) == {<<"type", t>> : t \in types(a) \ types(b)}

check_required_additions(a, b) ==
  IF schema(b).required /\ ~schema(a).required THEN {<<"required", "member">>} ELSE {}

check_enum_restrictions(a, b) ==
  IF Absent \in {schema(a).enum, schema(b).enum} \/ {} \in {schema(a).enum, schema(b).enum} THEN {}
  ELSE {<<"enum", v>> : v \in schema(a).enum \ schema(b).enum}

find_breaking_changes(a, b) ==
  check_type_removals(a, b) \cup check_required_additions(a, b) \cup check_enum_restrictions(a, b)

-----------------------------------------------------------------------------
Init == pair \in Pairs /\ inferred = <<>> /\ changes = Pending

Analyse ==
  /\ inferred = <<>>
  /\ inferred' = analyse
  /\ UNCHANGED <<pair, changes>>

Compare ==
  /\ changes = Pending
  /\ changes' = find_breaking_changes(pair.old, pair.new)
  /\ UNCHANGED <<pair, inferred>>

Done == inferred # <<>> /\ changes # Pending /\ UNCHANGED vars

Next == Analyse \/ Compare \/ Done

Spec == Init /\ [][Next]_vars

-----------------------------------------------------------------------------
(***************************************************************************)
(* What the validator accepts.                                             *)
(***************************************************************************)
instance_matches_type(v, t) ==
  CASE t = "integer" -> class[v] \in {"i64", "u64", "whole"}
    [] t = "number" -> class[v] \in {"i64", "u64", "whole", "fraction"}
    [] OTHER -> class[v] = t

(* validation's apply: type, enum and const.                               *)
Meets(s, v) ==
  /\ s.type = Absent \/ \E t \in s.type : instance_matches_type(v, t)
  /\ s.enum = Absent \/ v \in s.enum
  /\ s.const = Absent \/ v = s.const

(* Given what the parts accept.                                            *)
Accepts(n, v, accepted) ==
  LET s == schema(n)
      inner(m) == m = Absent \/ inside[v] = NoValue \/ accepted[m][inside[v]]
      valid(ms) == {i \in DOMAIN ms : accepted[ms[i]][v]}
  IN /\ Meets(s, v)
     /\ valid(s.allOf) = DOMAIN s.allOf
     /\ s.anyOf = <<>> \/ valid(s.anyOf) # {}
     /\ s.oneOf = <<>> \/ \E i \in DOMAIN s.oneOf : valid(s.oneOf) = {i}
     /\ s.not = Absent \/ ~accepted[s.not][v]
     /\ class[v] = "object" => inner(s.property) /\ (s.required => inside[v] # NoValue)
     /\ class[v] = "array" => inner(s.items)
     /\ s.narrowed => class[v] # "string"

Accepted ==
  LET accepted[n \in Node] == [v \in Value |-> Accepts(n, v, accepted)]
  IN accepted

Values(n) == {v \in Value : Accepted[n][v]}

(* The types an instance has.                                              *)
TypesOf(v) == {t \in Types : instance_matches_type(v, t)}

(* Inference knows a value by its types, unless it is a number listed as   *)
(* an `enum' or `const' that neither is_i64 nor has a fraction.            *)
Known(v) ==
  class[v] \in {"u64", "whole"} =>
    \A n \in Node : schema(n).const # v /\ (schema(n).enum = Absent \/ v \notin schema(n).enum)

-----------------------------------------------------------------------------
(* What node n accepts as far as its type, enum and const and the first i  *)
(* parts of its allOf say.                                                 *)
ValuesUpTo(n, i) ==
  {v \in Value : Meets(schema(n), v) /\ \A j \in 1 .. i : v \in Values(schema(n).allOf[j])}

(* The inference errs to one side: each value a node accepts has a type   *)
(* that was inferred for it, so that a type generated from it can hold the *)
(* value; and where a contradiction is reported, at a part of an allOf of  *)
(* the node or below it, the schema is contradictory up to there.  The     *)
(* values that may be lost in either way are the listed integers beyond    *)
(* i64 and whole floats, which set no flag (lib.rs:133), and no others.    *)
InferenceSound ==
  inferred # <<>> =>
    \A n \in Node :
      LET blamed == inferred[n].error
      IN IF blamed = NoError
         THEN \A v \in Values(n) : Known(v) => TypesOf(v) \cap inferred[n].types # {}
         ELSE /\ blamed.at >= n /\ blamed.part \in DOMAIN schema(blamed.at).allOf
              /\ \A v \in ValuesUpTo(blamed.at, blamed.part) : ~Known(v)

(* A union that is classified as uniform accepts values of one JSON type.  *)
UniformUnion ==
  \A n \in Node : has_union(n) /\ classify(n) = "Structural" =>
    \A v, w \in Values(n) : TypesOf(v) \cap TypesOf(w) # {}

(* A schema that has only the keywords the comparison is about.            *)
Compared(n) ==
  LET s == schema(n)
  IN /\ {s.not, s.items, s.const, s.property} = {Absent} /\ ~s.narrowed
     /\ s.allOf = <<>> /\ s.anyOf = <<>> /\ s.oneOf = <<>>

(* The one value that is lost without a report is one that an enum refuses *)
(* which the new schema adds, or has emptied: removed types, an added      *)
(* requirement and a narrowed enum never go unreported.                    *)
CompatibleKeepsValues ==
  changes = {} /\ Compared(pair.old) /\ Compared(pair.new) =>
    \A v \in Values(pair.old) \ Values(pair.new) :
      /\ schema(pair.new).enum # Absent /\ v \notin schema(pair.new).enum
      /\ schema(pair.old).enum = Absent \/ schema(pair.new).enum = {}
=============================================================================
