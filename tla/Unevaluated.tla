---------------------------- MODULE Unevaluated ----------------------------
(***************************************************************************)
(* unevaluatedProperties and unevaluatedItems (unevaluated.rs of           *)
(* schemaforge-jsonschema).  Which parts of the instance the applicators   *)
(* evaluated is not recorded while they run: a second walk over the same   *)
(* schemas collects it, with a depth budget of its own, evaluating anyOf,  *)
(* oneOf and if again to see which branches count.                         *)
(*                                                                         *)
(* The evaluation itself is that of module Evaluation, reduced to a        *)
(* function of nesting depth, schema and base URI, for the applicators     *)
(* that pass the instance on.                                              *)
(***************************************************************************)
EXTENDS Naturals, Sequences, FiniteSets

CONSTANTS
  Schema,
  NoSchema,
  Part,      (* the keys of an object, or the indices of an array          *)
  Base,      (* base URIs                                                  *)
  NoBase,    (* a schema without `$id'                                     *)
  Tasks,
  MaxDepth   (* MAX_DEPTH and MAX_BRANCH_REF_DEPTH                         *)

Target == [schema : Schema \cup {NoSchema}, base : Base]

(* `named' are the parts under `properties' or `prefixItems', `matching'   *)
(* those that `patternProperties' or `contains' match; `rest' is           *)
(* `additionalProperties' or `items'.  `dependents' are the                *)
(* dependentSchemas whose trigger the instance has.  What else a schema    *)
(* asserts of the instance it accepts or not.                              *)
Body == [object : BOOLEAN, id : Base \cup {NoBase}, refers : BOOLEAN, ref : [Base -> Target],
         allOf : SUBSET Schema, anyOf : SUBSET Schema, oneOf : SUBSET Schema,
         if : Schema \cup {NoSchema}, then : Schema \cup {NoSchema}, else : Schema \cup {NoSchema},
         dependents : SUBSET Schema,
         named : SUBSET Part, matching : SUBSET Part, rest : {"absent", "false", "schema"},
         accepts : BOOLEAN, forbids : BOOLEAN]

(* `forbids' says whether unevaluated parts are forbidden, in the keyword  *)
(* for the kind of the instance.                                           *)
Task == [body : [Schema -> Body], root : Schema, base : Base, array : BOOLEAN]

ASSUME UnevaluatedAssumption ==
  /\ NoSchema \notin Schema
  /\ NoBase \notin Base
  /\ Tasks \subseteq Task
  /\ MaxDepth \in Nat

VARIABLES
  task,     (* what is validated                                           *)
  out,      (* the ValidationOutput; "pending" before                      *)
  exceeded  (* whether the root's collection walk exceeded its budget      *)

vars == <<task, out, exceeded>>

body(s) == task.body[s]

base_of(s, u) == IF body(s).id = NoBase THEN u ELSE body(s).id

Merged(outs) ==
  IF "aborted" \in outs THEN "aborted" ELSE IF "failed" \in outs THEN "failed" ELSE "valid"

Decided(outs, enough) ==
  IF "aborted" \in outs THEN "aborted" ELSE IF enough THEN "valid" ELSE "failed"

(***************************************************************************)
(* The applicators on schema object s, `sub' being what an evaluation one  *)
(* level deeper answers; the assertions of s; not yet unevaluated.         *)
(***************************************************************************)
Applied(s, u, sub) ==
  LET b == body(s)
      base == base_of(s, u)
      on(schemas) == {sub[t][base] : t \in schemas}
      valid(schemas) == {t \in schemas : sub[t][base] = "valid"}
      branch == IF sub[b.if][base] = "valid" THEN b.then ELSE b.else
      closed == b.rest = "false" /\ Part # b.named \cup (IF task.array THEN {} ELSE b.matching)
  IN Merged(
       on(b.allOf)
         \cup (IF task.array THEN {} ELSE on(b.dependents))
         \cup (IF b.anyOf = {} THEN {} ELSE {Decided(on(b.anyOf), valid(b.anyOf) # {})})
         \cup (IF b.oneOf = {} THEN {}
               ELSE {Decided(on(b.oneOf), Cardinality(valid(b.oneOf)) = 1)})
         \cup (CASE b.if = NoSchema -> {}
                 [] b.if # NoSchema /\ sub[b.if][base] = "aborted" -> {"aborted"}
                 [] OTHER -> IF branch = NoSchema THEN {} ELSE {sub[branch][base]})
         \cup (IF ~b.refers THEN {}
               ELSE IF b.ref[base].schema = NoSchema THEN {"aborted"}
               ELSE {sub[b.ref[base].schema][b.ref[base].base]})
         \cup {IF b.accepts /\ ~closed THEN "valid" ELSE "failed"})

(***************************************************************************)
(* The collection walk.                                                    *)
(***************************************************************************)
(* Mutant of Children: every anyOf branch counts as successful.            *)
ChildrenOfAnyBranch(t, base, valid) ==
  LET b == body(t)
      branch == IF b.if # NoSchema /\ b.if \in valid THEN b.then ELSE b.else
  IN b.allOf \cup b.anyOf \cup (b.oneOf \cap valid)
       \cup (IF b.if = NoSchema THEN {} ELSE {b.if, branch} \ {NoSchema})
       \cup (IF ~b.refers THEN {} ELSE {b.ref[base].schema} \ {NoSchema})
       \cup (IF task.array THEN {} ELSE b.dependents)

(* for_each_child_schema and the dependentSchemas: a branch is tried, and  *)
(* a `$ref' resolved, under the base URI of the walk's schema object; the   *)
(* branches in `valid' accept the instance.                                *)
Children(t, base, valid) ==
  LET b == body(t)
      branch == IF b.if # NoSchema /\ b.if \in valid THEN b.then ELSE b.else
  IN b.allOf \cup ((b.anyOf \cup b.oneOf) \cap valid)
       \cup (IF b.if = NoSchema THEN {} ELSE {b.if, branch} \ {NoSchema})
       \cup (IF ~b.refers THEN {} ELSE {b.ref[base].schema} \ {NoSchema})
       \cup (IF task.array THEN {} ELSE b.dependents)

Nothing == [seen |-> {}, exceeded |-> FALSE]

Together(walks) ==
  [seen |-> UNION {w.seen : w \in walks}, exceeded |-> \E w \in walks : w.exceeded]

(* Mutant of Budget: the walk stops one level short of the evaluation.     *)
BudgetOfEvaluation == MaxDepth - 2

Budget == MaxDepth

(* The schema objects a walk from object s meets, and whether it exceeded  *)
(* its budget.  Properties are collected from the children on, items from  *)
(* s itself; only the walk for items looks at a child's kind first.        *)
Walk(s, base, valid) ==
  LET next(t) == Children(t, base, valid)
      walk[k \in 0 .. Budget + 1] == [t \in Schema |->
        IF task.array /\ ~body(t).object THEN Nothing
        ELSE IF k > Budget THEN [seen |-> {}, exceeded |-> TRUE]
        ELSE IF ~body(t).object THEN Nothing
        ELSE Together({[seen |-> {t}, exceeded |-> FALSE]} \cup {walk[k + 1][c] : c \in next(t)})]
  IN IF task.array THEN walk[0][s] ELSE Together({walk[0][c] : c \in next(s)})

(* The parts that schema object t of a walk has evaluated.                 *)
LocalParts(t) ==
  LET b == body(t)
      all == b.rest = "schema" \/ (task.array /\ b.rest = "false")
  IN IF all THEN Part ELSE b.named \cup b.matching

(* apply_unevaluated_properties and apply_unevaluated_items.               *)
Unevaluated(s, walk) ==
  LET parts == UNION {LocalParts(t) : t \in walk.seen}
      has_rest == \/ body(s).rest # "absent"
                  \/ task.array /\ \E t \in walk.seen : body(t).rest # "absent"
  IN IF ~body(s).forbids THEN "valid"
     ELSE IF task.array /\ has_rest THEN "valid"
     ELSE IF walk.exceeded THEN "failed"
     ELSE IF has_rest \/ Part = LocalParts(s) \cup parts THEN "valid" ELSE "failed"

(* validate_schema.                                                        *)
validate_schema ==
  LET eval[d \in 0 .. MaxDepth] == [s \in Schema |-> [u \in Base |->
        LET sub == eval[d + 1]
            base == base_of(s, u)
            valid == {t \in Schema : sub[t][base] = "valid"}
        IN CASE d = MaxDepth -> "aborted"
             [] d < MaxDepth /\ ~body(s).object -> IF body(s).accepts THEN "valid" ELSE "failed"
             [] OTHER -> Merged({Applied(s, u, sub), Unevaluated(s, Walk(s, base, valid))})]]
  IN eval

Init == task \in Tasks /\ out = "pending" /\ exceeded = FALSE

Validate ==
  /\ out = "pending"
  /\ out' = validate_schema[0][task.root][task.base]
  /\ exceeded' =
       LET base == base_of(task.root, task.base)
           valid == {t \in Schema : validate_schema[1][t][base] = "valid"}
       IN body(task.root).object /\ MaxDepth > 0 /\ Walk(task.root, base, valid).exceeded
  /\ UNCHANGED task

Done == out # "pending" /\ UNCHANGED vars

Next == Validate \/ Done

Spec == Init /\ [][Next]_vars
-----------------------------------------------------------------------------
(***************************************************************************)
(* What the module documents, in one evaluation that returns the evaluated *)
(* parts with its answer: a `$ref' is an allOf branch, anyOf and oneOf     *)
(* count successful branches, `if' always counts.                          *)
(***************************************************************************)
Documented ==
  LET eval[d \in 0 .. MaxDepth] == [s \in Schema |-> [u \in Base |->
        LET b == body(s)
            base == base_of(s, u)
            sub == eval[d + 1]
            answer == [t \in Schema |-> [v \in Base |-> sub[t][v].out]]
            counting ==
              b.allOf \cup {t \in b.anyOf \cup b.oneOf : sub[t][base].out = "valid"}
                \cup (IF task.array THEN {} ELSE b.dependents)
                \cup (IF b.if = NoSchema THEN {}
                      ELSE {b.if, IF sub[b.if][base].out = "valid" THEN b.then ELSE b.else}
                             \ {NoSchema})
            referenced ==
              IF ~b.refers \/ b.ref[base].schema = NoSchema THEN {}
              ELSE sub[b.ref[base].schema][b.ref[base].base].parts
            parts == LocalParts(s) \cup referenced \cup UNION {sub[t][base].parts : t \in counting}
            unevaluated ==
              IF b.forbids /\ b.rest = "absent" /\ parts # Part THEN "failed" ELSE "valid"
        IN CASE d = MaxDepth -> [out |-> "aborted", parts |-> {}]
             [] d < MaxDepth /\ ~b.object ->
                  [out |-> IF b.accepts THEN "valid" ELSE "failed", parts |-> {}]
             [] OTHER -> [out |-> Merged({Applied(s, u, answer), unevaluated}), parts |-> parts]]]
  IN eval[0][task.root][task.base].out

(* No `$id' and no reference changes the base URI.                         *)
OneBase ==
  \A s \in Schema : body(s).id = NoBase
    /\ (body(s).refers => \A u \in Base : body(s).ref[u].base = u)

-----------------------------------------------------------------------------
(* The two traversals agree: inside one base URI, the parts that the       *)
(* second walk collects are those the first one evaluated, through any     *)
(* nesting of applicators and cycles of references, so the answer is that  *)
(* of the documented rules.                                                *)
AgreesInOneBase == OneBase /\ out # "pending" => out = Documented

(* The budget of the walk never decides: where it is exceeded the          *)
(* evaluation itself aborted, so that the walk's plain failure, which      *)
(* `not' and `if' would invert, is never the reason of an answer.          *)
ExceededIsAborted == OneBase /\ exceeded => out = "aborted"
=============================================================================
