--------------------------- MODULE MCUnevaluated ---------------------------
(***************************************************************************)
(* Unevaluated on a root that forbids unevaluated parts, two branches and  *)
(* a leaf, against an object or an array of two parts.                     *)
(***************************************************************************)
EXTENDS Unevaluated

MCSchema == {"root", "a", "b", "leaf"}
MCPart == {1, 2}
MCBase == {"r", "e"}

Here(s) == [u \in Base |-> [schema |-> s, base |-> u]]

(* A relative reference: another document under each base.                 *)
Relative(s, t) == [u \in Base |-> [schema |-> IF u = "r" THEN s ELSE t, base |-> "e"]]

Plain == [object |-> TRUE, id |-> NoBase, refers |-> FALSE, ref |-> Here(NoSchema),
          allOf |-> {}, anyOf |-> {}, oneOf |-> {},
          if |-> NoSchema, then |-> NoSchema, else |-> NoSchema, dependents |-> {},
          named |-> {}, matching |-> {}, rest |-> "absent", accepts |-> TRUE, forbids |-> FALSE]

Applicators(B) ==
  {[B EXCEPT !.allOf = {"a", "b"}], [B EXCEPT !.anyOf = {"a", "b"}], [B EXCEPT !.oneOf = {"a", "b"}],
   [B EXCEPT !.if = "a", !.then = "b"], [B EXCEPT !.if = "a", !.else = "b"],
   [B EXCEPT !.dependents = {"a"}, !.refers = TRUE, !.ref = Here("b")]}

Roots ==
  UNION {Applicators([Plain EXCEPT !.forbids = TRUE, !.named = n, !.rest = r]) :
           n \in {{}, {1}}, r \in {"absent", "false"}}

Leaves ==
  {[Plain EXCEPT !.named = {2}], [Plain EXCEPT !.matching = {1, 2}, !.accepts = FALSE],
   [Plain EXCEPT !.rest = "schema"], [Plain EXCEPT !.rest = "false", !.named = {1}],
   [Plain EXCEPT !.object = FALSE], [Plain EXCEPT !.forbids = TRUE, !.matching = {1}]}

Branches ==
  {[Plain EXCEPT !.named = {1}, !.refers = TRUE, !.ref = Here("leaf")],
   [Plain EXCEPT !.anyOf = {"leaf"}, !.named = {2}],
   [Plain EXCEPT !.if = "leaf", !.then = "leaf", !.forbids = TRUE],
   [Plain EXCEPT !.dependents = {"leaf"}, !.accepts = FALSE],
   [Plain EXCEPT !.refers = TRUE, !.ref = Here("b")], [Plain EXCEPT !.refers = TRUE, !.ref = Here("root")],
   [Plain EXCEPT !.refers = TRUE, !.ref = Here(NoSchema), !.named = {2}]}

Moving ==
  {[Plain EXCEPT !.id = "e", !.refers = TRUE, !.ref = Relative("leaf", "b")],
   [Plain EXCEPT !.refers = TRUE, !.ref = Relative("leaf", "b")]}

MCTasks ==
  {[body |-> [s \in Schema |-> CASE s = "root" -> r [] s = "a" -> a [] s = "b" -> b [] s = "leaf" -> l],
    root |-> "root", base |-> "r", array |-> x] :
      r \in Roots, a \in Branches \cup Moving, b \in Branches \cup Leaves, l \in Leaves, x \in BOOLEAN}
=============================================================================
