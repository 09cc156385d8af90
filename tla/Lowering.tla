------------------------------ MODULE Lowering ------------------------------
(***************************************************************************)
(* The lowering pass of schemaforge-compiler (crates/schemaforge-compiler, *)
(* src/lib.rs): a JSON Schema document becomes a finite IR tree.           *)
(*                                                                         *)
(* `compile_value' first walks the document to build the `$anchor'         *)
(* registry, then lowers the root.  `lower_schema', `lower_local_ref' and  *)
(* `lower_object_keywords' call one another; the specification runs that   *)
(* recursion as a machine with an explicit stack, one action per call,     *)
(* return and error path.  Names are those of the code.                    *)
(*                                                                         *)
(* A document is a finite set of schema positions.  A position's body      *)
(* keeps what the control flow looks at: its JSON kind, whether it holds a *)
(* keyword of UNSUPPORTED_KEYWORDS, its `$ref', and whether a key outside  *)
(* REF_PASSTHROUGH_KEYS accompanies that `$ref'.                           *)
(***************************************************************************)
EXTENDS Naturals, Sequences, FiniteSets

CONSTANTS
  Loc,       (* positions of a document that can hold a schema             *)
  Root,      (* the document itself                                        *)
  NoLoc,     (* a JSON Pointer that leads nowhere                          *)
  Name,      (* `$anchor' names                                            *)
  NoName,    (* a position without `$anchor'                               *)
  Docs,      (* the documents handed to the compiler                       *)
  MaxDepth,  (* LowerCtx::MAX_DEPTH                                        *)
  MaxNodes   (* LowerCtx::DEFAULT_MAX_NODE_COUNT                           *)

(* A `$ref' string.  `#' is the pointer to Root.  A pointer string names   *)
(* one position at most, so it is written as that position; an anchor      *)
(* string and a pointer string may still lead to the same position.        *)
Ref == [form : {"pointer"}, to : Loc \cup {NoLoc}]
         \cup [form : {"anchor"}, to : Name]
         \cup [form : {"external"}, to : {NoLoc}]

NoRef == [form |-> "none", to |-> NoLoc]

Body == [kind : {"object", "boolean", "other"}, unsupported : BOOLEAN,
         ref : Ref \cup {NoRef}, siblings : BOOLEAN]

(* `kids' are the sub-schemas `lower_object_keywords' lowers, in its       *)
(* order; `walk' those `for_each_schema_child' visits: the same, and the   *)
(* `definitions' that `lower_defs' ignores when `$defs' is there.          *)
Doc == [body : [Loc -> Body], anchor : [Loc -> Name \cup {NoName}],
        kids : [Loc -> Seq(Loc)], walk : [Loc -> Seq(Loc)]]

ASSUME LoweringAssumption ==
  /\ Root \in Loc
  /\ NoLoc \notin Loc
  /\ NoName \notin Name
  /\ Docs \subseteq Doc
  /\ MaxDepth \in Nat
  /\ MaxNodes \in Nat

(* JSON is a finite tree and no keyword is in two lists of                 *)
(* `for_each_schema_child': a schema is a child once at most, Root never.  *)
ASSUME TreeAssumption ==
  /\ IsFiniteSet(Loc)
  /\ \A d \in Docs : \A l \in Loc : \A i \in 1 .. Len(d.walk[l]) :
       /\ d.walk[l][i] # Root
       /\ \A m \in Loc : \A j \in 1 .. Len(d.walk[m]) :
            d.walk[l][i] = d.walk[m][j] => l = m /\ i = j

VARIABLES
  doc,         (* the document being compiled; never changes               *)
  anchors,     (* LowerCtx.anchors: name to position, NoLoc when absent    *)
  unwalked,    (* positions collect_anchors_recursive has still to enter   *)
  pc, at,      (* the call about to be made, and its argument              *)
  stack,       (* the open calls, outermost first                          *)
  visiting,    (* LowerCtx.visiting                                        *)
  node_count,  (* LowerCtx.node_count                                      *)
  nodes,       (* history: SchemaNode values built so far                  *)
  outcome      (* "running", "ok" or the CompileError                      *)

vars == <<doc, anchors, unwalked, pc, at, stack, visiting, node_count, nodes,
          outcome>>

Errors == {"DuplicateAnchor", "NodeLimitExceeded", "InvalidSchemaKind",
           "UnsupportedKeyword", "UnresolvedRef", "CyclicRef", "DepthExceeded"}

(* An open call: `lower_local_ref' (ref is its argument) or                *)
(* `lower_object_keywords' (ref is NoRef, todo the sub-schemas left);      *)
(* depth is `ctx.visiting.len()' when it was made.                         *)
Frame == [at : Loc, ref : Ref \cup {NoRef}, depth : Nat, todo : Seq(Loc)]

Occurs(x, s) == \E i \in 1 .. Len(s) : s[i] = x

Front(s) == SubSeq(s, 1, Len(s) - 1)

Last(s) == s[Len(s)]

body(l) == doc.body[l]

KeywordsCall(l, depth) ==
  [at |-> l, ref |-> NoRef, depth |-> depth, todo |-> doc.kids[l]]

RefCall(l, depth) ==
  [at |-> l, ref |-> body(l).ref, depth |-> depth, todo |-> <<>>]

(***************************************************************************)
(* compile_value: collect_anchors, then lower_schema(root).                *)
(***************************************************************************)
Init ==
  /\ doc \in Docs
  /\ anchors = [n \in Name |-> NoLoc]
  /\ unwalked = <<Root>>
  /\ pc = "collect_anchors"
  /\ at = Root
  /\ stack = <<>>
  /\ visiting = <<>>
  /\ node_count = 0
  /\ nodes = 0
  /\ outcome = "running"

(* Every error leaves through `?': the open calls return one by one.       *)
Fail(error) ==
  /\ outcome' = error
  /\ pc' = "unwind"
  /\ UNCHANGED <<doc, at, stack, visiting, nodes>>

(* Mutant of CollectAnchors: the last position with a name wins.           *)
CollectAnchorsLastWins ==
  /\ pc = "collect_anchors"
  /\ unwalked # <<>>
  /\ LET l == Head(unwalked)
         object == body(l).kind = "object"
     IN /\ anchors' = IF object /\ doc.anchor[l] # NoName
                      THEN [anchors EXCEPT ![doc.anchor[l]] = l] ELSE anchors
        /\ unwalked' = (IF object THEN doc.walk[l] ELSE <<>>) \o Tail(unwalked)
  /\ UNCHANGED <<doc, pc, at, stack, visiting, node_count, nodes, outcome>>

CollectAnchors ==
  /\ pc = "collect_anchors"
  /\ unwalked # <<>>
  /\ LET l == Head(unwalked)
         name == doc.anchor[l]
         walk == IF body(l).kind = "object" THEN doc.walk[l] ELSE <<>>
         named == body(l).kind = "object" /\ name # NoName
     IN \/ /\ named /\ anchors[name] # NoLoc
           /\ Fail("DuplicateAnchor")
           /\ UNCHANGED <<anchors, unwalked, node_count>>
        \/ /\ ~(named /\ anchors[name] # NoLoc)
           /\ anchors' = IF named THEN [anchors EXCEPT ![name] = l] ELSE anchors
           /\ unwalked' = walk \o Tail(unwalked)
           /\ UNCHANGED <<doc, pc, at, stack, visiting, node_count, nodes, outcome>>

AnchorsCollected ==
  /\ pc = "collect_anchors"
  /\ unwalked = <<>>
  /\ pc' = "lower_schema"
  /\ at' = Root
  /\ UNCHANGED <<doc, anchors, unwalked, stack, visiting, node_count, nodes, outcome>>

(***************************************************************************)
(* lower_schema and lower_object_schema.                                   *)
(***************************************************************************)
LowerSchemaError(b) ==
  CASE node_count + 1 > MaxNodes -> "NodeLimitExceeded"
    [] b.kind = "other" -> "InvalidSchemaKind"
    [] b.kind = "object" /\ b.unsupported -> "UnsupportedKeyword"
    [] b.kind = "object" /\ b.ref.form = "external" -> "UnresolvedRef"
    [] OTHER -> "running"

LowerSchemaFails ==
  /\ pc = "lower_schema"
  /\ LowerSchemaError(body(at)) # "running"
  /\ node_count' = node_count + 1
  /\ Fail(LowerSchemaError(body(at)))
  /\ UNCHANGED <<anchors, unwalked>>

(* Mutant of LowerBoolean: only objects are counted.                       *)
LowerBooleanUncounted ==
  /\ pc = "lower_schema"
  /\ LowerSchemaError(body(at)) = "running"
  /\ body(at).kind = "boolean"
  /\ nodes' = nodes + 1
  /\ pc' = "return"
  /\ UNCHANGED <<doc, anchors, unwalked, at, stack, visiting, node_count, outcome>>

LowerBoolean ==
  /\ pc = "lower_schema"
  /\ LowerSchemaError(body(at)) = "running"
  /\ body(at).kind = "boolean"
  /\ node_count' = node_count + 1
  /\ nodes' = nodes + 1
  /\ pc' = "return"
  /\ UNCHANGED <<doc, anchors, unwalked, at, stack, visiting, outcome>>

LowerObject ==
  /\ pc = "lower_schema"
  /\ LowerSchemaError(body(at)) = "running"
  /\ body(at).kind = "object"
  /\ node_count' = node_count + 1
  /\ \/ /\ body(at).ref # NoRef
        /\ pc' = "lower_local_ref"
        /\ UNCHANGED stack
     \/ /\ body(at).ref = NoRef
        /\ pc' = "return"
        /\ stack' = Append(stack, KeywordsCall(at, Len(visiting)))
  /\ UNCHANGED <<doc, anchors, unwalked, at, visiting, nodes, outcome>>

(***************************************************************************)
(* lower_local_ref.                                                        *)
(***************************************************************************)
Target(ref) == IF ref.form = "anchor" THEN anchors[ref.to] ELSE ref.to

(* Mutants of LowerLocalRefError: no cycle guard; a dangling ref accepted. *)
LowerLocalRefErrorNoCycleGuard(ref) ==
  CASE Len(visiting) >= MaxDepth -> "DepthExceeded"
    [] Target(ref) = NoLoc -> "UnresolvedRef"
    [] OTHER -> "running"

LowerLocalRefErrorDangling(ref) ==
  CASE Occurs(ref, visiting) -> "CyclicRef"
    [] Len(visiting) >= MaxDepth -> "DepthExceeded"
    [] OTHER -> "running"

LowerLocalRefError(ref) ==
  CASE Occurs(ref, visiting) -> "CyclicRef"
    [] Len(visiting) >= MaxDepth -> "DepthExceeded"
    [] Target(ref) = NoLoc -> "UnresolvedRef"
    [] OTHER -> "running"

LowerLocalRefFails ==
  /\ pc = "lower_local_ref"
  /\ LowerLocalRefError(body(at).ref) # "running"
  /\ Fail(LowerLocalRefError(body(at).ref))
  /\ UNCHANGED <<anchors, unwalked, node_count>>

LowerLocalRef ==
  /\ pc = "lower_local_ref"
  /\ LowerLocalRefError(body(at).ref) = "running"
  /\ visiting' = Append(visiting, body(at).ref)
  /\ stack' = Append(stack, RefCall(at, Len(visiting)))
  /\ pc' = "lower_schema"
  /\ at' = Target(body(at).ref)
  /\ UNCHANGED <<doc, anchors, unwalked, node_count, nodes, outcome>>

(***************************************************************************)
(* A lower_schema call has returned Ok to the innermost open call.         *)
(***************************************************************************)

(* Mutant of ReturnFromRef: the keywords next to the `$ref' are dropped.   *)
ReturnFromRefDropsSiblings ==
  /\ pc = "return"
  /\ stack # <<>> /\ Last(stack).ref # NoRef
  /\ visiting' = Front(visiting)
  /\ stack' = Front(stack)
  /\ UNCHANGED <<doc, anchors, unwalked, pc, at, node_count, nodes, outcome>>

(* lower_local_ref pops `visiting'; with siblings the caller goes on to    *)
(* lower_object_keywords for the object without its `$ref'.                *)
ReturnFromRef ==
  /\ pc = "return"
  /\ stack # <<>> /\ Last(stack).ref # NoRef
  /\ visiting' = Front(visiting)
  /\ LET l == Last(stack).at
     IN stack' = IF body(l).siblings
                 THEN Append(Front(stack), KeywordsCall(l, Len(visiting')))
                 ELSE Front(stack)
  /\ UNCHANGED <<doc, anchors, unwalked, pc, at, node_count, nodes, outcome>>

LowerNextKid ==
  /\ pc = "return"
  /\ stack # <<>> /\ Last(stack).ref = NoRef /\ Last(stack).todo # <<>>
  /\ at' = Head(Last(stack).todo)
  /\ stack' = [stack EXCEPT ![Len(stack)].todo = Tail(@)]
  /\ pc' = "lower_schema"
  /\ UNCHANGED <<doc, anchors, unwalked, visiting, node_count, nodes, outcome>>

(* All sub-schemas are lowered: the node is built, and for a `$ref' with   *)
(* siblings the allOf wrapper around it and the referenced node too.       *)
KeywordsDone ==
  /\ pc = "return"
  /\ stack # <<>> /\ Last(stack).ref = NoRef /\ Last(stack).todo = <<>>
  /\ nodes' = nodes + (IF body(Last(stack).at).ref = NoRef THEN 1 ELSE 2)
  /\ stack' = Front(stack)
  /\ UNCHANGED <<doc, anchors, unwalked, pc, at, visiting, node_count, outcome>>

Compiled ==
  /\ pc = "return"
  /\ stack = <<>>
  /\ pc' = "done"
  /\ outcome' = "ok"
  /\ UNCHANGED <<doc, anchors, unwalked, at, stack, visiting, node_count, nodes>>

(***************************************************************************)
(* The error path: lower_local_ref pops `visiting' before it returns the   *)
(* error, lower_object_keywords returns it at once.                        *)
(***************************************************************************)
(* Mutant of Unwind: the error returns before `visiting.pop()'.            *)
UnwindWithoutPop ==
  /\ pc = "unwind"
  /\ pc' = IF stack = <<>> THEN "done" ELSE pc
  /\ stack' = IF stack = <<>> THEN stack ELSE Front(stack)
  /\ UNCHANGED <<doc, anchors, unwalked, at, visiting, node_count, nodes, outcome>>

Unwind ==
  /\ pc = "unwind"
  /\ \/ /\ stack = <<>>
        /\ pc' = "done"
        /\ UNCHANGED <<stack, visiting>>
     \/ /\ stack # <<>>
        /\ stack' = Front(stack)
        /\ visiting' = IF Last(stack).ref # NoRef THEN Front(visiting) ELSE visiting
        /\ UNCHANGED pc
  /\ UNCHANGED <<doc, anchors, unwalked, at, node_count, nodes, outcome>>

Done == pc = "done" /\ UNCHANGED vars

Next ==
  \/ CollectAnchors \/ AnchorsCollected
  \/ LowerSchemaFails \/ LowerBoolean \/ LowerObject
  \/ LowerLocalRefFails \/ LowerLocalRef
  \/ ReturnFromRef \/ LowerNextKid \/ KeywordsDone \/ Compiled
  \/ Unwind \/ Done

Spec == Init /\ [][Next]_vars
-----------------------------------------------------------------------------
(***************************************************************************)
(* What compiling a document ought to mean, stated on the document alone.  *)
(***************************************************************************)
(* Least set that holds `from' and is closed under `next' (Loc is finite). *)
Closure(from, next) ==
  LET step[n \in 0 .. Cardinality(Loc)] ==
        IF n = 0 THEN from ELSE step[n - 1] \cup UNION {next[l] : l \in step[n - 1]}
  IN step[Cardinality(Loc)]

Elements(s) == {s[i] : i \in DOMAIN s}

Walked ==
  Closure({Root}, [l \in Loc |-> IF body(l).kind = "object" THEN Elements(doc.walk[l]) ELSE {}])

Anchored(n) == {l \in Walked : body(l).kind = "object" /\ doc.anchor[l] = n}

HasDuplicateAnchor ==
  \E n \in Name : \E l, m \in Anchored(n) : l # m

RefTargets(l) ==
  CASE body(l).ref.form = "anchor" -> Anchored(body(l).ref.to)
    [] body(l).ref.form = "pointer" -> {body(l).ref.to} \ {NoLoc}
    [] OTHER -> {}

(* The sub-schemas whose meaning position l needs.  A `$ref' without       *)
(* siblings stands for its target alone.                                   *)
LoweredKids(l) ==
  IF body(l).ref = NoRef \/ body(l).siblings THEN doc.kids[l] ELSE <<>>

Needs ==
  [l \in Loc |->
     IF body(l).kind = "object" THEN RefTargets(l) \cup Elements(LoweredKids(l)) ELSE {}]

Needed == Closure({Root}, Needs)

Cyclic == \E l \in Needed : l \in Closure(Needs[l], Needs)

(* A needed position that no IR node can stand for.                        *)
Unsound(l) ==
  \/ body(l).kind = "other"
  \/ body(l).kind = "object" /\ body(l).unsupported
  \/ body(l).kind = "object" /\ body(l).ref # NoRef /\ RefTargets(l) = {}

SumOver(s, f) ==
  LET last[n \in 0 .. Len(s)] == IF n = 0 THEN 0 ELSE last[n - 1] + f[s[Len(s) - n + 1]]
  IN last[Len(s)]

(* For an acyclic document: lower_schema calls its expansion takes, IR     *)
(* nodes it has, and its longest chain of nested `$ref's.                  *)
Calls ==
  LET calls[l \in Needed] ==
        1 + (IF body(l).kind = "object"
             THEN SumOver(LoweredKids(l), calls)
                    + (IF RefTargets(l) # {} THEN calls[CHOOSE t \in RefTargets(l) : TRUE] ELSE 0)
             ELSE 0)
  IN calls[Root]

RefDepth ==
  LET depth[l \in Needed] ==
        LET below == {depth[k] : k \in Elements(LoweredKids(l))}
                       \cup {1 + depth[t] : t \in RefTargets(l)}
                       \cup (IF body(l).ref.form \in {"pointer", "anchor"} THEN {1} ELSE {})
        IN IF body(l).kind # "object" \/ below = {} THEN 0
           ELSE CHOOSE d \in below : \A e \in below : e <= d
  IN depth[Root]

-----------------------------------------------------------------------------
(* Types of the variables of compile_value, LowerCtx and the call stack.   *)
TypeOK ==
  /\ doc \in Doc
  /\ anchors \in [Name -> Loc \cup {NoLoc}]
  /\ unwalked \in Seq(Loc)
  /\ pc \in {"collect_anchors", "lower_schema", "lower_local_ref", "return",
             "unwind", "done"}
  /\ at \in Loc
  /\ stack \in Seq(Frame)
  /\ visiting \in Seq(Ref)
  /\ node_count \in Nat
  /\ nodes \in Nat
  /\ outcome \in {"running", "ok"} \cup Errors

(* How long `visiting' is once the first i calls of s are under way.       *)
DepthIn(s, i) ==
  IF i = 0 THEN 0 ELSE s[i].depth + (IF s[i].ref # NoRef THEN 1 ELSE 0)

(* v lists the refs that the calls of s are lowering, outermost first.     *)
ListsOpenRefs(v, s) ==
  /\ Len(v) = DepthIn(s, Len(s))
  /\ \A i \in 1 .. Len(s) :
       /\ s[i].depth = DepthIn(s, i - 1)
       /\ s[i].ref # NoRef => s[i].depth < Len(v) /\ v[s[i].depth + 1] = s[i].ref

(* LowerCtx.visiting is exactly the list of refs being lowered, on every   *)
(* path in and out of lower_local_ref, the error path included.            *)
VisitingIsOpenRefs == ListsOpenRefs(visiting, stack)

(* The guards of lower_local_ref at work: no ref is being lowered inside   *)
(* its own lowering, and `$ref's nest at most MAX_DEPTH deep.              *)
NoRefInsideItself ==
  /\ \A i, j \in 1 .. Len(visiting) : visiting[i] = visiting[j] => i = j
  /\ Len(visiting) <= MaxDepth

(* The list that the guards read is right, and so are the guards.          *)
VisitingExact == VisitingIsOpenRefs /\ NoRefInsideItself

(* collect_anchors: once it has returned Ok, every name leads to the one   *)
(* position that carries it, wherever in the document that is; and it      *)
(* reports DuplicateAnchor only for a name carried twice.                  *)
AnchorsExact ==
  /\ pc \in {"lower_schema", "lower_local_ref", "return"}
       => \A n \in Name : Anchored(n) = {anchors[n]} \ {NoLoc}
  /\ outcome = "DuplicateAnchor" => HasDuplicateAnchor

(* What an outcome says of the document.                                   *)
Justified ==
  CASE outcome = "ok" ->
         /\ ~HasDuplicateAnchor /\ ~Cyclic
         /\ \A l \in Needed : ~Unsound(l)
         /\ RefDepth <= MaxDepth /\ Calls <= MaxNodes
         /\ node_count = Calls
    [] outcome = "DuplicateAnchor" -> HasDuplicateAnchor
    [] outcome = "CyclicRef" -> Cyclic
    [] outcome = "DepthExceeded" -> Cyclic \/ RefDepth > MaxDepth
    [] outcome = "NodeLimitExceeded" -> Cyclic \/ Calls > MaxNodes
    [] outcome \in {"InvalidSchemaKind", "UnsupportedKeyword", "UnresolvedRef"} ->
         \E l \in Needed : Unsound(l)
    [] OTHER -> FALSE

(* The verdict of compile_value against the document's meaning.  It is Ok  *)
(* exactly for a document whose needed part is finite, closed and within   *)
(* both limits, whichever anchors and pointers alias one another and in    *)
(* whatever order they are met; every error has its reason.                *)
VerdictExact == pc = "done" => Justified

(* The budget bounds memory: whatever the document, the IR built so far    *)
(* has at most two nodes per counted lower_schema call, and calls stop one *)
(* past the limit.                                                         *)
IRBounded ==
  /\ nodes <= 2 * node_count
  /\ node_count <= MaxNodes + 1
=============================================================================
