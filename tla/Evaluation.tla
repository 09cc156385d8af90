----------------------------- MODULE Evaluation -----------------------------
(***************************************************************************)
(* One call of Validator::validate (crates/schemaforge-jsonschema): the    *)
(* mutual recursion of validate_schema, validate_object_schema, apply_ref  *)
(* and the applicators, with the two interior-mutable cells they share,    *)
(* `depth' and `effective_base_uri'.                                       *)
(*                                                                         *)
(* A task is a built validator and an instance.  A schema object keeps its *)
(* `$id', the applicator keywords in the order applicator::apply runs      *)
(* them, and the values that its own assertions (validation::apply) accept *)
(* and that fail for no key of patternProperties without a compiled        *)
(* pattern, which fails every object wherever it stands in the order.      *)
(* The applicators that merge whatever their sub-schemas answer on parts   *)
(* of the instance (properties, patternProperties, additionalProperties,   *)
(* propertyNames, items, prefixItems) are the keyword "each"; allOf and    *)
(* dependentSchemas, which pass the instance on, are "allOf".              *)
(***************************************************************************)
EXTENDS Naturals, Sequences, FiniteSets

CONSTANTS
  Schema,    (* schema positions of the root and of the added documents    *)
  NoSchema,  (* a reference that resolves to nothing                       *)
  Value,     (* instance values: the instance and its parts                *)
  Uri,       (* registry keys; NoUri is "", the root document's key        *)
  NoUri,
  Relative,  (* URI references found in `$id' and `$ref'                   *)
  NoRelative,
  Fragment,  (* fragments: "", JSON Pointers and anchor names              *)
  Anchor,    (* the fragments that are anchor names                        *)
  Tasks,
  MaxDepth   (* MAX_DEPTH                                                  *)

KeywordName == {"ref", "allOf", "anyOf", "oneOf", "not", "if", "each", "contains"}

(* A local `$ref' has no URI part.  `schemas' are the sub-schemas (for     *)
(* "if" the condition, then, else); min and max bound "contains".  A       *)
(* keyword passes over a value that it is not about: "contains" and the    *)
(* "each" of items one that is no array, that of properties one that is no *)
(* object, the "allOf" of dependentSchemas one without the property.       *)
Keyword ==
  {k \in [name : KeywordName, uri : Relative \cup {NoRelative}, fragment : Fragment,
          schemas : Seq(Schema \cup {NoSchema}), about : SUBSET Value, min : Nat, max : Nat] :
     /\ k.name = "if" => Len(k.schemas) = 3 /\ k.schemas[1] \in Schema
     /\ k.name # "if" => k.schemas \in Seq(Schema)
     /\ k.name \in {"not", "each", "contains"} => k.schemas # <<>>
     /\ k.name \notin {"allOf", "each", "contains"} => k.about = Value}

Body == [kind : {"true", "false", "object", "other"}, id : Relative \cup {NoRelative},
         keywords : Seq(Keyword), accepts : SUBSET Value]

(* `target' is the registry with the anchor tables: what a fragment leads  *)
(* to in the document stored under a key, NoUri being the root document;   *)
(* `owner' is the key of the document that holds a schema position.        *)
(* `resolve' is resolve_uri with normalize_uri; `parts' the instance tree. *)
Task == [root : Schema, body : [Schema -> Body],
         target : [Uri -> [Fragment -> Schema \cup {NoSchema}]],
         owner : [Schema -> Uri],
         resolve : [Uri -> [Relative -> Uri]], base : Uri,
         instance : Value, parts : [Value -> Seq(Value)]]

ASSUME EvaluationAssumption ==
  /\ NoSchema \notin Schema
  /\ NoRelative \notin Relative
  /\ NoUri \in Uri
  /\ Anchor \subseteq Fragment
  /\ Tasks \subseteq Task
  /\ MaxDepth \in Nat

VARIABLES
  task,                (* what is evaluated; never changes                 *)
  pc,                  (* "call", "apply", "return" or "done"              *)
  arg,                 (* validate_schema's schema and instance            *)
  answer,              (* the ValidationOutput being returned              *)
  stack,               (* open validate_object_schema calls                *)
  depth,               (* ValidationContext.depth                          *)
  effective_base_uri,  (* ValidationContext.effective_base_uri             *)
  tainted              (* history: some validate_schema or $ref aborted    *)

vars == <<task, pc, arg, answer, stack, depth, effective_base_uri, tainted>>

(* A ValidationOutput: no errors; errors; aborted (which has an error).    *)
Output == {"valid", "failed", "aborted"}

merge(a, b) ==
  IF "aborted" \in {a, b} THEN "aborted" ELSE IF "failed" \in {a, b} THEN "failed" ELSE "valid"

Call == [schema : Schema, value : Value]

(* An open validate_object_schema: `keywords' starts with the one being    *)
(* applied, `calls' are the sub-evaluations it has still to make, `count'  *)
(* its matches so far.  entry_depth and saved_base are the locals `depth'  *)
(* and `saved_base'; ref_base is apply_ref's own `saved_base'.             *)
Frame == [schema : Schema, value : Value, entry_depth : Nat, saved_base : Uri,
          ref_base : Uri, keywords : Seq(Keyword), calls : Seq(Call), count : Nat,
          out : Output]

body(s) == task.body[s]

top == stack[Len(stack)]

keyword == Head(top.keywords)

Replace(f) == [stack EXCEPT ![Len(stack)] = f]

Pop == SubSeq(stack, 1, Len(stack) - 1)

(* resolve_ref: a fragment-only reference is looked up in the root         *)
(* document, any other in the document its resolved URI names.             *)
resolve_ref(k, base) ==
  task.target[IF k.uri = NoRelative THEN NoUri ELSE task.resolve[base][k.uri]][k.fragment]

(* Mutant of CallsOf: a `$ref' that leads nowhere is followed.             *)
CallsOfDangling(k, v, base) ==
  CASE k.name = "ref" -> <<[schema |-> resolve_ref(k, base), value |-> v]>>
    [] k.name \in {"not", "if"} -> <<[schema |-> k.schemas[1], value |-> v]>>
    [] k.name \in {"each", "contains"} /\ v \in k.about ->
         [i \in DOMAIN task.parts[v] |-> [schema |-> k.schemas[1], value |-> task.parts[v][i]]]
    [] k.name \in {"allOf", "anyOf", "oneOf"} /\ v \in k.about ->
         [i \in DOMAIN k.schemas |-> [schema |-> k.schemas[i], value |-> v]]
    [] OTHER -> <<>>

(* The sub-evaluations a keyword starts out with on value v.               *)
CallsOf(k, v, base) ==
  LET on(s, values) == [i \in DOMAIN values |-> [schema |-> s, value |-> values[i]]]
      target == resolve_ref(k, base)
  IN CASE k.name = "ref" -> IF target = NoSchema THEN <<>> ELSE on(target, <<v>>)
       [] k.name \in {"not", "if"} -> on(k.schemas[1], <<v>>)
       [] k.name \in {"each", "contains"} /\ v \in k.about -> on(k.schemas[1], task.parts[v])
       [] k.name \in {"allOf", "anyOf", "oneOf"} /\ v \in k.about ->
            [i \in DOMAIN k.schemas |-> [schema |-> k.schemas[i], value |-> v]]
       [] OTHER -> <<>>

(* f about to apply the keywords ks, under the base in force for its       *)
(* schema object.                                                          *)
Starting(f, ks, base) ==
  [f EXCEPT !.keywords = ks, !.count = 0,
            !.calls = IF ks = <<>> THEN <<>> ELSE CallsOf(Head(ks), f.value, base)]

NextKeyword(f, out, base) ==
  Starting([f EXCEPT !.out = merge(f.out, out)], Tail(f.keywords), base)

-----------------------------------------------------------------------------
(* Validator::validate.                                                    *)
Init ==
  /\ task \in Tasks
  /\ pc = "call"
  /\ arg = [schema |-> task.root, value |-> task.instance]
  /\ answer = "valid"
  /\ stack = <<>>
  /\ depth = 0
  /\ effective_base_uri = task.base
  /\ tainted = FALSE

(* validate_schema answers.                                                *)
Return(out) ==
  /\ pc' = "return"
  /\ answer' = out

(***************************************************************************)
(* validate_schema.                                                        *)
(***************************************************************************)
TooDeep ==
  /\ pc = "call"
  /\ depth >= MaxDepth
  /\ Return("aborted")
  /\ tainted' = TRUE
  /\ UNCHANGED <<task, arg, stack, depth, effective_base_uri>>

NotAnObject ==
  /\ pc = "call"
  /\ depth < MaxDepth
  /\ body(arg.schema).kind # "object"
  /\ Return(IF body(arg.schema).kind = "true" THEN "valid" ELSE "failed")
  /\ UNCHANGED <<task, arg, stack, depth, effective_base_uri, tainted>>

EnterObject ==
  /\ pc = "call"
  /\ depth < MaxDepth
  /\ body(arg.schema).kind = "object"
  /\ depth' = depth + 1
  /\ LET b == body(arg.schema)
         base == IF b.id = NoRelative THEN effective_base_uri
                 ELSE task.resolve[effective_base_uri][b.id]
         f == [schema |-> arg.schema, value |-> arg.value, entry_depth |-> depth,
               saved_base |-> effective_base_uri, ref_base |-> base, keywords |-> <<>>,
               calls |-> <<>>, count |-> 0, out |-> "valid"]
     IN /\ effective_base_uri' = base
        /\ stack' = Append(stack, Starting(f, b.keywords, base))
  /\ pc' = "apply"
  /\ UNCHANGED <<task, arg, answer, tainted>>

(* All applicators ran: validation::apply, then both cells are restored.   *)
LeaveObject ==
  /\ pc = "apply"
  /\ top.keywords = <<>>
  /\ Return(merge(top.out, IF top.value \in body(top.schema).accepts THEN "valid" ELSE "failed"))
  /\ effective_base_uri' = top.saved_base
  /\ depth' = top.entry_depth
  /\ stack' = Pop
  /\ UNCHANGED <<task, arg, tainted>>

(***************************************************************************)
(* The keyword being applied makes its next sub-evaluation.  apply_ref     *)
(* moves the base URI to the document an external reference leads to.      *)
(***************************************************************************)
Descend ==
  /\ pc = "apply"
  /\ top.keywords # <<>> /\ top.calls # <<>>
  /\ arg' = Head(top.calls)
  /\ pc' = "call"
  /\ stack' = Replace([top EXCEPT !.calls = Tail(@), !.ref_base = effective_base_uri])
  /\ effective_base_uri' =
       IF keyword.name = "ref" /\ keyword.uri # NoRelative
       THEN task.resolve[effective_base_uri][keyword.uri] ELSE effective_base_uri
  /\ UNCHANGED <<task, answer, depth, tainted>>

(* Mutant of UnresolvedRef: it is tried again instead of given up.         *)
UnresolvedRefRetried ==
  /\ pc = "apply"
  /\ top.keywords # <<>> /\ keyword.name = "ref" /\ top.calls = <<>>
  /\ stack' = Replace([top EXCEPT !.out = "aborted"])
  /\ tainted' = TRUE
  /\ UNCHANGED <<task, pc, arg, answer, depth, effective_base_uri>>

(* apply_ref finds no target: the output aborts.                           *)
UnresolvedRef ==
  /\ pc = "apply"
  /\ top.keywords # <<>> /\ keyword.name = "ref" /\ top.calls = <<>>
  /\ stack' = Replace(NextKeyword(top, "aborted", effective_base_uri))
  /\ tainted' = TRUE
  /\ UNCHANGED <<task, pc, arg, answer, depth, effective_base_uri>>

(* Mutant of Verdict: contains fails a value that is no array.             *)
VerdictOfNoArray(k, v, count) ==
  IF \/ k.name = "anyOf" /\ count = 0
     \/ k.name = "oneOf" /\ count # 1
     \/ k.name = "contains" /\ ~(k.min <= count /\ count <= k.max)
  THEN "failed" ELSE "valid"

(* The loop of a counting or merging keyword is over.                      *)
Verdict(k, v, count) ==
  IF \/ k.name = "anyOf" /\ count = 0
     \/ k.name = "oneOf" /\ count # 1
     \/ k.name = "contains" /\ v \in k.about /\ ~(k.min <= count /\ count <= k.max)
  THEN "failed" ELSE "valid"

EndOfLoop ==
  /\ pc = "apply"
  /\ top.keywords # <<>> /\ keyword.name # "ref" /\ top.calls = <<>>
  /\ stack' = Replace(NextKeyword(top, Verdict(keyword, top.value, top.count), effective_base_uri))
  /\ UNCHANGED <<task, pc, arg, answer, depth, effective_base_uri, tainted>>

(***************************************************************************)
(* A sub-evaluation has answered the keyword that asked for it.            *)
(***************************************************************************)
Answered(names) ==
  /\ pc = "return"
  /\ stack # <<>> /\ keyword.name \in names
  /\ pc' = "apply"
  /\ UNCHANGED <<task, arg, answer, depth, tainted>>

(* Mutant of RefAnswered: the base URI stays at the other document.        *)
RefAnsweredInOtherDocument ==
  /\ Answered({"ref"})
  /\ stack' = Replace(NextKeyword(top, answer, effective_base_uri))
  /\ UNCHANGED effective_base_uri

RefAnswered ==
  /\ Answered({"ref"})
  /\ effective_base_uri' = IF keyword.uri = NoRelative THEN effective_base_uri ELSE top.ref_base
  /\ stack' = Replace(NextKeyword(top, answer, effective_base_uri'))

MergeAnswered ==
  /\ Answered({"allOf", "each"})
  /\ stack' = Replace([top EXCEPT !.out = merge(@, answer)])
  /\ UNCHANGED effective_base_uri

(* anyOf, oneOf and contains count the matches, and give up on an abort.   *)
CountAnswered ==
  /\ Answered({"anyOf", "oneOf", "contains"})
  /\ stack' = Replace(IF answer = "aborted" THEN NextKeyword(top, "aborted", effective_base_uri)
                      ELSE [top EXCEPT !.count = @ + (IF answer = "valid" THEN 1 ELSE 0)])
  /\ UNCHANGED effective_base_uri

(* Mutant of NotAnswered: whatever is not valid is inverted.               *)
NotAnsweredInvertsAbort ==
  /\ Answered({"not"})
  /\ stack' = Replace(NextKeyword(top, IF answer = "valid" THEN "failed" ELSE "valid",
                                  effective_base_uri))
  /\ UNCHANGED effective_base_uri

NotAnswered ==
  /\ Answered({"not"})
  /\ stack' = Replace(NextKeyword(top,
       CASE answer = "aborted" -> "aborted"
         [] answer = "valid" -> "failed"
         [] answer = "failed" -> "valid", effective_base_uri))
  /\ UNCHANGED effective_base_uri

(* count tells the condition's answer (0) from the chosen branch's (1).    *)
IfAnswered ==
  /\ Answered({"if"})
  /\ LET branch == keyword.schemas[IF answer = "valid" THEN 2 ELSE 3]
     IN stack' = Replace(
          IF top.count = 1 \/ answer = "aborted" THEN NextKeyword(top, answer, effective_base_uri)
          ELSE IF branch = NoSchema THEN NextKeyword(top, "valid", effective_base_uri)
          ELSE [top EXCEPT !.count = 1,
                           !.calls = <<[schema |-> branch, value |-> top.value]>>])
  /\ UNCHANGED effective_base_uri

Validated ==
  /\ pc = "return"
  /\ stack = <<>>
  /\ pc' = "done"
  /\ UNCHANGED <<task, arg, answer, stack, depth, effective_base_uri, tainted>>

Done == pc = "done" /\ UNCHANGED vars

Next ==
  \/ TooDeep \/ NotAnObject \/ EnterObject \/ LeaveObject
  \/ Descend \/ UnresolvedRef \/ EndOfLoop
  \/ RefAnswered \/ MergeAnswered \/ CountAnswered \/ NotAnswered \/ IfAnswered
  \/ Validated \/ Done

(* A single thread runs the call to its end: it is never left unscheduled. *)
Spec == Init /\ [][Next]_vars /\ WF_vars(Next)
-----------------------------------------------------------------------------
(***************************************************************************)
(* What a validation ought to answer, stated on the task alone: schemas    *)
(* evaluated as a function of nesting depth, instance and base URI, with   *)
(* no cell to save or restore and no order between sub-schemas.            *)
(***************************************************************************)
Merged(outs) ==
  IF "aborted" \in outs THEN "aborted" ELSE IF "failed" \in outs THEN "failed" ELSE "valid"

(* An answer that counts the sub-evaluations outs, unless one aborted.     *)
Counted(outs, accepted) ==
  IF \E i \in DOMAIN outs : outs[i] = "aborted" THEN "aborted"
  ELSE IF Cardinality({i \in DOMAIN outs : outs[i] = "valid"}) \in accepted THEN "valid"
  ELSE "failed"

(* What keyword k of a schema object says of v in task t, under the base   *)
(* URI of that object; deeper[s][w][u] is what schema s says of w under u. *)
KeywordMeaning(t, deeper, k, v, base) ==
  LET branches == [i \in DOMAIN k.schemas |-> deeper[k.schemas[i]][v][base]]
      members == [i \in DOMAIN t.parts[v] |-> deeper[k.schemas[1]][t.parts[v][i]][base]]
      local == k.uri = NoRelative
      referenced == t.target[IF local THEN NoUri ELSE t.resolve[base][k.uri]][k.fragment]
      condition == deeper[k.schemas[1]][v][base]
      chosen == k.schemas[IF condition = "valid" THEN 2 ELSE 3]
  IN IF v \notin k.about THEN "valid" ELSE
     CASE k.name = "allOf" -> Merged({branches[i] : i \in DOMAIN branches})
       [] k.name = "each" -> Merged({members[i] : i \in DOMAIN members})
       [] k.name = "anyOf" -> Counted(branches, Nat \ {0})
       [] k.name = "oneOf" -> Counted(branches, {1})
       [] k.name = "not" -> Counted(<<condition>>, {0})
       [] k.name = "contains" -> Counted(members, k.min .. k.max)
       [] k.name = "ref" ->
            IF referenced = NoSchema THEN "aborted"
            ELSE deeper[referenced][v][IF local THEN base ELSE t.resolve[base][k.uri]]
       [] k.name = "if" ->
            IF condition = "aborted" THEN "aborted"
            ELSE IF chosen = NoSchema THEN "valid" ELSE deeper[chosen][v][base]

SchemaMeaning(t, deeper, s, v, u) ==
  LET b == t.body[s]
      base == IF b.id = NoRelative THEN u ELSE t.resolve[u][b.id]
  IN CASE b.kind = "true" -> "valid"
       [] b.kind \in {"false", "other"} -> "failed"
       [] b.kind = "object" ->
            Merged({KeywordMeaning(t, deeper, b.keywords[i], v, base) : i \in DOMAIN b.keywords}
                     \cup {IF v \in b.accepts THEN "valid" ELSE "failed"})

(* Meanings(t)[n][s][v][u]: what schema s says of v under u when n more     *)
(* calls may be nested.                                                    *)
Meanings(t) ==
  LET eval[n \in 0 .. MaxDepth] ==
        [s \in Schema |-> [v \in Value |-> [u \in Uri |->
           IF n = 0 THEN "aborted" ELSE SchemaMeaning(t, eval[n - 1], s, v, u)]]]
  IN eval

Meaning(t) == Meanings(t)[MaxDepth][t.root][t.instance][t.base]

-----------------------------------------------------------------------------
(* Types of the evaluation's arguments, frames and cells.                  *)
TypeOK ==
  /\ task \in Task
  /\ pc \in {"call", "apply", "return", "done"}
  /\ arg \in Call
  /\ answer \in Output
  /\ stack \in Seq(Frame)
  /\ depth \in Nat
  /\ effective_base_uri \in Uri
  /\ tainted \in BOOLEAN

(* The base URI inside frame f: its schema's own, and that under which the *)
(* sub-evaluation it is waiting for runs.                                  *)
OwnBase(f) ==
  IF body(f.schema).id = NoRelative THEN f.saved_base
  ELSE task.resolve[f.saved_base][body(f.schema).id]

LeavesDocument(f) ==
  f.keywords # <<>> /\ Head(f.keywords).name = "ref" /\ Head(f.keywords).uri # NoRelative

BaseBelow(f) ==
  IF LeavesDocument(f) THEN task.resolve[OwnBase(f)][Head(f.keywords).uri] ELSE OwnBase(f)

BaseUnder(i) == IF i = 0 THEN task.base ELSE BaseBelow(stack[i])

(* The two cells of ValidationContext mean what their comments say on      *)
(* every path, early returns and aborts included: `depth' is the nesting   *)
(* of open calls and `effective_base_uri' the base of the nearest          *)
(* enclosing schema or followed reference, however many `$id's and         *)
(* `$ref's were entered and left before.                                   *)
EnvironmentRestored ==
  /\ depth = Len(stack)
  /\ \A i \in 1 .. Len(stack) :
       stack[i].entry_depth = i - 1 /\ stack[i].saved_base = BaseUnder(i - 1)
  /\ effective_base_uri =
       IF pc = "apply" THEN OwnBase(stack[Len(stack)]) ELSE BaseUnder(Len(stack))

(* The answer of validate is the meaning of the schema, although the       *)
(* applicators give up at different points and share mutable cells.        *)
VerdictMatchesReference == pc = "done" => answer = Meaning(task)

(* ValidationOutput.aborted: "An aborted output is never valid", and `not' *)
(* and `if' "must not invert" it: once an evaluation aborted, wherever it  *)
(* is nested, the call under way or the final answer stays aborted.        *)
AbortNeverLost ==
  tainted =>
    \/ pc \in {"return", "done"} /\ answer = "aborted"
    \/ \E i \in 1 .. Len(stack) : stack[i].out = "aborted"

(* MAX_DEPTH ends every evaluation, of cyclic `$ref's too.                 *)
Termination == <>(pc = "done")

(* What add_schema documents: "anchors are always looked up against the    *)
(* document that owns the `$ref`".                                         *)
AnchorsOfOwnDocument ==
  LET f == stack[Len(stack)]
      k == Head(f.keywords)
  IN (/\ pc = "apply" /\ f.keywords # <<>>
      /\ k.name = "ref" /\ k.uri = NoRelative /\ k.fragment \in Anchor)
       => resolve_ref(k, effective_base_uri) = task.target[task.owner[f.schema]][k.fragment]
=============================================================================
