------------------------------ MODULE Registry ------------------------------
(***************************************************************************)
(* Construction of a Validator (crates/schemaforge-jsonschema/src/lib.rs): *)
(* Validator::new, add_schema in any sequence, failed calls included, and  *)
(* the lookups of resolve_ref that evaluations make in between.            *)
(*                                                                         *)
(* Three walks check a document.  add_schema makes them in another order   *)
(* than new and merges patterns into the validator while it does.          *)
(***************************************************************************)
EXTENDS Documents

CONSTANTS
  Id,        (* URIs as a caller writes them                               *)
  NoBase,    (* ValidationOptions::base_uri when it is empty               *)
  normalize  (* normalize_uri                                              *)

ASSUME RegistryAssumption ==
  /\ NoBase \notin Id
  /\ normalize \in [Id -> Key]

VARIABLES
  schema,          (* Validator.schema; NoDoc before there is a validator  *)
  registry,        (* Validator.registry; NoDoc where there is no entry    *)
  anchors_by_doc,  (* Validator.anchors_by_doc, likewise                   *)
  patterns,        (* the keys of Validator.patterns                       *)
  answer,          (* what resolve_ref last returned                       *)
  result           (* what the last call of new or add_schema returned     *)

vars == <<schema, registry, anchors_by_doc, patterns, answer, result>>

Results == {"none", "ok", "UnsupportedKeyword", "DuplicateAnchor", "InvalidKeyword"}

NoAnchors == [n \in Name |-> NoObject]

(***************************************************************************)
(* The three walks.                                                        *)
(***************************************************************************)
check_for_unsupported_keywords(d) == \A i \in 1 .. d.walked : ~d.objects[i].unsupported

(* An anchor's entry is a clone of its object.                             *)
collect_anchors(d) ==
  [n \in Name |->
     IF \E i \in 1 .. d.walked : d.objects[i].anchor = n
     THEN d.objects[CHOOSE i \in 1 .. d.walked : d.objects[i].anchor = n] ELSE NoObject]

DuplicateAnchor(d) ==
  \E i, j \in 1 .. d.walked :
    i # j /\ d.objects[i].anchor = d.objects[j].anchor /\ d.objects[i].anchor # NoName

(* The j-th pattern of the i-th object comes before the l-th of the k-th.  *)
Before(i, j, k, l) == i < k \/ (i = k /\ j < l)

AllCompile(d) == \A i \in 1 .. d.walked : PatternsOf(d.objects[i]) \subseteq Compiles

(* Mutant of collect_patterns: a pattern that does not compile is kept.    *)
collect_patternsUnchecked(d) == UNION {PatternsOf(d.objects[i]) : i \in 1 .. d.walked}

(* The patterns that are in the map when the walk ends: those before the   *)
(* first one that does not compile.                                        *)
collect_patterns(d) ==
  {p \in Pattern :
     \E i \in 1 .. d.walked : \E j \in 1 .. Len(d.objects[i].patterns) :
       /\ d.objects[i].patterns[j] = p
       /\ p \in Compiles
       /\ \A k \in 1 .. d.walked : \A l \in 1 .. Len(d.objects[k].patterns) :
            Before(k, l, i, j) => d.objects[k].patterns[l] \in Compiles}

-----------------------------------------------------------------------------
Init ==
  /\ schema = NoDoc
  /\ registry = [k \in Key |-> NoDoc]
  /\ anchors_by_doc = [k \in Key |-> NoAnchors]
  /\ patterns = {}
  /\ answer = NoObject
  /\ result = "none"

(***************************************************************************)
(* Validator::new: a failed call leaves no validator.                      *)
(***************************************************************************)
NewError(d) ==
  CASE ~check_for_unsupported_keywords(d) -> "UnsupportedKeyword"
    [] check_for_unsupported_keywords(d) /\ DuplicateAnchor(d) -> "DuplicateAnchor"
    [] OTHER -> IF AllCompile(d) THEN "ok" ELSE "InvalidKeyword"

NewFails(d) ==
  /\ schema = NoDoc
  /\ NewError(d) # "ok"
  /\ result' = NewError(d)
  /\ UNCHANGED <<schema, registry, anchors_by_doc, patterns, answer>>

New(d, base_uri) ==
  /\ schema = NoDoc
  /\ NewError(d) = "ok"
  /\ LET keys == IF base_uri = NoBase THEN {} ELSE {normalize[base_uri]}
     IN /\ registry' = [k \in Key |-> IF k \in keys THEN d ELSE NoDoc]
        /\ anchors_by_doc' = [k \in Key |-> IF k \in keys \cup {RootKey}
                                            THEN collect_anchors(d) ELSE NoAnchors]
  /\ schema' = d
  /\ patterns' = collect_patterns(d)
  /\ result' = "ok"
  /\ UNCHANGED answer

(***************************************************************************)
(* Validator::add_schema.                                                  *)
(***************************************************************************)
AddUnsupported(d) ==
  /\ schema # NoDoc
  /\ ~check_for_unsupported_keywords(d)
  /\ result' = "UnsupportedKeyword"
  /\ UNCHANGED <<schema, registry, anchors_by_doc, patterns, answer>>

(* The patterns that were walked before the error stay in the validator.   *)
AddFails(d) ==
  /\ schema # NoDoc
  /\ check_for_unsupported_keywords(d)
  /\ ~AllCompile(d) \/ DuplicateAnchor(d)
  /\ patterns' = patterns \cup collect_patterns(d)
  /\ result' = IF AllCompile(d) THEN "DuplicateAnchor" ELSE "InvalidKeyword"
  /\ UNCHANGED <<schema, registry, anchors_by_doc, answer>>

(* Mutants of AddSchema: the patterns of earlier documents are dropped;    *)
(* an entry that is there already keeps its anchors.                       *)
AddSchemaOwnPatterns(d, id) ==
  /\ schema # NoDoc
  /\ check_for_unsupported_keywords(d) /\ AllCompile(d) /\ ~DuplicateAnchor(d)
  /\ patterns' = collect_patterns(d)
  /\ anchors_by_doc' = [anchors_by_doc EXCEPT ![normalize[id]] = collect_anchors(d)]
  /\ registry' = [registry EXCEPT ![normalize[id]] = d]
  /\ result' = "ok"
  /\ UNCHANGED <<schema, answer>>

AddSchemaKeepsAnchors(d, id) ==
  /\ schema # NoDoc
  /\ check_for_unsupported_keywords(d) /\ AllCompile(d) /\ ~DuplicateAnchor(d)
  /\ patterns' = patterns \cup collect_patterns(d)
  /\ anchors_by_doc' = IF registry[normalize[id]] # NoDoc THEN anchors_by_doc
                       ELSE [anchors_by_doc EXCEPT ![normalize[id]] = collect_anchors(d)]
  /\ registry' = [registry EXCEPT ![normalize[id]] = d]
  /\ result' = "ok"
  /\ UNCHANGED <<schema, answer>>

AddSchema(d, id) ==
  /\ schema # NoDoc
  /\ check_for_unsupported_keywords(d) /\ AllCompile(d) /\ ~DuplicateAnchor(d)
  /\ patterns' = patterns \cup collect_patterns(d)
  /\ anchors_by_doc' = [anchors_by_doc EXCEPT ![normalize[id]] = collect_anchors(d)]
  /\ registry' = [registry EXCEPT ![normalize[id]] = d]
  /\ result' = "ok"
  /\ UNCHANGED <<schema, answer>>

(***************************************************************************)
(* resolve_ref, under any effective base URI: the key is already resolved. *)
(***************************************************************************)
Pointed(d, position) ==
  IF position <= Len(d.objects) THEN d.objects[position] ELSE NoObject

(* Mutant of resolve_ref: an unknown anchor is looked up in the root too.  *)
resolve_refOrRoot(ref) ==
  IF IsPosition(ref.place)
  THEN LET d == IF ref.to = "here" THEN schema ELSE registry[ref.key]
       IN IF d = NoDoc THEN NoObject ELSE Pointed(d, ref.place.position)
  ELSE IF ref.to = "here" \/ anchors_by_doc[ref.key][ref.place.anchor] = NoObject
       THEN anchors_by_doc[RootKey][ref.place.anchor]
       ELSE anchors_by_doc[ref.key][ref.place.anchor]

resolve_ref(ref) ==
  IF ref.to = "here"
  THEN IF IsPosition(ref.place) THEN Pointed(schema, ref.place.position)
       ELSE anchors_by_doc[RootKey][ref.place.anchor]
  ELSE IF registry[ref.key] = NoDoc THEN NoObject
       ELSE IF IsPosition(ref.place) THEN Pointed(registry[ref.key], ref.place.position)
            ELSE anchors_by_doc[ref.key][ref.place.anchor]

ResolveRef(ref) ==
  /\ schema # NoDoc
  /\ answer' = resolve_ref(ref)
  /\ UNCHANGED <<schema, registry, anchors_by_doc, patterns, result>>

Next ==
  \/ \E d \in Docs :
       \/ NewFails(d) \/ AddUnsupported(d) \/ AddFails(d)
       \/ \E base_uri \in Id \cup {NoBase} : New(d, base_uri)
       \/ \E id \in Id : AddSchema(d, id)
  \/ \E ref \in Refs : ResolveRef(ref)

Spec == Init /\ [][Next]_vars
-----------------------------------------------------------------------------
(* Types of a Validator's fields; its pattern cache holds compiled regular *)
(* expressions only.                                                       *)
TypeOK ==
  /\ schema \in Docs \cup {NoDoc}
  /\ registry \in [Key -> Docs \cup {NoDoc}]
  /\ anchors_by_doc \in [Key -> [Name -> Object \cup {NoObject}]]
  /\ patterns \subseteq Compiles
  /\ answer \in Object \cup {NoObject}
  /\ result \in Results

(* registry and anchors_by_doc stay in step: after any sequence of calls,  *)
(* failed ones and replacements of a document included, the anchors under  *)
(* a key are those of the document under it.                               *)
AnchorsInStep ==
  \A k \in Key :
    registry[k] # NoDoc => anchors_by_doc[k] = collect_anchors(registry[k])

(* Every pattern the walks found in a document that is in use is compiled, *)
(* whatever was added, replaced or refused since.                          *)
PatternsCompiled ==
  \A d \in {schema} \cup {registry[k] : k \in Key} :
    d # NoDoc => \A i \in 1 .. d.walked : PatternsOf(d.objects[i]) \subseteq patterns

(* What validate will look up for a document in use is there.              *)
TablesExact == AnchorsInStep /\ PatternsCompiled

(* new and add_schema accept or refuse a document as a whole, and every    *)
(* reference is answered from the document it names.                       *)
Promise == INSTANCE Library WITH root <- schema, docs <- registry
KeepsPromise == Promise!Spec
=============================================================================
