----------------------------- MODULE Documents ------------------------------
(***************************************************************************)
(* Schema documents as the construction of a Validator looks at them.      *)
(***************************************************************************)
EXTENDS Naturals, Sequences

CONSTANTS
  Key,       (* normalized URIs; RootKey is ""                             *)
  RootKey,
  Pattern,   (* regular expressions in `pattern' and `patternProperties'   *)
  Compiles,  (* those that Regex::new accepts                              *)
  Name,      (* `$anchor' names                                            *)
  NoName,
  Docs,      (* the documents a caller may pass                            *)
  NoDoc, NoObject,
  Refs       (* the references that are followed                           *)

(* Where a fragment leads: to a position (JSON Pointer) or to an anchor.   *)
Place == [position : Nat \ {0}] \cup [anchor : Name]

NoRef == [to |-> "nothing"]

(* A fragment-only reference, and one whose URI resolves to a key.         *)
Ref == [to : {"here"}, place : Place] \cup [to : {"key"}, key : Key, place : Place]

(* `patterns' are an object's `pattern' and its `patternProperties' keys.  *)
Object == [unsupported : BOOLEAN, patterns : Seq(Pattern), anchor : Name \cup {NoName},
           ref : Ref \cup {NoRef}]

(* The schema objects of a document.  The first `walked' are those that    *)
(* for_each_schema_child leads to, in its order; a pointer also leads to   *)
(* objects elsewhere, in keywords that are not known to hold schemas.      *)
Doc == [objects : Seq(Object), walked : Nat]

ASSUME DocumentsAssumption ==
  /\ RootKey \in Key
  /\ Compiles \subseteq Pattern
  /\ NoName \notin Name
  /\ Docs \subseteq {d \in Doc : d.walked \in 1 .. Len(d.objects)}
  /\ NoDoc \notin Doc
  /\ NoObject \notin Object
  /\ Refs \subseteq Ref

IsPosition(place) == "position" \in DOMAIN place

PatternsOf(o) == {o.patterns[i] : i \in 1 .. Len(o.patterns)}
=============================================================================
