------------------------------- MODULE Library -------------------------------
(***************************************************************************)
(* What a Validator promises about the documents given to it: each one is  *)
(* accepted or refused as a whole, and every reference is answered from    *)
(* the document it names, as that was last accepted.                       *)
(***************************************************************************)
EXTENDS Documents

VARIABLES
  root,    (* the document the validator was built from; NoDoc before      *)
  docs,    (* the documents under keys                                     *)
  answer   (* the object the last reference led to                         *)

Walked(d) == {d.objects[i] : i \in 1 .. d.walked}

Acceptable(d) ==
  /\ \A o \in Walked(d) : ~o.unsupported /\ PatternsOf(o) \subseteq Compiles
  /\ \A i, j \in 1 .. d.walked :
       i # j /\ d.objects[i].anchor = d.objects[j].anchor => d.objects[i].anchor = NoName

(* The object a place in document d names.                                 *)
At(d, place) ==
  IF d = NoDoc THEN NoObject
  ELSE IF IsPosition(place)
       THEN IF place.position <= Len(d.objects) THEN d.objects[place.position] ELSE NoObject
       ELSE IF \E o \in Walked(d) : o.anchor = place.anchor
            THEN CHOOSE o \in Walked(d) : o.anchor = place.anchor
            ELSE NoObject

Init == root = NoDoc /\ docs = [k \in Key |-> NoDoc] /\ answer = NoObject

Build(d, keys) ==
  /\ root = NoDoc
  /\ Acceptable(d)
  /\ root' = d
  /\ docs' = [k \in Key |-> IF k \in keys THEN d ELSE NoDoc]
  /\ UNCHANGED answer

Add(d, k) ==
  /\ root # NoDoc
  /\ Acceptable(d)
  /\ docs' = [docs EXCEPT ![k] = d]
  /\ UNCHANGED <<root, answer>>

Refer(ref) ==
  /\ root # NoDoc
  /\ answer' = At(IF ref.to = "here" THEN root ELSE docs[ref.key], ref.place)
  /\ UNCHANGED <<root, docs>>

Next ==
  \/ \E d \in Docs : Build(d, {}) \/ \E k \in Key : Build(d, {k}) \/ Add(d, k)
  \/ \E ref \in Refs : Refer(ref)

Spec == Init /\ [][Next]_<<root, docs, answer>>
=============================================================================
