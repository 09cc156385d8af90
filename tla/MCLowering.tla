----------------------------- MODULE MCLowering -----------------------------
(***************************************************************************)
(* Lowering on every small document of three shapes: a branch, a chain and *)
(* a fan whose last branch sits under a `definitions' shadowed by `$defs'. *)
(***************************************************************************)
EXTENDS Lowering

MCLoc == 1 .. 4
MCRoot == 1
MCNoLoc == 0
MCName == {"a"}

Plain == [kind |-> "object", unsupported |-> FALSE, ref |-> NoRef, siblings |-> FALSE]
Boolean == [Plain EXCEPT !.kind = "boolean"]
Number == [Plain EXCEPT !.kind = "other"]
Unsupported == [Plain EXCEPT !.unsupported = TRUE]

To(form, to, siblings) ==
  [Plain EXCEPT !.ref = [form |-> form, to |-> to], !.siblings = siblings]

External == To("external", NoLoc, FALSE)
Pointers == {To("pointer", l, s) : l \in Loc \cup {NoLoc}, s \in BOOLEAN}
Anchors == {To("anchor", n, s) : n \in Name, s \in BOOLEAN}

Shapes == {
  [kids |-> <<<<2, 3>>, <<>>, <<4>>, <<>>>>, walk |-> <<<<2, 3>>, <<>>, <<4>>, <<>>>>],
  [kids |-> <<<<2>>, <<3>>, <<4>>, <<>>>>, walk |-> <<<<2>>, <<3>>, <<4>>, <<>>>>],
  [kids |-> <<<<2, 3>>, <<>>, <<>>, <<>>>>, walk |-> <<<<2, 3, 4>>, <<>>, <<>>, <<>>>>]}

Bodies ==
  {Plain, To("pointer", 3, TRUE)}
    \X ({Plain, External} \cup Pointers \cup Anchors)
    \X ({Plain, Unsupported} \cup Pointers \cup Anchors)
    \X {Plain, Boolean, Number, To("pointer", 2, FALSE), To("anchor", "a", TRUE)}

AnchorSets == {{}, {2}, {3}, {4}, {2, 4}}

MCDocs ==
  {[body |-> b, kids |-> s.kids, walk |-> s.walk,
    anchor |-> [l \in Loc |-> IF l \in A THEN "a" ELSE NoName]] :
      b \in Bodies, s \in Shapes, A \in AnchorSets}
=============================================================================
