----------------------------- MODULE MCEmission -----------------------------
(***************************************************************************)
(* Emission on documents with two defs, two nested objects and their       *)
(* leaves, with keys whose names run into one another.                     *)
(***************************************************************************)
EXTENDS Emission

CONSTANTS Foo, Bar, Digit

(* Names such as RootFoo_1 arise by numbering, from the key "1", and by    *)
(* concatenation; fooBar and foo_bar have the same names.                  *)
MCTypeName ==
  [root |-> <<Root>>, foo |-> <<Foo>>, bar |-> <<Bar>>, fooBar |-> <<Foo, Bar>>,
   foo_bar |-> <<Foo, Bar>>, one |-> <<1>>, rootFoo |-> <<Root, Foo>>,
   fooError |-> <<Foo, ValidationError>>, foo_bar_1 |-> <<Foo, Bar, Digit>>]
MCFieldName == [MCTypeName EXCEPT !.foo_bar_1 = <<Foo, Bar, 1>>]
MCKey == DOMAIN MCTypeName
MCNode == 1..7

Leaf ==
  [props |-> <<>>, never |-> FALSE, object |-> FALSE, union |-> FALSE, tier |-> "Nominal",
   contradictory |-> FALSE]

Prop(k, n) == [key |-> k, node |-> n]

(* Objects with the given properties, and what else such a node can be.    *)
Struct(ps) == [Leaf EXCEPT !.props = ps, !.object = TRUE]
Others(ps) ==
  {[Struct(ps) EXCEPT !.never = TRUE],
   [Struct(ps) EXCEPT !.object = FALSE, !.union = TRUE, !.tier = "Dynamic"],
   [Struct(ps) EXCEPT !.object = FALSE, !.union = TRUE, !.tier = "Structural"]}

Plain ==
  {Leaf, [Leaf EXCEPT !.tier = "Dynamic", !.object = TRUE], [Leaf EXCEPT !.tier = "Unsupported"],
   [Leaf EXCEPT !.tier = "Structural"], [Leaf EXCEPT !.contradictory = TRUE]}

(* The root has two properties, nodes 4 and 5 with leaves below them, and  *)
(* the def 3 may refer to an object as well.                               *)
Wide ==
  {[root |-> 1, defs |-> <<Prop(d, 2), Prop(e, 3)>>,
    node |-> <<Struct(<<Prop(k, 4), Prop(l, 5)>>), a, Struct(<<Prop("foo", 6)>>),
               b, Struct(<<Prop("foo_bar_1", 6), Prop("fooBar", 6), Prop("foo_bar", 7)>>)>> \o <<Leaf, Leaf>>] :
     d \in {"root", "rootFoo"}, e \in {"root", "foo_bar_1"},
     k \in {"foo", "fooBar", "one"}, l \in {"foo_bar", "fooError"}, a \in Plain,
     b \in {Struct(<<Prop("one", 6)>>), Leaf} \cup Others(<<Prop("foo", 6)>>)}

(* An object in an object in the root, and one in a def.                   *)
Deep ==
  {[root |-> 1, defs |-> <<Prop(d, 2), Prop(e, 3)>>,
    node |-> <<r, Struct(<<Prop(l, 5)>>), Leaf, Struct(<<Prop(l, 5), Prop("bar", 6)>>),
               Struct(<<Prop("foo", 3)>>), Struct(<<Prop("foo", 7)>>), Leaf>>] :
     d \in {"root", "rootFoo", "foo"}, e \in {"root", "rootFoo", "fooBar"},
     l \in {"bar", "one", "foo"},
     r \in {Struct(<<Prop(k, 4)>>) : k \in {"foo", "fooBar", "one"}}
            \cup {[Struct(<<Prop("foo", 4)>>) EXCEPT !.contradictory = TRUE]}}

MCDocuments == Wide \cup Deep
=============================================================================
