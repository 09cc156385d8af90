---------------------------- MODULE MCEvaluation ----------------------------
(***************************************************************************)
(* Evaluation on a root document with two sub-schemas and an added         *)
(* document with one, against an array of two members.  The added document *)
(* is stored under "e" or "ie", which the relative reference "e" reaches   *)
(* from the base "r" or, under the `$id' "i", from the base "i".           *)
(***************************************************************************)
EXTENDS Evaluation

MCSchema == {"root", "a", "b", "ext", "inner"}
MCValue == {"array", "x", "y"}
MCUri == {"", "r", "e", "i", "ie"}
MCRelative == {"e", "i"}
MCFragment == {"", "/a", "name"}
MCAnchor == {"name"}

K(name, schemas) ==
  [name |-> name, uri |-> NoRelative, fragment |-> "", schemas |-> schemas,
   about |-> IF name = "contains" THEN {"array"} ELSE Value, min |-> 1, max |-> 1]
(* dependentSchemas, for a property that only v has.                       *)
Dependent(v, schemas) == [K("allOf", schemas) EXCEPT !.about = {v}]
Ref(uri, fragment) == [K("ref", <<>>) EXCEPT !.uri = uri, !.fragment = fragment]
Local(fragment) == Ref(NoRelative, fragment)

Object(id, keywords, accepts) ==
  [kind |-> "object", id |-> id, keywords |-> keywords, accepts |-> accepts]
Plain(keywords) == Object(NoRelative, keywords, Value)
Only(accepts) == Object(NoRelative, <<>>, accepts)
True == [Plain(<<>>) EXCEPT !.kind = "true"]
False == [True EXCEPT !.kind = "false"]
Other == [True EXCEPT !.kind = "other"]

RootBodies ==
  {Plain(<<K(name, <<"a", "b">>)>>) : name \in {"allOf", "anyOf", "oneOf"}}
    \cup {Plain(<<K(name, <<"a">>)>>) : name \in {"not", "each", "contains"}}
    \cup {Plain(<<K("if", <<"a", "b", NoSchema>>)>>), Plain(<<K("if", <<"a", NoSchema, "b">>)>>)}
    \cup {Plain(<<Ref("e", ""), K("not", <<"a">>)>>),
          Plain(<<Ref("e", "name"), K("anyOf", <<"b", "a">>)>>),
          Object("i", <<K("oneOf", <<"a", "b">>), K("contains", <<"b">>)>>, Value),
          Object("i", <<K("allOf", <<"a">>), K("not", <<"b">>)>>, {"array"})}

SubBodies ==
  {True, False, Only({"x"}), Plain(<<Local("")>>), Plain(<<Local("name")>>),
   Plain(<<Ref("e", "")>>), Object("i", <<Ref("e", "name")>>, Value), Plain(<<K("not", <<"b">>)>>),
   Plain(<<K("contains", <<"b">>), Dependent("x", <<"b">>)>>)}

LastBodies == {True, Other, Only({"array", "y"}), Plain(<<Ref("e", "name")>>), Plain(<<Local("/a")>>)}

ExtBodies ==
  {Plain(<<Local("name"), K("each", <<"inner">>)>>),
   Object("i", <<K("anyOf", <<"inner", "inner">>)>>, Value)}

InnerBodies == {Only({"x", "y"}), Plain(<<Ref("e", "")>>), Plain(<<Local("name")>>)}

Resolve == [u \in Uri |-> [r \in Relative |->
  IF r = "i" THEN "i" ELSE IF u \in {"i", "ie"} THEN "ie" ELSE "e"]]

Nowhere == [f \in Fragment |-> NoSchema]
RootTable(named) == [Nowhere EXCEPT ![""] = "root", !["/a"] = "a", !["name"] = named]
ExtTable == [Nowhere EXCEPT ![""] = "ext", !["name"] = "inner"]

Registry(key, named) ==
  [u \in Uri |-> IF u \in {"", "r"} THEN RootTable(named) ELSE IF u = key THEN ExtTable ELSE Nowhere]

MCTasks ==
  {[root |-> "root",
    body |-> [s \in Schema |-> CASE s = "root" -> bodies[1] [] s = "a" -> bodies[2]
                                 [] s = "b" -> bodies[3] [] s = "ext" -> bodies[4]
                                 [] s = "inner" -> bodies[5]],
    target |-> Registry(key, IF key = "e" THEN "b" ELSE NoSchema),
    owner |-> [s \in Schema |-> IF s \in {"ext", "inner"} THEN key ELSE ""],
    resolve |-> Resolve, base |-> "r", instance |-> "array",
    parts |-> [v \in Value |-> IF v = "array" THEN <<"x", "y">> ELSE <<>>]] :
      bodies \in RootBodies \X SubBodies \X LastBodies \X ExtBodies \X InnerBodies,
      key \in {"e", "ie"}}
=============================================================================
