----------------------------- MODULE MCAnalysis -----------------------------
(***************************************************************************)
(* Analysis on forests of a root and two parts, and values of every class. *)
(***************************************************************************)
EXTENDS Analysis

MCclass ==
  [null |-> "null", true |-> "boolean", one |-> "i64", big |-> "u64", wholeOne |-> "whole",
   half |-> "fraction", s |-> "string", empty |-> "array", listOne |-> "array",
   none |-> "object", hasS |-> "object"]
MCValue == DOMAIN MCclass
MCinside ==
  [v \in MCValue |-> CASE v = "listOne" -> "one" [] v = "hasS" -> "s" [] OTHER -> NoValue]

Plain ==
  [type |-> Absent, enum |-> Absent, const |-> Absent, allOf |-> <<>>, anyOf |-> <<>>, oneOf |-> <<>>,
   not |-> Absent, property |-> Absent, required |-> FALSE, items |-> Absent, narrowed |-> FALSE]

TypeNames ==
  {Absent, {}, {"null"}, {"string"}, {"integer"}, {"number"}, {"string", "null"}, {"unknown"},
   {"object"}, {"integer", "string"}}

Narrowings ==
  {Plain, [Plain EXCEPT !.enum = {}], [Plain EXCEPT !.enum = {"one", "s"}],
   [Plain EXCEPT !.enum = {"one", "half", "null"}], [Plain EXCEPT !.enum = {"big", "wholeOne", "half"}],
   [Plain EXCEPT !.const = "wholeOne"], [Plain EXCEPT !.const = "one"],
   [Plain EXCEPT !.const = "s"], [Plain EXCEPT !.required = TRUE], [Plain EXCEPT !.narrowed = TRUE]}

Leaves ==
  {[Plain EXCEPT !.type = ts] : ts \in TypeNames}
    \cup {[b EXCEPT !.type = ts] : b \in Narrowings, ts \in {Absent, {"number"}, {"integer", "null"}}}

(* Second nodes that have the third as a part themselves.                  *)
Nested ==
  {[Plain EXCEPT !.allOf = <<3, 3>>, !.type = ts] : ts \in {Absent, {"number"}, {"string"}}}
    \cup {[Plain EXCEPT !.anyOf = <<3>>, !.type = {"integer"}], [Plain EXCEPT !.property = 3]}

Roots ==
  {[Plain EXCEPT !.allOf = <<2, 3>>], [Plain EXCEPT !.anyOf = <<2, 3>>],
   [Plain EXCEPT !.oneOf = <<2, 3>>, !.type = {"number", "string"}],
   [Plain EXCEPT !.anyOf = <<2>>, !.oneOf = <<3>>],
   [Plain EXCEPT !.allOf = <<2>>, !.not = 3, !.enum = {"one", "s", "none"}],
   [Plain EXCEPT !.property = 2, !.items = 3, !.required = TRUE],
   [Plain EXCEPT !.type = {"object"}, !.property = 2, !.anyOf = <<3>>]}

MCPairs ==
  {[schema |-> <<r, a, b>>, old |-> 2, new |-> 3] : r \in Roots, a \in Leaves \cup Nested, b \in Leaves}
=============================================================================
