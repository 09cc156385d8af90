------------------------------ MODULE JsonTree ------------------------------
(***************************************************************************)
(* JSON documents, what LimitingResolver measures of them (limit.rs) and   *)
(* where a fragment leads (fragment.rs).  A document is a sequence of      *)
(* nodes; node 1 is its root and the parts of a node stand after it.  A    *)
(* key is a sequence of tokens, like a segment of a URI, and a text is one *)
(* of characters; a token counts for one byte.                             *)
(***************************************************************************)
EXTENDS Uri, SchemaKeywords

CONSTANTS
  Quote,    (* a character that JSON writes with a backslash               *)
  Control   (* a control character without a short escape                  *)

Literals == [null |-> <<"n", "u", "l", "l">>, true |-> <<"t", "r", "u", "e">>,
             false |-> <<"f", "a", "l", "s", "e">>]

(* A node's parts stand after it, an object has a key for each, and Quote  *)
(* stands for all that JSON writes with a backslash, that one included.    *)
Kinds == DOMAIN Literals \cup {"number", "string", "array", "object"}

IsDocument(doc) ==
  /\ doc # <<>>
  /\ doc \in Seq([kind : Kinds, text : Seq(STRING), keys : Seq(Seq(STRING)), parts : Seq(Nat)])
  /\ \A i \in DOMAIN doc :
       /\ doc[i].parts \in Seq(i + 1 .. Len(doc))
       /\ doc[i].kind \notin {"array", "object"} => doc[i].parts = <<>>
       /\ Len(doc[i].keys) = IF doc[i].kind = "object" THEN Len(doc[i].parts) ELSE 0
       /\ \A text \in {doc[i].text} \cup ToSet(doc[i].keys) : "\\" \notin ToSet(text)

(* The part of object i under a key, none or one.                          *)
Member(doc, i, key) ==
  IF doc[i].kind # "object" THEN <<>>
  ELSE LET k == SelectInSeq(doc[i].keys, LAMBDA other : other = key)
       IN IF k = 0 THEN <<>> ELSE <<doc[i].parts[k]>>

(* The part of array i at an index, none or one.                           *)
Element(doc, i, index) ==
  LET places == {p \in 1 .. Len(doc[i].parts) : <<ToString(p - 1)>> = index}
  IN IF places = {} THEN <<>> ELSE <<doc[i].parts[Min(places)]>>

(* The parts in the order in which for_each_schema_child visits them.      *)
SchemaChildren(doc, i) ==
  LET under(keywords, parts(_)) ==
        FlattenSeq([k \in 1 .. Len(keywords) |->
                      LET v == Member(doc, i, <<keywords[k]>>)
                      IN IF v = <<>> THEN <<>> ELSE parts(v[1])])
      partsOf(kind, v) == IF doc[v].kind = kind THEN doc[v].parts ELSE <<>>
  IN under(SCHEMA_SINGLE_KEYWORDS, LAMBDA v : <<v>>)
       \o under(SCHEMA_ARRAY_KEYWORDS, LAMBDA v : partsOf("array", v))
       \o under(SCHEMA_MAP_KEYWORDS, LAMBDA v : partsOf("object", v))

IsAnchor(doc, i, name) ==
  LET v == Member(doc, i, <<"$anchor">>)
  IN v # <<>> /\ doc[v[1]].kind = "string" /\ doc[v[1]].text = name

(* Mutant of find_anchor_in_value: every object is looked at.              *)
find_in_any_object(doc, name) ==
  LET found == {i \in DOMAIN doc : IsAnchor(doc, i, name)}
  IN IF found = {} THEN 0 ELSE Min(found)

(* The first object in schema position with the anchor; 0 without one.     *)
find_anchor_in_value(doc, name) ==
  LET find[i \in DOMAIN doc] ==
        IF doc[i].kind # "object" THEN 0
        ELSE IF IsAnchor(doc, i, name) THEN i
        ELSE LET children == SchemaChildren(doc, i)
                 k == SelectInSeq(children, LAMBDA child : find[child] # 0)
             IN IF k = 0 THEN 0 ELSE find[children[k]]
  IN find[1]

(* serde_json: the member or the element that each token names in turn; 0  *)
(* when there is none.                                                     *)
Under(doc, i, token) ==
  IF i = 0 THEN 0
  ELSE LET v == IF doc[i].kind = "array" THEN Element(doc, i, token) ELSE Member(doc, i, token)
       IN IF v = <<>> THEN 0 ELSE v[1]

pointer(doc, tokens) ==
  LET at[n \in 0 .. Len(tokens)] == IF n = 0 THEN 1 ELSE Under(doc, at[n - 1], tokens[n])
  IN at[Len(tokens)]

(* The node a fragment leads to; 0 is NotFound.                            *)
apply(doc, fragment) ==
  CASE fragment = <<>> -> 1
    [] IsPrefix(<<"/">>, fragment) -> pointer(doc, Tail(Segments(fragment)))
    [] OTHER -> find_anchor_in_value(doc, fragment)

-----------------------------------------------------------------------------
Escapes(text) == Cardinality({i \in 1 .. Len(text) : text[i] \in {Quote, Control}})

(* Mutant of json_string_byte_size: escapes are not counted.               *)
unescaped_byte_size(text) == 2 + Len(text)

json_string_byte_size(text) == 2 + Len(text) + Escapes(text)

Total(sizes) ==
  LET upto[n \in 0 .. Len(sizes)] == IF n = 0 THEN 0 ELSE upto[n - 1] + sizes[n]
  IN upto[Len(sizes)]

json_size_and_depth(doc, root) ==
  LET measure[i \in DOMAIN doc] ==
        LET node  == doc[i]
            inner == [p \in 1 .. Len(node.parts) |-> measure[node.parts[p]]]
        IN CASE node.kind \in DOMAIN Literals -> [size |-> Len(Literals[node.kind]), depth |-> 1]
             [] node.kind = "number" -> [size |-> Len(node.text), depth |-> 1]
             [] node.kind = "string" -> [size |-> json_string_byte_size(node.text), depth |-> 1]
             [] OTHER ->
                  [size |-> 2 + Max({Len(inner), 1}) - 1
                              + Total([p \in 1 .. Len(node.keys) |->
                                         json_string_byte_size(node.keys[p]) + 1])
                              + Total([p \in 1 .. Len(node.parts) |-> inner[p].size]),
                   depth |-> Max({0} \cup {inner[p].depth : p \in 1 .. Len(node.parts)}) + 1]
  IN measure[root]
=============================================================================
