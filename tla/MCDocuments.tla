----------------------------- MODULE MCDocuments ------------------------------
(***************************************************************************)
(* Documents for the frontend, of every version: each with one schema out  *)
(* of all combinations of a few values of related keywords, and Swagger    *)
(* operations with up to three parameters; and all the values in these.    *)
(***************************************************************************)
EXTENDS Adaptation

MCLength == [a |-> 1, ab |-> 2]
MCCompiled == {"^a$"}
MCMatches == {<<"^a$", "a">>}
MCRefused == {<<"date", "a">>}

One == Integer(1)
Texts(seq) == Array([i \in DOMAIN seq |-> Text(seq[i])])

MCValues ==
  {Null, Boolean(TRUE), Integer(0), One, Integer(2), Double(2), Double(3), Text("a"), Text("ab"),
   Array(<<>>), Array(<<One, One>>), Array(<<Null, Text("a")>>), Object(NoMembers),
   Object("p" :> One), Object("p" :> Null @@ "q" :> Text("a"))}

(* One of the values of a keyword, or none.                                *)
Opt(key, vs) == {NoMembers} \cup {key :> v : v \in vs}
Both(S, T) == {s @@ t : s \in S, t \in T}

Nullable == Opt("nullable", {Boolean(TRUE), Boolean(FALSE)})

TypeNames ==
  Opt("type", {Text("integer"), Text("string"), Texts(<<"number", "null">>), Texts(<<"unknown", "object">>)})

Lower == Both(Opt("minimum", {One}), Opt("exclusiveMinimum", {Boolean(TRUE), Boolean(FALSE), Integer(0), Double(3)}))
Upper == Both(Opt("maximum", {One}), Opt("exclusiveMaximum", {Boolean(TRUE), Boolean(FALSE), Double(3)}))

Numeric == Both(Both(Lower, Upper), Opt("multipleOf", {Double(3), Integer(-1)}))

Named == Both(Opt("enum", {Array(<<>>), Array(<<One, Null>>), Array(<<Text("a"), Double(2)>>)}),
              Opt("const", {One, Null}))

(* No schema that is nullable has both enum and const.                     *)
Listed ==
  {s \in Both(Both(TypeNames, Nullable), Named) :
     IsTrue(s, "nullable") => {"enum", "const"} \cap DOMAIN s # {"enum", "const"}}

Sized ==
  Both(Both(Opt("minLength", {Integer(2), Double(4), Integer(-1)}), Opt("maxLength", {One})),
       Both(Opt("pattern", {Text("^a$"), Text("(")}), Opt("format", {Text("date"), Text("other")})))
    \cup Both(Both(Opt("minItems", {One}), Opt("maxItems", {Integer(0), Text("1")})),
              Opt("uniqueItems", {Boolean(TRUE), Boolean(FALSE)}))
    \cup Both(Both(Opt("minProperties", {Integer(2)}), Opt("maxProperties", {One})),
              Both(Opt("required", {Array(<<Text("q"), One>>), Text("q")}),
                   Opt("dependentRequired", {Object("p" :> Texts(<<"q">>)), Object("p" :> Text("q"))})))
    \cup {"type" :> One}

Parts ==
  {Object(s) : s \in Both(Opt("type", {Text("integer")}),
                          Both(Opt("nullable", {Boolean(TRUE)}),
                               Both(Opt("minimum", {One}), Opt("exclusiveMinimum", {Boolean(TRUE)}))))}
    \cup {Boolean(FALSE), Boolean(TRUE)}

Nested ==
  UNION {{"properties" :> Object("p" :> part), "items" :> part, "not" :> part,
          "allOf" :> Array(<<part, Object("not" :> Object("allOf" :> Array(<<part>>)))>>),
          "anyOf" :> Array(<<Object("type" :> Text("string")), part>>),
          "default" :> part @@ "nullable" :> Boolean(TRUE)} : part \in Parts}

Schemas == {Object(s) : s \in Both(Nullable, Numeric) \cup Listed \cup Sized \cup Nested}

Document(key, text, members) == Object(key :> Text(text) @@ members)

Components(schemas) == "components" :> Object("schemas" :> Object(schemas))

WithSchema ==
  {Document("openapi", "3.0.3", Components("A" :> s)) : s \in Schemas}
    \cup {Document("openapi", "3.1.0", Components("A" :> Object(s))) : s \in Lower \cup Listed}
    \cup {Document("swagger", "2.0", "definitions" :> Object("A" :> Object(s))) : s \in Lower \cup Nested}

Parameter == {Object("in" :> Text("query")), Object("in" :> Text("body")), Text("body"),
              Object("in" :> Text("body") @@ "schema" :> Object("nullable" :> Boolean(TRUE) @@ "type" :> Text("integer"))),
              Object("in" :> Text("body") @@ "schema" :> Boolean(TRUE))}

Lists == {<<>>} \cup {<<p>> : p \in Parameter} \cup {<<p, q>> : p, q \in Parameter}
           \cup {<<Object("in" :> Text("query")), p, q>> : p, q \in Parameter}

Response == "responses" :> Object("200" :> Object("content" :> Object(
              "text/x" :> Object("schema" :> Object("minimum" :> One)) @@ "application/json" :> Object(NoMembers))))

Operated(list) == Object("parameters" :> Array(list) @@ Response)

WithPaths ==
  {Document("swagger", "2.0",
     "paths" :> Object("/a" :> Object("get" :> Operated(list) @@ "parameters" :> Array(list))
                         @@ "/a/" :> Object("get" :> Operated(<<Object("in" :> Text("body") @@ "schema" :> Boolean(FALSE))>>)))) :
     list \in Lists}

Two == "A" :> Object("type" :> Text("string")) @@ "b/c" :> Boolean(TRUE)

Shapes ==
  {Document("swagger", "2.0", members) :
     members \in Both(Opt("definitions", {Object(Two), Array(<<>>)}),
                      Opt("components", {Object("schemas" :> Object("B" :> Boolean(TRUE))),
                                         Object("schemas" :> Null), Text("none")}))}
    \cup {Document(key, text, Components(Two)) :
            key \in {"swagger", "openapi"}, text \in {"2.0", "3.0.3", "3.10.0", "3.2.0", "4"}}
    \cup {Object(Components(Two)), Object("openapi" :> One), Object("swagger" :> One @@ "openapi" :> Text("3.2.0"))}

MCDocs == WithSchema \cup WithPaths \cup Shapes

(***************************************************************************)
(* The values in these, and what becomes of them.                          *)
(***************************************************************************)
(* What is n levels down in one of these.                                  *)
Down(values, n) ==
  LET level[i \in 0 .. n] ==
        IF i = 0 THEN values ELSE UNION {Inside(v) : v \in level[i - 1]}
  IN level[n]

(* No document has twelve levels.                                          *)
Whole(values) == UNION {Down(values, n) : n \in 0 .. 12}

(* These and what adapting one of them gives.                              *)
WithAdapted(parsed) ==
  LET adapted[v \in parsed] ==
        IF Is(v, "obj") THEN Object(adapt_children(adapt_keywords(v.obj), adapted)) ELSE v
  IN parsed \cup Whole({adapted[v] : v \in parsed} \ parsed)

Everything == UNION {WithAdapted(parsed) : parsed \in {Whole(MCDocs \cup MCValues)}}

Heights == [v \in Everything |-> Cardinality({n \in 1 .. 12 : Down({v}, n) # {}})]
=============================================================================
