------------------------------ MODULE OpenApi -------------------------------
(***************************************************************************)
(* The OpenAPI frontend (crates/schemaforge-openapi): version detection,   *)
(* the conversion of Swagger 2.0 documents, the adaptation of OpenAPI 3.0  *)
(* schemas to JSON Schema 2020-12, and the extraction of schemas.          *)
(***************************************************************************)
EXTENDS Adaptation

CONSTANTS
  Json,    (* values: what is parsed, adapted or compared                  *)
  depth,   (* of each of them, greater than that of what is inside it      *)
  Values,  (* the instances that schemas are compared on                   *)
  Docs,    (* documents that from_json or from_yaml parsed                 *)
  starts,  (* <<text, prefix>> where the text starts with the prefix       *)
  split,   (* the tokens of a key that has a slash or tilde, in a pointer  *)
  trim,    (* a path without its outer slashes                             *)
  Pending  (* not extracted yet                                            *)

VARIABLES
  input,        (* the document as parsed                                  *)
  version,      (* detected, or the error; Pending before                  *)
  raw,          (* the document after normalisation                        *)
  diagnostics,
  components,   (* component_schemas: a SchemaEntry for each name          *)
  paths         (* path_schemas: a set of SchemaEntry                      *)

openapi_vars == <<input, version, raw, diagnostics, components, paths>>

Versions == {"2.0", "3.0", "3.1", "3.2"}

Errors == {"MissingField", "UnsupportedVersion"}

(* The keys that pointers are written with.                                *)
PointerKeys == {"components", "schemas", "paths", "requestBody", "responses", "content", "schema"}

ASSUME OpenApiAssumption ==
  /\ \A doc \in Docs : "obj" \in DOMAIN doc
  /\ Pending \notin Versions \cup Errors
  /\ PointerKeys \cap DOMAIN split = {}
  /\ \A key \in DOMAIN split : split[key] \in Seq(STRING)

-----------------------------------------------------------------------------
Variants == {"bool", "int", "half", "str", "arr", "obj"}

(* Value::get.                                                             *)
Member(opt, key) == IF opt # <<>> /\ Is(opt[1], "obj") THEN Get(opt[1].obj, key) ELSE <<>>

(* Value::get with one key after the other; none unless all are there.     *)
At(v, keys) ==
  LET at[i \in 0 .. Len(keys)] == IF i = 0 THEN <<v>> ELSE Member(at[i - 1], keys[i])
  IN at[Len(keys)]

(* The members of an object, none of anything else.                        *)
Fields(opt) == IF opt # <<>> /\ Is(opt[1], "obj") THEN opt[1].obj ELSE NoMembers

(* The first of these prefixes that a version has.                         *)
FirstPrefix(text, prefixes) ==
  LET k == SelectInSeq(prefixes, LAMBDA p : <<text, p>> \in starts)
  IN IF k = 0 THEN "UnsupportedVersion" ELSE prefixes[k]

detect_version(doc) ==
  IF Has(doc.obj, "swagger", "str") THEN FirstPrefix(doc.obj["swagger"].str, <<"2.0">>)
  ELSE IF Has(doc.obj, "openapi", "str")
       THEN FirstPrefix(doc.obj["openapi"].str, <<"3.2", "3.1", "3.0">>)
  ELSE "MissingField"

-----------------------------------------------------------------------------
(***************************************************************************)
(* Swagger 2.0.                                                            *)
(***************************************************************************)
(* Mutant of lift_definitions: schemas that are there stay.                *)
lift_definitionsMissing(obj) ==
  IF "definitions" \notin DOMAIN obj THEN obj
  ELSE LET rest == Without(obj, "definitions")
           comp == IF "components" \in DOMAIN rest THEN rest["components"] ELSE Object(NoMembers)
       IN Put(rest, "components",
              IF Is(comp, "obj") /\ "schemas" \notin DOMAIN comp.obj
              THEN Object(Put(comp.obj, "schemas", obj["definitions"])) ELSE comp)

lift_definitions(obj) ==
  IF "definitions" \notin DOMAIN obj THEN obj
  ELSE LET rest == Without(obj, "definitions")
           comp == IF "components" \in DOMAIN rest THEN rest["components"] ELSE Object(NoMembers)
       IN Put(rest, "components",
              IF Is(comp, "obj") THEN Object(Put(comp.obj, "schemas", obj["definitions"])) ELSE comp)

is_body(p) == Member(<<p>>, "in") = <<Text("body")>>

(* Mutant of retain: each parameter's schema is taken.                     *)
retainOfAny(parameters) ==
  LET pass[i \in 0 .. Len(parameters)] ==
        IF i = 0 THEN [kept |-> <<>>, schema |-> <<>>]
        ELSE [kept |-> IF is_body(parameters[i]) THEN pass[i - 1].kept
                       ELSE Append(pass[i - 1].kept, parameters[i]),
              schema |-> Member(<<parameters[i]>>, "schema")]
  IN pass[Len(parameters)]

(* Body parameters are taken out, and the schema of the last is kept.      *)
retain(parameters) ==
  LET pass[i \in 0 .. Len(parameters)] ==
        IF i = 0 THEN [kept |-> <<>>, schema |-> <<>>]
        ELSE IF is_body(parameters[i])
        THEN [pass[i - 1] EXCEPT !.schema = Member(<<parameters[i]>>, "schema")]
        ELSE [pass[i - 1] EXCEPT !.kept = Append(@, parameters[i])]
  IN pass[Len(parameters)]

(* The parameters of an operation, if it has any.                          *)
Parameters(operation) ==
  LET parameters == Member(<<operation>>, "parameters")
  IN IF parameters # <<>> /\ Is(parameters[1], "arr") THEN <<parameters[1].arr>> ELSE <<>>

BodySchema(operation) ==
  IF Parameters(operation) = <<>> THEN <<>> ELSE retain(Parameters(operation)[1]).schema

(* An object with this member.                                             *)
Only(key, v) == Object([k \in {key} |-> v])

request_body(schema) == Only("content", Only("application/json", Only("schema", schema)))

lift_body_from_operation(operation) ==
  IF Parameters(operation) = <<>> THEN operation
  ELSE LET left == retain(Parameters(operation)[1])
           op == Put(operation.obj, "parameters", Array(left.kept))
       IN Object(IF left.schema = <<>> THEN op
                 ELSE Put(op, "requestBody", request_body(left.schema[1])))

lift_body_params_in_path(item) ==
  IF ~Is(item, "obj") THEN item
  ELSE Object([method \in DOMAIN item.obj |-> lift_body_from_operation(item.obj[method])])

lift_body_parameters(obj) ==
  IF ~Has(obj, "paths", "obj") THEN obj
  ELSE Put(obj, "paths", Object([path \in DOMAIN obj["paths"].obj |->
                                   lift_body_params_in_path(obj["paths"].obj[path])]))

(* The path items.                                                         *)
Items(doc) == Fields(Member(<<doc>>, "paths"))

(* Where there is an operation: <<path, method>>.                          *)
Operations(doc) ==
  UNION {{<<path, method>> : method \in DOMAIN Fields(<<Items(doc)[path]>>)} : path \in DOMAIN Items(doc)}

Operation(doc, o) == At(doc, <<"paths", o[1], o[2]>>)[1]

converted(doc) == Cardinality({o \in Operations(doc) : BodySchema(Operation(doc, o)) # <<>>})

normalise_swagger(doc) == Object(lift_body_parameters(lift_definitions(doc.obj)))

swagger_diagnostics(doc) ==
  <<[kind |-> "lossy", count |-> 0]>>
    \o (IF "definitions" \in DOMAIN doc.obj THEN <<[kind |-> "moved", count |-> 0]>> ELSE <<>>)
    \o (IF converted(doc) > 0 THEN <<[kind |-> "converted", count |-> converted(doc)]>> ELSE <<>>)

-----------------------------------------------------------------------------
(***************************************************************************)
(* Schemas.                                                                *)
(***************************************************************************)
adapt_oas30_schema[schema \in Json] ==
  IF Is(schema, "obj")
  THEN Object(adapt_children(adapt_keywords(schema.obj), adapt_oas30_schema)) ELSE schema

(* A value is a finite tree, of one variant at each place; adapted, it is  *)
(* one again.                                                              *)
ASSUME JsonAssumption ==
  /\ Docs \cup Values \subseteq Json
  /\ depth \in [Json -> Nat]
  /\ \A v \in Json :
       /\ v = Null \/ \E variant \in Variants : DOMAIN v = {variant}
       /\ Is(v, "arr") => v.arr \in Seq(Json)
       /\ Is(v, "obj") => DOMAIN v.obj \subseteq STRING /\ IsFiniteSet(DOMAIN v.obj)
       /\ \A w \in Inside(v) : w \in Json /\ depth[w] < depth[v]
       /\ adapt_oas30_schema[v] \in Json

adapt_schema(schema, v) == IF v \in {"3.1", "3.2"} THEN schema ELSE adapt_oas30_schema[schema]

(* The tokens of a key that is written into a pointer as it is.            *)
Tokens(key) == IF key \in DOMAIN split THEN split[key] ELSE <<key>>

Pointer(keys) == FlattenSeq([i \in DOMAIN keys |-> Tokens(keys[i])])

extract_component_schemas(doc, v) ==
  LET schemas == Fields(At(doc, <<"components", "schemas">>))
  IN [name \in DOMAIN schemas |->
        [name |-> <<name>>, schema |-> adapt_schema(schemas[name], v),
         pointer |-> Pointer(<<"components", "schemas", name>>)]]

(* The entries of the media types below these keys of an operation.        *)
collect_content(doc, v, o, keys, name) ==
  LET below == <<"paths">> \o o \o keys \o <<"content">>
      content == Fields(At(doc, below))
      media_types == {m \in DOMAIN content : Member(<<content[m]>>, "schema") # <<>>}
  IN {[name |-> Append(name, m), schema |-> adapt_schema(Member(<<content[m]>>, "schema")[1], v),
       pointer |-> Pointer(below \o <<m, "schema">>)] : m \in media_types}

collect_request_body_schemas(doc, v, o) ==
  collect_content(doc, v, o, <<"requestBody">>, <<o[2], trim[o[1]], "request">>)

collect_response_schemas(doc, v, o) ==
  UNION {collect_content(doc, v, o, <<"responses", status>>,
                         <<o[2], trim[o[1]], "response", status>>) :
         status \in DOMAIN Fields(At(doc, <<"paths">> \o o \o <<"responses">>))}

extract_path_schemas(doc, v) ==
  UNION {collect_request_body_schemas(doc, v, o) \cup collect_response_schemas(doc, v, o) :
         o \in Operations(doc)}

-----------------------------------------------------------------------------
OpenApiInit ==
  /\ input \in Docs
  /\ raw = input
  /\ version = Pending
  /\ diagnostics = <<>>
  /\ components = Pending
  /\ paths = Pending

from_value ==
  /\ version = Pending
  /\ version' = detect_version(input)
  /\ IF version' = "2.0"
     THEN raw' = normalise_swagger(raw) /\ diagnostics' = swagger_diagnostics(raw)
     ELSE UNCHANGED <<raw, diagnostics>>
  /\ UNCHANGED <<input, components, paths>>

component_schemas ==
  /\ version \in Versions /\ components = Pending
  /\ components' = extract_component_schemas(raw, version)
  /\ UNCHANGED <<input, version, raw, diagnostics, paths>>

path_schemas ==
  /\ version \in Versions /\ paths = Pending
  /\ paths' = extract_path_schemas(raw, version)
  /\ UNCHANGED <<input, version, raw, diagnostics, components>>

Extracted ==
  /\ version \in Errors \/ (version \in Versions /\ Pending \notin {components, paths})
  /\ UNCHANGED openapi_vars

OpenApiNext == from_value \/ component_schemas \/ path_schemas \/ Extracted

OpenApiSpec == OpenApiInit /\ [][OpenApiNext]_openapi_vars

-----------------------------------------------------------------------------
(***************************************************************************)
(* References.                                                             *)
(***************************************************************************)
(* How the assertions of a schema are read.                                *)
Readings == {"OpenAPI 3.0", "2020-12"}

Question == [schema : Json, value : Json, reading : Readings]

(* Whether the schema accepts the value, so read.                          *)
Accepts[q \in Question] ==
  LET s == q.schema.obj
      v == q.value
      declared == Fields(Get(s, "properties"))
      accepts(schema, value) == Accepts[[schema |-> schema, value |-> value, reading |-> q.reading]]
  IN IF ~Is(q.schema, "obj") THEN q.schema = Boolean(TRUE)
     ELSE /\ IF q.reading = "OpenAPI 3.0" THEN Means30(s, v) ELSE apply(s, v)
          /\ Has(s, "allOf", "arr") =>
               \A i \in DOMAIN s["allOf"].arr : accepts(s["allOf"].arr[i], v)
          /\ Has(s, "anyOf", "arr") =>
               \E i \in DOMAIN s["anyOf"].arr : accepts(s["anyOf"].arr[i], v)
          /\ "not" \in DOMAIN s => ~accepts(s["not"], v)
          /\ "items" \in DOMAIN s /\ Is(v, "arr") =>
               \A i \in DOMAIN v.arr : accepts(s["items"], v.arr[i])
          /\ Is(v, "obj") =>
               \A p \in DOMAIN declared \cap DOMAIN v.obj : accepts(declared[p], v.obj[p])

SameMeaning(old, new, v) ==
  \A x \in Values :
    Accepts[[schema |-> new, value |-> x, reading |-> "2020-12"]]
      = Accepts[[schema |-> old, value |-> x,
                 reading |-> IF v \in {"2.0", "3.0"} THEN "OpenAPI 3.0" ELSE "2020-12"]]

(* No keyword of OpenAPI 3.0 is left anywhere in the schema.               *)
Modern[schema \in Json] ==
  Is(schema, "obj") =>
    LET s == schema.obj
    IN /\ ~IsTrue(s, "nullable")
       /\ \A key \in {"exclusiveMinimum", "exclusiveMaximum"} : ~Has(s, key, "bool")
       /\ \A key \in DOMAIN s \cap ToSet(SCHEMA_SINGLE_KEYWORDS) : Modern[s[key]]
       /\ \A key \in DOMAIN s \cap ToSet(SCHEMA_ARRAY_KEYWORDS) :
            Is(s[key], "arr") => \A i \in DOMAIN s[key].arr : Modern[s[key].arr[i]]
       /\ \A key \in DOMAIN s \cap ToSet(SCHEMA_MAP_KEYWORDS) :
            Is(s[key], "obj") => \A k \in DOMAIN s[key].obj : Modern[s[key].obj[k]]

(* An object's keywords as OpenAPI 3.0 has them: a bound is a number, and  *)
(* a nullable schema names its types and has no const beside an enum.      *)
Regular(s) ==
  /\ \A key \in {"minimum", "maximum"} : key \in DOMAIN s => IsNumber(s[key])
  /\ IsTrue(s, "nullable") =>
       /\ "type" \in DOMAIN s => Is(s["type"], "str") \/ Is(s["type"], "arr")
       /\ Has(s, "enum", "arr") => "const" \notin DOMAIN s

(* A set of such schemas that holds those inside each.                     *)
Written30(schemas) ==
  /\ schemas \subseteq Json
  /\ \A schema \in schemas : Is(schema, "obj") =>
       LET s == schema.obj
       IN /\ Regular(s)
          /\ \A key \in DOMAIN s \cap ToSet(SCHEMA_SINGLE_KEYWORDS) : s[key] \in schemas
          /\ \A key \in DOMAIN s \cap ToSet(SCHEMA_ARRAY_KEYWORDS) :
               Is(s[key], "arr") => \A i \in DOMAIN s[key].arr : s[key].arr[i] \in schemas
          /\ \A key \in DOMAIN s \cap ToSet(SCHEMA_MAP_KEYWORDS) :
               Is(s[key], "obj") => \A k \in DOMAIN s[key].obj : s[key].obj[k] \in schemas

(* The schemas of a document as it was written, by name.                   *)
Given(doc, v) ==
  Fields(IF v = "2.0" /\ "definitions" \in DOMAIN doc.obj
         THEN Member(<<doc>>, "definitions") ELSE At(doc, <<"components", "schemas">>))

Written == Given(input, version)

(* The documents' schemas are of such a set.                               *)
Documents30(schemas) ==
  /\ Written30(schemas)
  /\ \A doc \in Docs, v \in {"2.0", "3.0"} : Range(Given(doc, v)) \subseteq schemas

(* Swagger documents whose operations have no requestBody, whose bodies'   *)
(* schemas are of the set, and whose paths no pointer confuses.            *)
Documents20(schemas) ==
  \A doc \in Docs : detect_version(doc) = "2.0" =>
    /\ \A a, b \in DOMAIN Items(doc) : Tokens(a) = Tokens(b) => a = b
    /\ \A o \in Operations(doc) :
         /\ Member(<<Operation(doc, o)>>, "requestBody") = <<>>
         /\ BodySchema(Operation(doc, o)) # <<>> => BodySchema(Operation(doc, o))[1] \in schemas

(* The body parameters of an operation of the document as it was written.  *)
BodyParameters(o) ==
  LET parameters == Parameters(Operation(input, o))
  IN IF parameters = <<>> THEN {} ELSE {p \in ToSet(parameters[1]) : is_body(p)}

-----------------------------------------------------------------------------
(* Each schema of the document is extracted under its name, wherever the   *)
(* conversion moved it to, and the entry's pointer leads to it; no other   *)
(* one is.  All are lost where `components' is no object, and only there;  *)
(* the pointer of a name with a slash or tilde, which is not escaped, may  *)
(* lead elsewhere (parse.rs:150).                                          *)
ComponentsExact ==
  LET holder == Member(<<raw>>, "components")
      kept == holder = <<>> \/ Is(holder[1], "obj")
  IN components # Pending =>
    /\ DOMAIN components = IF kept THEN DOMAIN Written ELSE {}
    /\ \A n \in DOMAIN components :
         Tokens(n) = <<n>> => At(raw, components[n].pointer) = <<Written[n]>>

(* What is extracted means to the validator, value by value, what the      *)
(* document's version means by it, and no schema in it keeps a keyword of  *)
(* OpenAPI 3.0 that 2020-12 does not know.                                 *)
AdaptExact ==
  components # Pending =>
    /\ \A n \in DOMAIN components \cap DOMAIN Written :
         SameMeaning(Written[n], components[n].schema, version)
    /\ version \in {"2.0", "3.0"} => \A n \in DOMAIN components : Modern[components[n].schema]

(* Of a Swagger operation with one body parameter the schema is extracted, *)
(* with its meaning; the other parameters stay, and as many conversions    *)
(* are reported as there are bodies with a schema.                         *)
BodiesExact ==
  version = "2.0" /\ paths # Pending =>
    LET bodies(o) == BodyParameters(o)
        schemas(o) == {Member(<<p>>, "schema") : p \in bodies(o)} \ {<<>>}
        request(o) == <<o[2], trim[o[1]], "request", "application/json">>
        single == {o \in Operations(input) : Cardinality(bodies(o)) = 1 /\ schemas(o) # {}}
    IN /\ \A o \in single : \E e \in paths :
            /\ e.name = request(o)
            /\ \A schema \in schemas(o) : SameMeaning(schema[1], e.schema, "2.0")
       /\ \A o \in Operations(input) :
            LET kept == Parameters(Operation(raw, o))
                given == Parameters(Operation(input, o))
            IN given # <<>> => kept # <<>> /\ ToSet(kept[1]) = ToSet(given[1]) \ bodies(o)
       /\ \A i \in DOMAIN diagnostics : diagnostics[i].kind = "converted" =>
            diagnostics[i].count = Cardinality({e \in paths : e.name[3] = "request"})

(* The constraints that the compiler keeps of a schema, adapted or not,    *)
(* never refuse a value that the validator accepts; and they refuse all    *)
(* that it refuses, unless by a keyword that only the validator reads.     *)
NodeExact ==
  components # Pending =>
    \A schema \in {components[n].schema : n \in DOMAIN components} \cup Range(Written) :
      Is(schema, "obj") =>
        \A v \in Values :
          /\ apply(schema.obj, v) => Allows(Node(schema.obj), v)
          /\ SameKeywords(schema.obj) /\ Allows(Node(schema.obj), v) => apply(schema.obj, v)
=============================================================================
