------------------------------- MODULE MCCli -------------------------------
(* Two schemas, a directory that may be missing, and seven texts that       *)
(* differ in what the library answers about them.                          *)
EXTENDS Cli

CONSTANTS
  Plain,   (* a schema, and an instance of it; an OpenAPI document as well *)
  Narrow,  (* a schema that refuses more, and Plain too                    *)
  Mixed,   (* one that no Rust type is generated for, nor a validator      *)
  Cyclic,  (* one whose $ref leads to itself                               *)
  Broken,  (* neither JSON nor YAML                                        *)
  Binary   (* not UTF-8                                                    *)

MCSource == {Plain, Narrow, Mixed, Cyclic, Broken, Binary, Empty}
MCPath == {"a.json", "b.yaml", "v/a.json"}
MCDir == {".", "v"}
MCdir == [p \in MCPath |-> IF p = "v/a.json" THEN "v" ELSE "."]
MCext == [p \in MCPath |-> IF p = "b.yaml" THEN "yaml" ELSE "json"]
MCVendored == {<<"a.json", "v/a.json">>, <<"a.json", "a.json">>, <<"b.yaml", "b.yaml">>}

Schemas == {Plain, Narrow, Mixed}
MCutf8(t) == t # Binary
MCcompiled(e, t) ==
  CASE t \in Schemas -> "ok"
    [] t = Cyclic -> "CyclicRef"
    [] t = Empty -> IF e = "yaml" THEN "InvalidSchemaKind" ELSE "JsonParse"
    [] OTHER -> IF e = "yaml" THEN "YamlParse" ELSE "JsonParse"
MCgenerated(t) == t # Mixed
MCopenapi(e, t) == t = Plain
MCjson(t) == t \in Schemas \cup {Cyclic}
MCbuilt(t) == t # Mixed
(* A validation that is aborted has an error.                              *)
MCoutput_of(s, i) ==
  [errors |-> IF s = i \/ s = Plain THEN 0 ELSE 1, aborted |-> s = Cyclic /\ i # Cyclic]
MCbreaks(a, b) == b = Narrow /\ a # Narrow
MCsize(t) == IF t \in Schemas THEN 120 ELSE IF t = Empty THEN 0 ELSE 15
=============================================================================
