--------------------------- MODULE SchemaKeywords ---------------------------
(***************************************************************************)
(* The keywords that hold schemas (schema_children.rs), as every walk over *)
(* a document takes them: a single schema, a list, or a map from names.    *)
(***************************************************************************)
SCHEMA_SINGLE_KEYWORDS ==
  <<"additionalProperties", "contains", "contentSchema", "else", "if", "items", "not",
    "propertyNames", "then", "unevaluatedItems", "unevaluatedProperties">>
SCHEMA_ARRAY_KEYWORDS == <<"allOf", "anyOf", "oneOf", "prefixItems">>
SCHEMA_MAP_KEYWORDS ==
  <<"$defs", "definitions", "dependentSchemas", "patternProperties", "properties">>
=============================================================================
