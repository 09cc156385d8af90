----------------------------- MODULE MCKeywords -----------------------------
(***************************************************************************)
(* The frontend and the validator's unevaluated keywords side by side, as  *)
(* in KeywordProofs.  They share no state: each goes through all of its    *)
(* inputs while the other one has the simplest.                            *)
(***************************************************************************)
EXTENDS MCOpenApi, MCUnevaluated

(* A document without a version, and a schema without references.          *)
SimpleDocument == Object("openapi" :> One)

Simple == [Plain EXCEPT !.forbids = TRUE, !.allOf = {"a", "b"}]

SimpleTask ==
  [body |-> [s \in Schema |->
               CASE s = "root" -> Simple
                 [] s = "a" -> [Plain EXCEPT !.anyOf = {"leaf"}, !.named = {2}]
                 [] OTHER -> [Plain EXCEPT !.named = {2}]],
   root |-> "root", base |-> "r", array |-> FALSE]

KeywordInit ==
  \/ task = SimpleTask /\ Init /\ OpenApiInit
  \/ input = SimpleDocument /\ Init /\ OpenApiInit

KeywordNext ==
  \/ OpenApiNext /\ UNCHANGED vars
  \/ Next /\ UNCHANGED openapi_vars

KeywordSpec == KeywordInit /\ [][KeywordNext]_<<vars, openapi_vars>>
=============================================================================
