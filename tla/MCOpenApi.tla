----------------------------- MODULE MCOpenApi ------------------------------
(***************************************************************************)
(* The frontend on the documents of MCDocuments.  TLC keeps the value of a *)
(* definition, but not of one that stands for a constant.                  *)
(***************************************************************************)
EXTENDS MCDocuments, OpenApi

MCJson == Everything
MCDepth == Heights

(* What the theorems about the documents suppose of them.                  *)
ASSUME DocumentsWritten == Documents30(MCJson) /\ Documents20(MCJson)

MCStarts == {<<"2.0", "2.0">>, <<"3.0.3", "3.0">>, <<"3.1.0", "3.1">>, <<"3.10.0", "3.1">>, <<"3.2.0", "3.2">>}

MCSplit == ("/a" :> <<"", "a">>) @@ ("/a/" :> <<"", "a", "">>) @@ ("b/c" :> <<"b", "c">>)
             @@ ("application/json" :> <<"application", "json">>) @@ ("text/x" :> <<"text", "x">>)

MCTrim == ("/a" :> "a") @@ ("/a/" :> "a")
=============================================================================
