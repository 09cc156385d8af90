------------------------------ MODULE CliProofs ------------------------------
(***************************************************************************)
(* Proofs about Cli: for any files, any answers of the library and any     *)
(* number of commands and changes by others.                               *)
(***************************************************************************)
EXTENDS Cli, TLAPS

Dos == Inspections \cup Writers \cup Pairs \cup {"lock", "vendor"}

(* The fields of a command.                                                *)
LEMMA CommandFields ==
  ASSUME NEW c \in Command
  PROVE  /\ c.do \in Dos /\ c.schema \in Path
         /\ c.other \in Path \cup {None} /\ c.output \in Path \cup {None}
         /\ c.do \in Pairs <=> c.other # None
         /\ c.do \in Pairs \cup Inspections => c.output = None
         /\ c.do = "lock" => c.output # None
<1> USE DEF Dos, Inspections, Writers, Pairs
<1>0. None \notin Path /\ Vendored \subseteq Path \X Path
  BY CliAssumption
<1>1. CASE c \in [do : Inspections, schema : Path, other : {None}, output : {None}]
  BY <1>0, <1>1
<1>2. CASE c \in [do : Writers, schema : Path, other : {None}, output : Path \cup {None}]
  BY <1>0, <1>2
<1>3. CASE c \in [do : Pairs, schema : Path, other : Path, output : {None}]
  BY <1>0, <1>3
<1>4. CASE c \in [do : {"lock"}, schema : Path, other : {None}, output : Path]
  BY <1>0, <1>4
<1>5. CASE \E v \in Vendored :
             c = [do |-> "vendor", schema |-> v[1], other |-> None, output |-> v[2]]
  <2>1. PICK v \in Vendored :
          c = [do |-> "vendor", schema |-> v[1], other |-> None, output |-> v[2]]
    BY <1>5
  <2>2. v[1] \in Path /\ v[2] \in Path
    BY <1>0
  <2> QED
    BY <1>0, <2>1, <2>2
<1>6. CASE c \in [do : {"vendor"}, schema : Path, other : {None}, output : {None}]
  BY <1>0, <1>6
<1> QED
  BY <1>1, <1>2, <1>3, <1>4, <1>5, <1>6 DEF Command

(* The errors that a handler may compute.                                  *)
LEMMA ErrorsDistinct ==
  /\ "ok" \notin Refusals /\ "running" \notin Refusals /\ "killed" \notin Refusals
  /\ "Io" \notin Refusals
  /\ {"Parse", "ValidationFailed", "Resolver", "Codegen", "Schema", "OpenApi", "Internal"}
       \subseteq Refusals
  BY DEF Refusals

Unresolved == {"UnresolvedRef", "CyclicRef", "DepthExceeded"}

(* What a compilation returns, by the compiler's answer.                   *)
LEMMA CompileText ==
  ASSUME NEW p, NEW t
  PROVE  /\ compile_text(p, t) \in {"ok", "Parse", "Resolver"}
         /\ compile_text(p, t) = "ok" <=> compiled(ext[p], t) = "ok"
         /\ compile_text(p, t) = "Resolver" <=> compiled(ext[p], t) \in Unresolved
  BY DEF compile_text, from_compile, Unresolved

(* What each handler computes from its first text.                         *)
LEMMA ComputedIs ==
  ASSUME NEW c, NEW t
  PROVE  /\ c.do \in Inspections \cup {"compatibility"} => Computed(c, t) = compile_text(c.schema, t)
         /\ c.do = "normalize" =>
              Computed(c, t) = IF openapi(ext[c.schema], t) THEN "ok" ELSE "OpenApi"
         /\ c.do = "generate" =>
              Computed(c, t) = IF compile_text(c.schema, t) # "ok" THEN compile_text(c.schema, t)
                               ELSE IF generated(t) THEN "ok" ELSE "Codegen"
         /\ c.do \in {"validate", "lock"} => Computed(c, t) = "ok"
  BY DEF Computed, cmd_inspect, cmd_benchmark, cmd_explain, cmd_normalize, cmd_generate,
           load_schema, Inspections

(* What a handler may return.                                              *)
LEMMA ComputedResults ==
  ASSUME NEW c \in Command, c.do # "vendor", NEW t
  PROVE  Computed(c, t) \in {"ok", "Parse", "Resolver", "Codegen", "OpenApi"}
  BY CompileText, ComputedIs, CommandFields DEF Dos, Writers, Pairs

LEMMA PairResults ==
  ASSUME NEW p, NEW a, NEW b
  PROVE  /\ cmd_validate(a, b) \in {"ok", "Parse", "Schema", "ValidationFailed"}
         /\ cmd_compat(p, a, b) \in {"ok", "Parse", "Resolver", "ValidationFailed"}
  BY CompileText DEF cmd_validate, report_validation, cmd_compat, load_schema

-----------------------------------------------------------------------------
(* The types.                                                              *)

LEMMA TypeStep == TypeOK /\ [Next]_vars => TypeOK'
<1> SUFFICES ASSUME TypeOK, [Next]_vars PROVE TypeOK'
  OBVIOUS
<1>0. MaxCommands \in Nat /\ MaxEdits \in Nat /\ dir \in [Path -> Dir]
  BY CliAssumption
<1>1. ASSUME NEW c \in Command, Start(c) PROVE TypeOK'
  <2>1. commands' \in 0 .. MaxCommands
    BY <1>0, <1>1 DEF Start, TypeOK
  <2>2. /\ cmd' = c /\ ended' = "running" /\ opened' = {} /\ disturbed' = {}
        /\ pc' = IF c.do = "vendor" THEN "mkdir" ELSE "read"
    BY <1>1 DEF Start
  <2>3. DOMAIN fs' = Path /\ dirs' \subseteq Dir /\ edits' \in 0 .. MaxEdits /\ DOMAIN seen' = Path
    BY <1>1 DEF Start, TypeOK
  <2> QED
    BY <2>1, <2>2, <2>3 DEF TypeOK
<1>2. CASE Fails
  BY <1>2 DEF Fails, TypeOK, history, Return, CliError
<1>3. CASE ReadSchema
  <2>1. cmd \in Command
    BY <1>3 DEF ReadSchema, TypeOK
  <2>2. CASE Computed(cmd, fs[cmd.schema]) = "ok" /\ cmd.do \in Pairs
    BY <1>3, <2>1, <2>2 DEF ReadSchema, TypeOK, history
  <2>3. CASE /\ ~(Computed(cmd, fs[cmd.schema]) = "ok" /\ cmd.do \in Pairs)
             /\ Computed(cmd, fs[cmd.schema]) = "ok" /\ cmd.output # None
    <3>1. pc' = "open" /\ UNCHANGED ended
      BY <1>3, <2>3 DEF ReadSchema
    <3> QED
      BY <1>3, <2>1, <2>3, <3>1, CommandFields DEF ReadSchema, TypeOK, history
  <2>4. CASE /\ ~(Computed(cmd, fs[cmd.schema]) = "ok" /\ cmd.do \in Pairs)
             /\ ~(Computed(cmd, fs[cmd.schema]) = "ok" /\ cmd.output # None)
    <3>1. Return(Computed(cmd, fs[cmd.schema]))
      BY <1>3, <2>4 DEF ReadSchema
    <3> QED
      <4>1. cmd.do # "vendor"
        BY <1>3 DEF ReadSchema, TypeOK
      <4>2. Computed(cmd, fs[cmd.schema]) \in CliError \cup {"ok"}
        BY <2>1, <4>1, ComputedResults DEF CliError, Refusals
      <4> QED
        BY <1>3, <3>1, <4>2 DEF ReadSchema, TypeOK, history, Return
  <2> QED
    BY <2>2, <2>3, <2>4
<1>4. CASE ReadOther
  <2> DEFINE result == IF cmd.do = "validate" THEN cmd_validate(text, fs[cmd.other])
                       ELSE cmd_compat(cmd.other, text, fs[cmd.other])
  <2>1. result \in CliError \cup {"ok"}
    BY PairResults DEF CliError, Refusals
  <2>2. Return(result)
    BY <1>4 DEF ReadOther
  <2> HIDE DEF result
  <2>3. ended' \in CliError \cup {"running", "killed", "ok"} /\ pc' = "idle"
    BY <2>1, <2>2 DEF Return
  <2> QED
    BY <1>4, <2>3 DEF ReadOther, TypeOK, history
<1>5. CASE CreateDir
  <2>1. cmd \in Command
    BY <1>5 DEF CreateDir, TypeOK
  <2>2. CASE cmd.output = None
    BY <1>5, <2>2 DEF CreateDir, TypeOK, history, Return, CliError, Refusals
  <2>3. CASE cmd.output # None
    <3>1. cmd.output \in Path /\ dir[cmd.output] \in Dir
      BY <1>0, <2>1, <2>3, CommandFields
    <3> QED
      BY <1>5, <2>1, <2>3, <3>1 DEF CreateDir, TypeOK, history
  <2> QED
    BY <2>2, <2>3
<1>6. CASE Open
  BY <1>6 DEF Open, TypeOK
<1>7. CASE Write
  BY <1>7 DEF Write, TypeOK, history, Return, CliError, Refusals
<1>8. CASE WriteFails
  BY <1>8 DEF WriteFails, TypeOK, history, Return, CliError, Refusals
<1>9. CASE Kill
  BY <1>9 DEF Kill, TypeOK, history
<1>10. ASSUME NEW p \in Path, NEW t \in Source \cup {NoFile}, Edit(p, t) PROVE TypeOK'
  <2>1. edits' \in 0 .. MaxEdits
    <3>1. edits < MaxEdits /\ edits' = edits + 1
      BY <1>10 DEF Edit
    <3>2. edits \in 0 .. MaxEdits
      BY DEF TypeOK
    <3> QED
      BY <1>0, <3>1, <3>2
  <2> QED
    BY <1>10, <2>1 DEF Edit, TypeOK
<1>11. CASE UNCHANGED vars
  BY <1>11 DEF vars, TypeOK
<1> QED
  BY <1>1, <1>2, <1>3, <1>4, <1>5, <1>6, <1>7, <1>8, <1>9, <1>10, <1>11 DEF Next

(* Values have their types (TypeOK).                                       *)
THEOREM Types == Spec => []TypeOK
<1>1. Init => TypeOK
  BY CliAssumption DEF Init, TypeOK
<1> QED
  BY <1>1, TypeStep, PTL DEF Spec

-----------------------------------------------------------------------------
(* The verdict.                                                            *)

(* The errors of the schemas that Problems looks at.                       *)
ErrorsOf(c, a, B) ==
  {compiled(ext[s[1]], s[2]) :
     s \in (IF c.do \in Inspections \cup {"generate", "compatibility"}
            THEN {<<c.schema, a>>} \cup {<<c.other, b>> : b \in B} ELSE {})} \ {"ok"}

LEMMA ProblemsAre ==
  ASSUME NEW c, NEW a, NEW B
  PROVE  Problems(c, a, B) =
              {"Parse" : e \in ErrorsOf(c, a, B) \ Unresolved}
         \cup {"Resolver" : e \in ErrorsOf(c, a, B) \cap Unresolved}
         \cup {"Parse" : t \in {t \in {a} \cup B : c.do = "validate" /\ ~json(t)}}
         \cup {"ValidationFailed" : b \in {b \in B : c.do = "validate"
                            /\ (output_of(a, b).errors # 0 \/ output_of(a, b).aborted)}}
         \cup {"ValidationFailed" : b \in {b \in B : c.do = "compatibility" /\ ErrorsOf(c, a, B) = {} /\ breaks(a, b)}}
         \cup {k \in {"Codegen"} : c.do = "generate" /\ ~generated(a)}
         \cup {k \in {"Schema"} : c.do = "validate" /\ ~built(a)}
         \cup {k \in {"OpenApi"} : c.do = "normalize" /\ ~openapi(ext[c.schema], a)}
  BY DEF Problems, ErrorsOf, Unresolved

(* The errors of one schema, and of two.                                   *)
LEMMA ErrorsOfOne ==
  ASSUME NEW c, NEW a
  PROVE  ErrorsOf(c, a, {}) =
           IF c.do \in Inspections \cup {"generate", "compatibility"}
           THEN {compiled(ext[c.schema], a)} \ {"ok"} ELSE {}
<1>1. {<<c.other, b>> : b \in {}} = {}
  OBVIOUS
<1> DEFINE S == {<<c.schema, a>>} \cup {<<c.other, b>> : b \in {}}
<1>2. {compiled(ext[s[1]], s[2]) : s \in S} = {compiled(ext[c.schema], a)}
  <2>1. S = {<<c.schema, a>>}
    BY <1>1
  <2>2. <<c.schema, a>>[1] = c.schema /\ <<c.schema, a>>[2] = a
    OBVIOUS
  <2> QED
    BY <2>1, <2>2
<1> QED
  BY <1>2 DEF ErrorsOf

LEMMA ErrorsOfTwo ==
  ASSUME NEW c, NEW a, NEW b
  PROVE  ErrorsOf(c, a, {b}) =
           IF c.do \in Inspections \cup {"generate", "compatibility"}
           THEN {compiled(ext[c.schema], a), compiled(ext[c.other], b)} \ {"ok"} ELSE {}
<1> DEFINE S == {<<c.schema, a>>} \cup {<<c.other, x>> : x \in {b}}
<1>1. {compiled(ext[s[1]], s[2]) : s \in S}
        = {compiled(ext[c.schema], a), compiled(ext[c.other], b)}
  <2>1. S = {<<c.schema, a>>, <<c.other, b>>}
    OBVIOUS
  <2>2. /\ <<c.schema, a>>[1] = c.schema /\ <<c.schema, a>>[2] = a
        /\ <<c.other, b>>[1] = c.other /\ <<c.other, b>>[2] = b
    OBVIOUS
  <2> QED
    BY <2>1, <2>2
<1> QED
  BY <1>1 DEF ErrorsOf

(* A command that has computed its first text without an error has no      *)
(* problem with it, and one with an error has the problem of that name.    *)
LEMMA FirstText ==
  ASSUME NEW c \in Command, c.do # "vendor", c.do # "validate", NEW t
  PROVE  /\ Computed(c, t) = "ok" => Problems(c, t, {}) = {}
         /\ Computed(c, t) # "ok" => Computed(c, t) \in Problems(c, t, {})
<1> DEFINE e == compiled(ext[c.schema], t)
<1>0. c.do \in Dos
  BY CommandFields
<1>1. /\ {x \in {t} \cup {} : c.do = "validate" /\ ~json(x)} = {}
      /\ {k \in {"Schema"} : c.do = "validate" /\ ~built(t)} = {}
  OBVIOUS
<1>2. Problems(c, t, {}) =
              {"Parse" : x \in ErrorsOf(c, t, {}) \ Unresolved}
         \cup {"Resolver" : x \in ErrorsOf(c, t, {}) \cap Unresolved}
         \cup {k \in {"Codegen"} : c.do = "generate" /\ ~generated(t)}
         \cup {k \in {"OpenApi"} : c.do = "normalize" /\ ~openapi(ext[c.schema], t)}
  BY <1>1, ProblemsAre
<1>3. CASE c.do \in Inspections \cup {"compatibility"}
  <2>1. ErrorsOf(c, t, {}) = {e} \ {"ok"} /\ c.do # "generate" /\ c.do # "normalize"
    BY <1>3, ErrorsOfOne DEF Inspections
  <2>2. Computed(c, t) = compile_text(c.schema, t)
    BY <1>3, ComputedIs
  <2> QED
    BY <1>2, <2>1, <2>2, CompileText
<1>4. CASE c.do = "generate"
  <2>1. ErrorsOf(c, t, {}) = {e} \ {"ok"}
    BY <1>4, ErrorsOfOne
  <2>2. CASE compile_text(c.schema, t) # "ok"
    <3>1. Computed(c, t) = compile_text(c.schema, t)
      BY <1>4, <2>2, ComputedIs
    <3> QED
      BY <1>2, <2>1, <2>2, <3>1, CompileText
  <2>3. CASE compile_text(c.schema, t) = "ok"
    <3>1. Computed(c, t) = IF generated(t) THEN "ok" ELSE "Codegen"
      BY <1>4, <2>3, ComputedIs
    <3>2. ErrorsOf(c, t, {}) = {}
      BY <2>1, <2>3, CompileText
    <3> QED
      BY <1>2, <1>4, <3>1, <3>2
  <2> QED
    BY <2>2, <2>3
<1>5. CASE c.do = "normalize"
  <2>1. ErrorsOf(c, t, {}) = {}
    BY <1>5, ErrorsOfOne DEF Inspections
  <2>2. Computed(c, t) = IF openapi(ext[c.schema], t) THEN "ok" ELSE "OpenApi"
    BY <1>5, ComputedIs
  <2> QED
    BY <1>2, <1>5, <2>1, <2>2
<1>6. CASE c.do = "lock"
  <2>1. ErrorsOf(c, t, {}) = {}
    BY <1>6, ErrorsOfOne DEF Inspections
  <2>2. Computed(c, t) = "ok"
    BY <1>6, ComputedIs
  <2> QED
    BY <1>2, <1>6, <2>1, <2>2
<1> QED
  BY <1>0, <1>3, <1>4, <1>5, <1>6 DEF Dos, Writers, Pairs

(* The same for what validate and compatibility make of both texts.        *)
LEMMA ValidateVerdict ==
  ASSUME NEW c, c.do = "validate", NEW a, NEW b
  PROVE  /\ cmd_validate(a, b) = "ok" => Problems(c, a, {b}) = {}
         /\ cmd_validate(a, b) # "ok" => cmd_validate(a, b) \in Problems(c, a, {b})
<1> DEFINE invalid == output_of(a, b).errors # 0 \/ output_of(a, b).aborted
<1>1. ErrorsOf(c, a, {b}) = {}
  BY ErrorsOfTwo DEF Inspections
<1>2. Problems(c, a, {b}) =
              {"Parse" : t \in {t \in {a, b} : ~json(t)}}
         \cup {"ValidationFailed" : x \in {x \in {b} : output_of(a, x).errors # 0 \/ output_of(a, x).aborted}}
         \cup {k \in {"Schema"} : ~built(a)}
  <2>1. {a} \cup {b} = {a, b}
    OBVIOUS
  <2> QED
    BY <1>1, <2>1, ProblemsAre
<1>3. cmd_validate(a, b) = IF ~json(a) \/ ~json(b) THEN "Parse"
                           ELSE IF ~built(a) THEN "Schema"
                           ELSE IF invalid THEN "ValidationFailed" ELSE "ok"
  BY DEF cmd_validate, report_validation
<1>4. CASE ~json(a) \/ ~json(b)
  <2>1. "Parse" \in Problems(c, a, {b})
    BY <1>2, <1>4
  <2> QED
    BY <1>3, <1>4, <2>1
<1>5. CASE json(a) /\ json(b) /\ ~built(a)
  <2>1. "Schema" \in Problems(c, a, {b})
    BY <1>2, <1>5
  <2> QED
    BY <1>3, <1>5, <2>1
<1>6. CASE json(a) /\ json(b) /\ built(a) /\ invalid
  <2>1. "ValidationFailed" \in Problems(c, a, {b})
    BY <1>2, <1>6
  <2> QED
    BY <1>3, <1>6, <2>1
<1>7. CASE json(a) /\ json(b) /\ built(a) /\ ~invalid
  <2>1. Problems(c, a, {b}) = {}
    BY <1>2, <1>7
  <2> QED
    BY <1>3, <1>7, <2>1
<1> QED
  BY <1>4, <1>5, <1>6, <1>7

LEMMA CompatVerdict ==
  ASSUME NEW c, c.do = "compatibility", NEW a, NEW b, Computed(c, a) = "ok"
  PROVE  /\ cmd_compat(c.other, a, b) = "ok" => Problems(c, a, {b}) = {}
         /\ cmd_compat(c.other, a, b) # "ok" =>
              cmd_compat(c.other, a, b) \in Problems(c, a, {b})
<1> DEFINE e == compiled(ext[c.other], b)
<1>1. compiled(ext[c.schema], a) = "ok"
  BY ComputedIs, CompileText
<1>2. ErrorsOf(c, a, {b}) = {e} \ {"ok"}
  <2>1. ErrorsOf(c, a, {b}) = {compiled(ext[c.schema], a), e} \ {"ok"}
    BY ErrorsOfTwo
  <2>2. {"ok", e} \ {"ok"} = {e} \ {"ok"}
    OBVIOUS
  <2> QED
    BY <1>1, <2>1, <2>2
<1>3. Problems(c, a, {b}) =
              {"Parse" : x \in ({e} \ {"ok"}) \ Unresolved}
         \cup {"Resolver" : x \in ({e} \ {"ok"}) \cap Unresolved}
         \cup {"ValidationFailed" : x \in {x \in {b} : {e} \ {"ok"} = {} /\ breaks(a, x)}}
  BY <1>2, ProblemsAre
<1>4. cmd_compat(c.other, a, b) =
        IF compile_text(c.other, b) # "ok" THEN compile_text(c.other, b)
        ELSE IF breaks(a, b) THEN "ValidationFailed" ELSE "ok"
  BY DEF cmd_compat, load_schema
<1>5. CASE compile_text(c.other, b) = "Parse"
  <2>1. e # "ok" /\ e \notin Unresolved
    BY <1>5, CompileText
  <2>2. "Parse" \in Problems(c, a, {b})
    BY <1>3, <2>1
  <2> QED
    BY <1>4, <1>5, <2>2
<1>6. CASE compile_text(c.other, b) = "Resolver"
  <2>1. e # "ok" /\ e \in Unresolved
    BY <1>6, CompileText
  <2>2. "Resolver" \in Problems(c, a, {b})
    BY <1>3, <2>1
  <2> QED
    BY <1>4, <1>6, <2>2
<1>7. CASE compile_text(c.other, b) = "ok"
  <2>1. e = "ok"
    BY <1>7, CompileText
  <2>2. CASE breaks(a, b)
    <3>1. "ValidationFailed" \in Problems(c, a, {b})
      BY <1>3, <2>1, <2>2
    <3> QED
      BY <1>4, <1>7, <2>2, <3>1
  <2>3. CASE ~breaks(a, b)
    <3>1. Problems(c, a, {b}) = {}
      BY <1>3, <2>1, <2>3
    <3> QED
      BY <1>4, <1>7, <2>3, <3>1
  <2> QED
    BY <2>2, <2>3
<1> QED
  BY <1>5, <1>6, <1>7, CompileText
-----------------------------------------------------------------------------
(* The inductive invariant.  Until it opens a file, a command has changed   *)
(* none; what it has read is what the path held; and it goes on only when  *)
(* the first text has no error.                                            *)

Steps ==
  /\ pc = "mkdir" => cmd.do = "vendor"
  /\ pc \notin {"idle", "write"} => opened = {}
  /\ pc = "write" => opened = {cmd.output}

Texts ==
  /\ pc # "idle" => \A p \in Path \ opened : fs[p] \in seen[p]
  /\ pc = "read other" => text \in ReadFrom(cmd.schema) /\ Computed(cmd, text) = "ok"
  /\ pc \in {"open", "write"} /\ cmd.do # "vendor" =>
       text \in ReadFrom(cmd.schema) /\ Computed(cmd, text) = "ok"

IInv == TypeOK /\ Steps /\ Texts /\ RefusalLeavesFiles /\ VerdictExact

(* A step that changes nothing that the invariant is about, but for seen,   *)
(* which grows.                                                            *)
LEMMA ReadFromGrows ==
  ASSUME UNCHANGED cmd, \A p \in Path : seen[p] \subseteq seen'[p]
  PROVE  /\ \A p \in Path : ReadFrom(p) \subseteq ReadFrom(p)'
         /\ cmd.other \in Path \cup {None} => OtherRead \subseteq OtherRead'
<1>1. \A p \in Path : ReadFrom(p) \subseteq ReadFrom(p)'
  BY DEF ReadFrom
<1>2. ASSUME cmd.other \in Path \cup {None} PROVE OtherRead \subseteq OtherRead'
  <2>1. CASE cmd.other = None
    BY <2>1 DEF OtherRead
  <2>2. CASE cmd.other # None
    <3>1. ReadFrom(cmd.other) \subseteq ReadFrom(cmd.other)'
      BY <1>1, <1>2, <2>2
    <3> QED
      BY <2>2, <3>1 DEF OtherRead
  <2> QED
    BY <2>1, <2>2
<1> QED
  BY <1>1, <1>2

(* The verdict of a command that ends with its first text.                 *)
LEMMA VerdictOfOne ==
  ASSUME cmd' \in Command, cmd'.do # "vendor", cmd'.do # "validate",
         NEW a \in ReadFrom(cmd.schema)', ended' = Computed(cmd', a),
         cmd'.do \in Pairs => Computed(cmd', a) # "ok"
  PROVE  VerdictExact'
<1>1. ended' = "ok" => cmd'.other = None /\ Problems(cmd', a, {}) = {}
  BY FirstText, CommandFields, ErrorsDistinct DEF Dos, Writers, Pairs
<1>2. ended' \in Refusals => ended' \in Problems(cmd', a, {})
  <2>1. ended' \in Refusals => ended' # "ok"
    BY ErrorsDistinct
  <2> QED
    BY <2>1, FirstText
<1> QED
  BY <1>1, <1>2 DEF VerdictExact

(* The verdict of a command that ends with both.                           *)
LEMMA VerdictOfTwo ==
  ASSUME cmd' \in Command, cmd'.do \in Pairs,
         NEW a \in ReadFrom(cmd.schema)', NEW b \in ReadFrom(cmd.other)',
         ended' = "ok" => Problems(cmd', a, {b}) = {},
         ended' \in Refusals => ended' \in Problems(cmd', a, {b})
  PROVE  VerdictExact'
<1>1. {b} \in OtherRead' /\ cmd'.other # None
  BY CommandFields DEF OtherRead
<1> QED
  BY <1>1 DEF VerdictExact

(* Steps that leave no verdict on a text.                                  *)
LEMMA NoVerdict ==
  ASSUME pc' # "idle" \/ ended' \in {"Io", "killed"} \/ cmd'.do = "vendor"
  PROVE  VerdictExact'
  BY ErrorsDistinct DEF VerdictExact

(* The rest of the invariant when a command ends.                          *)
LEMMA EndStep ==
  ASSUME pc' = "idle", ended' \in {"ok", "Io", "killed"} \/ opened' = {}
  PROVE  Steps' /\ Texts' /\ RefusalLeavesFiles'
<1>1. Steps'
  BY DEF Steps
<1>2. Texts'
  BY DEF Texts
<1>3. RefusalLeavesFiles'
  BY ErrorsDistinct DEF RefusalLeavesFiles
<1> QED
  BY <1>1, <1>2, <1>3

LEMMA InvariantStep == IInv /\ [Next]_vars => IInv'
<1> SUFFICES ASSUME IInv, [Next]_vars PROVE IInv'
  OBVIOUS
<1> USE DEF IInv
<1>0. TypeOK'
  BY TypeStep
<1>1. ASSUME NEW c \in Command, Start(c) PROVE IInv'
  <2>1. Steps' /\ RefusalLeavesFiles'
    BY <1>1, ErrorsDistinct DEF Start, Steps, RefusalLeavesFiles
  <2>2. Texts'
    BY <1>1 DEF Start, Texts
  <2> QED
    BY <1>0, <1>1, <2>1, <2>2, NoVerdict DEF Start
<1>2. CASE Fails
  <2>1. pc' = "idle" /\ ended' = "Io"
    BY <1>2 DEF Fails, Return
  <2> QED
    BY <1>0, <2>1, EndStep, NoVerdict
<1>3. CASE ReadSchema
  <2> DEFINE t == fs[cmd.schema]  result == Computed(cmd, t)
  <2>1. /\ cmd \in Command /\ cmd' = cmd /\ cmd.do # "vendor" /\ opened = {} /\ opened' = {}
        /\ t \in ReadFrom(cmd.schema) /\ text' = t /\ seen' = seen /\ fs' = fs
        /\ \A p \in Path : fs[p] \in seen[p]
    <3>1. /\ pc = "read" /\ t # NoFile /\ (utf8(t) \/ cmd.do = "lock")
          /\ cmd' = cmd /\ text' = t /\ seen' = seen /\ fs' = fs /\ opened' = opened
      BY <1>3 DEF ReadSchema, history
    <3>2. cmd \in Command /\ cmd.do # "vendor" /\ opened = {}
      BY <3>1 DEF TypeOK, Steps
    <3>3. \A p \in Path : fs[p] \in seen[p]
      BY <3>1, <3>2 DEF Texts
    <3> QED
      BY <3>1, <3>2, <3>3, CommandFields DEF ReadFrom
  <2>2. t \in ReadFrom(cmd.schema)'
    BY <2>1 DEF ReadFrom
  <2>3. CASE result = "ok" /\ cmd.do \in Pairs
    <3>1. pc' = "read other" /\ ended' = ended
      BY <1>3, <2>3 DEF ReadSchema
    <3>2. Steps' /\ RefusalLeavesFiles'
      BY <2>1, <3>1, ErrorsDistinct DEF Steps, RefusalLeavesFiles
    <3>3. Texts'
      BY <2>1, <2>2, <2>3, <3>1 DEF Texts
    <3> QED
      BY <1>0, <3>1, <3>2, <3>3, NoVerdict
  <2>4. CASE result = "ok" /\ cmd.do \notin Pairs /\ cmd.output # None
    <3>1. pc' = "open" /\ ended' = ended
      BY <1>3, <2>4 DEF ReadSchema
    <3>2. Steps' /\ RefusalLeavesFiles'
      BY <2>1, <3>1, ErrorsDistinct DEF Steps, RefusalLeavesFiles
    <3>3. Texts'
      BY <2>1, <2>2, <2>4, <3>1 DEF Texts
    <3> QED
      BY <1>0, <3>1, <3>2, <3>3, NoVerdict
  <2>5. CASE ~(result = "ok" /\ (cmd.do \in Pairs \/ cmd.output # None))
    <3>1. pc' = "idle" /\ ended' = result
      BY <1>3, <2>5 DEF ReadSchema, Return
    <3>2. Steps' /\ Texts' /\ RefusalLeavesFiles'
      BY <2>1, <3>1, EndStep
    <3>3. cmd.do # "validate"
      BY <2>5, ComputedIs DEF Pairs
    <3>4. VerdictExact'
      BY <2>1, <2>2, <2>5, <3>1, <3>3, VerdictOfOne
    <3> QED
      BY <1>0, <3>2, <3>4
  <2> QED
    BY <2>3, <2>4, <2>5
<1>4. CASE ReadOther
  <2> DEFINE b == fs[cmd.other]
             result == IF cmd.do = "validate" THEN cmd_validate(text, b)
                       ELSE cmd_compat(cmd.other, text, b)
  <2>1. /\ pc = "read other" /\ b # NoFile /\ utf8(b)
        /\ cmd' = cmd /\ seen' = seen /\ opened' = opened
        /\ pc' = "idle" /\ ended' = result
    BY <1>4 DEF ReadOther, history, Return
  <2>2. /\ cmd \in Command /\ cmd.do \in Pairs /\ opened = {}
        /\ text \in ReadFrom(cmd.schema) /\ Computed(cmd, text) = "ok"
    BY <2>1 DEF TypeOK, Steps, Texts
  <2>3. Steps' /\ Texts' /\ RefusalLeavesFiles'
    BY <2>1, <2>2, EndStep
  <2>4. b \in ReadFrom(cmd.other)' /\ text \in ReadFrom(cmd.schema)'
    <3>1. b \in seen[cmd.other]
      BY <2>1, <2>2, CommandFields DEF Texts
    <3> QED
      BY <2>1, <2>2, <3>1 DEF ReadFrom
  <2>5. /\ ended' = "ok" => Problems(cmd, text, {b}) = {}
        /\ ended' \in Refusals => ended' \in Problems(cmd, text, {b})
    <3>1. /\ result = "ok" => Problems(cmd, text, {b}) = {}
          /\ result # "ok" => result \in Problems(cmd, text, {b})
      BY <2>2, ValidateVerdict, CompatVerdict DEF Pairs
    <3> HIDE DEF result
    <3> QED
      BY <2>1, <3>1, ErrorsDistinct
  <2>6. VerdictExact'
    BY <2>1, <2>2, <2>4, <2>5, VerdictOfTwo
  <2> QED
    BY <1>0, <2>3, <2>6
<1>5. CASE CreateDir
  <2>1. /\ pc = "mkdir" /\ cmd \in Command /\ cmd.do = "vendor" /\ opened = {}
        /\ cmd' = cmd /\ opened' = opened /\ fs' = fs /\ seen' = seen
    BY <1>5 DEF CreateDir, history, TypeOK, Steps
  <2>2. CASE cmd.output = None
    <3>1. pc' = "idle" /\ ended' = "Internal"
      BY <1>5, <2>2 DEF CreateDir, Return
    <3> QED
      BY <1>0, <2>1, <3>1, EndStep, NoVerdict
  <2>3. CASE cmd.output # None
    <3>1. pc' = "open" /\ ended' = ended
      BY <1>5, <2>3 DEF CreateDir
    <3>2. Steps' /\ RefusalLeavesFiles'
      BY <2>1, <3>1, ErrorsDistinct DEF Steps, RefusalLeavesFiles
    <3>3. Texts'
      BY <2>1, <3>1 DEF Texts
    <3> QED
      BY <1>0, <3>1, <3>2, <3>3, NoVerdict
  <2> QED
    BY <2>2, <2>3
<1>6. CASE Open
  <2>1. /\ pc = "open" /\ pc' = "write" /\ cmd' = cmd /\ opened' = {cmd.output} /\ ended' = ended
        /\ seen' = seen /\ text' = text /\ fs' = [fs EXCEPT ![cmd.output] = Empty]
    BY <1>6 DEF Open
  <2>2. opened = {} /\ ended = "running" /\ DOMAIN fs = Path
    BY <2>1 DEF Steps, TypeOK
  <2>3. Steps' /\ RefusalLeavesFiles'
    BY <2>1, <2>2, ErrorsDistinct DEF Steps, RefusalLeavesFiles
  <2>4. Texts'
    <3>1. \A p \in Path \ opened' : fs'[p] = fs[p] /\ fs[p] \in seen[p]
      BY <2>1, <2>2 DEF Texts
    <3>2. cmd.do # "vendor" => text \in ReadFrom(cmd.schema) /\ Computed(cmd, text) = "ok"
      BY <2>1 DEF Texts
    <3>3. cmd.do # "vendor" => text' \in ReadFrom(cmd.schema)' /\ Computed(cmd', text') = "ok"
      BY <2>1, <3>2 DEF ReadFrom
    <3> QED
      BY <2>1, <3>1, <3>3 DEF Texts
  <2> QED
    BY <1>0, <2>1, <2>3, <2>4, NoVerdict
<1>7. CASE Write
  <2>1. /\ pc = "write" /\ pc' = "idle" /\ ended' = "ok" /\ cmd' = cmd /\ seen' = seen
    BY <1>7 DEF Write, Return, history
  <2>2. cmd \in Command /\ cmd.output \in Path
    BY <2>1 DEF TypeOK
  <2>3. cmd.do \notin Pairs
    BY <2>2, CommandFields, CliAssumption
  <2>4. VerdictExact'
    <3>1. CASE cmd.do = "vendor"
      BY <2>1, <3>1 DEF VerdictExact
    <3>2. CASE cmd.do # "vendor"
      <4>1. text \in ReadFrom(cmd.schema) /\ Computed(cmd, text) = "ok"
        BY <2>1, <3>2 DEF Texts
      <4>2. text \in ReadFrom(cmd.schema)'
        BY <2>1, <4>1 DEF ReadFrom
      <4>3. cmd.do # "validate"
        BY <2>3 DEF Pairs
      <4> QED
        BY <2>1, <2>2, <2>3, <3>2, <4>1, <4>2, <4>3, VerdictOfOne, ErrorsDistinct
    <3> QED
      BY <3>1, <3>2
  <2> QED
    BY <1>0, <2>1, <2>4, EndStep
<1>8. CASE WriteFails
  <2>1. pc' = "idle" /\ ended' = "Io"
    BY <1>8 DEF WriteFails, Return
  <2> QED
    BY <1>0, <2>1, EndStep, NoVerdict
<1>9. CASE Kill
  <2>1. pc' = "idle" /\ ended' = "killed"
    BY <1>9 DEF Kill
  <2> QED
    BY <1>0, <2>1, EndStep, NoVerdict
<1>10. ASSUME NEW p \in Path, NEW t \in Source \cup {NoFile}, Edit(p, t) PROVE IInv'
  <2>1. /\ cmd' = cmd /\ pc' = pc /\ text' = text /\ ended' = ended /\ opened' = opened
        /\ fs' = [fs EXCEPT ![p] = t] /\ seen' = [seen EXCEPT ![p] = @ \cup {t}]
    BY <1>10 DEF Edit
  <2>2. DOMAIN fs = Path /\ DOMAIN seen = Path
    BY DEF TypeOK
  <2>3. /\ \A q \in Path : seen[q] \subseteq seen'[q]
        /\ \A q \in Path : fs'[q] = fs[q] \/ fs'[q] \in seen'[q]
    BY <2>1, <2>2
  <2>4. Steps' /\ RefusalLeavesFiles'
    BY <2>1 DEF Steps, RefusalLeavesFiles
  <2>5. \A q \in Path : ReadFrom(q) \subseteq ReadFrom(q)'
    BY <2>1, <2>3, ReadFromGrows
  <2>6. Texts'
    <3>1. CASE pc = "idle"
      BY <2>1, <3>1 DEF Texts
    <3>2. CASE pc # "idle"
      <4>1. cmd.schema \in Path
        BY <3>2, CommandFields DEF TypeOK
      <4>2. ReadFrom(cmd.schema) \subseteq ReadFrom(cmd.schema)'
        BY <2>1, <2>5, <4>1
      <4>3. \A q \in Path \ opened' : fs'[q] \in seen'[q]
        BY <2>1, <2>3, <3>2 DEF Texts
      <4> QED
        BY <2>1, <4>2, <4>3 DEF Texts
    <3> QED
      BY <3>1, <3>2
  <2>7. VerdictExact'
    <3> SUFFICES ASSUME pc' = "idle", cmd' # None, cmd'.do # "vendor"
                 PROVE  /\ ended' = "ok" =>
                             \E a \in ReadFrom(cmd.schema)',
                                B \in (IF cmd'.other = None THEN {{}} ELSE OtherRead') :
                               Problems(cmd', a, B) = {}
                        /\ ended' \in Refusals =>
                             \E a \in ReadFrom(cmd.schema)', B \in {{}} \cup OtherRead' :
                               ended' \in Problems(cmd', a, B)
      BY DEF VerdictExact
    <3>1. cmd \in Command
      BY <2>1 DEF TypeOK
    <3>2. ReadFrom(cmd.schema) \subseteq ReadFrom(cmd.schema)'
      BY <2>1, <2>5, <3>1, CommandFields
    <3>3. OtherRead \subseteq OtherRead'
      BY <2>1, <2>3, <3>1, CommandFields, ReadFromGrows
    <3>4. ended = "ok" => \E a \in ReadFrom(cmd.schema),
                         B \in (IF cmd.other = None THEN {{}} ELSE OtherRead) :
                        Problems(cmd, a, B) = {}
      BY <2>1 DEF VerdictExact
    <3>5. ended \in Refusals => \E a \in ReadFrom(cmd.schema), B \in {{}} \cup OtherRead :
                               ended \in Problems(cmd, a, B)
      BY <2>1 DEF VerdictExact
    <3> QED
      BY <2>1, <3>2, <3>3, <3>4, <3>5
  <2> QED
    BY <1>0, <2>4, <2>6, <2>7
<1>11. CASE UNCHANGED vars
  <2> USE <1>11 DEF vars
  <2>1. Steps' /\ RefusalLeavesFiles'
    BY DEF Steps, RefusalLeavesFiles
  <2>2. Texts'
    BY DEF Texts, ReadFrom
  <2>3. VerdictExact'
    BY DEF VerdictExact, ReadFrom, OtherRead
  <2> QED
    BY <1>0, <2>1, <2>2, <2>3
<1> QED
  BY <1>1, <1>2, <1>3, <1>4, <1>5, <1>6, <1>7, <1>8, <1>9, <1>10, <1>11 DEF Next

LEMMA Invariant == Spec => []IInv
<1>1. Init => IInv
  <2> SUFFICES ASSUME Init PROVE IInv
    OBVIOUS
  <2>1. TypeOK
    BY CliAssumption DEF Init, TypeOK
  <2>2. pc = "idle" /\ opened = {} /\ cmd = None
    BY DEF Init
  <2> QED
    BY <2>1, <2>2 DEF IInv, Steps, Texts, RefusalLeavesFiles, VerdictExact
<1> QED
  BY <1>1, InvariantStep, PTL DEF Spec

(* A command that refuses its input has opened no file for writing, however *)
(* many files there are and whatever others do to them (RefusalLeavesFiles).*)
THEOREM RefusalsLeaveFiles == Spec => []RefusalLeavesFiles
<1>1. IInv => RefusalLeavesFiles
  BY DEF IInv
<1> QED
  BY <1>1, Invariant, PTL

(* Success, and every error but that of a failed access, tells the truth   *)
(* about texts that the command's files held while it ran (VerdictExact).  *)
THEOREM VerdictsExact == Spec => []VerdictExact
<1>1. IInv => VerdictExact
  BY DEF IInv
<1> QED
  BY <1>1, Invariant, PTL
-----------------------------------------------------------------------------
(* The output.                                                             *)

(* What a command is about to write is an output for the text it has read.  *)
Promise ==
  /\ pc \in {"open", "write"} /\ cmd.do # "vendor" => pending \in Outputs(cmd, text)
  /\ pc = "write" /\ cmd.do = "vendor" /\ cmd.output # cmd.schema /\ cmd.schema \notin disturbed
       => pending \in ReadFrom(cmd.schema)
  /\ pc = "write" \/ (pc = "idle" /\ ended = "ok" /\ cmd # None /\ cmd.output # None)
       => cmd \in Command /\ opened = {cmd.output}

OInv == Promise /\ OutputTrue

(* An upsert into an empty lock file leaves one entry.                     *)
LEMMA UpsertFirst ==
  ASSUME NEW entry
  PROVE  upsert(<<>>, entry) = <<entry>>
<1>1. DOMAIN <<>> = {}
  OBVIOUS
<1>2. Append(<<>>, entry) = <<entry>>
  OBVIOUS
<1> QED
  BY <1>1, <1>2 DEF upsert

LEMMA WrittenIsOutput ==
  ASSUME NEW c \in Command, c.do # "vendor", c.output # None, NEW t
  PROVE  write_of(c, t) \in Outputs(c, t)
<1>1. c.do \in {"generate", "normalize", "lock"}
  BY CommandFields DEF Dos, Writers
<1>2. CASE c.do = "generate"
  BY <1>2 DEF write_of, Outputs
<1>3. CASE c.do = "normalize"
  BY <1>3 DEF write_of, Outputs
<1>4. CASE c.do = "lock"
  <2>1. locked(c.schema, t) = Lock(<<[uri |-> c.schema, digest |-> t, size |-> size(t)]>>)
    BY UpsertFirst DEF locked, LockEntry
  <2> QED
    BY <1>4, <2>1 DEF write_of, Outputs
<1> QED
  BY <1>1, <1>2, <1>3, <1>4

(* A step that ends a command without success, or without an output.       *)
LEMMA EndWithout ==
  ASSUME pc' = "idle", ended' # "ok" \/ cmd'.output = None
  PROVE  OInv'
<1>1. Promise'
  BY DEF Promise
<1>2. OutputTrue'
  BY DEF OutputTrue
<1> QED
  BY <1>1, <1>2 DEF OInv

(* A step of a command that goes on.                                       *)
LEMMA GoesOn ==
  ASSUME pc' \notin {"idle", "open", "write"}
  PROVE  OInv'
  BY DEF OInv, Promise, OutputTrue

LEMMA OutputStep == IInv /\ OInv /\ [Next]_vars => OInv'
<1> SUFFICES ASSUME IInv, OInv, [Next]_vars PROVE OInv'
  OBVIOUS
<1>0. TypeOK /\ Steps /\ Texts
  BY DEF IInv
<1>1. ASSUME NEW c \in Command, Start(c) PROVE OInv'
  <2>1. pc' \in {"mkdir", "read"}
    BY <1>1 DEF Start
  <2> QED
    BY <2>1, GoesOn
<1>2. CASE Fails
  <2>1. pc' = "idle" /\ ended' # "ok"
    BY <1>2 DEF Fails, Return
  <2> QED
    BY <2>1, EndWithout
<1>3. CASE ReadSchema
  <2> DEFINE t == fs[cmd.schema]  result == Computed(cmd, t)
  <2>1. cmd \in Command /\ cmd.do # "vendor" /\ cmd' = cmd /\ text' = t /\ ended = "running"
    BY <1>0, <1>3 DEF ReadSchema, TypeOK, Steps
  <2>2. CASE result = "ok" /\ cmd.do \in Pairs
    <3>1. pc' = "read other"
      BY <1>3, <2>2 DEF ReadSchema
    <3> QED
      BY <3>1, GoesOn
  <2>3. CASE result = "ok" /\ cmd.do \notin Pairs /\ cmd.output # None
    <3>1. pc' = "open" /\ pending' = write_of(cmd, t)
      BY <1>3, <2>3 DEF ReadSchema
    <3>2. pending' \in Outputs(cmd', text')
      BY <2>1, <2>3, <3>1, WrittenIsOutput
    <3> QED
      BY <3>1, <3>2 DEF OInv, Promise, OutputTrue
  <2>4. CASE ~(result = "ok" /\ (cmd.do \in Pairs \/ cmd.output # None))
    <3>1. pc' = "idle" /\ ended' = result
      BY <1>3, <2>4 DEF ReadSchema, Return
    <3>2. ended' # "ok" \/ cmd'.output = None
      BY <2>1, <2>4, <3>1
    <3> QED
      BY <3>1, <3>2, EndWithout
  <2> QED
    BY <2>2, <2>3, <2>4
<1>4. CASE ReadOther
  <2>1. pc = "read other" /\ pc' = "idle" /\ cmd' = cmd
    BY <1>4 DEF ReadOther, Return
  <2>2. cmd'.output = None
    BY <1>0, <2>1, CommandFields DEF TypeOK
  <2> QED
    BY <2>1, <2>2, EndWithout
<1>5. CASE CreateDir
  <2>1. pc = "mkdir" /\ cmd' = cmd /\ cmd.do = "vendor"
    BY <1>0, <1>5 DEF CreateDir, Steps
  <2>2. CASE cmd.output = None
    <3>1. pc' = "idle" /\ ended' # "ok"
      BY <1>5, <2>2 DEF CreateDir, Return
    <3> QED
      BY <3>1, EndWithout
  <2>3. CASE cmd.output # None
    <3>1. pc' = "open"
      BY <1>5, <2>3 DEF CreateDir
    <3> QED
      BY <2>1, <3>1 DEF OInv, Promise, OutputTrue
  <2> QED
    BY <2>2, <2>3
<1>6. CASE Open
  <2>1. /\ pc = "open" /\ pc' = "write" /\ cmd' = cmd /\ opened' = {cmd.output}
        /\ seen' = seen /\ text' = text /\ fs' = [fs EXCEPT ![cmd.output] = Empty]
        /\ cmd.do = "vendor" => fs[cmd.schema] # NoFile
        /\ pending' = IF cmd.do = "vendor" THEN fs'[cmd.schema] ELSE pending
    BY <1>6 DEF Open
  <2>2. cmd \in Command /\ opened = {} /\ DOMAIN fs = Path
    BY <1>0, <2>1 DEF TypeOK, Steps
  <2>3. cmd'.do # "vendor" => pending' \in Outputs(cmd', text')
    BY <2>1 DEF OInv, Promise
  <2>4. cmd.do = "vendor" /\ cmd.output # cmd.schema => pending' \in ReadFrom(cmd.schema)'
    <3>1. SUFFICES ASSUME cmd.do = "vendor", cmd.output # cmd.schema
                   PROVE  pending' \in ReadFrom(cmd.schema)'
      OBVIOUS
    <3>2. cmd.schema \in Path /\ fs'[cmd.schema] = fs[cmd.schema]
      BY <2>1, <2>2, <3>1, CommandFields
    <3>3. fs[cmd.schema] \in seen[cmd.schema]
      BY <1>0, <2>1, <2>2, <3>2 DEF Texts
    <3> QED
      BY <2>1, <3>1, <3>2, <3>3 DEF ReadFrom
  <2>5. Promise'
    BY <2>1, <2>2, <2>3, <2>4 DEF Promise
  <2>6. OutputTrue'
    BY <2>1 DEF OutputTrue
  <2> QED
    BY <2>5, <2>6 DEF OInv
<1>7. CASE Write
  <2>1. /\ pc = "write" /\ pc' = "idle" /\ cmd' = cmd /\ seen' = seen /\ text' = text
        /\ opened' = opened /\ disturbed' = disturbed
    BY <1>7 DEF Write, Return, history
  <2>2. PICK t \in Whole : fs' = [fs EXCEPT ![cmd.output] = t]
    BY <1>7 DEF Write
  <2>3. cmd \in Command /\ cmd.output \in Path /\ DOMAIN fs = Path /\ opened = {cmd.output}
    BY <1>0, <2>1 DEF TypeOK, Steps
  <2>4. Promise'
    BY <2>1, <2>3 DEF Promise
  <2>5. OutputTrue'
    <3> SUFFICES ASSUME cmd.output \notin disturbed,
                        cmd.do = "vendor" => cmd.output # cmd.schema /\ cmd.schema \notin disturbed
                 PROVE  \E x \in ReadFrom(cmd.schema)' : fs'[cmd.output] \in Outputs(cmd, x)
      BY <2>1 DEF OutputTrue
    <3>1. fs'[cmd.output] = pending
      BY <2>2, <2>3 DEF Whole
    <3>2. CASE cmd.do = "vendor"
      <4>1. pending \in ReadFrom(cmd.schema)
        BY <2>1, <3>2 DEF OInv, Promise
      <4>2. pending \in ReadFrom(cmd.schema)'
        BY <2>1, <4>1 DEF ReadFrom
      <4>3. pending \in Outputs(cmd, pending)
        BY <3>2 DEF Outputs
      <4> QED
        BY <3>1, <4>2, <4>3
    <3>3. CASE cmd.do # "vendor"
      <4>1. text \in ReadFrom(cmd.schema) /\ pending \in Outputs(cmd, text)
        BY <1>0, <2>1, <3>3 DEF OInv, Promise, Texts
      <4>2. text \in ReadFrom(cmd.schema)'
        BY <2>1, <4>1 DEF ReadFrom
      <4> QED
        BY <3>1, <4>1, <4>2
    <3> QED
      BY <3>2, <3>3
  <2> QED
    BY <2>4, <2>5 DEF OInv
<1>8. CASE WriteFails
  <2>1. pc' = "idle" /\ ended' # "ok"
    BY <1>8 DEF WriteFails, Return
  <2> QED
    BY <2>1, EndWithout
<1>9. CASE Kill
  <2>1. pc' = "idle" /\ ended' # "ok"
    BY <1>9 DEF Kill
  <2> QED
    BY <2>1, EndWithout
<1>10. ASSUME NEW p \in Path, NEW t \in Source \cup {NoFile}, Edit(p, t) PROVE OInv'
  <2>1. /\ cmd' = cmd /\ pc' = pc /\ text' = text /\ ended' = ended /\ opened' = opened
        /\ pending' = pending /\ fs' = [fs EXCEPT ![p] = t]
        /\ seen' = [seen EXCEPT ![p] = @ \cup {t}]
        /\ disturbed' = IF opened = {} THEN {} ELSE disturbed \cup {p}
    BY <1>10 DEF Edit
  <2>2. DOMAIN fs = Path /\ DOMAIN seen = Path
    BY <1>0 DEF TypeOK
  <2>3. \A q \in Path : seen[q] \subseteq seen'[q]
    BY <2>1, <2>2
  <2>4. \A q \in Path : ReadFrom(q) \subseteq ReadFrom(q)'
    BY <2>1, <2>3, ReadFromGrows
  <2>5. ASSUME cmd \in Command PROVE ReadFrom(cmd.schema) \subseteq ReadFrom(cmd.schema)'
    BY <2>1, <2>4, <2>5, CommandFields
  <2>6. Promise'
    <3>1. pc = "write" => cmd \in Command /\ opened = {cmd.output}
      BY DEF OInv, Promise
    <3>2. opened # {} => disturbed \subseteq disturbed'
      BY <2>1
    <3>3. pc' \in {"open", "write"} /\ cmd'.do # "vendor" => pending' \in Outputs(cmd', text')
      BY <2>1 DEF OInv, Promise
    <3>4. /\ pc' = "write" /\ cmd'.do = "vendor" /\ cmd'.output # cmd'.schema
          /\ cmd'.schema \notin disturbed'
          => pending' \in ReadFrom(cmd.schema)'
      BY <2>1, <2>5, <3>1, <3>2 DEF OInv, Promise
    <3>5. pc' = "write" \/ (pc' = "idle" /\ ended' = "ok" /\ cmd' # None /\ cmd'.output # None)
            => cmd' \in Command /\ opened' = {cmd'.output}
      BY <2>1 DEF OInv, Promise
    <3> QED
      BY <3>3, <3>4, <3>5 DEF Promise
  <2>7. OutputTrue'
    <3> SUFFICES ASSUME pc = "idle", cmd # None, ended = "ok", cmd.output # None,
                        cmd.output \notin disturbed',
                        cmd.do = "vendor" => cmd.output # cmd.schema /\ cmd.schema \notin disturbed'
                 PROVE  \E x \in ReadFrom(cmd.schema)' : fs'[cmd.output] \in Outputs(cmd, x)
      BY <2>1 DEF OutputTrue
    <3>1. cmd \in Command /\ opened = {cmd.output}
      BY DEF OInv, Promise
    <3>2. disturbed' = disturbed \cup {p}
      BY <2>1, <3>1
    <3>3. fs'[cmd.output] = fs[cmd.output]
      BY <2>1, <2>2, <3>1, <3>2, CommandFields
    <3>4. \E x \in ReadFrom(cmd.schema) : fs[cmd.output] \in Outputs(cmd, x)
      BY <3>2 DEF OInv, OutputTrue
    <3> QED
      BY <2>5, <3>1, <3>3, <3>4
  <2> QED
    BY <2>6, <2>7 DEF OInv
<1>11. CASE UNCHANGED vars
  <2> USE <1>11 DEF vars
  <2>1. Promise'
    BY DEF OInv, Promise, ReadFrom
  <2>2. OutputTrue'
    BY DEF OInv, OutputTrue, ReadFrom
  <2> QED
    BY <2>1, <2>2 DEF OInv
<1> QED
  BY <1>1, <1>2, <1>3, <1>4, <1>5, <1>6, <1>7, <1>8, <1>9, <1>10, <1>11 DEF Next

(* Success means that the whole output is there, made from one text that    *)
(* the schema had, unless others touched it (OutputTrue).                  *)
THEOREM OutputsTrue == Spec => []OutputTrue
<1>1. Init => OInv
  BY DEF Init, OInv, Promise, OutputTrue
<1>2. OInv => OutputTrue
  BY DEF OInv
<1> QED
  BY <1>1, <1>2, OutputStep, Invariant, PTL DEF Spec
-----------------------------------------------------------------------------
(* The bindings.                                                           *)

(* A validation that is aborted has an error, for every text: AbortNeverLost *)
(* of Evaluation.  CliAssumption asks it of the texts of other programs;   *)
(* a command may be given the output of another as well.                   *)
AbortsCount == \A a, b : output_of(a, b).aborted => output_of(a, b).errors # 0

(* A command that has read both its texts has ended with their verdict.    *)
Compared ==
  other # None /\ cmd.do = "validate" =>
    pc = "idle" /\ ended = cmd_validate(text, other)

LEMMA ComparedStep == Compared /\ [Next]_vars => Compared'
<1> SUFFICES ASSUME Compared, [Next]_vars PROVE Compared'
  OBVIOUS
<1>1. ASSUME NEW c \in Command, Start(c) PROVE Compared'
  BY <1>1 DEF Start, Compared
<1>2. CASE Fails
  BY <1>2 DEF Fails, Compared
<1>3. CASE ReadSchema
  BY <1>3 DEF ReadSchema, Compared
<1>4. CASE ReadOther
  BY <1>4 DEF ReadOther, Return, Compared
<1>5. CASE CreateDir
  BY <1>5 DEF CreateDir, Compared
<1>6. CASE Open
  BY <1>6 DEF Open, Compared
<1>7. CASE Write
  BY <1>7 DEF Write, Compared
<1>8. CASE WriteFails
  BY <1>8 DEF WriteFails, Compared
<1>9. CASE Kill
  BY <1>9 DEF Kill, Compared
<1>10. ASSUME NEW p \in Path, NEW t \in Source \cup {NoFile}, Edit(p, t) PROVE Compared'
  BY <1>10 DEF Edit, Compared
<1>11. CASE UNCHANGED vars
  BY <1>11 DEF vars, Compared
<1> QED
  BY <1>1, <1>2, <1>3, <1>4, <1>5, <1>6, <1>7, <1>8, <1>9, <1>10, <1>11 DEF Next

(* What cmd_validate and the bindings' validate_json make of two texts.    *)
LEMMA SameVerdict ==
  ASSUME AbortsCount, NEW a, NEW b
  PROVE  cmd_validate(a, b) = "ok" <=> validate_json(a, b)
<1>1. report_validation(output_of(a, b)) \in {"ok", "ValidationFailed"}
  BY DEF report_validation
<1>2. cmd_validate(a, b) = "ok" <=> cmd_validate(a, b) = "ok"
  BY <1>1 DEF cmd_validate
<1>3. cmd_validate(a, b) = "ok"
        <=> json(a) /\ json(b) /\ built(a) /\ report_validation(output_of(a, b)) = "ok"
  BY <1>1 DEF cmd_validate
<1>4. from_json(a) = "ok" <=> json(a) /\ built(a)
  BY DEF from_json
<1>5. report_validation(output_of(a, b)) # "ok" => output_of(a, b).errors # 0
  BY DEF report_validation, AbortsCount
<1>6. ~json(b) => CompiledSchema_validate_json(a, b).failed
  BY DEF CompiledSchema_validate_json
<1>7. json(b) => /\ ~CompiledSchema_validate_json(a, b).failed
                 /\ CompiledSchema_validate_json(a, b).messages = 0
                      <=> report_validation(output_of(a, b)) = "ok"
  BY <1>5 DEF CompiledSchema_validate_json
<1> QED
  BY <1>2, <1>3, <1>4, <1>6, <1>7 DEF validate_json

(* Whatever is changed while it runs, sfg validate succeeds on the texts it *)
(* has read exactly when the bindings accept the same texts (BindingsAgree). *)
THEOREM BindingsAlwaysAgree ==
  ASSUME AbortsCount
  PROVE  Spec => []BindingsAgree
<1>1. Init => Compared
  BY DEF Init, Compared
<1>2. Compared => BindingsAgree
  BY SameVerdict DEF Compared, BindingsAgree
<1> QED
  BY <1>1, <1>2, ComparedStep, PTL DEF Spec
-----------------------------------------------------------------------------
(* The lock file.                                                          *)

(* What commands write is none of the texts of other programs, and a size  *)
(* is a number of bytes.                                                   *)
WrittenApart == (\A e : Lock(e) \notin Source) /\ (\A t : Torn(t) \notin Source)
SizesCount == \A t : size(t) \in Nat

LockFor(t) == <<LockEntry(cmd.schema, t, size(t))>>

(* What a lock command leaves at its output.                               *)
Left ==
  cmd # None /\ cmd.do = "lock" /\ opened # {} /\ cmd.output \notin disturbed =>
    /\ opened = {cmd.output}
    /\ pc = "write" => fs[cmd.output] = Empty
    /\ pc = "idle" =>
         /\ text \in ReadFrom(cmd.schema)
         /\ ended = "ok" => fs[cmd.output] = Lock(LockFor(text))
         /\ ended # "ok" => fs[cmd.output] \in {Empty, Torn(Lock(LockFor(text)))}

(* What a step that keeps no file open leaves is nothing.                  *)
LEMMA NothingLeft ==
  ASSUME opened' = {}
  PROVE  Left'
  BY DEF Left

(* The end of a command that was writing.                                  *)
LEMMA LeftAtEnd ==
  ASSUME IInv, OInv, Left, pc = "write", pc' = "idle",
         UNCHANGED <<cmd, text, pending, history>>,
         cmd.do = "lock" /\ cmd.output \notin disturbed =>
           \/ ended' = "ok" /\ fs' = [fs EXCEPT ![cmd.output] = pending]
           \/ ended' # "ok" /\ \E t \in Part : fs' = [fs EXCEPT ![cmd.output] = t]
  PROVE  Left'
<1>1. TypeOK /\ Steps /\ Texts /\ Promise
  BY DEF IInv, OInv
<1>2. cmd \in Command /\ cmd.output \in Path /\ DOMAIN fs = Path /\ opened = {cmd.output}
  BY <1>1 DEF TypeOK, Steps
<1>3. opened' = opened /\ disturbed' = disturbed /\ cmd' = cmd /\ text' = text /\ seen' = seen
  BY DEF history
<1> SUFFICES ASSUME cmd # None, cmd.do = "lock", cmd.output \notin disturbed
             PROVE  /\ text \in ReadFrom(cmd.schema)'
                    /\ ended' = "ok" => fs'[cmd.output] = Lock(LockFor(text))
                    /\ ended' # "ok" => fs'[cmd.output] \in {Empty, Torn(Lock(LockFor(text)))}
  BY <1>2, <1>3 DEF Left, LockFor
<1>4. text \in ReadFrom(cmd.schema)
  BY <1>1 DEF Texts
<1>5. text \in ReadFrom(cmd.schema)'
  BY <1>3, <1>4 DEF ReadFrom
<1>6. pending = Lock(LockFor(text))
  BY <1>1 DEF Promise, Outputs, LockFor, LockEntry
<1>7. fs[cmd.output] = Empty
  BY <1>2 DEF Left
<1>8. \A t \in Part : t \in {Empty, Torn(pending)}
  BY <1>7 DEF Part
<1> QED
  BY <1>2, <1>5, <1>6, <1>8

LEMMA LeftStep == IInv /\ OInv /\ Left /\ [Next]_vars => Left'
<1> SUFFICES ASSUME IInv, OInv, Left, [Next]_vars PROVE Left'
  OBVIOUS
<1>0. TypeOK /\ Steps
  BY DEF IInv
<1>1. ASSUME NEW c \in Command, Start(c) PROVE Left'
  BY <1>1, NothingLeft DEF Start
<1>2. CASE Fails
  <2>1. CASE pc = "write"
    <3>1. pc' = "idle" /\ ended' # "ok" /\ fs' = fs /\ UNCHANGED <<cmd, text, pending, history>>
      BY <1>2 DEF Fails, Return
    <3>2. cmd.output \in Path /\ DOMAIN fs = Path
      BY <1>0, <2>1 DEF TypeOK
    <3> QED
      <4>1. /\ opened' = opened /\ disturbed' = disturbed /\ cmd' = cmd /\ text' = text
            /\ seen' = seen /\ pending' = pending
        BY <3>1 DEF history
      <4>2. cmd \in Command /\ opened = {cmd.output}
        BY <1>0, <2>1 DEF TypeOK, Steps
      <4>3. cmd.do = "lock" => text \in ReadFrom(cmd.schema)
        BY <2>1 DEF IInv, Texts
      <4>4. cmd.do = "lock" => text \in ReadFrom(cmd.schema)'
        BY <4>1, <4>3 DEF ReadFrom
      <4> QED
        BY <2>1, <3>1, <4>1, <4>2, <4>4 DEF Left, LockFor
  <2>2. CASE pc # "write"
    <3>1. opened' = {}
      BY <1>0, <1>2, <2>2 DEF Fails, Steps, history
    <3> QED
      BY <3>1, NothingLeft
  <2> QED
    BY <2>1, <2>2
<1>3. CASE ReadSchema
  BY <1>0, <1>3, NothingLeft DEF ReadSchema, Steps, history
<1>4. CASE ReadOther
  BY <1>0, <1>4, NothingLeft DEF ReadOther, Steps, history
<1>5. CASE CreateDir
  BY <1>0, <1>5, NothingLeft DEF CreateDir, Steps, history
<1>6. CASE Open
  <2>1. /\ pc = "open" /\ pc' = "write" /\ cmd' = cmd /\ opened' = {cmd.output}
        /\ fs' = [fs EXCEPT ![cmd.output] = Empty]
    BY <1>6 DEF Open
  <2>2. cmd.output \in Path /\ DOMAIN fs = Path
    BY <1>0, <2>1 DEF TypeOK
  <2> QED
    BY <2>1, <2>2 DEF Left
<1>7. CASE Write
  <2>1. /\ pc = "write" /\ pc' = "idle" /\ ended' = "ok"
        /\ UNCHANGED <<cmd, text, pending, history>>
    BY <1>7 DEF Write, Return
  <2>2. PICK t \in Whole : fs' = [fs EXCEPT ![cmd.output] = t]
    BY <1>7 DEF Write
  <2>3. cmd.do = "lock" /\ cmd.output \notin disturbed => t = pending
    BY <2>2 DEF Whole
  <2> QED
    BY <2>1, <2>2, <2>3, LeftAtEnd
<1>8. CASE WriteFails
  <2>1. /\ pc = "write" /\ pc' = "idle" /\ ended' # "ok"
        /\ UNCHANGED <<cmd, text, pending, history>>
    BY <1>8 DEF WriteFails, Return
  <2>2. \E t \in Part : fs' = [fs EXCEPT ![cmd.output] = t]
    BY <1>8 DEF WriteFails
  <2> QED
    BY <2>1, <2>2, LeftAtEnd
<1>9. CASE Kill
  <2>1. pc' = "idle" /\ ended' # "ok" /\ UNCHANGED <<cmd, text, pending, history>>
    BY <1>9 DEF Kill
  <2>2. CASE pc = "write"
    <3>1. \E t \in Part : fs' = [fs EXCEPT ![cmd.output] = t]
      BY <1>9, <2>2 DEF Kill
    <3> QED
      BY <2>1, <2>2, <3>1, LeftAtEnd
  <2>3. CASE pc # "write"
    <3>1. opened' = {}
      BY <1>0, <1>9, <2>3 DEF Kill, Steps, history
    <3> QED
      BY <3>1, NothingLeft
  <2> QED
    BY <2>2, <2>3
<1>10. ASSUME NEW p \in Path, NEW t \in Source \cup {NoFile}, Edit(p, t) PROVE Left'
  <2>1. /\ cmd' = cmd /\ pc' = pc /\ text' = text /\ ended' = ended /\ opened' = opened
        /\ fs' = [fs EXCEPT ![p] = t] /\ seen' = [seen EXCEPT ![p] = @ \cup {t}]
        /\ disturbed' = IF opened = {} THEN {} ELSE disturbed \cup {p}
    BY <1>10 DEF Edit
  <2>2. DOMAIN fs = Path /\ DOMAIN seen = Path
    BY <1>0 DEF TypeOK
  <2> SUFFICES ASSUME cmd # None, cmd.do = "lock", opened # {}, cmd.output \notin disturbed'
               PROVE  Left'
    BY <2>1 DEF Left
  <2>3. cmd \in Command /\ cmd.output \notin disturbed /\ cmd.output # p
    BY <1>0, <2>1 DEF TypeOK
  <2>4. fs'[cmd.output] = fs[cmd.output]
    BY <2>1, <2>2, <2>3, CommandFields
  <2>5. ReadFrom(cmd.schema) \subseteq ReadFrom(cmd.schema)'
    BY <2>1, <2>2, <2>3, CommandFields, ReadFromGrows
  <2> QED
    BY <2>1, <2>3, <2>4, <2>5 DEF Left, LockFor
<1>11. CASE UNCHANGED vars
  BY <1>11 DEF vars, Left, LockFor, ReadFrom
<1> QED
  BY <1>1, <1>2, <1>3, <1>4, <1>5, <1>6, <1>7, <1>8, <1>9, <1>10, <1>11 DEF Next

(* How a lock file with one entry reads, whole, empty and cut short.       *)
LEMMA LockReads ==
  ASSUME WrittenApart, SizesCount, NEW t, NEW u
  PROVE  LET one(n) == <<LockEntry(u, t, n)>> IN
         /\ \A r \in read_from_path(Empty) : r.entries = <<>>
         /\ \A r \in read_from_path(Lock(one(size(t)))) : r.ok /\ r.entries = one(size(t))
         /\ \A r \in read_from_path(Torn(Lock(one(size(t))))) :
              \/ r.entries = <<>>
              \/ \E n \in 0 .. size(t) : r.ok /\ r.entries = one(n)
<1> DEFINE one(n) == <<LockEntry(u, t, n)>>
           L == Lock(one(size(t)))
<1>0. Empty \in Source /\ size(t) \in Nat
  BY CliAssumption DEF SizesCount
<1>1. \A r \in read_from_path(Empty) : r.entries = <<>>
  <2>1. read_from_path(Empty) = {[ok |-> TRUE, entries |-> <<>>]}
    BY <1>0 DEF read_from_path
  <2> QED
    BY <2>1
<1>2. L \notin Source /\ L.made = "lock" /\ L.entries = one(size(t))
  BY DEF Lock, WrittenApart
<1>3. Torn(L) \notin Source /\ Torn(L).made = "torn" /\ Torn(L).of = L
  BY DEF Torn, WrittenApart
<1>4. \A r \in read_from_path(L) : r.ok /\ r.entries = one(size(t))
  <2> HIDE DEF L, one
  <2>1. read_from_path(L) = {[ok |-> TRUE, entries |-> L.entries]}
    BY <1>0, <1>2 DEF read_from_path
  <2> QED
    BY <1>2, <2>1
<1>5. \A r \in read_from_path(Torn(L)) :
        \/ r.entries = <<>>
        \/ \E n \in 0 .. size(t) : r.ok /\ r.entries = one(n)
  <2> DEFINE e == L.entries
             Short(n) == [e EXCEPT ![Len(e)].size = @ \div n]
             Lengths == {n \in {10, 100} : n <= e[Len(e)].size}
  <2>1. read_from_path(Torn(L)) =
          {[ok |-> FALSE, entries |-> <<>>]} \cup {[ok |-> TRUE, entries |-> Short(n)] : n \in Lengths}
    <3> HIDE DEF L, one
    <3> QED
      BY <1>0, <1>2, <1>3 DEF read_from_path
  <2>2. \A n \in {10, 100} : Short(n) = one(size(t) \div n) /\ size(t) \div n \in 0 .. size(t)
    <3>1. e = <<LockEntry(u, t, size(t))>> /\ Len(e) = 1
      BY <1>2
    <3>2. \A n \in {10, 100} : Short(n) = one(size(t) \div n)
      BY <3>1 DEF LockEntry
    <3>3. size(t) \div 10 \in 0 .. size(t) /\ size(t) \div 100 \in 0 .. size(t)
      BY <1>0
    <3> QED
      BY <3>2, <3>3
  <2> SUFFICES ASSUME NEW r \in read_from_path(Torn(L)), r.entries # <<>>
               PROVE  \E n \in 0 .. size(t) : r.ok /\ r.entries = one(n)
    OBVIOUS
  <2>3. PICK n \in Lengths : r = [ok |-> TRUE, entries |-> Short(n)]
    BY <2>1
  <2> QED
    BY <2>2, <2>3
<1> QED
  BY <1>1, <1>4, <1>5

(* However a lock command ends, its output reads as an error, as empty, or  *)
(* as one entry for a text that the schema had, with no more than its size  *)
(* (LockHonest).                                                           *)
THEOREM LocksHonest ==
  ASSUME WrittenApart, SizesCount
  PROVE  Spec => []LockHonest
<1>1. Init => Left
  BY DEF Init, Left
<1>2. TypeOK /\ Left => LockHonest
  <2> SUFFICES ASSUME Left, pc = "idle", cmd # None, cmd.do = "lock", opened # {},
                      cmd.output \notin disturbed,
                      NEW result \in read_from_path(fs[cmd.output])
               PROVE  \/ ended # "ok" /\ result.entries = <<>>
                      \/ \E t \in ReadFrom(cmd.schema) : \E n \in 0 .. size(t) :
                           /\ result.ok /\ result.entries = <<LockEntry(cmd.schema, t, n)>>
                           /\ ended = "ok" => n = size(t)
    BY DEF LockHonest
  <2>1. /\ text \in ReadFrom(cmd.schema)
        /\ ended = "ok" => fs[cmd.output] = Lock(LockFor(text))
        /\ ended # "ok" => fs[cmd.output] \in {Empty, Torn(Lock(LockFor(text)))}
    BY DEF Left
  <2>2. CASE ended = "ok"
    <3>1. result.ok /\ result.entries = <<LockEntry(cmd.schema, text, size(text))>>
      BY <2>1, <2>2, LockReads DEF LockFor
    <3>2. size(text) \in 0 .. size(text)
      BY DEF SizesCount
    <3> QED
      BY <2>1, <2>2, <3>1, <3>2
  <2>3. CASE ended # "ok"
    <3>1. \/ result.entries = <<>>
          \/ \E n \in 0 .. size(text) :
               result.ok /\ result.entries = <<LockEntry(cmd.schema, text, n)>>
      BY <2>1, <2>3, LockReads DEF LockFor
    <3> QED
      BY <2>1, <2>3, <3>1
  <2> QED
    BY <2>2, <2>3
<1>3. Init => OInv
  BY DEF Init, OInv, Promise, OutputTrue
<1>4. IInv => TypeOK
  BY DEF IInv
<1> QED
  BY <1>1, <1>2, <1>3, <1>4, LeftStep, OutputStep, Invariant, PTL DEF Spec
=============================================================================
