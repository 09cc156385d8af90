-------------------------------- MODULE Cli --------------------------------
(***************************************************************************)
(* sfg, the command line (crates/schemaforge-cli), with the lock file of   *)
(* crates/schemaforge-resolver and the bindings of schemaforge-bindings.   *)
(*                                                                         *)
(* A command reads one or two files, asks the library about their text and *)
(* prints, or writes a file.  Here it does so in steps, one per access to  *)
(* the file system, which other programs change in between; any access may *)
(* fail, and the process may be killed between two of them.  They replace   *)
(* files whole, so that a read, which is several read(2) calls in the code, *)
(* sees one version; what a read of a file that is being rewritten in place *)
(* sees is left out.  What the library answers about a text is a constant: *)
(* Lowering, Evaluation, Emission, OpenApi and Analysis have it.           *)
(***************************************************************************)
EXTENDS Naturals, Sequences, FiniteSets

CONSTANTS
  Path, Dir,
  dir,              (* the directory of each path                          *)
  ext,              (* file_ext of each path: "json" or "yaml"             *)
  Source,           (* the texts that other programs write                 *)
  Empty,            (* the text of an empty file, one of Source            *)
  NoFile, None,     (* no file at a path; an argument that is left out     *)
  Vendored,         (* <<schema, vendor_dir.join(its file name)>>          *)
  utf8(_),          (* whether read_to_string takes the bytes              *)
  compiled(_, _),   (* Compiler::compile_json or compile_yaml: "ok" or why *)
  generated(_),     (* whether schemaforge_codegen_rust::generate succeeds *)
  openapi(_, _),    (* whether OpenApiDoc::from_json or from_yaml does     *)
  json(_),          (* whether serde_json::from_str does                   *)
  built(_),         (* whether Validator::new does                         *)
  output_of(_, _),  (* Validator::validate: how many errors, if aborted    *)
  breaks(_, _),     (* whether find_breaking_changes finds any             *)
  size(_),
  MaxCommands, MaxEdits  (* bounds: commands, and changes by other programs *)

CompileErrors == {"JsonParse", "YamlParse", "UnresolvedRef", "CyclicRef", "DepthExceeded",
                  "InvalidSchemaKind", "UnsupportedKeyword", "NodeLimitExceeded", "DuplicateAnchor"}

(* CliError, but for Json, which nothing here returns; all but Io refuse    *)
(* what the command was given.                                             *)
Refusals == {"Parse", "ValidationFailed", "Resolver", "Codegen", "Schema", "OpenApi", "Internal"}
CliError == Refusals \cup {"Io"}

(* aborted is never set without an error: Evaluation's AbortNeverLost.     *)
ASSUME CliAssumption ==
  /\ dir \in [Path -> Dir]
  /\ ext \in [Path -> {"json", "yaml"}]
  /\ Empty \in Source /\ NoFile \notin Source
  /\ None \notin Path
  /\ Vendored \subseteq Path \X Path
  /\ \A e \in {"json", "yaml"}, t \in Source : compiled(e, t) \in CompileErrors \cup {"ok"}
  /\ \A a, b \in Source : output_of(a, b).aborted => output_of(a, b).errors # 0
  /\ MaxCommands \in Nat /\ MaxEdits \in Nat

VARIABLES
  fs,        (* what each path holds                                       *)
  dirs,      (* the directories that there are                             *)
  cmd,       (* the command that runs, or ran last                         *)
  pc,        (* the access to the file system that comes next, or "idle"   *)
  text,      (* what has been read from cmd.schema,                        *)
  other,     (*   and from cmd.other                                       *)
  pending,   (* what is to be written                                      *)
  ended,     (* how the command ended: "running", "killed", "ok" or why not  *)
  seen,      (* history: what each path held while the command ran         *)
  opened,    (* history: the paths that it opened for writing              *)
  disturbed, (* history: the paths that others changed since then          *)
  commands, edits

vars == <<fs, dirs, cmd, pc, text, other, pending, ended, seen, opened, disturbed, commands, edits>>
history == <<seen, opened, disturbed, commands, edits>>

Inspections == {"inspect", "benchmark", "explain"}
Pairs == {"validate", "compatibility"}
Writers == {"normalize", "generate"}

Command ==
       [do : Inspections, schema : Path, other : {None}, output : {None}]
  \cup [do : Writers, schema : Path, other : {None}, output : Path \cup {None}]
  \cup [do : Pairs, schema : Path, other : Path, output : {None}]
  \cup [do : {"lock"}, schema : Path, other : {None}, output : Path]
  \cup {[do |-> "vendor", schema |-> v[1], other |-> None, output |-> v[2]] : v \in Vendored}
  (* A schema such as x/.. has no file name.                               *)
  \cup [do : {"vendor"}, schema : Path, other : {None}, output : {None}]

(* What commands write, and the part of it that a write cut short leaves.  *)
Code(p, t) == [made |-> "code", schema |-> p, of |-> t]
Normalized(p, t) == [made |-> "normalized", schema |-> p, of |-> t]
Lock(entries) == [made |-> "lock", entries |-> entries]
Torn(t) == [made |-> "torn", of |-> t]

-----------------------------------------------------------------------------
(* The lock file.                                                          *)

LockEntry(uri, digest, bytes) == [uri |-> uri, digest |-> digest, size |-> bytes]

upsert(entries, entry) ==
  IF \E i \in DOMAIN entries : entries[i].uri = entry.uri
  THEN LET i == CHOOSE j \in DOMAIN entries :
                  entries[j].uri = entry.uri /\ \A k \in 1 .. (j - 1) : entries[k].uri # entry.uri
       IN [entries EXCEPT ![i] = entry]
  ELSE Append(entries, entry)

(* The results that LockFile::read_from_path may have on a text.  entries  *)
(* may be left out, so an empty file is a lock file; size comes last, so   *)
(* one that is cut short within it is a lock file too.                     *)
read_from_path(t) ==
  LET error == [ok |-> FALSE, entries |-> <<>>]
      Entries(e) == [ok |-> TRUE, entries |-> e]
      Short(e, n) == [e EXCEPT ![Len(e)].size = @ \div n]
      Lengths(e) == {n \in {10, 100} : n <= e[Len(e)].size}
  IN CASE t = Empty -> {Entries(<<>>)}
       [] t \in Source \ {Empty} -> {error}
       [] t \notin Source /\ t.made = "lock" -> {Entries(t.entries)}
       [] t \notin Source /\ t.made = "torn" /\ t.of \notin Source /\ t.of.made = "lock" ->
            {error} \cup {Entries(Short(t.of.entries, n)) : n \in Lengths(t.of.entries)}
       [] OTHER -> {error}

-----------------------------------------------------------------------------
(* Errors and exit codes.                                                  *)

(* Mutant of from_compile: a cyclic reference counts as a syntax error.    *)
from_compileCyclic(e) == IF e = "UnresolvedRef" THEN "Resolver" ELSE "Parse"

from_compile(e) ==
  IF e \in {"UnresolvedRef", "CyclicRef", "DepthExceeded"} THEN "Resolver" ELSE "Parse"

to_exit_code(e) ==
  CASE e \in {"Parse", "ValidationFailed"} -> 1
    [] e = "Resolver" -> 2
    [] e = "Codegen" -> 3
    [] e = "Schema" -> 4
    [] OTHER -> 5

compile_text(p, t) ==
  LET result == compiled(ext[p], t) IN IF result = "ok" THEN "ok" ELSE from_compile(result)

-----------------------------------------------------------------------------
(* What the handlers compute from the text of cmd.schema: "ok" or the error *)
(* that they return.  For validate and compatibility that is as far as they *)
(* get before they read the other file.                                    *)

load_schema(p, t) == compile_text(p, t)

cmd_inspect(p, t) == load_schema(p, t)
cmd_benchmark(p, t) == compile_text(p, t)
cmd_explain(p, t) == load_schema(p, t)

cmd_normalize(p, t) == IF openapi(ext[p], t) THEN "ok" ELSE "OpenApi"

cmd_generate(p, t) ==
  IF load_schema(p, t) # "ok" THEN load_schema(p, t)
  ELSE IF generated(t) THEN "ok" ELSE "Codegen"

Computed(c, t) ==
  CASE c.do = "inspect" -> cmd_inspect(c.schema, t)
    [] c.do = "benchmark" -> cmd_benchmark(c.schema, t)
    [] c.do = "explain" -> cmd_explain(c.schema, t)
    [] c.do = "compatibility" -> load_schema(c.schema, t)
    [] c.do = "normalize" -> cmd_normalize(c.schema, t)
    [] c.do = "generate" -> cmd_generate(c.schema, t)
    [] c.do \in {"validate", "lock"} -> "ok"

report_validation(output) ==
  IF output.errors = 0 /\ ~output.aborted THEN "ok" ELSE "ValidationFailed"

cmd_validate(s, i) ==
  IF ~json(s) \/ ~json(i) THEN "Parse"
  ELSE IF ~built(s) THEN "Schema"
  ELSE report_validation(output_of(s, i))

cmd_compat(p, a, b) ==
  IF load_schema(p, b) # "ok" THEN load_schema(p, b)
  ELSE IF breaks(a, b) THEN "ValidationFailed" ELSE "ok"

(* cmd_lock: one entry, in a lock file that starts empty.                  *)
locked(p, t) == Lock(upsert(<<>>, LockEntry(p, t, size(t))))

write_of(c, t) ==
  CASE c.do = "generate" -> Code(c.schema, t)
    [] c.do = "normalize" -> Normalized(c.schema, t)
    [] c.do = "lock" -> locked(c.schema, t)
    [] OTHER -> None

-----------------------------------------------------------------------------
(* The bindings, on the same texts.                                        *)

from_json(s) == IF ~json(s) THEN "JsonParse" ELSE IF ~built(s) THEN "Schema" ELSE "ok"

(* CompiledSchema::validate_json: how many messages, or that it fails.     *)
CompiledSchema_validate_json(s, i) ==
  IF ~json(i) THEN [failed |-> TRUE, messages |-> 0]
  ELSE [failed |-> FALSE,
        messages |-> IF report_validation(output_of(s, i)) = "ok" THEN 0 ELSE output_of(s, i).errors]

(* Mutant of validate_json: what does not parse has no errors.             *)
validate_jsonLenient(s, i) ==
  from_json(s) = "ok" /\ CompiledSchema_validate_json(s, i).messages = 0

(* The free function: whether it returns Ok.                               *)
validate_json(s, i) ==
  /\ from_json(s) = "ok"
  /\ LET result == CompiledSchema_validate_json(s, i) IN ~result.failed /\ result.messages = 0

-----------------------------------------------------------------------------
Init ==
  /\ fs \in [Path -> Source \cup {NoFile}]
  /\ dirs \in SUBSET Dir
  /\ \A p \in Path : fs[p] # NoFile => dir[p] \in dirs
  /\ cmd = None /\ pc = "idle" /\ ended = "running"
  /\ text = None /\ other = None /\ pending = None
  /\ seen = [p \in Path |-> {}] /\ opened = {} /\ disturbed = {}
  /\ commands = 0 /\ edits = 0

(* The process ends with a result, of which main makes the exit code.      *)
Return(result) ==
  /\ ended' = result
  /\ pc' = "idle"

Start(c) ==
  /\ pc = "idle" /\ commands < MaxCommands
  /\ cmd' = c
  /\ pc' = IF c.do = "vendor" THEN "mkdir" ELSE "read"
  /\ ended' = "running"
  /\ text' = None /\ other' = None /\ pending' = None
  /\ seen' = [p \in Path |-> {fs[p]}] /\ opened' = {} /\ disturbed' = {}
  /\ commands' = commands + 1
  /\ UNCHANGED <<fs, dirs, edits>>

(* Any access to the file system may fail; nothing has happened then.      *)
Fails ==
  /\ pc # "idle"
  /\ Return("Io")
  /\ UNCHANGED <<fs, dirs, cmd, text, other, pending, history>>

(* Mutant of ReadSchema: the output is opened before there is one.         *)
ReadSchemaIntoFile ==
  LET t == fs[cmd.schema]
      result == Computed(cmd, t)
  IN /\ pc = "read" /\ t # NoFile
     /\ utf8(t) \/ cmd.do = "lock"
     /\ text' = t
     /\ pending' = write_of(cmd, t)
     /\ opened' = {cmd.output} \ {None}
     /\ fs' = IF cmd.output = None THEN fs ELSE [fs EXCEPT ![cmd.output] = Empty]
     /\ IF result = "ok" /\ cmd.output # None
        THEN pc' = "write" /\ UNCHANGED ended
        ELSE IF result = "ok" /\ cmd.do \in Pairs
        THEN pc' = "read other" /\ UNCHANGED ended
        ELSE Return(result)
     /\ UNCHANGED <<dirs, cmd, other, seen, disturbed, commands, edits>>

(* read_file, which takes UTF-8 only, or fs::read in cmd_lock; then what    *)
(* the handler does up to its next access.                                 *)
ReadSchema ==
  LET t == fs[cmd.schema]
      result == Computed(cmd, t)
  IN /\ pc = "read" /\ t # NoFile
     /\ utf8(t) \/ cmd.do = "lock"
     /\ text' = t
     /\ IF result = "ok" /\ cmd.do \in Pairs
        THEN pc' = "read other" /\ UNCHANGED <<pending, ended>>
        ELSE IF result = "ok" /\ cmd.output # None
        THEN pc' = "open" /\ pending' = write_of(cmd, t) /\ UNCHANGED ended
        ELSE Return(result) /\ UNCHANGED pending
     /\ UNCHANGED <<fs, dirs, cmd, other, history>>

ReadOther ==
  LET t == fs[cmd.other] IN
  /\ pc = "read other" /\ t # NoFile /\ utf8(t)
  /\ other' = t
  /\ Return(IF cmd.do = "validate" THEN cmd_validate(text, t) ELSE cmd_compat(cmd.other, text, t))
  /\ UNCHANGED <<fs, dirs, cmd, text, pending, history>>

(* Mutant of CreateDir: a path without a file name is copied all the same. *)
CreateDirNameless ==
  /\ pc = "mkdir" /\ pc' = "open"
  /\ dirs' = dirs \cup (IF cmd.output = None THEN {} ELSE {dir[cmd.output]})
  /\ UNCHANGED <<fs, cmd, text, other, pending, ended, history>>

(* cmd_vendor: the directory is made before the file name is looked at.    *)
CreateDir ==
  /\ pc = "mkdir"
  /\ IF cmd.output = None
     THEN /\ Return("Internal")
          /\ dirs' \in {dirs \cup {d} : d \in Dir}
     ELSE /\ pc' = "open"
          /\ dirs' = dirs \cup {dir[cmd.output]}
          /\ UNCHANGED ended
  /\ UNCHANGED <<fs, cmd, text, other, pending, history>>

(* Mutant of Open: a source that cannot be opened counts as empty.         *)
OpenBlindly ==
  LET p == cmd.output IN
  /\ pc = "open" /\ dir[p] \in dirs
  /\ fs' = [fs EXCEPT ![p] = Empty]
  /\ opened' = {p} /\ pc' = "write"
  /\ pending' = IF cmd.do # "vendor" THEN pending
                ELSE IF fs'[cmd.schema] = NoFile THEN Empty ELSE fs'[cmd.schema]
  /\ UNCHANGED <<dirs, cmd, text, other, ended, seen, disturbed, commands, edits>>

(* Mutant of Open: the size in the lock file is asked of the file system.  *)
OpenAsksSize ==
  LET p == cmd.output IN
  /\ pc = "open" /\ dir[p] \in dirs
  /\ fs[cmd.schema] # NoFile
  /\ fs' = [fs EXCEPT ![p] = Empty]
  /\ opened' = {p} /\ pc' = "write"
  /\ pending' = CASE cmd.do = "vendor" -> fs'[cmd.schema]
                  [] cmd.do = "lock" ->
                       Lock(<<LockEntry(cmd.schema, text, size(fs[cmd.schema]))>>)
                  [] OTHER -> pending
  /\ UNCHANGED <<dirs, cmd, text, other, ended, seen, disturbed, commands, edits>>

(* fs::write and fs::copy create the file, or truncate it; fs::copy opens   *)
(* its source first, and reads it after.                                   *)
Open ==
  LET p == cmd.output IN
  /\ pc = "open" /\ dir[p] \in dirs
  /\ cmd.do = "vendor" => fs[cmd.schema] # NoFile
  /\ fs' = [fs EXCEPT ![p] = Empty]
  /\ opened' = {p} /\ pc' = "write"
  /\ pending' = IF cmd.do = "vendor" THEN fs'[cmd.schema] ELSE pending
  /\ UNCHANGED <<dirs, cmd, text, other, ended, seen, disturbed, commands, edits>>

(* What the open file can hold when all of it is written: others may have   *)
(* replaced it, or changed it or the source of a copy in place.            *)
Whole ==
  {pending}
    \cup (IF cmd.do = "vendor" /\ cmd.schema \in disturbed
          THEN {fs[cmd.schema], Torn(pending)} \ {NoFile} ELSE {})
    \cup (IF cmd.output \in disturbed THEN {fs[cmd.output], Torn(pending)} ELSE {})

(* What it can hold when only some of it is.                               *)
Part ==
  {fs[cmd.output]} \cup
  (IF fs[cmd.output] = NoFile \/ pending = Empty THEN {} ELSE {Torn(pending)})

Write ==
  /\ pc = "write"
  /\ \E t \in Whole : fs' = [fs EXCEPT ![cmd.output] = t]
  /\ Return("ok")
  /\ UNCHANGED <<dirs, cmd, text, other, pending, history>>

WriteFails ==
  /\ pc = "write"
  /\ \E t \in Part : fs' = [fs EXCEPT ![cmd.output] = t]
  /\ Return("Io")
  /\ UNCHANGED <<dirs, cmd, text, other, pending, history>>

Kill ==
  /\ pc # "idle"
  /\ ended' = "killed" /\ pc' = "idle"
  /\ IF pc = "write"
     THEN \E t \in Part : fs' = [fs EXCEPT ![cmd.output] = t]
     ELSE UNCHANGED fs
  /\ UNCHANGED <<dirs, cmd, text, other, pending, history>>

(* Another program changes, creates or removes a file.                     *)
Edit(p, t) ==
  /\ edits < MaxEdits
  /\ t # fs[p] /\ dir[p] \in dirs
  /\ fs' = [fs EXCEPT ![p] = t]
  /\ seen' = [seen EXCEPT ![p] = @ \cup {t}]
  /\ disturbed' = IF opened = {} THEN {} ELSE disturbed \cup {p}
  /\ edits' = edits + 1
  /\ UNCHANGED <<dirs, cmd, pc, text, other, pending, ended, opened, commands>>

Next ==
  \/ \E c \in Command : Start(c)
  \/ Fails \/ ReadSchema \/ ReadOther \/ CreateDir \/ Open \/ Write \/ WriteFails \/ Kill
  \/ \E p \in Path, t \in Source \cup {NoFile} : Edit(p, t)

Spec == Init /\ [][Next]_vars

-----------------------------------------------------------------------------
(* Values have their types.                                                *)
TypeOK ==
  /\ DOMAIN fs = Path /\ dirs \subseteq Dir
  /\ cmd \in Command \cup {None}
  /\ pc \in {"idle", "read", "read other", "mkdir", "open", "write"}
  /\ pc # "idle" => cmd \in Command
  /\ pc = "read" => cmd.do # "vendor"
  /\ pc \in {"open", "write"} => cmd.output \in Path
  /\ pc = "read other" => cmd.do \in Pairs
  /\ ended \in CliError \cup {"running", "killed", "ok"}
  /\ pc # "idle" => ended = "running"
  /\ DOMAIN seen = Path
  /\ opened \subseteq Path /\ disturbed \subseteq Path
  /\ commands \in 0 .. MaxCommands /\ edits \in 0 .. MaxEdits

(* A command that refuses its input has not opened any file for writing: an *)
(* earlier output is still there, whole (write_or_print, fs::write).       *)
RefusalLeavesFiles == ended \in Refusals => opened = {}

(* What is wrong with the text a that a command is given, and with the      *)
(* other one: B holds it, or nothing if it was not read.                   *)
Problems(c, a, B) ==
  LET Schemas == IF c.do \in Inspections \cup {"generate", "compatibility"}
                 THEN {<<c.schema, a>>} \cup {<<c.other, b>> : b \in B} ELSE {}
      Errors == {compiled(ext[s[1]], s[2]) : s \in Schemas} \ {"ok"}
      OfRefs == {"UnresolvedRef", "CyclicRef", "DepthExceeded"}
      invalid(b) == output_of(a, b).errors # 0 \/ output_of(a, b).aborted
  IN    {"Parse" : e \in Errors \ OfRefs}
   \cup {"Resolver" : e \in Errors \cap OfRefs}
   \cup {"Parse" : t \in {t \in {a} \cup B : c.do = "validate" /\ ~json(t)}}
   \cup {"ValidationFailed" : b \in {b \in B : c.do = "validate" /\ invalid(b)}}
   \cup {"ValidationFailed" :
            b \in {b \in B : c.do = "compatibility" /\ Errors = {} /\ breaks(a, b)}}
   \cup {k \in {"Codegen"} : c.do = "generate" /\ ~generated(a)}
   \cup {k \in {"Schema"} : c.do = "validate" /\ ~built(a)}
   \cup {k \in {"OpenApi"} : c.do = "normalize" /\ ~openapi(ext[c.schema], a)}

(* The texts that a command can have read from a path.                     *)
ReadFrom(p) == {t \in seen[p] : t # NoFile /\ (utf8(t) \/ cmd.do \in {"lock", "vendor"})}
OtherRead == IF cmd.other = None THEN {} ELSE {{b} : b \in ReadFrom(cmd.other)}

(* A command succeeds only when nothing is wrong with its files, and an     *)
(* error other than that of a failed access names something that is wrong,  *)
(* with texts that they held while it ran: cmd_* of main.rs, from_compile. *)
VerdictExact ==
  pc = "idle" /\ cmd # None /\ cmd.do # "vendor" =>
    /\ ended = "ok" =>
         \E a \in ReadFrom(cmd.schema), B \in (IF cmd.other = None THEN {{}} ELSE OtherRead) :
           Problems(cmd, a, B) = {}
    /\ ended \in Refusals =>
         \E a \in ReadFrom(cmd.schema), B \in {{}} \cup OtherRead : ended \in Problems(cmd, a, B)

(* What a command is to write for a text of its schema.                    *)
Outputs(c, t) ==
  CASE c.do = "generate" -> {Code(c.schema, t)}
    [] c.do = "normalize" -> {Normalized(c.schema, t)}
    [] c.do = "vendor" -> {t}
    [] OTHER -> {Lock(<<[uri |-> c.schema, digest |-> t, size |-> size(t)]>>)}

(* A command other than a vendor onto the schema itself that reports        *)
(* success has left its whole output, made from one text that the schema   *)
(* had, if nobody else touched the output since it was opened, nor the     *)
(* schema while a vendor copied it.                                        *)
OutputTrue ==
  /\ pc = "idle" /\ cmd # None /\ ended = "ok"
  /\ cmd.output # None /\ cmd.output \notin disturbed
  /\ cmd.do = "vendor" => cmd.output # cmd.schema /\ cmd.schema \notin disturbed
  => \E t \in ReadFrom(cmd.schema) : fs[cmd.output] \in Outputs(cmd, t)

(* The exit codes that the comments on CliError give (error.rs:27-51).     *)
documented(e) ==
  CASE e \in {"Parse", "ValidationFailed"} -> 1
    [] e = "Resolver" -> 2
    [] e = "Codegen" -> 4
    [] e = "Schema" -> 5
    [] e \in {"Io", "OpenApi", "Internal"} -> 6

(* The exit code of every error is the one that CliError documents.        *)
DocumentedCodes == ended \in CliError => to_exit_code(ended) = documented(ended)

(* Whatever becomes of a lock command, killed or failed while it wrote, the *)
(* lock file that it leaves reads as an error, as no entries, or as one     *)
(* entry with the digest of a text that the schema had and a size no larger *)
(* than that text's; if it succeeded, with its size.                       *)
LockHonest ==
  pc = "idle" /\ cmd # None /\ cmd.do = "lock" /\ opened # {} /\ cmd.output \notin disturbed =>
    \A result \in read_from_path(fs[cmd.output]) :
      \/ ended # "ok" /\ result.entries = <<>>
      \/ \E t \in ReadFrom(cmd.schema) : \E n \in 0 .. size(t) :
           /\ result.ok /\ result.entries = <<LockEntry(cmd.schema, t, n)>>
           /\ ended = "ok" => n = size(t)

(* sfg validate and the bindings' validate_json agree on the same texts.   *)
BindingsAgree ==
  pc = "idle" /\ cmd # None /\ cmd.do = "validate" /\ other # None /\ ended \in Refusals \cup {"ok"} =>
    (ended = "ok" <=> validate_json(text, other))
=============================================================================
