# schema-forge: formal models and proofs

TLA+ models of the Rust crates under `src/crates`, the TLC runs that check
them on small instances, and theorems about them that TLAPS checks for every
value of the constants. `PROJECT.json` maps every definition to the lines it
models and lists the runs, hazards, findings and theorems.

    tlc -workers 2 -config MCLowering.cfg MCLowering     # one run
    tlapm LoweringProofs.tla                             # one module of proofs

## 1. The system

schema-forge reads JSON Schema documents (draft 2020-12) and OpenAPI documents
and validates, compiles, analyses and generates code from them. It is a library
of crates and a command line over them. Nothing runs concurrently inside it;
what is hard is deep mutual recursion over documents that refer to themselves,
state that must be put back on every way out of that recursion, several
traversals of one schema that must agree, limits, and a file system that other
processes change while it is read.

| Component (crate) | State | Operations | Talks to | Hard part, and what makes it correct |
|---|---|---|---|---|
| compiler | `LowerCtx`: root, anchors, `visiting`, `node_count` | `compile_value`: collect anchors, `lower_schema` and its mutual recursion | dialect (traversal), ir | cycles and aliases of references, limits, early returns: the verdict is that of the document, `visiting` is balanced, memory is bounded |
| jsonschema, evaluation | `ValidationContext`: two `Cell`s, `depth` and `effective_base_uri`, over an immutable registry | `validate_schema`, `apply_ref`, applicators | resolver (URIs) | cells restored on every path; aborts never inverted; cyclic references end; the answer does not depend on the traversal |
| jsonschema, construction | `Validator`: schema, registry, `anchors_by_doc`, `patterns` | `new`, `add_schema`, `validate` | dialect, resolver | partial failure of `add_schema`, replaced documents, key normalisation |
| jsonschema, unevaluated | none of its own (a depth argument and collected sets) | `unevaluatedProperties`, `unevaluatedItems` | evaluation | a second traversal that must agree with the first |
| resolver, files | `FileResolver`: base directory, byte limit, offline registry | `resolve`, `load_from_path` | the operating system | check and use of a name that changes; FIFOs; growth |
| resolver, offline/limit/network | registry of documents; limits | `register`, `resolve` | one another (decorators) | a registered document is authoritative over the disk, whatever spelling either has; limits are exact at their boundary |
| resolver, URIs and fragments | pure | `resolve_uri`, `normalize_uri`, `remove_dot_segments`, `fragment::apply` | - | every insert and every lookup agree on the key; a reference goes where RFC 3986 sends it |
| resolver, lock file | list of entries | `upsert`, `read`, `write` | CLI | an entry is true of one version of the schema; a file that a dying command left is not mistaken for one |
| ir | pure | `TypeSet` operations | analysis, compiler | - |
| analysis | pure | type narrowing, union classification, `find_breaking_changes` | ir | conservative in the right direction |
| openapi | pure | `parse`, `adapt`, lifting of bodies and components | compiler | moved schemas collide with others; `nullable` and boolean bounds change meaning on the way |
| codegen-rust | set of used names | `generate`, `unique_name` | ir, analysis | unique names whatever the source names |
| dialect | static tables | `detect`, `for_each_schema_child` | - | the traversals of different crates agree |
| cli | files given on the command line | nine commands; exit codes | all | files change between two reads; outputs are written in place; exit codes are what scripts see |
| bindings (node and python over them) | a built validator | `from_json`, `validate_json` | jsonschema | the same verdict as the command line |
| formats, runtime, source, diagnostics | none | parsing of formats, tables, spans, rendering | - | pure data |

## 2. Modules

| Module | Models | Run |
|---|---|---|
| `Lowering` | the lowering pass of the compiler | `MCLowering` |
| `LoweringProofs` | its invariants | |
| `Evaluation` | one call of `Validator::validate` | `MCEvaluation`, with `MCEvaluationAnchors.cfg` a counterexample |
| `EvaluationProofs` | its invariants | |
| `Unevaluated` | `unevaluatedProperties`, `unevaluatedItems` and the evaluation around them | `MCKeywords`, on the tasks of `MCUnevaluated` |
| `Documents` | constants and types of documents | |
| `Library` | abstract: what a validator promises about its documents | |
| `Registry` | `Validator::new`, `add_schema`, `resolve_ref` in any sequence | `MCRegistry` |
| `RegistryProofs` | its invariants, and that it implements `Library` | |
| `Analysis` | `analyse`, `classify`, `find_breaking_changes` over any forest of schemas | `MCAnalysis` |
| `AnalysisProofs` | its invariants | |
| `FileLoad` | one call of `load_from_path`, among other processes | `MCFileLoad` |
| `Emission` | `generate`: declarations, names and field types of the code generator | `MCEmission`, with `MCEmissionErrors.cfg` a counterexample |
| `EmissionProofs` | its invariants | |
| `Uri` | `uri.rs`: resolution and both normalizations | |
| `Rfc3986` | reference: what RFC 3986 makes of the same URIs | |
| `SchemaKeywords` | the keyword lists that every walk over a document shares | |
| `JsonTree` | documents, `fragment.rs`, and the measures of `limit.rs` | |
| `Resolvers` | the four resolvers over one registry, a disk and limits | `MCResolvers` |
| `ResolverProofs` | invariants of `FileLoad`; that the registry of `Resolvers` is exact and authoritative, that fragments lead where they should, and that limits are exact | |
| `Assertions` | `validation.rs`, and the `extract_*` functions of the compiler | |
| `Adaptation` | `adapt.rs`, one schema object | |
| `OpenApi` | the OpenAPI frontend | `MCKeywords`, on the documents of `MCDocuments` (`MCOpenApi`) |
| `KeywordProofs` | invariants of `OpenApi`: extraction and adaptation are exact and keep meanings, value by value; the two traversals of `Unevaluated` agree | |
| `Cli` | `sfg`, the lock file and the bindings | `MCCli`, with `MCCliCodes.cfg` a counterexample |
| `CliProofs` | its invariants | |

### Lowering

`compile_value` walks the document to collect `$anchor`s and then lowers the
root; `lower_schema`, `lower_local_ref` and `lower_object_keywords` call one
another. The model runs that recursion as a machine with an explicit stack. A
frame is an open call of `lower_local_ref` or of `lower_object_keywords`
(the sub-schemas still to lower are its `todo`); `pc` is the call about to be
made, the return, or the unwinding of an error through `?`. `visiting`,
`node_count` and `anchors` are the fields of `LowerCtx`. A document is a finite
set of positions with what the control flow looks at: the JSON kind, an
unsupported keyword, the reference and whether it has siblings, and the order
of sub-schemas in both traversals (the anchor walk also enters a `definitions`
that lowering ignores next to `$defs`). `nodes` is a history variable that
counts the `SchemaNode` values built. `TreeAssumption` is what JSON and the
keyword lists give: finitely many positions, each the child of one other at
most, the root of none.

`MCLowering` checks 29,400 documents of three shapes with four positions, over
bodies that cover every reference form, dangling and external references,
booleans, non-schemas, unsupported keywords and duplicate anchors, with
`MAX_DEPTH` = 2 and a node limit of 7, so that cycles, both limits and
every error are reached. `VerdictExact` compares the outcome with a definition
on the document alone (`Needed`, `Cyclic`, `RefDepth`, `Calls`);
`VisitingExact` (`VisitingIsOpenRefs`: the list is right; `NoRefInsideItself`:
so are the guards that read it), `AnchorsExact` and `IRBounded` are about every
intermediate state.

Read from the code, without a run of its own: the documented limit is on
`SchemaNode` allocations; the code counts calls, and a reference with siblings
builds two nodes for one call.
`IRBounded` (proved) is the bound that does hold: twice the limit plus two.

### Evaluation

A task is a built validator and an instance. A frame is an open
`validate_object_schema` with the locals `depth` and `saved_base`, the keywords
still to apply (in the order of `core::apply` and `applicator::apply`) and the
sub-evaluations the current keyword has still to make. Applicators that merge
the answers of parts of the instance are one keyword `each`; `allOf` and
`dependentSchemas` are `allOf`; `about` are the instances that a keyword does
not pass over (`contains` looks at arrays only). The assertions of
`validation::apply` are the set of values a schema object accepts; a key of
`patternProperties` that has no compiled pattern fails every object, so it takes
the objects out of that set. `unevaluated::apply` has its own module.
URI resolution is a table `resolve`, so the properties hold for any resolution
function. `tainted` is a history variable: something aborted.

`MCEvaluation` evaluates 6,480 tasks over a root document with two sub-schemas
and an added document with one, with references across both documents and
through `$id`, against an array of two members, with `MAX_DEPTH` = 4: deep
enough for a cycle through both documents to hit the guard inside every
applicator. `VerdictMatchesReference` compares the answer with `Meaning`, an
evaluation by recursion on depth that has no cells, no early exit and no order
(a function of the depth left, so that a proof can go from one depth to the next).
`Termination` assumes weak fairness of `Next`: one thread runs the call to its
end, and nothing in it blocks.

Finding (`MCEvaluationAnchors.cfg`): a fragment-only reference inside an added
document is answered by the root document, against the documentation of
`add_schema`.

Read from the code, without a run: `allOf` (applicator.rs:45), and every
keyword that merges, goes on with its next branch after one has aborted. The
depth limit bounds how deep an evaluation nests and not how much it does, so a
schema of n branches that refer to it takes n^MAX_DEPTH steps to abort.
A JSON Pointer (core.rs:83) reaches positions that none of the construction's
walks has visited, with keywords they would have refused.

### Unevaluated

`unevaluated.rs` does not record what the applicators evaluate. It walks the
schemas a second time, with a budget of its own (`MAX_BRANCH_REF_DEPTH`), calls
`validate_schema` again to see which `anyOf`, `oneOf` and `if` branches hold,
and collects names or indices. `validate_schema` is here a function of nesting
depth, schema and base URI; `Walk` is the collection from one schema object,
`Children` are the branches it enters, `LocalParts` what one object evaluates.
Properties and items are one definition: the walk for items starts at the
object itself, looks at the kind before the depth, and stops mattering when
there is an `items`. An evaluation is one step, because nothing it shares
changes between its parts; that the cells are restored is `Evaluation`'s.

`Documented` is one evaluation that returns the evaluated parts with its
answer. `MCKeywords` compares the two on the 33,696 tasks of `MCUnevaluated`, with
two parts, three levels of schemas, cycles, and every applicator at two levels.
`MaxDepth` = 3 makes cycles, and chains through the leaf, exhaust both budgets, so that
`ExceededIsAborted` compares them at their boundary; `exceeded` is a history
variable. `AgreesInOneBase` is restricted to tasks in which no `$id` and no
reference changes the base URI.

Read from the code, without a run: the restriction is needed. The walk resolves
the references of a branch under the base URI of the schema it started from, so
below a nested `$id` it collects the parts of another schema than the one that
was applied; unevaluated.rs:208 treats a sibling `$ref` "like an additional allOf
branch", which is evaluated under its own.

### Registry

A document is what the three walks of its construction look at: schema objects
in the order of `for_each_schema_child` with an unsupported keyword, patterns,
an anchor and a reference, and objects elsewhere in the document that only a
JSON Pointer reaches. `New`, `NewFails`, `AddUnsupported`, `AddFails` and
`AddSchema` are the outcomes of the two calls; `AddFails` keeps the patterns
the walk had merged before the error. `ResolveRef` is a lookup in between. Keys
are normalized URIs, `normalize` is any function from ids.

`Library` is the abstract specification: documents accepted or refused as a
whole under keys, each reference answered by the document it names. `Promise`
instantiates it with the registry; it has neither anchor tables nor patterns.
In `MCRegistry` two ids share one key and documents differ in every way the
walks can refuse, so that every pair of calls (accept, refuse, replace) in
every order is there. `TablesExact` has two parts: `AnchorsInStep`, the two maps
under one key speak of one document, and `PatternsCompiled`.

Read from the code, without a run: an id that normalizes to the empty key
(`"#"`, lib.rs:227) replaces the root's anchors, after which `#name` in the root is answered
by the added document (`ImplementsLibrary` assumes there is no such id);
a pointer into a position the walks do not know reaches unsupported keywords,
and patterns that were not compiled.

### Analysis

The analyses are functions, so the state is a forest of schemas and the two
answers: `Analyse` and `Compare` compute them, and the properties compare them
with `Accepted`, which is the validator's `validation::apply` and applicators
over the same forest. Nodes are numbered with the parts of a node above it. A
`TypeSet` is its set of flags (`from_json` sets the flag of `integer` with that
of `number`); an answer has the inferred types or the path of a
contradiction, which is a node and the number of the part of its `allOf` that
left no type (`{path}/allOf/{i}`, counted from one here). The keywords the analyses never look at are one, `narrowed`,
which takes the strings away. Values carry the representation `serde_json`
gives them, because `is_i64`, `is_f64` and the validator's notion of an integer
disagree about them.

`MCAnalysis` checks 11,438 forests of a root and two parts over eleven values,
among them an integer beyond `i64`, a whole float and a fraction; every
applicator is at the root, `allOf`, `anyOf` and a property also below it, so
that errors and unions nest, and the odd numbers are listed alone and among others.
`InferenceSound` is about both outcomes: the types of an accepted value are
among those inferred, and where a contradiction is reported nothing meets the
node's own keywords and the parts of its `allOf` up to the one that is named; that part
alone may well accept something. `CompatibleKeepsValues` is about schemas with
only the keywords the comparison looks at: what is lost without a report is
lost to an `enum` that the new schema adds or has emptied.

Neither property has a precondition that hides these losses; each names the
values that may be lost, and says that no others are. For inference they are the
numbers listed in an `enum` or a `const` that are neither an `i64` nor have a
fraction (`Known`): `{"type": "integer", "enum": [18446744073709551615]}` accepts its
value and is inferred as never (lib.rs:133). For the comparison they are those an added
or emptied `enum` refuses (lib.rs:312), though lib.rs:272 calls that breaking.

Read from the code, without a run: `any` means all types, not all values;
`{"type": "null"}` is `Dynamic`.

### FileLoad

One load, one action per system call, and one per link that `canonicalize`
follows (realpath reads one directory entry at a time), on a file system that
`Environment` changes between any two of them: unlink, symlink, rename, creation of a file, a
FIFO or a directory, and writes. `fd` is the file behind the descriptor, which
stays what it is whatever happens to its name. Paths are canonical names, some
of them inside the base directory; a request is known by where the kernel's
walk ends and by its lexical normal form. `inside` is a history variable: since
it was opened the file has had a name in the jail. After the open,
`ReadDescriptor` is the readlink of `/proc/self/fd/N` and `FollowLink` and
`PostOpenCanonical` are the walk of what it said; `renamed` is the history of a
file that lost that name before it was walked, and `OnlyJailedBytes` excepts
it. `stat`, `open` and `exists` walk in one step: the properties hold wherever
they end. A name is one entry; links among the directories above it, which the
same walk follows, are not told apart from links at the name. `ProcFd` says whether the
host has `/proc/self/fd`. The base directory itself does not change. The build
for Windows is not modelled.

`MCFileLoad` has two names inside, one outside, two files, a limit of two bytes
and two changes: one change suffices to swap a name between two checks and a
second to swap it back. `Termination` assumes weak fairness of the loader
only; a file that keeps growing or a FIFO without a writer must not hold it.
`QuietLoadExact` keeps the checks from being met by refusing everything.

The exception of `OnlyJailedBytes` is what the two steps of the check after the
open leave: when the open file is renamed between them, the walk is about another
one. The comment at file.rs:128-131 does not make it.

Read from the code, without a run: on a Unix without `/proc/self/fd` the open
file cannot be located, and every load is refused as a jail escape. The run sets
`ProcFd`; the theorems hold for both values.

### Emission

`generate` declares a type for each def, for the root, and for each property
that has properties itself. Its recursion is a machine: `todo` is the list of
`generate_node` calls to come, and the loops of `emit_struct` take a property a
step (`NameNested`, `EmitField`), because `alloc` changes between them. A
property without a type name stays in `todo` as `Unnamed`, and `SkipProperty`
passes over it. The output is the sequence of declarations; a node carries the
form that `generate_node` chooses from its inferred types and class. A name is
a sequence of words and numbers, so that concatenation and `_1`, `_2` are
`\o` and `Append`, and equal names can come from different keys; what
`sanitize_type_name` and `sanitize_field_name` make of a key are constants.
`alloc` starts with `Root`. The size limit counts declarations.

`MCEmission` has two defs, objects nested two deep, and keys that meet by
numbering, by concatenation, through a key that reads like a number, and by
asking for `Root`. Six declarations fit, so that both ends of the limit occur.

`NamesDistinct` has three parts, proved one by one: declared types
(`TypesDistinct`), the root's name (`RootIsRoot`), and the fields of each struct
(`FieldsDistinct`).

Finding (`MCEmissionErrors.cfg`): the error type of a dynamic schema, `{name}ValidationError`, is
declared without asking the allocator.

### Resolvers

The state is the registry, the kind of resolver, whether a `LimitingResolver`
is around it, and the last answer; `log` is the history of registrations. A
load from the disk is one step here, `FileLoad` has its steps. URIs are
sequences of tokens (a scheme, `/`, `?`, `#`, `.`, `..` and words), so that
`Uri` translates each function of `uri.rs` by what it does to separators and
segments; `JsonTree` walks documents by the same keyword lists as the code.

`MCResolvers`: two registrations among five spellings of two identities, one
with an empty and one with a real fragment, one a file URI; then fourteen
references (relative, absolute path, dots, empty segments, fragments, pointers)
against three bases, in the four resolvers, behind `MaxBytes` = 20 and
`MaxDepth` = 3. Two registrations suffice for one to replace another and for
two spellings to meet; the limits are the size and depth of a document of the
disk. `AnswersExact` compares with `Rfc3986`, which is written from the RFC and
not from the code. It is restricted by `Plain` to the requests that the
simplified algorithm is meant for. `PlacesExact` asks of every request what it
leaves open for those outside `Plain`: that the fragment leads to a place that it
names. The places of an anchor are told by `Positions`, which goes from the
root through schemas in schemas round by round, and not from each node down to
the first one found, as the code does; documents have one below `items`, one
under `default`, where it is none, and the same one in a map and, behind an empty
schema, in an array.

What `Plain` leaves out, read from the code: `..` among empty segments and final
dot segments outside file URIs; a slash in the query or fragment of a base,
where `base_directory` cuts (uri.rs:211); a base with an authority and no path,
which gives `https://ref`; references that are only a query or begin with `//`;
a scheme inside a reference's query, taken for an absolute URI. A document that
is registered under a URI with a fragment is stored where no lookup asks
(offline.rs:24). `normalize_uri` reaches into the query when the URI has no
path, and strips one `#` of two. As documented, the size limit counts a `\u`
escape four bytes short; `LimitsExact` has it so.

### Assertions, Adaptation and OpenApi

`Assertions` has the verdict of each assertion keyword (`apply`), and the
constraints that the compiler keeps of the same keywords (`Node`). A value is a
record with its JSON variant; an `f64` counts halves, so that `1.0` and `1` are
different values of the same number. `Adaptation` rewrites one object,
`OpenApi` applies it to all of a schema, after version detection and the
conversion of Swagger documents. `Docs` are parsed documents; JSON and YAML give
the same values. `Json` is a set of values that holds the documents, the instances
that schemas are compared on (`Values`), what is inside each, and what each is
adapted to; `depth` ranks them, since a value is a finite tree (`JsonAssumption`).
The walks over a schema (`adapt_oas30_schema`, and the reference definitions
`Accepts` and `Modern`) are recursive functions over `Json`, so that they can be
proved about; `retain` is the pass of `Vec::retain` with its side effect, one
parameter after the other.

`MCKeywords` runs the frontend and `Unevaluated` side by side. They share no
state, so each goes through all its inputs while the other one has the simplest.
The frontend goes through about 1,450 documents: every version, every combination
of a few values of related keywords (a bound with its exclusive form; `nullable`
with `type`, `enum` and `const`; one of each adapted keyword at two depths), and
Swagger operations with up to three parameters. `AdaptExact` compares, value by
value, what OpenAPI 3.0 means by the schema as written (`Means30`, `Accepts`)
with the validator's verdict on what is extracted. `NodeExact` ties the two
readers of one schema: what the compiler keeps is never stricter than the
validator, and not looser for the keywords that both read. A step runs a whole
function of the frontend, which is pure; what can go wrong is in the data.

`ComponentsExact` says that schemas are lost where `components` is not an object,
and only there: the definitions are dropped then, though the diagnostic says that
they were moved (parse.rs:77). It does not speak of the pointers of names with a
slash or tilde. Names and paths are not escaped in a pointer, so that of a component
`b/c`, and that of every path's schema, leads nowhere in the document (parse.rs:150
and 207, against lib.rs:71).

Left out: the tolerance of `multipleOf`, rounding of large integers to `f64`, and
the order of extracted entries (sets here). Read from the code, without a run:

* an `enum` next to a `const` under `nullable` leaves the `const`, which then
  refuses null; `nullable` with a `type` that is neither a string nor an array
  widens it to all types;
* the paths `/a` and `/a/` give entries of one name;
* `#/definitions/` references are not rewritten when definitions move, and
  definitions replace the schemas that are already there;
* body parameters of a path (not of an operation) stay, the `schema` of a
  Swagger response is not extracted, and a body parameter without a schema is
  removed with nothing in its place; of several bodies the last counts;
* version "3.10" is read as 3.1;
* the compiler keeps the exclusive of two bounds, even where the other one is
  tighter: looser than the validator, never stricter.

### Cli

One command at a time, cut at each access to the file system: `ReadSchema`,
`ReadOther`, `CreateDir`, `Open` (which truncates), `Write`. Between any two,
another program may change a file (`Edit`); any access may fail (`Fails`,
`WriteFails`, which may leave a part), and the process may be killed (`Kill`).
What the library answers about a text is a constant, given here by classes of
texts; `Lowering`, `Evaluation`, `Emission`, `OpenApi` and `Analysis` model those
answers. `seen`, `opened` and `disturbed` are history variables: what each path
has held while the command ran, what it opened for writing, and what others
changed after that. A digest is the text itself. `ended` is how a command ended:
with success or with which `CliError`; `to_exit_code` makes the exit code of it.
Other programs replace files whole. The code reads a file in several calls of
`read`, and `ReadSchema` and `ReadOther` in one step, so what a command reads of
a file that is being rewritten in place (a part of each version) is not modelled.

`MCCli` has seven texts (a schema, a narrower one, one that neither compiles to
Rust nor builds a validator, a cyclic one, one that does not parse, one that is
not UTF-8, and an empty file), three paths, a directory that may be missing, one
command and one edit. Commands keep nothing between them but the files, which
are arbitrary at the start, so that one command shows what any of a sequence
does; one edit suffices to separate two reads, or a read from a write. Deadlock
is not checked: a command that has ended has nothing left to do.
`RefusalLeavesFiles` and `OutputTrue` are about in-place writes, `VerdictExact`
about what success and each error say of the files, `LockHonest` about every file that a lock command leaves, dead
or alive, `BindingsAgree` about the three implementations of one verdict.

`cli_codes` is about what these properties leave out: the comments on
`CliError` give exit codes 4, 5 and 6 where `to_exit_code` has 3, 4 and 5; no
property that holds speaks of these numbers. `OutputTrue` excludes the files that
others touch during a write or a copy, and `vendor` onto the schema itself.

Read from the code, without a run: `vendor` onto the schema itself empties the file
and succeeds (main.rs:391); `vendor` makes its directory before it notices
that there is no file name; `lock` (main.rs:403) starts from an empty list and
overwrites, so that locking a second schema into one file drops the first,
though the lock file's documentation speaks of every externally resolved URI;
the URI recorded for a relative path is `file://a.json`. `LockFile::write_to_path`
has no caller. A panic of `println!` on a closed standard output is not modelled.

## 3. Proofs

TLAPS checks these for every value of the constants; the assumptions are the
named `ASSUME`s of the modules, which every run evaluates, and where a theorem
names others they are given below. An induction is over a set of natural numbers
(`SetInduction`, from the well-foundedness of `<`), because a function defined
by recursion is known to exist only after its existence has been proved, level
by level.

* `LoweringProofs`
  * `TypeCorrect` (`TypeOK` is inductive), `VisitingCorrect` and
    `BudgetBoundsIR`. `VisitingIsOpenRefs` alone is not inductive: popping a
    frame must not uncover a shorter call under a longer one. `WellNested` adds
    that the depths of open calls grow, and the two facts about `visiting` that
    the guards of `lower_local_ref` establish.
  * `AnchorsCorrect`. `Entered` relates the walk to the reference: what has been
    entered, what waits in `unwalked`, and what lies below the waiting are
    together all that the root reaches, without overlap. `TreeAssumption` makes
    the overlap empty; without it the walk would report duplicates of one anchor.
  * `VerdictCorrect`. The invariant `Progress` has a set D of positions that have
    been lowered without error: closed under what they need, free of errors, not
    on a cycle. The open calls are a chain; what they have still to lower and D
    are together all that the root needs; `node_count`, and the calls still to
    come, add up to `Calls`. A success then leaves nothing unlowered, a
    `CyclicRef` closes the chain, `DepthExceeded` is a path that long, and
    `NodeLimitExceeded` counts calls that the document makes. That the reference
    functions exist where there is no cycle is by rank: the number of positions
    that can be reached.
* `EvaluationProofs`
  * `TypeCorrect` (with `Control`, which says where the control can be in each
    frame: an answer finds the keyword that asked), `AbortsStay` and
    `EnvironmentCorrect`. The invariant `Cells` restates `EnvironmentRestored`
    frame by frame so that a push, a pop and a replacement of the innermost frame
    each touch one conjunct.
  * `VerdictCorrect`: the answer is `Meaning`, for every graph of schemas, table
    of references, order of keywords and limit. `Meant` says of each open frame
    that the keywords already applied, the answers of the one being applied and
    the meaning of all that is still to do merge to the meaning of the call, at
    the depth and under the base URI of that frame; `CellsHold` is why the cells
    have those values when the frame goes on.
* `RegistryProofs`: `TypeCorrect`, `TablesCorrect` and `ImplementsLibrary`. The
  refinement needs that no id normalizes to the root's key (see Registry), and
  the invariant `Tied`: the root's anchor table is the root's, and every document
  in use passed all three walks. Each of `NewFails`, `AddUnsupported` and
  `AddFails` maps to a stutter.
* `ResolverProofs`
  * of `FileLoad`: `TypeCorrect`, `JailHolds` and `SizeHolds`. `Checked` says
    which checks have been passed at each `pc`; each of its parts is about the
    descriptor and not a name, which is why the environment cannot break it,
    but for the name read from the descriptor, until it is walked: there the
    environment sets `renamed`.
    `QuietLoadsExact` follows the load along the tree that nobody changes
    (`Quiet`): how far `canonicalize` has got (`IsWalk`), what the name leads to, what has been found regular and inside,
    and that `text` is a prefix of the file. It uses `TreeAssumption`: finitely
    many names, one per file, and no byte outside UTF-8 in what parses as JSON.
  * of `Resolvers`: `RegistryCorrect` and `AuthorityCorrect`. `LatestWins`, of the
    map itself, is what `Authoritative` needs to be inductive; the run checks the
    latter, of the answers. `LatestIsOne` is the lemma between the map and the history. Nothing is used of normalization,
    fragments or sizes, so both hold whatever those compute.
  * `LimitsHold`: the limits are exact for documents of every size and depth.
    `MeasuresExact` goes up the document: at each node the code's size is the
    estimate of what is printed, and its depth the longest way down. Estimates of
    joined texts add up only where no backslash ends the first (`Ends`), which is
    carried along; sums and joins are compared number by number (`TotalPlus`,
    `EstimateFlatten`). That a fragment leads to a node of the document, by
    pointer or by anchor (`PlaceFacts`), and that the recursive functions exist
    (`RecursionExists`) comes first. It supposes what `ResolversAssumption` says of
    a document: parts stand after their node, an object has a key for each, and a
    text has no backslash of its own, for which `Quote` stands.
  * `PlacesHold`: fragments lead to places they name, in documents of every size
    and depth. The search goes down and `Positions` goes round by round, so there are
    two inductions: when nothing is found at the root, nothing is found at any
    position of any round (`NothingFound`); and, from the last node up, what is found
    at a position of an early enough round is a position (`SomethingFound`).
    `RoundFacts` says that rounds only grow.
* `EmissionProofs`: `TypeCorrect`, `NamesCorrect` and `FieldTypesCorrect`.
  `NamesDistinct` needs `Apart`: a name
  is declared, or waits in `todo` or `nested`, at most once, and is in `alloc`.
  `FieldTypesDeclared` is about the end; `Referred` says meanwhile that each
  type named by a field is declared or waits in `todo` for that node. That the
  loop of `unique_name` ends is the pigeonhole lemma `FreeNumber`.
* `AnalysisProofs`: `InferenceCorrect`, `UniformCorrect` and
  `CompatibleCorrect`, from the parts of a node to the node (`NodeInduction`).
  "An accepted value has some type that was inferred" is too weak for a node
  with `allOf`: `1` has two types, and each of two parts could keep another one.
  What is carried upwards is that its least type (`LeastType`: `integer` before
  `number`) is inferred by every node that accepts it, if the value is `Known`. A contradiction is carried
  as what the parts up to the named one leave (`ValuesUpTo`), which is nothing `Known`.
  `CompatibleCorrect` has no precondition on the two `enum`s; its conclusion
  says which values may be lost.
* `KeywordProofs`
  * `NodeSound` and `NodeComplete` (the two halves of `NodeExact`, for every
    schema object and value; the second where both readers read the same
    keywords, `SameKeywords`) and `AdaptationExact` (for one schema object, every
    value means the same before and after). Its hypotheses are that the object is well-formed
    (`NullableOk`: when it is nullable, no `const` beside an `enum`, and `type` a
    string or a list; `BoundsOk`: `minimum` and `maximum` are numbers), that the
    value has a JSON type and that only null is of type null.
  * `SchemaAdapted` carries this over to schemas nested to any depth: what is
    adapted accepts the same values, and is `Modern`. By induction on `depth`; the
    schemas that it speaks of are a set whose members are well-formed in the sense
    above (`Regular`) and which holds the schemas inside each (`Written30`). That
    `adapt_oas30_schema`, `Modern` and `Accepts` exist comes first
    (`RecursionExists`: each reads only what is less deep; a question of `Accepts`
    is as deep as its schema and its value together).
  * `ComponentsExactHolds`, `AdaptExactHolds`, `BodiesExactHolds` and
    `NodeExactHolds` of `OpenApi`, for every set of documents. The invariant `Kept`
    says that `raw` is what the version makes of `input`, and that each result is
    the extraction of `raw`, in whichever order the two are asked for.
    `ComponentsExact` then follows the schemas from `definitions` through the
    conversion to where they are looked for (`FoundGiven`), and the pointer key by
    key (`PointerSteps`). For `BodiesExact`, `RetainExact` says what one pass leaves
    of any list of parameters; `RequestsExact` maps each operation with a body to
    its entry and back: entries of one name, as of the paths `/a` and `/a/`, are told
    apart by their pointers, of which everything but the path cancels
    (`RequestPointers`). `AdaptExactHolds` supposes that the schemas of OpenAPI 3.0
    and Swagger documents are of such a set (`Documents30`), and `BodiesExactHolds`
    also that no Swagger operation has a `requestBody` as it is read and that no two
    paths have the same tokens in a pointer (`Documents20`); `MCOpenApi` checks both
    of its documents (`DocumentsWritten`). The other two suppose nothing.
  * `AgreementHolds` and `BudgetNeverDecides` of `Unevaluated`, for every graph of
    schemas and limit, inside one base URI. The two traversals reach one schema
    at different depths, so that induction on depth alone fails; `Settles` adds
    that an answer which did not abort is the same from any smaller depth, and
    `WalkLive` that the walk below such a schema stays within its budget and
    gathers what the evaluation did. `Agree` is then by depth.
* `CliProofs`: `Types`, `RefusalsLeaveFiles`, `VerdictsExact`, `OutputsTrue`,
  `BindingsAlwaysAgree` and `LocksHonest`,
  for all paths, texts, answers of the library and any number of commands and
  edits. The invariant `IInv` adds to `TypeOK` that each `pc` belongs to its
  commands (`Steps`) and that the texts in memory are among those `seen` (`Texts`);
  `OInv` follows an output from the text it was made of into the file (`OutputsTrue`
  has the exceptions of `OutputTrue`, of which vendor onto itself is one), `Left` what
  a lock command has put at its output at each point where it can die.
  `BindingsAlwaysAgree` assumes that an aborted evaluation reports an error for
  every text (`AbortsCount`, which is `AbortNeverLost` of `Evaluation`). `LocksHonest`
  assumes that what commands write is none of the texts of other programs
  (`WrittenApart`) and that sizes are numbers (`SizesCount`).

Only model-checked: liveness (`Termination` of `Evaluation` and `FileLoad`),
and `AnswersExact` of `Resolvers`. That one does not hold of all that could be
registered: outside file URIs a `..` among empty segments, and a URI with a
fragment, give keys under which no lookup asks (Resolvers, above); a theorem would
need an assumption on `Uris` like `Plain`, and then the algebra of segments and
folds in which `Uri` and `Rfc3986` agree.

## 4. Plan

What was planned is there: `Lowering`, `Evaluation`, `FileLoad`, `Unevaluated`,
`Registry` over `Library`, `Analysis`, `Emission`, `Resolvers` over `Uri`,
`OpenApi` over `Adaptation` and `Assertions`, `Cli` with the lock file and the
bindings; and every safety invariant of these is proved but one of `Resolvers`.
What would add most now: the resolution of URIs proved against its reference, for
plain URIs; a refinement
of `FileLoad` to the one-step load that `Resolvers` assumes, which needs a
prophecy of the file that will be opened; the base URIs that `AgreesInOneBase`
and `Plain` leave out, once the code follows them.

## 5. Not modelled

Text: rendering of diagnostics, spans, the emitted Rust code. Reports that
count or describe a finished schema and that nothing reads back: `explain`,
`inspect`, the benchmark's figures, the hints of `schemaforge-analysis`. Grammars
of `formats` (which format refuses which text is a constant of `Assertions`).
Static tables (`runtime`, dialect detection). Packages for Node and Python, which
pass a call on to the bindings. The Windows build of `file.rs` and `uri.rs`. Stack
use: `MAX_DEPTH` is modelled as a limit on nesting, not on bytes. Tests, fuzzing,
conformance data and CI, which drive the code and are no part of it.
