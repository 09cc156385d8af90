------------------------------ MODULE Emission ------------------------------
(***************************************************************************)
(* The code generator (codegen-rust): `generate' names and declares one    *)
(* Rust type for each `$defs' entry, for the root, and for each property   *)
(* that has properties itself.  Names come from one set, `alloc'; the      *)
(* fields of a struct refer to names whose declarations are emitted later. *)
(*                                                                         *)
(* The recursion of generate_node is a machine: `todo' holds the nodes     *)
(* still to generate, and the loops of emit_struct take one property a     *)
(* step.  The emitted text is the sequence of declarations.                *)
(***************************************************************************)
EXTENDS Naturals, Sequences, FiniteSets

CONSTANTS
  Node,
  Key,       \* keys of properties and `$defs', each with its position
  Word,      \* words that names are made of; a number is "_1", "_2", ...
  Root, ValidationError,   \* two of the words
  TypeName,  \* sanitize_type_name of a key
  FieldName, \* sanitize_field_name of a key
  Documents,
  MaxBytes,  \* the size limit, in declarations
  Unnamed, Primitive       \* no name; a type that inferred_to_rust_type gives

(* A name is the sequence of its words: format! concatenates.              *)
Name == Seq(Word \cup Nat)

NodeData ==
  [props : Seq([key : Key, node : Node]), never : BOOLEAN, object : BOOLEAN, union : BOOLEAN,
   tier : {"Nominal", "Structural", "Dynamic", "Unsupported"}, contradictory : BOOLEAN]

Document == [node : [Node -> NodeData], root : Node, defs : Seq([key : Key, node : Node])]

ASSUME WordAssumption ==
  Root \in Word /\ ValidationError \in Word /\ Unnamed \notin Name /\ Primitive \notin Name

ASSUME NamingAssumption == TypeName \in [Key -> Name] /\ FieldName \in [Key -> Name]

ASSUME LimitAssumption == MaxBytes \in Nat

ASSUME DocumentsAssumption ==
  Documents \subseteq Document

VARIABLES
  doc,
  pc,        \* "analyse", "defs", "generate", "nested", "fields" or "done"
  next,      \* how many of the defs, and then the root, have been started
  todo,      \* nodes to generate, with their names
  nested,    \* nested_type_names of the struct at the head of todo, so far
  fields,    \* its fields, so far
  declared,  \* the output
  alloc,     \* names in use
  outcome

vars == <<doc, pc, next, todo, nested, fields, declared, alloc, outcome>>

-----------------------------------------------------------------------------
(* Mutant of unique_name: the second choice is not looked up.              *)
unique_nameOnce(proposed, used) ==
  IF proposed \notin used THEN proposed ELSE Append(proposed, 1)

(* The proposed name, or the first numbered one that is free.              *)
unique_name(proposed, used) ==
  IF proposed \notin used THEN proposed
  ELSE LET free == {i \in 1..Cardinality(used) + 1 : Append(proposed, i) \notin used}
       IN Append(proposed, CHOOSE i \in free : \A j \in free : i <= j)

props(n) == doc.node[n].props

current == Head(todo)

(* What generate_node declares for a node.                                 *)
form(n) ==
  LET d == doc.node[n]
  IN CASE d.never \/ d.tier = "Unsupported" -> "never"
       [] ~d.never /\ d.tier = "Nominal" ->
            IF d.object \/ d.props # <<>> THEN "struct" ELSE "alias"
       [] ~d.never /\ d.tier = "Structural" -> IF d.union THEN "enum" ELSE "alias"
       [] ~d.never /\ d.tier = "Dynamic" -> "dynamic"

Declaration(fs) ==
  [name |-> current.name, node |-> current.node, form |-> form(current.node), fields |-> fs]

-----------------------------------------------------------------------------
(* Mutant of Reserved: the name of the root is not taken in advance.       *)
ReservedNone == {}

Reserved == {<<Root>>}

Init ==
  /\ doc \in Documents
  /\ pc = "analyse"
  /\ next = 0
  /\ todo = <<>> /\ nested = <<>> /\ fields = <<>> /\ declared = <<>>
  /\ alloc = Reserved
  /\ outcome = "running"

Stop(result) == pc' = "done" /\ outcome' = result

(* The analysis of the root comes first; its errors end the generation.    *)
AnalyseRoot ==
  /\ pc = "analyse"
  /\ IF doc.node[doc.root].contradictory
     THEN Stop("unsupported")
     ELSE pc' = "defs" /\ UNCHANGED outcome
  /\ UNCHANGED <<doc, next, todo, nested, fields, declared, alloc>>

(* An iteration of emit_defs.  The name is taken before the analysis.      *)
EmitDef ==
  /\ pc = "defs" /\ next < Len(doc.defs)
  /\ LET def == doc.defs[next + 1]
         name == unique_name(TypeName[def.key], alloc)
     IN /\ alloc' = alloc \cup {name}
        /\ IF doc.node[def.node].contradictory
           THEN Stop("unsupported") /\ UNCHANGED <<next, todo>>
           ELSE /\ pc' = "generate"
                /\ next' = next + 1
                /\ todo' = <<[node |-> def.node, name |-> name]>>
                /\ UNCHANGED outcome
  /\ UNCHANGED <<doc, nested, fields, declared>>

EmitRoot ==
  /\ pc = "defs" /\ next = Len(doc.defs)
  /\ pc' = "generate"
  /\ next' = next + 1
  /\ todo' = <<[node |-> doc.root, name |-> <<Root>>]>>
  /\ UNCHANGED <<doc, nested, fields, declared, alloc, outcome>>

(* Mutant of Resume: the end of the recursion is missed.                   *)
ResumeAlways(calls) == todo' = calls /\ pc' = "generate"

(* The calls that remain; none is left when emit_defs or generate goes on. *)
Resume(calls) == todo' = calls /\ pc' = IF calls = <<>> THEN "defs" ELSE "generate"

(* emit_never_type, emit_type_alias, emit_enum and emit_dynamic.           *)
EmitOther ==
  /\ pc = "generate" /\ current.name # Unnamed /\ form(current.node) # "struct"
  /\ declared' = Append(declared, Declaration(<<>>))
  /\ Resume(Tail(todo))
  /\ UNCHANGED <<doc, next, nested, fields, alloc, outcome>>

(* emit_nested_struct_defs passes over a property without a type name.     *)
SkipProperty ==
  /\ pc = "generate" /\ current.name = Unnamed
  /\ Resume(Tail(todo))
  /\ UNCHANGED <<doc, next, nested, fields, declared, alloc, outcome>>

EnterStruct ==
  /\ pc = "generate" /\ current.name # Unnamed /\ form(current.node) = "struct"
  /\ pc' = "nested"
  /\ nested' = <<>>
  /\ UNCHANGED <<doc, next, todo, fields, declared, alloc, outcome>>

(* Mutant of NestedName: names are unique among the siblings only.         *)
NestedNameAmongSiblings(property) ==
  unique_name(current.name \o TypeName[property.key], {nested[i] : i \in DOMAIN nested})

NestedName(property) == unique_name(current.name \o TypeName[property.key], alloc)

(* An iteration of compute_nested_type_names.                              *)
NameNested ==
  /\ pc = "nested" /\ Len(nested) < Len(props(current.node))
  /\ LET property == props(current.node)[Len(nested) + 1]
     IN IF props(property.node) = <<>>
        THEN nested' = Append(nested, Unnamed) /\ UNCHANGED alloc
        ELSE /\ nested' = Append(nested, NestedName(property))
             /\ alloc' = alloc \cup {NestedName(property)}
  /\ UNCHANGED <<doc, pc, next, todo, fields, declared, outcome>>

EnterFields ==
  /\ pc = "nested" /\ Len(nested) = Len(props(current.node))
  /\ pc' = "fields"
  /\ fields' = <<>>
  /\ UNCHANGED <<doc, next, todo, nested, declared, alloc, outcome>>

(* The names that emit_struct_fields has given.                            *)
used_names == {fields[i].field : i \in DOMAIN fields}

(* An iteration of emit_struct_fields.                                     *)
EmitField ==
  /\ pc = "fields" /\ Len(fields) < Len(nested)
  /\ LET i == Len(fields) + 1
     IN fields' = Append(fields,
          [field |-> unique_name(FieldName[props(current.node)[i].key], used_names),
           type |-> IF nested[i] = Unnamed THEN Primitive ELSE nested[i]])
  /\ UNCHANGED <<doc, pc, next, todo, nested, declared, alloc, outcome>>

(* Mutant of Properties: only a property that becomes a struct goes on.    *)
PropertiesOnlyStructs ==
  [i \in DOMAIN nested |->
    LET n == props(current.node)[i].node
    IN [node |-> n, name |-> IF form(n) = "struct" THEN nested[i] ELSE Unnamed]]

(* The calls of emit_nested_struct_defs.                                   *)
Properties ==
  [i \in DOMAIN nested |-> [node |-> props(current.node)[i].node, name |-> nested[i]]]

EndStruct ==
  /\ pc = "fields" /\ Len(fields) = Len(nested)
  /\ declared' = Append(declared, Declaration(fields))
  /\ Resume(Properties \o Tail(todo))
  /\ UNCHANGED <<doc, next, nested, fields, alloc, outcome>>

check_size_limit ==
  /\ pc = "defs" /\ next = Len(doc.defs) + 1
  /\ Stop(IF Len(declared) > MaxBytes THEN "size exceeded" ELSE "ok")
  /\ UNCHANGED <<doc, next, todo, nested, fields, declared, alloc>>

Done == pc = "done" /\ UNCHANGED vars

Next ==
  \/ AnalyseRoot \/ EmitDef \/ EmitRoot \/ EmitOther \/ SkipProperty \/ EnterStruct
  \/ NameNested \/ EnterFields \/ EmitField \/ EndStruct \/ check_size_limit \/ Done

Spec == Init /\ [][Next]_vars

-----------------------------------------------------------------------------
NamedNode == [node : Node, name : Name \cup {Unnamed}]

Field == [field : Name, type : Name \cup {Primitive}]

Output ==
  [name : Name, node : Node, fields : Seq(Field),
   form : {"never", "struct", "alias", "enum", "dynamic"}]

Types ==
  /\ doc \in Documents
  /\ pc \in {"analyse", "defs", "generate", "nested", "fields", "done"}
  /\ next \in 0..Len(doc.defs) + 1
  /\ todo \in Seq(NamedNode)
  /\ nested \in Seq(Name \cup {Unnamed})
  /\ fields \in Seq(Field)
  /\ declared \in Seq(Output)
  /\ alloc \subseteq Name /\ IsFiniteSet(alloc)
  /\ outcome \in {"running", "unsupported", "size exceeded", "ok"}

(* What the control implies: the loops of a struct are about a struct with *)
(* a name, nested follows its properties, and fields follows nested.       *)
Shape ==
  /\ outcome = "running" <=> pc # "done"
  /\ todo # <<>> <=> pc \in {"generate", "nested", "fields"}
  /\ pc \in {"nested", "fields"} =>
       current.name # Unnamed /\ Len(nested) <= Len(props(current.node))
  /\ pc = "fields" => Len(fields) <= Len(nested) /\ Len(nested) = Len(props(current.node))

(* The types of the state, and the shape of the recursion.                 *)
TypeOK == Types /\ Shape

(* No two declarations have the same name, whatever names the document     *)
(* uses: its defs, nested properties and numbered names share one          *)
(* allocator (emit.rs, compute_nested_type_names).                         *)
TypesDistinct ==
  \A i, j \in DOMAIN declared : declared[i].name = declared[j].name => i = j

(* The name Root is the root's, even if a def is called Root (lib.rs,      *)
(* generate).                                                              *)
RootIsRoot ==
  \A i \in DOMAIN declared : declared[i].name = <<Root>> => declared[i].node = doc.root

(* In a complete output each field whose type was given a name refers to a *)
(* type that is declared, and declared for the schema of that property.    *)
FieldTypesDeclared ==
  outcome = "ok" =>
    \A i \in DOMAIN declared : \A f \in DOMAIN declared[i].fields :
      declared[i].fields[f].type # Primitive =>
        \E j \in DOMAIN declared :
          /\ declared[j].name = declared[i].fields[f].type
          /\ declared[j].node = props(declared[i].node)[f].node

(* Two keys of an object never become one field of its struct.             *)
FieldsDistinct ==
  \A i \in DOMAIN declared : \A f, g \in DOMAIN declared[i].fields :
    declared[i].fields[f].field = declared[i].fields[g].field => f = g

(* A name stands for one thing wherever the emitted code says it.          *)
NamesDistinct == TypesDistinct /\ RootIsRoot /\ FieldsDistinct

(* The error type of a dynamic schema's validate function is a declaration *)
(* as well.  compute_nested_type_names documents that nested names "cannot *)
(* collide with names produced by `$defs'".                                *)
TypesDeclaredOnce ==
  \A i, j \in DOMAIN declared :
    declared[i].form = "dynamic" =>
      declared[j].name # Append(declared[i].name, ValidationError)
=============================================================================
