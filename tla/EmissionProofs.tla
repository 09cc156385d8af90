--------------------------- MODULE EmissionProofs ---------------------------
(***************************************************************************)
(* Invariants of Emission for every set of documents and every way of      *)
(* making names from keys.                                                 *)
(***************************************************************************)
EXTENDS Emission, FiniteSetTheorems, SequenceTheorems, TLAPS

(* Of more choices than there are names in use, two are the same name.     *)
LEMMA TwoAlike ==
  ASSUME NEW used, IsFiniteSet(used), NEW f \in [1 .. Cardinality(used) + 1 -> used]
  PROVE  \E x, y \in 1 .. Cardinality(used) + 1 : x # y /\ f[x] = f[y]
<1> DEFINE n == Cardinality(used) + 1
<1>1. n \in Nat /\ Cardinality(used) < n
  BY FS_CardinalityType
<1>2. IsFiniteSet(1 .. n) /\ Cardinality(1 .. n) = n
  BY <1>1, FS_Interval
<1>3. f \in [1 .. n -> used]
  OBVIOUS
<1> HIDE DEF n
<1>4. \E x, y \in 1 .. n : x # y /\ f[x] = f[y]
  BY <1>1, <1>2, <1>3, FS_PigeonHole
<1>5. QED BY <1>4 DEF n

(* unique_name's loop ends: one of the first Cardinality(used) + 1         *)
(* numbered names is free, and there is a first one.                       *)
LEMMA FreeNumber ==
  ASSUME NEW used, IsFiniteSet(used), NEW p \in Name,
         NEW free, free = {i \in 1 .. Cardinality(used) + 1 : Append(p, i) \notin used}
  PROVE  \E i \in free : \A j \in free : i <= j
<1> DEFINE n == Cardinality(used) + 1
<1>1. n \in Nat /\ Cardinality(used) \in Nat
  BY FS_CardinalityType
<1>2. free # {}
  <2> SUFFICES ASSUME free = {} PROVE FALSE
    OBVIOUS
  <2> DEFINE f == [i \in 1 .. n |-> Append(p, i)]
  <2>1. \A i \in 1 .. n : Append(p, i) \in used
    OBVIOUS
  <2>2. f \in [1 .. n -> used]
    BY <2>1
  <2>3. PICK x, y \in 1 .. n : x # y /\ f[x] = f[y]
    <3> HIDE DEF f
    <3>1. QED BY <1>1, <2>2, TwoAlike
  <2>4. x \in Nat /\ y \in Nat /\ Append(p, x) = Append(p, y)
    BY <1>1, <2>3
  <2>5. p \in Seq(Word \cup Nat) /\ x \in Word \cup Nat /\ y \in Word \cup Nat
    BY <2>4 DEF Name
  <2>6. Append(p, x)[Len(p) + 1] = x /\ Append(p, y)[Len(p) + 1] = y
    BY <2>5
  <2>7. QED BY <2>3, <2>4, <2>6
<1>3. free \subseteq Nat
  BY <1>1
<1>4. PICK i \in free : \A j \in free : ~(<<j, i>> \in OpToRel(<, Nat))
  <2> HIDE DEF n
  <2>1. QED BY <1>2, <1>3, NatLessThanWellFounded, WFMin
<1>5. ASSUME NEW j \in free PROVE i <= j
  <2>1. i \in Nat /\ j \in Nat
    BY <1>3, <1>4, <1>5
  <2>2. j < i => <<j, i>> \in OpToRel(<, Nat)
    BY <2>1 DEF OpToRel
  <2>3. ~(j < i)
    BY <1>4, <1>5, <2>2
  <2>4. QED BY <2>1, <2>3
<1>6. QED BY <1>4, <1>5

(* What unique_name returns is a name that was not in use.                 *)
LEMMA UniqueName ==
  ASSUME NEW used, IsFiniteSet(used), NEW p \in Name
  PROVE  unique_name(p, used) \in Name /\ unique_name(p, used) \notin used
<1>1. CASE p \notin used
  BY <1>1 DEF unique_name
<1>2. CASE p \in used
  <2> DEFINE free == {i \in 1 .. Cardinality(used) + 1 : Append(p, i) \notin used}
             i == CHOOSE k \in free : \A j \in free : k <= j
  <2>1. \E k \in free : \A j \in free : k <= j
    <3>1. free = {k \in 1 .. Cardinality(used) + 1 : Append(p, k) \notin used}
      OBVIOUS
    <3> HIDE DEF free
    <3>2. QED BY <3>1, FreeNumber
  <2>2. i \in free
    BY <2>1
  <2>3. i \in Nat /\ Append(p, i) \notin used
    BY <2>2, FS_CardinalityType
  <2>4. Append(p, i) \in Name
    <3> HIDE DEF i
    <3>1. QED BY <2>3 DEF Name
  <2>5. unique_name(p, used) = Append(p, i)
    BY <1>2 DEF unique_name
  <2>6. QED BY <2>3, <2>4, <2>5
<1>3. QED BY <1>1, <1>2

(* What the accepted documents give for a node.                            *)
LEMMA PropsFacts ==
  ASSUME doc \in Documents, NEW n \in Node
  PROVE  /\ props(n) \in Seq([key : Key, node : Node])
         /\ Len(props(n)) \in Nat
         /\ \A i \in 1 .. Len(props(n)) :
              /\ props(n)[i].node \in Node
              /\ TypeName[props(n)[i].key] \in Name
              /\ FieldName[props(n)[i].key] \in Name
<1>1. props(n) \in Seq([key : Key, node : Node])
  BY DocumentsAssumption DEF props, Document, NodeData
<1>2. Len(props(n)) \in Nat /\ \A i \in 1 .. Len(props(n)) : props(n)[i] \in [key : Key, node : Node]
  BY <1>1, LenProperties, ElementOfSeq
<1>3. QED BY <1>1, <1>2, NamingAssumption

(* What they give for the root and the defs.                               *)
LEMMA DefsFacts ==
  ASSUME doc \in Documents
  PROVE  /\ doc.root \in Node /\ Len(doc.defs) \in Nat
         /\ \A i \in 1 .. Len(doc.defs) :
              doc.defs[i].node \in Node /\ TypeName[doc.defs[i].key] \in Name
<1>1. doc.root \in Node /\ doc.defs \in Seq([key : Key, node : Node])
  BY DocumentsAssumption DEF Document
<1>2. Len(doc.defs) \in Nat /\ \A i \in 1 .. Len(doc.defs) : doc.defs[i] \in [key : Key, node : Node]
  BY <1>1, LenProperties, ElementOfSeq
<1>3. QED BY <1>1, <1>2, NamingAssumption

(* emit_struct_fields has used finitely many names.                        *)
LEMMA UsedNamesFinite ==
  ASSUME fields \in Seq(Field)
  PROVE  used_names \subseteq Name /\ IsFiniteSet(used_names)
<1> DEFINE f == [i \in 1 .. Len(fields) |-> fields[i].field]
<1>1. /\ Len(fields) \in Nat /\ DOMAIN fields = 1 .. Len(fields)
      /\ \A i \in 1 .. Len(fields) : fields[i] \in Field
  BY LenProperties, ElementOfSeq
<1>2. used_names \subseteq Name
  BY <1>1 DEF used_names, Field
<1>3. f \in Surjection(1 .. Len(fields), used_names)
  BY <1>1 DEF used_names, Surjection
<1>4. IsFiniteSet(1 .. Len(fields))
  BY <1>1, FS_Interval
<1> HIDE DEF f
<1>5. QED BY <1>2, <1>3, <1>4, FS_Surjection

(* A nested name is new.                                                   *)
LEMMA NestedNameNew ==
  ASSUME TypeOK, pc = "nested", NEW i \in 1 .. Len(props(current.node))
  PROVE  /\ NestedName(props(current.node)[i]) \in Name
         /\ NestedName(props(current.node)[i]) \notin alloc
<1>1. todo \in Seq(NamedNode) /\ todo # <<>> /\ current.name # Unnamed
  BY DEF TypeOK, Types, Shape
<1>2. current \in NamedNode
  BY <1>1, HeadTailProperties DEF current
<1>3. current.node \in Node /\ current.name \in Name
  BY <1>1, <1>2 DEF NamedNode
<1>4. TypeName[props(current.node)[i].key] \in Name
  BY <1>3, PropsFacts DEF TypeOK, Types, Shape
<1>5. current.name \o TypeName[props(current.node)[i].key] \in Name
  BY <1>3, <1>4, ConcatProperties DEF Name
<1>6. QED BY <1>5, UniqueName DEF NestedName, TypeOK, Types, Shape

(* The call at the head of todo, while there is one.                       *)
LEMMA CurrentType ==
  ASSUME TypeOK, todo # <<>>
  PROVE  /\ current.node \in Node /\ current.name \in Name \cup {Unnamed}
         /\ Tail(todo) \in Seq(NamedNode)
         /\ Len(todo) \in Nat \ {0} /\ Len(Tail(todo)) = Len(todo) - 1
         /\ current = todo[1]
         /\ \A i \in 1 .. Len(Tail(todo)) : Tail(todo)[i] = todo[i + 1]
<1>1. todo \in Seq(NamedNode)
  BY DEF TypeOK, Types, Shape
<1>2. current \in NamedNode /\ current = todo[1]
  BY <1>1, HeadTailProperties DEF current
<1>3. Len(todo) \in Nat \ {0}
  BY <1>1, EmptySeq
<1>4. QED BY <1>1, <1>2, <1>3, HeadTailProperties DEF NamedNode

(* The five kinds of declaration.                                          *)
LEMMA FormType ==
  ASSUME doc \in Documents, NEW n \in Node
  PROVE  form(n) \in {"never", "struct", "alias", "enum", "dynamic"}
<1>1. /\ doc.node[n].tier \in {"Nominal", "Structural", "Dynamic", "Unsupported"}
      /\ doc.node[n].never \in BOOLEAN
  BY DocumentsAssumption DEF Document, NodeData
<1>2. QED BY <1>1 DEF form

(* What emit_* appends to the output for a named node.                     *)
LEMMA DeclarationType ==
  ASSUME TypeOK, todo # <<>>, current.name # Unnamed, NEW fs \in Seq(Field)
  PROVE  Append(declared, Declaration(fs)) \in
           Seq(Output)
<1>1. current.name \in Name /\ current.node \in Node /\ doc \in Documents /\ declared \in Seq(Output)
  BY CurrentType DEF TypeOK, Types
<1>2. Declaration(fs) \in Output
  BY <1>1, FormType DEF Declaration, Output
<1>3. QED BY <1>1, <1>2

(* The calls for the properties of a struct: one for each, with its name.  *)
LEMMA PropertiesType ==
  ASSUME TypeOK, pc = "fields"
  PROVE  /\ Properties \in Seq(NamedNode) /\ Len(Properties) = Len(nested)
         /\ Len(nested) \in Nat
         /\ \A i \in 1 .. Len(nested) :
              /\ Properties[i].name = nested[i]
              /\ Properties[i].node = props(current.node)[i].node
<1>1. /\ current.node \in Node /\ nested \in Seq(Name \cup {Unnamed})
      /\ Len(nested) = Len(props(current.node))
  BY CurrentType DEF TypeOK, Types, Shape
<1>2. /\ Len(nested) \in Nat /\ DOMAIN nested = 1 .. Len(nested)
      /\ \A i \in 1 .. Len(nested) : nested[i] \in Name \cup {Unnamed}
  BY <1>1, LenProperties, ElementOfSeq
<1>3. \A i \in 1 .. Len(nested) : props(current.node)[i].node \in Node
  BY <1>1, PropsFacts DEF TypeOK, Types, Shape
<1>4. Properties \in [1 .. Len(nested) -> NamedNode]
  BY <1>2, <1>3 DEF Properties, NamedNode
<1>5. QED BY <1>2, <1>4 DEF Properties

-----------------------------------------------------------------------------
(* Types, and the shape of the recursion: the loops of a struct never run  *)
(* past its properties, and a struct always has a name.                    *)
THEOREM TypeCorrect == Spec => []TypeOK
<1>1. Init => TypeOK
  <2> SUFFICES ASSUME Init PROVE TypeOK
    OBVIOUS
  <2>1. <<Root>> \in Name
    BY WordAssumption DEF Name
  <2>2. alloc \subseteq Name /\ IsFiniteSet(alloc)
    BY <2>1, FS_Singleton DEF Init, Reserved
  <2>3. QED BY <2>2, DefsFacts DEF Init, TypeOK, Types, Shape
<1>2. TypeOK /\ [Next]_vars => TypeOK'
  <2> SUFFICES ASSUME TypeOK, [Next]_vars PROVE TypeOK'
    OBVIOUS
  <2>1. CASE AnalyseRoot
    BY <2>1 DEF AnalyseRoot, Stop, TypeOK, Types, Shape, current, props
  <2>2. CASE EmitDef
    <3> DEFINE def == doc.defs[next + 1]
               name == unique_name(TypeName[def.key], alloc)
    <3>1. next + 1 \in 1 .. Len(doc.defs)
      BY <2>2, DefsFacts DEF EmitDef, TypeOK, Types, Shape
    <3>2. def.node \in Node /\ TypeName[def.key] \in Name
      BY <3>1, DefsFacts DEF TypeOK, Types, Shape
    <3>3. name \in Name
      BY <3>2, UniqueName DEF TypeOK, Types, Shape
    <3>4. alloc' \subseteq Name /\ IsFiniteSet(alloc')
      BY <2>2, <3>3, FS_AddElement DEF EmitDef, TypeOK, Types, Shape
    <3>5. CASE doc.node[def.node].contradictory
      BY <2>2, <3>4, <3>5 DEF EmitDef, Stop, TypeOK, Types, Shape, current, props
    <3>6. CASE ~doc.node[def.node].contradictory
      <4> HIDE DEF name, def
      <4>1. todo' = <<[node |-> def.node, name |-> name]>> /\ next' = next + 1 /\ pc' = "generate"
        BY <2>2, <3>6 DEF EmitDef, name, def
      <4>2. todo' \in Seq(NamedNode) /\ todo' # <<>>
        BY <3>2, <3>3, <4>1 DEF NamedNode
      <4>3. next' \in 0 .. Len(doc.defs) + 1
        <5>1. Len(doc.defs) \in Nat /\ next \in 0 .. Len(doc.defs) + 1
          BY DefsFacts DEF TypeOK, Types
        <5>2. QED BY <3>1, <4>1, <5>1
      <4>4. QED BY <2>2, <3>4, <3>6, <4>1, <4>2, <4>3 DEF EmitDef, TypeOK, Types, Shape, def
    <3>7. QED BY <3>5, <3>6
  <2>3. CASE EmitRoot
    <3>1. <<Root>> \in Name
      BY WordAssumption DEF Name
    <3>2. todo' \in Seq(NamedNode) /\ todo' # <<>>
      BY <2>3, <3>1, DefsFacts DEF EmitRoot, NamedNode, TypeOK, Types, Shape
    <3>3. next' \in 0 .. Len(doc.defs) + 1
      BY <2>3, DefsFacts DEF EmitRoot, TypeOK, Types, Shape
    <3>4. QED BY <2>3, <3>2, <3>3 DEF EmitRoot, TypeOK, Types, Shape
  <2>4. CASE EmitOther
    <3>1. todo # <<>> /\ Tail(todo) \in Seq(NamedNode)
      BY <2>4, CurrentType DEF EmitOther, TypeOK, Types, Shape
    <3>2. <<>> \in Seq(Field)
      OBVIOUS
    <3>3. declared' \in Seq(Output)
      BY <2>4, <3>1, <3>2, DeclarationType DEF EmitOther
    <3>4. QED BY <2>4, <3>1, <3>3 DEF EmitOther, Resume, TypeOK, Types, Shape
  <2>5. CASE SkipProperty
    <3>1. Tail(todo) \in Seq(NamedNode)
      BY <2>5, CurrentType DEF SkipProperty, TypeOK, Types, Shape
    <3>2. QED BY <2>5, <3>1 DEF SkipProperty, Resume, TypeOK, Types, Shape
  <2>6. CASE EnterStruct
    <3>1. Len(props(current.node)) \in Nat
      BY <2>6, CurrentType, PropsFacts DEF EnterStruct, TypeOK, Types, Shape
    <3>2. nested' = <<>> /\ Len(nested') = 0 /\ current' = current /\ props(current.node)' = props(current.node)
      BY <2>6 DEF EnterStruct, current, props
    <3>3. QED BY <2>6, <3>1, <3>2 DEF EnterStruct, TypeOK, Types, Shape
  <2>7. CASE NameNested
    <3> DEFINE property == props(current.node)[Len(nested) + 1]
    <3>1. /\ Len(props(current.node)) \in Nat /\ nested \in Seq(Name \cup {Unnamed}) /\ Len(nested) \in Nat
          /\ Len(nested) < Len(props(current.node))
      BY <2>7, CurrentType, PropsFacts DEF NameNested, TypeOK, Types, Shape
    <3>2. Len(nested) + 1 \in 1 .. Len(props(current.node))
      BY <3>1
    <3>3. NestedName(property) \in Name
      BY <2>7, <3>2, NestedNameNew DEF NameNested
    <3>4. PICK x \in Name \cup {Unnamed} :
            /\ nested' = Append(nested, x)
            /\ alloc' = alloc \/ (x \in Name /\ alloc' = alloc \cup {x})
      BY <2>7, <3>3 DEF NameNested
    <3>5. nested' \in Seq(Name \cup {Unnamed}) /\ Len(nested') = Len(nested) + 1
      BY <3>1, <3>4
    <3>6. alloc' \subseteq Name /\ IsFiniteSet(alloc')
      <4>1. alloc \subseteq Name /\ IsFiniteSet(alloc)
        BY DEF TypeOK, Types
      <4>2. CASE alloc' = alloc
        BY <4>1, <4>2
      <4>3. CASE x \in Name /\ alloc' = alloc \cup {x}
        <5>1. IsFiniteSet(alloc \cup {x})
          BY <4>1, FS_AddElement
        <5>2. QED BY <4>1, <4>3, <5>1
      <4>4. QED BY <3>4, <4>2, <4>3
    <3>7. current' = current /\ props(current.node)' = props(current.node)
      BY <2>7 DEF NameNested, current, props
    <3>8. QED BY <2>7, <3>1, <3>5, <3>6, <3>7 DEF NameNested, TypeOK, Types, Shape
  <2>8. CASE EnterFields
    <3>1. /\ current' = current /\ props(current.node)' = props(current.node)
          /\ Len(nested) \in Nat
      <4>1. UNCHANGED <<todo, doc>>
        BY <2>8 DEF EnterFields
      <4>2. current' = current /\ props(current.node)' = props(current.node)
        BY <4>1 DEF current, props
      <4>3. nested \in Seq(Name \cup {Unnamed})
        BY DEF TypeOK, Types
      <4>4. QED BY <4>2, <4>3
    <3>2. /\ pc = "nested" /\ pc' = "fields" /\ fields' = <<>>
          /\ Len(nested) = Len(props(current.node))
          /\ UNCHANGED <<doc, next, todo, nested, declared, alloc, outcome>>
      BY <2>8 DEF EnterFields
    <3>3. fields' \in Seq(Field) /\ Len(fields') = 0
      BY <3>2
    <3>4. Types'
      BY <3>2, <3>3 DEF TypeOK, Types
    <3>5. outcome = "running" /\ todo # <<>> /\ current.name # Unnamed
      BY <3>2 DEF TypeOK, Shape
    <3>6. Shape'
      BY <3>1, <3>2, <3>3, <3>5 DEF Shape
    <3>7. QED BY <3>4, <3>6 DEF TypeOK
  <2>9. CASE EmitField
    <3> DEFINE i == Len(fields) + 1
               name == unique_name(FieldName[props(current.node)[i].key], used_names)
               type == IF nested[i] = Unnamed THEN Primitive ELSE nested[i]
    <3>1. /\ current.node \in Node /\ fields \in Seq(Field) /\ Len(fields) \in Nat
          /\ nested \in Seq(Name \cup {Unnamed}) /\ Len(nested) \in Nat
          /\ Len(fields) < Len(nested) /\ Len(nested) = Len(props(current.node))
      BY <2>9, CurrentType DEF EmitField, TypeOK, Types, Shape
    <3>2. i \in 1 .. Len(props(current.node)) /\ i \in 1 .. Len(nested)
      BY <3>1
    <3>3. name \in Name
      BY <3>1, <3>2, PropsFacts, UsedNamesFinite, UniqueName DEF TypeOK, Types, Shape
    <3>4. type \in Name \cup {Primitive}
      BY <3>1, <3>2, ElementOfSeq
    <3>5. fields' = Append(fields, [field |-> name, type |-> type])
      BY <2>9 DEF EmitField
    <3> HIDE DEF name, type
    <3>6. fields' \in Seq(Field) /\ Len(fields') = Len(fields) + 1
      BY <3>1, <3>3, <3>4, <3>5 DEF Field
    <3>7. current' = current /\ props(current.node)' = props(current.node)
      BY <2>9 DEF EmitField, current, props
    <3>8. QED BY <2>9, <3>1, <3>6, <3>7 DEF EmitField, TypeOK, Types, Shape
  <2>10. CASE EndStruct
    <3>1. todo # <<>> /\ Tail(todo) \in Seq(NamedNode) /\ current.name # Unnamed /\ fields \in Seq(Field)
      BY <2>10, CurrentType DEF EndStruct, TypeOK, Types, Shape
    <3>2. Properties \o Tail(todo) \in Seq(NamedNode)
      BY <2>10, <3>1, PropertiesType, ConcatProperties DEF EndStruct
    <3>3. declared' \in Seq(Output)
      BY <2>10, <3>1, DeclarationType DEF EndStruct
    <3>4. QED BY <2>10, <3>2, <3>3 DEF EndStruct, Resume, TypeOK, Types, Shape
  <2>11. CASE check_size_limit
    BY <2>11 DEF check_size_limit, Stop, TypeOK, Types, Shape, current, props
  <2>12. CASE UNCHANGED vars
    BY <2>12 DEF vars, TypeOK, Types, Shape, current, props
  <2>13. QED
    BY <2>1, <2>2, <2>3, <2>4, <2>5, <2>6, <2>7, <2>8, <2>9, <2>10, <2>11, <2>12 DEF Next, Done
<1>3. QED BY <1>1, <1>2, PTL DEF Spec

-----------------------------------------------------------------------------
(* The names that are in use at three places.                              *)
InTodo(x) == \E i \in 1 .. Len(todo) : todo[i].name = x
InDeclared(x) == \E i \in 1 .. Len(declared) : declared[i].name = x
InNested(x) == pc \in {"nested", "fields"} /\ \E i \in 1 .. Len(nested) : nested[i] = x

(* Each place has a name once, no two places have the same, and alloc has  *)
(* all of them.                                                            *)
Apart ==
  /\ \A i, j \in 1 .. Len(declared) : declared[i].name = declared[j].name => i = j
  /\ \A i, j \in 1 .. Len(todo) : todo[i].name = todo[j].name /\ todo[i].name # Unnamed => i = j
  /\ pc \in {"nested", "fields"} =>
       \A i, j \in 1 .. Len(nested) : nested[i] = nested[j] /\ nested[i] # Unnamed => i = j
  /\ \A x \in Name :
       /\ ~(InTodo(x) /\ InDeclared(x)) /\ ~(InTodo(x) /\ InNested(x))
       /\ ~(InDeclared(x) /\ InNested(x))
       /\ InTodo(x) \/ InDeclared(x) \/ InNested(x) => x \in alloc

(* The name of the root is reserved for it until it is generated.          *)
RootReserved ==
  /\ <<Root>> \in alloc /\ ~InNested(<<Root>>)
  /\ next <= Len(doc.defs) => ~InTodo(<<Root>>) /\ ~InDeclared(<<Root>>)
  /\ \A i \in 1 .. Len(declared) : declared[i].name = <<Root>> => declared[i].node = doc.root
  /\ \A i \in 1 .. Len(todo) : todo[i].name = <<Root>> => todo[i].node = doc.root

NameInv == Apart /\ RootReserved

(* What a declaration does to the output and the calls.                    *)
LEMMA DeclaredFacts ==
  ASSUME TypeOK, todo # <<>>, current.name # Unnamed, NEW fs \in Seq(Field),
         declared' = Append(declared, Declaration(fs))
  PROVE  /\ Len(declared) \in Nat /\ Len(declared') = Len(declared) + 1
         /\ \A i \in 1 .. Len(declared) : declared'[i] = declared[i]
         /\ declared'[Len(declared) + 1] = Declaration(fs)
<1>1. declared \in Seq(Output) /\ Declaration(fs) \in Output
  <2>1. current.name \in Name /\ current.node \in Node /\ doc \in Documents /\ declared \in Seq(Output)
    BY CurrentType DEF TypeOK, Types
  <2>2. QED BY <2>1, FormType DEF Declaration, Output
<1>2. QED BY <1>1

(* The calls after a struct: its properties, then what was left.           *)
LEMMA StructCalls ==
  ASSUME TypeOK, pc = "fields", NEW calls, calls = Properties \o Tail(todo)
  PROVE  /\ Len(calls) = Len(nested) + Len(todo) - 1
         /\ \A i \in 1 .. Len(nested) :
              calls[i].name = nested[i] /\ calls[i].node = props(current.node)[i].node
         /\ \A i \in 1 .. Len(calls) : i > Len(nested) => calls[i] = todo[i - Len(nested) + 1]
<1>1. todo # <<>> /\ Properties \in Seq(NamedNode) /\ Tail(todo) \in Seq(NamedNode)
  BY PropertiesType, CurrentType DEF TypeOK, Shape
<1>2. /\ Len(calls) = Len(Properties) + Len(Tail(todo))
      /\ \A i \in 1 .. Len(Properties) + Len(Tail(todo)) :
           calls[i] = IF i <= Len(Properties) THEN Properties[i] ELSE Tail(todo)[i - Len(Properties)]
  BY <1>1, ConcatProperties
<1>3. /\ Len(Properties) = Len(nested) /\ Len(nested) \in Nat
      /\ Len(Tail(todo)) = Len(todo) - 1 /\ Len(todo) \in Nat \ {0}
      /\ \A i \in 1 .. Len(Tail(todo)) : Tail(todo)[i] = todo[i + 1]
  BY <1>1, PropertiesType, CurrentType
<1>4. \A i \in 1 .. Len(nested) : calls[i] = Properties[i]
  BY <1>2, <1>3
<1>5. ASSUME NEW i \in 1 .. Len(calls), i > Len(nested)
      PROVE  calls[i] = todo[i - Len(nested) + 1]
  <2>1. i - Len(nested) \in 1 .. Len(Tail(todo)) /\ calls[i] = Tail(todo)[i - Len(nested)]
    BY <1>2, <1>3, <1>5
  <2>2. QED BY <1>3, <2>1
<1>6. QED BY <1>2, <1>3, <1>4, <1>5, PropertiesType

(* The facts about lengths and names that the steps below use.             *)
LEMMA Sizes ==
  ASSUME TypeOK
  PROVE  /\ Len(declared) \in Nat /\ Len(todo) \in Nat /\ Len(nested) \in Nat
         /\ doc \in Documents /\ next \in Nat /\ Len(doc.defs) \in Nat
         /\ <<Root>> \in Name /\ Unnamed \notin Name
         /\ \A i \in 1 .. Len(declared) : declared[i].name \in Name
<1>1. \A i \in 1 .. Len(declared) : declared[i] \in Output
  BY ElementOfSeq DEF TypeOK, Types
<1>2. \A i \in 1 .. Len(declared) : declared[i].name \in Name
  BY <1>1 DEF Output
<1>3. Len(declared) \in Nat /\ Len(todo) \in Nat /\ Len(nested) \in Nat
  BY LenProperties DEF TypeOK, Types
<1>4. doc \in Documents /\ Len(doc.defs) \in Nat /\ next \in 0 .. Len(doc.defs) + 1
  BY DefsFacts DEF TypeOK, Types
<1>5. <<Root>> \in Name /\ Unnamed \notin Name
  BY WordAssumption DEF Name
<1>6. QED BY <1>2, <1>3, <1>4, <1>5

(* An index beyond the first k of a list of k + m - 1 is one of the last    *)
(* m - 1, and every index is on one side of k.                             *)
LEMMA ShiftedIndex ==
  ASSUME NEW m \in Nat, NEW k \in Nat, NEW n, n = k + m - 1, NEW i \in 1 .. n, i > k
  PROVE  i - k + 1 \in 2 .. m
OBVIOUS

LEMMA Split ==
  ASSUME NEW n \in Nat, NEW k \in Nat, NEW i \in 1 .. n
  PROVE  i \in 1 .. k \/ i > k
OBVIOUS

(* A declaration moves its name from todo to the output; a struct moves    *)
(* its k nested names into todo.                                           *)
LEMMA DeclareStep ==
  ASSUME TypeOK, NameInv, todo # <<>>, current.name # Unnamed, NEW fs \in Seq(Field),
         declared' = Append(declared, Declaration(fs)),
         doc' = doc, next' = next, alloc' = alloc, pc' \notin {"nested", "fields"},
         NEW k \in Nat, k = 0 \/ (k = Len(nested) /\ pc \in {"nested", "fields"}),
         Len(todo') = k + Len(todo) - 1,
         \A i \in 1 .. k : todo'[i].name = nested[i],
         \A i \in 1 .. Len(todo') : i > k => todo'[i] = todo[i - k + 1]
  PROVE  NameInv'
<1>0. /\ Len(todo) \in Nat /\ Len(declared) \in Nat /\ Len(todo') \in Nat
      /\ Unnamed \notin Name /\ <<Root>> \in Name
      /\ \A i \in 1 .. k : nested[i] \in Name \cup {Unnamed}
  <2>1. Len(nested) \in Nat /\ \A i \in 1 .. Len(nested) : nested[i] \in Name \cup {Unnamed}
    BY ElementOfSeq, Sizes DEF TypeOK, Types
  <2>2. Len(todo) \in Nat /\ Len(todo) # 0
    BY CurrentType
  <2>3. QED BY <2>1, <2>2, Sizes
<1>1. /\ Len(declared') = Len(declared) + 1
      /\ \A i \in 1 .. Len(declared) : declared'[i] = declared[i]
      /\ declared'[Len(declared) + 1].name = todo[1].name
      /\ declared'[Len(declared) + 1].node = todo[1].node
      /\ todo[1].name \in Name /\ Len(todo) >= 1
  BY DeclaredFacts, CurrentType DEF Declaration
<1>2. \A i \in 1 .. Len(todo') :
        \/ i \in 1 .. k /\ todo'[i].name = nested[i]
        \/ i > k /\ i - k + 1 \in 2 .. Len(todo) /\ todo'[i] = todo[i - k + 1]
  <2>1. ASSUME NEW i \in 1 .. Len(todo'), i > k
        PROVE  i - k + 1 \in 2 .. Len(todo) /\ todo'[i] = todo[i - k + 1]
    <3>1. todo'[i] = todo[i - k + 1]
      BY <2>1
    <3>2. QED BY ShiftedIndex, <1>0, <2>1, <3>1
  <2>2. \A i \in 1 .. Len(todo') : i \in 1 .. k \/ i > k
    BY Split, <1>0
  <2>3. QED BY <2>1, <2>2
<1>3. \A x \in Name : InTodo(x)' => InNested(x) \/ (InTodo(x) /\ x # todo[1].name)
  <2> SUFFICES ASSUME NEW x \in Name, NEW i \in 1 .. Len(todo'), todo'[i].name = x
               PROVE  InNested(x) \/ (InTodo(x) /\ x # todo[1].name)
    BY DEF InTodo
  <2>1. CASE i \in 1 .. k /\ todo'[i].name = nested[i]
    BY <2>1 DEF InNested
  <2>2. CASE i > k /\ i - k + 1 \in 2 .. Len(todo) /\ todo'[i] = todo[i - k + 1]
    <3>1. InTodo(x) /\ i - k + 1 # 1 /\ 1 \in 1 .. Len(todo)
      <4>1. i - k + 1 # 1 /\ 1 \in 1 .. Len(todo) /\ i - k + 1 \in 1 .. Len(todo)
        BY <1>1, <2>2, <1>0
      <4>2. todo[i - k + 1].name = x
        BY <2>2
      <4>3. InTodo(x)
        BY <4>1, <4>2 DEF InTodo
      <4>4. QED BY <4>1, <4>3
    <3>2. x # Unnamed
      BY <1>0
    <3>3. QED BY <1>1, <2>2, <3>1, <3>2 DEF NameInv, Apart
  <2>3. QED BY <1>2, <2>1, <2>2
<1>4. \A x \in Name : InDeclared(x)' => InDeclared(x) \/ x = todo[1].name
  BY <1>1, <1>0 DEF InDeclared
<1>5. InTodo(todo[1].name)
  BY <1>1, <1>0 DEF InTodo
<1>6. \A x : ~InNested(x)'
  BY DEF InNested
<1>7. \A i, j \in 1 .. Len(declared') : declared'[i].name = declared'[j].name => i = j
  <2>1. \A i \in 1 .. Len(declared) : declared[i].name # todo[1].name
    BY <1>1, <1>5, <1>0 DEF NameInv, Apart, InDeclared
  <2>2. \A i \in 1 .. Len(declared') : i \in 1 .. Len(declared) \/ i = Len(declared) + 1
    BY <1>1, <1>0
  <2>3. QED BY <1>1, <2>1, <2>2 DEF NameInv, Apart
<1>8. \A i, j \in 1 .. Len(todo') : todo'[i].name = todo'[j].name /\ todo'[i].name # Unnamed => i = j
  <2> SUFFICES ASSUME NEW i \in 1 .. Len(todo'), NEW j \in 1 .. Len(todo'),
                      todo'[i].name = todo'[j].name, todo'[i].name # Unnamed
               PROVE  i = j
    OBVIOUS
  <2>1. CASE i <= k /\ j <= k
    <3>1. i \in 1 .. k /\ todo'[i].name = nested[i] /\ j \in 1 .. k /\ todo'[j].name = nested[j]
      BY <1>0, <1>2, <2>1
    <3>2. k = Len(nested) /\ pc \in {"nested", "fields"}
      BY <3>1
    <3>3. QED BY <3>1, <3>2 DEF NameInv, Apart
  <2>2. CASE i > k /\ j > k
    <3>1. /\ i - k + 1 \in 1 .. Len(todo) /\ j - k + 1 \in 1 .. Len(todo)
          /\ todo'[i] = todo[i - k + 1] /\ todo'[j] = todo[j - k + 1]
      BY <1>2, <2>2, <1>0
    <3>2. i - k + 1 = j - k + 1
      BY <3>1 DEF NameInv, Apart
    <3>3. QED BY <2>2, <3>2
  <2>3. CASE (i <= k) # (j <= k)
    <3>1. \A a, b \in 1 .. Len(todo') :
            a <= k /\ b > k => ~(todo'[a].name = todo'[b].name /\ todo'[a].name # Unnamed)
      <4> SUFFICES ASSUME NEW a \in 1 .. Len(todo'), NEW b \in 1 .. Len(todo'), a <= k, b > k,
                          todo'[a].name = todo'[b].name, todo'[a].name # Unnamed
                   PROVE  FALSE
        OBVIOUS
      <4>1. InNested(nested[a]) /\ todo'[a].name = nested[a]
        <5>1. a \in 1 .. k /\ todo'[a].name = nested[a]
          BY <1>0, <1>2
        <5>2. QED BY <5>1 DEF InNested
      <4>2. b - k + 1 \in 1 .. Len(todo) /\ todo[b - k + 1].name = nested[a]
        <5>1. b > k /\ b - k + 1 \in 2 .. Len(todo) /\ todo'[b] = todo[b - k + 1]
          BY <1>0, <1>2
        <5>2. b - k + 1 \in 1 .. Len(todo)
          BY <1>0, <5>1
        <5>3. todo[b - k + 1].name = todo'[b].name
          BY <5>1
        <5>4. QED BY <4>1, <5>2, <5>3
      <4>3. InTodo(nested[a])
        BY <4>2 DEF InTodo
      <4>4. nested[a] \in Name
        BY <1>0, <4>1
      <4>5. QED BY <4>1, <4>3, <4>4 DEF NameInv, Apart
    <3>2. CASE i <= k /\ j > k
      BY <3>1, <3>2
    <3>3. CASE i > k /\ j <= k
      BY <3>1, <3>3
    <3>4. QED BY <1>0, <2>3, <3>2, <3>3
  <2>4. QED BY <2>1, <2>2, <2>3
<1>9. Apart'
  <2>1. \A x \in Name :
       /\ ~(InTodo(x)' /\ InDeclared(x)')
       /\ InTodo(x)' \/ InDeclared(x)' => x \in alloc
    BY <1>3, <1>4, <1>5 DEF NameInv, Apart
  <2>2. QED BY <1>6, <1>7, <1>8, <2>1 DEF Apart
<1>10. RootReserved'
  <2>1. next' <= Len(doc'.defs) => ~InTodo(<<Root>>)' /\ ~InDeclared(<<Root>>)'
    BY <1>3, <1>4, <1>5, <1>0 DEF NameInv, RootReserved
  <2>2. \A i \in 1 .. Len(declared') : declared'[i].name = <<Root>> => declared'[i].node = doc.root
    <3>1. todo[1].name = <<Root>> => todo[1].node = doc.root
      BY <1>1, <1>0 DEF NameInv, RootReserved
    <3>2. \A i \in 1 .. Len(declared') : i \in 1 .. Len(declared) \/ i = Len(declared) + 1
      BY <1>1, <1>0
    <3>3. QED BY <1>1, <3>1, <3>2 DEF NameInv, RootReserved
  <2>3. \A i \in 1 .. Len(todo') : todo'[i].name = <<Root>> => todo'[i].node = doc.root
    <3> SUFFICES ASSUME NEW i \in 1 .. Len(todo'), todo'[i].name = <<Root>>
                 PROVE  todo'[i].node = doc.root
      OBVIOUS
    <3>1. CASE i \in 1 .. k /\ todo'[i].name = nested[i]
      BY <3>1 DEF NameInv, RootReserved, InNested
    <3>2. CASE i > k /\ i - k + 1 \in 2 .. Len(todo) /\ todo'[i] = todo[i - k + 1]
      <4>1. i - k + 1 \in 1 .. Len(todo)
        BY <3>2, <1>0
      <4>2. todo[i - k + 1].name = <<Root>>
        BY <3>2
      <4>3. QED BY <3>2, <4>1, <4>2 DEF NameInv, RootReserved
    <3>3. QED BY <1>2, <3>1, <3>2
  <2>4. QED BY <1>6, <2>1, <2>2, <2>3 DEF NameInv, RootReserved
<1>11. QED BY <1>9, <1>10 DEF NameInv

(* Names stay apart and the root's reserved.                               *)
LEMMA NamesInductive == TypeOK /\ TypeOK' /\ NameInv /\ [Next]_vars => NameInv'
<1> SUFFICES ASSUME TypeOK, TypeOK', NameInv, [Next]_vars PROVE NameInv'
  OBVIOUS
<1>1. CASE AnalyseRoot
  BY <1>1 DEF AnalyseRoot, Stop, NameInv, Apart, RootReserved, InTodo, InDeclared, InNested
<1>2. CASE EmitDef
  <2> DEFINE def == doc.defs[next + 1]
             name == unique_name(TypeName[def.key], alloc)
  <2>1. next < Len(doc.defs) /\ todo = <<>> /\ pc = "defs"
    BY <1>2 DEF EmitDef, TypeOK, Shape
  <2>2. TypeName[def.key] \in Name /\ IsFiniteSet(alloc)
    <3>1. next \in Nat /\ Len(doc.defs) \in Nat /\ IsFiniteSet(alloc)
      BY Sizes DEF TypeOK, Types
    <3>2. next + 1 \in 1 .. Len(doc.defs)
      BY <3>1, <2>1
    <3>3. QED BY Sizes, <3>1, <3>2, DefsFacts
  <2>3. name \in Name /\ name \notin alloc
    BY <2>2, UniqueName
  <2>4. alloc' = alloc \cup {name} /\ declared' = declared /\ doc' = doc /\ pc' \notin {"nested", "fields"}
    BY <1>2 DEF EmitDef, Stop
  <2>5. \/ todo' = <<>>
        \/ todo' = <<[node |-> def.node, name |-> name]>>
    BY <1>2, <2>1 DEF EmitDef
  <2>6. name # <<Root>> /\ ~InDeclared(name)
    BY <2>3 DEF NameInv, Apart, RootReserved
  <2> HIDE DEF name, def
  <2>7. \A i \in 1 .. Len(todo') : Len(todo') = 1 /\ i = 1 /\ todo'[i].name = name
    <3>1. CASE todo' = <<>>
      BY <3>1
    <3>2. CASE todo' = <<[node |-> def.node, name |-> name]>>
      BY <3>2
    <3>3. QED BY <2>5, <3>1, <3>2
  <2>8. Apart'
    BY <2>3, <2>4, <2>6, <2>7 DEF NameInv, Apart, InTodo, InDeclared, InNested
  <2>9. RootReserved'
    <3>1. ~InDeclared(<<Root>>) /\ <<Root>> \in alloc
      BY Sizes, <2>1 DEF NameInv, RootReserved
    <3>2. QED BY <2>4, <2>6, <2>7, <3>1 DEF RootReserved, InTodo, InDeclared, InNested
  <2>10. QED BY <2>8, <2>9 DEF NameInv
<1>3. CASE EmitRoot
  <2>1. next = Len(doc.defs) /\ next' = next + 1 /\ pc' = "generate" /\ alloc' = alloc
        /\ declared' = declared /\ doc' = doc
        /\ todo' = <<[node |-> doc.root, name |-> <<Root>>]>>
    BY <1>3 DEF EmitRoot
  <2>2. ~InDeclared(<<Root>>) /\ <<Root>> \in alloc
    BY Sizes, <2>1 DEF NameInv, RootReserved
  <2>3. \A i \in 1 .. Len(todo') : i = 1 /\ todo'[i].name = <<Root>> /\ todo'[i].node = doc.root
    BY <2>1
  <2>4. Apart'
    BY <2>1, <2>2, <2>3 DEF NameInv, Apart, InTodo, InDeclared, InNested
  <2>5. RootReserved'
    BY Sizes, <2>1, <2>2, <2>3 DEF RootReserved, InTodo, InDeclared, InNested
  <2>6. QED BY <2>4, <2>5 DEF NameInv
<1>4. CASE EmitOther
  <2>1. /\ todo # <<>> /\ current.name # Unnamed /\ <<>> \in Seq(Field) /\ todo' = Tail(todo)
        /\ declared' = Append(declared, Declaration(<<>>)) /\ pc' \notin {"nested", "fields"}
        /\ doc' = doc /\ next' = next /\ alloc' = alloc
    BY <1>4 DEF EmitOther, Resume, TypeOK, Shape
  <2>2. /\ Len(todo') = 0 + Len(todo) - 1
        /\ \A i \in 1 .. Len(todo') : i > 0 => todo'[i] = todo[i - 0 + 1]
    BY <2>1, CurrentType
  <2>3. \A i \in 1 .. 0 : todo'[i].name = nested[i]
    OBVIOUS
  <2>4. QED BY <2>1, <2>2, <2>3, DeclareStep
<1>5. CASE SkipProperty
  <2>1. /\ todo # <<>> /\ todo' = Tail(todo) /\ declared' = declared /\ pc' \notin {"nested", "fields"}
        /\ doc' = doc /\ next' = next /\ alloc' = alloc
    BY <1>5 DEF SkipProperty, Resume, TypeOK, Shape
  <2>2. /\ Len(todo') = Len(todo) - 1
        /\ \A i \in 1 .. Len(todo') : i + 1 \in 1 .. Len(todo) /\ todo'[i] = todo[i + 1]
    BY Sizes, <2>1, CurrentType
  <2>3. \A x : InTodo(x)' => InTodo(x)
    BY <2>2 DEF InTodo
  <2>4. Apart'
    BY Sizes, <2>1, <2>2, <2>3 DEF NameInv, Apart, InDeclared, InNested
  <2>5. RootReserved'
    BY Sizes, <2>1, <2>2, <2>3 DEF NameInv, RootReserved, InDeclared, InNested
  <2>6. QED BY <2>4, <2>5 DEF NameInv
<1>6. CASE EnterStruct
  <2>1. Len(nested') = 0
    BY <1>6 DEF EnterStruct
  <2>2. QED BY <1>6, <2>1 DEF EnterStruct, NameInv, Apart, RootReserved, InTodo, InDeclared, InNested
<1>7. CASE NameNested
  <2> DEFINE property == props(current.node)[Len(nested) + 1]
  <2>1. Len(nested) + 1 \in 1 .. Len(props(current.node))
    <3>1. Len(props(current.node)) \in Nat
      BY Sizes, <1>7, CurrentType, PropsFacts DEF NameNested, TypeOK, Shape
    <3>2. QED BY Sizes, <1>7, <3>1 DEF NameNested
  <2>2. NestedName(property) \in Name /\ NestedName(property) \notin alloc
    BY <1>7, <2>1, NestedNameNew DEF NameNested
  <2>3. PICK x \in Name \cup {Unnamed} :
          /\ nested' = Append(nested, x)
          /\ \/ x = Unnamed /\ alloc' = alloc
             \/ x \in Name /\ x \notin alloc /\ alloc' = alloc \cup {x}
    BY <1>7, <2>2 DEF NameNested
  <2>4. /\ pc \in {"nested", "fields"} /\ pc' = pc /\ todo' = todo /\ declared' = declared
        /\ doc' = doc /\ next' = next
    BY <1>7 DEF NameNested
  <2>5. /\ Len(nested') = Len(nested) + 1
        /\ \A i \in 1 .. Len(nested) : nested'[i] = nested[i]
        /\ nested'[Len(nested) + 1] = x
    <3>1. nested \in Seq(Name \cup {Unnamed})
      BY DEF TypeOK, Types
    <3>2. QED BY <2>3, <3>1
  <2>6. \A y \in Name : InNested(y)' => InNested(y) \/ (y = x /\ x \notin alloc)
    BY Sizes, <2>3, <2>4, <2>5 DEF InNested
  <2>7. x # Unnamed => ~InNested(x)
    BY <2>3 DEF NameInv, Apart
  <2>8. \A i, j \in 1 .. Len(nested') : nested'[i] = nested'[j] /\ nested'[i] # Unnamed => i = j
    <3>1. \A i \in 1 .. Len(nested) : x # Unnamed => nested[i] # x
      BY <2>4, <2>7 DEF InNested
    <3>2. QED BY Sizes, <2>4, <2>5, <3>1 DEF NameInv, Apart
  <2>9. Apart'
    <3>1. \A y \in Name : (InTodo(y)' <=> InTodo(y)) /\ (InDeclared(y)' <=> InDeclared(y))
      BY <2>4 DEF InTodo, InDeclared
    <3>2. \A y \in Name :
            /\ ~(InTodo(y) /\ InDeclared(y)) /\ ~(InTodo(y) /\ InNested(y)')
            /\ ~(InDeclared(y) /\ InNested(y)')
            /\ InTodo(y) \/ InDeclared(y) => y \in alloc
      BY <2>6 DEF NameInv, Apart
    <3>3. \A y \in Name : InNested(y)' => y \in alloc'
      <4>1. x = Unnamed => \A y \in Name : InNested(y)' => InNested(y)
        BY <2>6, Sizes
      <4>2. alloc \subseteq alloc' /\ (x # Unnamed => x \in alloc')
        BY <2>3, Sizes
      <4>3. QED BY <2>6, <4>1, <4>2 DEF NameInv, Apart
    <3>4. alloc \subseteq alloc'
      BY <2>3
    <3>5. QED BY <2>4, <2>8, <3>1, <3>2, <3>3, <3>4 DEF NameInv, Apart
  <2>10. RootReserved'
    BY Sizes, <2>3, <2>4, <2>6 DEF NameInv, RootReserved, InTodo, InDeclared
  <2>11. QED BY <2>9, <2>10 DEF NameInv
<1>8. CASE EnterFields
  BY <1>8 DEF EnterFields, NameInv, Apart, RootReserved, InTodo, InDeclared, InNested
<1>9. CASE EmitField
  BY <1>9 DEF EmitField, NameInv, Apart, RootReserved, InTodo, InDeclared, InNested
<1>10. CASE EndStruct
  <2>1. /\ pc = "fields" /\ todo # <<>> /\ current.name # Unnamed /\ fields \in Seq(Field)
        /\ todo' = Properties \o Tail(todo)
        /\ declared' = Append(declared, Declaration(fields)) /\ pc' \notin {"nested", "fields"}
        /\ doc' = doc /\ next' = next /\ alloc' = alloc
    BY <1>10 DEF EndStruct, Resume, TypeOK, Types, Shape
  <2>2. /\ Len(todo') = Len(nested) + Len(todo) - 1
        /\ \A i \in 1 .. Len(nested) : todo'[i].name = nested[i]
        /\ \A i \in 1 .. Len(todo') : i > Len(nested) => todo'[i] = todo[i - Len(nested) + 1]
    BY <2>1, StructCalls
  <2>3. QED BY <2>1, <2>2, Sizes, DeclareStep
<1>11. CASE check_size_limit
  BY <1>11 DEF check_size_limit, Stop, NameInv, Apart, RootReserved, InTodo, InDeclared, InNested
<1>12. CASE UNCHANGED vars
  BY <1>12 DEF vars, NameInv, Apart, RootReserved, InTodo, InDeclared, InNested
<1>13. QED
  BY <1>1, <1>2, <1>3, <1>4, <1>5, <1>6, <1>7, <1>8, <1>9, <1>10, <1>11, <1>12 DEF Next, Done

(* No two types are declared under one name, for all documents, and for    *)
(* all ways in which names of keys run into one another (emit.rs,          *)
(* compute_nested_type_names).                                             *)
THEOREM TypeNamesCorrect == Spec => []TypesDistinct
<1>1. Init => NameInv
  BY DEF Init, Reserved, NameInv, Apart, RootReserved, InTodo, InDeclared, InNested
<1>2. TypeOK /\ NameInv => TypesDistinct
  <2>1. TypeOK => DOMAIN declared = 1 .. Len(declared)
    BY LenProperties DEF TypeOK, Types
  <2>2. QED BY <2>1 DEF NameInv, Apart, TypesDistinct
<1>3. QED BY <1>1, <1>2, TypeCorrect, NamesInductive, PTL DEF Spec

(* The name Root is the root's even if defs or properties ask for it       *)
(* (lib.rs, generate).                                                     *)
THEOREM RootCorrect == Spec => []RootIsRoot
<1>1. Init => NameInv
  BY DEF Init, Reserved, NameInv, Apart, RootReserved, InTodo, InDeclared, InNested
<1>2. TypeOK /\ NameInv => RootIsRoot
  <2>1. TypeOK => DOMAIN declared = 1 .. Len(declared)
    BY LenProperties DEF TypeOK, Types
  <2>2. QED BY <2>1 DEF NameInv, RootReserved, RootIsRoot
<1>3. QED BY <1>1, <1>2, TypeCorrect, NamesInductive, PTL DEF Spec

-----------------------------------------------------------------------------
(* A type is declared for a node, or will be.                              *)
Known(output, calls, x, n) ==
  \/ \E j \in 1 .. Len(output) : output[j].name = x /\ output[j].node = n
  \/ \E j \in 1 .. Len(calls) : calls[j].name = x /\ calls[j].node = n

(* The fields written refer to known types; those of the open struct       *)
(* follow its nested names; no two fields of a struct are called the same. *)
Referred ==
  \A i \in 1 .. Len(declared) : \A f \in 1 .. Len(declared[i].fields) :
    declared[i].fields[f].type # Primitive =>
      Known(declared, todo, declared[i].fields[f].type, props(declared[i].node)[f].node)

FieldsFollow ==
  pc = "fields" =>
    \A f \in 1 .. Len(fields) :
      fields[f].type = IF nested[f] = Unnamed THEN Primitive ELSE nested[f]

FieldsApart ==
  /\ \A i \in 1 .. Len(declared) : \A f, g \in 1 .. Len(declared[i].fields) :
       declared[i].fields[f].field = declared[i].fields[g].field => f = g
  /\ pc = "fields" =>
       \A f, g \in 1 .. Len(fields) : fields[f].field = fields[g].field => f = g

FieldInv == Referred /\ FieldsFollow /\ FieldsApart

(* A declaration after which the known types are known.                    *)
LEMMA DeclareFields ==
  ASSUME TypeOK, FieldInv, todo # <<>>, current.name # Unnamed, NEW fs \in Seq(Field),
         declared' = Append(declared, Declaration(fs)), doc' = doc, pc' # "fields",
         \A x, n : Known(declared, todo, x, n) => Known(declared', todo', x, n),
         \A f \in 1 .. Len(fs) :
           fs[f].type # Primitive =>
             Known(declared', todo', fs[f].type, props(current.node)[f].node),
         \A f, g \in 1 .. Len(fs) : fs[f].field = fs[g].field => f = g
  PROVE  FieldInv'
<1>1. /\ Len(declared) \in Nat /\ Len(declared') = Len(declared) + 1
      /\ \A i \in 1 .. Len(declared) : declared'[i] = declared[i]
      /\ declared'[Len(declared) + 1].node = current.node
      /\ declared'[Len(declared) + 1].fields = fs
  BY DeclaredFacts DEF Declaration
<1>2. \A i \in 1 .. Len(declared') : i \in 1 .. Len(declared) \/ i = Len(declared) + 1
  BY <1>1
<1>3. Referred'
  <2> SUFFICES ASSUME NEW i \in 1 .. Len(declared'), NEW f \in 1 .. Len(declared'[i].fields),
                      declared'[i].fields[f].type # Primitive
               PROVE  Known(declared', todo', declared'[i].fields[f].type, props(declared'[i].node)[f].node)
    BY DEF Referred, props
  <2>1. CASE i \in 1 .. Len(declared)
    <3>1. Known(declared, todo, declared[i].fields[f].type, props(declared[i].node)[f].node)
      BY <1>1, <2>1 DEF FieldInv, Referred
    <3>2. QED BY <1>1, <2>1, <3>1
  <2>2. CASE i = Len(declared) + 1
    <3>1. Known(declared', todo', fs[f].type, props(current.node)[f].node)
      BY <1>1, <2>2
    <3>2. QED BY <1>1, <2>2, <3>1
  <2>3. QED BY <1>2, <2>1, <2>2
<1>4. FieldsApart'
  BY <1>1, <1>2 DEF FieldInv, FieldsApart
<1>5. QED BY <1>3, <1>4 DEF FieldInv, FieldsFollow

(* Known types stay known when the head of todo is declared and the rest   *)
(* moves k places.                                                         *)
LEMMA KnownMoves ==
  ASSUME TypeOK, todo # <<>>, current.name # Unnamed, NEW fs \in Seq(Field),
         declared' = Append(declared, Declaration(fs)),
         NEW k \in Nat, Len(todo') = k + Len(todo) - 1,
         \A i \in 1 .. Len(todo') : i > k => todo'[i] = todo[i - k + 1]
  PROVE  \A x, n : Known(declared, todo, x, n) => Known(declared', todo', x, n)
<1>1. /\ Len(declared) \in Nat /\ Len(declared') = Len(declared) + 1
      /\ \A i \in 1 .. Len(declared) : declared'[i] = declared[i]
      /\ declared'[Len(declared) + 1].name = todo[1].name
      /\ declared'[Len(declared) + 1].node = todo[1].node
      /\ Len(todo) \in Nat
  BY DeclaredFacts, CurrentType DEF Declaration
<1> SUFFICES ASSUME NEW x, NEW n, Known(declared, todo, x, n) PROVE Known(declared', todo', x, n)
  OBVIOUS
<1>2. CASE \E j \in 1 .. Len(declared) : declared[j].name = x /\ declared[j].node = n
  <2>1. PICK j \in 1 .. Len(declared) : declared[j].name = x /\ declared[j].node = n
    BY <1>2
  <2>2. j \in 1 .. Len(declared') /\ declared'[j] = declared[j]
    BY <1>1
  <2>3. QED BY <2>1, <2>2 DEF Known
<1>3. CASE \E j \in 1 .. Len(todo) : todo[j].name = x /\ todo[j].node = n
  <2>1. PICK j \in 1 .. Len(todo) : todo[j].name = x /\ todo[j].node = n
    BY <1>3
  <2>2. CASE j = 1
    <3>1. Len(declared) + 1 \in 1 .. Len(declared')
      BY <1>1
    <3>2. QED BY <1>1, <2>1, <2>2, <3>1 DEF Known
  <2>3. CASE j > 1
    <3>1. j + k - 1 \in 1 .. Len(todo') /\ j + k - 1 > k /\ j + k - 1 - k + 1 = j
      BY <1>1, <2>3
    <3>2. todo'[j + k - 1] = todo[j]
      BY <3>1
    <3>3. QED BY <2>1, <3>1, <3>2 DEF Known
  <2>4. QED BY <1>1, <2>2, <2>3
<1>4. QED BY <1>2, <1>3 DEF Known

(* The calls behind the head move up when it is done.                      *)
LEMMA Behind ==
  ASSUME TypeOK, todo # <<>>, NEW calls, calls = Tail(todo)
  PROVE  /\ Len(calls) = 0 + Len(todo) - 1
         /\ \A i \in 1 .. Len(calls) : i > 0 => calls[i] = todo[i - 0 + 1]
         /\ \A i \in 1 .. Len(todo) : i > 1 => i - 1 \in 1 .. Len(calls) /\ calls[i - 1] = todo[i]
<1>1. /\ Len(todo) \in Nat \ {0} /\ Len(calls) = Len(todo) - 1
      /\ \A i \in 1 .. Len(calls) : calls[i] = todo[i + 1]
  BY CurrentType
<1>2. ASSUME NEW i \in 1 .. Len(todo), i > 1
      PROVE  i - 1 \in 1 .. Len(calls) /\ calls[i - 1] = todo[i]
  <2>1. i - 1 \in 1 .. Len(calls) /\ i - 1 + 1 = i
    BY <1>1, <1>2
  <2>2. QED BY <1>1, <2>1
<1>3. QED BY <1>1, <1>2

(* Fields keep to their types and names.                                   *)
LEMMA FieldsInductive == TypeOK /\ TypeOK' /\ FieldInv /\ [Next]_vars => FieldInv'
<1> SUFFICES ASSUME TypeOK, TypeOK', FieldInv, [Next]_vars PROVE FieldInv'
  OBVIOUS
<1>1. ASSUME declared' = declared, doc' = doc, pc' # "fields",
             \A x, n : x \in Name /\ Known(declared, todo, x, n) => Known(declared', todo', x, n)
      PROVE  FieldInv'
  <2>1. ASSUME NEW i \in 1 .. Len(declared), NEW f \in 1 .. Len(declared[i].fields)
        PROVE  declared[i].fields[f].type \in Name \cup {Primitive}
    <3>1. declared[i] \in Output
      BY ElementOfSeq DEF TypeOK, Types
    <3>2. declared[i].fields \in Seq(Field)
      BY <3>1 DEF Output
    <3>3. declared[i].fields[f] \in Field
      BY <2>1, <3>2, ElementOfSeq
    <3>4. QED BY <3>3 DEF Field
  <2>2. Referred'
    BY <1>1, <2>1 DEF FieldInv, Referred, props
  <2>3. QED BY <1>1, <2>2 DEF FieldInv, FieldsFollow, FieldsApart
<1>2. CASE AnalyseRoot
  <2>1. declared' = declared /\ doc' = doc /\ pc' # "fields" /\ todo' = todo
    BY <1>2 DEF AnalyseRoot, Stop
  <2>2. QED BY <1>1, <2>1 DEF Known
<1>3. CASE EmitDef
  <2>1. declared' = declared /\ doc' = doc /\ pc' # "fields" /\ Len(todo) = 0
    BY <1>3 DEF EmitDef, Stop, TypeOK, Shape
  <2>2. QED BY <1>1, <2>1 DEF Known
<1>4. CASE EmitRoot
  <2>1. declared' = declared /\ doc' = doc /\ pc' # "fields" /\ Len(todo) = 0
    BY <1>4 DEF EmitRoot, TypeOK, Shape
  <2>2. QED BY <1>1, <2>1 DEF Known
<1>5. CASE EmitOther
  <2>1. /\ todo # <<>> /\ current.name # Unnamed /\ <<>> \in Seq(Field) /\ todo' = Tail(todo)
        /\ declared' = Append(declared, Declaration(<<>>)) /\ pc' # "fields" /\ doc' = doc
    BY <1>5 DEF EmitOther, Resume, TypeOK, Shape
  <2>2. /\ Len(todo') = 0 + Len(todo) - 1
        /\ \A i \in 1 .. Len(todo') : i > 0 => todo'[i] = todo[i - 0 + 1]
    BY <2>1, Behind
  <2>3. \A x, n : Known(declared, todo, x, n) => Known(declared', todo', x, n)
    BY <2>1, <2>2, KnownMoves
  <2>4. PICK fs \in Seq(Field) : fs = <<>> /\ declared' = Append(declared, Declaration(fs))
    BY <2>1
  <2>5. \A f \in 1 .. Len(fs) : FALSE
    BY <2>4
  <2>6. QED BY <2>1, <2>3, <2>4, <2>5, DeclareFields
<1>6. CASE SkipProperty
  <2>1. /\ todo # <<>> /\ current.name = Unnamed /\ todo' = Tail(todo)
        /\ declared' = declared /\ pc' # "fields" /\ doc' = doc
    BY <1>6 DEF SkipProperty, Resume, TypeOK, Shape
  <2>2. \A i \in 1 .. Len(todo) : i > 1 => i - 1 \in 1 .. Len(todo') /\ todo'[i - 1] = todo[i]
    BY <2>1, Behind
  <2>3. ASSUME NEW x, NEW n, x \in Name, Known(declared, todo, x, n) PROVE Known(declared', todo', x, n)
    <3>1. CASE \E j \in 1 .. Len(declared) : declared[j].name = x /\ declared[j].node = n
      BY <2>1, <3>1 DEF Known
    <3>2. CASE \E j \in 1 .. Len(todo) : todo[j].name = x /\ todo[j].node = n
      <4>1. PICK j \in 1 .. Len(todo) : todo[j].name = x /\ todo[j].node = n
        BY <3>2
      <4>2. j # 1
        BY <2>1, <2>3, <4>1, CurrentType, Sizes
      <4>3. j > 1
        BY <4>2, Sizes
      <4>4. QED BY <2>2, <4>1, <4>3 DEF Known
    <3>3. QED BY <2>3, <3>1, <3>2 DEF Known
  <2>4. QED BY <1>1, <2>1, <2>3
<1>7. CASE EnterStruct
  <2>1. declared' = declared /\ doc' = doc /\ pc' # "fields" /\ todo' = todo
    BY <1>7 DEF EnterStruct
  <2>2. QED BY <1>1, <2>1 DEF Known
<1>8. CASE NameNested
  <2>1. declared' = declared /\ doc' = doc /\ pc' # "fields" /\ todo' = todo
    BY <1>8 DEF NameNested
  <2>2. QED BY <1>1, <2>1 DEF Known
<1>9. CASE EnterFields
  <2>1. declared' = declared /\ doc' = doc /\ Len(fields') = 0 /\ todo' = todo
    BY <1>9 DEF EnterFields
  <2>2. 1 .. Len(fields') = {}
    BY <2>1
  <2>3. FieldsFollow' /\ FieldsApart'
    BY <2>1, <2>2 DEF FieldInv, FieldsFollow, FieldsApart
  <2>4. Referred'
    <3>1. \A n : props(n)' = props(n)
      BY <2>1 DEF props
    <3>2. QED BY <2>1, <3>1 DEF FieldInv, Referred
  <2>5. QED BY <2>3, <2>4 DEF FieldInv
<1>10. CASE EmitField
  <2> DEFINE i == Len(fields) + 1
             name == unique_name(FieldName[props(current.node)[i].key], used_names)
             type == IF nested[i] = Unnamed THEN Primitive ELSE nested[i]
  <2>1. /\ declared' = declared /\ doc' = doc /\ todo' = todo /\ nested' = nested /\ pc' = pc
        /\ pc = "fields" /\ fields' = Append(fields, [field |-> name, type |-> type])
    BY <1>10 DEF EmitField
  <2>2. /\ fields \in Seq(Field) /\ Len(fields) \in Nat /\ Len(nested) \in Nat
        /\ Len(fields) < Len(nested) /\ Len(nested) = Len(props(current.node))
        /\ current.node \in Node
    BY <1>10, CurrentType, Sizes, LenProperties DEF EmitField, TypeOK, Types, Shape
  <2>3. FieldName[props(current.node)[i].key] \in Name
    <3>1. i \in 1 .. Len(props(current.node))
      BY <2>2
    <3>2. QED BY <2>2, <3>1, Sizes, PropsFacts
  <2>4. name \notin used_names
    BY <2>2, <2>3, UsedNamesFinite, UniqueName
  <2> HIDE DEF name, type
  <2>5. /\ Len(fields') = i
        /\ \A f \in 1 .. Len(fields) : fields'[f] = fields[f]
        /\ fields'[i] = [field |-> name, type |-> type]
    BY <2>1, <2>2
  <2>6. \A f \in 1 .. Len(fields) : fields[f].field # name
    BY <2>2, <2>4 DEF used_names
  <2>7. \A f \in 1 .. Len(fields') : f \in 1 .. Len(fields) \/ f = i
    BY <2>2, <2>5
  <2>8. FieldsFollow'
    BY <2>1, <2>5, <2>7 DEF FieldInv, FieldsFollow, type
  <2>9. FieldsApart'
    BY <2>1, <2>5, <2>6, <2>7 DEF FieldInv, FieldsApart
  <2>10. Referred'
    BY <2>1 DEF FieldInv, Referred, props
  <2>11. QED BY <2>8, <2>9, <2>10 DEF FieldInv
<1>11. CASE EndStruct
  <2>1. /\ pc = "fields" /\ todo # <<>> /\ current.name # Unnamed /\ fields \in Seq(Field)
        /\ Len(fields) = Len(nested) /\ todo' = Properties \o Tail(todo)
        /\ declared' = Append(declared, Declaration(fields)) /\ pc' # "fields" /\ doc' = doc
    BY <1>11 DEF EndStruct, Resume, TypeOK, Types, Shape
  <2>2. /\ Len(todo') = Len(nested) + Len(todo) - 1
        /\ \A i \in 1 .. Len(nested) :
             todo'[i].name = nested[i] /\ todo'[i].node = props(current.node)[i].node
        /\ \A i \in 1 .. Len(todo') : i > Len(nested) => todo'[i] = todo[i - Len(nested) + 1]
    BY <2>1, StructCalls
  <2>3. \A x, n : Known(declared, todo, x, n) => Known(declared', todo', x, n)
    BY <2>1, <2>2, Sizes, KnownMoves
  <2>4. ASSUME NEW f \in 1 .. Len(fields), fields[f].type # Primitive
        PROVE  Known(declared', todo', fields[f].type, props(current.node)[f].node)
    <3>1. nested[f] # Unnamed /\ fields[f].type = nested[f]
      BY <2>1, <2>4 DEF FieldInv, FieldsFollow
    <3>2. f \in 1 .. Len(nested) /\ f \in 1 .. Len(todo')
      BY <2>1, <2>2, Sizes, CurrentType
    <3>3. QED BY <2>1, <2>2, <3>1, <3>2 DEF Known
  <2>5. \A f, g \in 1 .. Len(fields) : fields[f].field = fields[g].field => f = g
    BY <2>1 DEF FieldInv, FieldsApart
  <2>6. QED BY <2>1, <2>3, <2>4, <2>5, DeclareFields
<1>12. CASE check_size_limit
  <2>1. declared' = declared /\ doc' = doc /\ pc' # "fields" /\ todo' = todo
    BY <1>12 DEF check_size_limit, Stop
  <2>2. QED BY <1>1, <2>1 DEF Known
<1>13. CASE UNCHANGED vars
  <2>1. declared' = declared /\ doc' = doc /\ pc' = pc /\ todo' = todo
        /\ fields' = fields /\ nested' = nested
    BY <1>13 DEF vars
  <2>2. FieldsFollow' /\ FieldsApart'
    BY <2>1 DEF FieldInv, FieldsFollow, FieldsApart
  <2>3. Referred'
    <3>1. \A n : props(n)' = props(n)
      BY <2>1 DEF props
    <3>2. QED BY <2>1, <3>1 DEF FieldInv, Referred
  <2>4. QED BY <2>2, <2>3 DEF FieldInv
<1>14. CASE Done
  BY <1>13, <1>14 DEF Done
<1>15. QED
  BY <1>2, <1>3, <1>4, <1>5, <1>6, <1>7, <1>8, <1>9, <1>10, <1>11, <1>12, <1>13, <1>14 DEF Next

(* Every field whose type got a name refers to the declaration of the      *)
(* schema of its property, in any output that generate returns.            *)
THEOREM FieldTypesCorrect == Spec => []FieldTypesDeclared
<1>1. Init => FieldInv
  BY DEF Init, FieldInv, Referred, FieldsFollow, FieldsApart
<1>2. TypeOK /\ FieldInv => FieldTypesDeclared
  <2> SUFFICES ASSUME TypeOK, FieldInv, outcome = "ok",
                      NEW i \in DOMAIN declared, NEW f \in DOMAIN declared[i].fields,
                      declared[i].fields[f].type # Primitive
               PROVE  \E j \in DOMAIN declared :
                        /\ declared[j].name = declared[i].fields[f].type
                        /\ declared[j].node = props(declared[i].node)[f].node
    BY DEF FieldTypesDeclared
  <2>1. DOMAIN declared = 1 .. Len(declared) /\ declared[i] \in Output /\ Len(todo) = 0
    BY ElementOfSeq DEF TypeOK, Types, Shape
  <2>2. declared[i].fields \in Seq(Field)
    BY <2>1 DEF Output
  <2>3. f \in 1 .. Len(declared[i].fields)
    BY <2>2, LenProperties
  <2>4. Known(declared, todo, declared[i].fields[f].type, props(declared[i].node)[f].node)
    BY <2>1, <2>3 DEF FieldInv, Referred
  <2>5. QED BY <2>1, <2>4 DEF Known
<1>3. QED BY <1>1, <1>2, TypeCorrect, FieldsInductive, PTL DEF Spec

(* The fields of a struct have different names, whatever its keys are      *)
(* (emit.rs, emit_struct_fields).                                          *)
THEOREM FieldsCorrect == Spec => []FieldsDistinct
<1>1. Init => FieldInv
  BY DEF Init, FieldInv, Referred, FieldsFollow, FieldsApart
<1>2. TypeOK /\ FieldInv => FieldsDistinct
  <2> SUFFICES ASSUME TypeOK, FieldInv, NEW i \in DOMAIN declared
               PROVE  \A f, g \in DOMAIN declared[i].fields :
                        declared[i].fields[f].field = declared[i].fields[g].field => f = g
    BY DEF FieldsDistinct
  <2>1. DOMAIN declared = 1 .. Len(declared) /\ declared[i] \in Output
    <3>1. declared \in Seq(Output)
      BY DEF TypeOK, Types
    <3>2. QED BY <3>1, LenProperties, ElementOfSeq
  <2>2. declared[i].fields \in Seq(Field)
    BY <2>1 DEF Output
  <2>3. DOMAIN declared[i].fields = 1 .. Len(declared[i].fields)
    BY <2>2, LenProperties
  <2>4. QED BY <2>1, <2>3 DEF FieldInv, FieldsApart
<1>3. QED BY <1>1, <1>2, TypeCorrect, FieldsInductive, PTL DEF Spec

(* In whatever order names are taken, types, the root and the fields of    *)
(* each struct have names of their own (names.rs, unique_name).            *)
THEOREM NamesCorrect == Spec => []NamesDistinct
<1>1. TypesDistinct /\ RootIsRoot /\ FieldsDistinct => NamesDistinct
  BY DEF NamesDistinct
<1>2. QED BY <1>1, TypeNamesCorrect, RootCorrect, FieldsCorrect, PTL
=============================================================================
