--------------------------- MODULE RegistryProofs ---------------------------
(***************************************************************************)
(* Invariants of Registry for every set of documents, URIs and references, *)
(* and that it implements Library.                                         *)
(***************************************************************************)
EXTENDS Registry, TLAPS

(* What the construction reads of a document.                              *)
LEMMA DocFacts ==
  ASSUME NEW d \in Docs
  PROVE  /\ d \in Doc /\ d # NoDoc
         /\ d.walked \in Nat /\ d.walked >= 1 /\ d.walked <= Len(d.objects)
         /\ d.objects \in Seq(Object) /\ Len(d.objects) \in Nat
         /\ \A i \in 1 .. d.walked : d.objects[i] \in Object
<1>1. d \in Doc /\ d # NoDoc /\ d.walked \in 1 .. Len(d.objects)
  BY DocumentsAssumption
<1>2. d.walked \in Nat /\ d.objects \in Seq(Object)
  BY <1>1 DEF Doc
<1>3. Len(d.objects) \in Nat
  BY <1>2
<1>4. ASSUME NEW i \in 1 .. d.walked PROVE d.objects[i] \in Object
  BY <1>1, <1>2, <1>3
<1>5. QED BY <1>1, <1>2, <1>3, <1>4

(* collect_anchors makes an anchor table of walked objects.                *)
LEMMA AnchorsType ==
  ASSUME NEW d \in Docs
  PROVE  collect_anchors(d) \in [Name -> Object \cup {NoObject}]
<1>1. ASSUME NEW n \in Name, \E i \in 1 .. d.walked : d.objects[i].anchor = n
      PROVE  d.objects[CHOOSE i \in 1 .. d.walked : d.objects[i].anchor = n] \in Object
  BY <1>1, DocFacts
<1>2. QED BY <1>1 DEF collect_anchors

(* A JSON Pointer leads to an object of the document or to nothing.        *)
LEMMA PointedType ==
  ASSUME NEW d \in Docs, NEW n \in Nat \ {0}
  PROVE  Pointed(d, n) \in Object \cup {NoObject}
<1>1. CASE n <= Len(d.objects)
  BY <1>1, DocFacts DEF Pointed
<1>2. CASE ~(n <= Len(d.objects))
  BY <1>2 DEF Pointed
<1>3. QED BY <1>1, <1>2

(* The two forms of a place.                                               *)
LEMMA PlaceFacts ==
  ASSUME NEW ref \in Refs
  PROVE  /\ ref.to \in {"here", "key"}
         /\ ref.to # "here" => ref.key \in Key
         /\ IsPosition(ref.place) => ref.place.position \in Nat \ {0}
         /\ ~IsPosition(ref.place) => ref.place.anchor \in Name
<1>1. ref \in Ref
  BY DocumentsAssumption
<1>2. /\ ref.to \in {"here", "key"}
      /\ ref.to # "here" => ref.key \in Key
      /\ ref.place \in Place
  BY <1>1 DEF Ref
<1>3. CASE ref.place \in [position : Nat \ {0}]
  BY <1>2, <1>3 DEF IsPosition
<1>4. CASE ref.place \in [anchor : Name]
  BY <1>2, <1>4 DEF IsPosition
<1>5. QED BY <1>2, <1>3, <1>4 DEF Place

-----------------------------------------------------------------------------
(* A validator's fields keep their types: its pattern cache holds compiled *)
(* expressions only, whichever calls failed.                               *)
THEOREM TypeCorrect == Spec => []TypeOK
<1>1. Init => TypeOK
  BY DEF Init, TypeOK, NoAnchors, Results
<1>2. TypeOK /\ [Next]_vars => TypeOK'
  <2> SUFFICES ASSUME TypeOK, [Next]_vars PROVE TypeOK'
    OBVIOUS
  <2> USE DEF TypeOK, Results
  <2>1. ASSUME NEW d \in Docs, NewFails(d) PROVE TypeOK'
    BY <2>1 DEF NewFails, NewError
  <2>2. ASSUME NEW d \in Docs, NEW b \in Id \cup {NoBase}, New(d, b) PROVE TypeOK'
    <3>1. patterns' \subseteq Compiles
      BY <2>2 DEF New, collect_patterns
    <3>2. registry' \in [Key -> Docs \cup {NoDoc}]
      BY <2>2 DEF New
    <3>3. anchors_by_doc' \in [Key -> [Name -> Object \cup {NoObject}]]
      BY <2>2, AnchorsType DEF New, NoAnchors
    <3>4. QED BY <2>2, <3>1, <3>2, <3>3 DEF New
  <2>3. ASSUME NEW d \in Docs, AddUnsupported(d) PROVE TypeOK'
    BY <2>3 DEF AddUnsupported
  <2>4. ASSUME NEW d \in Docs, AddFails(d) PROVE TypeOK'
    <3>1. patterns' \subseteq Compiles
      BY <2>4 DEF AddFails, collect_patterns
    <3>2. QED BY <2>4, <3>1 DEF AddFails
  <2>5. ASSUME NEW d \in Docs, NEW id \in Id, AddSchema(d, id) PROVE TypeOK'
    <3>1. patterns' \subseteq Compiles
      BY <2>5 DEF AddSchema, collect_patterns
    <3>2. registry' \in [Key -> Docs \cup {NoDoc}]
      BY <2>5 DEF AddSchema
    <3>3. anchors_by_doc' \in [Key -> [Name -> Object \cup {NoObject}]]
      BY <2>5, AnchorsType DEF AddSchema
    <3>4. QED BY <2>5, <3>1, <3>2, <3>3 DEF AddSchema
  <2>6. ASSUME NEW ref \in Refs, ResolveRef(ref) PROVE TypeOK'
    <3>1. answer' \in Object \cup {NoObject}
      <4>1. CASE ref.to = "here"
        BY <2>6, <4>1, PlaceFacts, PointedType, DocumentsAssumption DEF ResolveRef, resolve_ref
      <4>2. CASE ref.to # "here"
        BY <2>6, <4>2, PlaceFacts, PointedType, DocumentsAssumption DEF ResolveRef, resolve_ref
      <4>3. QED BY <4>1, <4>2
    <3>2. QED BY <2>6, <3>1 DEF ResolveRef
  <2>7. CASE UNCHANGED vars
    BY <2>7 DEF vars
  <2>8. QED BY <2>1, <2>2, <2>3, <2>4, <2>5, <2>6, <2>7 DEF Next
<1>3. QED BY <1>1, <1>2, PTL DEF Spec

-----------------------------------------------------------------------------
(* The anchors under a key are those of the document under it, after any   *)
(* sequence of calls: nothing is written before every check has passed.    *)
THEOREM AnchorsStayInStep == Spec => []AnchorsInStep
<1>1. Init => AnchorsInStep
  BY DEF Init, AnchorsInStep
<1>2. TypeOK /\ AnchorsInStep /\ [Next]_vars => AnchorsInStep'
  <2> SUFFICES ASSUME TypeOK, AnchorsInStep, [Next]_vars,
                      NEW k \in Key, registry'[k] # NoDoc
               PROVE  anchors_by_doc'[k] = collect_anchors(registry'[k])
    BY DEF AnchorsInStep
  <2>1. CASE UNCHANGED <<registry, anchors_by_doc>>
    BY <2>1 DEF AnchorsInStep
  <2>2. ASSUME NEW d \in Docs, NEW b \in Id \cup {NoBase}, New(d, b)
        PROVE  anchors_by_doc'[k] = collect_anchors(registry'[k])
    BY <2>2 DEF New
  <2>3. ASSUME NEW d \in Docs, NEW id \in Id, AddSchema(d, id)
        PROVE  anchors_by_doc'[k] = collect_anchors(registry'[k])
    <3>1. CASE k = normalize[id]
      BY <2>3, <3>1 DEF AddSchema, TypeOK
    <3>2. CASE k # normalize[id]
      BY <2>3, <3>2 DEF AddSchema, TypeOK, AnchorsInStep
    <3>3. QED BY <3>1, <3>2
  <2>4. QED
    BY <2>1, <2>2, <2>3 DEF Next, vars, NewFails, AddUnsupported, AddFails, ResolveRef
<1>3. QED BY <1>1, <1>2, TypeCorrect, PTL DEF Spec

-----------------------------------------------------------------------------
(* A walk that meets no bad pattern collects them all.                     *)
LEMMA AllCollected ==
  ASSUME NEW d \in Docs, AllCompile(d), NEW i \in 1 .. d.walked
  PROVE  PatternsOf(d.objects[i]) \subseteq collect_patterns(d)
<1> SUFFICES ASSUME NEW j \in 1 .. Len(d.objects[i].patterns)
             PROVE  d.objects[i].patterns[j] \in collect_patterns(d)
  BY DEF PatternsOf
<1>1. \A k \in 1 .. d.walked : \A l \in 1 .. Len(d.objects[k].patterns) :
        d.objects[k].patterns[l] \in Compiles
  BY DEF AllCompile, PatternsOf
<1>2. QED BY <1>1, DocumentsAssumption DEF collect_patterns

(* Every pattern of a document in use stays compiled: add_schema merges    *)
(* into the cache and never replaces it.                                   *)
THEOREM PatternsStayCompiled == Spec => []PatternsCompiled
<1> DEFINE Has(d) == d # NoDoc => \A i \in 1 .. d.walked : PatternsOf(d.objects[i]) \subseteq patterns
           Inv == Has(schema) /\ \A k \in Key : Has(registry[k])
<1>1. Inv <=> PatternsCompiled
  BY DEF PatternsCompiled
<1>2. Init => Inv
  BY DEF Init
<1>3. TypeOK /\ Inv /\ [Next]_vars => Inv'
  <2> SUFFICES ASSUME TypeOK, Inv, [Next]_vars PROVE Inv'
    OBVIOUS
  <2>1. CASE UNCHANGED <<schema, registry>> /\ patterns \subseteq patterns'
    BY <2>1
  <2>2. ASSUME NEW d \in Docs, NEW b \in Id \cup {NoBase}, New(d, b) PROVE Inv'
    <3>1. AllCompile(d)
      BY <2>2 DEF New, NewError
    <3>2. \A i \in 1 .. d.walked : PatternsOf(d.objects[i]) \subseteq patterns'
      BY <2>2, <3>1, AllCollected DEF New
    <3>3. schema' = d /\ \A k \in Key : registry'[k] \in {d, NoDoc}
      BY <2>2 DEF New
    <3>4. QED BY <3>2, <3>3
  <2>3. ASSUME NEW d \in Docs, NEW id \in Id, AddSchema(d, id) PROVE Inv'
    <3>1. \A i \in 1 .. d.walked : PatternsOf(d.objects[i]) \subseteq patterns'
      BY <2>3, AllCollected DEF AddSchema
    <3>2. patterns \subseteq patterns' /\ schema' = schema
      BY <2>3 DEF AddSchema
    <3>3. \A k \in Key : registry'[k] = d \/ registry'[k] = registry[k]
      BY <2>3 DEF AddSchema, TypeOK
    <3>4. QED BY <3>1, <3>2, <3>3
  <2>4. QED
    BY <2>1, <2>2, <2>3 DEF Next, vars, NewFails, AddUnsupported, AddFails, ResolveRef
<1>4. QED BY <1>1, <1>2, <1>3, TypeCorrect, PTL DEF Spec
(* After any calls, refused ones included, a lookup for a document in use  *)
(* finds what the walks of its construction collected.                     *)
THEOREM TablesCorrect == Spec => []TablesExact
<1>1. AnchorsInStep /\ PatternsCompiled => TablesExact
  BY DEF TablesExact
<1>2. QED BY <1>1, AnchorsStayInStep, PatternsStayCompiled, PTL

-----------------------------------------------------------------------------
(***************************************************************************)
(* Registry implements Library, as long as no document is added under a    *)
(* URI that normalizes to the root document's key.                         *)
(***************************************************************************)
Sound(d) == check_for_unsupported_keywords(d) /\ ~DuplicateAnchor(d) /\ AllCompile(d)

(* The three walks together find what Library calls acceptable.            *)
LEMMA SoundIsAcceptable ==
  ASSUME NEW d \in Docs, Sound(d)
  PROVE  Promise!Acceptable(d)
<1>1. \A o \in Promise!Walked(d) : ~o.unsupported /\ PatternsOf(o) \subseteq Compiles
  BY DEF Sound, check_for_unsupported_keywords, AllCompile, Promise!Walked
<1>2. \A i, j \in 1 .. d.walked :
        i # j /\ d.objects[i].anchor = d.objects[j].anchor => d.objects[i].anchor = NoName
  BY DEF Sound, DuplicateAnchor
<1>3. QED BY <1>1, <1>2 DEF Promise!Acceptable, Promise!PatternsOf, PatternsOf

(* An anchor table names the one object that carries the anchor.           *)
LEMMA AnchorTableExact ==
  ASSUME NEW d \in Docs, Sound(d), NEW place, ~IsPosition(place), place.anchor \in Name
  PROVE  collect_anchors(d)[place.anchor] = Promise!At(d, place)
<1> DEFINE n == place.anchor
           Carriers == {i \in 1 .. d.walked : d.objects[i].anchor = n}
<1>1. \A i, j \in Carriers : i = j
  BY DocumentsAssumption DEF Sound, DuplicateAnchor
<1>2. d # NoDoc
  BY DocFacts
<1>3. CASE Carriers = {}
  <2>1. ~\E o \in Promise!Walked(d) : o.anchor = n
    BY <1>3 DEF Promise!Walked
  <2>2. collect_anchors(d)[n] = NoObject
    BY <1>3 DEF collect_anchors
  <2>3. QED BY <2>1, <2>2, <1>2 DEF Promise!At, Promise!IsPosition, IsPosition
<1>4. ASSUME NEW i \in Carriers
      PROVE  collect_anchors(d)[n] = Promise!At(d, place)
  <2>1. (CHOOSE j \in 1 .. d.walked : d.objects[j].anchor = n) = i
    <3>1. \E j \in 1 .. d.walked : d.objects[j].anchor = n
      OBVIOUS
    <3>2. (CHOOSE j \in 1 .. d.walked : d.objects[j].anchor = n) \in Carriers
      BY <3>1
    <3>3. QED BY <1>1, <3>2
  <2>2. collect_anchors(d)[n] = d.objects[i]
    BY <2>1 DEF collect_anchors
  <2>3. d.objects[i] \in Promise!Walked(d) /\ d.objects[i].anchor = n
    BY DEF Promise!Walked
  <2>4. \A o \in Promise!Walked(d) : o.anchor = n => o = d.objects[i]
    BY <1>1 DEF Promise!Walked
  <2>5. (CHOOSE o \in Promise!Walked(d) : o.anchor = n) = d.objects[i]
    BY <2>3, <2>4
  <2>6. QED BY <2>2, <2>3, <2>5, <1>2 DEF Promise!At, Promise!IsPosition, IsPosition
<1>5. QED BY <1>3, <1>4

(* The root document's anchors stay under the empty key, as documented for *)
(* Validator.anchors_by_doc.  It holds while no id normalizes to that key. *)
RootAnchorsKept == schema # NoDoc => anchors_by_doc[RootKey] = collect_anchors(schema)

(* What ties the tables of a validator to the documents it has accepted.   *)
Tied ==
  /\ RootAnchorsKept
  /\ schema # NoDoc => Sound(schema)
  /\ \A k \in Key : registry[k] # NoDoc => Sound(registry[k])

(* A lookup in tied tables finds what the document itself says.            *)
LEMMA LookupExact ==
  ASSUME TypeOK, AnchorsInStep, Tied, schema # NoDoc, NEW ref \in Refs
  PROVE  resolve_ref(ref)
           = Promise!At(IF ref.to = "here" THEN schema ELSE registry[ref.key], ref.place)
<1>1. schema \in Docs /\ Sound(schema)
  BY DEF TypeOK, Tied
<1>2. \A d \in Docs : IsPosition(ref.place) =>
        Pointed(d, ref.place.position) = Promise!At(d, ref.place)
  BY DocFacts DEF Pointed, Promise!At, Promise!IsPosition, IsPosition
<1>3. CASE ref.to = "here"
  <2>1. CASE IsPosition(ref.place)
    BY <1>1, <1>2, <1>3, <2>1 DEF resolve_ref
  <2>2. CASE ~IsPosition(ref.place)
    <3>1. anchors_by_doc[RootKey] = collect_anchors(schema)
      BY DEF Tied, RootAnchorsKept
    <3>2. QED BY <1>1, <1>3, <2>2, <3>1, PlaceFacts, AnchorTableExact DEF resolve_ref
  <2>3. QED BY <2>1, <2>2
<1>4. CASE ref.to # "here" /\ registry[ref.key] = NoDoc
  BY <1>4 DEF resolve_ref, Promise!At
<1>5. CASE ref.to # "here" /\ registry[ref.key] # NoDoc
  <2>1. ref.key \in Key
    BY <1>5, PlaceFacts
  <2>2. registry[ref.key] \in Docs /\ Sound(registry[ref.key])
    BY <1>5, <2>1 DEF TypeOK, Tied
  <2>3. anchors_by_doc[ref.key] = collect_anchors(registry[ref.key])
    BY <1>5, <2>1 DEF AnchorsInStep
  <2>4. CASE IsPosition(ref.place)
    BY <1>2, <1>5, <2>2, <2>4 DEF resolve_ref
  <2>5. CASE ~IsPosition(ref.place)
    BY <1>5, <2>2, <2>3, <2>5, PlaceFacts, AnchorTableExact DEF resolve_ref
  <2>6. QED BY <2>4, <2>5
<1>6. QED BY <1>3, <1>4, <1>5

(* new and add_schema accept a document as a whole or leave no trace that  *)
(* a reference could see, and every reference is answered from the         *)
(* document it names.                                                      *)
THEOREM ImplementsLibrary ==
  ASSUME \A id \in Id : normalize[id] # RootKey
  PROVE  Spec => KeepsPromise
<1>1. Init => Tied /\ Promise!Init
  BY DEF Init, Tied, RootAnchorsKept, Promise!Init
<1>2. TypeOK /\ AnchorsInStep /\ Tied /\ [Next]_vars
        => Tied' /\ [Promise!Next]_<<schema, registry, answer>>
  <2> SUFFICES ASSUME TypeOK, AnchorsInStep, Tied, [Next]_vars
               PROVE  Tied' /\ [Promise!Next]_<<schema, registry, answer>>
    OBVIOUS
  <2>1. CASE UNCHANGED <<schema, registry, anchors_by_doc, answer>>
    BY <2>1 DEF Tied, RootAnchorsKept
  <2>2. ASSUME NEW d \in Docs, NEW b \in Id \cup {NoBase}, New(d, b)
        PROVE  Tied' /\ [Promise!Next]_<<schema, registry, answer>>
    <3>1. Sound(d)
      BY <2>2 DEF New, NewError, Sound
    <3>2. Tied'
      BY <2>2, <3>1, DocumentsAssumption DEF New, Tied, RootAnchorsKept
    <3>3. CASE b = NoBase
      <4>1. Promise!Build(d, {})
        BY <2>2, <3>1, <3>3, SoundIsAcceptable DEF New, Promise!Build
      <4>2. QED BY <3>2, <4>1 DEF Promise!Next
    <3>4. CASE b # NoBase
      <4>1. normalize[b] \in Key
        BY <3>4, RegistryAssumption
      <4>2. Promise!Build(d, {normalize[b]})
        BY <2>2, <3>1, <3>4, SoundIsAcceptable DEF New, Promise!Build
      <4>3. QED BY <3>2, <4>1, <4>2 DEF Promise!Next
    <3>5. QED BY <3>3, <3>4
  <2>3. ASSUME NEW d \in Docs, NEW id \in Id, AddSchema(d, id)
        PROVE  Tied' /\ [Promise!Next]_<<schema, registry, answer>>
    <3>1. Sound(d) /\ normalize[id] \in Key
      BY <2>3, RegistryAssumption DEF AddSchema, Sound
    <3>2. anchors_by_doc'[RootKey] = anchors_by_doc[RootKey]
      BY <2>3, DocumentsAssumption DEF AddSchema, TypeOK
    <3>3. \A k \in Key : registry'[k] = d \/ registry'[k] = registry[k]
      BY <2>3 DEF AddSchema, TypeOK
    <3>4. Tied'
      BY <2>3, <3>1, <3>2, <3>3 DEF AddSchema, Tied, RootAnchorsKept
    <3>5. Promise!Add(d, normalize[id])
      BY <2>3, <3>1, SoundIsAcceptable DEF AddSchema, Promise!Add
    <3>6. QED BY <3>1, <3>4, <3>5 DEF Promise!Next
  <2>4. ASSUME NEW ref \in Refs, ResolveRef(ref)
        PROVE  Tied' /\ [Promise!Next]_<<schema, registry, answer>>
    <3>1. Tied'
      BY <2>4 DEF ResolveRef, Tied, RootAnchorsKept
    <3>2. Promise!Refer(ref)
      BY <2>4, LookupExact DEF ResolveRef, Promise!Refer
    <3>3. QED BY <3>1, <3>2 DEF Promise!Next
  <2>5. QED
    BY <2>1, <2>2, <2>3, <2>4 DEF Next, vars, NewFails, AddUnsupported, AddFails
<1>3. QED
  BY <1>1, <1>2, TypeCorrect, AnchorsStayInStep, PTL DEF Spec, KeepsPromise, Promise!Spec
=============================================================================
