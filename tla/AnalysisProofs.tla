--------------------------- MODULE AnalysisProofs ---------------------------
(***************************************************************************)
(* Proofs about Analysis, for every forest of schema nodes.                *)
(***************************************************************************)
EXTENDS Analysis, SequenceTheorems, WellFoundedInduction, TLAPS

(* Induction, with the set of the numbers that a property holds of.        *)
LEMMA SetInduction ==
  ASSUME NEW S \in SUBSET Nat, 0 \in S, \A n \in S : n + 1 \in S
  PROVE  S = Nat
<1> SUFFICES ASSUME Nat \ S # {} PROVE FALSE
  OBVIOUS
<1>1. PICK x \in Nat \ S : \A y \in Nat \ S : ~(<<y, x>> \in OpToRel(<, Nat))
  BY NatLessThanWellFounded, WFMin
<1>2. x \in Nat /\ x # 0 /\ x - 1 \in Nat
  OBVIOUS
<1>3. x - 1 \in S
  <2>1. x - 1 < x
    BY <1>2
  <2>2. <<x - 1, x>> \in OpToRel(<, Nat)
    BY <1>2, <2>1 DEF OpToRel
  <2> QED
    BY <1>1, <1>2, <2>2
<1>4. (x - 1) + 1 = x
  BY <1>2
<1> QED
  BY <1>1, <1>3, <1>4

(* From the parts to the whole: what holds of a node when of all with      *)
(* greater numbers holds of every node.                                    *)
LEMMA NodeInduction ==
  ASSUME NEW S, \A n \in Node : (\A m \in Node : m > n => m \in S) => n \in S
  PROVE  \A n \in Node : n \in S
<1> DEFINE T == {k \in Nat : \A n \in Node : n + k > Nodes => n \in S}
<1>1. Nodes \in Nat /\ \A n \in Node : n \in Nat /\ n >= 1 /\ n <= Nodes
  BY AnalysisAssumption DEF Node
<1>2. 0 \in T
  BY <1>1
<1>3. ASSUME NEW k \in T PROVE k + 1 \in T
  <2> SUFFICES ASSUME NEW n \in Node, n + (k + 1) > Nodes PROVE n \in S
    OBVIOUS
  <2>1. ASSUME NEW m \in Node, m > n PROVE m \in S
    <3>1. m + k > Nodes
      BY <1>1, <2>1
    <3> QED
      BY <3>1
  <2> QED
    BY <2>1
<1>4. T \in SUBSET Nat
  OBVIOUS
<1>5. Nodes \in T
  <2> HIDE DEF T
  <2> QED
    BY <1>1, <1>2, <1>3, <1>4, SetInduction
<1> QED
  BY <1>1, <1>5

(* A definition of each node from those with greater numbers defines.      *)
LEMMA Recursion ==
  ASSUME NEW R, NEW r \in R, NEW F \in [[Node -> R] -> [Node -> R]],
         \A f, g \in [Node -> R] : \A n \in Node :
           (\A m \in Node : m > n => f[m] = g[m]) => F[f][n] = F[g][n]
  PROVE  \E f \in [Node -> R] : f = F[f]
<1> DEFINE T == {k \in Nat : \E f \in [Node -> R] :
                               \A n \in Node : n + k > Nodes => f[n] = F[f][n]}
<1>1. Nodes \in Nat /\ \A n \in Node : n \in Nat /\ n >= 1 /\ n <= Nodes
  BY AnalysisAssumption DEF Node
<1>2. 0 \in T
  <2>1. [n \in Node |-> r] \in [Node -> R]
    OBVIOUS
  <2>2. \A n \in Node : ~(n + 0 > Nodes)
    BY <1>1
  <2> QED
    BY <2>1, <2>2
<1>3. ASSUME NEW k \in T PROVE k + 1 \in T
  <2>1. PICK f \in [Node -> R] : \A n \in Node : n + k > Nodes => f[n] = F[f][n]
    OBVIOUS
  <2>2. F[f] \in [Node -> R]
    OBVIOUS
  <2>3. ASSUME NEW n \in Node, n + (k + 1) > Nodes PROVE F[f][n] = F[F[f]][n]
    <3>1. ASSUME NEW m \in Node, m > n PROVE f[m] = F[f][m]
      <4>1. m + k > Nodes
        BY <1>1, <2>3, <3>1
      <4> QED
        BY <2>1, <4>1
    <3> QED
      BY <2>2, <3>1
  <2> QED
    BY <2>2, <2>3
<1>4. T \in SUBSET Nat
  OBVIOUS
<1>5. Nodes \in T
  <2> HIDE DEF T
  <2> QED
    BY <1>1, <1>2, <1>3, <1>4, SetInduction
<1>6. PICK f \in [Node -> R] : \A n \in Node : n + Nodes > Nodes => f[n] = F[f][n]
  BY <1>5
<1>7. \A n \in Node : f[n] = F[f][n]
  BY <1>1, <1>6
<1>8. F[f] \in [Node -> R]
  OBVIOUS
<1>9. f = F[f]
  BY <1>7, <1>8
<1> QED
  BY <1>9

-----------------------------------------------------------------------------
(* The fields of a schema of the forest, and where its parts are.          *)
LEMMA SchemaFacts ==
  ASSUME pair \in Pairs, NEW n \in Node
  PROVE  /\ schema(n) \in Schema
         /\ \A m \in Parts(schema(n)) : m \in Node /\ m > n
<1>1. /\ pair.schema \in [Node -> Schema]
      /\ \A m \in Parts(pair.schema[n]) : m > n
  BY AnalysisAssumption
<1>2. schema(n) \in Schema
  BY <1>1 DEF schema
<1>3. \A m \in Parts(schema(n)) : m \in Node
  <2>1. /\ schema(n).allOf \in Seq(Node) /\ schema(n).anyOf \in Seq(Node)
        /\ schema(n).oneOf \in Seq(Node)
        /\ {schema(n).not, schema(n).property, schema(n).items} \subseteq Node \cup {Absent}
    BY <1>2 DEF Schema
  <2>2. ASSUME NEW s \in Seq(Node) PROVE Elements(s) \subseteq Node
    BY ElementOfSeq, LenProperties DEF Elements
  <2> QED
    BY <2>1, <2>2 DEF Parts
<1> QED
  BY <1>1, <1>2, <1>3 DEF schema

(* What a node accepts depends on what its parts do.                       *)
LEMMA AcceptsByParts ==
  ASSUME pair \in Pairs, NEW n \in Node, NEW v \in Value,
         NEW f, NEW g, \A m \in Node : m > n => f[m] = g[m]
  PROVE  Accepts(n, v, f) = Accepts(n, v, g)
<1> DEFINE s == schema(n)
           inner(h, m) == m = Absent \/ inside[v] = NoValue \/ h[m][inside[v]]
           valid(h, ms) == {i \in DOMAIN ms : h[ms[i]][v]}
<1>1. \A m \in Parts(s) : f[m] = g[m]
  BY SchemaFacts
<1>2. valid(f, s.allOf) = valid(g, s.allOf)
  BY <1>1 DEF Parts, Elements
<1>3. valid(f, s.anyOf) = valid(g, s.anyOf)
  BY <1>1 DEF Parts, Elements
<1>4. valid(f, s.oneOf) = valid(g, s.oneOf)
  BY <1>1 DEF Parts, Elements
<1>5. s.not # Absent => f[s.not] = g[s.not]
  BY <1>1 DEF Parts
<1>6. inner(f, s.property) = inner(g, s.property)
  BY <1>1 DEF Parts
<1>7. inner(f, s.items) = inner(g, s.items)
  BY <1>1 DEF Parts
<1> QED
  BY <1>2, <1>3, <1>4, <1>5, <1>6, <1>7 DEF Accepts

(* The meaning of a schema exists: a node accepts a value as Accepts says. *)
LEMMA AcceptedEquation ==
  ASSUME pair \in Pairs
  PROVE  \A n \in Node : \A v \in Value : Accepted[n][v] = Accepts(n, v, Accepted)
<1> DEFINE R == [Value -> BOOLEAN]
           Row(n, f) == [v \in Value |-> Accepts(n, v, f)]
           F == [f \in [Node -> R] |-> [n \in Node |-> Row(n, f)]]
<1>1. \A f, n : Row(n, f) \in R
  BY DEF Accepts
<1>2. F \in [[Node -> R] -> [Node -> R]]
  BY <1>1
<1>3. ASSUME NEW f \in [Node -> R], NEW g \in [Node -> R], NEW n \in Node,
             \A m \in Node : m > n => f[m] = g[m]
      PROVE  F[f][n] = F[g][n]
  <2>1. \A v \in Value : Accepts(n, v, f) = Accepts(n, v, g)
    BY <1>3, AcceptsByParts
  <2> QED
    BY <2>1
<1>4. [v \in Value |-> FALSE] \in R
  OBVIOUS
<1>5. PICK f \in [Node -> R] : f = F[f]
  <2> HIDE DEF F, R
  <2> QED
    BY <1>2, <1>3, <1>4, Recursion
<1>6. f = [n \in Node |-> Row(n, f)]
  BY <1>5
<1>7. Accepted = CHOOSE a : a = [n \in Node |-> Row(n, a)]
  BY DEF Accepted
<1>8. Accepted = [n \in Node |-> Row(n, Accepted)]
  <2> HIDE DEF Row
  <2> QED
    BY <1>6, <1>7
<1> QED
  BY <1>8

-----------------------------------------------------------------------------
(* The first error is one of them, or there is none.                       *)
LEMMA FirstFacts ==
  ASSUME NEW errors, NEW N \in Nat, DOMAIN errors = 1 .. N
  PROVE  \/ FirstOf(errors) = NoError /\ \A i \in DOMAIN errors : errors[i] = NoError
         \/ /\ FirstOf(errors) # NoError
            /\ \E i \in DOMAIN errors : /\ FirstOf(errors) = errors[i]
                                        /\ \A j \in 1 .. i - 1 : errors[j] = NoError
<1> DEFINE failed == {i \in DOMAIN errors : errors[i] # NoError}
<1>1. CASE failed = {}
  BY <1>1 DEF FirstOf
<1>2. CASE failed # {}
  <2>1. failed \subseteq Nat
    OBVIOUS
  <2>2. PICK x \in failed : \A y \in failed : ~(<<y, x>> \in OpToRel(<, Nat))
    <3> HIDE DEF failed
    <3> QED
      BY <1>2, <2>1, NatLessThanWellFounded, WFMin
  <2>3. \A y \in failed : x <= y
    <3> SUFFICES ASSUME NEW y \in failed PROVE x <= y
      OBVIOUS
    <3>1. ~(y < x)
      BY <2>1, <2>2 DEF OpToRel
    <3> QED
      BY <2>1, <3>1
  <2> DEFINE k == CHOOSE i \in failed : \A j \in failed : i <= j
  <2>4. k \in failed /\ \A j \in failed : k <= j
    <3> HIDE DEF failed
    <3> QED
      BY <2>3
  <2>5. FirstOf(errors) = errors[k]
    BY <1>2 DEF FirstOf
  <2>6. k \in DOMAIN errors /\ errors[k] # NoError /\ k \in 1 .. N
    BY <2>4
  <2>7. \A j \in 1 .. k - 1 : errors[j] = NoError
    <3> HIDE DEF k
    <3> SUFFICES ASSUME NEW j \in 1 .. k - 1, errors[j] # NoError PROVE FALSE
      OBVIOUS
    <3>1. j \in 1 .. N /\ ~(k <= j)
      BY <2>6
    <3>2. j \in failed
      BY <3>1
    <3> QED
      BY <2>4, <3>1, <3>2
  <2> HIDE DEF k, failed
  <2> QED
    BY <2>5, <2>6, <2>7
<1> QED
  BY <1>1, <1>2

(* The variants and the members are parts.                                 *)
LEMMA PartFacts ==
  ASSUME pair \in Pairs, NEW n \in Node
  PROVE  /\ schema(n).allOf \in Seq(Node) /\ Variants(n) \in Seq(Node)
         /\ Elements(schema(n).allOf) \subseteq Parts(schema(n))
         /\ Elements(Variants(n)) = Elements(schema(n).anyOf) \cup Elements(schema(n).oneOf)
         /\ Variants(n) = <<>> <=> schema(n).anyOf = <<>> /\ schema(n).oneOf = <<>>
         /\ Elements(Variants(n)) \subseteq Parts(schema(n))
         /\ \A i \in 1 .. 2 : Members(n)[i] = Absent \/ Members(n)[i] \in Parts(schema(n))
<1> DEFINE a == schema(n).anyOf
           o == schema(n).oneOf
<1>1. a \in Seq(Node) /\ o \in Seq(Node) /\ schema(n).allOf \in Seq(Node)
  BY SchemaFacts DEF Schema
<1>2. Members(n)[1] = schema(n).property /\ Members(n)[2] = schema(n).items
  BY DEF Members
<1>3. /\ Variants(n) \in Seq(Node)
      /\ Elements(Variants(n)) = Elements(a) \cup Elements(o)
      /\ Variants(n) = <<>> <=> a = <<>> /\ o = <<>>
  <2> HIDE DEF a, o
  <2>1. /\ a \o o \in Seq(Node) /\ Len(a \o o) = Len(a) + Len(o)
        /\ \A i \in 1 .. Len(a) + Len(o) : (a \o o)[i] = IF i <= Len(a) THEN a[i] ELSE o[i - Len(a)]
    BY <1>1, ConcatProperties
  <2>2. Len(a) \in Nat /\ Len(o) \in Nat /\ DOMAIN a = 1 .. Len(a) /\ DOMAIN o = 1 .. Len(o)
        /\ DOMAIN (a \o o) = 1 .. Len(a) + Len(o)
    BY <1>1, <2>1, LenProperties
  <2>3. Elements(a \o o) \subseteq Elements(a) \cup Elements(o)
    BY <2>1, <2>2 DEF Elements
  <2>4. Elements(a) \subseteq Elements(a \o o)
    BY <2>1, <2>2 DEF Elements
  <2>5. Elements(o) \subseteq Elements(a \o o)
    <3> SUFFICES ASSUME NEW i \in 1 .. Len(o) PROVE o[i] \in Elements(a \o o)
      BY <2>2 DEF Elements
    <3>1. Len(a) + i \in 1 .. Len(a) + Len(o) /\ ~(Len(a) + i <= Len(a)) /\ (Len(a) + i) - Len(a) = i
      BY <2>2
    <3>2. (a \o o)[Len(a) + i] = o[i]
      BY <2>1, <3>1
    <3> QED
      BY <2>2, <3>1, <3>2 DEF Elements
  <2>6. a \o o = <<>> <=> a = <<>> /\ o = <<>>
    BY <1>1, <2>1, <2>2, EmptySeq
  <2>7. Variants(n) = a \o o
    BY DEF Variants, a, o
  <2> QED
    BY <2>1, <2>3, <2>4, <2>5, <2>6, <2>7
<1> QED
  BY <1>1, <1>2, <1>3 DEF Parts

(* What is inferred of a node depends on what is inferred of its parts.    *)
LEMMA InferenceByParts ==
  ASSUME pair \in Pairs, NEW n \in Node, NEW f, NEW g, \A m \in Node : m > n => f[m] = g[m]
  PROVE  analyse_at(n, f) = analyse_at(n, g)
<1> DEFINE parts == schema(n).allOf
           variants == Variants(n)
<1>1. \A m \in Parts(schema(n)) : f[m] = g[m]
  BY SchemaFacts
<1>2. \A i \in DOMAIN parts : f[parts[i]] = g[parts[i]]
  BY <1>1, PartFacts DEF Elements
<1>3. DOMAIN parts = 1 .. Len(parts) /\ Len(parts) \in Nat
  BY PartFacts, LenProperties
<1>4. \A ts : \A i \in 0 .. Len(parts) : Left(ts, parts, i, f) = Left(ts, parts, i, g)
  <2> SUFFICES ASSUME NEW ts, NEW i \in 0 .. Len(parts)
               PROVE  Left(ts, parts, i, f) = Left(ts, parts, i, g)
    OBVIOUS
  <2>1. \A j \in 1 .. i : f[parts[j]] = g[parts[j]]
    BY <1>2, <1>3
  <2> QED
    BY <2>1 DEF Left
<1>5. \A ts : intersect_all_of(n, ts, f) = intersect_all_of(n, ts, g)
  <2> SUFFICES ASSUME NEW ts PROVE intersect_all_of(n, ts, f) = intersect_all_of(n, ts, g)
    OBVIOUS
  <2>1. Left(ts, parts, Len(parts), f) = Left(ts, parts, Len(parts), g)
    BY <1>3, <1>4
  <2>2. \A i \in DOMAIN parts : Left(ts, parts, i, f) = Left(ts, parts, i, g)
    BY <1>3, <1>4
  <2> DEFINE error(h, i) == IF h[parts[i]].error = NoError /\ Left(ts, parts, i, h) = {}
                            THEN [at |-> n, part |-> i] ELSE h[parts[i]].error
  <2>3. [i \in DOMAIN parts |-> error(f, i)] = [i \in DOMAIN parts |-> error(g, i)]
    BY <1>2, <2>2
  <2> QED
    BY <2>1, <2>3 DEF intersect_all_of
<1>6. \A m \in Elements(variants) : f[m] = g[m]
  BY <1>1, PartFacts
<1>7. \A ts : narrow_with_union(n, ts, f) = narrow_with_union(n, ts, g)
  <2>1. UNION {f[m].types : m \in Elements(variants)} = UNION {g[m].types : m \in Elements(variants)}
    BY <1>6
  <2>2. \A i \in DOMAIN variants : f[variants[i]] = g[variants[i]]
    BY <1>6 DEF Elements
  <2>3. [i \in DOMAIN variants |-> f[variants[i]].error] = [i \in DOMAIN variants |-> g[variants[i]].error]
    BY <2>2
  <2> QED
    BY <2>1, <2>3 DEF narrow_with_union
<1>8. \A ts : analyse_members(n, ts, f) = analyse_members(n, ts, g)
  <2> DEFINE error(h, m) == IF m = Absent THEN NoError ELSE h[m].error
  <2>1. \A i \in 1 .. 2 : error(f, Members(n)[i]) = error(g, Members(n)[i])
    BY <1>1, PartFacts
  <2>2. [i \in 1 .. 2 |-> error(f, Members(n)[i])] = [i \in 1 .. 2 |-> error(g, Members(n)[i])]
    BY <2>1
  <2> QED
    BY <2>2 DEF analyse_members
<1> QED
  BY <1>5, <1>7, <1>8 DEF analyse_at

(* What can be inferred of a node.                                         *)
Errors == [at : Node, part : Nat] \cup {NoError}

Inferences == [error : Errors, types : SUBSET Types]

LEMMA InferenceType ==
  ASSUME pair \in Pairs, NEW n \in Node, NEW f \in [Node -> Inferences]
  PROVE  analyse_at(n, f) \in Inferences
<1> DEFINE parts == schema(n).allOf
           variants == Variants(n)
<1>0. NoError \in Errors
  BY DEF Errors
<1>1. \A m \in Parts(schema(n)) : f[m] \in Inferences
  BY SchemaFacts
<1>2. /\ DOMAIN parts = 1 .. Len(parts) /\ Len(parts) \in Nat
      /\ DOMAIN variants = 1 .. Len(variants) /\ Len(variants) \in Nat
  BY PartFacts, LenProperties
<1>3. \A error \in Errors : \A ts \in SUBSET Types : Answer(error, ts) \in Inferences
  BY DEF Answer, Inferences
<1>4. ASSUME NEW errors, NEW N \in Nat, DOMAIN errors = 1 .. N,
             \A i \in DOMAIN errors : errors[i] \in Errors
      PROVE  FirstOf(errors) \in Errors
  BY <1>0, <1>4, FirstFacts
<1>5. \A ts \in SUBSET Types : intersect_all_of(n, ts, f) \in Inferences
  <2> SUFFICES ASSUME NEW ts \in SUBSET Types PROVE intersect_all_of(n, ts, f) \in Inferences
    OBVIOUS
  <2> DEFINE error(i) == IF f[parts[i]].error = NoError /\ Left(ts, parts, i, f) = {}
                         THEN [at |-> n, part |-> i] ELSE f[parts[i]].error
             errors == [i \in DOMAIN parts |-> error(i)]
  <2>1. \A i \in DOMAIN parts : f[parts[i]] \in Inferences
    BY <1>1, PartFacts DEF Elements
  <2>2. \A i \in DOMAIN parts : errors[i] \in Errors
    <3>1. ASSUME NEW i \in DOMAIN parts PROVE [at |-> n, part |-> i] \in Errors
      BY <1>2, <3>1 DEF Errors
    <3> QED
      BY <2>1, <3>1 DEF Inferences
  <2>3. DOMAIN errors = 1 .. Len(parts)
    BY <1>2
  <2>4. FirstOf(errors) \in Errors
    <3> HIDE DEF errors
    <3> QED
      BY <1>2, <1>4, <2>2, <2>3
  <2>5. Left(ts, parts, Len(parts), f) \in SUBSET Types
    BY DEF Left
  <2> HIDE DEF error
  <2> QED
    BY <1>3, <2>4, <2>5 DEF intersect_all_of, error
<1>6. \A ts \in SUBSET Types : narrow_with_union(n, ts, f) \in Inferences
  <2> SUFFICES ASSUME NEW ts \in SUBSET Types PROVE narrow_with_union(n, ts, f) \in Inferences
    OBVIOUS
  <2> DEFINE errors == [i \in DOMAIN variants |-> f[variants[i]].error]
             union == UNION {f[m].types : m \in Elements(variants)}
  <2>1. \A i \in DOMAIN variants : f[variants[i]] \in Inferences
    BY <1>1, PartFacts DEF Elements
  <2>2. \A i \in DOMAIN variants : errors[i] \in Errors
    BY <2>1 DEF Inferences
  <2>3. DOMAIN errors = 1 .. Len(variants)
    BY <1>2
  <2>4. FirstOf(errors) \in Errors
    <3> HIDE DEF errors
    <3> QED
      BY <1>2, <1>4, <2>2, <2>3
  <2>5. (IF variants = <<>> THEN ts ELSE ts \cap union) \in SUBSET Types
    OBVIOUS
  <2> QED
    BY <1>3, <2>4, <2>5 DEF narrow_with_union
<1>7. \A ts \in SUBSET Types : analyse_members(n, ts, f) \in Inferences
  <2> SUFFICES ASSUME NEW ts \in SUBSET Types PROVE analyse_members(n, ts, f) \in Inferences
    OBVIOUS
  <2> DEFINE error(m) == IF m = Absent THEN NoError ELSE f[m].error
             errors == [i \in 1 .. 2 |-> error(Members(n)[i])]
  <2>1. \A i \in 1 .. 2 : errors[i] \in Errors
    BY <1>0, <1>1, PartFacts DEF Inferences
  <2>2. DOMAIN errors = 1 .. 2
    OBVIOUS
  <2>3. FirstOf(errors) \in Errors
    <3> HIDE DEF errors
    <3> QED
      BY <1>4, <2>1, <2>2
  <2> QED
    BY <1>3, <2>3 DEF analyse_members
<1>8. narrow_with_const(n, narrow_with_enum(n, types(n))) \in SUBSET Types
  BY DEF narrow_with_const, narrow_with_enum, types, from_json
<1>9. \A a \in Inferences : a.types \in SUBSET Types
  BY DEF Inferences
<1> QED
  BY <1>0, <1>3, <1>5, <1>6, <1>7, <1>8, <1>9 DEF analyse_at, Unless

(* The inference exists: of every node is inferred what analyse_at says.   *)
LEMMA InferenceEquation ==
  ASSUME pair \in Pairs
  PROVE  /\ analyse \in [Node -> Inferences]
         /\ \A n \in Node : analyse[n] = analyse_at(n, analyse)
<1> DEFINE F == [f \in [Node -> Inferences] |-> [n \in Node |-> analyse_at(n, f)]]
           none == [error |-> NoError, types |-> {}]
<1>1. none \in Inferences
  BY DEF Inferences, Errors
<1>2. F \in [[Node -> Inferences] -> [Node -> Inferences]]
  BY InferenceType
<1>3. ASSUME NEW f \in [Node -> Inferences], NEW g \in [Node -> Inferences], NEW n \in Node,
             \A m \in Node : m > n => f[m] = g[m]
      PROVE  F[f][n] = F[g][n]
  BY <1>3, InferenceByParts
<1>4. PICK f \in [Node -> Inferences] : f = F[f]
  <2> HIDE DEF F, none
  <2> QED
    BY <1>1, <1>2, <1>3, Recursion
<1>5. f = [n \in Node |-> analyse_at(n, f)]
  BY <1>4
<1>6. analyse = CHOOSE a : a = [n \in Node |-> analyse_at(n, a)]
  BY DEF analyse
<1>7. analyse = [n \in Node |-> analyse_at(n, analyse)]
  BY <1>5, <1>6
<1>8. \A n \in Node : analyse[n] = f[n]
  <2> DEFINE S == {n \in Node : analyse[n] = f[n]}
  <2>1. ASSUME NEW n \in Node, \A m \in Node : m > n => m \in S PROVE n \in S
    <3>1. analyse_at(n, analyse) = analyse_at(n, f)
      BY <2>1, InferenceByParts
    <3>2. analyse[n] = analyse_at(n, analyse) /\ f[n] = analyse_at(n, f)
      BY <1>5, <1>7
    <3> QED
      BY <3>1, <3>2
  <2> HIDE DEF S
  <2>2. \A n \in Node : n \in S
    BY <2>1, NodeInduction
  <2> QED
    BY <2>2 DEF S
<1>9. analyse = f
  BY <1>5, <1>7, <1>8
<1> QED
  BY <1>5, <1>9

-----------------------------------------------------------------------------
(* The type that decides: the least one that an instance has.              *)
LeastType(v) ==
  CASE class[v] \in {"i64", "u64", "whole"} -> "integer"
    [] class[v] = "fraction" -> "number"
    [] OTHER -> class[v]

(* A value's least type is one of its types, and two values with the same  *)
(* least type have it in common.                                           *)
LEMMA LeastTypeFacts ==
  ASSUME NEW v \in Value
  PROVE  LeastType(v) \in Types /\ LeastType(v) \in TypesOf(v)
<1>1. class[v] \in Class
  BY AnalysisAssumption
<1> QED
  BY <1>1 DEF Class, LeastType, Types, TypesOf, instance_matches_type

(* A value that meets the declared type, `enum' and `const' has a type     *)
(* that they leave, if inference knows it.                                 *)
LEMMA Declared ==
  ASSUME pair \in Pairs, NEW n \in Node, NEW v \in Value, Meets(schema(n), v)
  PROVE  /\ LeastType(v) \in types(n)
         /\ Known(v) => LeastType(v) \in narrow_with_const(n, narrow_with_enum(n, types(n)))
         /\ ~is_never(n)
<1>1. class[v] \in Class
  BY AnalysisAssumption
<1>2. schema(n) \in Schema
  BY SchemaFacts
<1>3. LeastType(v) \in types(n)
  <2>1. CASE schema(n).type = Absent
    BY <1>1, <2>1, LeastTypeFacts DEF types
  <2>2. CASE schema(n).type # Absent
    <3>1. PICK t \in schema(n).type : instance_matches_type(v, t)
      BY <1>1, <2>2 DEF Meets
    <3>2. t \in Types \cup {"unknown"}
      BY <1>2, <2>2, <3>1 DEF Schema
    <3> QED
      BY <1>1, <2>2, <3>1, <3>2 DEF types, from_json, instance_matches_type, LeastType, Class, Types
  <2> QED
    BY <2>1, <2>2
<1>4. ASSUME Known(v) PROVE LeastType(v) \in narrow_with_enum(n, types(n))
  <2>1. CASE schema(n).enum = Absent
    BY <1>3, <2>1 DEF narrow_with_enum
  <2>2. CASE schema(n).enum # Absent
    <3>1. v \in schema(n).enum
      BY <1>1, <2>2 DEF Meets
    <3>2. class[v] \notin {"u64", "whole"}
      BY <1>1, <1>4, <2>2, <3>1 DEF Known
    <3>3. LeastType(v) \in Flags(v)
      BY <1>1, <3>2 DEF LeastType, Flags, Class
    <3> QED
      BY <1>3, <2>2, <3>1, <3>3 DEF narrow_with_enum
  <2> QED
    BY <2>1, <2>2
<1>5. ASSUME Known(v)
      PROVE  LeastType(v) \in narrow_with_const(n, narrow_with_enum(n, types(n)))
  <2>1. CASE schema(n).const = Absent
    BY <1>4, <1>5, <2>1 DEF narrow_with_const
  <2>2. CASE schema(n).const # Absent
    <3>1. v = schema(n).const
      BY <1>1, <2>2 DEF Meets
    <3>2. class[v] \notin {"u64", "whole"}
      BY <1>1, <1>5, <2>2, <3>1 DEF Known
    <3>3. LeastType(v) \in Flags(v)
      BY <1>1, <3>2 DEF LeastType, Flags, Class
    <3> QED
      BY <1>4, <1>5, <2>2, <3>1, <3>3 DEF narrow_with_const
  <2> QED
    BY <2>1, <2>2
<1>6. ~is_never(n)
  <2>1. schema(n).enum # {}
    BY <1>1, AnalysisAssumption DEF Meets
  <2>2. types(n) # {}
    BY <1>3
  <2> QED
    BY <2>1, <2>2 DEF is_never
<1> QED
  BY <1>3, <1>5, <1>6

(* A contradiction reported for node n: there is one, up to the part of an *)
(* allOf of n or below it.                                                 *)
Contradicted(n, blamed) ==
  /\ blamed.at >= n /\ blamed.part \in DOMAIN schema(blamed.at).allOf
  /\ \A v \in ValuesUpTo(blamed.at, blamed.part) : ~Known(v)

(* An accepted value meets the keywords of a node, and each part.          *)
LEMMA MeetsAll ==
  ASSUME pair \in Pairs, NEW n \in Node, NEW v \in Values(n)
  PROVE  /\ v \in Value /\ Meets(schema(n), v)
         /\ \A i \in DOMAIN schema(n).allOf : v \in Values(schema(n).allOf[i])
         /\ \A i \in 0 .. Len(schema(n).allOf) : v \in ValuesUpTo(n, i)
<1> DEFINE parts == schema(n).allOf
<1>1. v \in Value /\ Accepts(n, v, Accepted)
  BY AcceptedEquation DEF Values
<1>2. {k \in DOMAIN parts : Accepted[parts[k]][v]} = DOMAIN parts
  BY <1>1 DEF Accepts
<1>3. \A i \in DOMAIN parts : v \in Values(parts[i])
  BY <1>1, <1>2 DEF Values
<1>4. Meets(schema(n), v)
  BY <1>1 DEF Accepts
<1>5. DOMAIN parts = 1 .. Len(parts) /\ Len(parts) \in Nat
  BY PartFacts, LenProperties
<1> QED
  BY <1>1, <1>3, <1>4, <1>5 DEF ValuesUpTo

(* What is to be shown of an answer about node n, on the way to the last.  *)
Sound(n, answer) ==
  /\ answer.error = NoError => \A v \in Values(n) : Known(v) => LeastType(v) \in answer.types
  /\ answer.error # NoError => Contradicted(n, answer.error)

(* What is found below a node is found below those it is a part of.        *)
LEMMA BlamedBelow ==
  ASSUME NEW n \in Node, NEW m \in Node, m > n, NEW blamed, blamed.at \in Node,
         Contradicted(m, blamed)
  PROVE  Contradicted(n, blamed)
<1>1. n \in Nat /\ m \in Nat /\ blamed.at \in Nat
  BY AnalysisAssumption DEF Node
<1> QED
  BY <1>1 DEF Contradicted

(* intersect_all_of.                                                       *)
LEMMA AllOfSound ==
  ASSUME pair \in Pairs, NEW n \in Node,
         \A m \in Node : m > n => Sound(m, analyse[m]),
         NEW ts, \A v \in Value : Meets(schema(n), v) /\ Known(v) => LeastType(v) \in ts
  PROVE  Sound(n, intersect_all_of(n, ts, analyse))
<1> DEFINE parts == schema(n).allOf
           error(i) == IF analyse[parts[i]].error = NoError /\ Left(ts, parts, i, analyse) = {}
                       THEN [at |-> n, part |-> i] ELSE analyse[parts[i]].error
           errors == [i \in DOMAIN parts |-> error(i)]
           left == Left(ts, parts, Len(parts), analyse)
           answer == intersect_all_of(n, ts, analyse)
<1>1. DOMAIN parts = 1 .. Len(parts) /\ Len(parts) \in Nat /\ n \in Nat /\ n >= n
  BY PartFacts, LenProperties, AnalysisAssumption DEF Node
<1>2. \A i \in DOMAIN parts :
        /\ parts[i] \in Node /\ parts[i] > n
        /\ analyse[parts[i]] \in Inferences /\ Sound(parts[i], analyse[parts[i]])
  BY PartFacts, SchemaFacts, InferenceEquation DEF Elements
<1>3. answer.error = FirstOf(errors) /\ (answer.error = NoError => answer.types = left)
  BY DEF intersect_all_of, Answer
<1>5. ASSUME NEW i \in 0 .. Len(parts), \A j \in 1 .. i : analyse[parts[j]].error = NoError,
             NEW v \in ValuesUpTo(n, i), Known(v)
      PROVE  LeastType(v) \in Left(ts, parts, i, analyse)
  <2>1. \A j \in 1 .. i : LeastType(v) \in analyse[parts[j]].types
    BY <1>1, <1>2, <1>5 DEF Sound, ValuesUpTo
  <2>2. LeastType(v) \in ts
    BY <1>5 DEF ValuesUpTo
  <2> QED
    BY <2>1, <2>2 DEF Left
<1>6. DOMAIN errors = 1 .. Len(parts) /\ \A i \in DOMAIN parts : errors[i] = error(i)
  BY <1>1
<1> HIDE DEF errors, answer
<1> SUFFICES Sound(n, answer)
  BY DEF answer
<1>7. ASSUME FirstOf(errors) = NoError, \A i \in DOMAIN errors : errors[i] = NoError
      PROVE  Sound(n, answer)
  <2>1. \A i \in DOMAIN parts : analyse[parts[i]].error = NoError
    BY <1>1, <1>6, <1>7
  <2>2. \A v \in Values(n) : Known(v) => LeastType(v) \in left
    <3> SUFFICES ASSUME NEW v \in Values(n), Known(v) PROVE LeastType(v) \in left
      OBVIOUS
    <3>1. v \in ValuesUpTo(n, Len(parts)) /\ Len(parts) \in 0 .. Len(parts)
      BY <1>1, MeetsAll
    <3>2. \A j \in 1 .. Len(parts) : analyse[parts[j]].error = NoError
      BY <1>1, <2>1
    <3> QED
      BY <1>5, <3>1, <3>2
  <2> QED
    BY <1>3, <1>7, <2>2 DEF Sound
<1>8. ASSUME FirstOf(errors) # NoError, NEW i \in DOMAIN errors, FirstOf(errors) = errors[i],
             \A j \in 1 .. i - 1 : errors[j] = NoError
      PROVE  Contradicted(n, answer.error)
  <2>1. i \in DOMAIN parts /\ i \in 1 .. Len(parts) /\ i \in 0 .. Len(parts) /\ answer.error = error(i)
    BY <1>1, <1>3, <1>6, <1>8
  <2>2. CASE analyse[parts[i]].error = NoError
    <3>1. answer.error = [at |-> n, part |-> i] /\ Left(ts, parts, i, analyse) = {}
      BY <1>3, <1>8, <2>1, <2>2
    <3>2. \A j \in 1 .. i : analyse[parts[j]].error = NoError
      <4> SUFFICES ASSUME NEW j \in 1 .. i, j # i PROVE analyse[parts[j]].error = NoError
        BY <2>2
      <4>1. j \in 1 .. i - 1 /\ j \in DOMAIN parts
        BY <1>1, <2>1
      <4> QED
        BY <1>1, <1>6, <1>8, <4>1
    <3>3. \A v \in ValuesUpTo(n, i) : ~Known(v)
      BY <1>5, <2>1, <3>1, <3>2
    <3> QED
      BY <1>1, <2>1, <3>1, <3>3 DEF Contradicted
  <2>3. CASE analyse[parts[i]].error # NoError
    <3>1. answer.error = analyse[parts[i]].error /\ answer.error.at \in Node
      BY <1>2, <2>1, <2>3 DEF Inferences, Errors
    <3>2. Contradicted(parts[i], answer.error)
      BY <1>2, <2>1, <2>3, <3>1 DEF Sound
    <3> QED
      BY <1>2, <2>1, <3>1, <3>2, BlamedBelow
  <2> QED
    BY <2>2, <2>3
<1>9. \/ FirstOf(errors) = NoError /\ \A i \in DOMAIN errors : errors[i] = NoError
      \/ /\ FirstOf(errors) # NoError
         /\ \E i \in DOMAIN errors : /\ FirstOf(errors) = errors[i]
                                     /\ \A j \in 1 .. i - 1 : errors[j] = NoError
  BY <1>1, <1>6, FirstFacts
<1>10. CASE FirstOf(errors) # NoError
  <2>1. Contradicted(n, answer.error)
    BY <1>8, <1>9, <1>10
  <2> QED
    BY <1>3, <1>10, <2>1 DEF Sound
<1> QED
  BY <1>7, <1>9, <1>10

(* narrow_with_union.                                                      *)
LEMMA UnionSound ==
  ASSUME pair \in Pairs, NEW n \in Node,
         \A m \in Node : m > n => Sound(m, analyse[m]),
         NEW ts, \A v \in Values(n) : Known(v) => LeastType(v) \in ts
  PROVE  Sound(n, narrow_with_union(n, ts, analyse))
<1> DEFINE parts == Variants(n)
           errors == [i \in DOMAIN parts |-> analyse[parts[i]].error]
           union == UNION {analyse[m].types : m \in Elements(parts)}
           answer == narrow_with_union(n, ts, analyse)
<1>1. DOMAIN parts = 1 .. Len(parts) /\ Len(parts) \in Nat
  BY PartFacts, LenProperties
<1>2. \A m \in Elements(parts) :
        m \in Node /\ m > n /\ analyse[m] \in Inferences /\ Sound(m, analyse[m])
  BY PartFacts, SchemaFacts, InferenceEquation
<1>3. /\ answer.error = FirstOf(errors)
      /\ answer.error = NoError => answer.types = IF parts = <<>> THEN ts ELSE ts \cap union
  BY DEF narrow_with_union, Answer
<1>4. ASSUME NEW v \in Values(n), parts # <<>> PROVE \E m \in Elements(parts) : v \in Values(m)
  <2>1. v \in Value /\ Accepts(n, v, Accepted)
    BY AcceptedEquation DEF Values
  <2>2. CASE schema(n).anyOf # <<>>
    <3>1. \E i \in DOMAIN schema(n).anyOf : Accepted[schema(n).anyOf[i]][v]
      BY <2>1, <2>2 DEF Accepts
    <3>2. \E m \in Elements(schema(n).anyOf) : v \in Values(m)
      BY <2>1, <3>1 DEF Elements, Values
    <3> QED
      BY <3>2, PartFacts
  <2>3. CASE schema(n).oneOf # <<>>
    <3>1. \E i \in DOMAIN schema(n).oneOf : Accepted[schema(n).oneOf[i]][v]
      BY <2>1, <2>3 DEF Accepts
    <3>2. \E m \in Elements(schema(n).oneOf) : v \in Values(m)
      BY <2>1, <3>1 DEF Elements, Values
    <3> QED
      BY <3>2, PartFacts
  <2> QED
    BY <1>4, <2>2, <2>3, PartFacts
<1>5. DOMAIN errors = 1 .. Len(parts) /\ \A i \in DOMAIN parts : errors[i] = analyse[parts[i]].error
  BY <1>1
<1> HIDE DEF errors, answer
<1> SUFFICES Sound(n, answer)
  BY DEF answer
<1>6. ASSUME FirstOf(errors) = NoError, \A i \in DOMAIN errors : errors[i] = NoError
      PROVE  Sound(n, answer)
  <2>1. \A m \in Elements(parts) : analyse[m].error = NoError
    BY <1>1, <1>5, <1>6 DEF Elements
  <2>2. ASSUME NEW v \in Values(n), Known(v), parts # <<>> PROVE LeastType(v) \in union
    <3>1. PICK m \in Elements(parts) : v \in Values(m)
      BY <1>4, <2>2
    <3>2. LeastType(v) \in analyse[m].types
      BY <1>2, <2>1, <2>2, <3>1 DEF Sound
    <3> QED
      BY <3>2
  <2> QED
    BY <1>3, <1>6, <2>2 DEF Sound
<1>7. ASSUME FirstOf(errors) # NoError, NEW i \in DOMAIN errors, FirstOf(errors) = errors[i]
      PROVE  Contradicted(n, answer.error)
  <2>1. parts[i] \in Elements(parts) /\ answer.error = analyse[parts[i]].error /\ answer.error # NoError
    BY <1>1, <1>3, <1>5, <1>7 DEF Elements
  <2>2. answer.error.at \in Node /\ Contradicted(parts[i], answer.error)
    BY <1>2, <2>1 DEF Inferences, Errors, Sound
  <2> QED
    BY <1>2, <2>1, <2>2, BlamedBelow
<1>8. \/ FirstOf(errors) = NoError /\ \A i \in DOMAIN errors : errors[i] = NoError
      \/ /\ FirstOf(errors) # NoError
         /\ \E i \in DOMAIN errors : /\ FirstOf(errors) = errors[i]
                                     /\ \A j \in 1 .. i - 1 : errors[j] = NoError
  BY <1>1, <1>5, FirstFacts
<1>9. CASE FirstOf(errors) # NoError
  <2>1. Contradicted(n, answer.error)
    BY <1>7, <1>8, <1>9
  <2> QED
    BY <1>3, <1>9, <2>1 DEF Sound
<1> QED
  BY <1>6, <1>8, <1>9

(* analyse_properties and analyse_items.                                   *)
LEMMA MembersSound ==
  ASSUME pair \in Pairs, NEW n \in Node,
         \A m \in Node : m > n => Sound(m, analyse[m]),
         NEW ts, \A v \in Values(n) : Known(v) => LeastType(v) \in ts
  PROVE  Sound(n, analyse_members(n, ts, analyse))
<1> DEFINE error(m) == IF m = Absent THEN NoError ELSE analyse[m].error
           errors == [i \in 1 .. 2 |-> error(Members(n)[i])]
           answer == analyse_members(n, ts, analyse)
<1>1. answer.error = FirstOf(errors) /\ (answer.error = NoError => answer.types = ts)
  BY DEF analyse_members, Answer
<1>2. DOMAIN errors = 1 .. 2 /\ \A i \in 1 .. 2 : errors[i] = error(Members(n)[i])
  OBVIOUS
<1> HIDE DEF errors, answer
<1> SUFFICES Sound(n, answer)
  BY DEF answer
<1>3. ASSUME FirstOf(errors) # NoError, NEW i \in DOMAIN errors, FirstOf(errors) = errors[i]
      PROVE  Contradicted(n, answer.error)
  <2> DEFINE m == Members(n)[i]
  <2>1. m # Absent /\ answer.error = analyse[m].error /\ answer.error # NoError
    BY <1>1, <1>2, <1>3
  <2>2. m \in Node /\ m > n
    BY <1>2, <2>1, PartFacts, SchemaFacts
  <2>3. analyse[m] \in Inferences /\ Sound(m, analyse[m])
    BY <2>2, InferenceEquation
  <2>4. answer.error.at \in Node /\ Contradicted(m, answer.error)
    BY <2>1, <2>3 DEF Inferences, Errors, Sound
  <2> QED
    BY <2>2, <2>4, BlamedBelow
<1>4. \/ FirstOf(errors) = NoError /\ \A i \in DOMAIN errors : errors[i] = NoError
      \/ /\ FirstOf(errors) # NoError
         /\ \E i \in DOMAIN errors : /\ FirstOf(errors) = errors[i]
                                     /\ \A j \in 1 .. i - 1 : errors[j] = NoError
  BY <1>2, FirstFacts
<1>5. CASE FirstOf(errors) = NoError
  BY <1>1, <1>5 DEF Sound
<1>6. CASE FirstOf(errors) # NoError
  <2>1. Contradicted(n, answer.error)
    BY <1>3, <1>4, <1>6
  <2> QED
    BY <1>1, <1>6, <2>1 DEF Sound
<1> QED
  BY <1>5, <1>6

(* Of an accepted value that it knows, an inference keeps the least type.  *)
LEMMA AnalyseSound ==
  ASSUME pair \in Pairs
  PROVE  \A n \in Node : Sound(n, analyse[n])
<1> DEFINE S == {n \in Node : Sound(n, analyse[n])}
<1>1. ASSUME NEW n \in Node, \A m \in Node : m > n => m \in S PROVE n \in S
  <2> DEFINE ts == narrow_with_const(n, narrow_with_enum(n, types(n)))
             all == intersect_all_of(n, ts, analyse)
             union == Unless(all, narrow_with_union(n, all.types, analyse))
             answer == Unless(union, analyse_members(n, union.types, analyse))
  <2>0. \A m \in Node : m > n => Sound(m, analyse[m])
    BY <1>1
  <2>1. analyse[n] = IF is_never(n) THEN Answer(NoError, {}) ELSE answer
    BY InferenceEquation DEF analyse_at
  <2>2. CASE is_never(n)
    <3>1. Values(n) = {}
      BY <2>2, Declared, MeetsAll
    <3> QED
      BY <2>1, <2>2, <3>1 DEF Sound, Answer
  <2>3. CASE ~is_never(n)
    <3>1. Sound(n, all)
      <4>1. \A v \in Value : Meets(schema(n), v) /\ Known(v) => LeastType(v) \in ts
        BY Declared
      <4> HIDE DEF ts
      <4> QED
        BY <2>0, <4>1, AllOfSound
    <3> HIDE DEF all
    <3>2. Sound(n, union)
      <4>1. CASE all.error # NoError
        BY <3>1, <4>1 DEF Unless
      <4>2. CASE all.error = NoError
        <5>1. Sound(n, narrow_with_union(n, all.types, analyse))
          BY <2>0, <3>1, <4>2, UnionSound DEF Sound
        <5> QED
          BY <4>2, <5>1 DEF Unless
      <4> QED
        BY <4>1, <4>2
    <3> HIDE DEF union
    <3>3. Sound(n, answer)
      <4>1. CASE union.error # NoError
        BY <3>2, <4>1 DEF Unless
      <4>2. CASE union.error = NoError
        <5>1. Sound(n, analyse_members(n, union.types, analyse))
          BY <2>0, <3>2, <4>2, MembersSound DEF Sound
        <5> QED
          BY <4>2, <5>1 DEF Unless
      <4> QED
        BY <4>1, <4>2
    <3> HIDE DEF answer
    <3> QED
      BY <2>1, <2>3, <3>3
  <2> QED
    BY <2>2, <2>3
<1> HIDE DEF S
<1>2. \A n \in Node : n \in S
  BY <1>1, NodeInduction
<1> QED
  BY <1>2 DEF S

-----------------------------------------------------------------------------
(* The answers are of the functions that were called.                      *)
Answered ==
  /\ pair \in Pairs
  /\ inferred = <<>> \/ inferred = analyse
  /\ changes = Pending \/ changes = find_breaking_changes(pair.old, pair.new)

(* The equation of the inference, as a formula that holds in every state.  *)
LEMMA InferenceRows ==
  pair \in Pairs =>
    analyse = [n \in Node |-> analyse[n]] /\ \A n \in Node : analyse[n] = analyse_at(n, analyse)
BY InferenceEquation

(* The schemas stay, and so does what is inferred of them.                 *)
LEMMA AnalysisSteady ==
  ASSUME pair \in Pairs, pair' = pair
  PROVE  /\ analyse' = analyse
         /\ find_breaking_changes(pair.old, pair.new)' = find_breaking_changes(pair.old, pair.new)
<1>1. \A n : schema(n)' = schema(n)
  BY DEF schema
<1>2. \A n : /\ types(n)' = types(n) /\ is_never(n)' = is_never(n)
             /\ Variants(n)' = Variants(n) /\ Members(n)' = Members(n)
  BY <1>1 DEF types, is_never, Variants, Members
<1>3. \A n, ts : /\ narrow_with_enum(n, ts)' = narrow_with_enum(n, ts)
                 /\ narrow_with_const(n, ts)' = narrow_with_const(n, ts)
  BY <1>1 DEF narrow_with_enum, narrow_with_const
<1>4. \A n, ts, f : intersect_all_of(n, ts, f)' = intersect_all_of(n, ts, f)
  BY <1>1 DEF intersect_all_of
<1>5. \A n, ts, f : narrow_with_union(n, ts, f)' = narrow_with_union(n, ts, f)
  BY <1>2 DEF narrow_with_union
<1>6. \A n, ts, f : analyse_members(n, ts, f)' = analyse_members(n, ts, f)
  BY <1>2 DEF analyse_members
<1>7. \A n, f : analyse_at(n, f)' = analyse_at(n, f)
  BY <1>2, <1>3, <1>4, <1>5, <1>6 DEF analyse_at
<1>8. /\ analyse' = [n \in Node |-> analyse'[n]]
      /\ \A n \in Node : analyse'[n] = analyse_at(n, analyse')
  <2>1. (pair \in Pairs =>
           /\ analyse = [n \in Node |-> analyse[n]]
           /\ \A n \in Node : analyse[n] = analyse_at(n, analyse))'
    BY InferenceRows, PTL
  <2>2. \A n \in Node : analyse'[n] = analyse_at(n, analyse)'
    BY <2>1
  <2>3. \A n : analyse_at(n, analyse)' = analyse_at(n, analyse')
    BY <1>7
  <2> QED
    BY <2>1, <2>2, <2>3
<1>9. \A n \in Node : analyse'[n] = analyse[n]
  <2> DEFINE S == {n \in Node : analyse'[n] = analyse[n]}
  <2>1. ASSUME NEW n \in Node, \A m \in Node : m > n => m \in S PROVE n \in S
    <3>1. analyse_at(n, analyse') = analyse_at(n, analyse)
      BY <2>1, InferenceByParts
    <3> QED
      BY <1>8, <3>1, InferenceRows
  <2> HIDE DEF S
  <2>2. \A n \in Node : n \in S
    BY <2>1, NodeInduction
  <2> QED
    BY <2>2 DEF S
<1>10. analyse' = analyse
  BY <1>8, <1>9, InferenceRows
<1>11. \A a, b : find_breaking_changes(a, b)' = find_breaking_changes(a, b)
  BY <1>1, <1>2 DEF find_breaking_changes, check_type_removals, check_required_additions,
                    check_enum_restrictions
<1>12. find_breaking_changes(pair.old, pair.new)' = find_breaking_changes(pair.old, pair.new)
  BY <1>11
<1> QED
  BY <1>10, <1>12

(* Every answer is the one of the function that was called.                *)
LEMMA AnsweredHolds == Spec => []Answered
<1>1. Init => Answered
  BY DEF Init, Answered
<1>2. Answered /\ [Next]_vars => Answered'
  <2> SUFFICES ASSUME Answered, [Next]_vars PROVE Answered'
    OBVIOUS
  <2>1. pair' = pair
    BY DEF Next, Analyse, Compare, Done, vars
  <2>2. analyse' = analyse
    BY <2>1, AnalysisSteady DEF Answered
  <2>3. find_breaking_changes(pair.old, pair.new)' = find_breaking_changes(pair.old, pair.new)
    BY <2>1, AnalysisSteady DEF Answered
  <2>4. inferred' \in {inferred, analyse}
    BY DEF Next, Analyse, Compare, Done, vars
  <2>5. changes' \in {changes, find_breaking_changes(pair.old, pair.new)}
    BY DEF Next, Analyse, Compare, Done, vars
  <2> QED
    BY <2>1, <2>2, <2>3, <2>4, <2>5 DEF Answered
<1> QED
  BY <1>1, <1>2, PTL DEF Spec

(* InferenceSound: for every forest, each accepted value has an inferred   *)
(* type, and every reported contradiction is one; but for listed numbers   *)
(* of the two classes that set no flag of integer.                         *)
THEOREM InferenceCorrect == Spec => []InferenceSound
<1>1. Answered => InferenceSound
  <2> SUFFICES ASSUME Answered, inferred # <<>>, NEW n \in Node
               PROVE  LET blamed == inferred[n].error
                      IN IF blamed = NoError
                         THEN \A v \in Values(n) : Known(v) => TypesOf(v) \cap inferred[n].types # {}
                         ELSE /\ blamed.at >= n /\ blamed.part \in DOMAIN schema(blamed.at).allOf
                              /\ \A v \in ValuesUpTo(blamed.at, blamed.part) : ~Known(v)
    BY DEF InferenceSound
  <2>1. pair \in Pairs /\ inferred = analyse
    BY DEF Answered
  <2>2. Sound(n, analyse[n])
    BY <2>1, AnalyseSound
  <2>3. \A v \in Values(n) : LeastType(v) \in TypesOf(v)
    BY LeastTypeFacts DEF Values
  <2> QED
    BY <2>1, <2>2, <2>3 DEF Sound, Contradicted
<1> QED
  BY <1>1, AnsweredHolds, PTL

(* UniformUnion: a union that classify calls uniform is.                   *)
THEOREM UniformCorrect == Spec => []UniformUnion
<1>1. Answered => UniformUnion
  <2> SUFFICES ASSUME Answered, NEW n \in Node, has_union(n), classify(n) = "Structural",
                      NEW v \in Values(n), NEW w \in Values(n)
               PROVE  TypesOf(v) \cap TypesOf(w) # {}
    BY DEF UniformUnion
  <2> DEFINE parts == pick_variants(n)
             ts == types(parts[1])
  <2>1. variants_share_single_type(n)
    BY DEF classify
  <2>2. pair \in Pairs /\ parts # <<>>
    BY DEF Answered, has_union
  <2>3. ASSUME NEW x \in Values(n)
        PROVE  \E i \in DOMAIN parts : parts[i] \in Node /\ x \in Values(parts[i])
    <3>1. x \in Value /\ Accepts(n, x, Accepted)
      BY <2>2, AcceptedEquation DEF Values
    <3>2. \E i \in DOMAIN parts : Accepted[parts[i]][x]
      BY <2>2, <3>1 DEF Accepts, pick_variants
    <3>3. \A i \in DOMAIN parts : parts[i] \in Node
      BY <2>2, PartFacts, SchemaFacts DEF pick_variants, Elements
    <3> QED
      BY <3>1, <3>2, <3>3 DEF Values
  <2>4. ASSUME NEW x \in Values(n)
        PROVE  /\ x \in Value /\ class[x] \in Class
               /\ \E m \in Node : /\ types(m) = ts /\ is_single_type(ts) /\ schema(m) \in Schema
                                  /\ \/ schema(m).type = Absent
                                     \/ \E t \in schema(m).type : instance_matches_type(x, t)
    <3>1. PICK i \in DOMAIN parts : parts[i] \in Node /\ x \in Values(parts[i])
      BY <2>3
    <3>2. x \in Value /\ Accepts(parts[i], x, Accepted)
      BY <2>2, <3>1, AcceptedEquation DEF Values
    <3>3. types(parts[i]) = ts /\ is_single_type(ts)
      BY <2>1, <3>1 DEF variants_share_single_type
    <3>4. schema(parts[i]) \in Schema
      BY <2>2, <3>1, SchemaFacts
    <3>5. class[x] \in Class
      BY <3>2, AnalysisAssumption
    <3> QED
      BY <3>1, <3>2, <3>3, <3>4, <3>5 DEF Accepts, Meets
  <2>5. ASSUME NEW x \in Values(n)
        PROVE  /\ is_single_type(ts) /\ x \in Value
               /\ \E t \in ts \cap TypesOf(x) : t = "integer" /\ "number" \in ts => "number" \in TypesOf(x)
    <3>1. PICK m \in Node : /\ types(m) = ts /\ is_single_type(ts) /\ schema(m) \in Schema
                            /\ \/ schema(m).type = Absent
                               \/ \E t \in schema(m).type : instance_matches_type(x, t)
      BY <2>4
    <3>2. x \in Value /\ class[x] \in Class
      BY <2>4
    <3>3. CASE schema(m).type = Absent
      <4>1. ts = Types
        BY <3>1, <3>3 DEF types
      <4>2. FALSE
        BY <3>1, <4>1 DEF is_single_type, Types
      <4> QED
        BY <4>2
    <3>4. CASE schema(m).type # Absent
      <4>1. PICK t \in schema(m).type : instance_matches_type(x, t)
        BY <3>1, <3>4
      <4>2. t \in Types \cup {"unknown"}
        BY <3>1, <3>4, <4>1 DEF Schema
      <4>3. t \in Types
        BY <3>2, <4>1, <4>2 DEF instance_matches_type, Class, Types
      <4>4. t \in ts /\ t \in TypesOf(x)
        BY <3>1, <3>4, <4>1, <4>3 DEF types, from_json, TypesOf
      <4>5. t = "integer" => "number" \in TypesOf(x)
        BY <4>1 DEF TypesOf, Types, instance_matches_type
      <4> QED
        BY <3>1, <3>2, <4>4, <4>5
    <3> QED
      BY <3>3, <3>4
  <2> HIDE DEF ts, parts
  <2>6. PICK t \in ts \cap TypesOf(v) : t = "integer" /\ "number" \in ts => "number" \in TypesOf(v)
    BY <2>5
  <2>7. PICK u \in ts \cap TypesOf(w) : u = "integer" /\ "number" \in ts => "number" \in TypesOf(w)
    BY <2>5
  <2>8. is_single_type(ts)
    BY <2>5
  <2>9. t = u \/ (t \in {"number", "integer"} /\ u \in {"number", "integer"})
    BY <2>6, <2>7, <2>8 DEF is_single_type
  <2> QED
    BY <2>6, <2>7, <2>9
<1> QED
  BY <1>1, AnsweredHolds, PTL

(* CompatibleKeepsValues: where nothing is reported, within the keywords   *)
(* that are compared, only an enum that was added or emptied loses values. *)
THEOREM CompatibleCorrect == Spec => []CompatibleKeepsValues
<1>1. Answered => CompatibleKeepsValues
  <2> DEFINE a == pair.old
             b == pair.new
  <2> SUFFICES ASSUME Answered, changes = {}, Compared(a), Compared(b),
                      NEW v \in Values(a),
                      \/ schema(b).enum = Absent \/ v \in schema(b).enum
                      \/ schema(a).enum # Absent /\ schema(b).enum # {}
               PROVE  v \in Values(b)
    BY DEF CompatibleKeepsValues
  <2>1. pair \in Pairs /\ a \in Node /\ b \in Node /\ find_breaking_changes(a, b) = {}
    BY AnalysisAssumption DEF Answered
  <2> HIDE DEF a, b
  <2>2. v \in Value /\ class[v] \in Class /\ Accepts(a, v, Accepted)
    BY <2>1, AcceptedEquation, AnalysisAssumption DEF Values
  <2>3. schema(a) \in Schema /\ schema(b) \in Schema
    BY <2>1, SchemaFacts
  <2>4. /\ check_type_removals(a, b) = {} /\ check_required_additions(a, b) = {}
        /\ check_enum_restrictions(a, b) = {}
    BY <2>1 DEF find_breaking_changes
  <2>5. schema(b).type = Absent \/ \E t \in schema(b).type : instance_matches_type(v, t)
    <3>1. LeastType(v) \in types(a)
      <4>1. CASE schema(a).type = Absent
        BY <2>2, <4>1, LeastTypeFacts DEF types
      <4>2. CASE schema(a).type # Absent
        <5>1. PICK t \in schema(a).type : instance_matches_type(v, t)
          BY <2>2, <4>2 DEF Accepts, Meets
        <5>2. t \in Types \cup {"unknown"}
          BY <2>3, <4>2, <5>1 DEF Schema
        <5> QED
          BY <2>2, <4>2, <5>1, <5>2 DEF types, from_json, instance_matches_type, LeastType, Class, Types
      <4> QED
        BY <4>1, <4>2
    <3>2. LeastType(v) \in types(b)
      <4>1. \A t \in types(a) \ types(b) : <<"type", t>> \in check_type_removals(a, b)
        BY DEF check_type_removals
      <4> QED
        BY <2>4, <3>1, <4>1
    <3>3. LeastType(v) \in TypesOf(v)
      BY <2>2, LeastTypeFacts
    <3>4. LeastType(v) = "integer" => instance_matches_type(v, "number")
      BY <2>2 DEF LeastType, Class, instance_matches_type
    <3> QED
      BY <3>2, <3>3, <3>4 DEF types, from_json, TypesOf
  <2>6. schema(b).enum = Absent \/ v \in schema(b).enum
    <3> SUFFICES ASSUME schema(b).enum # Absent, schema(a).enum # Absent, schema(b).enum # {}
                 PROVE  v \in schema(b).enum
      OBVIOUS
    <3>1. /\ Absent \notin {schema(a).enum, schema(b).enum}
          /\ {} \notin {schema(a).enum, schema(b).enum}
      BY <2>2 DEF Accepts, Meets
    <3>2. \A x \in schema(a).enum \ schema(b).enum : <<"enum", x>> \in check_enum_restrictions(a, b)
      BY <3>1 DEF check_enum_restrictions
    <3>3. v \in schema(a).enum
      BY <2>2, <3>1 DEF Accepts, Meets
    <3> QED
      BY <2>4, <3>2, <3>3
  <2>7. schema(b).required => schema(a).required
    BY <2>3, <2>4 DEF check_required_additions
  <2>8. class[v] = "object" => (schema(b).required => inside[v] # NoValue)
    BY <2>2, <2>7 DEF Accepts, Meets
  <2>9. Accepts(b, v, Accepted)
    <3>1. /\ schema(b).not = Absent /\ schema(b).items = Absent /\ schema(b).const = Absent
          /\ schema(b).property = Absent /\ ~schema(b).narrowed
          /\ schema(b).allOf = <<>> /\ schema(b).anyOf = <<>> /\ schema(b).oneOf = <<>>
      BY DEF Compared
    <3>2. {i \in DOMAIN schema(b).allOf : Accepted[schema(b).allOf[i]][v]} = DOMAIN schema(b).allOf
      BY <3>1
    <3> QED
      BY <2>5, <2>6, <2>8, <3>1, <3>2 DEF Accepts, Meets
  <2> QED
    BY <2>1, <2>2, <2>9, AcceptedEquation DEF Values
<1> QED
  BY <1>1, AnsweredHolds, PTL
=============================================================================
