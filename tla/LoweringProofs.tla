--------------------------- MODULE LoweringProofs ---------------------------
(***************************************************************************)
(* Invariants of Lowering for every set of documents and every limit.      *)
(***************************************************************************)
EXTENDS Lowering, SequenceTheorems, FiniteSetTheorems, WellFoundedInduction, TLAPS

(* What lower_local_ref pushes onto and pops off a list.                   *)
LEMMA FrontProperties ==
  ASSUME NEW S, NEW s \in Seq(S)
  PROVE  /\ Front(s) \in Seq(S)
         /\ s # <<>> => /\ Len(Front(s)) = Len(s) - 1
                        /\ \A i \in 1 .. Len(s) - 1 : Front(s)[i] = s[i]
                        /\ Last(s) \in S
<1>1. Len(s) \in Nat /\ \A i \in 1 .. Len(s) : s[i] \in S
  BY LenProperties, ElementOfSeq
<1>2. CASE s = <<>>
  BY <1>2, SubSeqEmpty, EmptySeq DEF Front
<1>3. CASE s # <<>>
  <2>1. Len(s) >= 1
    BY <1>1, <1>3, EmptySeq
  <2>2. /\ Front(s) \in Seq(S)
        /\ Len(Front(s)) = Len(s) - 1
        /\ \A i \in 1 .. Len(s) - 1 : Front(s)[i] = s[i]
    <3> DEFINE n == Len(s) - 1
    <3>1. n \in Int /\ 1 \in Int /\ \A i \in 1 .. n : s[i] \in S
      BY <1>1
    <3>2. /\ SubSeq(s, 1, n) \in Seq(S)
          /\ Len(SubSeq(s, 1, n)) = IF 1 <= n THEN n - 1 + 1 ELSE 0
          /\ \A i \in 1 .. n - 1 + 1 : SubSeq(s, 1, n)[i] = s[1 + i - 1]
      BY <3>1, SubSeqProperties
    <3>3. n >= 0 /\ n - 1 + 1 = n /\ \A i \in 1 .. n : 1 + i - 1 = i
      BY <1>1, <2>1
    <3>4. /\ Len(SubSeq(s, 1, n)) = n
          /\ \A i \in 1 .. n : SubSeq(s, 1, n)[i] = s[i]
      BY <3>1, <3>2, <3>3
    <3>5. QED BY <3>2, <3>4 DEF Front
  <2>3. QED BY <1>1, <2>1, <2>2 DEF Last
<1>4. QED BY <1>2, <1>3

(* What lower_local_ref's push adds to a list, and what it leaves alone.   *)
LEMMA AppendFacts ==
  ASSUME NEW S, NEW s \in Seq(S), NEW e \in S
  PROVE  /\ Append(s, e) \in Seq(S)
         /\ Len(Append(s, e)) = Len(s) + 1
         /\ \A i \in 1 .. Len(s) : Append(s, e)[i] = s[i]
         /\ Append(s, e)[Len(s) + 1] = e
OBVIOUS

(* Where a `$ref' string that passes lower_local_ref's checks leads.       *)
LEMMA TargetType ==
  ASSUME TypeOK, NEW ref \in Ref \cup {NoRef},
         LowerLocalRefError(ref) = "running"
  PROVE  /\ ref \in Ref /\ ref # NoRef
         /\ Target(ref) \in Loc
         /\ ~Occurs(ref, visiting)
         /\ ~(Len(visiting) >= MaxDepth)
<1>1. /\ ~Occurs(ref, visiting)
      /\ ~(Len(visiting) >= MaxDepth)
      /\ Target(ref) # NoLoc
  BY DEF LowerLocalRefError
<1>2. ref # NoRef
  BY <1>1 DEF NoRef, Target
<1>3. ref.form = "anchor" => ref.to \in Name
  BY <1>2 DEF Ref
<1>4. ref.form # "anchor" => ref.to \in Loc \cup {NoLoc}
  BY <1>2 DEF Ref
<1>5. QED BY <1>1, <1>2, <1>3, <1>4 DEF Target, TypeOK

(* The parts of a position's body that lowering reads, and its calls.      *)
LEMMA BodyType ==
  ASSUME TypeOK, NEW l \in Loc
  PROVE  /\ body(l) \in Body
         /\ body(l).ref \in Ref \cup {NoRef}
         /\ doc.kids[l] \in Seq(Loc) /\ doc.walk[l] \in Seq(Loc)
         /\ \A d \in Nat : KeywordsCall(l, d) \in Frame /\ RefCall(l, d) \in Frame
BY DEF TypeOK, Doc, Body, body, KeywordsCall, RefCall, Frame

(* Every early return of the lowering is a CompileError.                   *)
LEMMA ErrorNames ==
  /\ \A b : LowerSchemaError(b) # "running" => LowerSchemaError(b) \in Errors
  /\ \A r : LowerLocalRefError(r) # "running" => LowerLocalRefError(r) \in Errors
<1>1. ASSUME NEW b PROVE LowerSchemaError(b) \in Errors \cup {"running"}
  BY DEF LowerSchemaError, Errors
<1>2. ASSUME NEW r PROVE LowerLocalRefError(r) \in Errors \cup {"running"}
  BY DEF LowerLocalRefError, Errors
<1>3. QED BY <1>1, <1>2

-----------------------------------------------------------------------------
(* The compiler's variables keep their types: no call is ever made with an *)
(* argument that is not a position of the document.                        *)
THEOREM TypeCorrect == Spec => []TypeOK
<1>1. Init => TypeOK
  <2> SUFFICES ASSUME Init PROVE TypeOK
    OBVIOUS
  <2> QED BY LoweringAssumption DEF Init, TypeOK
<1>2. TypeOK /\ [Next]_vars => TypeOK'
  <2> SUFFICES ASSUME TypeOK, [Next]_vars PROVE TypeOK'
    OBVIOUS
  <2> USE DEF TypeOK
  <2>1. CASE CollectAnchors
    <3>1. Head(unwalked) \in Loc /\ Tail(unwalked) \in Seq(Loc)
      <4>1. unwalked \in Seq(Loc) /\ unwalked # <<>>
        BY <2>1 DEF CollectAnchors
      <4> HIDE DEF TypeOK
      <4>2. QED BY <4>1, HeadTailProperties
    <3> DEFINE l == Head(unwalked)
               walk == IF body(l).kind = "object" THEN doc.walk[l] ELSE <<>>
               named == body(l).kind = "object" /\ doc.anchor[l] # NoName
    <3>2. walk \in Seq(Loc)
      BY <3>1, BodyType
    <3>3. walk \o Tail(unwalked) \in Seq(Loc)
      BY <3>1, <3>2, ConcatProperties
    <3>4. doc.anchor[l] \in Name \cup {NoName}
      BY <3>1 DEF Doc
    <3>5. CASE named /\ anchors[doc.anchor[l]] # NoLoc
      BY <2>1, <3>5 DEF CollectAnchors, Fail, Errors
    <3>6. CASE ~(named /\ anchors[doc.anchor[l]] # NoLoc)
      BY <2>1, <3>1, <3>3, <3>4, <3>6 DEF CollectAnchors
    <3>7. QED BY <3>5, <3>6
  <2>2. CASE AnchorsCollected
    BY <2>2, LoweringAssumption DEF AnchorsCollected
  <2>3. CASE LowerSchemaFails
    BY <2>3, ErrorNames DEF LowerSchemaFails, Fail
  <2>4. CASE LowerBoolean
    BY <2>4 DEF LowerBoolean
  <2>5. CASE LowerObject
    <3>1. KeywordsCall(at, Len(visiting)) \in Frame
      BY BodyType
    <3>2. QED BY <2>5, <3>1, AppendFacts, SMTT(60) DEF LowerObject
  <2>6. CASE LowerLocalRefFails
    BY <2>6, ErrorNames DEF LowerLocalRefFails, Fail
  <2>7. CASE LowerLocalRef
    <3> DEFINE ref == body(at).ref
    <3>1. ref \in Ref /\ Target(ref) \in Loc /\ RefCall(at, Len(visiting)) \in Frame
      BY <2>7, BodyType, TargetType DEF LowerLocalRef
    <3>2. QED BY <2>7, <3>1, AppendFacts DEF LowerLocalRef
  <2>8. CASE ReturnFromRef
    <3>1. Front(visiting) \in Seq(Ref)
      BY FrontProperties
    <3>2. Front(stack) \in Seq(Frame) /\ Last(stack) \in Frame
      BY <2>8, FrontProperties DEF ReturnFromRef
    <3>3. Last(stack).at \in Loc
      BY <3>2 DEF Frame
    <3>4. KeywordsCall(Last(stack).at, Len(Front(visiting))) \in Frame
      BY <3>1, <3>3, BodyType
    <3>5. Append(Front(stack), KeywordsCall(Last(stack).at, Len(Front(visiting)))) \in Seq(Frame)
      BY <3>2, <3>4
    <3>6. QED BY <2>8, <3>1, <3>2, <3>5 DEF ReturnFromRef
  <2>9. CASE LowerNextKid
    <3>1. Last(stack) \in Frame
      BY <2>9, FrontProperties DEF LowerNextKid
    <3>2. Head(Last(stack).todo) \in Loc /\ Tail(Last(stack).todo) \in Seq(Loc)
      BY <2>9, <3>1 DEF LowerNextKid, Frame
    <3>3. [Last(stack) EXCEPT !.todo = Tail(@)] \in Frame
      BY <3>1, <3>2 DEF Frame
    <3>4. stack' \in Seq(Frame)
      BY <2>9, <3>3, ExceptSeq DEF LowerNextKid, Last
    <3>5. QED BY <2>9, <3>2, <3>4 DEF LowerNextKid
  <2>10. CASE KeywordsDone
    BY <2>10, FrontProperties DEF KeywordsDone
  <2>11. CASE Compiled
    BY <2>11 DEF Compiled
  <2>12. CASE Unwind
    BY <2>12, FrontProperties DEF Unwind
  <2>13. CASE UNCHANGED vars
    BY <2>13 DEF vars
  <2>14. QED
    BY <2>1, <2>2, <2>3, <2>4, <2>5, <2>6, <2>7, <2>8, <2>9, <2>10, <2>11,
       <2>12, <2>13 DEF Next, Done
<1>3. QED BY <1>1, <1>2, PTL DEF Spec
-----------------------------------------------------------------------------
(* VisitingIsOpenRefs is not inductive: a pop must not uncover a shorter   *)
(* call under a longer one, so the depths of the open calls also grow.     *)
DepthsGrow(s) ==
  \A i, j \in 1 .. Len(s) : i < j => DepthIn(s, i) <= s[j].depth

WellNested(v, s) ==
  /\ v \in Seq(Ref) /\ s \in Seq(Frame)
  /\ ListsOpenRefs(v, s)
  /\ DepthsGrow(s)
  /\ \A i, j \in 1 .. Len(v) : v[i] = v[j] => i = j
  /\ Len(v) <= MaxDepth

(* A count of the open `$ref' calls is a number, and an empty stack's 0.   *)
LEMMA DepthInType ==
  ASSUME NEW s \in Seq(Frame), NEW i \in 0 .. Len(s)
  PROVE  /\ DepthIn(s, i) \in Nat
         /\ i > 0 => /\ s[i] \in Frame /\ s[i].depth \in Nat
                     /\ s[i].ref # NoRef => DepthIn(s, i) = s[i].depth + 1
                     /\ s[i].ref = NoRef => DepthIn(s, i) = s[i].depth
<1>1. CASE i = 0
  BY <1>1 DEF DepthIn
<1>2. CASE i > 0
  <2>1. s[i] \in Frame
    BY <1>2, ElementOfSeq
  <2>2. s[i].depth \in Nat
    BY <2>1 DEF Frame
  <2>3. QED BY <1>2, <2>1, <2>2 DEF DepthIn
<1>3. QED BY <1>1, <1>2, LenProperties

(* WellNested, unfolded with the types of what it speaks of.               *)
LEMMA NestingFacts ==
  ASSUME NEW v, NEW s, WellNested(v, s)
  PROVE  /\ Len(s) \in Nat /\ Len(v) \in Nat
         /\ s \in Seq(Frame) /\ v \in Seq(Ref)
         /\ Len(v) = DepthIn(s, Len(s))
         /\ \A i \in 0 .. Len(s) : DepthIn(s, i) \in Nat
         /\ \A i \in 1 .. Len(s) :
              /\ s[i] \in Frame /\ s[i].depth \in Nat
              /\ s[i].depth = DepthIn(s, i - 1)
              /\ s[i].ref # NoRef =>
                   /\ DepthIn(s, i) = s[i].depth + 1
                   /\ s[i].depth < Len(v)
                   /\ v[s[i].depth + 1] = s[i].ref
              /\ s[i].ref = NoRef => DepthIn(s, i) = s[i].depth
         /\ \A i, j \in 1 .. Len(s) : i < j => DepthIn(s, i) <= s[j].depth
<1>1. s \in Seq(Frame) /\ v \in Seq(Ref)
  BY DEF WellNested
<1>2. Len(s) \in Nat /\ Len(v) \in Nat
  BY <1>1, LenProperties
<1>3. \A i \in 0 .. Len(s) :
        /\ DepthIn(s, i) \in Nat
        /\ i > 0 => /\ s[i] \in Frame /\ s[i].depth \in Nat
                    /\ s[i].ref # NoRef => DepthIn(s, i) = s[i].depth + 1
                    /\ s[i].ref = NoRef => DepthIn(s, i) = s[i].depth
  BY <1>1, DepthInType
<1>4. \A i \in 1 .. Len(s) : i \in 0 .. Len(s) /\ i > 0
  BY <1>2
<1>5. QED
  BY <1>1, <1>2, <1>3, <1>4 DEF WellNested, ListsOpenRefs, DepthsGrow

(* Open calls are as well nested as others with the same refs and depths.  *)
LEMMA SameDepths ==
  ASSUME NEW v, NEW s, WellNested(v, s), NEW t \in Seq(Frame),
         Len(t) = Len(s),
         \A i \in 1 .. Len(s) : t[i].depth = s[i].depth /\ t[i].ref = s[i].ref
  PROVE  WellNested(v, t)
<1>1. \A i \in 0 .. Len(s) : DepthIn(t, i) = DepthIn(s, i)
  BY NestingFacts DEF DepthIn
<1>2. ListsOpenRefs(v, t)
  <2>1. Len(v) = DepthIn(t, Len(t))
    BY <1>1, NestingFacts
  <2>2. ASSUME NEW i \in 1 .. Len(s)
        PROVE  /\ t[i].depth = DepthIn(t, i - 1)
               /\ t[i].ref # NoRef => /\ t[i].depth < Len(v)
                                      /\ v[t[i].depth + 1] = t[i].ref
    <3>1. i - 1 \in 0 .. Len(s)
      BY NestingFacts
    <3>2. QED BY <1>1, <3>1, NestingFacts
  <2>3. QED BY <2>1, <2>2 DEF ListsOpenRefs
<1>3. DepthsGrow(t)
  <2> SUFFICES ASSUME NEW i \in 1 .. Len(s), NEW j \in 1 .. Len(s), i < j
               PROVE  DepthIn(t, i) <= t[j].depth
    BY DEF DepthsGrow
  <2>1. i \in 0 .. Len(s)
    BY NestingFacts
  <2>2. QED BY <1>1, <2>1, NestingFacts
<1>4. (\A i, j \in 1 .. Len(v) : v[i] = v[j] => i = j) /\ Len(v) <= MaxDepth
  BY DEF WellNested
<1>5. QED BY <1>2, <1>3, <1>4 DEF WellNested

(* Opening a call; a `$ref's is appended to the list.                      *)
LEMMA PushKeepsNesting ==
  ASSUME NEW v, NEW s, WellNested(v, s), NEW w, NEW t,
         NEW f \in Frame, t = Append(s, f), f.depth = Len(v),
         \/ f.ref = NoRef /\ w = v
         \/ /\ f.ref # NoRef /\ w = Append(v, f.ref)
            /\ ~Occurs(f.ref, v) /\ ~(Len(v) >= MaxDepth)
  PROVE  WellNested(w, t)
<1> DEFINE n == Len(s)
           m == Len(v)
<1>1. /\ Len(t) = n + 1 /\ t[n + 1] = f
      /\ \A i \in 1 .. n : t[i] = s[i]
      /\ n \in Nat /\ m \in Nat
  BY NestingFacts, AppendFacts
<1>2. \A i \in 0 .. n : DepthIn(t, i) = DepthIn(s, i)
  BY <1>1 DEF DepthIn
<1>3. \A i \in 1 .. n + 1 : i \in 1 .. n \/ i = n + 1
  BY <1>1
<1>4. \A i \in 1 .. n : DepthIn(s, i) <= m
  <2> SUFFICES ASSUME NEW i \in 1 .. n PROVE DepthIn(s, i) <= m
    OBVIOUS
  <2>1. CASE i = n
    BY <2>1, NestingFacts
  <2>2. CASE i < n
    <3>1. n \in 1 .. n /\ DepthIn(s, i) <= s[n].depth
      BY <1>1, <2>2, NestingFacts
    <3>2. s[n].depth <= DepthIn(s, n)
      <4>1. DepthIn(s, n) = s[n].depth + 1 \/ DepthIn(s, n) = s[n].depth
        BY <3>1, NestingFacts
      <4>2. s[n].depth \in Nat
        BY <3>1, NestingFacts
      <4>3. QED BY <4>1, <4>2
    <3>3. /\ DepthIn(s, n) = m /\ DepthIn(s, i) \in Nat
          /\ s[n].depth \in Nat
      BY <1>1, <3>1, NestingFacts
    <3>4. QED BY <1>1, <3>1, <3>2, <3>3
  <2>3. QED BY <1>1, <2>1, <2>2
<1>5. DepthsGrow(t)
  <2> SUFFICES ASSUME NEW i \in 1 .. n + 1, NEW j \in 1 .. n + 1, i < j
               PROVE  DepthIn(t, i) <= t[j].depth
    BY <1>1 DEF DepthsGrow
  <2>1. i \in 1 .. n /\ DepthIn(t, i) = DepthIn(s, i)
    BY <1>1, <1>2
  <2>2. CASE j \in 1 .. n
    BY <1>1, <2>1, <2>2, NestingFacts
  <2>3. CASE j = n + 1
    BY <1>1, <1>4, <2>1, <2>3
  <2>4. QED BY <1>3, <2>2, <2>3
<1>6. CASE f.ref = NoRef /\ w = v
  <2>1. DepthIn(t, n + 1) = m
    BY <1>1, <1>6 DEF DepthIn
  <2>2. ListsOpenRefs(w, t)
    <3>1. ASSUME NEW i \in 1 .. n
          PROVE  /\ t[i].depth = DepthIn(t, i - 1)
                 /\ t[i].ref # NoRef => /\ t[i].depth < m
                                        /\ v[t[i].depth + 1] = t[i].ref
      <4>1. i - 1 \in 0 .. n
        BY <1>1
      <4>2. QED BY <1>1, <1>2, <4>1, NestingFacts
    <3>2. t[n + 1].depth = DepthIn(t, n + 1 - 1)
      BY <1>1, <1>2, NestingFacts
    <3>3. QED BY <1>1, <1>3, <1>6, <2>1, <3>1, <3>2 DEF ListsOpenRefs
  <2>3. (\A i, j \in 1 .. Len(w) : w[i] = w[j] => i = j) /\ Len(w) <= MaxDepth
    BY <1>6 DEF WellNested
  <2>4. w \in Seq(Ref) /\ t \in Seq(Frame)
    BY <1>6, NestingFacts, AppendFacts
  <2>5. QED BY <1>5, <2>2, <2>3, <2>4 DEF WellNested
<1>7. CASE /\ f.ref # NoRef /\ w = Append(v, f.ref)
           /\ ~Occurs(f.ref, v) /\ ~(Len(v) >= MaxDepth)
  <2>1. f.ref \in Ref
    BY <1>7 DEF Frame
  <2>2. /\ Len(w) = m + 1
        /\ w[m + 1] = f.ref
        /\ \A i \in 1 .. m : w[i] = v[i]
    BY <1>7, <2>1, NestingFacts, AppendFacts
  <2>3. DepthIn(t, n + 1) = m + 1
    BY <1>1, <1>7 DEF DepthIn
  <2>4. ListsOpenRefs(w, t)
    <3>1. ASSUME NEW i \in 1 .. n
          PROVE  /\ t[i].depth = DepthIn(t, i - 1)
                 /\ t[i].ref # NoRef => /\ t[i].depth < m + 1
                                        /\ w[t[i].depth + 1] = t[i].ref
      <4>1. i - 1 \in 0 .. n
        BY <1>1
      <4>2. s[i].ref # NoRef => s[i].depth + 1 \in 1 .. m
        BY <1>1, NestingFacts
      <4>3. QED BY <1>1, <1>2, <2>2, <4>1, <4>2, NestingFacts
    <3>2. /\ t[n + 1].depth = DepthIn(t, n + 1 - 1)
          /\ t[n + 1].depth < m + 1
          /\ w[t[n + 1].depth + 1] = t[n + 1].ref
      BY <1>1, <1>2, <2>2, NestingFacts
    <3>3. QED BY <1>1, <1>3, <2>2, <2>3, <3>1, <3>2 DEF ListsOpenRefs
  <2>5. (\A i, j \in 1 .. Len(w) : w[i] = w[j] => i = j) /\ Len(w) <= MaxDepth
    <3>1. \A i \in 1 .. m + 1 : i \in 1 .. m \/ i = m + 1
      BY <1>1
    <3>2. m + 1 <= MaxDepth
      BY <1>1, <1>7, LoweringAssumption
    <3>3. \A i \in 1 .. m : v[i] # f.ref
      BY <1>7 DEF Occurs
    <3>4. \A i, j \in 1 .. m : v[i] = v[j] => i = j
      BY DEF WellNested
    <3>5. \A i, j \in 1 .. m + 1 : w[i] = w[j] => i = j
      BY <2>2, <3>1, <3>3, <3>4
    <3>6. QED BY <2>2, <3>2, <3>5
  <2>6. w \in Seq(Ref) /\ t \in Seq(Frame)
    BY <1>7, <2>1, NestingFacts, AppendFacts
  <2>7. QED BY <1>5, <2>4, <2>5, <2>6 DEF WellNested
<1>8. QED BY <1>6, <1>7

(* Closing the innermost call; a `$ref's is popped off the list.           *)
LEMMA PopKeepsNesting ==
  ASSUME NEW v, NEW s, WellNested(v, s), s # <<>>, NEW w, NEW t, t = Front(s),
         w = IF Last(s).ref # NoRef THEN Front(v) ELSE v
  PROVE  WellNested(w, t)
<1> DEFINE n == Len(s)
           d == s[n].depth
<1>1. /\ n \in Nat /\ n >= 1 /\ n \in 1 .. n
      /\ Len(t) = n - 1
      /\ \A i \in 1 .. n - 1 : t[i] = s[i]
      /\ Last(s) = s[n]
  <2>1. n \in Nat /\ n >= 1
    BY NestingFacts, EmptySeq
  <2>2. QED BY <2>1, NestingFacts, FrontProperties DEF Last
<1>2. \A i \in 0 .. n - 1 : DepthIn(t, i) = DepthIn(s, i)
  BY <1>1 DEF DepthIn
<1>3. /\ d \in Nat /\ d = DepthIn(s, n - 1)
      /\ s[n].ref # NoRef => Len(v) = d + 1
      /\ s[n].ref = NoRef => Len(v) = d
  BY <1>1, NestingFacts
<1>4. /\ Len(w) = d
      /\ \A k \in 1 .. d : w[k] = v[k]
  <2>1. CASE s[n].ref # NoRef
    <3>1. v # <<>>
      BY <1>3, <2>1, EmptySeq
    <3>2. w = Front(v)
      BY <1>1, <2>1
    <3>3. /\ Len(Front(v)) = Len(v) - 1
          /\ \A i \in 1 .. Len(v) - 1 : Front(v)[i] = v[i]
      BY <3>1, NestingFacts, FrontProperties
    <3>4. Len(v) - 1 = d
      BY <1>3, <2>1
    <3>5. QED BY <3>2, <3>3, <3>4
  <2>2. CASE s[n].ref = NoRef
    BY <1>1, <1>3, <2>2
  <2>3. QED BY <2>1, <2>2
<1>5. ListsOpenRefs(w, t)
  <2>1. Len(w) = DepthIn(t, Len(t))
    <3>1. n - 1 \in 0 .. n - 1
      BY <1>1
    <3>2. QED BY <1>1, <1>2, <1>3, <1>4, <3>1
  <2>2. ASSUME NEW i \in 1 .. n - 1
        PROVE  /\ t[i].depth = DepthIn(t, i - 1)
               /\ t[i].ref # NoRef => /\ t[i].depth < d
                                      /\ w[t[i].depth + 1] = t[i].ref
    <3>1. i \in 1 .. n /\ i < n /\ i - 1 \in 0 .. n - 1
      BY <1>1
    <3>2. DepthIn(s, i) <= d
      BY <1>1, <3>1, NestingFacts
    <3>3. s[i].ref # NoRef => s[i].depth < d /\ s[i].depth + 1 \in 1 .. d
      BY <1>3, <3>1, <3>2, NestingFacts
    <3>4. /\ t[i] = s[i] /\ DepthIn(t, i - 1) = DepthIn(s, i - 1)
          /\ s[i].depth = DepthIn(s, i - 1)
          /\ s[i].ref # NoRef => v[s[i].depth + 1] = s[i].ref
      <4>1. t[i] = s[i] /\ DepthIn(t, i - 1) = DepthIn(s, i - 1)
        BY <1>1, <1>2, <3>1
      <4>2. QED BY <3>1, <4>1, NestingFacts
    <3>5. QED BY <1>4, <3>3, <3>4
  <2>3. QED BY <1>1, <1>4, <2>1, <2>2 DEF ListsOpenRefs
<1>6. DepthsGrow(t)
  <2> SUFFICES ASSUME NEW i \in 1 .. n - 1, NEW j \in 1 .. n - 1, i < j
               PROVE  DepthIn(t, i) <= t[j].depth
    BY <1>1 DEF DepthsGrow
  <2>1. i \in 1 .. n /\ j \in 1 .. n /\ i \in 0 .. n - 1
    BY <1>1
  <2>2. t[j] = s[j] /\ DepthIn(t, i) = DepthIn(s, i)
    BY <1>1, <1>2, <2>1
  <2>3. DepthIn(s, i) <= s[j].depth
    BY <1>1, <2>1, NestingFacts
  <2>4. QED BY <2>2, <2>3
<1>7. (\A i, j \in 1 .. Len(w) : w[i] = w[j] => i = j) /\ Len(w) <= MaxDepth
  <2>1. d <= Len(v)
    BY <1>3
  <2>2. QED BY <1>3, <1>4, <2>1, NestingFacts, LoweringAssumption
            DEF WellNested
<1>8. w \in Seq(Ref) /\ t \in Seq(Frame)
  BY NestingFacts, FrontProperties
<1>9. QED BY <1>5, <1>6, <1>7, <1>8 DEF WellNested

(* Every step keeps the open calls and `visiting' well nested.             *)
LEMMA NestingStays == Spec => []WellNested(visiting, stack)
<1> DEFINE Nested == WellNested(visiting, stack)
<1>1. Init => Nested
  <2> SUFFICES ASSUME Init PROVE Nested
    OBVIOUS
  <2>1. stack = <<>> /\ visiting = <<>> /\ Len(stack) = 0 /\ Len(visiting) = 0
    BY DEF Init
  <2>2. stack \in Seq(Frame) /\ visiting \in Seq(Ref)
    BY <2>1
  <2>3. QED
    BY <2>1, <2>2, LoweringAssumption DEF WellNested, ListsOpenRefs, DepthsGrow, DepthIn
<1>2. TypeOK /\ Nested /\ [Next]_vars => Nested'
  <2> SUFFICES ASSUME TypeOK, WellNested(visiting, stack), [Next]_vars
               PROVE  WellNested(visiting', stack')
    OBVIOUS
  <2>1. /\ stack \in Seq(Frame) /\ visiting \in Seq(Ref)
        /\ Len(visiting) \in Nat /\ at \in Loc
    BY DEF TypeOK
  <2>2. CASE UNCHANGED <<stack, visiting>>
    BY <2>2
  <2>3. CASE LowerObject
    <3> DEFINE f == KeywordsCall(at, Len(visiting))
    <3>1. f \in Frame /\ f.ref = NoRef /\ f.depth = Len(visiting)
      BY <2>1, BodyType DEF KeywordsCall
    <3>2. CASE UNCHANGED stack
      BY <2>2, <2>3, <3>2 DEF LowerObject
    <3>3. CASE stack' = Append(stack, f)
      <4>1. visiting' = visiting
        BY <2>3 DEF LowerObject
      <4>2. QED BY <3>1, <3>3, <4>1, PushKeepsNesting
    <3>4. QED BY <2>3, <3>2, <3>3 DEF LowerObject
  <2>4. CASE LowerLocalRef
    <3> DEFINE f == RefCall(at, Len(visiting))
    <3>1. /\ f \in Frame /\ f.ref = body(at).ref /\ f.depth = Len(visiting)
          /\ body(at).ref \in Ref \cup {NoRef}
      BY <2>1, BodyType DEF RefCall
    <3>2. /\ f.ref # NoRef
          /\ ~Occurs(f.ref, visiting) /\ ~(Len(visiting) >= MaxDepth)
      BY <2>4, <3>1, TargetType DEF LowerLocalRef
    <3>3. stack' = Append(stack, f) /\ visiting' = Append(visiting, f.ref)
      BY <2>4, <3>1 DEF LowerLocalRef
    <3>4. QED BY <3>1, <3>2, <3>3, PushKeepsNesting
  <2>5. CASE ReturnFromRef
    <3> DEFINE f == KeywordsCall(Last(stack).at, Len(visiting'))
    <3>1. stack # <<>> /\ Last(stack).ref # NoRef /\ visiting' = Front(visiting)
      BY <2>5 DEF ReturnFromRef
    <3>2. WellNested(visiting', Front(stack))
      BY <3>1, PopKeepsNesting
    <3>3. CASE stack' = Front(stack)
      BY <3>2, <3>3
    <3>4. CASE stack' = Append(Front(stack), f)
      <4>1. Last(stack) \in Frame /\ Len(visiting') \in Nat
        BY <2>1, <3>1, <3>2, FrontProperties, NestingFacts
      <4>2. Last(stack).at \in Loc
        BY <4>1 DEF Frame
      <4>3. f \in Frame /\ f.ref = NoRef /\ f.depth = Len(visiting')
        BY <4>1, <4>2, BodyType DEF KeywordsCall
      <4>4. QED BY <3>2, <3>4, <4>3, PushKeepsNesting
    <3>5. QED BY <2>5, <3>3, <3>4 DEF ReturnFromRef
  <2>6. CASE LowerNextKid
    <3>1. /\ stack # <<>> /\ stack' = [stack EXCEPT ![Len(stack)].todo = Tail(@)]
          /\ visiting' = visiting
      BY <2>6 DEF LowerNextKid
    <3>2. /\ Len(stack') = Len(stack)
          /\ \A i \in 1 .. Len(stack) :
               stack'[i].depth = stack[i].depth /\ stack'[i].ref = stack[i].ref
      BY <2>1, <3>1, ElementOfSeq DEF Frame
    <3>3. stack' \in Seq(Frame)
      <4>1. Last(stack) \in Frame /\ Last(stack).todo # <<>>
        BY <2>1, <2>6, FrontProperties DEF LowerNextKid
      <4>2. [Last(stack) EXCEPT !.todo = Tail(@)] \in Frame
        BY <4>1 DEF Frame
      <4>3. QED BY <2>1, <3>1, <4>2, ExceptSeq DEF Last
    <3>4. QED BY <3>1, <3>2, <3>3, SameDepths
  <2>7. CASE KeywordsDone
    <3>1. /\ stack # <<>> /\ Last(stack).ref = NoRef
          /\ stack' = Front(stack) /\ visiting' = visiting
      BY <2>7 DEF KeywordsDone
    <3>2. QED BY <3>1, PopKeepsNesting
  <2>8. CASE Unwind
    <3>1. CASE stack = <<>>
      BY <2>2, <2>8, <3>1 DEF Unwind
    <3>2. CASE stack # <<>>
      <4>1. /\ stack' = Front(stack)
            /\ visiting' = IF Last(stack).ref # NoRef THEN Front(visiting) ELSE visiting
        BY <2>8, <3>2 DEF Unwind
      <4>2. QED BY <3>2, <4>1, PopKeepsNesting
    <3>3. QED BY <3>1, <3>2
  <2>9. QED
    BY <2>2, <2>3, <2>4, <2>5, <2>6, <2>7, <2>8
    DEF Next, vars, Done, CollectAnchors, AnchorsCollected, LowerSchemaFails,
        LowerBoolean, LowerLocalRefFails, Compiled, Fail
<1>3. QED
  BY <1>1, <1>2, TypeCorrect, PTL DEF Spec

(* The cycle guard, the depth guard and `visiting' do what the comments    *)
(* of LowerCtx say: `visiting' is the list of refs being lowered, no ref   *)
(* is lowered inside itself, and refs nest at most MAX_DEPTH deep.         *)
THEOREM VisitingCorrect == Spec => []VisitingExact
<1>1. WellNested(visiting, stack) => VisitingExact
  BY DEF WellNested, VisitingExact, VisitingIsOpenRefs, NoRefInsideItself
<1>2. QED
  BY <1>1, NestingStays, PTL
-----------------------------------------------------------------------------
(* IRBounded needs to know what the open calls will still build: at most   *)
(* two nodes each, and two for the `$ref' about to be followed.            *)
Owed == 2 * Len(stack) + (IF pc = "lower_local_ref" THEN 2 ELSE 0)

BudgetInv ==
  /\ nodes + Owed <= 2 * node_count
  /\ pc \notin {"unwind", "done"} => node_count <= MaxNodes
  /\ node_count <= MaxNodes + 1

(* Every step keeps the account of the nodes still to be built.            *)
LEMMA BudgetStays == Spec => []BudgetInv
<1>1. Init => BudgetInv
  <2> SUFFICES ASSUME Init PROVE BudgetInv
    OBVIOUS
  <2>1. /\ nodes = 0 /\ node_count = 0 /\ Len(stack) = 0
        /\ pc = "collect_anchors"
    BY DEF Init
  <2>2. QED BY <2>1, LoweringAssumption DEF BudgetInv, Owed
<1>2. TypeOK /\ TypeOK' /\ BudgetInv /\ [Next]_vars => BudgetInv'
  <2> SUFFICES ASSUME TypeOK, TypeOK', BudgetInv, [Next]_vars PROVE BudgetInv'
    OBVIOUS
  <2> USE LoweringAssumption DEF BudgetInv
  <2>1. /\ nodes \in Nat /\ node_count \in Nat /\ Len(stack) \in Nat
        /\ stack \in Seq(Frame)
    BY DEF TypeOK
  <2>2. CASE CollectAnchors
    BY <2>1, <2>2 DEF CollectAnchors, Fail, Owed
  <2>3. CASE AnchorsCollected
    BY <2>1, <2>3 DEF AnchorsCollected, Owed
  <2>4. CASE LowerSchemaFails
    BY <2>1, <2>4 DEF LowerSchemaFails, Fail, Owed
  <2>5. ASSUME LowerSchemaError(body(at)) = "running"
        PROVE  node_count + 1 <= MaxNodes
    BY <2>1, <2>5 DEF LowerSchemaError
  <2>6. CASE LowerBoolean
    BY <2>1, <2>5, <2>6 DEF LowerBoolean, Owed
  <2>7. CASE LowerObject
    <3>1. CASE UNCHANGED stack
      BY <2>1, <2>5, <2>7, <3>1 DEF LowerObject, Owed
    <3>2. CASE /\ stack' = Append(stack, KeywordsCall(at, Len(visiting)))
               /\ pc' = "return"
      <4>1. Len(stack') = Len(stack) + 1
        BY <2>1, <3>2
      <4>2. QED BY <2>1, <2>5, <2>7, <3>2, <4>1 DEF LowerObject, Owed
    <3>3. QED BY <2>7, <3>1, <3>2 DEF LowerObject
  <2>8. CASE LowerLocalRefFails
    BY <2>1, <2>8 DEF LowerLocalRefFails, Fail, Owed
  <2>9. CASE LowerLocalRef
    <3>1. Len(stack') = Len(stack) + 1
      BY <2>1, <2>9 DEF LowerLocalRef
    <3>2. QED BY <2>1, <2>9, <3>1 DEF LowerLocalRef, Owed
  <2>10. CASE ReturnFromRef
    <3>1. Len(Front(stack)) = Len(stack) - 1 /\ Front(stack) \in Seq(Frame)
      BY <2>1, <2>10, FrontProperties DEF ReturnFromRef
    <3>2. \A f : Len(Append(Front(stack), f)) = Len(stack)
      BY <2>1, <3>1
    <3>3. Len(stack') <= Len(stack) /\ Len(stack') \in Nat
      BY <2>1, <2>10, <3>1, <3>2 DEF ReturnFromRef, TypeOK
    <3>4. QED BY <2>1, <2>10, <3>3 DEF ReturnFromRef, Owed
  <2>11. CASE LowerNextKid
    <3>1. Len(stack') = Len(stack)
      BY <2>1, <2>11 DEF LowerNextKid
    <3>2. QED BY <2>1, <2>11, <3>1 DEF LowerNextKid, Owed
  <2>12. CASE KeywordsDone
    <3>1. Len(stack') = Len(stack) - 1
      BY <2>1, <2>12, FrontProperties DEF KeywordsDone
    <3>2. nodes' <= nodes + 2 /\ nodes' \in Nat
      BY <2>1, <2>12 DEF KeywordsDone
    <3>3. QED BY <2>1, <2>12, <3>1, <3>2, SMTT(60) DEF KeywordsDone, Owed
  <2>13. CASE Compiled
    BY <2>1, <2>13 DEF Compiled, Owed
  <2>14. CASE Unwind
    <3>1. Len(stack') <= Len(stack) /\ Len(stack') \in Nat
      <4>1. CASE stack = <<>>
        BY <2>1, <2>14, <4>1 DEF Unwind
      <4>2. CASE stack # <<>>
        <5>1. Len(Front(stack)) = Len(stack) - 1 /\ Front(stack) \in Seq(Frame)
          BY <2>1, <4>2, FrontProperties
        <5>2. stack' = Front(stack)
          BY <2>14, <4>2 DEF Unwind
        <5>3. QED BY <2>1, <5>1, <5>2, LenProperties
      <4>3. QED BY <4>1, <4>2
    <3>2. QED BY <2>1, <2>14, <3>1 DEF Unwind, Owed
  <2>15. CASE UNCHANGED vars
    BY <2>15 DEF vars, Owed
  <2>16. QED
    BY <2>2, <2>3, <2>4, <2>6, <2>7, <2>8, <2>9, <2>10, <2>11, <2>12, <2>13,
       <2>14, <2>15 DEF Next, Done
<1>3. QED
  BY <1>1, <1>2, TypeCorrect, PTL DEF Spec

(* The node budget bounds the IR by twice the limit plus two, for every    *)
(* document: each counted call builds a node of its own and, for a `$ref'  *)
(* with siblings, the allOf wrapper as well.                               *)
THEOREM BudgetBoundsIR == Spec => []IRBounded
<1>1. TypeOK /\ BudgetInv => IRBounded
  <2> SUFFICES ASSUME TypeOK, BudgetInv PROVE IRBounded
    OBVIOUS
  <2>1. Owed \in Nat
    BY DEF TypeOK, Owed
  <2>2. QED BY <2>1 DEF TypeOK, BudgetInv, IRBounded
<1>2. QED
  BY <1>1, BudgetStays, TypeCorrect, PTL

-----------------------------------------------------------------------------
(* The positions collect_anchors enters from position l.                   *)
Below(l) == IF body(l).kind = "object" THEN Elements(doc.walk[l]) ELSE {}

(* With the positions in V entered and those of `unwalked' to come,        *)
(* nothing is missed, nothing is entered twice, and the names collected    *)
(* are those of V.                                                         *)
Entered(V) ==
  LET waiting == Elements(unwalked)
      seen == V \cup waiting
  IN /\ Root \in seen /\ seen \subseteq Walked
     /\ V \cap waiting = {}
     /\ \A i, j \in 1 .. Len(unwalked) : unwalked[i] = unwalked[j] => i = j
     /\ \A l \in V : Below(l) \subseteq seen
     /\ \A l \in seen \ {Root} : \E p \in V : l \in Below(p)
     /\ \A n \in Name : {l \in V : body(l).kind = "object" /\ doc.anchor[l] = n}
                          = {anchors[n]} \ {NoLoc}

RegistryInv ==
  /\ doc \in Docs
  /\ pc = "collect_anchors" => \E V \in SUBSET Loc : Entered(V)
  /\ AnchorsExact

(* Induction, with the set of the numbers that a property holds of.        *)
LEMMA SetInduction ==
  ASSUME NEW S \in SUBSET Nat, 0 \in S, \A n \in S : n + 1 \in S
  PROVE  S = Nat
<1> SUFFICES ASSUME Nat \ S # {} PROVE FALSE
  OBVIOUS
<1>1. PICK x \in Nat \ S : \A y \in Nat \ S : ~(<<y, x>> \in OpToRel(<, Nat))
  BY NatLessThanWellFounded, WFMin
<1>2. x \in Nat /\ x # 0 /\ x - 1 \in Nat
  OBVIOUS
<1>3. x - 1 \in S
  <2>1. x - 1 < x
    BY <1>2
  <2>2. <<x - 1, x>> \in OpToRel(<, Nat)
    BY <1>2, <2>1 DEF OpToRel
  <2> QED
    BY <1>1, <1>2, <2>2
<1>4. (x - 1) + 1 = x
  BY <1>2
<1> QED
  BY <1>1, <1>3, <1>4

(* A set and what its members lead to.                                     *)
Grown(S, next) == S \cup UNION {next[l] : l \in S}

(* The sets a closure grows through exist, and grow by one rule.           *)
LEMMA ClosureEquation ==
  ASSUME NEW from, NEW next
  PROVE  \E f : /\ Closure(from, next) = f[Cardinality(Loc)] /\ f[0] = from
                /\ Cardinality(Loc) \in Nat
                /\ \A n \in Nat : n + 1 <= Cardinality(Loc) => f[n + 1] = Grown(f[n], next)
<1> DEFINE N == Cardinality(Loc)
           Step(f, n) == IF n = 0 THEN from ELSE Grown(f[n - 1], next)
           S == {n \in Nat : \E f : f = [m \in 0 .. n |-> Step(f, m)]}
<1>0. N \in Nat
  BY TreeAssumption, FS_CardinalityType
<1>1. 0 \in S
  <2> DEFINE f == [m \in 0 .. 0 |-> from]
  <2>1. f = [m \in 0 .. 0 |-> Step(f, m)]
    OBVIOUS
  <2> QED
    BY <2>1
<1>2. ASSUME NEW n \in S PROVE n + 1 \in S
  <2>1. PICK f : f = [m \in 0 .. n |-> Step(f, m)]
    OBVIOUS
  <2> DEFINE h == [m \in 0 .. n + 1 |-> IF m = n + 1 THEN Grown(f[n], next) ELSE f[m]]
  <2>2. n \in Nat /\ \A m \in 0 .. n : f[m] = Step(f, m)
    BY <2>1
  <2>3. ASSUME NEW m \in 0 .. n + 1 PROVE h[m] = Step(h, m)
    <3>1. CASE m = 0
      <4>1. h[0] = from
        BY <2>2
      <4> HIDE DEF h
      <4> QED
        BY <3>1, <4>1
    <3>2. CASE m \in 1 .. n
      <4>1. h[m] = f[m] /\ h[m - 1] = f[m - 1]
        BY <2>2, <3>2
      <4> HIDE DEF h
      <4> QED
        BY <2>2, <3>2, <4>1
    <3>3. CASE m = n + 1
      <4>1. h[m] = Grown(f[n], next) /\ h[n] = f[n] /\ m - 1 = n /\ m # 0
        BY <2>2, <3>3
      <4> HIDE DEF h
      <4> QED
        BY <4>1
    <3> QED
      BY <2>2, <3>1, <3>2, <3>3
  <2>4. h = [m \in 0 .. n + 1 |-> h[m]]
    OBVIOUS
  <2> HIDE DEF h, Step
  <2>5. h = [m \in 0 .. n + 1 |-> Step(h, m)]
    BY <2>3, <2>4
  <2> QED
    BY <2>2, <2>5
<1>3. N \in S
  <2> HIDE DEF S
  <2>1. S \in SUBSET Nat
    BY DEF S
  <2>2. S = Nat
    BY <1>1, <1>2, <2>1, SetInduction
  <2> QED
    BY <1>0, <2>2
<1> DEFINE w == CHOOSE f : f = [m \in 0 .. N |-> Step(f, m)]
<1>4. w = [m \in 0 .. N |-> Step(w, m)]
  <2>1. \E f : f = [m \in 0 .. N |-> Step(f, m)]
    BY <1>3
  <2> QED
    BY <2>1
<1>5. Closure(from, next) = w[N]
  BY DEF Closure, Grown
<1> HIDE DEF w
<1>6. \A m \in 0 .. N : w[m] = Step(w, m)
  BY <1>4
<1>7. w[0] = from
  BY <1>0, <1>6
<1>8. ASSUME NEW n \in Nat, n + 1 <= N PROVE w[n + 1] = Grown(w[n], next)
  <2>1. n + 1 \in 0 .. N /\ n + 1 # 0 /\ (n + 1) - 1 = n
    BY <1>0, <1>8
  <2> HIDE DEF N
  <2> QED
    BY <1>6, <2>1
<1> QED
  BY <1>0, <1>5, <1>7, <1>8

(* A closure is the least set that holds its start and what its members    *)
(* lead to: with as many steps as there are positions, the last adds none. *)
LEMMA ClosureIsLeast ==
  ASSUME NEW from \in SUBSET Loc, NEW next \in [Loc -> SUBSET Loc]
  PROVE  /\ from \subseteq Closure(from, next) /\ Closure(from, next) \subseteq Loc
         /\ \A l \in Closure(from, next) : next[l] \subseteq Closure(from, next)
         /\ \A S : from \subseteq S /\ (\A l \in S : next[l] \subseteq S)
                    => Closure(from, next) \subseteq S
<1> DEFINE N == Cardinality(Loc)
           C == Closure(from, next)
           G(S) == Grown(S, next)
<1>1. PICK f : /\ C = f[N] /\ f[0] = from /\ N \in Nat
               /\ \A n \in Nat : n + 1 <= N => f[n + 1] = G(f[n])
  BY ClosureEquation
<1>2. \A S : G(S) = S \cup UNION {next[l] : l \in S}
  BY DEF Grown
<1> HIDE DEF N, C, G
<1>3. ASSUME NEW S, from \subseteq S, \A l \in S : next[l] \subseteq S
      PROVE  \A n \in Nat : n <= N => f[n] \subseteq S /\ from \subseteq f[n]
  <2> DEFINE T == {n \in Nat : n <= N => f[n] \subseteq S /\ from \subseteq f[n]}
  <2>1. 0 \in T
    BY <1>1, <1>3
  <2>2. ASSUME NEW n \in T PROVE n + 1 \in T
    <3>1. n + 1 <= N => f[n + 1] = G(f[n]) /\ f[n] \subseteq S /\ from \subseteq f[n]
      BY <1>1
    <3>2. f[n] \subseteq S => G(f[n]) \subseteq S
      BY <1>2, <1>3
    <3>3. f[n] \subseteq G(f[n])
      BY <1>2
    <3> QED
      BY <3>1, <3>2, <3>3
  <2>3. T \in SUBSET Nat
    OBVIOUS
  <2>4. T = Nat
    <3> HIDE DEF T
    <3> QED
      BY <2>1, <2>2, <2>3, SetInduction
  <2> QED
    BY <2>4
<1>4. \A n \in Nat : n <= N => f[n] \subseteq Loc /\ from \subseteq f[n]
  BY <1>3
<1>5. \A n \in Nat : n <= N => f[n] = G(f[n]) \/ Cardinality(f[n]) >= n
  <2> DEFINE T == {n \in Nat : n <= N => f[n] = G(f[n]) \/ Cardinality(f[n]) >= n}
  <2>1. 0 \in T
    <3>1. Cardinality(f[0]) \in Nat
      BY <1>1, TreeAssumption, FS_Subset, FS_CardinalityType
    <3> QED
      BY <3>1
  <2>2. ASSUME NEW n \in T PROVE n + 1 \in T
    <3> SUFFICES ASSUME n + 1 <= N
                 PROVE  f[n + 1] = G(f[n + 1]) \/ Cardinality(f[n + 1]) >= n + 1
      OBVIOUS
    <3>1. /\ n \in Nat /\ n <= N /\ f[n + 1] = G(f[n])
          /\ f[n] = G(f[n]) \/ Cardinality(f[n]) >= n
      BY <1>1
    <3>2. CASE f[n] = G(f[n])
      BY <3>1, <3>2
    <3>3. CASE f[n] # G(f[n]) /\ Cardinality(f[n]) >= n
      <4>1. f[n + 1] \subseteq Loc /\ f[n] \in SUBSET f[n + 1]
        BY <1>2, <1>4, <3>1
      <4>2. IsFiniteSet(f[n + 1])
        BY <4>1, TreeAssumption, FS_Subset
      <4>3. Cardinality(f[n]) <= Cardinality(f[n + 1]) /\ Cardinality(f[n]) # Cardinality(f[n + 1])
        BY <3>1, <3>3, <4>1, <4>2, FS_Subset
      <4>4. Cardinality(f[n]) \in Nat /\ Cardinality(f[n + 1]) \in Nat
        BY <4>1, <4>2, FS_Subset, FS_CardinalityType
      <4> QED
        BY <3>1, <3>3, <4>3, <4>4
    <3> QED
      BY <3>1, <3>2, <3>3
  <2>3. T \in SUBSET Nat
    OBVIOUS
  <2>4. T = Nat
    <3> HIDE DEF T
    <3> QED
      BY <2>1, <2>2, <2>3, SetInduction
  <2> QED
    BY <2>4
<1>6. C \subseteq Loc /\ from \subseteq C
  BY <1>1, <1>4
<1>7. C = G(C) \/ C = Loc
  <2>1. Cardinality(C) <= N /\ Cardinality(C) \in Nat /\ (Cardinality(C) = N => C = Loc)
    BY <1>6, TreeAssumption, FS_Subset, FS_CardinalityType DEF N
  <2> QED
    BY <1>1, <1>5, <2>1
<1>8. \A l \in C : next[l] \subseteq C
  BY <1>2, <1>6, <1>7
<1>9. ASSUME NEW S, from \subseteq S, \A l \in S : next[l] \subseteq S PROVE C \subseteq S
  BY <1>1, <1>3, <1>9
<1> QED
  BY <1>6, <1>8, <1>9 DEF C

(* Walked is the closure of Root under the children that are entered.      *)
LEMMA WalkedIsLeast ==
  ASSUME TypeOK
  PROVE  /\ Root \in Walked /\ Walked \subseteq Loc
         /\ \A l \in Walked : Below(l) \subseteq Walked
         /\ \A S : Root \in S /\ (\A l \in S \cap Loc : Below(l) \subseteq S) => Walked \subseteq S
<1> DEFINE next == [l \in Loc |-> Below(l)]
<1>1. next \in [Loc -> SUBSET Loc]
  <2> SUFFICES ASSUME NEW l \in Loc PROVE Below(l) \subseteq Loc
    OBVIOUS
  <2>1. doc.walk[l] \in Seq(Loc)
    BY DEF TypeOK, Doc
  <2> QED
    BY <2>1 DEF Below, Elements
<1>2. Walked = Closure({Root}, next)
  BY DEF Walked, Below
<1>3. {Root} \in SUBSET Loc
  BY LoweringAssumption
<1>4. \A l \in Loc : next[l] = Below(l)
  OBVIOUS
<1> HIDE DEF next
<1>5. /\ Root \in Walked /\ Walked \subseteq Loc
      /\ \A l \in Walked : next[l] \subseteq Walked
      /\ \A S : Root \in S /\ (\A l \in S : next[l] \subseteq S) => Walked \subseteq S
  BY <1>1, <1>2, <1>3, ClosureIsLeast
<1>6. ASSUME NEW S, Root \in S, \A l \in S \cap Loc : Below(l) \subseteq S PROVE Walked \subseteq S
  <2>1. Root \in S \cap Loc /\ \A l \in S \cap Loc : next[l] \subseteq S \cap Loc
    BY <1>1, <1>4, <1>6, LoweringAssumption
  <2>2. Walked \subseteq S \cap Loc
    BY <1>5, <2>1
  <2> QED
    BY <2>2
<1> QED
  BY <1>4, <1>5, <1>6

(* A concatenation, element by element.                                    *)
LEMMA Joined ==
  ASSUME NEW S, NEW a \in Seq(S), NEW b \in Seq(S)
  PROVE  /\ a \o b \in Seq(S) /\ Len(a \o b) = Len(a) + Len(b)
         /\ \A i \in 1 .. Len(a) + Len(b) :
              (a \o b)[i] = IF i <= Len(a) THEN a[i] ELSE b[i - Len(a)]
BY ConcatProperties

(* The walk goes on: what is still to come once a position was entered.    *)
LEMMA WalkOn ==
  ASSUME NEW u \in Seq(Loc), u # <<>>, NEW k \in Seq(Loc),
         \A i, j \in 1 .. Len(u) : u[i] = u[j] => i = j,
         \A i, j \in 1 .. Len(k) : k[i] = k[j] => i = j,
         Elements(k) \cap Elements(u) = {}
  PROVE  LET v == k \o Tail(u)
         IN /\ v \in Seq(Loc) /\ Elements(v) = Elements(k) \cup (Elements(u) \ {Head(u)})
            /\ \A i, j \in 1 .. Len(v) : v[i] = v[j] => i = j
<1> DEFINE t == Tail(u)
           v == k \o t
<1>1. /\ Len(u) \in Nat /\ Len(k) \in Nat /\ Len(u) >= 1
      /\ DOMAIN u = 1 .. Len(u) /\ DOMAIN k = 1 .. Len(k) /\ Head(u) = u[1]
  BY EmptySeq, LenProperties
<1>2. /\ t \in Seq(Loc) /\ Len(t) = Len(u) - 1
      /\ \A i \in 1 .. Len(u) - 1 : t[i] = u[i + 1]
  <2>1. t \in Seq(Loc) /\ Len(t) = Len(u) - 1 /\ \A i \in 1 .. Len(t) : t[i] = u[i + 1]
    BY HeadTailProperties
  <2> QED
    BY <2>1
<1> HIDE DEF t
<1>3. /\ v \in Seq(Loc) /\ Len(v) = Len(k) + Len(t)
      /\ \A i \in 1 .. Len(k) + Len(t) : v[i] = IF i <= Len(k) THEN k[i] ELSE t[i - Len(k)]
  <2> HIDE DEF v
  <2>1. k \in Seq(Loc) /\ t \in Seq(Loc)
    BY <1>2
  <2>2. /\ k \o t \in Seq(Loc) /\ Len(k \o t) = Len(k) + Len(t)
        /\ \A i \in 1 .. Len(k) + Len(t) :
             (k \o t)[i] = IF i <= Len(k) THEN k[i] ELSE t[i - Len(k)]
    BY <2>1, Joined
  <2> QED
    BY <2>2 DEF v
<1>4. DOMAIN v = 1 .. Len(v)
  BY <1>3, LenProperties
<1> HIDE DEF v
<1>5. ASSUME NEW i \in 1 .. Len(v)
      PROVE  \/ i <= Len(k) /\ i \in 1 .. Len(k) /\ v[i] = k[i]
             \/ /\ ~(i <= Len(k)) /\ i - Len(k) + 1 \in 2 .. Len(u)
                /\ v[i] = u[i - Len(k) + 1]
  <2>1. i \in 1 .. Len(k) + Len(t)
    BY <1>3
  <2>2. CASE i <= Len(k)
    BY <1>1, <1>3, <2>1, <2>2
  <2>3. CASE ~(i <= Len(k))
    <3>1. i - Len(k) \in 1 .. Len(u) - 1 /\ i - Len(k) + 1 \in 2 .. Len(u)
      BY <1>1, <1>2, <2>1, <2>3
    <3> QED
      BY <1>2, <1>3, <2>1, <2>3, <3>1
  <2> QED
    BY <2>2, <2>3
<1>6. \A i, j \in 1 .. Len(v) : v[i] = v[j] => i = j
  <2> SUFFICES ASSUME NEW i \in 1 .. Len(v), NEW j \in 1 .. Len(v), v[i] = v[j] PROVE i = j
    OBVIOUS
  <2>1. \A m \in 1 .. Len(k), n \in 1 .. Len(u) : k[m] # u[n]
    <3> TAKE m \in 1 .. Len(k), n \in 1 .. Len(u)
    <3>1. k[m] \in Elements(k) /\ u[n] \in Elements(u)
      BY <1>1 DEF Elements
    <3> QED
      BY <3>1
  <2>2. 2 .. Len(u) \subseteq 1 .. Len(u)
    BY <1>1
  <2>3. i \in Int /\ j \in Int /\ Len(k) \in Int
    BY <1>1
  <2>4. CASE i <= Len(k) /\ j <= Len(k)
    BY <1>5, <2>4
  <2>5. CASE ~(i <= Len(k)) /\ ~(j <= Len(k))
    <3>1. i - Len(k) + 1 = j - Len(k) + 1
      BY <1>5, <2>2, <2>5
    <3> QED
      BY <2>3, <3>1
  <2>6. CASE i <= Len(k) /\ ~(j <= Len(k))
    BY <1>5, <2>1, <2>2, <2>6
  <2>7. CASE ~(i <= Len(k)) /\ j <= Len(k)
    BY <1>5, <2>1, <2>2, <2>7
  <2> QED
    BY <2>4, <2>5, <2>6, <2>7
<1>7. Elements(v) \subseteq Elements(k) \cup (Elements(u) \ {Head(u)})
  <2> SUFFICES ASSUME NEW i \in 1 .. Len(v)
               PROVE  v[i] \in Elements(k) \cup (Elements(u) \ {Head(u)})
    BY <1>4 DEF Elements
  <2>1. CASE i \in 1 .. Len(k) /\ v[i] = k[i]
    BY <1>1, <2>1 DEF Elements
  <2>2. CASE i - Len(k) + 1 \in 2 .. Len(u) /\ v[i] = u[i - Len(k) + 1]
    <3>1. i - Len(k) + 1 \in 1 .. Len(u) /\ 1 \in 1 .. Len(u) /\ i - Len(k) + 1 # 1
      BY <1>1, <2>2
    <3>2. v[i] # u[1]
      BY <2>2, <3>1
    <3> QED
      BY <1>1, <2>2, <3>1, <3>2 DEF Elements
  <2> QED
    BY <1>5, <2>1, <2>2
<1>8. Elements(k) \cup (Elements(u) \ {Head(u)}) \subseteq Elements(v)
  <2>1. ASSUME NEW i \in 1 .. Len(k) PROVE k[i] \in Elements(v)
    <3>1. i \in 1 .. Len(v) /\ v[i] = k[i]
      BY <1>1, <1>2, <1>3
    <3> QED
      BY <1>4, <3>1 DEF Elements
  <2>2. ASSUME NEW i \in 1 .. Len(u), u[i] # u[1] PROVE u[i] \in Elements(v)
    <3> DEFINE j == Len(k) + (i - 1)
    <3>1. i # 1
      BY <2>2
    <3>2. /\ j \in 1 .. Len(k) + Len(t) /\ ~(j <= Len(k)) /\ j - Len(k) = i - 1
          /\ i - 1 \in 1 .. Len(u) - 1 /\ (i - 1) + 1 = i
      BY <1>1, <1>2, <3>1
    <3> HIDE DEF j
    <3>3. v[j] = u[i]
      BY <1>2, <1>3, <3>2
    <3> QED
      BY <1>3, <1>4, <3>2, <3>3 DEF Elements
  <2> QED
    BY <1>1, <2>1, <2>2 DEF Elements
<1> QED
  BY <1>3, <1>6, <1>7, <1>8 DEF v, t

(* The children of a position, as collect_anchors queues them.             *)
LEMMA Children ==
  ASSUME TypeOK, doc \in Docs, NEW l \in Loc
  PROVE  LET k == IF body(l).kind = "object" THEN doc.walk[l] ELSE <<>>
         IN /\ k \in Seq(Loc) /\ Elements(k) = Below(l) /\ Root \notin Below(l)
            /\ \A i, j \in 1 .. Len(k) : k[i] = k[j] => i = j
            /\ \A p \in Loc : p # l => Below(p) \cap Below(l) = {}
<1> DEFINE k == IF body(l).kind = "object" THEN doc.walk[l] ELSE <<>>
<1>1. \A p \in Loc : doc.walk[p] \in Seq(Loc) /\ DOMAIN doc.walk[p] = 1 .. Len(doc.walk[p])
  BY LenProperties DEF TypeOK, Doc
<1>2. <<>> \in Seq(Loc) /\ Elements(<<>>) = {} /\ Len(<<>>) = 0
  BY DEF Elements
<1>3. k \in Seq(Loc) /\ Elements(k) = Below(l)
  BY <1>1, <1>2 DEF Below
<1>4. Root \notin Below(l)
  BY <1>1, TreeAssumption DEF Below, Elements
<1>5. \A i, j \in 1 .. Len(k) : k[i] = k[j] => i = j
  BY <1>1, <1>2, TreeAssumption
<1>6. ASSUME NEW p \in Loc, p # l PROVE Below(p) \cap Below(l) = {}
  <2> SUFFICES ASSUME NEW q \in Below(p), q \in Below(l) PROVE FALSE
    OBVIOUS
  <2>1. PICK i \in 1 .. Len(doc.walk[p]) : q = doc.walk[p][i]
    BY <1>1 DEF Below, Elements
  <2>2. PICK j \in 1 .. Len(doc.walk[l]) : q = doc.walk[l][j]
    BY <1>1 DEF Below, Elements
  <2> QED
    BY <1>6, <2>1, <2>2, TreeAssumption
<1> QED
  BY <1>3, <1>4, <1>5, <1>6

(* RegistryInv holds when collect_anchors begins: nothing is entered.      *)
LEMMA RegistryStart == TypeOK /\ Init => RegistryInv
<1> SUFFICES ASSUME TypeOK, Init PROVE RegistryInv
  OBVIOUS
<1>1. /\ doc \in Docs /\ pc = "collect_anchors" /\ outcome = "running"
      /\ anchors = [n \in Name |-> NoLoc]
      /\ Len(unwalked) = 1 /\ Elements(unwalked) = {Root}
  BY DEF Init, Elements
<1>2. Root \in Walked
  BY WalkedIsLeast
<1>3. Entered({})
  BY <1>1, <1>2 DEF Entered
<1>4. AnchorsExact
  BY <1>1 DEF AnchorsExact
<1> QED
  BY <1>1, <1>3, <1>4 DEF RegistryInv

(* One position is entered.                                                *)
LEMMA EnterNext ==
  ASSUME TypeOK, doc \in Docs, NEW V \in SUBSET Loc, Entered(V),
         unwalked # <<>>, CollectAnchors, pc' = "collect_anchors"
  PROVE  \E W \in SUBSET Loc : Entered(W)'
<1> DEFINE l == Head(unwalked)
           W == V \cup {l}
           k == IF body(l).kind = "object" THEN doc.walk[l] ELSE <<>>
           u == Elements(unwalked)
           seen == V \cup u
           carries(m, n) == body(m).kind = "object" /\ doc.anchor[m] = n
<1>1. unwalked \in Seq(Loc) /\ l \in Loc /\ l \in u
  BY HeadTailProperties, EmptySeq, LenProperties DEF TypeOK, Elements
<1>2. /\ doc' = doc
      /\ unwalked' = k \o Tail(unwalked)
      /\ ~(body(l).kind = "object" /\ doc.anchor[l] # NoName /\ anchors[doc.anchor[l]] # NoLoc)
      /\ anchors' = IF body(l).kind = "object" /\ doc.anchor[l] # NoName
                    THEN [anchors EXCEPT ![doc.anchor[l]] = l] ELSE anchors
  BY DEF CollectAnchors, Fail
<1>3. /\ Root \in seen /\ seen \subseteq Walked /\ V \cap u = {}
      /\ \A i, j \in 1 .. Len(unwalked) : unwalked[i] = unwalked[j] => i = j
      /\ \A m \in V : Below(m) \subseteq seen
      /\ \A m \in seen \ {Root} : \E p \in V : m \in Below(p)
      /\ \A n \in Name : {m \in V : carries(m, n)} = {anchors[n]} \ {NoLoc}
  BY DEF Entered
<1>4. /\ k \in Seq(Loc) /\ Elements(k) = Below(l) /\ Root \notin Below(l)
      /\ \A i, j \in 1 .. Len(k) : k[i] = k[j] => i = j
      /\ \A p \in Loc : p # l => Below(p) \cap Below(l) = {}
  BY <1>1, Children
<1>5. l \notin V /\ Below(l) \cap seen = {}
  <2>1. l \notin V
    BY <1>1, <1>3
  <2>2. ASSUME NEW m \in Below(l), m \in seen PROVE FALSE
    <3>1. m # Root
      BY <1>4, <2>2
    <3>2. PICK p \in V : m \in Below(p)
      BY <1>3, <2>2, <3>1
    <3> QED
      BY <1>4, <2>1, <2>2, <3>2
  <2> QED
    BY <2>1, <2>2
<1>6. /\ Elements(unwalked') = Below(l) \cup (u \ {l})
      /\ \A i, j \in 1 .. Len(unwalked') : unwalked'[i] = unwalked'[j] => i = j
  <2>1. Elements(k) \cap Elements(unwalked) = {}
    BY <1>4, <1>5
  <2> HIDE DEF k
  <2> QED
    BY <1>1, <1>2, <1>3, <1>4, <2>1, WalkOn
<1>7. W \cup Elements(unwalked') = seen \cup Below(l)
  BY <1>1, <1>6
<1>8. l \in Walked /\ Below(l) \subseteq Walked
  BY <1>1, <1>3, WalkedIsLeast
<1>9. Walked' = Walked /\ \A m : Below(m)' = Below(m)
  <2>1. doc' = doc
    BY <1>2
  <2>2. Walked' = Walked
    BY <2>1 DEF Walked, Closure, body
  <2>3. \A m : Below(m)' = Below(m)
    BY <2>1 DEF Below, body
  <2> QED
    BY <2>2, <2>3
<1>11. ASSUME NEW n \in Name
       PROVE  {m \in W : carries(m, n)} = {anchors'[n]} \ {NoLoc}
  <2>1. {m \in V : carries(m, n)} = {anchors[n]} \ {NoLoc} /\ anchors \in [Name -> Loc \cup {NoLoc}]
    BY <1>3 DEF TypeOK
  <2>2. n # NoName /\ l # NoLoc
    BY <1>1, LoweringAssumption
  <2> HIDE DEF l
  <2>3. CASE carries(l, n)
    <3>1. anchors[n] = NoLoc /\ anchors'[n] = l
      BY <1>2, <2>1, <2>2, <2>3
    <3>2. {m \in V : carries(m, n)} = {}
      BY <2>1, <3>1
    <3>3. {m \in W : carries(m, n)} = {l}
      BY <2>3, <3>2
    <3> QED
      BY <2>2, <3>1, <3>3
  <2>4. CASE ~carries(l, n)
    <3>1. anchors'[n] = anchors[n]
      BY <1>2, <2>1, <2>2, <2>4
    <3>2. {m \in W : carries(m, n)} = {m \in V : carries(m, n)}
      BY <2>4
    <3> QED
      BY <2>1, <3>1, <3>2
  <2> QED
    BY <2>3, <2>4
<1> HIDE DEF l, k
<1>12. /\ W \in SUBSET Loc /\ W \cap Elements(unwalked') = {}
       /\ Root \in W \cup Elements(unwalked')
       /\ W \cup Elements(unwalked') \subseteq Walked
  BY <1>1, <1>3, <1>5, <1>6, <1>7, <1>8
<1>13. ASSUME NEW m \in W PROVE Below(m) \subseteq W \cup Elements(unwalked')
  <2> HIDE DEF seen
  <2>1. m \in V => Below(m) \subseteq seen
    BY <1>3 DEF seen
  <2>2. m \in V \/ m = l
    OBVIOUS
  <2>3. Below(m) \subseteq seen \cup Below(l)
    BY <2>1, <2>2
  <2> QED
    BY <1>7, <2>3
<1>14. ASSUME NEW m \in W \cup Elements(unwalked'), m # Root
       PROVE  \E p \in W : m \in Below(p)
  <2> HIDE DEF seen
  <2>1. m \in seen => \E p \in V : m \in Below(p)
    BY <1>3, <1>14 DEF seen
  <2>2. m \in seen \/ m \in Below(l)
    BY <1>7
  <2> QED
    BY <2>1, <2>2
<1>15. ASSUME NEW X, X = W PROVE Entered(X)'
  <2> HIDE DEF W
  <2> QED
    BY <1>2, <1>6, <1>9, <1>11, <1>12, <1>13, <1>14, <1>15 DEF Entered, body
<1> QED
  BY <1>12, <1>15

(* Every name collected is carried, so a second carrier is a duplicate.    *)
LEMMA DuplicateIsReal ==
  ASSUME TypeOK, NEW V \in SUBSET Loc, Entered(V), unwalked # <<>>,
         body(Head(unwalked)).kind = "object", doc.anchor[Head(unwalked)] # NoName,
         anchors[doc.anchor[Head(unwalked)]] # NoLoc
  PROVE  HasDuplicateAnchor
<1> DEFINE l == Head(unwalked)
           n == doc.anchor[l]
<1>1. l \in Elements(unwalked) /\ l \in Loc
  BY HeadTailProperties, EmptySeq, LenProperties DEF TypeOK, Elements
<1>2. n \in Name
  BY <1>1 DEF TypeOK, Doc
<1> HIDE DEF l
<1>3. anchors[n] \in V /\ body(anchors[n]).kind = "object" /\ doc.anchor[anchors[n]] = n
  BY <1>2 DEF Entered, l
<1>4. l # anchors[n] /\ l \in Walked /\ anchors[n] \in Walked
  BY <1>1, <1>3 DEF Entered
<1>5. l \in Anchored(n) /\ anchors[n] \in Anchored(n)
  BY <1>3, <1>4 DEF Anchored, l
<1> QED
  BY <1>2, <1>4, <1>5 DEF HasDuplicateAnchor

(* Once nothing is left to enter, all that is to be entered was.           *)
LEMMA AllEntered ==
  ASSUME TypeOK, NEW V \in SUBSET Loc, Entered(V), unwalked = <<>>
  PROVE  \A n \in Name : Anchored(n) = {anchors[n]} \ {NoLoc}
<1>1. Elements(unwalked) = {}
  BY DEF Elements
<1>2. V = Walked
  BY <1>1, WalkedIsLeast DEF Entered
<1> QED
  BY <1>2 DEF Entered, Anchored

(* RegistryInv is inductive.                                               *)
LEMMA RegistryStep ==
  ASSUME TypeOK, RegistryInv, [Next]_vars
  PROVE  RegistryInv'
<1>1. doc \in Docs /\ AnchorsExact /\ doc' = doc
  BY DEF RegistryInv, Next, vars, CollectAnchors, AnchorsCollected, LowerSchemaFails,
     LowerBoolean, LowerObject, LowerLocalRefFails, LowerLocalRef, ReturnFromRef, LowerNextKid,
     KeywordsDone, Compiled, Unwind, Done, Fail
<1>2. /\ \A n : n \in Name => Anchored(n)' = Anchored(n)
      /\ HasDuplicateAnchor' = HasDuplicateAnchor
  BY <1>1 DEF HasDuplicateAnchor, Anchored, Walked, Closure, body
<1>3. ASSUME UNCHANGED <<anchors, unwalked>>, outcome' # "DuplicateAnchor" \/ outcome' = outcome,
             pc' = "collect_anchors" => pc = "collect_anchors",
             pc' \in {"lower_schema", "lower_local_ref", "return"} =>
               pc \in {"lower_schema", "lower_local_ref", "return"}
      PROVE  RegistryInv'
  <2>1. \A V : Entered(V)' = Entered(V)
    BY <1>1, <1>3 DEF Entered, Below, Walked, Closure, body
  <2>2. pc' = "collect_anchors" => \E V \in SUBSET Loc : Entered(V)'
    BY <1>3, <2>1 DEF RegistryInv
  <2>3. AnchorsExact'
    BY <1>1, <1>2, <1>3 DEF AnchorsExact
  <2> QED
    BY <1>1, <2>2, <2>3 DEF RegistryInv
<1>4. CASE CollectAnchors
  <2>1. pc = "collect_anchors" /\ unwalked # <<>>
    BY <1>4 DEF CollectAnchors
  <2>2. PICK V \in SUBSET Loc : Entered(V)
    BY <2>1 DEF RegistryInv
  <2>3. CASE pc' = "collect_anchors"
    <3>1. \E W \in SUBSET Loc : Entered(W)'
      BY <1>1, <1>4, <2>1, <2>2, <2>3, EnterNext
    <3>2. outcome' = outcome
      BY <1>4, <2>3 DEF CollectAnchors, Fail
    <3>3. AnchorsExact'
      BY <1>1, <1>2, <2>3, <3>2 DEF AnchorsExact
    <3> QED
      BY <1>1, <3>1, <3>3 DEF RegistryInv
  <2>4. CASE pc' # "collect_anchors"
    <3>1. /\ pc' = "unwind" /\ body(Head(unwalked)).kind = "object"
          /\ doc.anchor[Head(unwalked)] # NoName
          /\ anchors[doc.anchor[Head(unwalked)]] # NoLoc
      BY <1>4, <2>1, <2>4 DEF CollectAnchors, Fail
    <3>2. HasDuplicateAnchor
      BY <2>1, <2>2, <3>1, DuplicateIsReal
    <3>3. AnchorsExact'
      BY <1>2, <3>1, <3>2 DEF AnchorsExact
    <3> QED
      BY <1>1, <3>1, <3>3 DEF RegistryInv
  <2> QED
    BY <2>3, <2>4
<1>5. CASE AnchorsCollected
  <2>1. /\ pc = "collect_anchors" /\ unwalked = <<>> /\ pc' = "lower_schema"
        /\ anchors' = anchors /\ outcome' = outcome
    BY <1>5 DEF AnchorsCollected
  <2>2. PICK V \in SUBSET Loc : Entered(V)
    BY <2>1 DEF RegistryInv
  <2>3. \A n \in Name : Anchored(n) = {anchors[n]} \ {NoLoc}
    BY <2>1, <2>2, AllEntered
  <2>4. AnchorsExact'
    BY <1>1, <1>2, <2>1, <2>3 DEF AnchorsExact
  <2> QED
    BY <1>1, <2>1, <2>4 DEF RegistryInv
<1>6. CASE LowerSchemaFails
  <2>1. LowerSchemaError(body(at)) # "DuplicateAnchor"
    BY DEF LowerSchemaError
  <2> QED
    BY <1>3, <1>6, <2>1 DEF LowerSchemaFails, Fail
<1>7. CASE LowerLocalRefFails
  <2>1. LowerLocalRefError(body(at).ref) # "DuplicateAnchor"
    BY DEF LowerLocalRefError
  <2> QED
    BY <1>3, <1>7, <2>1 DEF LowerLocalRefFails, Fail
<1>8. CASE LowerBoolean \/ LowerObject \/ LowerLocalRef
  BY <1>3, <1>8 DEF LowerBoolean, LowerObject, LowerLocalRef
<1>9. CASE ReturnFromRef \/ LowerNextKid \/ KeywordsDone \/ Compiled
  BY <1>3, <1>9 DEF ReturnFromRef, LowerNextKid, KeywordsDone, Compiled
<1>10. CASE Unwind
  BY <1>3, <1>10 DEF Unwind
<1>11. CASE UNCHANGED vars
  BY <1>3, <1>11 DEF vars
<1> QED
  BY <1>4, <1>5, <1>6, <1>7, <1>8, <1>9, <1>10, <1>11 DEF Next, Done

(* AnchorsExact: collect_anchors leads every name to the one position that *)
(* carries it, and calls a duplicate only what is one.                     *)
THEOREM AnchorsCorrect == Spec => []AnchorsExact
<1>1. TypeOK /\ RegistryInv /\ [Next]_vars => RegistryInv'
  BY RegistryStep
<1>2. RegistryInv => AnchorsExact
  BY DEF RegistryInv
<1> QED
  BY <1>1, <1>2, RegistryStart, TypeCorrect, PTL DEF Spec

(* The sums over the last elements of a sequence exist, and grow one       *)
(* element at a time.                                                      *)
LEMMA SumEquation ==
  ASSUME NEW S, NEW s \in Seq(S), NEW f
  PROVE  \E w : /\ SumOver(s, f) = w[Len(s)] /\ w[0] = 0
                /\ \A n \in 1 .. Len(s) : w[n] = w[n - 1] + f[s[Len(s) - n + 1]]
<1> DEFINE N == Len(s)
           Step(w, n) == IF n = 0 THEN 0 ELSE w[n - 1] + f[s[N - n + 1]]
           S0 == {n \in Nat : \E w : w = [m \in 0 .. n |-> Step(w, m)]}
<1>0. N \in Nat
  BY LenProperties
<1> HIDE DEF N
<1>1. 0 \in S0
  <2> DEFINE w == [m \in 0 .. 0 |-> 0]
  <2>1. w = [m \in 0 .. 0 |-> Step(w, m)]
    OBVIOUS
  <2> QED
    BY <2>1
<1>2. ASSUME NEW n \in S0 PROVE n + 1 \in S0
  <2>1. PICK w : w = [m \in 0 .. n |-> Step(w, m)]
    OBVIOUS
  <2> DEFINE h == [m \in 0 .. n + 1 |->
                     IF m = n + 1 THEN w[n] + f[s[N - (n + 1) + 1]] ELSE w[m]]
  <2>2. n \in Nat /\ \A m \in 0 .. n : w[m] = Step(w, m)
    BY <2>1
  <2>3. ASSUME NEW m \in 0 .. n + 1 PROVE h[m] = Step(h, m)
    <3>1. CASE m = 0
      <4>1. h[0] = 0
        BY <2>2
      <4> HIDE DEF h
      <4> QED
        BY <3>1, <4>1
    <3>2. CASE m \in 1 .. n
      <4>1. h[m] = w[m] /\ h[m - 1] = w[m - 1]
        BY <2>2, <3>2
      <4> HIDE DEF h
      <4> QED
        BY <2>2, <3>2, <4>1
    <3>3. CASE m = n + 1
      <4>1. h[m] = w[n] + f[s[N - (n + 1) + 1]] /\ h[n] = w[n] /\ m - 1 = n /\ m # 0
        BY <2>2, <3>3
      <4> HIDE DEF h
      <4> QED
        BY <3>3, <4>1
    <3> QED
      BY <2>2, <3>1, <3>2, <3>3
  <2>4. h = [m \in 0 .. n + 1 |-> h[m]]
    OBVIOUS
  <2> HIDE DEF h, Step
  <2>5. h = [m \in 0 .. n + 1 |-> Step(h, m)]
    BY <2>3, <2>4
  <2> QED
    BY <2>2, <2>5
<1>3. N \in S0
  <2> HIDE DEF S0
  <2>1. S0 \in SUBSET Nat
    BY DEF S0
  <2>2. S0 = Nat
    BY <1>1, <1>2, <2>1, SetInduction
  <2> QED
    BY <1>0, <2>2
<1> DEFINE w == CHOOSE w : w = [m \in 0 .. N |-> Step(w, m)]
<1>4. w = [m \in 0 .. N |-> Step(w, m)]
  <2>1. \E x : x = [m \in 0 .. N |-> Step(x, m)]
    BY <1>3
  <2> QED
    BY <2>1
<1>5. SumOver(s, f) = w[N]
  BY DEF SumOver, N
<1> HIDE DEF w
<1>6. \A m \in 0 .. N : w[m] = Step(w, m)
  BY <1>4
<1>7. w[0] = 0 /\ \A n \in 1 .. N : w[n] = w[n - 1] + f[s[N - n + 1]]
  BY <1>0, <1>6
<1> QED
  BY <1>5, <1>7 DEF N

(* What a sum over a sequence is, by its first element.                    *)
LEMMA SumFacts ==
  ASSUME NEW S, NEW s \in Seq(S), NEW f \in [S -> Nat]
  PROVE  /\ SumOver(s, f) \in Nat
         /\ s = <<>> => SumOver(s, f) = 0
         /\ s # <<>> => SumOver(s, f) = f[Head(s)] + SumOver(Tail(s), f)
<1> DEFINE N == Len(s)
<1>0. N \in Nat /\ \A i \in 1 .. N : s[i] \in S
  BY LenProperties, ElementOfSeq
<1>1. PICK w : /\ SumOver(s, f) = w[N] /\ w[0] = 0
               /\ \A n \in 1 .. N : w[n] = w[n - 1] + f[s[N - n + 1]]
  BY SumEquation
<1>2. \A n \in Nat : n <= N => w[n] \in Nat
  <2> DEFINE T == {n \in Nat : n <= N => w[n] \in Nat}
  <2>1. 0 \in T
    BY <1>1
  <2>2. ASSUME NEW n \in T PROVE n + 1 \in T
    <3> SUFFICES ASSUME n + 1 <= N PROVE w[n + 1] \in Nat
      OBVIOUS
    <3>1. n + 1 \in 1 .. N /\ (n + 1) - 1 = n /\ N - (n + 1) + 1 \in 1 .. N /\ n <= N
      BY <1>0
    <3>2. w[n + 1] = w[n] + f[s[N - (n + 1) + 1]] /\ w[n] \in Nat
      BY <1>1, <3>1
    <3>3. f[s[N - (n + 1) + 1]] \in Nat
      BY <1>0, <3>1
    <3> QED
      BY <3>2, <3>3
  <2>3. T \in SUBSET Nat
    OBVIOUS
  <2>4. T = Nat
    <3> HIDE DEF T
    <3> QED
      BY <2>1, <2>2, <2>3, SetInduction
  <2> QED
    BY <2>4
<1>3. SumOver(s, f) \in Nat
  BY <1>0, <1>1, <1>2
<1>4. CASE s = <<>>
  BY <1>1, <1>3, <1>4
<1>5. CASE s # <<>>
  <2> DEFINE t == Tail(s)
  <2>1. /\ N >= 1 /\ t \in Seq(S) /\ Len(t) = N - 1 /\ Head(s) = s[1]
        /\ \A i \in 1 .. N - 1 : t[i] = s[i + 1]
    <3>1. t \in Seq(S) /\ Len(t) = N - 1 /\ \A i \in 1 .. Len(t) : t[i] = s[i + 1]
      BY <1>5, HeadTailProperties
    <3> QED
      BY <1>0, <1>5, <3>1, EmptySeq
  <2>2. PICK v : /\ SumOver(t, f) = v[Len(t)] /\ v[0] = 0
                 /\ \A n \in 1 .. Len(t) : v[n] = v[n - 1] + f[t[Len(t) - n + 1]]
    <3>1. t \in Seq(S)
      BY <2>1
    <3> HIDE DEF t
    <3> QED
      BY ONLY <3>1, SumEquation
  <2> HIDE DEF t
  <2>3. \A n \in Nat : n <= N - 1 => v[n] = w[n]
    <3> DEFINE T == {n \in Nat : n <= N - 1 => v[n] = w[n]}
    <3>1. 0 \in T
      BY <1>1, <2>2
    <3>2. ASSUME NEW n \in T PROVE n + 1 \in T
      <4> SUFFICES ASSUME n + 1 <= N - 1 PROVE v[n + 1] = w[n + 1]
        OBVIOUS
      <4> HIDE DEF N
      <4>1. /\ n + 1 \in 1 .. N /\ n + 1 \in 1 .. N - 1 /\ (n + 1) - 1 = n /\ n <= N - 1
            /\ (N - 1) - (n + 1) + 1 \in 1 .. N - 1
            /\ ((N - 1) - (n + 1) + 1) + 1 = N - (n + 1) + 1
        BY <1>0
      <4>2. w[n + 1] = w[n] + f[s[N - (n + 1) + 1]]
        BY <1>1, <4>1
      <4>3. v[n + 1] = v[n] + f[t[(N - 1) - (n + 1) + 1]]
        BY <2>1, <2>2, <4>1
      <4>4. t[(N - 1) - (n + 1) + 1] = s[N - (n + 1) + 1]
        BY <2>1, <4>1
      <4> QED
        BY <4>1, <4>2, <4>3, <4>4
    <3>3. T \in SUBSET Nat
      OBVIOUS
    <3>4. T = Nat
      <4> HIDE DEF T
      <4> QED
        BY <3>1, <3>2, <3>3, SetInduction
    <3> QED
      BY <3>4
  <2>4. N \in 1 .. N /\ N - N + 1 = 1 /\ N - 1 \in Nat
    BY <1>0, <2>1
  <2>5. w[N] = w[N - 1] + f[s[1]] /\ v[N - 1] = w[N - 1]
    BY <1>1, <2>3, <2>4
  <2>6. w[N - 1] \in Nat /\ f[s[1]] \in Nat
    BY <1>0, <1>2, <2>1, <2>4
  <2>7. SumOver(s, f) = f[Head(s)] + SumOver(t, f)
    BY <1>1, <2>1, <2>2, <2>5, <2>6
  <2> QED
    BY <1>3, <1>5, <2>7 DEF t
<1> QED
  BY <1>3, <1>4, <1>5

(* A sum depends on the summands alone.                                    *)
LEMMA SumSame ==
  ASSUME NEW S, NEW s \in Seq(S), NEW f, NEW g, \A l \in Elements(s) : f[l] = g[l]
  PROVE  SumOver(s, f) = SumOver(s, g)
<1> DEFINE N == Len(s)
<1>0. N \in Nat /\ DOMAIN s = 1 .. N
  BY LenProperties
<1>1. PICK w : /\ SumOver(s, f) = w[N] /\ w[0] = 0
               /\ \A n \in 1 .. N : w[n] = w[n - 1] + f[s[N - n + 1]]
  BY SumEquation
<1>2. PICK v : /\ SumOver(s, g) = v[N] /\ v[0] = 0
               /\ \A n \in 1 .. N : v[n] = v[n - 1] + g[s[N - n + 1]]
  BY SumEquation
<1> DEFINE T == {n \in Nat : n <= N => w[n] = v[n]}
<1>3. 0 \in T
  BY <1>1, <1>2
<1>4. ASSUME NEW n \in T PROVE n + 1 \in T
  <2> SUFFICES ASSUME n + 1 <= N PROVE w[n + 1] = v[n + 1]
    OBVIOUS
  <2>1. n + 1 \in 1 .. N /\ (n + 1) - 1 = n /\ N - (n + 1) + 1 \in 1 .. N /\ n <= N
    BY <1>0
  <2>2. f[s[N - (n + 1) + 1]] = g[s[N - (n + 1) + 1]]
    BY <1>0, <2>1 DEF Elements
  <2>3. w[n] = v[n]
    BY <2>1
  <2> QED
    BY <1>1, <1>2, <2>1, <2>2, <2>3
<1>5. T \in SUBSET Nat
  OBVIOUS
<1>6. T = Nat
  <2> HIDE DEF T
  <2> QED
    BY <1>3, <1>4, <1>5, SetInduction
<1> QED
  BY <1>0, <1>1, <1>2, <1>6

(* A finite set of numbers has a greatest.                                 *)
LEMMA GreatestExists ==
  ASSUME NEW S \in SUBSET Nat, IsFiniteSet(S), S # {}
  PROVE  \E d \in S : \A e \in S : e <= d
<1> DEFINE Has(Z) == \E d \in Z : \A e \in Z : e <= d
           T == {n \in Nat : \A Z \in SUBSET Nat :
                   IsFiniteSet(Z) /\ Cardinality(Z) = n /\ Z # {} => Has(Z)}
<1>1. 0 \in T
  <2>1. ASSUME NEW Z \in SUBSET Nat, IsFiniteSet(Z), Cardinality(Z) = 0 PROVE Z = {}
    BY <2>1, FS_EmptySet
  <2> QED
    BY <2>1
<1>2. ASSUME NEW n \in T PROVE n + 1 \in T
  <2> SUFFICES ASSUME NEW Z \in SUBSET Nat, IsFiniteSet(Z), Cardinality(Z) = n + 1, Z # {}
               PROVE  Has(Z)
    OBVIOUS
  <2>1. PICK x \in Z : TRUE
    OBVIOUS
  <2> DEFINE Y == Z \ {x}
  <2>2. IsFiniteSet(Y) /\ Cardinality(Y) = n /\ Y \in SUBSET Nat
    <3>1. IsFiniteSet(Y) /\ Cardinality(Y) = Cardinality(Z) - 1
      BY <2>1, FS_RemoveElement
    <3> QED
      BY <3>1
  <2>3. CASE Y = {}
    <3>1. \A e \in Z : e <= x
      BY <2>3
    <3> QED
      BY <2>1, <3>1
  <2>4. CASE Y # {}
    <3>1. Has(Y)
      BY <2>2, <2>4
    <3>2. PICK d \in Y : \A e \in Y : e <= d
      BY <3>1
    <3>3. CASE x <= d
      <4>1. d \in Z /\ \A e \in Z : e <= d
        BY <3>2, <3>3
      <4> QED
        BY <4>1
    <3>4. CASE ~(x <= d)
      <4>1. \A e \in Z : e <= x
        BY <2>1, <3>2, <3>4
      <4> QED
        BY <2>1, <4>1
    <3> QED
      BY <3>3, <3>4
  <2> QED
    BY <2>3, <2>4
<1>3. T \in SUBSET Nat
  OBVIOUS
<1>4. T = Nat
  <2> HIDE DEF T
  <2> QED
    BY <1>1, <1>2, <1>3, SetInduction
<1>5. Cardinality(S) \in T
  BY <1>4, FS_CardinalityType
<1>6. Has(S)
  BY <1>5
<1> QED
  BY <1>6

-----------------------------------------------------------------------------
(* What a position leads to, through any number of others.                 *)
Reach(l) == Closure(Needs[l], Needs)

(* What position l needs lies in the document.                             *)
LEMMA NeedsType ==
  ASSUME TypeOK
  PROVE  /\ Needs \in [Loc -> SUBSET Loc]
         /\ \A l \in Loc :
              /\ RefTargets(l) \in SUBSET Loc
              /\ LoweredKids(l) \in Seq(Loc) /\ Elements(LoweredKids(l)) \in SUBSET Loc
              /\ body(l).kind = "object"
                   => Needs[l] = RefTargets(l) \cup Elements(LoweredKids(l))
<1>1. ASSUME NEW l \in Loc PROVE RefTargets(l) \in SUBSET Loc
  <2>1. \A n : Anchored(n) \subseteq Loc
    BY WalkedIsLeast DEF Anchored
  <2>2. body(l).ref.form = "pointer" => body(l).ref.to \in Loc \cup {NoLoc}
    BY BodyType DEF Ref, NoRef
  <2> QED
    BY <2>1, <2>2 DEF RefTargets
<1>2. ASSUME NEW l \in Loc
      PROVE  LoweredKids(l) \in Seq(Loc) /\ Elements(LoweredKids(l)) \in SUBSET Loc
  <2>1. LoweredKids(l) \in Seq(Loc)
    BY BodyType DEF LoweredKids
  <2> HIDE DEF LoweredKids
  <2> QED
    BY <2>1, LenProperties, ElementOfSeq DEF Elements
<1>3. \A l \in Loc : Needs[l] = IF body(l).kind = "object"
                                THEN RefTargets(l) \cup Elements(LoweredKids(l)) ELSE {}
  BY DEF Needs
<1>4. Needs \in [Loc -> SUBSET Loc]
  <2>1. Needs = [l \in Loc |-> Needs[l]]
    BY DEF Needs
  <2>2. \A l \in Loc : Needs[l] \in SUBSET Loc
    BY <1>1, <1>2, <1>3
  <2> QED
    BY <2>1, <2>2
<1> QED
  BY <1>1, <1>2, <1>3, <1>4

(* The needed positions, and those that one leads to, are least closures.  *)
LEMMA NeededIsLeast ==
  ASSUME TypeOK
  PROVE  /\ Root \in Needed /\ Needed \subseteq Loc
         /\ \A l \in Needed : Needs[l] \subseteq Needed
         /\ \A S : Root \in S /\ (\A l \in S : Needs[l] \subseteq S) => Needed \subseteq S
         /\ \A l \in Loc :
              /\ Needs[l] \subseteq Reach(l) /\ Reach(l) \subseteq Loc
              /\ \A k \in Reach(l) : Needs[k] \subseteq Reach(l)
              /\ \A S : Needs[l] \subseteq S /\ (\A k \in S : Needs[k] \subseteq S)
                          => Reach(l) \subseteq S
<1>1. Needs \in [Loc -> SUBSET Loc] /\ {Root} \in SUBSET Loc
  BY NeedsType, LoweringAssumption
<1>2. /\ Root \in Needed /\ Needed \subseteq Loc
      /\ \A l \in Needed : Needs[l] \subseteq Needed
      /\ \A S : {Root} \subseteq S /\ (\A l \in S : Needs[l] \subseteq S) => Needed \subseteq S
  BY <1>1, ClosureIsLeast DEF Needed
<1>3. ASSUME NEW l \in Loc
      PROVE  /\ Needs[l] \subseteq Reach(l) /\ Reach(l) \subseteq Loc
             /\ \A k \in Reach(l) : Needs[k] \subseteq Reach(l)
             /\ \A S : Needs[l] \subseteq S /\ (\A k \in S : Needs[k] \subseteq S)
                         => Reach(l) \subseteq S
  <2>1. Needs[l] \in SUBSET Loc
    BY <1>1
  <2> QED
    BY <1>1, <2>1, ClosureIsLeast DEF Reach
<1> QED
  BY <1>2, <1>3

(* A document is cyclic when a needed position leads to itself.            *)
LEMMA CyclicMeaning == Cyclic <=> \E l \in Needed : l \in Reach(l)
BY DEF Cyclic, Reach

(* Without a cycle, a position leads to more than those it needs do.       *)
LEMMA ReachShrinks ==
  ASSUME TypeOK, ~Cyclic, NEW l \in Needed, NEW k \in Needs[l]
  PROVE  /\ k \in Needed
         /\ Cardinality(Reach(k)) < Cardinality(Reach(l))
         /\ Cardinality(Reach(l)) \in 0 .. Cardinality(Loc)
<1>1. l \in Loc /\ k \in Needed /\ k \in Loc
  BY NeededIsLeast
<1>2. k \in Reach(l) /\ Reach(k) \subseteq Reach(l) /\ Reach(l) \subseteq Loc /\ k \notin Reach(k)
  BY <1>1, NeededIsLeast, CyclicMeaning
<1>3. IsFiniteSet(Loc) /\ IsFiniteSet(Reach(l)) /\ IsFiniteSet(Reach(k))
  BY <1>2, TreeAssumption, FS_Subset
<1>4. /\ Cardinality(Reach(l)) \in Nat /\ Cardinality(Reach(k)) \in Nat /\ Cardinality(Loc) \in Nat
      /\ Cardinality(Reach(l)) <= Cardinality(Loc)
      /\ Cardinality(Reach(k)) <= Cardinality(Reach(l))
      /\ Cardinality(Reach(k)) # Cardinality(Reach(l))
  BY <1>2, <1>3, FS_Subset, FS_CardinalityType
<1> QED
  BY <1>1, <1>4

(* Numbers given to finitely many positions are bounded.                   *)
LEMMA Bounded ==
  ASSUME NEW N, IsFiniteSet(N), NEW f \in [N -> Nat]
  PROVE  \E B \in Nat : \A l \in N : f[l] <= B
<1> DEFINE T == {f[l] : l \in N}
<1>1. CASE N = {}
  BY <1>1
<1>2. CASE N # {}
  <2>1. f \in Surjection(N, T)
    BY DEF Surjection
  <2>2. IsFiniteSet(T)
    BY <2>1, FS_Surjection DEF ExistsSurjection
  <2>3. T \in SUBSET Nat /\ T # {}
    BY <1>2
  <2>4. \E d \in T : \A e \in T : e <= d
    <3> HIDE DEF T
    <3> QED
      BY <2>2, <2>3, GreatestExists
  <2>5. PICK d \in T : \A e \in T : e <= d
    BY <2>4
  <2>6. d \in Nat /\ \A l \in N : f[l] <= d
    BY <2>5
  <2> QED
    BY <2>6
<1> QED
  BY <1>1, <1>2

-----------------------------------------------------------------------------
(* The rules of Calls and RefDepth at one position.                        *)
CallsAt(calls, l) ==
  1 + (IF body(l).kind = "object"
       THEN SumOver(LoweredKids(l), calls)
              + (IF RefTargets(l) # {} THEN calls[CHOOSE t \in RefTargets(l) : TRUE] ELSE 0)
       ELSE 0)

DepthsBelow(depth, l) ==
  {depth[k] : k \in Elements(LoweredKids(l))}
    \cup {1 + depth[t] : t \in RefTargets(l)}
    \cup (IF body(l).ref.form \in {"pointer", "anchor"} THEN {1} ELSE {})

DepthAt(depth, l) ==
  IF body(l).kind # "object" \/ DepthsBelow(depth, l) = {} THEN 0
  ELSE CHOOSE d \in DepthsBelow(depth, l) : \A e \in DepthsBelow(depth, l) : e <= d

CountsCalls(calls) ==
  calls \in [Needed -> Nat] /\ \A l \in Needed : calls[l] = CallsAt(calls, l)

MeasuresDepth(depth) ==
  depth \in [Needed -> Nat] /\ \A l \in Needed : depth[l] = DepthAt(depth, l)

(* A sequence over one set whose elements are in another is over that.     *)
LEMMA SeqWithin ==
  ASSUME NEW S, NEW R, NEW k \in Seq(S), Elements(k) \subseteq R
  PROVE  k \in Seq(R)
<1>1. Len(k) \in Nat /\ k = [i \in 1 .. Len(k) |-> k[i]] /\ DOMAIN k = 1 .. Len(k)
  BY LenProperties
<1>2. \A i \in 1 .. Len(k) : k[i] \in R
  BY <1>1 DEF Elements
<1>3. k \in [1 .. Len(k) -> R]
  BY <1>1, <1>2
<1> QED
  BY <1>1, <1>3, SeqDef

(* What the rules read of a needed position is needed too.                 *)
LEMMA NeededParts ==
  ASSUME TypeOK, NEW l \in Needed, body(l).kind = "object"
  PROVE  /\ l \in Loc
         /\ LoweredKids(l) \in Seq(Needed) /\ Elements(LoweredKids(l)) \subseteq Needs[l]
         /\ RefTargets(l) \subseteq Needs[l]
         /\ Needs[l] = RefTargets(l) \cup Elements(LoweredKids(l))
         /\ Needs[l] \subseteq Needed
<1>1. /\ l \in Loc /\ Needs[l] \subseteq Needed
      /\ LoweredKids(l) \in Seq(Loc)
      /\ Needs[l] = RefTargets(l) \cup Elements(LoweredKids(l))
  BY NeededIsLeast, NeedsType
<1>2. LoweredKids(l) \in Seq(Needed)
  BY <1>1, SeqWithin
<1> QED
  BY <1>1, <1>2

(* The rule of Calls gives a number, and reads what l needs alone.         *)
LEMMA CallsRule ==
  ASSUME TypeOK, NEW l \in Needed, NEW f \in [Needed -> Nat]
  PROVE  /\ CallsAt(f, l) \in Nat
         /\ \A g :
              (\A k \in Needs[l] : f[k] = g[k]) => CallsAt(f, l) = CallsAt(g, l)
<1>1. CASE body(l).kind # "object"
  BY <1>1 DEF CallsAt
<1>2. CASE body(l).kind = "object"
  <2> DEFINE kids == LoweredKids(l)
             t == CHOOSE t \in RefTargets(l) : TRUE
  <2>1. /\ kids \in Seq(Needed) /\ Elements(kids) \subseteq Needs[l]
        /\ RefTargets(l) \subseteq Needs[l] /\ Needs[l] \subseteq Needed
    BY <1>2, NeededParts
  <2>2. RefTargets(l) # {} => t \in Needs[l] /\ t \in Needed
    BY <2>1
  <2>3. \A g : CallsAt(g, l) = 1 + (SumOver(kids, g) + (IF RefTargets(l) # {} THEN g[t] ELSE 0))
    BY <1>2 DEF CallsAt
  <2> HIDE DEF kids, t
  <2>4. SumOver(kids, f) \in Nat
    BY <2>1, SumFacts
  <2>5. RefTargets(l) # {} => f[t] \in Nat
    BY <2>2
  <2>6. CallsAt(f, l) \in Nat
    BY <2>3, <2>4, <2>5
  <2>7. ASSUME NEW g, \A k \in Needs[l] : f[k] = g[k]
        PROVE  CallsAt(f, l) = CallsAt(g, l)
    <3>1. SumOver(kids, f) = SumOver(kids, g)
      BY <2>1, <2>7, SumSame
    <3>2. RefTargets(l) # {} => f[t] = g[t]
      BY <2>2, <2>7
    <3> QED
      BY <2>3, <3>1, <3>2
  <2> QED
    BY <2>6, <2>7
<1> QED
  BY <1>1, <1>2

(* The rule of RefDepth gives the greatest of its numbers.                 *)
LEMMA DepthRule ==
  ASSUME TypeOK, NEW l \in Needed, NEW f \in [Needed -> Nat]
  PROVE  /\ DepthAt(f, l) \in Nat
         /\ body(l).kind # "object" => DepthAt(f, l) = 0
         /\ body(l).kind = "object" =>
              /\ \A e \in DepthsBelow(f, l) : e <= DepthAt(f, l)
              /\ DepthAt(f, l) = 0 \/ DepthAt(f, l) \in DepthsBelow(f, l)
         /\ \A g :
              (\A k \in Needs[l] : f[k] = g[k]) => DepthAt(f, l) = DepthAt(g, l)
<1>1. CASE body(l).kind # "object"
  BY <1>1 DEF DepthAt
<1>2. CASE body(l).kind = "object"
  <2> DEFINE below == DepthsBelow(f, l)
  <2>1. /\ Elements(LoweredKids(l)) \subseteq Needs[l]
        /\ RefTargets(l) \subseteq Needs[l] /\ Needs[l] \subseteq Needed
    BY <1>2, NeededParts
  <2>2. IsFiniteSet(Needed)
    BY NeededIsLeast, TreeAssumption, FS_Subset
  <2>3. PICK B \in Nat : \A k \in Needed : f[k] <= B
    BY <2>2, Bounded
  <2>4. below \in SUBSET Nat /\ \A e \in below : e <= B + 1
    <3>1. \A k \in Elements(LoweredKids(l)) : f[k] \in Nat /\ f[k] <= B + 1
      BY <2>1, <2>3
    <3>2. \A t \in RefTargets(l) : 1 + f[t] \in Nat /\ 1 + f[t] <= B + 1
      BY <2>1, <2>3
    <3> QED
      BY <3>1, <3>2 DEF DepthsBelow
  <2>5. IsFiniteSet(below)
    <3>1. B + 1 \in Nat
      OBVIOUS
    <3> HIDE DEF below
    <3> QED
      BY <2>4, <3>1, FS_BoundedSetOfNaturals
  <2>6. DepthAt(f, l) = IF below = {} THEN 0 ELSE CHOOSE d \in below : \A e \in below : e <= d
    BY <1>2 DEF DepthAt
  <2> HIDE DEF below
  <2>7. below # {} => DepthAt(f, l) \in below /\ \A e \in below : e <= DepthAt(f, l)
    <3>1. below # {} => \E d \in below : \A e \in below : e <= d
      BY <2>4, <2>5, GreatestExists
    <3> QED
      BY <2>6, <3>1
  <2>8. /\ DepthAt(f, l) \in Nat
        /\ \A e \in below : e <= DepthAt(f, l)
        /\ DepthAt(f, l) = 0 \/ DepthAt(f, l) \in below
    <3>1. CASE below = {}
      <4>1. DepthAt(f, l) = 0
        BY <2>6, <3>1
      <4> QED
        BY <3>1, <4>1
    <3>2. CASE below # {}
      BY <2>4, <2>7, <3>2
    <3> QED
      BY <3>1, <3>2
  <2>9. ASSUME NEW g, \A k \in Needs[l] : f[k] = g[k]
        PROVE  DepthAt(f, l) = DepthAt(g, l)
    <3>1. DepthsBelow(f, l) = DepthsBelow(g, l)
      <4>1. /\ \A k \in Elements(LoweredKids(l)) : f[k] = g[k]
            /\ \A t \in RefTargets(l) : f[t] = g[t]
        BY <2>1, <2>9
      <4>2. {f[k] : k \in Elements(LoweredKids(l))} = {g[k] : k \in Elements(LoweredKids(l))}
        BY <4>1
      <4>3. {1 + f[t] : t \in RefTargets(l)} = {1 + g[t] : t \in RefTargets(l)}
        BY <4>1
      <4> QED
        BY <4>2, <4>3 DEF DepthsBelow
    <3> QED
      BY <3>1 DEF DepthAt
  <2> QED
    BY <1>2, <2>8, <2>9 DEF below
<1> QED
  BY <1>1, <1>2

(* Reach ranks the needed positions.                                       *)
LEMMA RankFacts ==
  ASSUME TypeOK, ~Cyclic
  PROVE  LET rank == [l \in Needed |-> Cardinality(Reach(l))]
             B == Cardinality(Loc)
         IN  B \in Nat /\ \A l \in Needed : rank[l] \in 0 .. B /\
                             \A k \in Needs[l] : k \in Needed /\ rank[k] < rank[l]
<1> DEFINE rank == [l \in Needed |-> Cardinality(Reach(l))]
           B == Cardinality(Loc)
<1>1. B \in Nat
  BY TreeAssumption, FS_CardinalityType
<1>2. \A l \in Needed : rank[l] \in 0 .. B /\ \A k \in Needs[l] : k \in Needed /\ rank[k] < rank[l]
  <2> SUFFICES ASSUME NEW l \in Needed
               PROVE  /\ rank[l] \in 0 .. B
                      /\ \A k \in Needs[l] : k \in Needed /\ rank[k] < rank[l]
    OBVIOUS
  <2>1. l \in Loc /\ Reach(l) \subseteq Loc
    BY NeededIsLeast
  <2>2. Cardinality(Reach(l)) \in Nat /\ Cardinality(Reach(l)) <= B
    BY <2>1, TreeAssumption, FS_Subset, FS_CardinalityType
  <2>3. \A k \in Needs[l] : k \in Needed /\ Cardinality(Reach(k)) < Cardinality(Reach(l))
    BY ReachShrinks
  <2> QED
    BY <1>1, <2>2, <2>3
<1> QED
  BY <1>1, <1>2

(* F gives each needed position a number that depends on those of the      *)
(* positions it needs alone.                                               *)
ReadsNeeds(F) ==
  /\ \A f \in [Needed -> Nat] : \A l \in Needed : F[f][l] \in Nat
  /\ \A l \in Needed : \A f, g \in [Needed -> Nat] :
       (\A k \in Needs[l] : f[k] = g[k]) => F[f][l] = F[g][l]

SolvedBy(F, f) == \A l \in Needed : f[l] = F[f][l]

(* Recursion on what is needed: without a cycle such rules have solutions. *)
LEMMA RecursionExists ==
  ASSUME TypeOK, ~Cyclic, NEW F, ReadsNeeds(F)
  PROVE  \E f \in [Needed -> Nat] : SolvedBy(F, f)
<1> DEFINE rank == [l \in Needed |-> Cardinality(Reach(l))]
           B == Cardinality(Loc)
           Upto(n, f) == \A l \in Needed : rank[l] < n => f[l] = F[f][l]
           T == {n \in Nat : \E f \in [Needed -> Nat] : Upto(n, f)}
<1>0. B \in Nat /\ \A l \in Needed : rank[l] \in 0 .. B /\
                      \A k \in Needs[l] : k \in Needed /\ rank[k] < rank[l]
  BY RankFacts
<1> HIDE DEF rank, B
<1>1. 0 \in T
  <2>1. [l \in Needed |-> 0] \in [Needed -> Nat] /\ \A l \in Needed : ~(rank[l] < 0)
    BY <1>0
  <2> QED
    BY <2>1
<1>2. ASSUME NEW n \in T PROVE n + 1 \in T
  <2>1. PICK f \in [Needed -> Nat] : Upto(n, f)
    OBVIOUS
  <2> DEFINE g == [l \in Needed |-> F[f][l]]
  <2>2. g \in [Needed -> Nat] /\ \A l \in Needed : g[l] = F[f][l]
    BY DEF ReadsNeeds
  <2> HIDE DEF g
  <2>3. ASSUME NEW l \in Needed, rank[l] < n + 1 PROVE g[l] = F[g][l]
    <3>1. ASSUME NEW k \in Needs[l] PROVE f[k] = g[k]
      <4>1. k \in Needed /\ rank[k] < n
        BY <1>0, <2>3
      <4> QED
        BY <2>1, <2>2, <4>1
    <3>2. F[f][l] = F[g][l]
      BY <2>2, <3>1 DEF ReadsNeeds
    <3> QED
      BY <2>2, <3>2
  <2>4. Upto(n + 1, g)
    BY <2>3
  <2> HIDE DEF Upto
  <2> QED
    BY <2>2, <2>4
<1>3. T = Nat
  <2>1. T \in SUBSET Nat
    OBVIOUS
  <2> HIDE DEF T
  <2> QED
    BY <1>1, <1>2, <2>1, SetInduction
<1>4. PICK f \in [Needed -> Nat] : Upto(B + 1, f)
  <2>1. B + 1 \in T
    <3> HIDE DEF T
    <3> QED
      BY <1>0, <1>3
  <2> HIDE DEF Upto
  <2> QED
    BY <2>1
<1>5. \A l \in Needed : rank[l] < B + 1
  BY <1>0
<1> QED
  BY <1>4, <1>5 DEF SolvedBy

(* Two functions agree that do wherever they agree on what is needed.      *)
AgreeByNeeds(f, g) ==
  \A l \in Needed : (\A k \in Needs[l] : f[k] = g[k]) => f[l] = g[l]

(* There is one solution.                                                  *)
LEMMA EqualByNeeds ==
  ASSUME TypeOK, ~Cyclic, NEW f, NEW g, AgreeByNeeds(f, g)
  PROVE  \A l \in Needed : f[l] = g[l]
<1> DEFINE rank == [l \in Needed |-> Cardinality(Reach(l))]
           B == Cardinality(Loc)
           T == {n \in Nat : \A l \in Needed : rank[l] < n => f[l] = g[l]}
<1>0. B \in Nat /\ \A l \in Needed : rank[l] \in 0 .. B /\
                      \A k \in Needs[l] : k \in Needed /\ rank[k] < rank[l]
  BY RankFacts
<1> HIDE DEF rank, B
<1>1. 0 \in T
  BY <1>0
<1>2. ASSUME NEW n \in T PROVE n + 1 \in T
  <2> SUFFICES ASSUME NEW l \in Needed, rank[l] < n + 1 PROVE f[l] = g[l]
    OBVIOUS
  <2>1. \A k \in Needs[l] : k \in Needed /\ rank[k] < n
    BY <1>0
  <2>2. \A k \in Needs[l] : f[k] = g[k]
    BY <2>1
  <2> QED
    BY <2>2 DEF AgreeByNeeds
<1>3. T = Nat
  <2>1. T \in SUBSET Nat
    OBVIOUS
  <2> HIDE DEF T
  <2> QED
    BY <1>1, <1>2, <2>1, SetInduction
<1>4. B + 1 \in T
  <2> HIDE DEF T
  <2> QED
    BY <1>0, <1>3
<1>5. \A l \in Needed : rank[l] < B + 1
  BY <1>0
<1> QED
  BY <1>4, <1>5

(* Without a cycle the two rules have solutions, and Calls and RefDepth    *)
(* are what they give the root.                                            *)
LEMMA RulesHaveSolutions ==
  ASSUME TypeOK, ~Cyclic
  PROVE  /\ \E calls : CountsCalls(calls) /\ Calls = calls[Root]
         /\ \E depth : MeasuresDepth(depth) /\ RefDepth = depth[Root]
<1>1. \E calls : CountsCalls(calls) /\ Calls = calls[Root]
  <2> DEFINE F == [f \in [Needed -> Nat] |-> [l \in Needed |-> CallsAt(f, l)]]
  <2>1. \A f \in [Needed -> Nat] : \A l \in Needed : F[f][l] = CallsAt(f, l)
    OBVIOUS
  <2> HIDE DEF F
  <2>2. ReadsNeeds(F)
    BY <2>1, CallsRule DEF ReadsNeeds
  <2>3. PICK f \in [Needed -> Nat] : SolvedBy(F, f)
    BY <2>2, RecursionExists
  <2>4. f = [l \in Needed |-> CallsAt(f, l)] /\ \A l \in Needed : f[l] = CallsAt(f, l)
    <3>1. \A l \in Needed : f[l] = CallsAt(f, l)
      BY <2>1, <2>3 DEF SolvedBy
    <3>2. f = [l \in Needed |-> f[l]]
      OBVIOUS
    <3> QED
      BY <3>1, <3>2
  <2> DEFINE g == CHOOSE calls : calls = [l \in Needed |-> CallsAt(calls, l)]
  <2>5. g = [l \in Needed |-> CallsAt(g, l)]
    <3>1. \E x : x = [l \in Needed |-> CallsAt(x, l)]
      BY <2>4
    <3> QED
      BY <3>1
  <2>6. Calls = g[Root]
    BY DEF Calls, CallsAt
  <2> HIDE DEF g
  <2>7. \A l \in Needed : g[l] = CallsAt(g, l)
    BY <2>5
  <2>8. AgreeByNeeds(f, g)
    <3> SUFFICES ASSUME NEW l \in Needed, \A k \in Needs[l] : f[k] = g[k] PROVE f[l] = g[l]
      BY DEF AgreeByNeeds
    <3>1. CallsAt(f, l) = CallsAt(g, l)
      BY CallsRule
    <3> QED
      BY <2>4, <2>7, <3>1
  <2>9. \A l \in Needed : f[l] = g[l]
    BY <2>8, EqualByNeeds
  <2>10. CountsCalls(f) /\ Calls = f[Root]
    BY <2>4, <2>6, <2>9, NeededIsLeast DEF CountsCalls
  <2> QED
    BY <2>10
<1>2. \E depth : MeasuresDepth(depth) /\ RefDepth = depth[Root]
  <2> DEFINE F == [f \in [Needed -> Nat] |-> [l \in Needed |-> DepthAt(f, l)]]
  <2>1. \A f \in [Needed -> Nat] : \A l \in Needed : F[f][l] = DepthAt(f, l)
    OBVIOUS
  <2> HIDE DEF F
  <2>2. ReadsNeeds(F)
    BY <2>1, DepthRule DEF ReadsNeeds
  <2>3. PICK f \in [Needed -> Nat] : SolvedBy(F, f)
    BY <2>2, RecursionExists
  <2>4. f = [l \in Needed |-> DepthAt(f, l)] /\ \A l \in Needed : f[l] = DepthAt(f, l)
    <3>1. \A l \in Needed : f[l] = DepthAt(f, l)
      BY <2>1, <2>3 DEF SolvedBy
    <3>2. f = [l \in Needed |-> f[l]]
      OBVIOUS
    <3> QED
      BY <3>1, <3>2
  <2> DEFINE g == CHOOSE depth : depth = [l \in Needed |-> DepthAt(depth, l)]
  <2>5. g = [l \in Needed |-> DepthAt(g, l)]
    <3>1. \E x : x = [l \in Needed |-> DepthAt(x, l)]
      BY <2>4
    <3> QED
      BY <3>1
  <2>6. RefDepth = g[Root]
    BY DEF RefDepth, DepthAt, DepthsBelow
  <2> HIDE DEF g
  <2>7. \A l \in Needed : g[l] = DepthAt(g, l)
    BY <2>5
  <2>8. AgreeByNeeds(f, g)
    <3> SUFFICES ASSUME NEW l \in Needed, \A k \in Needs[l] : f[k] = g[k] PROVE f[l] = g[l]
      BY DEF AgreeByNeeds
    <3>1. DepthAt(f, l) = DepthAt(g, l)
      BY DepthRule
    <3> QED
      BY <2>4, <2>7, <3>1
  <2>9. \A l \in Needed : f[l] = g[l]
    BY <2>8, EqualByNeeds
  <2>10. MeasuresDepth(f) /\ RefDepth = f[Root]
    BY <2>4, <2>6, <2>9, NeededIsLeast DEF MeasuresDepth
  <2> QED
    BY <2>10
<1> QED
  BY <1>1, <1>2

-----------------------------------------------------------------------------
(* What the rules say of each kind of position.                            *)
LEMMA CallsFacts ==
  ASSUME TypeOK, NEW calls, CountsCalls(calls), NEW l \in Needed
  PROVE  /\ calls[l] \in Nat /\ calls[l] >= 1
         /\ body(l).kind # "object" => calls[l] = 1
         /\ body(l).kind = "object" =>
              /\ SumOver(LoweredKids(l), calls) \in Nat
              /\ RefTargets(l) = {} => calls[l] = 1 + SumOver(LoweredKids(l), calls)
              /\ \A t : RefTargets(l) = {t} =>
                   /\ calls[t] \in Nat
                   /\ calls[l] = 1 + SumOver(LoweredKids(l), calls) + calls[t]
<1>1. calls \in [Needed -> Nat] /\ calls[l] = CallsAt(calls, l)
  BY DEF CountsCalls
<1>2. CASE body(l).kind # "object"
  BY <1>1, <1>2 DEF CallsAt
<1>3. CASE body(l).kind = "object"
  <2> DEFINE sum == SumOver(LoweredKids(l), calls)
             rest == IF RefTargets(l) # {} THEN calls[CHOOSE t \in RefTargets(l) : TRUE] ELSE 0
  <2>1. LoweredKids(l) \in Seq(Needed) /\ RefTargets(l) \subseteq Needed
    BY <1>3, NeededParts
  <2>2. sum \in Nat
    BY <1>1, <2>1, SumFacts
  <2>3. calls[l] = 1 + (sum + rest)
    BY <1>1, <1>3 DEF CallsAt
  <2>4. rest \in Nat
    BY <1>1, <2>1
  <2>5. RefTargets(l) = {} => rest = 0
    OBVIOUS
  <2>6. \A t : RefTargets(l) = {t} => rest = calls[t] /\ calls[t] \in Nat
    BY <1>1, <2>1
  <2> HIDE DEF sum, rest
  <2>7. /\ calls[l] \in Nat /\ calls[l] >= 1
        /\ RefTargets(l) = {} => calls[l] = 1 + sum
        /\ \A t : RefTargets(l) = {t} => calls[t] \in Nat /\ calls[l] = 1 + sum + calls[t]
    BY <2>2, <2>3, <2>4, <2>5, <2>6
  <2> QED
    BY <1>3, <2>2, <2>7 DEF sum
<1> QED
  BY <1>2, <1>3

(* The same of the depth.                                                  *)
LEMMA DepthFacts ==
  ASSUME TypeOK, NEW depth, MeasuresDepth(depth), NEW l \in Needed
  PROVE  /\ depth[l] \in Nat
         /\ body(l).kind # "object" => depth[l] = 0
         /\ body(l).kind = "object" =>
              /\ \A k \in Needs[l] : k \in Needed /\ depth[k] \in Nat /\ depth[k] <= depth[l]
              /\ \A t \in RefTargets(l) : 1 + depth[t] <= depth[l]
              /\ body(l).ref.form \in {"pointer", "anchor"} => 1 <= depth[l]
              /\ \/ depth[l] = 0
                 \/ \E k \in Elements(LoweredKids(l)) : depth[l] = depth[k]
                 \/ \E t \in RefTargets(l) : depth[l] = 1 + depth[t]
                 \/ body(l).ref.form \in {"pointer", "anchor"} /\ depth[l] = 1
<1>1. depth \in [Needed -> Nat] /\ depth[l] = DepthAt(depth, l)
  BY DEF MeasuresDepth
<1>2. CASE body(l).kind # "object"
  BY <1>1, <1>2, DepthRule
<1>3. CASE body(l).kind = "object"
  <2>1. /\ \A e \in DepthsBelow(depth, l) : e <= depth[l]
        /\ depth[l] = 0 \/ depth[l] \in DepthsBelow(depth, l)
    BY <1>1, <1>3, DepthRule
  <2>2. /\ Needs[l] = RefTargets(l) \cup Elements(LoweredKids(l)) /\ Needs[l] \subseteq Needed
        /\ RefTargets(l) \subseteq Needed
    BY <1>3, NeededParts
  <2>3. \A k \in Elements(LoweredKids(l)) : depth[k] <= depth[l]
    BY <2>1 DEF DepthsBelow
  <2>4. \A t \in RefTargets(l) : 1 + depth[t] <= depth[l]
    BY <2>1 DEF DepthsBelow
  <2>5. body(l).ref.form \in {"pointer", "anchor"} => 1 <= depth[l]
    BY <2>1 DEF DepthsBelow
  <2>6. \A k \in Needs[l] : k \in Needed /\ depth[k] \in Nat /\ depth[k] <= depth[l]
    <3> SUFFICES ASSUME NEW k \in Needs[l]
                 PROVE  k \in Needed /\ depth[k] \in Nat /\ depth[k] <= depth[l]
      OBVIOUS
    <3>1. k \in Needed /\ depth[k] \in Nat /\ depth[l] \in Nat
      BY <1>1, <2>2
    <3>2. k \in Elements(LoweredKids(l)) \/ 1 + depth[k] <= depth[l]
      BY <2>2, <2>4
    <3> QED
      BY <2>3, <3>1, <3>2
  <2>7. \/ depth[l] = 0
        \/ \E k \in Elements(LoweredKids(l)) : depth[l] = depth[k]
        \/ \E t \in RefTargets(l) : depth[l] = 1 + depth[t]
        \/ body(l).ref.form \in {"pointer", "anchor"} /\ depth[l] = 1
    BY <2>1 DEF DepthsBelow
  <2> QED
    BY <1>1, <1>3, <2>4, <2>5, <2>6, <2>7
<1> QED
  BY <1>2, <1>3

(* While positions are lowered, the registry leads a `$ref' where the      *)
(* document does.                                                          *)
LEMMA RefLeadsTo ==
  ASSUME TypeOK, AnchorsExact, pc \in {"lower_schema", "lower_local_ref", "return"},
         NEW l \in Loc
  PROVE  /\ body(l).ref = NoRef => RefTargets(l) = {}
         /\ body(l).ref # NoRef /\ body(l).ref.form # "external" =>
              /\ body(l).ref.form \in {"pointer", "anchor"}
              /\ RefTargets(l) = {Target(body(l).ref)} \ {NoLoc}
<1>1. body(l).ref \in Ref \cup {NoRef}
  BY BodyType
<1>2. CASE body(l).ref = NoRef
  BY <1>2 DEF RefTargets, NoRef
<1>3. CASE body(l).ref # NoRef /\ body(l).ref.form # "external"
  <2>1. body(l).ref.form \in {"pointer", "anchor"}
    BY <1>1, <1>3 DEF Ref
  <2>2. body(l).ref.form = "anchor" => body(l).ref.to \in Name
    BY <1>1, <1>3 DEF Ref
  <2>3. \A n \in Name : Anchored(n) = {anchors[n]} \ {NoLoc}
    BY DEF AnchorsExact
  <2>4. RefTargets(l) = {Target(body(l).ref)} \ {NoLoc}
    BY <2>1, <2>2, <2>3 DEF RefTargets, Target
  <2> QED
    BY <1>3, <2>1, <2>4
<1> QED
  BY <1>2, <1>3

-----------------------------------------------------------------------------
(* The sub-schemas that an open call has still to lower.                   *)
Pending(f) == IF f.ref = NoRef THEN f.todo ELSE LoweredKids(f.at)

(* What the i-th of the calls s is lowering, if anything: c holds what the *)
(* innermost is; the 0-th call is compile_value's.                         *)
Inside(s, c, i) == IF i < Len(s) THEN {s[i + 1].at} ELSE c

(* What is lowered for good: positions an IR node can stand for, on no     *)
(* cycle, with all that they need.                                         *)
Sound(D) ==
  /\ D \subseteq Needed
  /\ \A l \in D : Needs[l] \subseteq D /\ ~Unsound(l) /\ l \notin Closure(Needs[l], Needs)

(* An open call: f, with c being lowered inside it and D lowered for good. *)
OpenCall(f, c, D) ==
  /\ f.at \in Needed /\ body(f.at).kind = "object" /\ ~Unsound(f.at)
  /\ f.ref # NoRef => f.ref = body(f.at).ref /\ \A l \in c : l = Target(f.ref)
  /\ c \subseteq Needs[f.at]
  /\ Elements(Pending(f)) \subseteq Elements(LoweredKids(f.at))
  /\ Needs[f.at] \subseteq D \cup c \cup Elements(Pending(f))

Open(D, s, c) ==
  /\ Sound(D)
  /\ Inside(s, c, 0) \subseteq {Root}
  /\ {Root} \subseteq D \cup Inside(s, c, 0)
  /\ \A i \in 1 .. Len(s) : OpenCall(s[i], Inside(s, c, i), D)

(* x lower_schema calls are still to be made for what s has pending.       *)
Left(calls, s, x) ==
  \E left \in [0 .. Len(s) -> Nat] :
    /\ left[0] = 0 /\ left[Len(s)] = x
    /\ \A i \in 1 .. Len(s) : left[i] = left[i - 1] + SumOver(Pending(s[i]), calls)

(* `$ref's nest no deeper than the document's do, and what was lowered so  *)
(* far does not alone make them nest too deep; n of them are open.         *)
Deep(depth, s, c, n) ==
  /\ \A i \in 1 .. Len(s) : s[i].depth + depth[s[i].at] <= depth[Root]
  /\ \A p \in c : n + depth[p] <= depth[Root]
  /\ depth[Root] > MaxDepth =>
       \/ \E p \in c : n + depth[p] > MaxDepth
       \/ \E i \in 1 .. Len(s) : \E k \in Elements(Pending(s[i])) : s[i].depth + depth[k] > MaxDepth

(* One more position is lowered for good.                                  *)
LEMMA SoundGrows ==
  ASSUME TypeOK, NEW D, Sound(D), NEW p \in Needed, Needs[p] \subseteq D, ~Unsound(p)
  PROVE  Sound(D \cup {p})
<1>1. p \in Loc
  BY NeededIsLeast
<1>2. /\ D \subseteq Needed
      /\ \A l \in D : Needs[l] \subseteq D /\ ~Unsound(l) /\ l \notin Reach(l)
  BY DEF Sound, Reach
<1>3. p \notin D => p \notin Reach(p)
  BY <1>1, <1>2, NeededIsLeast
<1>4. \A l \in D \cup {p} : Needs[l] \subseteq D \cup {p} /\ ~Unsound(l) /\ l \notin Reach(l)
  BY <1>2, <1>3
<1> QED
  BY <1>2, <1>4 DEF Sound, Reach

(* A call stays open when more is lowered for good.                        *)
LEMMA OpenCallGrows ==
  ASSUME NEW f, NEW c, NEW d, NEW D, NEW E, OpenCall(f, c, D),
         D \subseteq E, d \subseteq c, c \subseteq E \cup d
  PROVE  OpenCall(f, d, E)
BY DEF OpenCall

(* lower_schema(p) returns: p is lowered for good.                         *)
LEMMA OpenFinish ==
  ASSUME TypeOK, NEW D, NEW s \in Seq(Frame), NEW p \in Needed, Open(D, s, {p}),
         Needs[p] \subseteq D, ~Unsound(p)
  PROVE  Open(D \cup {p}, s, {})
<1> DEFINE E == D \cup {p}
<1>1. Len(s) \in Nat
  BY LenProperties
<1>2. Sound(E)
  BY SoundGrows DEF Open
<1>3. \A i \in 0 .. Len(s) : /\ Inside(s, {}, i) \subseteq Inside(s, {p}, i)
                            /\ Inside(s, {p}, i) \subseteq E \cup Inside(s, {}, i)
  BY <1>1 DEF Inside
<1>4. 0 \in 0 .. Len(s) /\ \A i \in 1 .. Len(s) : i \in 0 .. Len(s)
  BY <1>1
<1>5. /\ Inside(s, {p}, 0) \subseteq {Root} /\ {Root} \subseteq D \cup Inside(s, {p}, 0)
      /\ \A i \in 1 .. Len(s) : OpenCall(s[i], Inside(s, {p}, i), D)
  BY DEF Open
<1>6. D \subseteq E
  OBVIOUS
<1> HIDE DEF E
<1>7. \A i \in 1 .. Len(s) : OpenCall(s[i], Inside(s, {}, i), E)
  BY <1>3, <1>4, <1>5, <1>6, OpenCallGrows
<1>8. Inside(s, {}, 0) \subseteq {Root} /\ {Root} \subseteq E \cup Inside(s, {}, 0)
  BY <1>3, <1>4, <1>5, <1>6
<1> QED
  BY <1>2, <1>7, <1>8 DEF Open, E

(* lower_schema opens a call, with c being lowered inside it.              *)
LEMMA OpenPush ==
  ASSUME NEW D, NEW s \in Seq(Frame), NEW f \in Frame, NEW c,
         Open(D, s, {f.at}), OpenCall(f, c, D)
  PROVE  Open(D, Append(s, f), c)
<1> DEFINE t == Append(s, f)
           n == Len(s)
<1>1. n \in Nat /\ Len(t) = n + 1 /\ t[n + 1] = f /\ \A i \in 1 .. n : t[i] = s[i]
  BY AppendFacts, LenProperties
<1> HIDE DEF t, n
<1>2. ASSUME NEW i \in 0 .. n PROVE Inside(t, c, i) = Inside(s, {f.at}, i)
  <2>1. i < Len(t) /\ (i < n \/ i = n)
    BY <1>1
  <2>2. CASE i < n
    <3>1. i + 1 \in 1 .. n
      BY <1>1, <2>2
    <3> QED
      BY <1>1, <2>1, <2>2, <3>1 DEF Inside, n
  <2>3. CASE i = n
    BY <1>1, <2>1, <2>3 DEF Inside, n
  <2> QED
    BY <2>1, <2>2, <2>3
<1>3. Inside(t, c, n + 1) = c
  BY <1>1 DEF Inside
<1>4. ASSUME NEW i \in 1 .. n + 1 PROVE OpenCall(t[i], Inside(t, c, i), D)
  <2>1. CASE i = n + 1
    BY <1>1, <1>3, <2>1
  <2>2. CASE i \in 1 .. n
    <3>1. i \in 0 .. n
      BY <1>1, <2>2
    <3> QED
      BY <1>1, <1>2, <2>2, <3>1 DEF Open, n
  <2> QED
    BY <1>1, <2>1, <2>2
<1>5. Inside(t, c, 0) = Inside(s, {f.at}, 0)
  <2>1. 0 \in 0 .. n
    BY <1>1
  <2> QED
    BY <1>2, <2>1
<1> QED
  BY <1>1, <1>4, <1>5 DEF Open, t

(* The innermost call is set aside.                                        *)
LEMMA OpenPop ==
  ASSUME NEW D, NEW s \in Seq(Frame), s # <<>>, Open(D, s, {})
  PROVE  Open(D, Front(s), {Last(s).at}) /\ OpenCall(Last(s), {}, D)
<1> DEFINE t == Front(s)
           n == Len(s)
           c == {Last(s).at}
<1>1. /\ n \in Nat /\ n >= 1 /\ Len(t) = n - 1
      /\ \A i \in 1 .. n - 1 : t[i] = s[i]
  BY FrontProperties, LenProperties, EmptySeq
<1>2. OpenCall(Last(s), {}, D)
  <2>1. Inside(s, {}, n) = {} /\ n \in 1 .. Len(s)
    BY <1>1 DEF Inside
  <2> QED
    BY <2>1 DEF Open, Last
<1> HIDE DEF t, n
<1>3. ASSUME NEW i \in 0 .. n - 1 PROVE Inside(t, c, i) = Inside(s, {}, i)
  <2>1. i < n /\ (i < n - 1 \/ i = n - 1)
    BY <1>1
  <2>2. CASE i < n - 1
    <3>1. i + 1 \in 1 .. n - 1
      BY <1>1, <2>2
    <3> QED
      BY <1>1, <2>1, <2>2, <3>1 DEF Inside, n
  <2>3. CASE i = n - 1
    <3>1. i + 1 = n
      BY <1>1, <2>3
    <3> QED
      BY <1>1, <2>1, <2>3, <3>1 DEF Inside, Last, n
  <2> QED
    BY <2>1, <2>2, <2>3
<1>4. ASSUME NEW i \in 1 .. n - 1 PROVE OpenCall(t[i], Inside(t, c, i), D)
  <2>1. i \in 0 .. n - 1 /\ i \in 1 .. n
    BY <1>1
  <2> QED
    BY <1>1, <1>3, <2>1 DEF Open, n
<1>5. Inside(t, c, 0) = Inside(s, {}, 0)
  <2>1. 0 \in 0 .. n - 1
    BY <1>1
  <2> QED
    BY <1>3, <2>1
<1> QED
  BY <1>1, <1>2, <1>4, <1>5 DEF Open, t

(* The two moves, on the count of the calls still to be made.              *)
LEMMA LeftMoves ==
  ASSUME NEW calls, NEW s \in Seq(Frame), NEW x, Left(calls, s, x)
  PROVE  /\ x \in Nat
         /\ s = <<>> => x = 0
         /\ \A f \in Frame : SumOver(Pending(f), calls) \in Nat
              => Left(calls, Append(s, f), x + SumOver(Pending(f), calls))
         /\ s # <<>> => \E y \in Nat : /\ Left(calls, Front(s), y)
                                      /\ x = y + SumOver(Pending(Last(s)), calls)
<1> DEFINE n == Len(s)
           sum(f) == SumOver(Pending(f), calls)
<1>1. n \in Nat
  BY LenProperties
<1>2. PICK left \in [0 .. n -> Nat] :
        /\ left[0] = 0 /\ left[n] = x
        /\ \A i \in 1 .. n : left[i] = left[i - 1] + sum(s[i])
  BY DEF Left
<1> HIDE DEF sum
<1>3. x \in Nat
  BY <1>1, <1>2
<1>4. s = <<>> => x = 0
  BY <1>2
<1>5. ASSUME NEW f \in Frame, sum(f) \in Nat PROVE Left(calls, Append(s, f), x + sum(f))
  <2> DEFINE t == Append(s, f)
             m == [i \in 0 .. n + 1 |-> IF i = n + 1 THEN x + sum(f) ELSE left[i]]
  <2>1. Len(t) = n + 1 /\ t[n + 1] = f /\ \A i \in 1 .. n : t[i] = s[i]
    BY <1>1, AppendFacts
  <2> HIDE DEF t, n
  <2>2. m \in [0 .. n + 1 -> Nat]
    BY <1>1, <1>2, <1>3, <1>5
  <2>3. m[0] = 0 /\ m[n + 1] = x + sum(f) /\ m[n] = x
    BY <1>1, <1>2
  <2>4. ASSUME NEW i \in 1 .. n + 1 PROVE m[i] = m[i - 1] + sum(t[i])
    <3>1. CASE i = n + 1
      <4>1. i - 1 = n
        BY <1>1, <3>1
      <4> HIDE DEF m
      <4> QED
        BY <2>1, <2>3, <3>1, <4>1
    <3>2. CASE i \in 1 .. n
      <4>1. m[i] = left[i] /\ m[i - 1] = left[i - 1]
        BY <1>1, <3>2
      <4> HIDE DEF m
      <4> QED
        BY <1>2, <2>1, <3>2, <4>1
    <3> QED
      BY <1>1, <3>1, <3>2
  <2> HIDE DEF m
  <2>5. Left(calls, t, x + sum(f))
    BY <2>1, <2>2, <2>3, <2>4 DEF Left, sum
  <2> QED
    BY <2>5 DEF t
<1>6. ASSUME s # <<>>
      PROVE  \E y \in Nat : Left(calls, Front(s), y) /\ x = y + sum(Last(s))
  <2> DEFINE t == Front(s)
             m == [i \in 0 .. n - 1 |-> left[i]]
  <2>1. n >= 1 /\ Len(t) = n - 1 /\ \A i \in 1 .. n - 1 : t[i] = s[i]
    BY <1>1, <1>6, FrontProperties, EmptySeq
  <2> HIDE DEF t, n
  <2>2. m \in [0 .. n - 1 -> Nat] /\ m[0] = 0 /\ m[n - 1] = left[n - 1] /\ left[n - 1] \in Nat
    BY <1>1, <1>2, <2>1
  <2>3. ASSUME NEW i \in 1 .. n - 1 PROVE m[i] = m[i - 1] + sum(t[i])
    <3>1. m[i] = left[i] /\ m[i - 1] = left[i - 1]
      BY <1>1
    <3>2. i \in 1 .. n
      BY <1>1
    <3> HIDE DEF m
    <3> QED
      BY <1>2, <2>1, <3>1, <3>2
  <2> HIDE DEF m
  <2>4. Left(calls, t, left[n - 1])
    BY <2>1, <2>2, <2>3 DEF Left, sum
  <2>5. x = left[n - 1] + sum(Last(s))
    <3>1. n \in 1 .. n
      BY <1>1, <2>1
    <3> QED
      BY <1>2, <3>1 DEF Last, n
  <2> QED
    BY <2>2, <2>4, <2>5 DEF t
<1> QED
  BY <1>3, <1>4, <1>5, <1>6 DEF sum

(* The moves, on the depths.                                               *)
LEMMA DeepPush ==
  ASSUME NEW depth, NEW s \in Seq(Frame), NEW f \in Frame, NEW c, NEW n,
         Deep(depth, s, {f.at}, f.depth),
         \A p \in c : n + depth[p] <= depth[Root],
         f.depth + depth[f.at] > MaxDepth =>
           \/ \E p \in c : n + depth[p] > MaxDepth
           \/ \E k \in Elements(Pending(f)) : f.depth + depth[k] > MaxDepth
  PROVE  Deep(depth, Append(s, f), c, n)
<1> DEFINE t == Append(s, f)
           m == Len(s)
<1>1. m \in Nat /\ Len(t) = m + 1 /\ t[m + 1] = f /\ \A i \in 1 .. m : t[i] = s[i]
  BY AppendFacts, LenProperties
<1> HIDE DEF t, m
<1>2. \A i \in 1 .. m : i \in 1 .. m + 1
  BY <1>1
<1>3. m + 1 \in 1 .. m + 1 /\ \A i \in 1 .. m + 1 : i \in 1 .. m \/ i = m + 1
  BY <1>1
<1>4. ASSUME NEW i \in 1 .. m + 1 PROVE t[i].depth + depth[t[i].at] <= depth[Root]
  BY <1>1, <1>3 DEF Deep, m
<1>5. ASSUME depth[Root] > MaxDepth
      PROVE  \/ \E p \in c : n + depth[p] > MaxDepth
             \/ \E i \in 1 .. m + 1 : \E k \in Elements(Pending(t[i])) :
                  t[i].depth + depth[k] > MaxDepth
  <2>1. CASE f.depth + depth[f.at] > MaxDepth
    BY <1>1, <1>3, <2>1
  <2>2. CASE \E i \in 1 .. m : \E k \in Elements(Pending(s[i])) : s[i].depth + depth[k] > MaxDepth
    BY <1>1, <1>2, <2>2
  <2> QED
    BY <1>5, <2>1, <2>2 DEF Deep, m
<1> QED
  BY <1>1, <1>4, <1>5 DEF Deep, t

(* lower_schema(p) returns; it did not nest `$ref's too deep.              *)
LEMMA DeepFinish ==
  ASSUME NEW depth, NEW s, NEW p, NEW n, NEW m, Deep(depth, s, {p}, n), ~(n + depth[p] > MaxDepth)
  PROVE  Deep(depth, s, {}, m)
BY DEF Deep

(* The innermost call returns with nothing pending, or goes on: as g, with *)
(* c inside it, and all that was pending still pending or in c.            *)
LEMMA DeepReplace ==
  ASSUME NEW depth, NEW s \in Seq(Frame), s # <<>>, NEW m, Deep(depth, s, {}, m), NEW n
  PROVE  /\ Pending(Last(s)) = <<>> => Deep(depth, Front(s), {}, n)
         /\ Last(s).depth + depth[Last(s).at] <= depth[Root]
         /\ \A g \in Frame : \A c :
              /\ g.at = Last(s).at /\ g.depth = Last(s).depth
              /\ \A p \in c : n + depth[p] <= depth[Root]
              /\ \A k \in Elements(Pending(Last(s))) :
                   k \in Elements(Pending(g)) \/ (k \in c /\ n = g.depth)
              => Deep(depth, Append(Front(s), g), c, n)
<1> DEFINE t == Front(s)
           h == Len(s)
<1>1. /\ h \in Nat /\ h >= 1 /\ Len(t) = h - 1 /\ t \in Seq(Frame)
      /\ \A i \in 1 .. h - 1 : t[i] = s[i]
  BY FrontProperties, LenProperties, EmptySeq
<1> HIDE DEF t, h
<1>2. /\ h \in 1 .. h /\ Last(s) = s[h]
      /\ \A i \in 1 .. h : i \in 1 .. h - 1 \/ i = h
      /\ \A i \in 1 .. h - 1 : i \in 1 .. h
  BY <1>1 DEF Last, h
<1>3. /\ \A i \in 1 .. h : s[i].depth + depth[s[i].at] <= depth[Root]
      /\ depth[Root] > MaxDepth =>
           \E i \in 1 .. h : \E k \in Elements(Pending(s[i])) : s[i].depth + depth[k] > MaxDepth
  BY DEF Deep, h
<1>4. ASSUME Pending(Last(s)) = <<>> PROVE Deep(depth, t, {}, n)
  <2>1. Elements(Pending(s[h])) = {}
    BY <1>2, <1>4 DEF Elements
  <2>2. depth[Root] > MaxDepth =>
          \E i \in 1 .. h - 1 : \E k \in Elements(Pending(t[i])) : t[i].depth + depth[k] > MaxDepth
    BY <1>1, <1>2, <1>3, <2>1
  <2>3. \A i \in 1 .. h - 1 : t[i].depth + depth[t[i].at] <= depth[Root]
    BY <1>1, <1>2, <1>3
  <2> QED
    BY <1>1, <2>2, <2>3 DEF Deep
<1>5. ASSUME NEW g \in Frame, NEW c, g.at = Last(s).at, g.depth = Last(s).depth,
             \A p \in c : n + depth[p] <= depth[Root],
             \A k \in Elements(Pending(Last(s))) :
               k \in Elements(Pending(g)) \/ (k \in c /\ n = g.depth)
      PROVE  Deep(depth, Append(t, g), c, n)
  <2> DEFINE u == Append(t, g)
  <2>1. Len(u) = h /\ u[h] = g /\ \A i \in 1 .. h - 1 : u[i] = s[i]
    <3>1. Len(u) = h - 1 + 1 /\ u[h - 1 + 1] = g /\ \A i \in 1 .. h - 1 : u[i] = t[i]
      BY <1>1, AppendFacts
    <3>2. h - 1 + 1 = h
      BY <1>1
    <3> HIDE DEF u
    <3> QED
      BY <1>1, <3>1, <3>2
  <2> HIDE DEF u
  <2>2. \A i \in 1 .. h : u[i].depth + depth[u[i].at] <= depth[Root]
    BY <1>2, <1>3, <1>5, <2>1
  <2>3. ASSUME depth[Root] > MaxDepth
        PROVE  \/ \E p \in c : n + depth[p] > MaxDepth
               \/ \E i \in 1 .. h : \E k \in Elements(Pending(u[i])) :
                    u[i].depth + depth[k] > MaxDepth
    <3>1. PICK i \in 1 .. h : \E k \in Elements(Pending(s[i])) : s[i].depth + depth[k] > MaxDepth
      BY <1>3, <2>3
    <3>2. CASE i \in 1 .. h - 1
      BY <1>2, <2>1, <3>1, <3>2
    <3>3. CASE i = h
      BY <1>2, <1>5, <2>1, <3>1, <3>3
    <3> QED
      BY <1>2, <3>2, <3>3
  <2> QED
    BY <1>5, <2>1, <2>2, <2>3 DEF Deep, u
<1> QED
  BY <1>2, <1>3, <1>4, <1>5 DEF t

-----------------------------------------------------------------------------
(* The lowering under way: s are the open calls, c what is being lowered   *)
(* inside the innermost, k the calls counted, n the `$ref's being lowered. *)
Progress(s, c, k, n) ==
  /\ c \subseteq Needed
  /\ \E D \in SUBSET Loc : Open(D, s, c)
  /\ \A calls : CountsCalls(calls) =>
       \E x \in Nat : /\ Left(calls, s, x)
                      /\ c = {} => k + x = calls[Root]
                      /\ \A p \in c : k + x + calls[p] = calls[Root]
  /\ \A depth : MeasuresDepth(depth) => Deep(depth, s, c, n)

(* What an open call has pending is needed.                                *)
LEMMA PendingNeeded ==
  ASSUME TypeOK, NEW f \in Frame, NEW c, NEW D, OpenCall(f, c, D)
  PROVE  /\ Pending(f) \in Seq(Needed) /\ Elements(Pending(f)) \subseteq Needs[f.at]
         /\ f.at \in Needed /\ Needs[f.at] \subseteq Needed
<1>1. /\ f.at \in Needed /\ body(f.at).kind = "object"
      /\ Elements(Pending(f)) \subseteq Elements(LoweredKids(f.at))
  BY DEF OpenCall
<1>2. /\ LoweredKids(f.at) \in Seq(Needed) /\ Elements(LoweredKids(f.at)) \subseteq Needs[f.at]
      /\ Needs[f.at] \subseteq Needed
  BY <1>1, NeededParts
<1>3. Pending(f) \in Seq(Needed)
  <2>1. CASE f.ref # NoRef
    BY <1>2, <2>1 DEF Pending
  <2>2. CASE f.ref = NoRef
    <3>1. f.todo \in Seq(Loc) /\ Elements(f.todo) \subseteq Needed
      BY <1>1, <1>2, <2>2 DEF Pending, Frame
    <3> QED
      BY <2>2, <3>1, SeqWithin DEF Pending
  <2> QED
    BY <2>1, <2>2
<1> QED
  BY <1>1, <1>2, <1>3

(* LowerBoolean: a boolean schema is lowered for good at once.             *)
LEMMA ProgressBoolean ==
  ASSUME TypeOK, NEW s \in Seq(Frame), NEW p, NEW k \in Nat, NEW n \in Nat,
         Progress(s, {p}, k, n), body(p).kind = "boolean", n <= MaxDepth
  PROVE  Progress(s, {}, k + 1, n)
<1>1. p \in Needed /\ p \in Loc
  BY NeededIsLeast DEF Progress
<1>2. Needs[p] = {} /\ ~Unsound(p)
  BY <1>1 DEF Needs, Unsound
<1>3. PICK D \in SUBSET Loc : Open(D, s, {p})
  BY DEF Progress
<1>4. Open(D \cup {p}, s, {}) /\ D \cup {p} \in SUBSET Loc
  BY <1>1, <1>2, <1>3, OpenFinish
<1>5. ASSUME NEW calls, CountsCalls(calls)
      PROVE  \E x \in Nat : Left(calls, s, x) /\ k + 1 + x = calls[Root]
  <2>1. PICK x \in Nat : Left(calls, s, x) /\ k + x + calls[p] = calls[Root]
    BY <1>5 DEF Progress
  <2>2. calls[p] = 1
    BY <1>1, <1>5, CallsFacts
  <2>3. k + 1 + x = calls[Root]
    BY <2>1, <2>2
  <2> QED
    BY <2>1, <2>3
<1>6. ASSUME NEW depth, MeasuresDepth(depth) PROVE Deep(depth, s, {}, n)
  <2>1. depth[p] = 0
    BY <1>1, <1>6, DepthFacts
  <2>2. ~(n + depth[p] > MaxDepth)
    BY <2>1, LoweringAssumption
  <2>3. Deep(depth, s, {p}, n)
    BY <1>6 DEF Progress
  <2> QED
    BY <2>2, <2>3, DeepFinish
<1> QED
  BY <1>4, <1>5, <1>6 DEF Progress

(* LowerObject without `$ref': the keywords call takes over its pending.   *)
LEMMA ProgressKeywords ==
  ASSUME TypeOK, AnchorsExact, pc \in {"lower_schema", "lower_local_ref", "return"},
         NEW s \in Seq(Frame), NEW p, NEW k \in Nat, NEW n \in Nat,
         Progress(s, {p}, k, n), n <= MaxDepth,
         body(p).kind = "object", ~body(p).unsupported, body(p).ref = NoRef
  PROVE  Progress(Append(s, KeywordsCall(p, n)), {}, k + 1, n)
<1> DEFINE f == KeywordsCall(p, n)
<1>1. p \in Needed /\ p \in Loc
  BY NeededIsLeast DEF Progress
<1>2. /\ f \in Frame /\ f.at = p /\ f.ref = NoRef /\ f.depth = n
      /\ Pending(f) = LoweredKids(p)
  BY <1>1, BodyType DEF KeywordsCall, Pending, LoweredKids
<1> HIDE DEF f
<1>3. /\ RefTargets(p) = {} /\ Needs[p] = Elements(LoweredKids(p))
      /\ body(p).ref.form \notin {"pointer", "anchor"}
  <2>1. RefTargets(p) = {}
    BY <1>1, RefLeadsTo
  <2>2. Needs[p] = {} \cup Elements(LoweredKids(p))
    BY <1>1, <2>1, NeededParts
  <2>3. body(p).ref.form \notin {"pointer", "anchor"}
    BY DEF NoRef
  <2> QED
    BY <2>1, <2>2, <2>3
<1>4. ~Unsound(p)
  BY DEF Unsound
<1>5. PICK D \in SUBSET Loc : Open(D, s, {p})
  BY DEF Progress
<1>6. OpenCall(f, {}, D)
  BY <1>1, <1>2, <1>3, <1>4 DEF OpenCall
<1>7. Open(D, Append(s, f), {})
  BY <1>2, <1>5, <1>6, OpenPush
<1>8. ASSUME NEW calls, CountsCalls(calls)
      PROVE  \E x \in Nat : Left(calls, Append(s, f), x) /\ k + 1 + x = calls[Root]
  <2>1. PICK x \in Nat : Left(calls, s, x) /\ k + x + calls[p] = calls[Root]
    BY <1>8 DEF Progress
  <2> DEFINE y == SumOver(Pending(f), calls)
  <2>2. y \in Nat /\ calls[p] = 1 + y
    BY <1>1, <1>2, <1>3, <1>8, CallsFacts
  <2>3. Left(calls, Append(s, f), x + y)
    BY <1>2, <2>1, <2>2, LeftMoves
  <2> HIDE DEF y
  <2>4. k + 1 + (x + y) = calls[Root] /\ x + y \in Nat
    BY <2>1, <2>2
  <2> QED
    BY <2>3, <2>4
<1>9. ASSUME NEW depth, MeasuresDepth(depth) PROVE Deep(depth, Append(s, f), {}, n)
  <2>1. Deep(depth, s, {f.at}, f.depth)
    BY <1>2, <1>9 DEF Progress
  <2>2. depth[p] = 0 \/ \E j \in Elements(LoweredKids(p)) : depth[p] = depth[j]
    BY <1>1, <1>3, <1>9, DepthFacts
  <2>3. n + depth[p] > MaxDepth => \E j \in Elements(Pending(f)) : n + depth[j] > MaxDepth
    BY <1>2, <2>2, LoweringAssumption
  <2> QED
    BY <1>2, <2>1, <2>3, DeepPush
<1> QED
  BY <1>7, <1>8, <1>9 DEF Progress, f

(* LowerLocalRef: the target is lowered, the siblings stay pending.        *)
LEMMA ProgressRef ==
  ASSUME TypeOK, AnchorsExact, pc \in {"lower_schema", "lower_local_ref", "return"},
         NEW s \in Seq(Frame), NEW p, NEW k \in Nat, NEW n \in Nat,
         Progress(s, {p}, k, n), n < MaxDepth,
         body(p).kind = "object", ~body(p).unsupported,
         body(p).ref # NoRef, body(p).ref.form # "external", Target(body(p).ref) \in Loc
  PROVE  Progress(Append(s, RefCall(p, n)), {Target(body(p).ref)}, k + 1, n + 1)
<1> DEFINE f == RefCall(p, n)
           t == Target(body(p).ref)
<1>1. p \in Needed /\ p \in Loc
  BY NeededIsLeast DEF Progress
<1>2. /\ f \in Frame /\ f.at = p /\ f.ref = body(p).ref /\ f.depth = n
      /\ Pending(f) = LoweredKids(p)
  BY <1>1, BodyType DEF RefCall, Pending
<1> HIDE DEF f
<1>3. /\ RefTargets(p) = {t} /\ Needs[p] = {t} \cup Elements(LoweredKids(p))
      /\ body(p).ref.form \in {"pointer", "anchor"} /\ Needs[p] \subseteq Needed
  BY <1>1, RefLeadsTo, NeededParts, LoweringAssumption
<1> HIDE DEF t
<1>4. ~Unsound(p)
  BY <1>3 DEF Unsound
<1>5. PICK D \in SUBSET Loc : Open(D, s, {p})
  BY DEF Progress
<1>6. OpenCall(f, {t}, D)
  BY <1>1, <1>2, <1>3, <1>4 DEF OpenCall, t
<1>7. Open(D, Append(s, f), {t})
  BY <1>2, <1>5, <1>6, OpenPush
<1>8. ASSUME NEW calls, CountsCalls(calls)
      PROVE  \E x \in Nat : Left(calls, Append(s, f), x) /\ k + 1 + x + calls[t] = calls[Root]
  <2>1. PICK x \in Nat : Left(calls, s, x) /\ k + x + calls[p] = calls[Root]
    BY <1>8 DEF Progress
  <2> DEFINE y == SumOver(Pending(f), calls)
  <2>2. y \in Nat /\ calls[p] = 1 + y + calls[t] /\ calls[t] \in Nat
    BY <1>1, <1>2, <1>3, <1>8, CallsFacts
  <2>3. Left(calls, Append(s, f), x + y)
    BY <1>2, <2>1, <2>2, LeftMoves
  <2> HIDE DEF y
  <2>4. k + 1 + (x + y) + calls[t] = calls[Root] /\ x + y \in Nat
    BY <2>1, <2>2
  <2> QED
    BY <2>3, <2>4
<1>9. ASSUME NEW depth, MeasuresDepth(depth) PROVE Deep(depth, Append(s, f), {t}, n + 1)
  <2>1. Deep(depth, s, {f.at}, f.depth)
    BY <1>2, <1>9 DEF Progress
  <2>2. /\ depth[p] \in Nat /\ 1 + depth[t] <= depth[p] /\ depth[t] \in Nat
        /\ \/ depth[p] = 0
           \/ \E j \in Elements(LoweredKids(p)) : depth[p] = depth[j]
           \/ depth[p] = 1 + depth[t]
           \/ depth[p] = 1
    BY <1>1, <1>3, <1>9, DepthFacts
  <2>3. n + depth[p] > MaxDepth =>
          \/ n + 1 + depth[t] > MaxDepth
          \/ \E j \in Elements(Pending(f)) : n + depth[j] > MaxDepth
    BY <1>2, <2>2, LoweringAssumption
  <2>4. n + 1 + depth[t] <= depth[Root]
    <3>1. n + depth[p] <= depth[Root]
      BY <1>2, <2>1 DEF Deep
    <3>2. depth[Root] \in Nat
      BY <1>9, NeededIsLeast, DepthFacts
    <3> QED
      BY <2>2, <3>1, <3>2
  <2> QED
    BY <1>2, <2>1, <2>3, <2>4, DeepPush
<1> QED
  BY <1>3, <1>7, <1>8, <1>9 DEF Progress, f, t

(* ReturnFromRef with siblings: the keywords call goes on with them.       *)
LEMMA ProgressSiblings ==
  ASSUME TypeOK, NEW s \in Seq(Frame), s # <<>>, NEW k \in Nat, NEW m, NEW n \in Nat,
         Progress(s, {}, k, m), n = Last(s).depth,
         Last(s).ref # NoRef, body(Last(s).at).siblings
  PROVE  Progress(Append(Front(s), KeywordsCall(Last(s).at, n)), {}, k, n)
<1> DEFINE l == Last(s)
           f == KeywordsCall(l.at, n)
           t == Front(s)
<1>1. l \in Frame /\ t \in Seq(Frame) /\ l.at \in Loc
  <2>1. l \in Frame /\ t \in Seq(Frame)
    BY FrontProperties
  <2> QED
    BY <2>1 DEF Frame
<1>2. /\ f \in Frame /\ f.at = l.at /\ f.ref = NoRef /\ f.depth = l.depth
      /\ Pending(f) = Pending(l)
  BY <1>1, BodyType DEF KeywordsCall, Pending, LoweredKids
<1> HIDE DEF f, t, l
<1>3. PICK D \in SUBSET Loc : Open(D, s, {})
  BY DEF Progress
<1>4. Open(D, t, {f.at}) /\ OpenCall(l, {}, D)
  BY <1>2, <1>3, OpenPop DEF t, l
<1>5. OpenCall(f, {}, D)
  BY <1>2, <1>4 DEF OpenCall
<1>6. Open(D, Append(t, f), {})
  BY <1>1, <1>2, <1>4, <1>5, OpenPush
<1>7. Pending(l) \in Seq(Needed)
  BY <1>1, <1>4, PendingNeeded
<1>8. ASSUME NEW calls, CountsCalls(calls)
      PROVE  \E x \in Nat : Left(calls, Append(t, f), x) /\ k + x = calls[Root]
  <2>1. PICK x \in Nat : Left(calls, s, x) /\ k + x = calls[Root]
    BY <1>8 DEF Progress
  <2>2. SumOver(Pending(f), calls) \in Nat
    BY <1>2, <1>7, <1>8, SumFacts DEF CountsCalls
  <2>3. PICK y \in Nat : Left(calls, t, y) /\ x = y + SumOver(Pending(f), calls)
    BY <1>2, <2>1, LeftMoves DEF t, l
  <2>4. Left(calls, Append(t, f), x)
    BY <1>1, <1>2, <2>2, <2>3, LeftMoves
  <2> QED
    BY <2>1, <2>4
<1>9. ASSUME NEW depth, MeasuresDepth(depth) PROVE Deep(depth, Append(t, f), {}, n)
  <2>1. Deep(depth, s, {}, m)
    BY <1>9 DEF Progress
  <2> QED
    BY <1>2, <2>1, DeepReplace DEF t, l
<1> QED
  BY <1>6, <1>8, <1>9 DEF Progress, f, t, l

(* KeywordsDone, and ReturnFromRef without siblings: a call returns with   *)
(* nothing pending, its position is lowered for good.                      *)
LEMMA ProgressReturn ==
  ASSUME TypeOK, NEW s \in Seq(Frame), s # <<>>, NEW k \in Nat, NEW m, NEW n,
         Progress(s, {}, k, m), Pending(Last(s)) = <<>>
  PROVE  Progress(Front(s), {}, k, n)
<1> DEFINE l == Last(s)
           t == Front(s)
<1>1. l \in Frame /\ t \in Seq(Frame)
  BY FrontProperties
<1> HIDE DEF t, l
<1>2. PICK D \in SUBSET Loc : Open(D, s, {})
  BY DEF Progress
<1>3. Open(D, t, {l.at}) /\ OpenCall(l, {}, D)
  BY <1>2, OpenPop DEF t, l
<1>4. l.at \in Needed /\ ~Unsound(l.at) /\ Needs[l.at] \subseteq D /\ l.at \in Loc
  <2>1. Elements(Pending(l)) = {}
    BY DEF Elements, l
  <2> QED
    BY <1>3, <2>1, NeededIsLeast DEF OpenCall
<1>5. Open(D \cup {l.at}, t, {}) /\ D \cup {l.at} \in SUBSET Loc
  BY <1>1, <1>3, <1>4, OpenFinish
<1>6. ASSUME NEW calls, CountsCalls(calls)
      PROVE  \E x \in Nat : Left(calls, t, x) /\ k + x = calls[Root]
  <2>1. PICK x \in Nat : Left(calls, s, x) /\ k + x = calls[Root]
    BY <1>6 DEF Progress
  <2>2. SumOver(Pending(l), calls) = 0
    <3>1. <<>> \in Seq(Needed)
      OBVIOUS
    <3> QED
      BY <1>6, <3>1, SumFacts DEF CountsCalls, l
  <2>3. PICK y \in Nat : Left(calls, t, y) /\ x = y + SumOver(Pending(l), calls)
    BY <2>1, LeftMoves DEF t, l
  <2>4. x = y
    BY <2>2, <2>3
  <2> QED
    BY <2>1, <2>3, <2>4
<1>7. ASSUME NEW depth, MeasuresDepth(depth) PROVE Deep(depth, t, {}, n)
  <2>1. Deep(depth, s, {}, m)
    BY <1>7 DEF Progress
  <2> QED
    BY <2>1, DeepReplace DEF t, l
<1> QED
  BY <1>5, <1>6, <1>7 DEF Progress, t

(* The first of a sequence, and the others.                                *)
LEMMA HeadAndTail ==
  ASSUME NEW S, NEW s \in Seq(S), s # <<>>
  PROVE  /\ Head(s) \in S /\ Tail(s) \in Seq(S)
         /\ Elements(s) = {Head(s)} \cup Elements(Tail(s))
<1>1. /\ Len(s) \in Nat /\ Len(s) >= 1 /\ Head(s) = s[1] /\ Head(s) \in S
      /\ DOMAIN s = 1 .. Len(s)
  BY LenProperties, EmptySeq, ElementOfSeq
<1>2. /\ Tail(s) \in Seq(S) /\ Len(Tail(s)) = Len(s) - 1
      /\ \A i \in 1 .. Len(Tail(s)) : Tail(s)[i] = s[i + 1]
      /\ DOMAIN Tail(s) = 1 .. Len(Tail(s))
  BY HeadTailProperties, LenProperties
<1> DEFINE t == Tail(s)
<1>3. /\ t \in Seq(S) /\ DOMAIN t = 1 .. Len(s) - 1 /\ \A i \in 1 .. Len(s) - 1 : t[i] = s[i + 1]
  BY <1>2
<1> HIDE DEF t
<1>4. Elements(s) \subseteq {s[1]} \cup Elements(t)
  <2> SUFFICES ASSUME NEW i \in 1 .. Len(s), i # 1 PROVE s[i] \in Elements(t)
    BY <1>1 DEF Elements
  <2>1. i - 1 \in 1 .. Len(s) - 1 /\ (i - 1) + 1 = i
    BY <1>1
  <2> QED
    BY <1>3, <2>1 DEF Elements
<1>5. {s[1]} \cup Elements(t) \subseteq Elements(s)
  <2>1. 1 \in 1 .. Len(s) /\ \A i \in 1 .. Len(s) - 1 : i + 1 \in 1 .. Len(s)
    BY <1>1
  <2> QED
    BY <1>1, <1>3, <2>1 DEF Elements
<1> QED
  BY <1>1, <1>3, <1>4, <1>5 DEF t

(* LowerNextKid: the first pending sub-schema is lowered.                  *)
LEMMA ProgressKid ==
  ASSUME TypeOK, NEW s \in Seq(Frame), s # <<>>, NEW k \in Nat, NEW n \in Nat,
         Progress(s, {}, k, n), n = Last(s).depth,
         Last(s).ref = NoRef, Last(s).todo # <<>>,
         NEW g, g = [Last(s) EXCEPT !.todo = Tail(@)]
  PROVE  Progress(Append(Front(s), g), {Head(Last(s).todo)}, k, n)
<1> DEFINE l == Last(s)
           t == Front(s)
           h == Head(l.todo)
<1>1. l \in Frame /\ t \in Seq(Frame)
  BY FrontProperties
<1> HIDE DEF t, l
<1>2. l.todo \in Seq(Loc) /\ l.todo # <<>> /\ Pending(l) = l.todo
  BY <1>1 DEF Frame, Pending, l
<1>3. /\ h \in Loc /\ Tail(l.todo) \in Seq(Loc)
      /\ Elements(l.todo) = {h} \cup Elements(Tail(l.todo))
  BY <1>2, HeadAndTail
<1>4. /\ g \in Frame /\ g.at = l.at /\ g.ref = NoRef /\ g.depth = l.depth
      /\ Pending(g) = Tail(l.todo)
  BY <1>1, <1>3 DEF Frame, Pending, l
<1>5. PICK D \in SUBSET Loc : Open(D, s, {})
  BY DEF Progress
<1>6. Open(D, t, {g.at}) /\ OpenCall(l, {}, D)
  BY <1>4, <1>5, OpenPop DEF t, l
<1>7. /\ Pending(l) \in Seq(Needed) /\ Elements(Pending(l)) \subseteq Needs[l.at]
      /\ Needs[l.at] \subseteq Needed /\ l.at \in Needed
  BY <1>1, <1>6, PendingNeeded
<1>8. h \in Needs[l.at] /\ h \in Needed
  BY <1>2, <1>3, <1>7
<1> HIDE DEF h
<1>9. OpenCall(g, {h}, D)
  BY <1>2, <1>3, <1>4, <1>6, <1>8 DEF OpenCall
<1>10. Open(D, Append(t, g), {h})
  BY <1>1, <1>4, <1>6, <1>9, OpenPush
<1>11. ASSUME NEW calls, CountsCalls(calls)
       PROVE  \E x \in Nat : Left(calls, Append(t, g), x) /\ k + x + calls[h] = calls[Root]
  <2>1. PICK x \in Nat : Left(calls, s, x) /\ k + x = calls[Root]
    BY <1>11 DEF Progress
  <2>2. PICK y \in Nat : Left(calls, t, y) /\ x = y + SumOver(Pending(l), calls)
    BY <2>1, LeftMoves DEF t, l
  <2>3. calls \in [Needed -> Nat] /\ l.todo \in Seq(Needed)
    BY <1>2, <1>7, <1>11 DEF CountsCalls
  <2>4. SumOver(l.todo, calls) = calls[h] + SumOver(Tail(l.todo), calls)
    BY <1>2, <2>3, SumFacts DEF h
  <2>5. SumOver(Tail(l.todo), calls) \in Nat /\ calls[h] \in Nat
    <3>1. Tail(l.todo) \in Seq(Needed)
      BY <1>2, <2>3, HeadAndTail
    <3> QED
      BY <1>8, <2>3, <3>1, SumFacts
  <2>6. Left(calls, Append(t, g), y + SumOver(Tail(l.todo), calls))
    BY <1>1, <1>4, <2>2, <2>5, LeftMoves
  <2>7. k + (y + SumOver(Tail(l.todo), calls)) + calls[h] = calls[Root]
    BY <1>2, <2>1, <2>2, <2>4, <2>5
  <2> QED
    BY <2>2, <2>5, <2>6, <2>7
<1>12. ASSUME NEW depth, MeasuresDepth(depth) PROVE Deep(depth, Append(t, g), {h}, n)
  <2>1. Deep(depth, s, {}, n)
    BY <1>12 DEF Progress
  <2>2. depth[h] \in Nat /\ depth[h] <= depth[l.at] /\ depth[l.at] \in Nat /\ depth[Root] \in Nat
    <3>1. body(l.at).kind = "object"
      BY <1>6 DEF OpenCall
    <3> QED
      BY <1>7, <1>8, <1>12, <3>1, DepthFacts, NeededIsLeast
  <2>3. n + depth[h] <= depth[Root]
    <3>1. n + depth[l.at] <= depth[Root]
      BY <2>1, DeepReplace DEF l
    <3> QED
      BY <2>2, <3>1
  <2>4. \A j \in Elements(Pending(l)) : j \in Elements(Pending(g)) \/ (j \in {h} /\ n = g.depth)
    BY <1>2, <1>3, <1>4 DEF l, h
  <2> QED
    BY <1>4, <2>1, <2>3, <2>4, DeepReplace DEF t, l
<1> QED
  BY <1>8, <1>10, <1>11, <1>12 DEF Progress, t, l, h

-----------------------------------------------------------------------------
(* Every entry of `visiting' is the `$ref' of an open call.                *)
LEMMA OpenRefOf ==
  ASSUME NEW v, NEW s, WellNested(v, s), NEW j \in 1 .. Len(v)
  PROVE  \E i \in 1 .. Len(s) : s[i].ref # NoRef /\ s[i].ref = v[j]
<1> DEFINE T == {n \in Nat : n <= Len(s) => \A d \in 1 .. DepthIn(s, n) :
                   \E i \in 1 .. n : s[i].ref # NoRef /\ s[i].depth + 1 = d}
<1>1. 0 \in T
  BY DEF DepthIn
<1>2. ASSUME NEW n \in T PROVE n + 1 \in T
  <2> SUFFICES ASSUME n + 1 <= Len(s), NEW d \in 1 .. DepthIn(s, n + 1)
               PROVE  \E i \in 1 .. n + 1 : s[i].ref # NoRef /\ s[i].depth + 1 = d
    OBVIOUS
  <2>1. /\ n \in Nat /\ n + 1 \in 1 .. Len(s) /\ (n + 1) - 1 = n /\ n \in 0 .. Len(s)
        /\ \A i \in 1 .. n : i \in 1 .. n + 1
        /\ n + 1 \in 1 .. n + 1
    BY NestingFacts
  <2>2. /\ s[n + 1].depth = DepthIn(s, n) /\ DepthIn(s, n) \in Nat
        /\ s[n + 1].ref # NoRef => DepthIn(s, n + 1) = s[n + 1].depth + 1
        /\ s[n + 1].ref = NoRef => DepthIn(s, n + 1) = s[n + 1].depth
    BY <2>1, NestingFacts
  <2>3. CASE d \in 1 .. DepthIn(s, n)
    <3>1. \E i \in 1 .. n : s[i].ref # NoRef /\ s[i].depth + 1 = d
      BY <2>1, <2>3
    <3> QED
      BY <2>1, <3>1
  <2>4. CASE d \notin 1 .. DepthIn(s, n)
    <3>1. s[n + 1].ref # NoRef /\ s[n + 1].depth + 1 = d
      BY <2>2, <2>4
    <3> QED
      BY <2>1, <3>1
  <2> QED
    BY <2>3, <2>4
<1>3. T = Nat
  <2>1. T \in SUBSET Nat
    OBVIOUS
  <2> HIDE DEF T
  <2> QED
    BY <1>1, <1>2, <2>1, SetInduction
<1>4. Len(s) \in T /\ Len(v) = DepthIn(s, Len(s))
  <2> HIDE DEF T
  <2> QED
    BY <1>3, NestingFacts
<1>5. PICK i \in 1 .. Len(s) : s[i].ref # NoRef /\ s[i].depth + 1 = j
  BY <1>4, NestingFacts
<1>6. v[s[i].depth + 1] = s[i].ref
  BY <1>5, NestingFacts
<1> QED
  BY <1>5, <1>6

(* What an open call is lowering leads to what the innermost one is.       *)
LEMMA ChainLeads ==
  ASSUME TypeOK, NEW s \in Seq(Frame), NEW p, NEW D, Open(D, s, {p}),
         NEW i \in 1 .. Len(s), NEW t \in Inside(s, {p}, i)
  PROVE  t \in Needed /\ (p = t \/ p \in Reach(t))
<1> DEFINE h == Len(s)
           in(j) == Inside(s, {p}, j)
           T == {m \in Nat : i + m <= h => \A u \in in(i + m) : u = t \/ u \in Reach(t)}
<1>1. h \in Nat /\ i \in Nat /\ i <= h
  BY LenProperties
<1>2. \A j \in 1 .. h : /\ s[j].at \in Needed /\ in(j) \subseteq Needs[s[j].at]
                        /\ Needs[s[j].at] \subseteq Needed
  <2> SUFFICES ASSUME NEW j \in 1 .. h
               PROVE  /\ s[j].at \in Needed /\ in(j) \subseteq Needs[s[j].at]
                      /\ Needs[s[j].at] \subseteq Needed
    OBVIOUS
  <2>1. OpenCall(s[j], in(j), D)
    BY DEF Open
  <2> QED
    BY <2>1, NeededIsLeast DEF OpenCall
<1>3. t \in Needed /\ t \in Loc
  BY <1>2, NeededIsLeast
<1>4. \A j \in 1 .. h : j < h => in(j) = {s[j + 1].at}
  BY DEF Inside
<1>5. in(h) = {p}
  BY <1>1 DEF Inside
<1> HIDE DEF in, h
<1>6. \A u \in in(i) : u = t
  BY DEF in, Inside
<1>7. 0 \in T
  BY <1>1, <1>6
<1>8. ASSUME NEW m \in T PROVE m + 1 \in T
  <2> SUFFICES ASSUME i + (m + 1) <= h, NEW u \in in(i + (m + 1)) PROVE u = t \/ u \in Reach(t)
    OBVIOUS
  <2> DEFINE j == i + m
  <2>1. j \in 1 .. h /\ j < h /\ j + 1 \in 1 .. h /\ i + (m + 1) = j + 1 /\ m \in Nat
    BY <1>1 DEF h
  <2>2. s[j + 1].at = t \/ s[j + 1].at \in Reach(t)
    <3>1. s[j + 1].at \in in(j)
      BY <1>4, <2>1
    <3> QED
      BY <2>1, <3>1
  <2>3. u \in Needs[s[j + 1].at]
    BY <1>2, <2>1
  <2> QED
    BY <1>3, <2>2, <2>3, NeededIsLeast
<1>9. T = Nat
  <2>1. T \in SUBSET Nat
    OBVIOUS
  <2> HIDE DEF T
  <2> QED
    BY <1>7, <1>8, <2>1, SetInduction
<1>10. h - i \in T /\ i + (h - i) = h
  <2>1. h - i \in Nat /\ i + (h - i) = h
    BY <1>1
  <2> HIDE DEF T
  <2> QED
    BY <1>9, <2>1
<1>11. p = t \/ p \in Reach(t)
  BY <1>1, <1>5, <1>10
<1> QED
  BY <1>3, <1>11

(* CyclicRef: the `$ref' about to be lowered is being lowered.             *)
LEMMA CycleFound ==
  ASSUME TypeOK, AnchorsExact, pc \in {"lower_schema", "lower_local_ref", "return"},
         NEW v, NEW s, WellNested(v, s), NEW p \in Needed, NEW D, Open(D, s, {p}),
         body(p).kind = "object", body(p).ref # NoRef, body(p).ref.form # "external",
         Occurs(body(p).ref, v)
  PROVE  Cyclic
<1>1. PICK i \in 1 .. Len(s) : s[i].ref # NoRef /\ s[i].ref = body(p).ref
  BY OpenRefOf DEF Occurs
<1>2. s \in Seq(Frame) /\ Len(s) \in Nat /\ p \in Loc
  BY NestingFacts, NeededIsLeast
<1>3. PICK t : Inside(s, {p}, i) = {t}
  BY DEF Inside
<1>4. t = Target(body(p).ref)
  BY <1>1, <1>3 DEF Open, OpenCall
<1>5. t \in Needed /\ t \in Loc /\ (p = t \/ p \in Reach(t))
  BY <1>2, <1>3, ChainLeads, NeededIsLeast
<1>6. t \in RefTargets(p)
  BY <1>2, <1>4, <1>5, RefLeadsTo, LoweringAssumption
<1>7. t \in Needs[p]
  BY <1>6, NeededParts
<1>8. t \in Reach(t)
  BY <1>2, <1>5, <1>7, NeededIsLeast
<1> QED
  BY <1>5, <1>8, CyclicMeaning

(* DepthExceeded, and NodeLimitExceeded.                                   *)
LEMMA LimitsPassed ==
  ASSUME TypeOK, NEW s, NEW p, NEW k \in Nat, NEW n \in Nat, Progress(s, {p}, k, n)
  PROVE  /\ k + 1 > MaxNodes => Cyclic \/ Calls > MaxNodes
         /\ n >= MaxDepth /\ body(p).kind = "object" /\ body(p).ref.form \in {"pointer", "anchor"}
              => Cyclic \/ RefDepth > MaxDepth
<1>1. p \in Needed /\ Root \in Needed
  BY NeededIsLeast DEF Progress
<1>2. ASSUME ~Cyclic, k + 1 > MaxNodes PROVE Calls > MaxNodes
  <2>1. PICK calls : CountsCalls(calls) /\ Calls = calls[Root]
    BY <1>2, RulesHaveSolutions
  <2>2. PICK x \in Nat : k + x + calls[p] = calls[Root]
    BY <2>1 DEF Progress
  <2>3. calls[p] \in Nat /\ calls[p] >= 1
    BY <1>1, <2>1, CallsFacts
  <2> QED
    BY <1>2, <2>1, <2>2, <2>3, LoweringAssumption
<1>3. ASSUME ~Cyclic, n >= MaxDepth, body(p).kind = "object",
             body(p).ref.form \in {"pointer", "anchor"}
      PROVE  RefDepth > MaxDepth
  <2>1. PICK depth : MeasuresDepth(depth) /\ RefDepth = depth[Root]
    BY <1>3, RulesHaveSolutions
  <2>2. n + depth[p] <= depth[Root]
    BY <2>1 DEF Progress, Deep
  <2>3. depth[p] \in Nat /\ 1 <= depth[p] /\ depth[Root] \in Nat
    BY <1>1, <1>3, <2>1, DepthFacts
  <2> QED
    BY <1>3, <2>1, <2>2, <2>3, LoweringAssumption
<1> QED
  BY <1>2, <1>3

(* Ok: all that is needed was lowered for good, within both limits.        *)
LEMMA AllLowered ==
  ASSUME TypeOK, NEW k \in Nat, NEW n, Progress(<<>>, {}, k, n), k <= MaxNodes
  PROVE  /\ ~Cyclic /\ \A l \in Needed : ~Unsound(l)
         /\ RefDepth <= MaxDepth /\ Calls <= MaxNodes /\ k = Calls
<1>0. <<>> \in Seq(Frame) /\ Len(<<>>) = 0
  OBVIOUS
<1>1. PICK D \in SUBSET Loc : Open(D, <<>>, {})
  BY DEF Progress
<1>2. Root \in D /\ Sound(D)
  <2>1. Inside(<<>>, {}, 0) = {}
    BY <1>0 DEF Inside
  <2> QED
    BY <1>1, <2>1 DEF Open
<1>3. Needed \subseteq D
  BY <1>2, NeededIsLeast DEF Sound
<1>4. ~Cyclic /\ \A l \in Needed : ~Unsound(l)
  BY <1>2, <1>3, CyclicMeaning DEF Sound, Reach
<1>5. k = Calls
  <2>1. PICK calls : CountsCalls(calls) /\ Calls = calls[Root]
    BY <1>4, RulesHaveSolutions
  <2>2. PICK x \in Nat : Left(calls, <<>>, x) /\ k + x = calls[Root]
    BY <2>1 DEF Progress
  <2>3. x = 0
    BY <1>0, <2>2 DEF Left
  <2> QED
    BY <2>1, <2>2, <2>3
<1>6. RefDepth <= MaxDepth
  <2>1. PICK depth : MeasuresDepth(depth) /\ RefDepth = depth[Root]
    BY <1>4, RulesHaveSolutions
  <2>2. ~(depth[Root] > MaxDepth)
    BY <1>0, <2>1 DEF Progress, Deep
  <2>3. depth[Root] \in Nat
    BY <2>1, NeededIsLeast, DepthFacts
  <2> QED
    BY <2>1, <2>2, <2>3, LoweringAssumption
<1> QED
  BY <1>4, <1>5, <1>6

-----------------------------------------------------------------------------
(* The document and the registry stay: so does what is said of them.       *)
LEMMA MeaningStays ==
  ASSUME doc' = doc, anchors' = anchors
  PROVE  /\ Needed' = Needed /\ Cyclic' = Cyclic /\ HasDuplicateAnchor' = HasDuplicateAnchor
         /\ Calls' = Calls /\ RefDepth' = RefDepth
         /\ \A l : Unsound(l)' = Unsound(l)
         /\ \A l : body(l)' = body(l)
         /\ \A s, c, k, n : Progress(s, c, k, n)' = Progress(s, c, k, n)
<1>1. \A l : body(l)' = body(l) /\ LoweredKids(l)' = LoweredKids(l)
  BY DEF body, LoweredKids
<1>2. /\ \A l : RefTargets(l)' = RefTargets(l)
      /\ HasDuplicateAnchor' = HasDuplicateAnchor
  BY DEF RefTargets, HasDuplicateAnchor, Anchored, Walked, Closure, Elements, body
<1>3. Needs' = Needs /\ \A l : Unsound(l)' = Unsound(l)
  BY <1>1, <1>2 DEF Needs, Unsound, Elements
<1>4. Needed' = Needed /\ Cyclic' = Cyclic
  BY <1>3 DEF Needed, Cyclic, Closure
<1>5. \A D, s, c : Open(D, s, c)' = Open(D, s, c)
  BY DEF Open, Inside, Sound, OpenCall, Target, Pending, Needed, Needs, Unsound, RefTargets,
         Anchored, Walked, LoweredKids, Closure, Elements, body
<1>6. \A calls, s, x : Left(calls, s, x)' = Left(calls, s, x)
  BY DEF Left, Pending, LoweredKids, body, SumOver
<1>7. \A depth, s, c, n : Deep(depth, s, c, n)' = Deep(depth, s, c, n)
  BY DEF Deep, Pending, LoweredKids, body, Elements
<1>8. \A calls : CountsCalls(calls)' = CountsCalls(calls)
  BY DEF CountsCalls, CallsAt, Needed, Needs, RefTargets, Anchored, Walked, LoweredKids, Closure,
     Elements, body, SumOver
<1>9. \A depth : MeasuresDepth(depth)' = MeasuresDepth(depth)
  BY DEF MeasuresDepth, DepthAt, DepthsBelow, Needed, Needs, RefTargets, Anchored, Walked,
     LoweredKids, Closure, Elements, body
<1>13. \A s, c, k, n : Progress(s, c, k, n)' = Progress(s, c, k, n)
  BY <1>4, <1>5, <1>6, <1>7, <1>8, <1>9 DEF Progress
<1>14. Calls' = Calls
  BY DEF Calls, Needed, Needs, RefTargets, Anchored, Walked, LoweredKids, Closure, Elements,
     body, SumOver
<1>15. RefDepth' = RefDepth
  BY DEF RefDepth, Needed, Needs, RefTargets, Anchored, Walked, LoweredKids, Closure, Elements,
     body
<1> QED
  BY <1>1, <1>2, <1>3, <1>4, <1>13, <1>14, <1>15

(* VerdictExact needs to know at every call what was lowered for good,     *)
(* what is still to be lowered, and what both take.                        *)
VerdictInv ==
  /\ pc = "collect_anchors" => stack = <<>> /\ visiting = <<>> /\ node_count = 0
  /\ pc = "lower_schema" => Progress(stack, {at}, node_count, Len(visiting))
  /\ pc = "lower_local_ref" =>
       /\ node_count > 0 /\ Progress(stack, {at}, node_count - 1, Len(visiting))
       /\ body(at).kind = "object" /\ ~body(at).unsupported
       /\ body(at).ref # NoRef /\ body(at).ref.form # "external"
  /\ pc = "return" => Progress(stack, {}, node_count, Len(visiting))
  /\ pc \in {"unwind", "done"} => Justified

(* AnchorsCollected: nothing is lowered yet, and all of it is the root's.  *)
LEMMA ProgressStart == TypeOK => Progress(<<>>, {Root}, 0, 0)
<1> SUFFICES ASSUME TypeOK PROVE Progress(<<>>, {Root}, 0, 0)
  OBVIOUS
<1>0. <<>> \in Seq(Frame) /\ Len(<<>>) = 0 /\ Root \in Needed /\ 1 .. Len(<<>>) = {}
  BY NeededIsLeast
<1>1. Open({}, <<>>, {Root})
  <2>1. Sound({})
    BY DEF Sound
  <2>2. Inside(<<>>, {Root}, 0) = {Root}
    BY <1>0 DEF Inside
  <2>3. ASSUME NEW s, s = <<>> PROVE Open({}, s, {Root})
    <3>1. \A i \in 1 .. Len(s) : FALSE
      BY <2>3
    <3> QED
      BY <2>1, <2>2, <2>3, <3>1 DEF Open
  <2> QED
    BY <2>3
<1>2. ASSUME NEW calls, CountsCalls(calls)
      PROVE  \E x \in Nat : Left(calls, <<>>, x) /\ 0 + x + calls[Root] = calls[Root]
  <2>1. Left(calls, <<>>, 0)
    <3> DEFINE left == [i \in 0 .. 0 |-> 0]
    <3>1. left \in [0 .. 0 -> Nat] /\ left[0] = 0
      OBVIOUS
    <3> HIDE DEF left
    <3> QED
      BY <1>0, <3>1 DEF Left
  <2>2. calls[Root] \in Nat
    BY <1>0, <1>2, CallsFacts
  <2> QED
    BY <2>1, <2>2
<1>3. ASSUME NEW depth, MeasuresDepth(depth) PROVE Deep(depth, <<>>, {Root}, 0)
  <2>1. depth[Root] \in Nat
    BY <1>0, <1>3, DepthFacts
  <2> QED
    BY <1>0, <2>1 DEF Deep
<1> QED
  BY <1>0, <1>1, <1>2, <1>3 DEF Progress

(* An outcome is justified by what its row of Justified says.              *)
LEMMA JustifiedNext ==
  ASSUME doc' = doc, anchors' = anchors,
         \/ outcome' = "DuplicateAnchor" /\ HasDuplicateAnchor
         \/ outcome' = "CyclicRef" /\ Cyclic
         \/ outcome' = "DepthExceeded" /\ (Cyclic \/ RefDepth > MaxDepth)
         \/ outcome' = "NodeLimitExceeded" /\ (Cyclic \/ Calls > MaxNodes)
         \/ /\ outcome' \in {"InvalidSchemaKind", "UnsupportedKeyword", "UnresolvedRef"}
            /\ \E l \in Needed : Unsound(l)
         \/ /\ outcome' = "ok" /\ ~HasDuplicateAnchor /\ ~Cyclic
            /\ \A l \in Needed : ~Unsound(l)
            /\ RefDepth <= MaxDepth /\ Calls <= MaxNodes /\ node_count' = Calls
  PROVE  Justified'
<1>1. /\ Needed' = Needed /\ Cyclic' = Cyclic /\ HasDuplicateAnchor' = HasDuplicateAnchor
      /\ Calls' = Calls /\ RefDepth' = RefDepth
      /\ \A l : Unsound(l)' = Unsound(l)
  BY MeaningStays
<1>2. (\E l \in Needed : Unsound(l))' <=> \E l \in Needed : Unsound(l)
  BY <1>1
<1>3. (\A l \in Needed : ~Unsound(l))' <=> \A l \in Needed : ~Unsound(l)
  BY <1>1
<1> QED
  BY <1>1, <1>2, <1>3 DEF Justified

(* An outcome stays justified.                                             *)
LEMMA JustifiedStays ==
  ASSUME doc' = doc, anchors' = anchors, outcome' = outcome, node_count' = node_count, Justified
  PROVE  Justified'
BY JustifiedNext DEF Justified

(* The invariant of the next state, in terms of the document's meaning.    *)
LEMMA VerdictNext ==
  ASSUME doc' = doc, anchors' = anchors, pc' # "collect_anchors",
         pc' = "lower_schema" => Progress(stack', {at'}, node_count', Len(visiting')),
         pc' = "lower_local_ref" =>
           /\ node_count' > 0 /\ Progress(stack', {at'}, node_count' - 1, Len(visiting'))
           /\ body(at').kind = "object" /\ ~body(at').unsupported
           /\ body(at').ref # NoRef /\ body(at').ref.form # "external",
         pc' = "return" => Progress(stack', {}, node_count', Len(visiting')),
         pc' \in {"unwind", "done"} => Justified'
  PROVE  VerdictInv'
<1>1. /\ \A l : body(l)' = body(l)
      /\ \A s, c, k, n : Progress(s, c, k, n)' = Progress(s, c, k, n)
  BY MeaningStays
<1>2. body(at)' = body(at')
  BY DEF body
<1>3. /\ Progress(stack, {at}, node_count, Len(visiting))'
           = Progress(stack', {at'}, node_count', Len(visiting'))
      /\ Progress(stack, {at}, node_count - 1, Len(visiting))'
           = Progress(stack', {at'}, node_count' - 1, Len(visiting'))
      /\ Progress(stack, {}, node_count, Len(visiting))'
           = Progress(stack', {}, node_count', Len(visiting'))
  BY <1>1
<1> QED
  BY <1>2, <1>3 DEF VerdictInv

(* lower_schema's errors.                                                  *)
LEMMA SchemaFailsJustified ==
  ASSUME TypeOK, VerdictInv, LowerSchemaFails PROVE Justified'
<1> DEFINE e == LowerSchemaError(body(at))
<1>1. /\ pc = "lower_schema" /\ e # "running" /\ outcome' = e
      /\ doc' = doc /\ anchors' = anchors
  BY DEF LowerSchemaFails, Fail
<1>2. Progress(stack, {at}, node_count, Len(visiting)) /\ at \in Needed
  BY <1>1 DEF VerdictInv, Progress
<1>3. node_count \in Nat /\ Len(visiting) \in Nat
  BY DEF TypeOK
<1>4. \/ e = "NodeLimitExceeded" /\ node_count + 1 > MaxNodes
      \/ e = "InvalidSchemaKind" /\ body(at).kind = "other"
      \/ e = "UnsupportedKeyword" /\ body(at).kind = "object" /\ body(at).unsupported
      \/ e = "UnresolvedRef" /\ body(at).kind = "object" /\ body(at).ref.form = "external"
  BY <1>1 DEF LowerSchemaError
<1> HIDE DEF e
<1>5. CASE e = "NodeLimitExceeded" /\ node_count + 1 > MaxNodes
  <2>1. Cyclic \/ Calls > MaxNodes
    BY <1>2, <1>3, <1>5, LimitsPassed
  <2> QED
    BY <1>1, <1>5, <2>1, JustifiedNext
<1>6. CASE e = "InvalidSchemaKind" /\ body(at).kind = "other"
  <2>1. Unsound(at)
    BY <1>6 DEF Unsound
  <2> QED
    BY <1>1, <1>2, <1>6, <2>1, JustifiedNext
<1>7. CASE e = "UnsupportedKeyword" /\ body(at).kind = "object" /\ body(at).unsupported
  <2>1. Unsound(at)
    BY <1>7 DEF Unsound
  <2> QED
    BY <1>1, <1>2, <1>7, <2>1, JustifiedNext
<1>8. CASE e = "UnresolvedRef" /\ body(at).kind = "object" /\ body(at).ref.form = "external"
  <2>1. RefTargets(at) = {}
    BY <1>8 DEF RefTargets
  <2>2. body(at).ref # NoRef
    BY <1>8 DEF NoRef
  <2>3. Unsound(at)
    BY <1>8, <2>1, <2>2 DEF Unsound
  <2> QED
    BY <1>1, <1>2, <1>8, <2>3, JustifiedNext
<1> QED
  BY <1>4, <1>5, <1>6, <1>7, <1>8

(* lower_local_ref's errors.                                               *)
LEMMA RefFailsJustified ==
  ASSUME TypeOK, AnchorsExact, WellNested(visiting, stack), VerdictInv, LowerLocalRefFails
  PROVE  Justified'
<1> DEFINE e == LowerLocalRefError(body(at).ref)
           k == node_count - 1
<1>1. /\ pc = "lower_local_ref" /\ e # "running" /\ outcome' = e
      /\ doc' = doc /\ anchors' = anchors
  BY DEF LowerLocalRefFails, Fail
<1>2. /\ Progress(stack, {at}, k, Len(visiting)) /\ at \in Needed /\ at \in Loc
      /\ node_count > 0
      /\ body(at).kind = "object" /\ body(at).ref # NoRef /\ body(at).ref.form # "external"
  BY <1>1 DEF VerdictInv, Progress, TypeOK
<1>3. k \in Nat /\ Len(visiting) \in Nat
  BY <1>2 DEF TypeOK
<1>4. \/ e = "CyclicRef" /\ Occurs(body(at).ref, visiting)
      \/ e = "DepthExceeded" /\ Len(visiting) >= MaxDepth
      \/ e = "UnresolvedRef" /\ Target(body(at).ref) = NoLoc
  BY <1>1 DEF LowerLocalRefError
<1>5. /\ body(at).ref.form \in {"pointer", "anchor"}
      /\ RefTargets(at) = {Target(body(at).ref)} \ {NoLoc}
  BY <1>1, <1>2, RefLeadsTo
<1> HIDE DEF e, k
<1>6. CASE e = "CyclicRef" /\ Occurs(body(at).ref, visiting)
  <2>1. PICK D \in SUBSET Loc : Open(D, stack, {at})
    BY <1>2 DEF Progress
  <2>2. Cyclic
    BY <1>1, <1>2, <1>6, <2>1, CycleFound
  <2> QED
    BY <1>1, <1>6, <2>2, JustifiedNext
<1>7. CASE e = "DepthExceeded" /\ Len(visiting) >= MaxDepth
  <2>1. Cyclic \/ RefDepth > MaxDepth
    BY <1>2, <1>3, <1>5, <1>7, LimitsPassed
  <2> QED
    BY <1>1, <1>7, <2>1, JustifiedNext
<1>8. CASE e = "UnresolvedRef" /\ Target(body(at).ref) = NoLoc
  <2>1. Unsound(at)
    BY <1>2, <1>5, <1>8 DEF Unsound
  <2> QED
    BY <1>1, <1>2, <1>8, <2>1, JustifiedNext
<1> QED
  BY <1>4, <1>6, <1>7, <1>8

(* The depth of the innermost call, and of what returns to its caller.     *)
LEMMA InnermostDepth ==
  ASSUME NEW v, NEW s, WellNested(v, s), s # <<>>
  PROVE  /\ s \in Seq(Frame) /\ Last(s) \in Frame /\ Last(s).depth \in Nat /\ Last(s).at \in Loc
         /\ Last(s).ref = NoRef => Len(v) = Last(s).depth
         /\ Last(s).ref # NoRef => Len(Front(v)) = Last(s).depth
<1>1. Len(s) \in 1 .. Len(s) /\ Len(v) \in Nat /\ v \in Seq(Ref)
  BY NestingFacts, EmptySeq
<1>2. /\ s[Len(s)] \in Frame /\ s[Len(s)].depth \in Nat /\ Len(v) = DepthIn(s, Len(s))
      /\ s[Len(s)].ref # NoRef => DepthIn(s, Len(s)) = s[Len(s)].depth + 1
      /\ s[Len(s)].ref = NoRef => DepthIn(s, Len(s)) = s[Len(s)].depth
  BY <1>1, NestingFacts
<1>3. Last(s).ref # NoRef => Len(Front(v)) = Last(s).depth
  <2> SUFFICES ASSUME Last(s).ref # NoRef PROVE Len(Front(v)) = Last(s).depth
    OBVIOUS
  <2>1. Len(v) = Last(s).depth + 1
    BY <1>2 DEF Last
  <2>2. v # <<>>
    BY <1>2, <2>1 DEF Last
  <2> QED
    BY <1>1, <1>2, <2>1, <2>2, FrontProperties DEF Last
<1> QED
  BY <1>2, <1>3, NestingFacts DEF Last, Frame

(* LowerNextKid writes the innermost call anew.                            *)
LEMMA LastReplaced ==
  ASSUME NEW s \in Seq(Frame), s # <<>>, NEW g, g = [Last(s) EXCEPT !.todo = Tail(@)], g \in Frame
  PROVE  [s EXCEPT ![Len(s)].todo = Tail(@)] = Append(Front(s), g)
<1> DEFINE h == Len(s)
           r == Front(s)
           u == [s EXCEPT ![h].todo = Tail(@)]
           w == Append(r, g)
<1>1. /\ h \in Nat /\ h >= 1 /\ h \in 1 .. h /\ DOMAIN s = 1 .. h
      /\ r \in Seq(Frame) /\ Len(r) = h - 1
      /\ \A i \in 1 .. h - 1 : r[i] = s[i]
  BY FrontProperties, LenProperties, EmptySeq
<1> HIDE DEF r, h
<1>2. /\ w \in Seq(Frame) /\ Len(w) = h - 1 + 1 /\ w[h - 1 + 1] = g
      /\ \A i \in 1 .. h - 1 : w[i] = r[i]
  BY <1>1, AppendFacts
<1>3. /\ Len(w) = h /\ w[h] = g /\ \A i \in 1 .. h - 1 : w[i] = s[i]
      /\ DOMAIN w = 1 .. h
  <2>1. h - 1 + 1 = h
    BY <1>1
  <2> HIDE DEF w
  <2> QED
    BY <1>1, <1>2, <2>1, LenProperties
<1>4. /\ u = [i \in 1 .. h |-> IF i = h THEN [s[h] EXCEPT !.todo = Tail(@)] ELSE s[i]]
      /\ g = [s[h] EXCEPT !.todo = Tail(@)]
  BY <1>1 DEF Last, h
<1>5. w = [i \in 1 .. h |-> w[i]]
  <2> HIDE DEF w
  <2> QED
    BY <1>2, <1>3, LenProperties
<1> HIDE DEF u, w
<1>6. \A i \in 1 .. h : w[i] = IF i = h THEN g ELSE s[i]
  <2>1. \A i \in 1 .. h : i = h \/ i \in 1 .. h - 1
    BY <1>1
  <2> QED
    BY <1>3, <2>1
<1>7. u = w
  BY <1>4, <1>5, <1>6
<1> QED
  BY <1>7 DEF u, w, r, h

(* A step that changes nothing keeps the invariant.                        *)
LEMMA VerdictStutters ==
  ASSUME VerdictInv, UNCHANGED vars
  PROVE  VerdictInv'
<1>1. /\ doc' = doc /\ anchors' = anchors /\ pc' = pc /\ at' = at /\ stack' = stack
      /\ visiting' = visiting /\ node_count' = node_count /\ outcome' = outcome
  BY DEF vars
<1>2. CASE pc = "collect_anchors"
  BY <1>1, <1>2 DEF VerdictInv
<1>3. CASE pc # "collect_anchors"
  <2>1. pc \in {"unwind", "done"} => Justified'
    BY <1>1, JustifiedStays DEF VerdictInv
  <2> QED
    BY <1>1, <1>3, <2>1, VerdictNext DEF VerdictInv
<1> QED
  BY <1>2, <1>3

(* VerdictInv is inductive, next to what the earlier theorems keep.        *)
LEMMA VerdictStep ==
  ASSUME TypeOK, TypeOK', AnchorsExact, AnchorsExact', WellNested(visiting, stack), BudgetInv,
         VerdictInv, [Next]_vars
  PROVE  VerdictInv'
<1> DEFINE n == Len(visiting)
<1>1. /\ at \in Loc /\ stack \in Seq(Frame) /\ visiting \in Seq(Ref) /\ n \in Nat
      /\ node_count \in Nat /\ n <= MaxDepth
  BY DEF TypeOK, WellNested
<1>2. CASE CollectAnchors
  <2>1. CASE pc' = "collect_anchors"
    BY <1>2, <2>1 DEF VerdictInv, CollectAnchors, Fail
  <2>2. CASE pc' # "collect_anchors"
    <3>1. pc' = "unwind" /\ outcome' = "DuplicateAnchor"
      BY <1>2, <2>2 DEF CollectAnchors, Fail
    <3>2. HasDuplicateAnchor'
      BY <3>1 DEF AnchorsExact
    <3>3. Justified'
      BY <3>1, <3>2 DEF Justified
    <3> QED
      BY <3>1, <3>3 DEF VerdictInv
  <2> QED
    BY <2>1, <2>2
<1>3. CASE AnchorsCollected
  <2>1. /\ doc' = doc /\ anchors' = anchors /\ pc' = "lower_schema" /\ at' = Root
        /\ stack' = <<>> /\ visiting' = <<>> /\ node_count' = 0
    BY <1>3 DEF AnchorsCollected, VerdictInv
  <2>2. Progress(stack', {at'}, node_count', Len(visiting'))
    BY <2>1, ProgressStart
  <2> QED
    BY <2>1, <2>2, VerdictNext
<1>4. CASE LowerSchemaFails
  <2>1. doc' = doc /\ anchors' = anchors /\ pc' = "unwind"
    BY <1>4 DEF LowerSchemaFails, Fail
  <2>2. Justified'
    BY <1>4, SchemaFailsJustified
  <2> QED
    BY <2>1, <2>2, VerdictNext
<1>5. CASE LowerBoolean
  <2>1. /\ doc' = doc /\ anchors' = anchors /\ pc = "lower_schema" /\ pc' = "return"
        /\ stack' = stack /\ visiting' = visiting /\ node_count' = node_count + 1
        /\ body(at).kind = "boolean"
    BY <1>5 DEF LowerBoolean
  <2>2. Progress(stack, {at}, node_count, n)
    BY <2>1 DEF VerdictInv
  <2>3. Progress(stack', {}, node_count', Len(visiting'))
    BY <1>1, <2>1, <2>2, ProgressBoolean
  <2> QED
    BY <2>1, <2>3, VerdictNext
<1>6. CASE LowerObject
  <2>1. /\ doc' = doc /\ anchors' = anchors /\ pc = "lower_schema" /\ at' = at
        /\ visiting' = visiting /\ node_count' = node_count + 1
        /\ body(at).kind = "object" /\ LowerSchemaError(body(at)) = "running"
    BY <1>6 DEF LowerObject
  <2>2. Progress(stack, {at}, node_count, n)
    BY <2>1 DEF VerdictInv
  <2>3. ~body(at).unsupported /\ body(at).ref.form # "external"
    BY <2>1 DEF LowerSchemaError
  <2>4. CASE body(at).ref # NoRef /\ pc' = "lower_local_ref" /\ stack' = stack
    <3>1. node_count' > 0 /\ node_count' - 1 = node_count
      BY <1>1, <2>1
    <3> QED
      BY <2>1, <2>2, <2>3, <2>4, <3>1, VerdictNext
  <2>5. CASE body(at).ref = NoRef /\ pc' = "return" /\ stack' = Append(stack, KeywordsCall(at, n))
    <3>1. Progress(stack', {}, node_count', Len(visiting'))
      BY <1>1, <2>1, <2>2, <2>3, <2>5, ProgressKeywords
    <3> QED
      BY <2>1, <2>5, <3>1, VerdictNext
  <2> QED
    BY <1>6, <2>4, <2>5 DEF LowerObject
<1>7. CASE LowerLocalRefFails
  <2>1. doc' = doc /\ anchors' = anchors /\ pc' = "unwind"
    BY <1>7 DEF LowerLocalRefFails, Fail
  <2>2. Justified'
    BY <1>7, RefFailsJustified
  <2> QED
    BY <2>1, <2>2, VerdictNext
<1>8. CASE LowerLocalRef
  <2> DEFINE t == Target(body(at).ref)
             k == node_count - 1
  <2>1. /\ doc' = doc /\ anchors' = anchors /\ pc = "lower_local_ref" /\ pc' = "lower_schema"
        /\ at' = t /\ stack' = Append(stack, RefCall(at, n))
        /\ visiting' = Append(visiting, body(at).ref) /\ node_count' = node_count
        /\ LowerLocalRefError(body(at).ref) = "running"
    BY <1>8 DEF LowerLocalRef
  <2>2. /\ node_count > 0 /\ Progress(stack, {at}, k, n)
        /\ body(at).kind = "object" /\ ~body(at).unsupported
        /\ body(at).ref # NoRef /\ body(at).ref.form # "external"
    BY <2>1 DEF VerdictInv
  <2>3. t \in Loc /\ n < MaxDepth /\ body(at).ref \in Ref
    <3>1. body(at).ref \in Ref \cup {NoRef}
      BY <1>1, BodyType
    <3>2. /\ body(at).ref \in Ref /\ t \in Loc /\ ~(n >= MaxDepth)
      BY <2>1, <3>1, TargetType
    <3> QED
      BY <1>1, <3>2, LoweringAssumption
  <2>4. k \in Nat /\ k + 1 = node_count
    BY <1>1, <2>2
  <2>5. Len(visiting') = n + 1
    BY <1>1, <2>1, <2>3, AppendFacts
  <2> HIDE DEF k
  <2>6. Progress(Append(stack, RefCall(at, n)), {t}, k + 1, n + 1)
    BY <1>1, <2>1, <2>2, <2>3, <2>4, ProgressRef
  <2>7. Progress(stack', {at'}, node_count', Len(visiting'))
    BY <2>1, <2>4, <2>5, <2>6
  <2> QED
    BY <2>1, <2>7, VerdictNext
<1>9. CASE ReturnFromRef
  <2> DEFINE l == Last(stack)
             m == Len(Front(visiting))
  <2>1. /\ doc' = doc /\ anchors' = anchors /\ pc = "return" /\ pc' = "return"
        /\ stack # <<>> /\ l.ref # NoRef /\ visiting' = Front(visiting) /\ node_count' = node_count
        /\ stack' = IF body(l.at).siblings THEN Append(Front(stack), KeywordsCall(l.at, m))
                    ELSE Front(stack)
    BY <1>9 DEF ReturnFromRef
  <2>2. Progress(stack, {}, node_count, n)
    BY <2>1 DEF VerdictInv
  <2>3. l \in Frame /\ m = l.depth /\ m \in Nat
    BY <2>1, InnermostDepth
  <2> HIDE DEF m
  <2>4. CASE body(l.at).siblings
    <3>1. Progress(Append(Front(stack), KeywordsCall(l.at, m)), {}, node_count, m)
      BY <1>1, <2>1, <2>2, <2>3, <2>4, ProgressSiblings
    <3>2. Progress(stack', {}, node_count', Len(visiting'))
      BY <2>1, <2>4, <3>1 DEF m
    <3> QED
      BY <2>1, <3>2, VerdictNext
  <2>5. CASE ~body(l.at).siblings
    <3>1. body(l.at).ref # NoRef
      <4>1. PICK D \in SUBSET Loc : Open(D, stack, {})
        BY <2>2 DEF Progress
      <4>2. OpenCall(l, {}, D)
        BY <1>1, <2>1, <4>1, OpenPop
      <4> QED
        BY <2>1, <4>2 DEF OpenCall
    <3>2. Pending(l) = <<>>
      BY <2>1, <2>5, <3>1 DEF Pending, LoweredKids
    <3>3. Progress(stack', {}, node_count', Len(visiting'))
      BY <1>1, <2>1, <2>2, <2>5, <3>2, ProgressReturn
    <3> QED
      BY <2>1, <3>3, VerdictNext
  <2> QED
    BY <2>4, <2>5
<1>10. CASE LowerNextKid
  <2> DEFINE l == Last(stack)
             g == [l EXCEPT !.todo = Tail(@)]
  <2>1. /\ doc' = doc /\ anchors' = anchors /\ pc = "return" /\ pc' = "lower_schema"
        /\ stack # <<>> /\ l.ref = NoRef /\ l.todo # <<>> /\ at' = Head(l.todo)
        /\ stack' = [stack EXCEPT ![Len(stack)].todo = Tail(@)]
        /\ visiting' = visiting /\ node_count' = node_count
    BY <1>10 DEF LowerNextKid
  <2>2. Progress(stack, {}, node_count, n)
    BY <2>1 DEF VerdictInv
  <2>3. l \in Frame /\ n = l.depth
    BY <2>1, InnermostDepth
  <2>4. g \in Frame
    <3>1. Tail(l.todo) \in Seq(Loc)
      BY <2>1, <2>3, HeadAndTail DEF Frame
    <3> QED
      BY <2>3, <3>1 DEF Frame
  <2>5. stack' = Append(Front(stack), g)
    BY <1>1, <2>1, <2>4, LastReplaced
  <2>6. Progress(Append(Front(stack), g), {Head(l.todo)}, node_count, n)
    BY <1>1, <2>1, <2>2, <2>3, ProgressKid
  <2>7. Progress(stack', {at'}, node_count', Len(visiting'))
    BY <2>1, <2>5, <2>6
  <2> QED
    BY <2>1, <2>7, VerdictNext
<1>11. CASE KeywordsDone
  <2>1. /\ doc' = doc /\ anchors' = anchors /\ pc = "return" /\ pc' = "return"
        /\ stack # <<>> /\ Last(stack).ref = NoRef /\ Last(stack).todo = <<>>
        /\ stack' = Front(stack) /\ visiting' = visiting /\ node_count' = node_count
    BY <1>11 DEF KeywordsDone
  <2>2. Progress(stack, {}, node_count, n)
    BY <2>1 DEF VerdictInv
  <2>3. Pending(Last(stack)) = <<>>
    BY <2>1 DEF Pending
  <2>4. Progress(stack', {}, node_count', Len(visiting'))
    BY <1>1, <2>1, <2>2, <2>3, ProgressReturn
  <2> QED
    BY <2>1, <2>4, VerdictNext
<1>12. CASE Compiled
  <2>1. /\ doc' = doc /\ anchors' = anchors /\ pc = "return" /\ pc' = "done" /\ stack = <<>>
        /\ outcome' = "ok" /\ node_count' = node_count
    BY <1>12 DEF Compiled
  <2>2. Progress(<<>>, {}, node_count, n)
    BY <2>1 DEF VerdictInv
  <2>3. node_count <= MaxNodes
    BY <2>1 DEF BudgetInv
  <2>4. /\ ~Cyclic /\ \A l \in Needed : ~Unsound(l)
        /\ RefDepth <= MaxDepth /\ Calls <= MaxNodes /\ node_count = Calls
    BY <1>1, <2>2, <2>3, AllLowered
  <2>5. ~HasDuplicateAnchor
    <3>1. \A m \in Name : Anchored(m) = {anchors[m]} \ {NoLoc}
      BY <2>1 DEF AnchorsExact
    <3> QED
      BY <3>1 DEF HasDuplicateAnchor
  <2>6. Justified'
    BY <2>1, <2>4, <2>5, JustifiedNext
  <2> QED
    BY <2>1, <2>6, VerdictNext
<1>13. CASE Unwind
  <2>1. /\ doc' = doc /\ anchors' = anchors /\ pc = "unwind" /\ pc' \in {"unwind", "done"}
        /\ outcome' = outcome /\ node_count' = node_count
    BY <1>13 DEF Unwind
  <2>2. Justified
    BY <2>1 DEF VerdictInv
  <2>3. Justified'
    BY <2>1, <2>2, JustifiedStays
  <2> QED
    BY <2>1, <2>3, VerdictNext
<1>14. CASE UNCHANGED vars
  BY <1>14, VerdictStutters
<1> QED
  BY <1>2, <1>3, <1>4, <1>5, <1>6, <1>7, <1>8, <1>9, <1>10, <1>11, <1>12, <1>13, <1>14
     DEF Next, Done

(* VerdictExact: whatever the document and both limits, the verdict of     *)
(* compile_value is the one the document deserves.                         *)
THEOREM VerdictCorrect == Spec => []VerdictExact
<1>1. Init => VerdictInv
  BY DEF Init, VerdictInv
<1>2. VerdictInv => VerdictExact
  BY DEF VerdictInv, VerdictExact
<1>3. TypeOK /\ TypeOK' /\ AnchorsExact /\ AnchorsExact' /\ WellNested(visiting, stack)
        /\ BudgetInv /\ VerdictInv /\ [Next]_vars => VerdictInv'
  BY VerdictStep
<1> QED
  BY <1>1, <1>2, <1>3, TypeCorrect, AnchorsCorrect, NestingStays, BudgetStays, PTL DEF Spec
=============================================================================
