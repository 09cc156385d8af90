-------------------------- MODULE EvaluationProofs --------------------------
(***************************************************************************)
(* Invariants of Evaluation for every set of tasks and every MAX_DEPTH.    *)
(***************************************************************************)
EXTENDS Evaluation, SequenceTheorems, FiniteSetTheorems, WellFoundedInduction, TLAPS

(* What happens to a stack whose innermost frame is replaced.              *)
LEMMA ReplaceFacts ==
  ASSUME NEW s \in Seq(Frame), s # <<>>, NEW f \in Frame
  PROVE  LET t == [s EXCEPT ![Len(s)] = f]
         IN /\ t \in Seq(Frame) /\ Len(t) = Len(s) /\ t # <<>>
            /\ t[Len(s)] = f
            /\ \A i \in 1 .. Len(s) - 1 : t[i] = s[i]
<1>1. Len(s) \in Nat /\ Len(s) >= 1
  BY EmptySeq, LenProperties
<1> DEFINE t == [s EXCEPT ![Len(s)] = f]
<1>2. t \in Seq(Frame) /\ Len(t) = Len(s)
  BY <1>1, ExceptSeq
<1>3. \A i \in 1 .. Len(s) : t[i] = IF i = Len(s) THEN f ELSE s[i]
  BY <1>1, ExceptSeq
<1>4. t # <<>> /\ t[Len(s)] = f /\ \A i \in 1 .. Len(s) - 1 : t[i] = s[i]
  <2>1. Len(t) # 0
    BY <1>1, <1>2
  <2>2. QED BY <1>1, <1>3, <2>1, EmptySeq
<1>5. QED BY <1>2, <1>4

(* What is left of a stack whose innermost frame is popped.                *)
LEMMA PopFacts ==
  ASSUME NEW s \in Seq(Frame), s # <<>>
  PROVE  LET t == SubSeq(s, 1, Len(s) - 1)
         IN /\ t \in Seq(Frame) /\ Len(t) = Len(s) - 1
            /\ \A i \in 1 .. Len(s) - 1 : t[i] = s[i]
<1>1. Len(s) \in Nat /\ Len(s) >= 1 /\ \A i \in 1 .. Len(s) : s[i] \in Frame
  BY EmptySeq, LenProperties, ElementOfSeq
<1> DEFINE n == Len(s) - 1
<1>2. n \in Int /\ 1 \in Int /\ \A i \in 1 .. n : s[i] \in Frame
  BY <1>1
<1>3. /\ SubSeq(s, 1, n) \in Seq(Frame)
      /\ Len(SubSeq(s, 1, n)) = IF 1 <= n THEN n - 1 + 1 ELSE 0
      /\ \A i \in 1 .. n - 1 + 1 : SubSeq(s, 1, n)[i] = s[1 + i - 1]
  BY <1>2, SubSeqProperties
<1>4. n >= 0 /\ n - 1 + 1 = n /\ \A i \in 1 .. n : 1 + i - 1 = i
  BY <1>1
<1>5. Len(SubSeq(s, 1, n)) = n /\ \A i \in 1 .. n : SubSeq(s, 1, n)[i] = s[i]
  BY <1>2, <1>3, <1>4
<1>6. QED BY <1>3, <1>5

(* What an appended frame leaves as it was.                                *)
LEMMA PushFacts ==
  ASSUME NEW s \in Seq(Frame), NEW f \in Frame
  PROVE  LET t == Append(s, f)
         IN /\ t \in Seq(Frame) /\ Len(t) = Len(s) + 1 /\ t # <<>>
            /\ t[Len(s) + 1] = f
            /\ \A i \in 1 .. Len(s) : t[i] = s[i]
OBVIOUS

(* The frames of an open evaluation, and the last one when there is one.   *)
LEMMA StackFacts ==
  ASSUME NEW s \in Seq(Frame)
  PROVE  /\ Len(s) \in Nat
         /\ \A i \in 1 .. Len(s) : s[i] \in Frame
         /\ s # <<>> => Len(s) >= 1 /\ s[Len(s)] \in Frame
<1>1. Len(s) \in Nat /\ \A i \in 1 .. Len(s) : s[i] \in Frame
  BY LenProperties, ElementOfSeq
<1>2. QED BY <1>1, EmptySeq

(* The parts of a task that an evaluation reads.                           *)
LEMMA TaskFacts ==
  ASSUME task \in Task
  PROVE  /\ \A s \in Schema :
              /\ body(s).id \in Relative \cup {NoRelative}
              /\ body(s).keywords \in Seq(Keyword)
         /\ \A u \in Uri, r \in Relative : task.resolve[u][r] \in Uri
         /\ \A v \in Value : task.parts[v] \in Seq(Value)
         /\ \A u \in Uri, f \in Fragment : task.target[u][f] \in Schema \cup {NoSchema}
         /\ task.base \in Uri /\ task.root \in Schema /\ task.instance \in Value
BY DEF Task, Body, body

(* The fields of the keyword at the head of a list of keywords.            *)
LEMMA KeywordFacts ==
  ASSUME NEW ks \in Seq(Keyword), ks # <<>>
  PROVE  /\ Head(ks) \in Keyword /\ Tail(ks) \in Seq(Keyword)
         /\ Head(ks).uri \in Relative \cup {NoRelative}
<1>1. Head(ks) \in Keyword /\ Tail(ks) \in Seq(Keyword)
  BY HeadTailProperties
<1>2. QED BY <1>1 DEF Keyword

(* A keyword only ever evaluates schemas and values of the task.           *)
LEMMA CallsOfType ==
  ASSUME task \in Task, NEW k \in Keyword, NEW v \in Value, NEW base \in Uri
  PROVE  CallsOf(k, v, base) \in Seq(Call)
<1> DEFINE on(s, values) == [i \in DOMAIN values |-> [schema |-> s, value |-> values[i]]]
           target == resolve_ref(k, base)
<1>1. ASSUME NEW s \in Schema, NEW values \in Seq(Value)
      PROVE  on(s, values) \in Seq(Call)
  <2>1. \A i \in 1 .. Len(values) : values[i] \in Value
    BY ElementOfSeq
  <2>2. \A i \in 1 .. Len(values) : [schema |-> s, value |-> values[i]] \in Call
    BY <2>1 DEF Call
  <2>3. DOMAIN values = 1 .. Len(values) /\ Len(values) \in Nat
    BY LenProperties
  <2>4. on(s, values) = [i \in 1 .. Len(values) |-> [schema |-> s, value |-> values[i]]]
    BY <2>3
  <2>5. QED BY <2>2, <2>3, <2>4, IsASeq
<1>2. <<v>> \in Seq(Value) /\ task.parts[v] \in Seq(Value)
  BY TaskFacts
<1>3. target \in Schema \cup {NoSchema}
  <2>1. k.fragment \in Fragment /\ k.uri \in Relative \cup {NoRelative}
    BY DEF Keyword
  <2>2. QED BY <2>1, TaskFacts, EvaluationAssumption DEF resolve_ref
<1>4. CASE k.name = "ref"
  <2>1. CallsOf(k, v, base) = IF target = NoSchema THEN <<>> ELSE on(target, <<v>>)
    BY <1>4 DEF CallsOf
  <2>2. target # NoSchema => on(target, <<v>>) \in Seq(Call)
    BY <1>1, <1>2, <1>3
  <2>3. QED BY <2>1, <2>2
<1>0. CASE k.name \in {"allOf", "anyOf", "oneOf", "each", "contains"} /\ v \notin k.about
  <2>1. CallsOf(k, v, base) = <<>>
    BY <1>0 DEF CallsOf
  <2>2. QED BY <2>1
<1>5. CASE k.name \in {"not", "if"} \/ (k.name \in {"each", "contains"} /\ v \in k.about)
  <2>1. k.schemas[1] \in Schema
    BY <1>5, ElementOfSeq, EmptySeq DEF Keyword
  <2>2. CallsOf(k, v, base) = IF k.name \in {"not", "if"} THEN on(k.schemas[1], <<v>>)
                              ELSE on(k.schemas[1], task.parts[v])
    BY <1>5 DEF CallsOf
  <2>3. QED BY <1>1, <1>2, <2>1, <2>2
<1>6. CASE k.name \in {"allOf", "anyOf", "oneOf"} /\ v \in k.about
  <2>1. k.schemas \in Seq(Schema)
    BY <1>6 DEF Keyword
  <2>2. CallsOf(k, v, base) = [i \in DOMAIN k.schemas |-> [schema |-> k.schemas[i], value |-> v]]
    BY <1>6 DEF CallsOf
  <2>3. DOMAIN k.schemas = 1 .. Len(k.schemas) /\ Len(k.schemas) \in Nat
    BY <2>1, LenProperties
  <2>4. \A i \in 1 .. Len(k.schemas) : [schema |-> k.schemas[i], value |-> v] \in Call
    BY <2>1, ElementOfSeq DEF Call
  <2>5. CallsOf(k, v, base) = [i \in 1 .. Len(k.schemas) |-> [schema |-> k.schemas[i], value |-> v]]
    BY <2>2, <2>3
  <2>6. QED BY <2>3, <2>4, <2>5, IsASeq
<1>7. QED BY <1>0, <1>4, <1>5, <1>6 DEF Keyword, KeywordName

(* Going on to other keywords changes nothing else of a frame.             *)
LEMMA StartingFacts ==
  ASSUME task \in Task, NEW f \in Frame, NEW ks \in Seq(Keyword), NEW base \in Uri
  PROVE  LET g == Starting(f, ks, base)
         IN /\ g \in Frame
            /\ g.schema = f.schema /\ g.value = f.value /\ g.out = f.out
            /\ g.entry_depth = f.entry_depth /\ g.saved_base = f.saved_base
            /\ g.keywords = ks
<1> DEFINE calls == IF ks = <<>> THEN <<>> ELSE CallsOf(Head(ks), f.value, base)
<1>1. f.value \in Value
  BY DEF Frame
<1>2. calls \in Seq(Call)
  <2>1. CASE ks = <<>>
    BY <2>1
  <2>2. CASE ks # <<>>
    BY <1>1, <2>2, CallsOfType, KeywordFacts
  <2>3. QED BY <2>1, <2>2
<1>3. Starting(f, ks, base) = [f EXCEPT !.keywords = ks, !.count = 0, !.calls = calls]
  BY DEF Starting
<1> HIDE DEF calls
<1>4. [f EXCEPT !.keywords = ks, !.count = 0, !.calls = calls] \in Frame
  BY <1>2 DEF Frame
<1>5. QED BY <1>3, <1>4 DEF Frame

(* merge never loses an abort.                                             *)
LEMMA MergeFacts ==
  /\ \A a, b \in Output : merge(a, b) \in Output
  /\ \A a, b : (a = "aborted" \/ b = "aborted") => merge(a, b) = "aborted"
BY DEF merge, Output

(* A frame that is done with its keyword.                                  *)
LEMMA NextKeywordFacts ==
  ASSUME task \in Task, NEW f \in Frame, f.keywords # <<>>, NEW out \in Output,
         NEW base \in Uri
  PROVE  LET g == NextKeyword(f, out, base)
         IN /\ g \in Frame
            /\ g.schema = f.schema /\ g.out = merge(f.out, out)
            /\ g.entry_depth = f.entry_depth /\ g.saved_base = f.saved_base
<1> DEFINE h == [f EXCEPT !.out = merge(f.out, out)]
<1>1. f.out \in Output /\ f.keywords \in Seq(Keyword)
  BY DEF Frame
<1>2. h \in Frame /\ h.out = merge(f.out, out) /\ h.schema = f.schema
      /\ h.entry_depth = f.entry_depth /\ h.saved_base = f.saved_base
  BY <1>1, MergeFacts DEF Frame
<1>3. Tail(f.keywords) \in Seq(Keyword)
  BY <1>1, KeywordFacts
<1>4. NextKeyword(f, out, base) = Starting(h, Tail(f.keywords), base)
  BY DEF NextKeyword
<1> DEFINE g == NextKeyword(f, out, base)
<1>5. g = Starting(h, Tail(f.keywords), base)
  BY <1>4
<1> HIDE DEF h, g
<1>6. /\ g \in Frame /\ g.schema = h.schema /\ g.out = h.out
      /\ g.entry_depth = h.entry_depth /\ g.saved_base = h.saved_base
  BY <1>2, <1>3, <1>5, StartingFacts
<1>7. QED BY <1>2, <1>6 DEF g

-----------------------------------------------------------------------------
(* Where the frames stand: a call that waits for an answer has a keyword   *)
(* to answer to.                                                           *)
Control ==
  /\ pc = "apply" => stack # <<>>
  /\ \A i \in 1 .. Len(stack) :
       i < Len(stack) \/ pc # "apply" => stack[i].keywords # <<>>

KeywordStep ==
  \/ UnresolvedRef \/ EndOfLoop
  \/ RefAnswered \/ MergeAnswered \/ CountAnswered \/ NotAnswered \/ IfAnswered

(* Every step inside a keyword replaces the innermost frame by one of the  *)
(* same call, in which an abort that was there or just arrived remains.    *)
LEMMA KeywordStepFacts ==
  ASSUME TypeOK, Control, KeywordStep
  PROVE  /\ stack # <<>> /\ top \in Frame /\ top.keywords # <<>>
         /\ pc' = "apply" /\ effective_base_uri' \in Uri
         /\ \E f \in Frame :
              /\ stack' = [stack EXCEPT ![Len(stack)] = f]
              /\ f.schema = top.schema
              /\ f.entry_depth = top.entry_depth /\ f.saved_base = top.saved_base
              /\ top.out = "aborted" => f.out = "aborted"
              /\ pc = "return" /\ answer = "aborted" => f.out = "aborted"
              /\ tainted' # tainted => f.out = "aborted"
<1>1. pc \in {"apply", "return"} /\ pc' = "apply" /\ stack # <<>>
  BY DEF KeywordStep, UnresolvedRef, EndOfLoop, RefAnswered, MergeAnswered, CountAnswered,
     NotAnswered, IfAnswered, Answered, Control
<1>2. top \in Frame /\ Len(stack) \in Nat /\ Len(stack) >= 1
  BY <1>1, StackFacts DEF TypeOK, top
<1>3. top.keywords # <<>>
  <2>1. CASE pc = "apply"
    BY <1>1, <2>1 DEF KeywordStep, UnresolvedRef, EndOfLoop, RefAnswered, MergeAnswered,
       CountAnswered, NotAnswered, IfAnswered, Answered
  <2>2. CASE pc = "return"
    BY <1>2, <2>2 DEF Control, top
  <2>3. QED BY <1>1, <2>1, <2>2
<1>4. effective_base_uri' \in Uri
  <2>1. top.ref_base \in Uri /\ effective_base_uri \in Uri
    BY <1>2 DEF Frame, TypeOK
  <2>2. QED BY <2>1 DEF KeywordStep, UnresolvedRef, EndOfLoop, RefAnswered, MergeAnswered,
               CountAnswered, NotAnswered, IfAnswered
<1> DEFINE Resumed(f) ==
             /\ f \in Frame
             /\ stack' = [stack EXCEPT ![Len(stack)] = f]
             /\ f.schema = top.schema
             /\ f.entry_depth = top.entry_depth /\ f.saved_base = top.saved_base
             /\ top.out = "aborted" => f.out = "aborted"
             /\ pc = "return" /\ answer = "aborted" => f.out = "aborted"
             /\ tainted' # tainted => f.out = "aborted"
<1>5. task \in Task /\ answer \in Output /\ effective_base_uri \in Uri
  BY DEF TypeOK
<1>6. top.out \in Output /\ top.value \in Value
  BY <1>2 DEF Frame
<1>7. ASSUME NEW out \in Output, NEW base \in Uri,
             stack' = Replace(NextKeyword(top, out, base)),
             pc = "return" /\ answer = "aborted" => out = "aborted",
             tainted' # tainted => out = "aborted"
      PROVE  Resumed(NextKeyword(top, out, base))
  <2> DEFINE g == NextKeyword(top, out, base)
  <2>1. /\ g \in Frame
        /\ g.schema = top.schema /\ g.out = merge(top.out, out)
        /\ g.entry_depth = top.entry_depth /\ g.saved_base = top.saved_base
    BY <1>2, <1>3, <1>5, NextKeywordFacts
  <2>2. stack' = [stack EXCEPT ![Len(stack)] = g]
    BY <1>7 DEF Replace
  <2> HIDE DEF g
  <2>3. Resumed(g)
    BY <1>7, <2>1, <2>2, MergeFacts
  <2>4. QED BY <2>3 DEF g
<1>8. \E f : Resumed(f)
  <2>1. CASE UnresolvedRef
    <3>1. stack' = Replace(NextKeyword(top, "aborted", effective_base_uri))
      BY <2>1 DEF UnresolvedRef
    <3>2. "aborted" \in Output
      BY DEF Output
    <3>3. Resumed(NextKeyword(top, "aborted", effective_base_uri))
      BY <1>5, <1>7, <3>1, <3>2
    <3>4. QED BY <3>3
  <2>2. CASE EndOfLoop
    <3> DEFINE verdict == Verdict(keyword, top.value, top.count)
    <3>1. stack' = Replace(NextKeyword(top, verdict, effective_base_uri)) /\ pc = "apply"
          /\ tainted' = tainted
      BY <2>2 DEF EndOfLoop
    <3>2. verdict \in Output
      BY DEF Verdict, Output
    <3> HIDE DEF verdict
    <3>3. Resumed(NextKeyword(top, verdict, effective_base_uri))
      BY <1>5, <1>7, <3>1, <3>2
    <3>4. QED BY <3>3
  <2>3. CASE RefAnswered
    <3>1. stack' = Replace(NextKeyword(top, answer, effective_base_uri'))
          /\ tainted' = tainted
      BY <2>3 DEF RefAnswered, Answered
    <3>2. Resumed(NextKeyword(top, answer, effective_base_uri'))
      BY <1>4, <1>5, <1>7, <3>1
    <3>3. QED BY <3>2
  <2>4. CASE MergeAnswered
    <3> DEFINE g == [top EXCEPT !.out = merge(@, answer)]
    <3>1. g \in Frame /\ g.out = merge(top.out, answer) /\ g.schema = top.schema
          /\ g.entry_depth = top.entry_depth /\ g.saved_base = top.saved_base
      BY <1>2, <1>5, <1>6, MergeFacts DEF Frame
    <3>2. stack' = [stack EXCEPT ![Len(stack)] = g] /\ tainted' = tainted
      BY <2>4 DEF MergeAnswered, Answered, Replace
    <3> HIDE DEF g
    <3>3. Resumed(g)
      BY <3>1, <3>2, MergeFacts
    <3>4. QED BY <3>3
  <2>5. CASE CountAnswered
    <3>1. tainted' = tainted
      BY <2>5 DEF CountAnswered, Answered
    <3>2. CASE answer = "aborted"
      <4>1. stack' = Replace(NextKeyword(top, "aborted", effective_base_uri))
        BY <2>5, <3>2 DEF CountAnswered
      <4>2. Resumed(NextKeyword(top, "aborted", effective_base_uri))
        BY <1>5, <1>7, <3>1, <3>2, <4>1
      <4>3. QED BY <4>2
    <3>3. CASE answer # "aborted"
      <4> DEFINE one == IF answer = "valid" THEN 1 ELSE 0
                 g == [top EXCEPT !.count = @ + one]
      <4>1. g \in Frame /\ g.out = top.out /\ g.schema = top.schema
            /\ g.entry_depth = top.entry_depth /\ g.saved_base = top.saved_base
        BY <1>2 DEF Frame
      <4>2. stack' = [stack EXCEPT ![Len(stack)] = g]
        BY <2>5, <3>3 DEF CountAnswered, Replace
      <4> HIDE DEF g
      <4>3. Resumed(g)
        BY <3>1, <3>3, <4>1, <4>2
      <4>4. QED BY <4>3
    <3>4. QED BY <3>2, <3>3
  <2>6. CASE NotAnswered
    <3> DEFINE inverse == CASE answer = "aborted" -> "aborted"
                            [] answer = "valid" -> "failed"
                            [] answer = "failed" -> "valid"
    <3>1. stack' = Replace(NextKeyword(top, inverse, effective_base_uri))
          /\ tainted' = tainted
      BY <2>6 DEF NotAnswered, Answered
    <3>2. inverse \in Output /\ (answer = "aborted" => inverse = "aborted")
      BY <1>5 DEF Output
    <3> HIDE DEF inverse
    <3>3. Resumed(NextKeyword(top, inverse, effective_base_uri))
      BY <1>5, <1>7, <3>1, <3>2
    <3>4. QED BY <3>3
  <2>7. CASE IfAnswered
    <3> DEFINE branch == keyword.schemas[IF answer = "valid" THEN 2 ELSE 3]
               calls == <<[schema |-> branch, value |-> top.value]>>
               g == [top EXCEPT !.count = 1, !.calls = calls]
    <3>1. tainted' = tainted /\ keyword.name = "if"
      BY <2>7 DEF IfAnswered, Answered
    <3>2. CASE top.count = 1 \/ answer = "aborted"
      <4>1. stack' = Replace(NextKeyword(top, answer, effective_base_uri))
        BY <2>7, <3>2 DEF IfAnswered
      <4>2. Resumed(NextKeyword(top, answer, effective_base_uri))
        BY <1>5, <1>7, <3>1, <4>1
      <4>3. QED BY <4>2
    <3>3. CASE ~(top.count = 1 \/ answer = "aborted") /\ branch = NoSchema
      <4>1. stack' = Replace(NextKeyword(top, "valid", effective_base_uri))
        BY <2>7, <3>3 DEF IfAnswered
      <4>2. "valid" \in Output
        BY DEF Output
      <4>3. Resumed(NextKeyword(top, "valid", effective_base_uri))
        BY <1>5, <1>7, <3>1, <3>3, <4>1, <4>2
      <4>4. QED BY <4>3
    <3>4. CASE ~(top.count = 1 \/ answer = "aborted") /\ branch # NoSchema
      <4>1. top.keywords \in Seq(Keyword)
        BY <1>2 DEF Frame
      <4>2. keyword \in Keyword
        BY <1>3, <4>1, KeywordFacts DEF keyword
      <4>3. keyword.schemas \in Seq(Schema \cup {NoSchema}) /\ Len(keyword.schemas) = 3
        BY <3>1, <4>2 DEF Keyword
      <4>4. branch \in Schema
        BY <3>4, <4>3, ElementOfSeq
      <4> HIDE DEF branch
      <4>5. calls \in Seq(Call)
        <5>1. [schema |-> branch, value |-> top.value] \in Call
          BY <1>6, <4>4 DEF Call
        <5>2. QED BY <5>1
      <4>6. stack' = [stack EXCEPT ![Len(stack)] = g]
        BY <2>7, <3>4 DEF IfAnswered, Replace, branch
      <4> HIDE DEF calls
      <4>7. g \in Frame /\ g.out = top.out /\ g.schema = top.schema
            /\ g.entry_depth = top.entry_depth /\ g.saved_base = top.saved_base
        BY <1>2, <4>5 DEF Frame
      <4> HIDE DEF g
      <4>8. Resumed(g)
        BY <3>1, <3>4, <4>6, <4>7
      <4>9. QED BY <4>8
    <3>5. QED BY <3>2, <3>3, <3>4
  <2>8. QED BY <2>1, <2>2, <2>3, <2>4, <2>5, <2>6, <2>7 DEF KeywordStep
<1>9. QED BY <1>1, <1>2, <1>3, <1>4, <1>8

(* LeaveObject needs both parts of the output it merges.                   *)
LEMMA LeaveFacts ==
  ASSUME TypeOK, Control, LeaveObject
  PROVE  /\ stack # <<>> /\ top \in Frame
         /\ answer' \in Output
         /\ top.out = "aborted" => answer' = "aborted"
<1>1. stack # <<>>
  BY DEF LeaveObject, Control
<1>2. top \in Frame
  BY <1>1, StackFacts DEF TypeOK, top
<1>3. top.out \in Output
  BY <1>2 DEF Frame
<1> DEFINE asserted == IF top.value \in body(top.schema).accepts THEN "valid" ELSE "failed"
<1>4. asserted \in Output
  BY DEF Output
<1>5. answer' = merge(top.out, asserted)
  BY DEF LeaveObject, Return
<1> HIDE DEF asserted
<1>6. QED BY <1>1, <1>2, <1>3, <1>4, <1>5, MergeFacts

(* The frame EnterObject pushes.                                           *)
LEMMA EnterFacts ==
  ASSUME TypeOK, EnterObject
  PROVE  /\ effective_base_uri' \in Uri
         /\ \E f \in Frame :
              /\ stack' = Append(stack, f)
              /\ f.schema = arg.schema /\ f.out = "valid"
              /\ f.entry_depth = depth /\ f.saved_base = effective_base_uri
         /\ effective_base_uri' =
              IF body(arg.schema).id = NoRelative THEN effective_base_uri
              ELSE task.resolve[effective_base_uri][body(arg.schema).id]
<1> DEFINE b == body(arg.schema)
           base == IF b.id = NoRelative THEN effective_base_uri
                   ELSE task.resolve[effective_base_uri][b.id]
           f == [schema |-> arg.schema, value |-> arg.value, entry_depth |-> depth,
                 saved_base |-> effective_base_uri, ref_base |-> base, keywords |-> <<>>,
                 calls |-> <<>>, count |-> 0, out |-> "valid"]
           g == Starting(f, b.keywords, base)
<1>1. arg.schema \in Schema /\ arg.value \in Value /\ task \in Task
      /\ effective_base_uri \in Uri /\ depth \in Nat
  BY DEF TypeOK, Call
<1>2. b.id \in Relative \cup {NoRelative} /\ b.keywords \in Seq(Keyword)
  BY <1>1, TaskFacts
<1>3. base \in Uri
  BY <1>1, <1>2, TaskFacts
<1>4. f \in Frame
  <2>1. <<>> \in Seq(Keyword) /\ <<>> \in Seq(Call) /\ "valid" \in Output
    BY DEF Output
  <2> HIDE DEF base
  <2>2. QED BY <1>1, <1>3, <2>1 DEF Frame
<1>5. stack' = Append(stack, g) /\ effective_base_uri' = base
  BY DEF EnterObject
<1>6. f.schema = arg.schema /\ f.out = "valid" /\ f.entry_depth = depth
      /\ f.saved_base = effective_base_uri
  OBVIOUS
<1> HIDE DEF f
<1>7. g \in Frame /\ g.schema = f.schema /\ g.out = f.out /\ g.entry_depth = f.entry_depth
      /\ g.saved_base = f.saved_base
  BY <1>1, <1>2, <1>3, <1>4, StartingFacts
<1> HIDE DEF g
<1>8. \E h \in Frame :
        /\ stack' = Append(stack, h)
        /\ h.schema = arg.schema /\ h.out = "valid"
        /\ h.entry_depth = depth /\ h.saved_base = effective_base_uri
  BY <1>5, <1>6, <1>7
<1>9. QED BY <1>3, <1>5, <1>8

(* The frame Descend leaves behind.                                        *)
LEMMA DescendFacts ==
  ASSUME TypeOK, Control, Descend
  PROVE  /\ stack # <<>> /\ top \in Frame /\ top.keywords # <<>>
         /\ arg' \in Call /\ effective_base_uri' \in Uri
         /\ \E f \in Frame :
              /\ stack' = [stack EXCEPT ![Len(stack)] = f]
              /\ f.schema = top.schema /\ f.out = top.out
              /\ f.entry_depth = top.entry_depth /\ f.saved_base = top.saved_base
              /\ f.keywords = top.keywords /\ f.ref_base = effective_base_uri
<1>1. stack # <<>> /\ top.keywords # <<>> /\ top.calls # <<>>
  BY DEF Descend, Control
<1>2. top \in Frame
  BY <1>1, StackFacts DEF TypeOK, top
<1>3. top.calls \in Seq(Call) /\ top.keywords \in Seq(Keyword)
  BY <1>2 DEF Frame
<1>4. Head(top.calls) \in Call /\ Tail(top.calls) \in Seq(Call)
  BY <1>1, <1>3, HeadTailProperties
<1>5. keyword.uri \in Relative \cup {NoRelative}
  BY <1>1, <1>3, KeywordFacts DEF keyword
<1>6. effective_base_uri \in Uri /\ task \in Task
  BY DEF TypeOK
<1>7. effective_base_uri' \in Uri
  BY <1>5, <1>6, TaskFacts DEF Descend
<1> DEFINE calls == Tail(top.calls)
           f == [top EXCEPT !.calls = calls, !.ref_base = effective_base_uri]
<1>8. stack' = [stack EXCEPT ![Len(stack)] = f] /\ arg' = Head(top.calls)
  BY DEF Descend, Replace
<1>9. /\ f \in Frame
      /\ f.schema = top.schema /\ f.out = top.out
      /\ f.entry_depth = top.entry_depth /\ f.saved_base = top.saved_base
      /\ f.keywords = top.keywords /\ f.ref_base = effective_base_uri
  <2> HIDE DEF calls
  <2>1. calls \in Seq(Call)
    BY <1>4 DEF calls
  <2>2. QED BY <1>2, <1>6, <2>1 DEF Frame
<1> HIDE DEF f
<1>10. QED BY <1>1, <1>2, <1>4, <1>7, <1>8, <1>9

-----------------------------------------------------------------------------
(* The evaluation's variables keep their types: every reference that is    *)
(* followed leads to a schema, and no keyword is answered that was not     *)
(* asked.                                                                  *)
THEOREM TypeCorrect == Spec => [](TypeOK /\ Control)
<1>1. Init => TypeOK /\ Control
  <2> SUFFICES ASSUME Init PROVE TypeOK /\ Control
    OBVIOUS
  <2>1. task \in Task
    BY EvaluationAssumption DEF Init
  <2>2. task.root \in Schema /\ task.instance \in Value /\ task.base \in Uri
    BY <2>1, TaskFacts
  <2>3. stack = <<>> /\ Len(stack) = 0
    BY DEF Init
  <2>4. [schema |-> task.root, value |-> task.instance] \in Call
    BY <2>2 DEF Call
  <2>5. stack \in Seq(Frame)
    BY <2>3
  <2>6. TypeOK
    BY <2>1, <2>2, <2>4, <2>5 DEF Init, TypeOK, Output
  <2>7. Control
    BY <2>3 DEF Init, Control
  <2>8. QED BY <2>6, <2>7
<1>2. TypeOK /\ Control /\ [Next]_vars => TypeOK' /\ Control'
  <2> SUFFICES ASSUME TypeOK, Control, [Next]_vars PROVE TypeOK' /\ Control'
    OBVIOUS
  <2>1. CASE TooDeep \/ NotAnObject
    <3>1. answer' \in Output
      BY <2>1 DEF TooDeep, NotAnObject, Return, Output
    <3>2. QED BY <2>1, <3>1 DEF TooDeep, NotAnObject, Return, TypeOK, Control
  <2>2. CASE EnterObject
    <3>1. PICK f \in Frame : stack' = Append(stack, f)
      BY <2>2, EnterFacts
    <3>2. /\ stack' \in Seq(Frame) /\ stack' # <<>> /\ Len(stack') = Len(stack) + 1
          /\ \A i \in 1 .. Len(stack) : stack'[i] = stack[i]
      BY <3>1, PushFacts DEF TypeOK
    <3>3. effective_base_uri' \in Uri
      BY <2>2, EnterFacts
    <3>4. TypeOK'
      BY <2>2, <3>2, <3>3 DEF EnterObject, TypeOK
    <3>5. Len(stack) \in Nat
      BY StackFacts DEF TypeOK
    <3>6. pc = "call" /\ pc' = "apply"
      BY <2>2 DEF EnterObject
    <3>7. \A i \in 1 .. Len(stack) : stack'[i].keywords # <<>>
      BY <3>2, <3>6 DEF Control
    <3>8. \A i \in 1 .. Len(stack') : i < Len(stack') => i \in 1 .. Len(stack)
      BY <3>2, <3>5
    <3>9. Control'
      BY <3>2, <3>6, <3>7, <3>8 DEF Control
    <3>10. QED BY <3>4, <3>9
  <2>3. CASE LeaveObject
    <3>1. /\ stack' \in Seq(Frame) /\ Len(stack') = Len(stack) - 1
          /\ \A i \in 1 .. Len(stack) - 1 : stack'[i] = stack[i]
      BY <2>3, LeaveFacts, PopFacts DEF LeaveObject, Pop, TypeOK
    <3>2. top.saved_base \in Uri /\ top.entry_depth \in Nat
      BY <2>3, LeaveFacts DEF Frame
    <3>3. TypeOK'
      BY <2>3, <3>1, <3>2, LeaveFacts DEF LeaveObject, Return, TypeOK
    <3>4. Len(stack) \in Nat
      BY StackFacts DEF TypeOK
    <3>5. Control'
      BY <2>3, <3>1, <3>4 DEF LeaveObject, Return, Control
    <3>6. QED BY <3>3, <3>5
  <2>4. CASE Descend
    <3>1. PICK f \in Frame : /\ stack' = [stack EXCEPT ![Len(stack)] = f]
                             /\ f.keywords = top.keywords
      BY <2>4, DescendFacts
    <3>2. /\ stack' \in Seq(Frame) /\ Len(stack') = Len(stack)
          /\ stack'[Len(stack)] = f
          /\ \A i \in 1 .. Len(stack) - 1 : stack'[i] = stack[i]
      BY <2>4, <3>1, DescendFacts, ReplaceFacts DEF TypeOK
    <3>3. TypeOK'
      BY <2>4, <3>2, DescendFacts DEF Descend, TypeOK
    <3>4. Len(stack) \in Nat
      BY StackFacts DEF TypeOK
    <3>5. top.keywords # <<>>
      BY <2>4, DescendFacts
    <3>6. Control'
      BY <2>4, <3>1, <3>2, <3>4, <3>5 DEF Descend, Control
    <3>7. QED BY <3>3, <3>6
  <2>5. CASE KeywordStep
    <3>1. PICK f \in Frame : stack' = [stack EXCEPT ![Len(stack)] = f]
      BY <2>5, KeywordStepFacts
    <3>2. /\ stack' \in Seq(Frame) /\ Len(stack') = Len(stack) /\ stack' # <<>>
          /\ \A i \in 1 .. Len(stack) - 1 : stack'[i] = stack[i]
      BY <2>5, <3>1, KeywordStepFacts, ReplaceFacts DEF TypeOK
    <3>3. pc' = "apply" /\ effective_base_uri' \in Uri
      BY <2>5, KeywordStepFacts
    <3>4. /\ task' = task /\ arg' = arg /\ answer' = answer /\ depth' = depth
          /\ tainted' \in BOOLEAN
      BY <2>5 DEF KeywordStep, UnresolvedRef, EndOfLoop, RefAnswered, MergeAnswered,
         CountAnswered, NotAnswered, IfAnswered, Answered, TypeOK
    <3>5. TypeOK'
      BY <3>2, <3>3, <3>4 DEF TypeOK
    <3>6. Len(stack) \in Nat
      BY StackFacts DEF TypeOK
    <3>7. Control'
      BY <3>2, <3>3, <3>6 DEF Control
    <3>8. QED BY <3>5, <3>7
  <2>6. CASE Validated
    BY <2>6 DEF Validated, TypeOK, Control
  <2>7. CASE UNCHANGED vars
    BY <2>7 DEF vars, TypeOK, Control
  <2>8. QED
    BY <2>1, <2>2, <2>3, <2>4, <2>5, <2>6, <2>7 DEF Next, KeywordStep, Done
<1>3. QED BY <1>1, <1>2, PTL DEF Spec

-----------------------------------------------------------------------------
(* AbortNeverLost is inductive.                                            *)
THEOREM AbortsStay == Spec => []AbortNeverLost
<1>1. Init => AbortNeverLost
  BY DEF Init, AbortNeverLost
<1>2. TypeOK /\ Control /\ AbortNeverLost /\ [Next]_vars => AbortNeverLost'
  <2> SUFFICES ASSUME TypeOK, Control, AbortNeverLost, [Next]_vars
               PROVE  AbortNeverLost'
    OBVIOUS
  <2> DEFINE Open == \E i \in 1 .. Len(stack) : stack[i].out = "aborted"
  <2>1. Len(stack) \in Nat /\ stack \in Seq(Frame)
    BY StackFacts DEF TypeOK
  <2>2. CASE TooDeep
    BY <2>2 DEF TooDeep, Return, AbortNeverLost
  <2>3. CASE NotAnObject
    BY <2>3 DEF NotAnObject, Return, AbortNeverLost
  <2>4. CASE EnterObject
    <3>1. PICK f \in Frame : stack' = Append(stack, f)
      BY <2>4, EnterFacts
    <3>2. /\ Len(stack') = Len(stack) + 1
          /\ \A i \in 1 .. Len(stack) : stack'[i] = stack[i]
      BY <2>1, <3>1, PushFacts
    <3>3. pc = "call" /\ tainted' = tainted
      BY <2>4 DEF EnterObject
    <3>4. tainted => Open
      BY <3>3 DEF AbortNeverLost
    <3>5. Open => Open'
      BY <2>1, <3>2
    <3>6. QED BY <3>3, <3>4, <3>5 DEF AbortNeverLost
  <2>5. CASE LeaveObject
    <3>1. /\ Len(stack') = Len(stack) - 1
          /\ \A i \in 1 .. Len(stack) - 1 : stack'[i] = stack[i]
      BY <2>1, <2>5, LeaveFacts, PopFacts DEF LeaveObject, Pop
    <3>2. pc = "apply" /\ pc' = "return" /\ tainted' = tainted
      BY <2>5 DEF LeaveObject, Return
    <3>3. tainted => Open
      BY <3>2 DEF AbortNeverLost
    <3>4. CASE stack[Len(stack)].out = "aborted"
      <4>1. answer' = "aborted"
        BY <2>5, <3>4, LeaveFacts DEF top
      <4>2. QED BY <3>2, <4>1 DEF AbortNeverLost
    <3>5. CASE stack[Len(stack)].out # "aborted"
      <4>1. Open => Open'
        BY <2>1, <3>1, <3>5
      <4>2. QED BY <3>2, <3>3, <4>1 DEF AbortNeverLost
    <3>6. QED BY <3>4, <3>5
  <2>6. CASE Descend
    <3>1. PICK f \in Frame : /\ stack' = [stack EXCEPT ![Len(stack)] = f]
                             /\ f.out = top.out
      BY <2>6, DescendFacts
    <3>2. /\ Len(stack') = Len(stack) /\ stack'[Len(stack)] = f
          /\ \A i \in 1 .. Len(stack) - 1 : stack'[i] = stack[i]
      BY <2>1, <2>6, <3>1, DescendFacts, ReplaceFacts
    <3>3. ASSUME NEW i \in 1 .. Len(stack) PROVE stack'[i].out = stack[i].out
      <4>1. CASE i = Len(stack)
        BY <3>1, <3>2, <4>1 DEF top
      <4>2. CASE i # Len(stack)
        BY <2>1, <3>2, <4>2
      <4>3. QED BY <4>1, <4>2
    <3>4. pc = "apply" /\ tainted' = tainted
      BY <2>6 DEF Descend
    <3>5. tainted => Open
      BY <3>4 DEF AbortNeverLost
    <3>6. Open => Open'
      BY <3>2, <3>3
    <3>7. QED BY <3>4, <3>5, <3>6 DEF AbortNeverLost
  <2>7. CASE KeywordStep
    <3>1. PICK f \in Frame : /\ stack' = [stack EXCEPT ![Len(stack)] = f]
                             /\ top.out = "aborted" => f.out = "aborted"
                             /\ pc = "return" /\ answer = "aborted" => f.out = "aborted"
                             /\ tainted' # tainted => f.out = "aborted"
      BY <2>7, KeywordStepFacts
    <3>2. /\ Len(stack') = Len(stack) /\ stack'[Len(stack)] = f
          /\ \A i \in 1 .. Len(stack) - 1 : stack'[i] = stack[i]
      BY <2>1, <2>7, <3>1, KeywordStepFacts, ReplaceFacts
    <3>3. Len(stack) >= 1
      BY <2>1, <2>7, KeywordStepFacts, StackFacts
    <3>4. f.out = "aborted" => Open'
      BY <2>1, <3>2, <3>3
    <3>5. Open => Open'
      <4>1. ASSUME NEW i \in 1 .. Len(stack), stack[i].out = "aborted" PROVE Open'
        <5>1. CASE i = Len(stack)
          BY <3>1, <3>4, <4>1, <5>1 DEF top
        <5>2. CASE i # Len(stack)
          BY <2>1, <3>2, <4>1, <5>2
        <5>3. QED BY <5>1, <5>2
      <4>2. QED BY <4>1
    <3>6. pc = "done" => FALSE
      BY <2>7 DEF KeywordStep, UnresolvedRef, EndOfLoop, RefAnswered, MergeAnswered,
         CountAnswered, NotAnswered, IfAnswered, Answered
    <3>7. tainted' => Open'
      BY <3>1, <3>4, <3>5, <3>6 DEF AbortNeverLost, TypeOK
    <3>8. QED BY <3>7 DEF AbortNeverLost
  <2>8. CASE Validated
    BY <2>8 DEF Validated, AbortNeverLost
  <2>9. CASE UNCHANGED vars
    BY <2>9 DEF vars, AbortNeverLost
  <2>10. QED
    BY <2>2, <2>3, <2>4, <2>5, <2>6, <2>7, <2>8, <2>9 DEF Next, KeywordStep, Done
<1>3. QED BY <1>1, <1>2, TypeCorrect, PTL DEF Spec

-----------------------------------------------------------------------------
(* The two cells, as a relation between a task t, a stack s, the control p *)
(* and the values d and u of the cells.                                    *)
Own(t, f) ==
  IF t.body[f.schema].id = NoRelative THEN f.saved_base
  ELSE t.resolve[f.saved_base][t.body[f.schema].id]

Below(t, f) ==
  IF LeavesDocument(f) THEN t.resolve[Own(t, f)][Head(f.keywords).uri] ELSE Own(t, f)

Under(t, s, i) == IF i = 0 THEN t.base ELSE Below(t, s[i])

(* EnvironmentRestored needs that apply_ref still knows the base it left.  *)
CellsIn(t, s, p, d, u) ==
  /\ d = Len(s)
  /\ \A i \in 1 .. Len(s) :
       /\ s[i].entry_depth = i - 1 /\ s[i].saved_base = Under(t, s, i - 1)
       /\ (i < Len(s) \/ p # "apply") /\ LeavesDocument(s[i]) => s[i].ref_base = Own(t, s[i])
  /\ u = IF p = "apply" THEN Own(t, s[Len(s)]) ELSE Under(t, s, Len(s))

Cells == CellsIn(task, stack, pc, depth, effective_base_uri)

(* The inductive invariant implies what EnvironmentRestored says.          *)
LEMMA CellsRestored == Cells => EnvironmentRestored
BY DEF Cells, CellsIn, Under, Below, Own, EnvironmentRestored, BaseUnder, BaseBelow, OwnBase, body

(* Frames that agree on their schema and saved base have the same base.    *)
LEMMA SameOwn ==
  ASSUME NEW t, NEW f, NEW g, f.schema = g.schema, f.saved_base = g.saved_base
  PROVE  Own(t, f) = Own(t, g)
BY DEF Own

(* Replacing the innermost frame by one of the same call.                  *)
LEMMA ReplaceKeepsCells ==
  ASSUME NEW t, NEW s \in Seq(Frame), s # <<>>, NEW p, NEW d, NEW u, CellsIn(t, s, p, d, u),
         NEW f, NEW r, Len(r) = Len(s), r[Len(s)] = f,
         \A i \in 1 .. Len(s) - 1 : r[i] = s[i],
         f.schema = s[Len(s)].schema, f.saved_base = s[Len(s)].saved_base,
         f.entry_depth = s[Len(s)].entry_depth,
         NEW q, q # "apply" /\ LeavesDocument(f) => f.ref_base = Own(t, f),
         NEW w, w = IF q = "apply" THEN Own(t, f) ELSE Below(t, f)
  PROVE  CellsIn(t, r, q, d, w)
<1>1. Len(s) \in Nat /\ Len(s) >= 1
  BY StackFacts
<1>2. /\ Len(r) = Len(s) /\ r[Len(s)] = f
      /\ \A i \in 1 .. Len(s) - 1 : r[i] = s[i]
  OBVIOUS
<1>3. \A i \in 1 .. Len(s) : Under(t, r, i - 1) = Under(t, s, i - 1)
  BY <1>1, <1>2 DEF Under
<1>4. ASSUME NEW i \in 1 .. Len(s)
      PROVE  /\ r[i].entry_depth = i - 1 /\ r[i].saved_base = Under(t, r, i - 1)
             /\ (i < Len(r) \/ q # "apply") /\ LeavesDocument(r[i])
                  => r[i].ref_base = Own(t, r[i])
  <2>1. s[i].entry_depth = i - 1 /\ s[i].saved_base = Under(t, s, i - 1)
    BY DEF CellsIn
  <2>2. CASE i = Len(s)
    BY <1>2, <1>3, <2>1, <2>2
  <2>3. CASE i # Len(s)
    <3>1. i < Len(s) /\ r[i] = s[i]
      BY <1>1, <1>2, <2>3
    <3>2. LeavesDocument(s[i]) => s[i].ref_base = Own(t, s[i])
      BY <3>1 DEF CellsIn
    <3>3. QED BY <1>2, <1>3, <2>1, <3>1, <3>2
  <2>4. QED BY <2>2, <2>3
<1>5. w = IF q = "apply" THEN Own(t, r[Len(r)]) ELSE Under(t, r, Len(r))
  BY <1>1, <1>2 DEF Under
<1>6. d = Len(r)
  BY <1>2 DEF CellsIn
<1>7. QED BY <1>2, <1>4, <1>5, <1>6 DEF CellsIn

(* After a step inside a keyword the base is that of its schema object.    *)
LEMMA KeywordBase ==
  ASSUME TypeOK, Control, Cells, KeywordStep
  PROVE  effective_base_uri' = Own(task, top)
<1>1. stack # <<>> /\ top.keywords # <<>> /\ Len(stack) \in Nat /\ Len(stack) >= 1
  BY KeywordStepFacts, StackFacts DEF TypeOK
<1>2. CellsIn(task, stack, pc, depth, effective_base_uri)
  BY DEF Cells
<1>3. CASE UnresolvedRef \/ EndOfLoop
  BY <1>2, <1>3 DEF UnresolvedRef, EndOfLoop, CellsIn, top
<1>4. CASE RefAnswered
  <2>1. pc = "return" /\ keyword.name = "ref"
        /\ effective_base_uri' = IF keyword.uri = NoRelative THEN effective_base_uri
                                 ELSE top.ref_base
    BY <1>4 DEF RefAnswered, Answered
  <2>2. effective_base_uri = Below(task, top)
        /\ (LeavesDocument(top) => top.ref_base = Own(task, top))
    BY <1>1, <1>2, <2>1 DEF CellsIn, top, Under
  <2>3. LeavesDocument(top) <=> keyword.uri # NoRelative
    BY <1>1, <2>1 DEF LeavesDocument, keyword
  <2>4. QED BY <2>1, <2>2, <2>3 DEF Below
<1>5. CASE MergeAnswered \/ CountAnswered \/ NotAnswered \/ IfAnswered
  <2>1. pc = "return" /\ keyword.name # "ref" /\ effective_base_uri' = effective_base_uri
    BY <1>5 DEF MergeAnswered, CountAnswered, NotAnswered, IfAnswered, Answered
  <2>2. effective_base_uri = Below(task, top)
    BY <1>1, <1>2, <2>1 DEF CellsIn, top, Under
  <2>3. ~LeavesDocument(top)
    BY <2>1 DEF LeavesDocument, keyword
  <2>4. QED BY <2>1, <2>2, <2>3 DEF Below
<1>6. QED BY <1>3, <1>4, <1>5 DEF KeywordStep

(* The two cells keep their meaning.                                       *)
LEMMA CellsHold == Spec => []Cells
<1>1. Init => Cells
  <2> SUFFICES ASSUME Init PROVE Cells
    OBVIOUS
  <2>1. stack = <<>> /\ Len(stack) = 0 /\ pc = "call" /\ depth = 0
        /\ effective_base_uri = task.base
    BY DEF Init
  <2>2. QED BY <2>1 DEF Cells, CellsIn, Under
<1>2. TypeOK /\ Control /\ Cells /\ [Next]_vars => Cells'
  <2> SUFFICES ASSUME TypeOK, Control, Cells, [Next]_vars PROVE Cells'
    OBVIOUS
  <2>1. stack \in Seq(Frame) /\ Len(stack) \in Nat
    BY StackFacts DEF TypeOK
  <2>2. CellsIn(task, stack, pc, depth, effective_base_uri)
    BY DEF Cells
  <2>3. SUFFICES CellsIn(task', stack', pc', depth', effective_base_uri')
    BY DEF Cells
  <2>4. CASE TooDeep \/ NotAnObject
    BY <2>2, <2>4 DEF TooDeep, NotAnObject, Return, CellsIn
  <2>5. CASE EnterObject
    <3>1. PICK f \in Frame : /\ stack' = Append(stack, f)
                             /\ f.schema = arg.schema
                             /\ f.entry_depth = depth /\ f.saved_base = effective_base_uri
      BY <2>5, EnterFacts
    <3>2. /\ Len(stack') = Len(stack) + 1 /\ stack'[Len(stack) + 1] = f
          /\ \A i \in 1 .. Len(stack) : stack'[i] = stack[i]
      BY <2>1, <3>1, PushFacts
    <3>3. pc = "call" /\ pc' = "apply" /\ task' = task /\ depth' = depth + 1
      BY <2>5 DEF EnterObject
    <3>4. effective_base_uri' = Own(task, f)
      BY <2>5, <3>1, EnterFacts DEF Own, body
    <3>5. \A i \in 1 .. Len(stack) + 1 : Under(task, stack', i - 1) = Under(task, stack, i - 1)
      BY <2>1, <3>2 DEF Under
    <3>6. ASSUME NEW i \in 1 .. Len(stack')
          PROVE  /\ stack'[i].entry_depth = i - 1
                 /\ stack'[i].saved_base = Under(task, stack', i - 1)
                 /\ i < Len(stack') /\ LeavesDocument(stack'[i])
                      => stack'[i].ref_base = Own(task, stack'[i])
      <4>1. CASE i = Len(stack) + 1
        <5>1. effective_base_uri = Under(task, stack, Len(stack)) /\ depth = Len(stack)
          BY <2>2, <3>3 DEF CellsIn
        <5>2. i - 1 = Len(stack)
          BY <2>1, <4>1
        <5>3. QED BY <2>1, <3>1, <3>2, <3>5, <4>1, <5>1, <5>2
      <4>2. CASE i # Len(stack) + 1
        <5>1. i \in 1 .. Len(stack) /\ stack'[i] = stack[i]
          BY <2>1, <3>2, <4>2
        <5>2. /\ stack[i].entry_depth = i - 1 /\ stack[i].saved_base = Under(task, stack, i - 1)
              /\ LeavesDocument(stack[i]) => stack[i].ref_base = Own(task, stack[i])
          BY <2>2, <3>3, <5>1 DEF CellsIn
        <5>3. QED BY <2>1, <3>5, <5>1, <5>2
      <4>3. QED BY <4>1, <4>2
    <3>7. depth' = Len(stack')
      BY <2>2, <3>2, <3>3 DEF CellsIn
    <3>8. effective_base_uri' = Own(task, stack'[Len(stack')])
      BY <3>2, <3>4
    <3>9. QED BY <3>3, <3>6, <3>7, <3>8 DEF CellsIn
  <2>6. CASE LeaveObject
    <3>1. /\ Len(stack') = Len(stack) - 1 /\ Len(stack) >= 1
          /\ \A i \in 1 .. Len(stack) - 1 : stack'[i] = stack[i]
      BY <2>1, <2>6, LeaveFacts, PopFacts, StackFacts DEF LeaveObject, Pop
    <3>2. /\ pc' = "return" /\ task' = task /\ depth' = stack[Len(stack)].entry_depth
          /\ effective_base_uri' = stack[Len(stack)].saved_base
      BY <2>6 DEF LeaveObject, Return, top
    <3>3. \A i \in 1 .. Len(stack) : Under(task, stack', i - 1) = Under(task, stack, i - 1)
      BY <2>1, <3>1 DEF Under
    <3>4. ASSUME NEW i \in 1 .. Len(stack')
          PROVE  /\ stack'[i].entry_depth = i - 1
                 /\ stack'[i].saved_base = Under(task, stack', i - 1)
                 /\ LeavesDocument(stack'[i]) => stack'[i].ref_base = Own(task, stack'[i])
      <4>1. i \in 1 .. Len(stack) /\ i < Len(stack) /\ stack'[i] = stack[i]
        BY <2>1, <3>1
      <4>2. /\ stack[i].entry_depth = i - 1 /\ stack[i].saved_base = Under(task, stack, i - 1)
            /\ LeavesDocument(stack[i]) => stack[i].ref_base = Own(task, stack[i])
        BY <2>2, <4>1 DEF CellsIn
      <4>3. QED BY <3>3, <4>1, <4>2
    <3>5. /\ stack[Len(stack)].entry_depth = Len(stack) - 1
          /\ stack[Len(stack)].saved_base = Under(task, stack, Len(stack) - 1)
      BY <2>1, <2>2, <3>1 DEF CellsIn
    <3>6. effective_base_uri' = Under(task, stack', Len(stack'))
      BY <2>1, <3>1, <3>2, <3>3, <3>5
    <3>7. QED BY <3>1, <3>2, <3>4, <3>5, <3>6 DEF CellsIn
  <2>7. CASE Descend
    <3>1. PICK f \in Frame :
            /\ stack' = [stack EXCEPT ![Len(stack)] = f]
            /\ f.schema = top.schema /\ f.entry_depth = top.entry_depth
            /\ f.saved_base = top.saved_base
            /\ f.keywords = top.keywords /\ f.ref_base = effective_base_uri
      BY <2>7, DescendFacts
    <3>2. stack # <<>> /\ top.keywords # <<>> /\ pc = "apply" /\ pc' = "call" /\ task' = task
          /\ depth' = depth
      BY <2>7, DescendFacts DEF Descend
    <3>3. effective_base_uri = Own(task, top)
      BY <2>2, <3>2 DEF CellsIn, top
    <3>4. Own(task, f) = Own(task, top)
      BY <3>1, SameOwn
    <3>5. effective_base_uri' = Below(task, f)
      BY <2>7, <3>1, <3>2, <3>3, <3>4 DEF Descend, Below, LeavesDocument, keyword
    <3>6. /\ Len(stack') = Len(stack) /\ stack'[Len(stack)] = f
          /\ \A i \in 1 .. Len(stack) - 1 : stack'[i] = stack[i]
      BY <2>1, <3>1, <3>2, ReplaceFacts
    <3>7. f.ref_base = Own(task, f)
      BY <3>1, <3>3, <3>4
    <3>8. QED BY <2>1, <2>2, <3>1, <3>2, <3>5, <3>6, <3>7, ReplaceKeepsCells DEF top
  <2>8. CASE KeywordStep
    <3>1. PICK f \in Frame :
            /\ stack' = [stack EXCEPT ![Len(stack)] = f]
            /\ f.schema = top.schema /\ f.entry_depth = top.entry_depth
            /\ f.saved_base = top.saved_base
      BY <2>8, KeywordStepFacts
    <3>2. stack # <<>> /\ top.keywords # <<>> /\ pc' = "apply"
      BY <2>8, KeywordStepFacts
    <3>3. task' = task /\ depth' = depth
      BY <2>8 DEF KeywordStep, UnresolvedRef, EndOfLoop, RefAnswered, MergeAnswered,
         CountAnswered, NotAnswered, IfAnswered, Answered
    <3>5. effective_base_uri' = Own(task, top)
      BY <2>8, KeywordBase
    <3>6. Own(task, f) = Own(task, top)
      BY <3>1, SameOwn
    <3>7. /\ Len(stack') = Len(stack) /\ stack'[Len(stack)] = f
          /\ \A i \in 1 .. Len(stack) - 1 : stack'[i] = stack[i]
      BY <2>1, <3>1, <3>2, ReplaceFacts
    <3>8. effective_base_uri' = Own(task, f)
      BY <3>5, <3>6
    <3>9. QED BY <2>1, <2>2, <3>1, <3>2, <3>3, <3>7, <3>8, ReplaceKeepsCells DEF top
  <2>9. CASE Validated
    BY <2>2, <2>9 DEF Validated, CellsIn
  <2>10. CASE UNCHANGED vars
    BY <2>2, <2>10 DEF vars
  <2>11. QED
    BY <2>4, <2>5, <2>6, <2>7, <2>8, <2>9, <2>10 DEF Next, KeywordStep, Done
<1>3. QED BY <1>1, <1>2, TypeCorrect, PTL DEF Spec

(* The cells of ValidationContext are restored on every path.              *)
THEOREM EnvironmentCorrect == Spec => []EnvironmentRestored
BY CellsHold, CellsRestored, PTL
-----------------------------------------------------------------------------
(* The reference: the function that Meanings chooses exists.               *)

(* Induction, with the set of the numbers that a property holds of.        *)
LEMMA SetInduction ==
  ASSUME NEW S \in SUBSET Nat, 0 \in S, \A n \in S : n + 1 \in S
  PROVE  S = Nat
<1> SUFFICES ASSUME Nat \ S # {} PROVE FALSE
  OBVIOUS
<1>1. PICK x \in Nat \ S : \A y \in Nat \ S : ~(<<y, x>> \in OpToRel(<, Nat))
  BY NatLessThanWellFounded, WFMin
<1>2. x \in Nat /\ x # 0 /\ x - 1 \in Nat
  OBVIOUS
<1>3. x - 1 \in S
  <2>1. x - 1 < x
    BY <1>2
  <2>2. <<x - 1, x>> \in OpToRel(<, Nat)
    BY <1>2, <2>1 DEF OpToRel
  <2> QED
    BY <1>1, <1>2, <2>2
<1>4. (x - 1) + 1 = x
  BY <1>2
<1> QED
  BY <1>1, <1>3, <1>4

(* The meanings at one level, from those at the level below.               *)
Level(t, g, n) ==
  [s \in Schema |-> [v \in Value |-> [u \in Uri |->
     IF n = 0 THEN "aborted" ELSE SchemaMeaning(t, g, s, v, u)]]]

(* Level zero asks for no level below.                                     *)
LEMMA LevelZero ==
  ASSUME NEW t, NEW g, NEW h
  PROVE  Level(t, g, 0) = Level(t, h, 0)
BY DEF Level

(* Meanings satisfies its own equation.                                    *)
LEMMA MeaningsEquation ==
  ASSUME NEW t
  PROVE  \A n \in 0 .. MaxDepth : Meanings(t)[n] = Level(t, Meanings(t)[n - 1], n)
<1> DEFINE S == {n \in Nat : \E f : f = [m \in 0 .. n |-> Level(t, f[m - 1], m)]}
<1>1. 0 \in S
  <2> DEFINE f == [m \in 0 .. 0 |-> Level(t, 0, 0)]
  <2>1. \A m \in 0 .. 0 : m = 0 /\ f[m] = Level(t, f[m - 1], m)
    BY LevelZero
  <2>2. f = [m \in 0 .. 0 |-> Level(t, f[m - 1], m)]
    BY <2>1
  <2> QED
    BY <2>2
<1>2. ASSUME NEW n \in S PROVE n + 1 \in S
  <2>1. PICK f : f = [m \in 0 .. n |-> Level(t, f[m - 1], m)]
    OBVIOUS
  <2> DEFINE h == [m \in 0 .. n + 1 |-> IF m = n + 1 THEN Level(t, f[n], n + 1) ELSE f[m]]
  <2>2. n \in Nat /\ \A m \in 0 .. n : f[m] = Level(t, f[m - 1], m)
    BY <2>1
  <2>3. ASSUME NEW m \in 0 .. n + 1 PROVE h[m] = Level(t, h[m - 1], m)
    <3>1. CASE m = 0
      <4>1. h[0] = Level(t, f[0 - 1], 0)
        BY <2>2
      <4> HIDE DEF h
      <4> QED
        BY <3>1, <4>1, LevelZero
    <3>2. CASE m \in 1 .. n
      <4>1. h[m] = f[m] /\ h[m - 1] = f[m - 1]
        BY <2>2, <3>2
      <4> HIDE DEF h
      <4> QED
        BY <2>2, <3>2, <4>1
    <3>3. CASE m = n + 1
      <4>1. h[m] = Level(t, f[n], n + 1) /\ h[n] = f[n] /\ m - 1 = n
        BY <2>2, <3>3
      <4> HIDE DEF h
      <4> QED
        BY <3>3, <4>1
    <3> QED
      BY <2>2, <3>1, <3>2, <3>3
  <2>4. h = [m \in 0 .. n + 1 |-> h[m]]
    OBVIOUS
  <2> HIDE DEF h
  <2>5. h = [m \in 0 .. n + 1 |-> Level(t, h[m - 1], m)]
    BY <2>3, <2>4
  <2> QED
    BY <2>2, <2>5
<1>3. MaxDepth \in S
  <2>1. S = Nat
    <3> HIDE DEF S
    <3>1. S \in SUBSET Nat
      BY DEF S
    <3> QED
      BY <1>1, <1>2, <3>1, SetInduction
  <2> QED
    BY <2>1, EvaluationAssumption
<1>4. PICK f : f = [m \in 0 .. MaxDepth |-> Level(t, f[m - 1], m)]
  BY <1>3
<1>5. Meanings(t) = CHOOSE e : e = [n \in 0 .. MaxDepth |-> Level(t, e[n - 1], n)]
  BY DEF Meanings, Level
<1>6. Meanings(t) = [n \in 0 .. MaxDepth |-> Level(t, Meanings(t)[n - 1], n)]
  BY <1>4, <1>5
<1> QED
  BY <1>6
-----------------------------------------------------------------------------
(* The verdict, as a relation between a task t, a stack s, the control p,  *)
(* the call c under way and its answer a.  A frame has applied the first   *)
(* keywords of its schema object, and its output merges their meanings; of *)
(* the calls of the next keyword it has taken some, and its count is that  *)
(* of the answers.                                                         *)

(* resolve_ref and CallsOf, of the task t.                                 *)
Target(t, k, base) ==
  t.target[IF k.uri = NoRelative THEN NoUri ELSE t.resolve[base][k.uri]][k.fragment]

Calls(t, k, v, base) ==
  LET on(s, values) == [i \in DOMAIN values |-> [schema |-> s, value |-> values[i]]]
      target == Target(t, k, base)
  IN CASE k.name = "ref" -> IF target = NoSchema THEN <<>> ELSE on(target, <<v>>)
       [] k.name \in {"not", "if"} -> on(k.schemas[1], <<v>>)
       [] k.name \in {"each", "contains"} /\ v \in k.about -> on(k.schemas[1], t.parts[v])
       [] k.name \in {"allOf", "anyOf", "oneOf"} /\ v \in k.about ->
            [i \in DOMAIN k.schemas |-> [schema |-> k.schemas[i], value |-> v]]
       [] OTHER -> <<>>

(* The base under which keyword k of an object with this base calls.       *)
CallBase(t, k, base) ==
  IF k.name = "ref" /\ k.uri # NoRelative THEN t.resolve[base][k.uri] ELSE base

(* The meanings of the calls cs.                                           *)
Outs(g, cs, u) == [i \in DOMAIN cs |-> g[cs[i].schema][cs[i].value][u]]

Matches(outs, n) == Cardinality({i \in 1 .. n : outs[i] = "valid"})

Branch(k, condition) == k.schemas[IF condition = "valid" THEN 2 ELSE 3]

Mergers == {"allOf", "each"}
Counters == {"anyOf", "oneOf", "contains"}

(* The meanings of the keywords that frame f has applied.                  *)
Applied(t, f) == Len(t.body[f.schema].keywords) - Len(f.keywords)
Settled(t, g, f) ==
  {KeywordMeaning(t, g, t.body[f.schema].keywords[i], f.value, Own(t, f)) : i \in 1 .. Applied(t, f)}

(* All the calls of the keyword that frame f applies.                      *)
First(t, f) == Calls(t, Head(f.keywords), f.value, Own(t, f))
Condition(t, g, f) == Outs(g, First(t, f), Own(t, f))[1]
AllCalls(t, g, f) ==
  IF Head(f.keywords).name = "if" /\ f.count = 1
  THEN <<[schema |-> Branch(Head(f.keywords), Condition(t, g, f)), value |-> f.value]>>
  ELSE First(t, f)

Taken(t, g, f) == Len(AllCalls(t, g, f)) - Len(f.calls)

(* n of the calls have been answered.                                      *)
Applying(t, g, f, n) ==
  LET k == Head(f.keywords)
      outs == Outs(g, AllCalls(t, g, f), CallBase(t, k, Own(t, f)))
  IN /\ n >= 0 /\ Len(f.calls) <= Len(AllCalls(t, g, f))
     /\ \A i \in 1 .. Len(f.calls) : f.calls[i] = AllCalls(t, g, f)[Taken(t, g, f) + i]
     /\ f.out = Merged(Settled(t, g, f)
                         \cup (IF k.name \in Mergers THEN {outs[i] : i \in 1 .. n} ELSE {}))
     /\ k.name \in Counters =>
          f.count = Matches(outs, n) /\ \A i \in 1 .. n : outs[i] # "aborted"
     /\ k.name \notin Mergers \cup Counters => n = 0
     /\ k.name = "if" =>
          \/ f.count = 0
          \/ /\ f.count = 1 /\ Condition(t, g, f) # "aborted"
             /\ Branch(k, Condition(t, g, f)) # NoSchema

OfObject(t, f) ==
  LET ks == t.body[f.schema].keywords
  IN /\ t.body[f.schema].kind = "object"
     /\ Len(f.keywords) <= Len(ks)
     /\ \A i \in 1 .. Len(f.keywords) : f.keywords[i] = ks[Applied(t, f) + i]

Idle(t, g, f) ==
  /\ OfObject(t, f)
  /\ f.keywords = <<>> => f.out = Merged(Settled(t, g, f))
  /\ f.keywords # <<>> => Applying(t, g, f, Taken(t, g, f))

Waiting(t, g, f) == OfObject(t, f) /\ Applying(t, g, f, Taken(t, g, f) - 1)

(* The call that the frame at i waits for, or Validator::validate made.    *)
Deeper(t, i) == Meanings(t)[MaxDepth - i]
Pending(t, s, i) ==
  IF i = 0 THEN [schema |-> t.root, value |-> t.instance]
  ELSE AllCalls(t, Deeper(t, i), s[i])[Taken(t, Deeper(t, i), s[i])]

MeantIn(t, s, p, c, a) ==
  /\ Len(s) <= MaxDepth
  /\ \A i \in 1 .. Len(s) :
       /\ IF i = Len(s) /\ p = "apply" THEN Idle(t, Deeper(t, i), s[i]) ELSE Waiting(t, Deeper(t, i), s[i])
       /\ Pending(t, s, i - 1) = [schema |-> s[i].schema, value |-> s[i].value]
  /\ p = "call" => c = Pending(t, s, Len(s))
  /\ p = "return" =>
       LET call == Pending(t, s, Len(s))
       IN a = Deeper(t, Len(s))[call.schema][call.value][Under(t, s, Len(s))]
  /\ p = "done" => a = Meaning(t)

Meant == MeantIn(task, stack, pc, arg, answer)
(* Merging one more answer.                                                *)
LEMMA MergedFacts ==
  /\ Merged({}) = "valid"
  /\ \A S, a : a \in Output => Merged(S \cup {a}) = merge(Merged(S), a)
  /\ \A S : Merged(S) \in Output
  /\ \A a \in Output : merge(a, "valid") = a
  /\ \A S, R : Merged(S \cup R) = merge(Merged(S), Merged(R))
BY DEF Merged, merge, Output

(* Counting one more answer.                                               *)
LEMMA MatchesFacts ==
  ASSUME NEW outs, NEW n \in Nat
  PROVE  /\ Matches(outs, 0) = 0
         /\ Matches(outs, n) \in Nat
         /\ Matches(outs, n + 1) = Matches(outs, n) + (IF outs[n + 1] = "valid" THEN 1 ELSE 0)
<1> DEFINE S(m) == {i \in 1 .. m : outs[i] = "valid"}
<1>1. IsFiniteSet(S(n)) /\ n + 1 \notin S(n)
  <2>1. IsFiniteSet(1 .. n)
    BY FS_Interval
  <2> QED
    BY <2>1, FS_Subset
<1>2. S(0) = {}
  OBVIOUS
<1>3. S(n + 1) = IF outs[n + 1] = "valid" THEN S(n) \cup {n + 1} ELSE S(n)
  OBVIOUS
<1>4. Cardinality(S(n)) \in Nat
  BY <1>1, FS_CardinalityType
<1> HIDE DEF S
<1>5. Cardinality(S(n + 1)) = Cardinality(S(n)) + (IF outs[n + 1] = "valid" THEN 1 ELSE 0)
  <2>1. CASE outs[n + 1] = "valid"
    <3>1. Cardinality(S(n) \cup {n + 1}) = Cardinality(S(n)) + 1
      BY <1>1, FS_AddElement
    <3> QED
      BY <1>3, <2>1, <3>1
  <2>2. CASE outs[n + 1] # "valid"
    BY <1>3, <1>4, <2>2
  <2> QED
    BY <2>1, <2>2
<1>6. Matches(outs, 0) = Cardinality(S(0)) /\ Matches(outs, n) = Cardinality(S(n))
      /\ Matches(outs, n + 1) = Cardinality(S(n + 1))
  BY DEF Matches, S
<1> QED
  BY <1>2, <1>4, <1>5, <1>6, FS_EmptySet

(* The base of a frame, and the one its calls are made under.              *)
LEMMA OwnType ==
  ASSUME NEW t \in Task, NEW f \in Frame
  PROVE  Own(t, f) \in Uri /\ f.schema \in Schema /\ f.value \in Value
         /\ f.saved_base \in Uri /\ f.keywords \in Seq(Keyword)
         /\ f.out \in Output /\ f.count \in Nat /\ f.calls \in Seq(Call)
<1>1. f.schema \in Schema /\ f.saved_base \in Uri
  BY DEF Frame
<1>2. t.body[f.schema].id \in Relative \cup {NoRelative}
  BY <1>1 DEF Task, Body
<1>3. \A u \in Uri, r \in Relative : t.resolve[u][r] \in Uri
  BY DEF Task
<1> QED
  BY <1>1, <1>2, <1>3 DEF Own, Frame

(* A followed reference moves the base that a frame calls under.           *)
LEMMA BelowIs ==
  ASSUME NEW t, NEW f, f.keywords # <<>>
  PROVE  Below(t, f) = CallBase(t, Head(f.keywords), Own(t, f))
BY DEF Below, CallBase, LeavesDocument

(* CallsOf and its copy.                                                   *)
LEMMA CallsAreCallsOf ==
  ASSUME NEW k, NEW v, NEW base
  PROVE  CallsOf(k, v, base) = Calls(task, k, v, base)
BY DEF CallsOf, Calls, resolve_ref, Target

(* What a keyword calls, by its name.                                      *)
LEMMA CallsAre ==
  ASSUME task \in Task, NEW k \in Keyword, NEW v \in Value, NEW u \in Uri
  PROVE  LET cs == Calls(task, k, v, u) IN
         /\ cs \in Seq(Call)
         /\ k.name = "ref" => cs = IF Target(task, k, u) = NoSchema THEN <<>>
                                   ELSE <<[schema |-> Target(task, k, u), value |-> v]>>
         /\ k.name \in {"not", "if"} => cs = <<[schema |-> k.schemas[1], value |-> v]>>
         /\ k.name \in {"each", "contains"} /\ v \in k.about =>
              cs = [i \in DOMAIN task.parts[v] |-> [schema |-> k.schemas[1], value |-> task.parts[v][i]]]
         /\ k.name \in {"allOf", "anyOf", "oneOf"} /\ v \in k.about =>
              cs = [i \in DOMAIN k.schemas |-> [schema |-> k.schemas[i], value |-> v]]
         /\ v \notin k.about => cs = <<>> /\ k.name \in {"allOf", "each", "contains"}
<1>0. /\ Calls(task, k, v, u) \in Seq(Call)
      /\ k.name \in KeywordName
      /\ v \notin k.about => k.name \in {"allOf", "each", "contains"}
  BY CallsOfType, CallsAreCallsOf DEF Keyword
<1> QED
  BY <1>0 DEF Calls, KeywordName

(* What keyword k means, by the meanings of its calls cs.                  *)
MeansBy(t, g, k, v, u, cs) ==
  LET outs == Outs(g, cs, CallBase(t, k, u))
      meaning == KeywordMeaning(t, g, k, v, u)
  IN /\ k.name = "ref" => /\ Len(cs) <= 1
                          /\ meaning = IF cs = <<>> THEN "aborted" ELSE outs[1]
     /\ k.name \in Mergers => meaning = Merged({outs[i] : i \in 1 .. Len(cs)})
     /\ k.name \in Counters =>
          meaning = IF \E i \in 1 .. Len(cs) : outs[i] = "aborted" THEN "aborted"
                    ELSE Verdict(k, v, Matches(outs, Len(cs)))
     /\ k.name = "not" =>
          /\ Len(cs) = 1
          /\ meaning = IF outs[1] = "aborted" THEN "aborted"
                       ELSE IF outs[1] = "valid" THEN "failed" ELSE "valid"
     /\ k.name = "if" =>
          /\ Len(cs) = 1
          /\ meaning = IF outs[1] = "aborted" THEN "aborted"
                       ELSE IF Branch(k, outs[1]) = NoSchema THEN "valid"
                       ELSE g[Branch(k, outs[1])][v][u]

(* The meaning of a keyword, by those of its first calls.                  *)
LEMMA MeaningFromCalls ==
  ASSUME task \in Task, NEW k \in Keyword, NEW v \in Value, NEW u \in Uri, NEW g
  PROVE  MeansBy(task, g, k, v, u, Calls(task, k, v, u))
<1> DEFINE cs == Calls(task, k, v, u)
           outs == Outs(g, cs, CallBase(task, k, u))
           meaning == KeywordMeaning(task, g, k, v, u)
           branches == [i \in DOMAIN k.schemas |-> g[k.schemas[i]][v][u]]
           members == [i \in DOMAIN task.parts[v] |-> g[k.schemas[1]][task.parts[v][i]][u]]
<1>0. /\ k.name \in KeywordName /\ k.min \in Nat /\ k.max \in Nat
      /\ k.schemas \in Seq(Schema \cup {NoSchema}) /\ task.parts[v] \in Seq(Value)
  BY TaskFacts DEF Keyword
<1>1. cs \in Seq(Call) /\ DOMAIN outs = 1 .. Len(cs) /\ Len(cs) \in Nat
  BY CallsAre DEF Outs
<1>8. CASE v \notin k.about
  <2>1. cs = <<>> /\ k.name \in {"allOf", "each", "contains"} /\ meaning = "valid"
    BY <1>8, CallsAre DEF KeywordMeaning
  <2>2. Len(cs) = 0 /\ {outs[i] : i \in 1 .. Len(cs)} = {} /\ Merged({}) = "valid"
    BY <2>1 DEF Merged
  <2>3. \A n : Verdict(k, v, n) = "valid"
    BY <1>8, <2>1 DEF Verdict
  <2> HIDE DEF cs, outs, meaning
  <2> QED
    BY <2>1, <2>2, <2>3 DEF MeansBy, Mergers, Counters, cs, outs, meaning
<1> SUFFICES ASSUME v \in k.about
             PROVE  MeansBy(task, g, k, v, u, Calls(task, k, v, u))
  BY <1>8
<1>2. CASE k.name = "ref"
  <2>1. cs = IF Target(task, k, u) = NoSchema THEN <<>>
             ELSE <<[schema |-> Target(task, k, u), value |-> v]>>
    BY <1>2, CallsAre
  <2>2. meaning = IF Target(task, k, u) = NoSchema THEN "aborted"
                  ELSE g[Target(task, k, u)][v][CallBase(task, k, u)]
    BY <1>2 DEF KeywordMeaning, Target, CallBase
  <2>3. CASE Target(task, k, u) = NoSchema
    BY <1>2, <2>1, <2>2, <2>3 DEF MeansBy, Mergers, Counters
  <2>4. CASE Target(task, k, u) # NoSchema
    <3>1. cs = <<[schema |-> Target(task, k, u), value |-> v]>> /\ Len(cs) = 1 /\ cs # <<>>
      BY <2>1, <2>4
    <3>2. outs[1] = g[Target(task, k, u)][v][CallBase(task, k, u)]
      BY <3>1 DEF Outs
    <3> QED
      BY <1>2, <2>2, <2>4, <3>1, <3>2 DEF MeansBy, Mergers, Counters
  <2> QED
    BY <2>3, <2>4
<1>3. CASE k.name # "ref"
  <2>1. CallBase(task, k, u) = u
    BY <1>3 DEF CallBase
  <2>2. CASE k.name \in {"allOf", "anyOf", "oneOf"}
    <3>1. cs = [i \in DOMAIN k.schemas |-> [schema |-> k.schemas[i], value |-> v]]
      BY <2>2, CallsAre
    <3>2. outs = branches
      <4> HIDE DEF cs
      <4>1. /\ DOMAIN cs = DOMAIN k.schemas
            /\ \A i \in DOMAIN k.schemas : cs[i].schema = k.schemas[i] /\ cs[i].value = v
        BY <3>1
      <4> QED
        BY <2>1, <4>1 DEF Outs
    <3>3. meaning = IF k.name = "allOf" THEN Merged({branches[i] : i \in DOMAIN branches})
                    ELSE Counted(branches, IF k.name = "anyOf" THEN Nat \ {0} ELSE {1})
      <4>1. k.name = "allOf" => meaning = Merged({branches[i] : i \in DOMAIN branches})
        BY DEF KeywordMeaning
      <4>2. k.name = "anyOf" => meaning = Counted(branches, Nat \ {0})
        BY DEF KeywordMeaning
      <4>3. k.name = "oneOf" => meaning = Counted(branches, {1})
        BY DEF KeywordMeaning
      <4> HIDE DEF meaning, branches
      <4> QED
        BY <2>2, <4>1, <4>2, <4>3
    <3> HIDE DEF cs, meaning
    <3>4. k.name = "allOf" => meaning = Merged({outs[i] : i \in 1 .. Len(cs)})
      <4> HIDE DEF outs
      <4> QED
        BY <1>1, <3>2, <3>3
    <3>5. k.name # "allOf" =>
            meaning = IF \E i \in 1 .. Len(cs) : outs[i] = "aborted" THEN "aborted"
                      ELSE Verdict(k, v, Matches(outs, Len(cs)))
      <4>1. Matches(outs, Len(cs)) \in Nat
        BY <1>1, MatchesFacts
      <4>2. Cardinality({i \in DOMAIN outs : outs[i] = "valid"}) = Matches(outs, Len(cs))
        BY <1>1 DEF Matches
      <4> HIDE DEF outs, branches
      <4> QED
        BY <1>1, <2>2, <3>2, <3>3, <4>1, <4>2 DEF Counted, Verdict
    <3> HIDE DEF outs
    <3> QED
      BY <2>2, <3>4, <3>5 DEF MeansBy, Mergers, Counters, cs, meaning, outs
  <2>3. CASE k.name \in {"each", "contains"}
    <3>1. cs = [i \in DOMAIN task.parts[v] |-> [schema |-> k.schemas[1], value |-> task.parts[v][i]]]
      BY <2>3, CallsAre
    <3>2. outs = members
      <4> HIDE DEF cs
      <4>1. /\ DOMAIN cs = DOMAIN task.parts[v]
            /\ \A i \in DOMAIN task.parts[v] :
                 cs[i].schema = k.schemas[1] /\ cs[i].value = task.parts[v][i]
        BY <3>1
      <4> QED
        BY <2>1, <4>1 DEF Outs
    <3>3. meaning = IF k.name = "each" THEN Merged({members[i] : i \in DOMAIN members})
                    ELSE Counted(members, k.min .. k.max)
      <4>1. k.name = "each" => meaning = Merged({members[i] : i \in DOMAIN members})
        BY DEF KeywordMeaning
      <4>2. k.name = "contains" => meaning = Counted(members, k.min .. k.max)
        BY DEF KeywordMeaning
      <4> HIDE DEF meaning, members
      <4> QED
        BY <2>3, <4>1, <4>2
    <3> HIDE DEF cs, meaning
    <3>4. k.name = "each" => meaning = Merged({outs[i] : i \in 1 .. Len(cs)})
      <4> HIDE DEF outs
      <4> QED
        BY <1>1, <3>2, <3>3
    <3>5. k.name # "each" =>
            meaning = IF \E i \in 1 .. Len(cs) : outs[i] = "aborted" THEN "aborted"
                      ELSE Verdict(k, v, Matches(outs, Len(cs)))
      <4>1. Matches(outs, Len(cs)) \in Nat
        BY <1>1, MatchesFacts
      <4>2. Cardinality({i \in DOMAIN outs : outs[i] = "valid"}) = Matches(outs, Len(cs))
        BY <1>1 DEF Matches
      <4> HIDE DEF outs, members
      <4> QED
        BY <1>0, <1>1, <2>3, <3>2, <3>3, <4>1, <4>2 DEF Counted, Verdict
    <3> HIDE DEF outs
    <3> QED
      BY <2>3, <3>4, <3>5 DEF MeansBy, Mergers, Counters, cs, meaning, outs
  <2>4. CASE k.name \in {"not", "if"}
    <3>1. cs = <<[schema |-> k.schemas[1], value |-> v]>> /\ Len(cs) = 1
      BY <2>4, CallsAre
    <3>2. outs[1] = g[k.schemas[1]][v][u]
      BY <2>1, <3>1 DEF Outs
    <3>3. k.name = "not" => meaning = Counted(<<outs[1]>>, {0})
      BY <3>2 DEF KeywordMeaning
    <3>4. k.name = "if" => meaning = IF outs[1] = "aborted" THEN "aborted"
                              ELSE IF Branch(k, outs[1]) = NoSchema THEN "valid"
                              ELSE g[Branch(k, outs[1])][v][u]
      BY <3>2 DEF KeywordMeaning, Branch
    <3> DEFINE one == <<outs[1]>>
    <3>5. Matches(one, 1) = IF outs[1] = "valid" THEN 1 ELSE 0
      <4>1. one[1] = outs[1]
        OBVIOUS
      <4> HIDE DEF one
      <4>2. Matches(one, 0) = 0 /\ Matches(one, 0 + 1) = Matches(one, 0) + (IF one[0 + 1] = "valid" THEN 1 ELSE 0)
        BY MatchesFacts
      <4> QED
        BY <4>1, <4>2
    <3>6. Counted(one, {0}) = IF outs[1] = "aborted" THEN "aborted"
                              ELSE IF outs[1] = "valid" THEN "failed" ELSE "valid"
      <4>1. DOMAIN one = 1 .. 1 /\ one[1] = outs[1]
        OBVIOUS
      <4>2. Cardinality({i \in DOMAIN one : one[i] = "valid"}) = Matches(one, 1)
        BY <4>1 DEF Matches
      <4>3. (\E i \in DOMAIN one : one[i] = "aborted") <=> outs[1] = "aborted"
        BY <4>1
      <4> HIDE DEF one, outs
      <4> QED
        BY <3>5, <4>2, <4>3 DEF Counted
    <3> HIDE DEF cs, outs, meaning
    <3> QED
      BY <2>4, <3>1, <3>3, <3>4, <3>6 DEF MeansBy, Mergers, Counters, cs, outs, meaning
  <2> QED
    BY <1>0, <1>3, <2>2, <2>3, <2>4 DEF KeywordName
<1> QED
  BY <1>2, <1>3

(* All the fields of a frame that goes on to its next keyword.             *)
LEMMA NextKeywordIs ==
  ASSUME task \in Task, NEW f \in Frame, f.keywords # <<>>, NEW out \in Output,
         NEW base \in Uri
  PROVE  LET h == NextKeyword(f, out, base)
         IN /\ h \in Frame
            /\ h.schema = f.schema /\ h.value = f.value /\ h.saved_base = f.saved_base
            /\ h.keywords = Tail(f.keywords) /\ h.out = merge(f.out, out) /\ h.count = 0
            /\ h.calls = IF Tail(f.keywords) = <<>> THEN <<>>
                         ELSE Calls(task, Head(Tail(f.keywords)), f.value, base)
<1> DEFINE ks == Tail(f.keywords)
           m == merge(f.out, out)
           calls == IF ks = <<>> THEN <<>> ELSE Calls(task, Head(ks), f.value, base)
<1>1. NextKeyword(f, out, base) =
        [[f EXCEPT !.out = m] EXCEPT !.keywords = ks, !.count = 0, !.calls = calls]
  BY CallsAreCallsOf DEF NextKeyword, Starting, Frame
<1>2. NextKeyword(f, out, base) \in Frame
  BY NextKeywordFacts
<1> HIDE DEF ks, m, calls
<1>3. LET h == NextKeyword(f, out, base)
      IN /\ h.schema = f.schema /\ h.value = f.value /\ h.saved_base = f.saved_base
         /\ h.keywords = ks /\ h.out = m /\ h.count = 0 /\ h.calls = calls
  BY <1>1 DEF Frame
<1> QED
  BY <1>2, <1>3 DEF ks, m, calls

(* The calls of a frame are a sequence.                                    *)
LEMMA AllCallsSeq ==
  ASSUME task \in Task, NEW g, NEW f \in Frame, f.keywords # <<>>
  PROVE  /\ Head(f.keywords) \in Keyword
         /\ First(task, f) \in Seq(Call)
         /\ Len(AllCalls(task, g, f)) \in Nat
         /\ DOMAIN AllCalls(task, g, f) = 1 .. Len(AllCalls(task, g, f))
         /\ Head(f.keywords).name # "if" \/ f.count # 1 => AllCalls(task, g, f) = First(task, f)
<1>1. Head(f.keywords) \in Keyword
  BY OwnType, KeywordFacts
<1>2. First(task, f) \in Seq(Call)
  BY <1>1, OwnType, CallsAre DEF First
<1>3. DOMAIN First(task, f) = 1 .. Len(First(task, f)) /\ Len(First(task, f)) \in Nat
  BY <1>2, LenProperties
<1> DEFINE one == <<[schema |-> Branch(Head(f.keywords), Condition(task, g, f)), value |-> f.value]>>
<1>4. DOMAIN one = 1 .. Len(one) /\ Len(one) \in Nat
  OBVIOUS
<1>5. AllCalls(task, g, f) =
        IF Head(f.keywords).name = "if" /\ f.count = 1 THEN one ELSE First(task, f)
  BY DEF AllCalls
<1> HIDE DEF one
<1> QED
  BY <1>1, <1>2, <1>3, <1>4, <1>5

(* A frame that has just turned to its next keyword.                       *)
LEMMA StartMeant ==
  ASSUME task \in Task, NEW g, NEW f \in Frame, OfObject(task, f),
         f.out = Merged(Settled(task, g, f)), f.count = 0,
         f.keywords # <<>> => f.calls = First(task, f)
  PROVE  Idle(task, g, f)
<1>1. ASSUME f.keywords # <<>> PROVE Applying(task, g, f, Taken(task, g, f))
  <2> DEFINE outs == Outs(g, AllCalls(task, g, f), CallBase(task, Head(f.keywords), Own(task, f)))
  <2>1. AllCalls(task, g, f) = f.calls /\ Len(f.calls) \in Nat
    BY <1>1, AllCallsSeq
  <2>2. Taken(task, g, f) = 0
    BY <2>1 DEF Taken
  <2>3. \A i \in 1 .. Len(f.calls) : f.calls[i] = AllCalls(task, g, f)[Taken(task, g, f) + i]
    BY <2>1, <2>2
  <2> HIDE DEF outs
  <2>4. {outs[i] : i \in 1 .. 0} = {} /\ Matches(outs, 0) = 0
    BY MatchesFacts
  <2>5. f.out = Merged(Settled(task, g, f)
                         \cup (IF Head(f.keywords).name \in Mergers THEN {outs[i] : i \in 1 .. 0} ELSE {}))
    BY <2>4
  <2>6. \A i \in 1 .. 0 : outs[i] # "aborted"
    OBVIOUS
  <2> QED
    BY <2>1, <2>2, <2>3, <2>4, <2>5, <2>6 DEF Applying, outs
<1> QED
  BY <1>1 DEF Idle

(* A frame whose keyword has its meaning, and that goes on to the next.    *)
LEMMA NextMeant ==
  ASSUME task \in Task, NEW g, NEW f \in Frame, f.keywords # <<>>, OfObject(task, f),
         NEW out \in Output,
         merge(f.out, out) =
           Merged(Settled(task, g, f)
                    \cup {KeywordMeaning(task, g, Head(f.keywords), f.value, Own(task, f))})
  PROVE  Idle(task, g, NextKeyword(f, out, Own(task, f)))
<1> DEFINE u == Own(task, f)
           h == NextKeyword(f, out, u)
           ks == task.body[f.schema].keywords
           K(i) == KeywordMeaning(task, g, ks[i], f.value, u)
<1>1. u \in Uri /\ f.keywords \in Seq(Keyword) /\ f.schema \in Schema
  BY OwnType
<1>2. ks \in Seq(Keyword)
  BY <1>1, TaskFacts DEF body
<1>3. /\ h \in Frame
      /\ h.schema = f.schema /\ h.value = f.value /\ h.saved_base = f.saved_base
      /\ h.keywords = Tail(f.keywords) /\ h.out = merge(f.out, out) /\ h.count = 0
      /\ h.calls = IF Tail(f.keywords) = <<>> THEN <<>>
                   ELSE Calls(task, Head(Tail(f.keywords)), f.value, u)
  BY <1>1, NextKeywordIs
<1> HIDE DEF h
<1>4. Own(task, h) = u
  BY <1>3, SameOwn
<1>5. /\ Len(Tail(f.keywords)) = Len(f.keywords) - 1 /\ Len(f.keywords) >= 1
      /\ Head(f.keywords) = f.keywords[1]
      /\ \A i \in 1 .. Len(f.keywords) - 1 : Tail(f.keywords)[i] = f.keywords[i + 1]
      /\ Len(f.keywords) \in Nat /\ Len(ks) \in Nat
  BY <1>1, <1>2, HeadTailProperties, EmptySeq, LenProperties
<1>6. /\ task.body[f.schema].kind = "object" /\ Len(f.keywords) <= Len(ks)
      /\ \A i \in 1 .. Len(f.keywords) : f.keywords[i] = ks[Applied(task, f) + i]
      /\ Applied(task, f) = Len(ks) - Len(f.keywords)
  BY DEF OfObject, Applied
<1>7. Applied(task, h) = Applied(task, f) + 1 /\ Applied(task, f) \in Nat
  <2>1. Applied(task, h) = Len(ks) - Len(Tail(f.keywords))
    BY <1>3 DEF Applied
  <2>2. \A m, n \in Nat : n >= 1 /\ n <= m => m - (n - 1) = (m - n) + 1 /\ m - n \in Nat
    OBVIOUS
  <2>3. Applied(task, h) = Len(ks) - (Len(f.keywords) - 1)
    BY <1>5, <2>1
  <2> HIDE DEF ks
  <2> QED
    BY <1>5, <1>6, <2>2, <2>3
<1>8. OfObject(task, h)
  <2>1. ASSUME NEW i \in 1 .. Len(h.keywords) PROVE h.keywords[i] = ks[Applied(task, h) + i]
    <3>1. h.keywords[i] = f.keywords[i + 1] /\ i + 1 \in 1 .. Len(f.keywords)
      BY <1>3, <1>5
    <3>2. f.keywords[i + 1] = ks[Applied(task, f) + (i + 1)]
      BY <1>6, <3>1
    <3>3. Applied(task, f) + (i + 1) = Applied(task, h) + i
      BY <1>7
    <3> QED
      BY <3>1, <3>2, <3>3
  <2>2. Len(h.keywords) <= Len(ks)
    <3>1. \A m, l \in Nat : l <= m => l - 1 <= m
      OBVIOUS
    <3> HIDE DEF ks
    <3> QED
      BY <1>3, <1>5, <1>6, <3>1
  <2> QED
    BY <1>3, <1>6, <2>1, <2>2 DEF OfObject
<1>10. Settled(task, g, h) = Settled(task, g, f) \cup {K(Applied(task, f) + 1)}
  <2>1. Settled(task, g, h) = {K(i) : i \in 1 .. Applied(task, f) + 1}
    BY <1>3, <1>4, <1>7 DEF Settled
  <2>2. Settled(task, g, f) = {K(i) : i \in 1 .. Applied(task, f)}
    BY DEF Settled
  <2>3. 1 .. Applied(task, f) + 1 = (1 .. Applied(task, f)) \cup {Applied(task, f) + 1}
    BY <1>7
  <2> HIDE DEF K
  <2> QED
    BY <2>1, <2>2, <2>3
<1>11. Head(f.keywords) = ks[Applied(task, f) + 1]
  <2>1. 1 \in 1 .. Len(f.keywords)
    BY <1>5
  <2> QED
    BY <1>5, <1>6, <2>1
<1>12. h.out = Merged(Settled(task, g, h))
  BY <1>3, <1>10, <1>11
<1>13. h.keywords # <<>> => h.calls = First(task, h)
  BY <1>3, <1>4 DEF First
<1>14. Idle(task, g, h)
  BY <1>3, <1>8, <1>12, <1>13, StartMeant
<1> QED
  BY <1>14 DEF h

(* The same, where the output has not merged anything of the keyword yet.  *)
LEMMA NextWith ==
  ASSUME task \in Task, NEW g, NEW f \in Frame, f.keywords # <<>>, OfObject(task, f),
         f.out = Merged(Settled(task, g, f)), NEW out \in Output,
         out = KeywordMeaning(task, g, Head(f.keywords), f.value, Own(task, f))
  PROVE  Idle(task, g, NextKeyword(f, out, Own(task, f)))
<1>1. merge(f.out, out) = Merged(Settled(task, g, f) \cup {out})
  BY MergedFacts
<1> QED
  BY <1>1, NextMeant

(* The answer that a waiting frame is given.                               *)
Reply(t, g, f) ==
  LET c == AllCalls(t, g, f)[Taken(t, g, f)] IN g[c.schema][c.value][Below(t, f)]

KeywordOuts(t, g, f) == Outs(g, AllCalls(t, g, f), CallBase(t, Head(f.keywords), Own(t, f)))

(* What the conditions on a frame that applies a keyword say.              *)
LEMMA ApplyingFacts ==
  ASSUME task \in Task, NEW g, NEW f \in Frame, f.keywords # <<>>, NEW n,
         n \in {Taken(task, g, f), Taken(task, g, f) - 1}, Applying(task, g, f, n)
  PROVE  LET k == Head(f.keywords)
             outs == KeywordOuts(task, g, f)
         IN /\ n \in Nat /\ Taken(task, g, f) \in 0 .. Len(AllCalls(task, g, f))
            /\ Len(AllCalls(task, g, f)) \in Nat
            /\ f.calls = <<>> <=> Taken(task, g, f) = Len(AllCalls(task, g, f))
            /\ k.name \in Mergers => f.out = Merged(Settled(task, g, f) \cup {outs[i] : i \in 1 .. n})
            /\ k.name \notin Mergers => f.out = Merged(Settled(task, g, f))
            /\ k.name \in Counters =>
                 f.count = Matches(outs, n) /\ \A i \in 1 .. n : outs[i] # "aborted"
            /\ k.name \notin Mergers \cup Counters => n = 0
<1>1. Len(f.calls) \in Nat /\ (f.calls = <<>> <=> Len(f.calls) = 0)
  BY OwnType, EmptySeq, LenProperties
<1>2. Len(AllCalls(task, g, f)) \in Nat
  BY AllCallsSeq
<1>3. Taken(task, g, f) = Len(AllCalls(task, g, f)) - Len(f.calls)
  BY DEF Taken
<1>4. n >= 0 /\ Len(f.calls) <= Len(AllCalls(task, g, f))
  BY DEF Applying
<1>5. \A a, b \in Nat : b <= a => a - b \in 0 .. a /\ (b = 0 <=> a - b = a)
  OBVIOUS
<1>6. n \in Nat /\ Taken(task, g, f) \in 0 .. Len(AllCalls(task, g, f))
  BY <1>1, <1>2, <1>3, <1>4, <1>5
<1>7. f.calls = <<>> <=> Taken(task, g, f) = Len(AllCalls(task, g, f))
  BY <1>1, <1>2, <1>3, <1>4, <1>5
<1>8. Settled(task, g, f) \cup {} = Settled(task, g, f)
  OBVIOUS
<1> QED
  BY <1>2, <1>6, <1>7, <1>8 DEF Applying, KeywordOuts

(* The answer is the meaning of the call that the frame waits for.         *)
LEMMA ReplyFacts ==
  ASSUME task \in Task, NEW g, NEW f \in Frame, f.keywords # <<>>, Waiting(task, g, f)
  PROVE  LET n == Taken(task, g, f) IN
         /\ n \in 1 .. Len(AllCalls(task, g, f)) /\ n - 1 \in Nat
         /\ Applying(task, g, f, n - 1) /\ OfObject(task, f)
         /\ Reply(task, g, f) = KeywordOuts(task, g, f)[n]
<1> DEFINE n == Taken(task, g, f)
<1>1. Applying(task, g, f, n - 1) /\ OfObject(task, f)
  BY DEF Waiting
<1>2. n - 1 \in Nat /\ n \in 0 .. Len(AllCalls(task, g, f)) /\ Len(AllCalls(task, g, f)) \in Nat
  BY <1>1, ApplyingFacts
<1>3. n \in 1 .. Len(AllCalls(task, g, f))
  BY <1>2
<1>4. n \in DOMAIN AllCalls(task, g, f)
  BY <1>3, AllCallsSeq
<1> HIDE DEF n
<1>5. KeywordOuts(task, g, f)[n] =
        g[AllCalls(task, g, f)[n].schema][AllCalls(task, g, f)[n].value]
         [CallBase(task, Head(f.keywords), Own(task, f))]
  BY <1>4 DEF KeywordOuts, Outs
<1>6. Reply(task, g, f) = KeywordOuts(task, g, f)[n]
  BY <1>5, BelowIs DEF Reply, n
<1> QED
  BY <1>1, <1>2, <1>3, <1>6 DEF n

(* Keywords whose calls are the first ones.                                *)
LEMMA KeywordMeans ==
  ASSUME task \in Task, NEW g, NEW f \in Frame, f.keywords # <<>>
  PROVE  /\ MeansBy(task, g, Head(f.keywords), f.value, Own(task, f), First(task, f))
         /\ Head(f.keywords).name # "if" \/ f.count # 1 =>
              KeywordOuts(task, g, f)
                = Outs(g, First(task, f), CallBase(task, Head(f.keywords), Own(task, f)))
<1>1. Head(f.keywords) \in Keyword /\ f.value \in Value /\ Own(task, f) \in Uri
  BY AllCallsSeq, OwnType
<1>2. Head(f.keywords).name # "if" \/ f.count # 1 => AllCalls(task, g, f) = First(task, f)
  BY AllCallsSeq
<1> QED
  BY <1>1, <1>2, MeaningFromCalls DEF First, KeywordOuts

(* The answers to each kind of keyword leave a frame that means the same.  *)
LEMMA RefMeant ==
  ASSUME task \in Task, NEW g, NEW f \in Frame, f.keywords # <<>>, Waiting(task, g, f),
         Head(f.keywords).name = "ref", Reply(task, g, f) \in Output
  PROVE  Idle(task, g, NextKeyword(f, Reply(task, g, f), Own(task, f)))
<1> DEFINE n == Taken(task, g, f)
<1>1. /\ n \in 1 .. Len(AllCalls(task, g, f)) /\ Applying(task, g, f, n - 1) /\ OfObject(task, f)
      /\ Reply(task, g, f) = KeywordOuts(task, g, f)[n]
  BY ReplyFacts
<1>2. n - 1 = 0 /\ f.out = Merged(Settled(task, g, f))
  BY <1>1, ApplyingFacts DEF Mergers, Counters
<1>3. n = 1 /\ First(task, f) # <<>>
  <2>1. AllCalls(task, g, f) = First(task, f)
    BY AllCallsSeq
  <2> HIDE DEF n
  <2>2. n = 1 /\ Len(First(task, f)) >= 1
    BY <1>1, <1>2, <2>1
  <2> QED
    BY <2>2
<1>4. Reply(task, g, f) = KeywordMeaning(task, g, Head(f.keywords), f.value, Own(task, f))
  <2>1. MeansBy(task, g, Head(f.keywords), f.value, Own(task, f), First(task, f))
    BY KeywordMeans
  <2>2. Reply(task, g, f)
          = Outs(g, First(task, f), CallBase(task, Head(f.keywords), Own(task, f)))[1]
    BY <1>1, <1>3, KeywordMeans
  <2> QED
    BY <1>3, <2>1, <2>2 DEF MeansBy
<1> QED
  BY <1>1, <1>2, <1>4, NextWith

(* "not" inverts its answer, but no abort.                                 *)
LEMMA NotMeant ==
  ASSUME task \in Task, NEW g, NEW f \in Frame, f.keywords # <<>>, Waiting(task, g, f),
         Head(f.keywords).name = "not", NEW out \in Output,
         out = IF Reply(task, g, f) = "aborted" THEN "aborted"
               ELSE IF Reply(task, g, f) = "valid" THEN "failed" ELSE "valid"
  PROVE  Idle(task, g, NextKeyword(f, out, Own(task, f)))
<1> DEFINE n == Taken(task, g, f)
<1>1. /\ n \in 1 .. Len(AllCalls(task, g, f)) /\ Applying(task, g, f, n - 1) /\ OfObject(task, f)
      /\ Reply(task, g, f) = KeywordOuts(task, g, f)[n]
  BY ReplyFacts
<1>2. n - 1 = 0 /\ f.out = Merged(Settled(task, g, f))
  BY <1>1, ApplyingFacts DEF Mergers, Counters
<1>3. n = 1
  <2> HIDE DEF n
  <2> QED
    BY <1>1, <1>2
<1>4. out = KeywordMeaning(task, g, Head(f.keywords), f.value, Own(task, f))
  <2>1. MeansBy(task, g, Head(f.keywords), f.value, Own(task, f), First(task, f))
    BY KeywordMeans
  <2>2. Reply(task, g, f)
          = Outs(g, First(task, f), CallBase(task, Head(f.keywords), Own(task, f)))[1]
    BY <1>1, <1>3, KeywordMeans
  <2> QED
    BY <2>1, <2>2 DEF MeansBy
<1> QED
  BY <1>1, <1>2, <1>4, NextWith

(* A frame of the same call that applies the same keyword.                 *)
LEMMA SameKeyword ==
  ASSUME NEW g, NEW f, NEW h, f.keywords # <<>>,
         h.schema = f.schema, h.value = f.value, h.saved_base = f.saved_base,
         h.keywords = f.keywords, h.count = f.count \/ Head(f.keywords).name # "if"
  PROVE  /\ Own(task, h) = Own(task, f) /\ Settled(task, g, h) = Settled(task, g, f)
         /\ AllCalls(task, g, h) = AllCalls(task, g, f)
         /\ KeywordOuts(task, g, h) = KeywordOuts(task, g, f)
         /\ OfObject(task, f) => OfObject(task, h)
         /\ Condition(task, g, h) = Condition(task, g, f)
<1>1. Own(task, h) = Own(task, f) /\ Applied(task, h) = Applied(task, f)
  BY SameOwn DEF Applied
<1>2. First(task, h) = First(task, f) /\ Condition(task, g, h) = Condition(task, g, f)
  BY <1>1 DEF First, Condition
<1>3. AllCalls(task, g, h) = AllCalls(task, g, f)
  BY <1>2 DEF AllCalls
<1>4. Settled(task, g, h) = Settled(task, g, f)
  BY <1>1 DEF Settled
<1>5. KeywordOuts(task, g, h) = KeywordOuts(task, g, f)
  BY <1>1, <1>3 DEF KeywordOuts
<1>6. OfObject(task, f) => OfObject(task, h)
  BY <1>1 DEF OfObject
<1> QED
  BY <1>1, <1>2, <1>3, <1>4, <1>5, <1>6

(* Keywords that merge or count what they are answered.                    *)
LEMMA MergeMeant ==
  ASSUME task \in Task, NEW g, NEW f \in Frame, f.keywords # <<>>, Waiting(task, g, f),
         Head(f.keywords).name \in Mergers, NEW a \in Output, a = Reply(task, g, f)
  PROVE  Idle(task, g, [f EXCEPT !.out = merge(@, a)])
<1> DEFINE n == Taken(task, g, f)
           m == merge(f.out, a)
           h == [f EXCEPT !.out = m]
           outs == KeywordOuts(task, g, f)
<1>1. /\ n \in 1 .. Len(AllCalls(task, g, f)) /\ n - 1 \in Nat
      /\ Applying(task, g, f, n - 1) /\ OfObject(task, f)
      /\ a = outs[n]
  BY ReplyFacts
<1>2. f.out = Merged(Settled(task, g, f) \cup {outs[i] : i \in 1 .. n - 1})
  BY <1>1, ApplyingFacts
<1>3. /\ h.schema = f.schema /\ h.value = f.value /\ h.saved_base = f.saved_base
      /\ h.keywords = f.keywords /\ h.calls = f.calls /\ h.count = f.count /\ h.out = m
  BY DEF Frame
<1>4. m = Merged(Settled(task, g, f) \cup {outs[i] : i \in 1 .. n})
  <2>1. 1 .. n = (1 .. n - 1) \cup {n}
    BY <1>1
  <2> HIDE DEF n, outs
  <2>2. Settled(task, g, f) \cup {outs[i] : i \in 1 .. n}
          = (Settled(task, g, f) \cup {outs[i] : i \in 1 .. n - 1}) \cup {a}
    BY <1>1, <2>1
  <2> QED
    BY <1>2, <2>2, MergedFacts
<1> HIDE DEF h, m, n
<1>5. /\ AllCalls(task, g, h) = AllCalls(task, g, f) /\ OfObject(task, h)
      /\ KeywordOuts(task, g, h) = outs /\ Settled(task, g, h) = Settled(task, g, f)
  BY <1>1, <1>3, SameKeyword
<1>6. Taken(task, g, h) = n
  BY <1>3, <1>5 DEF Taken, n
<1>7. Applying(task, g, h, n)
  <2>1. n >= 0 /\ Head(h.keywords).name \in Mergers
    BY <1>1, <1>3
  <2>2. /\ Len(h.calls) <= Len(AllCalls(task, g, h))
        /\ \A i \in 1 .. Len(h.calls) : h.calls[i] = AllCalls(task, g, h)[Taken(task, g, h) + i]
    BY <1>1, <1>3, <1>5, <1>6 DEF Applying, n
  <2>3. h.out = Merged(Settled(task, g, h) \cup {outs[i] : i \in 1 .. n})
    BY <1>3, <1>4, <1>5
  <2>4. outs = Outs(g, AllCalls(task, g, h), CallBase(task, Head(h.keywords), Own(task, h)))
    BY <1>5 DEF KeywordOuts
  <2> HIDE DEF outs
  <2> QED
    BY <2>1, <2>2, <2>3, <2>4 DEF Applying, Mergers, Counters
<1>8. Idle(task, g, h)
  BY <1>3, <1>5, <1>6, <1>7 DEF Idle
<1> QED
  BY <1>8 DEF h, m

(* An answer that does not abort is counted.                               *)
LEMMA CountMeant ==
  ASSUME task \in Task, NEW g, NEW f \in Frame, f.keywords # <<>>, Waiting(task, g, f),
         Head(f.keywords).name \in Counters, NEW a \in Output, a = Reply(task, g, f),
         a # "aborted"
  PROVE  Idle(task, g, [f EXCEPT !.count = @ + (IF a = "valid" THEN 1 ELSE 0)])
<1> DEFINE n == Taken(task, g, f)
           m == f.count + (IF a = "valid" THEN 1 ELSE 0)
           h == [f EXCEPT !.count = m]
           outs == KeywordOuts(task, g, f)
<1>0. Head(f.keywords).name \notin Mergers /\ Head(f.keywords).name # "if"
  BY DEF Mergers, Counters
<1>1. /\ n \in 1 .. Len(AllCalls(task, g, f)) /\ n - 1 \in Nat
      /\ Applying(task, g, f, n - 1) /\ OfObject(task, f)
      /\ a = outs[n]
  BY ReplyFacts
<1>2. /\ f.out = Merged(Settled(task, g, f))
      /\ f.count = Matches(outs, n - 1) /\ \A i \in 1 .. n - 1 : outs[i] # "aborted"
  BY <1>0, <1>1, ApplyingFacts
<1>3. /\ h.schema = f.schema /\ h.value = f.value /\ h.saved_base = f.saved_base
      /\ h.keywords = f.keywords /\ h.calls = f.calls /\ h.out = f.out /\ h.count = m
  BY DEF Frame
<1>4. m = Matches(outs, n)
  <2> HIDE DEF n, outs
  <2>1. Matches(outs, (n - 1) + 1)
          = Matches(outs, n - 1) + (IF outs[(n - 1) + 1] = "valid" THEN 1 ELSE 0)
    BY <1>1, MatchesFacts
  <2>2. (n - 1) + 1 = n
    BY <1>1
  <2> QED
    BY <1>1, <1>2, <2>1, <2>2
<1>5. \A i \in 1 .. n : outs[i] # "aborted"
  <2> HIDE DEF n, outs
  <2>1. \A i \in 1 .. n : i = n \/ i \in 1 .. n - 1
    BY <1>1
  <2> QED
    BY <1>1, <1>2, <2>1
<1> HIDE DEF h, m, n
<1>6. /\ AllCalls(task, g, h) = AllCalls(task, g, f) /\ OfObject(task, h)
      /\ KeywordOuts(task, g, h) = outs /\ Settled(task, g, h) = Settled(task, g, f)
  BY <1>0, <1>1, <1>3, SameKeyword
<1>7. Taken(task, g, h) = n
  BY <1>3, <1>6 DEF Taken, n
<1>8. Applying(task, g, h, n)
  <2>1. n >= 0 /\ Head(h.keywords).name \in Counters
    BY <1>1, <1>3
  <2>2. /\ Len(h.calls) <= Len(AllCalls(task, g, h))
        /\ \A i \in 1 .. Len(h.calls) : h.calls[i] = AllCalls(task, g, h)[Taken(task, g, h) + i]
    BY <1>1, <1>3, <1>6, <1>7 DEF Applying, n
  <2>3. h.out = Merged(Settled(task, g, h) \cup {})
    <3>1. Settled(task, g, h) \cup {} = Settled(task, g, h)
      OBVIOUS
    <3> QED
      BY <1>2, <1>3, <1>6, <3>1
  <2>4. outs = Outs(g, AllCalls(task, g, h), CallBase(task, Head(h.keywords), Own(task, h)))
    BY <1>6 DEF KeywordOuts
  <2> HIDE DEF outs
  <2> QED
    BY <1>0, <1>3, <1>4, <1>5, <2>1, <2>2, <2>3, <2>4 DEF Applying
<1>9. Idle(task, g, h)
  BY <1>3, <1>6, <1>7, <1>8 DEF Idle
<1> QED
  BY <1>9 DEF h, m

(* One that does ends the loop.                                            *)
LEMMA CountAborted ==
  ASSUME task \in Task, NEW g, NEW f \in Frame, f.keywords # <<>>, Waiting(task, g, f),
         Head(f.keywords).name \in Counters, Reply(task, g, f) = "aborted"
  PROVE  Idle(task, g, NextKeyword(f, "aborted", Own(task, f)))
<1> DEFINE n == Taken(task, g, f)
           outs == KeywordOuts(task, g, f)
<1>1. /\ n \in 1 .. Len(AllCalls(task, g, f)) /\ Applying(task, g, f, n - 1) /\ OfObject(task, f)
      /\ outs[n] = "aborted"
  BY ReplyFacts
<1>2. Head(f.keywords).name \notin Mergers /\ Head(f.keywords).name # "if"
  BY DEF Mergers, Counters
<1>3. f.out = Merged(Settled(task, g, f))
  BY <1>1, <1>2, ApplyingFacts
<1>4. AllCalls(task, g, f) = First(task, f)
  BY <1>2, AllCallsSeq
<1>5. KeywordMeaning(task, g, Head(f.keywords), f.value, Own(task, f)) = "aborted"
  <2>1. \E i \in 1 .. Len(First(task, f)) : outs[i] = "aborted"
    BY <1>1, <1>4
  <2> HIDE DEF n, outs
  <2> QED
    BY <1>2, <2>1, KeywordMeans DEF MeansBy, outs
<1>6. "aborted" \in Output
  BY DEF Output
<1> QED
  BY <1>1, <1>3, <1>5, <1>6, NextWith

(* The loop of a keyword that merges or counts is over.                    *)
LEMMA EndMeant ==
  ASSUME task \in Task, NEW g, NEW f \in Frame, f.keywords # <<>>, Idle(task, g, f),
         f.calls = <<>>, Head(f.keywords).name # "ref", NEW out \in Output,
         out = Verdict(Head(f.keywords), f.value, f.count)
  PROVE  Idle(task, g, NextKeyword(f, out, Own(task, f)))
<1> DEFINE n == Taken(task, g, f)
           k == Head(f.keywords)
           outs == KeywordOuts(task, g, f)
           R == {outs[i] : i \in 1 .. n}
           meaning == KeywordMeaning(task, g, k, f.value, Own(task, f))
<1>1. Applying(task, g, f, n) /\ OfObject(task, f)
  BY DEF Idle
<1>2. /\ n = Len(AllCalls(task, g, f))
      /\ k.name \in Mergers => f.out = Merged(Settled(task, g, f) \cup R)
      /\ k.name \notin Mergers => f.out = Merged(Settled(task, g, f))
      /\ k.name \in Counters =>
           f.count = Matches(outs, n) /\ \A i \in 1 .. n : outs[i] # "aborted"
      /\ k.name \notin Mergers \cup Counters => n = 0
  BY <1>1, ApplyingFacts
<1>3. k \in Keyword /\ k.name \in KeywordName
  BY AllCallsSeq DEF Keyword
<1>4. CASE k.name \in Mergers
  <2>1. k.name # "if" /\ k.name \notin Counters
    BY <1>4 DEF Mergers, Counters
  <2>2. n = Len(First(task, f))
    BY <1>2, <2>1, AllCallsSeq
  <2>3. meaning = Merged(R)
    <3>1. MeansBy(task, g, k, f.value, Own(task, f), First(task, f))
          /\ outs = Outs(g, First(task, f), CallBase(task, k, Own(task, f)))
      BY <2>1, KeywordMeans
    <3> HIDE DEF k, outs
    <3>2. meaning = Merged({outs[i] : i \in 1 .. Len(First(task, f))})
      BY <1>4, <3>1 DEF MeansBy
    <3> QED
      BY <2>2, <3>2
  <2>4. out = "valid"
    BY <1>4 DEF Verdict, Mergers
  <2>5. f.out \in Output
    BY OwnType
  <2> HIDE DEF meaning, R
  <2>6. merge(f.out, out) = f.out
    BY <2>4, <2>5, MergedFacts
  <2>7. f.out = Merged(Settled(task, g, f) \cup {meaning})
    <3>1. f.out = merge(Merged(Settled(task, g, f)), Merged(R))
      BY <1>2, <1>4, MergedFacts
    <3>2. meaning \in Output
      BY <2>3, MergedFacts
    <3> QED
      BY <2>3, <3>1, <3>2, MergedFacts
  <2> QED
    BY <1>1, <2>6, <2>7, NextMeant DEF meaning
<1>5. CASE k.name \in Counters
  <2>1. k.name # "if" /\ k.name \notin Mergers
    BY <1>5 DEF Mergers, Counters
  <2>2. n = Len(First(task, f))
    BY <1>2, <2>1, AllCallsSeq
  <2>3. meaning = IF \E i \in 1 .. Len(First(task, f)) : outs[i] = "aborted" THEN "aborted"
                  ELSE Verdict(k, f.value, Matches(outs, Len(First(task, f))))
    BY <1>5, <2>1, KeywordMeans DEF MeansBy
  <2>4. out = meaning
    <3> HIDE DEF n, outs, meaning
    <3> QED
      BY <1>2, <1>5, <2>2, <2>3
  <2> QED
    BY <1>1, <1>2, <2>1, <2>4, NextWith
<1>6. CASE k.name \notin Mergers \cup Counters
  <2>1. Len(AllCalls(task, g, f)) = 0
    BY <1>2, <1>6
  <2>2. k.name \in {"not", "if"}
    BY <1>3, <1>6 DEF KeywordName, Mergers, Counters
  <2>3. Len(First(task, f)) = 1
    BY <2>2, KeywordMeans DEF MeansBy
  <2>4. Len(AllCalls(task, g, f)) = 1
    BY <2>3 DEF AllCalls
  <2> QED
    BY <2>1, <2>4
<1> QED
  BY <1>4, <1>5, <1>6

(* A reference that leads nowhere.                                         *)
LEMMA UnresolvedMeant ==
  ASSUME task \in Task, NEW g, NEW f \in Frame, f.keywords # <<>>, Idle(task, g, f),
         f.calls = <<>>, Head(f.keywords).name = "ref"
  PROVE  Idle(task, g, NextKeyword(f, "aborted", Own(task, f)))
<1> DEFINE n == Taken(task, g, f)
<1>1. Applying(task, g, f, n) /\ OfObject(task, f)
  BY DEF Idle
<1>2. n = Len(AllCalls(task, g, f)) /\ n = 0 /\ f.out = Merged(Settled(task, g, f))
  BY <1>1, ApplyingFacts DEF Mergers, Counters
<1>3. First(task, f) = <<>>
  <2>1. AllCalls(task, g, f) = First(task, f) /\ First(task, f) \in Seq(Call)
    BY AllCallsSeq
  <2> QED
    BY <1>2, <2>1, EmptySeq
<1>4. KeywordMeaning(task, g, Head(f.keywords), f.value, Own(task, f)) = "aborted"
  BY <1>3, KeywordMeans DEF MeansBy
<1>5. "aborted" \in Output
  BY DEF Output
<1> QED
  BY <1>1, <1>2, <1>4, <1>5, NextWith

(* "if" is answered for its condition, and then for the branch.            *)
LEMMA IfMeant ==
  ASSUME task \in Task, NEW g, NEW f \in Frame, f.keywords # <<>>, Waiting(task, g, f),
         Head(f.keywords).name = "if", NEW a \in Output, a = Reply(task, g, f)
  PROVE  LET branch == Branch(Head(f.keywords), a)
         IN IF f.count = 1 \/ a = "aborted" THEN Idle(task, g, NextKeyword(f, a, Own(task, f)))
            ELSE IF branch = NoSchema THEN Idle(task, g, NextKeyword(f, "valid", Own(task, f)))
            ELSE Idle(task, g, [f EXCEPT !.count = 1,
                                         !.calls = <<[schema |-> branch, value |-> f.value]>>])
<1> DEFINE n == Taken(task, g, f)
           k == Head(f.keywords)
           u == Own(task, f)
           meaning == KeywordMeaning(task, g, k, f.value, u)
           c == Condition(task, g, f)
<1>1. /\ n \in 1 .. Len(AllCalls(task, g, f)) /\ Applying(task, g, f, n - 1) /\ OfObject(task, f)
      /\ a = KeywordOuts(task, g, f)[n]
  BY ReplyFacts
<1>2. n - 1 = 0 /\ f.out = Merged(Settled(task, g, f))
  BY <1>1, ApplyingFacts DEF Mergers, Counters
<1>3. n = 1
  <2> HIDE DEF n
  <2> QED
    BY <1>1, <1>2
<1>4. CallBase(task, k, u) = u
  BY DEF CallBase
<1>5. c = Outs(g, First(task, f), u)[1]
  BY DEF Condition
<1>6. meaning = IF c = "aborted" THEN "aborted"
                ELSE IF Branch(k, c) = NoSchema THEN "valid"
                ELSE g[Branch(k, c)][f.value][u]
  <2>1. MeansBy(task, g, k, f.value, u, First(task, f))
    BY KeywordMeans
  <2> HIDE DEF k, u, c, meaning
  <2> QED
    BY <1>4, <1>5, <2>1 DEF MeansBy, meaning, k
<1>7. CASE f.count = 1
  <2>1. c # "aborted" /\ Branch(k, c) # NoSchema
    BY <1>1, <1>7 DEF Applying
  <2> DEFINE one == <<[schema |-> Branch(k, c), value |-> f.value]>>
  <2>2. AllCalls(task, g, f) = one
    BY <1>7 DEF AllCalls
  <2>3. a = g[Branch(k, c)][f.value][u]
    <3>1. a = Outs(g, one, u)[1]
      BY <1>1, <1>3, <1>4, <2>2 DEF KeywordOuts
    <3>2. 1 \in DOMAIN one /\ one[1].schema = Branch(k, c) /\ one[1].value = f.value
      OBVIOUS
    <3> HIDE DEF one
    <3> QED
      BY <3>1, <3>2 DEF Outs
  <2>4. a = meaning
    BY <1>6, <2>1, <2>3
  <2> HIDE DEF meaning
  <2>5. Idle(task, g, NextKeyword(f, a, u))
    BY <1>1, <1>2, <2>4, NextWith DEF meaning
  <2> QED
    BY <1>7, <2>5
<1>8. CASE f.count # 1
  <2>1. AllCalls(task, g, f) = First(task, f)
    BY <1>8, AllCallsSeq
  <2>2. a = c
    BY <1>1, <1>3, <1>4, <1>5, <2>1 DEF KeywordOuts
  <2>3. CASE a = "aborted"
    <3>1. a = meaning
      BY <1>6, <2>2, <2>3
    <3>2. Idle(task, g, NextKeyword(f, a, u))
      BY <1>1, <1>2, <3>1, NextWith
    <3> QED
      BY <2>3, <3>2
  <2>4. CASE a # "aborted" /\ Branch(k, a) = NoSchema
    <3>1. "valid" = meaning /\ "valid" \in Output
      BY <1>6, <2>2, <2>4 DEF Output
    <3>2. Idle(task, g, NextKeyword(f, "valid", u))
      BY <1>1, <1>2, <3>1, NextWith
    <3> QED
      BY <1>8, <2>4, <3>2
  <2>5. CASE a # "aborted" /\ Branch(k, a) # NoSchema
    <3> DEFINE one == <<[schema |-> Branch(k, a), value |-> f.value]>>
               h == [f EXCEPT !.count = 1, !.calls = one]
    <3>1. Len(one) = 1
      OBVIOUS
    <3> HIDE DEF one
    <3>2. /\ h.schema = f.schema /\ h.value = f.value /\ h.saved_base = f.saved_base
          /\ h.keywords = f.keywords /\ h.calls = one /\ h.out = f.out /\ h.count = 1
      BY DEF Frame
    <3> HIDE DEF h
    <3>3. Own(task, h) = u /\ Applied(task, h) = Applied(task, f)
      BY <3>2, SameOwn DEF Applied
    <3>4. First(task, h) = First(task, f) /\ Condition(task, g, h) = c
      BY <3>2, <3>3 DEF First, Condition
    <3>5. AllCalls(task, g, h) = one
      BY <2>2, <3>2, <3>4 DEF AllCalls, one
    <3>6. Taken(task, g, h) = 0
      BY <3>1, <3>2, <3>5 DEF Taken
    <3>7. Settled(task, g, h) = Settled(task, g, f) /\ OfObject(task, h)
      BY <1>1, <3>2, <3>3 DEF Settled, OfObject
    <3>8. Settled(task, g, h) \cup {} = Settled(task, g, h)
      OBVIOUS
    <3>9. /\ Len(h.calls) <= Len(AllCalls(task, g, h))
          /\ \A i \in 1 .. Len(h.calls) : h.calls[i] = AllCalls(task, g, h)[Taken(task, g, h) + i]
      BY <3>1, <3>2, <3>5, <3>6
    <3>10. k.name \notin Mergers /\ k.name \notin Counters
      BY DEF Mergers, Counters
    <3>11. Applying(task, g, h, 0)
      BY <1>2, <2>2, <2>5, <3>2, <3>4, <3>7, <3>8, <3>9, <3>10 DEF Applying
    <3>12. Idle(task, g, h)
      BY <3>2, <3>6, <3>7, <3>11 DEF Idle
    <3> QED
      BY <1>8, <2>5, <3>12 DEF h, one
  <2> QED
    BY <2>3, <2>4, <2>5
<1> QED
  BY <1>7, <1>8

(* A frame that makes its next call.                                       *)
LEMMA DescendMeant ==
  ASSUME task \in Task, NEW g, NEW f \in Frame, f.keywords # <<>>, Idle(task, g, f),
         f.calls # <<>>, NEW h, h.schema = f.schema, h.value = f.value,
         h.saved_base = f.saved_base, h.keywords = f.keywords, h.count = f.count,
         h.out = f.out, h.calls = Tail(f.calls)
  PROVE  /\ Waiting(task, g, h) /\ Below(task, h) = Below(task, f)
         /\ AllCalls(task, g, h)[Taken(task, g, h)] = Head(f.calls)
<1> DEFINE cs == Tail(f.calls)
           n == Taken(task, g, f)
<1>1. Applying(task, g, f, n) /\ OfObject(task, f)
  BY DEF Idle
<1>2. /\ f.calls \in Seq(Call) /\ Head(f.calls) = f.calls[1] /\ Len(f.calls) \in Nat
      /\ Len(f.calls) >= 1 /\ Len(cs) = Len(f.calls) - 1
      /\ \A i \in 1 .. Len(f.calls) - 1 : cs[i] = f.calls[i + 1]
  BY OwnType, HeadTailProperties, EmptySeq, LenProperties
<1>3. /\ Len(f.calls) <= Len(AllCalls(task, g, f)) /\ n >= 0
      /\ \A i \in 1 .. Len(f.calls) : f.calls[i] = AllCalls(task, g, f)[n + i]
  BY <1>1 DEF Applying
<1>4. /\ n \in Nat /\ Len(AllCalls(task, g, f)) \in Nat
      /\ n = Len(AllCalls(task, g, f)) - Len(f.calls)
  BY <1>1, ApplyingFacts DEF Taken
<1>5. /\ h.schema = f.schema /\ h.value = f.value /\ h.saved_base = f.saved_base
      /\ h.keywords = f.keywords /\ h.calls = cs /\ h.count = f.count /\ h.out = f.out
  OBVIOUS
<1> HIDE DEF cs, n
<1>6. /\ AllCalls(task, g, h) = AllCalls(task, g, f) /\ OfObject(task, h)
      /\ KeywordOuts(task, g, h) = KeywordOuts(task, g, f)
      /\ Settled(task, g, h) = Settled(task, g, f) /\ Own(task, h) = Own(task, f)
      /\ Condition(task, g, h) = Condition(task, g, f)
  BY <1>1, <1>5, SameKeyword
<1>7. Taken(task, g, h) = n + 1
  <2>1. Taken(task, g, h) = Len(AllCalls(task, g, f)) - (Len(f.calls) - 1)
    BY <1>2, <1>5, <1>6 DEF Taken
  <2>2. \A x, y \in Nat : x - (y - 1) = (x - y) + 1
    OBVIOUS
  <2> QED
    BY <1>2, <1>4, <2>1, <2>2
<1>8. \A i \in 1 .. Len(h.calls) : h.calls[i] = AllCalls(task, g, h)[Taken(task, g, h) + i]
  <2> SUFFICES ASSUME NEW i \in 1 .. Len(cs) PROVE cs[i] = AllCalls(task, g, f)[(n + 1) + i]
    BY <1>5, <1>6, <1>7
  <2>1. cs[i] = f.calls[i + 1] /\ i + 1 \in 1 .. Len(f.calls)
    BY <1>2
  <2>2. n + (i + 1) = (n + 1) + i
    BY <1>4
  <2> QED
    BY <1>3, <2>1, <2>2
<1>9. Len(h.calls) <= Len(AllCalls(task, g, h))
  <2>1. \A x, y \in Nat : y <= x => y - 1 <= x
    OBVIOUS
  <2> QED
    BY <1>2, <1>3, <1>4, <1>5, <1>6, <2>1
<1>10. Applying(task, g, h, n)
  BY <1>1, <1>5, <1>6, <1>8, <1>9 DEF Applying, KeywordOuts
<1>11. Taken(task, g, h) - 1 = n
  BY <1>4, <1>7
<1>12. Waiting(task, g, h)
  BY <1>6, <1>10, <1>11 DEF Waiting
<1>13. Below(task, h) = Below(task, f)
  BY <1>5, <1>6 DEF Below, LeavesDocument
<1>14. AllCalls(task, g, h)[Taken(task, g, h)] = Head(f.calls)
  <2>1. 1 \in 1 .. Len(f.calls)
    BY <1>2
  <2> QED
    BY <1>2, <1>3, <1>6, <1>7, <2>1
<1> QED
  BY <1>12, <1>13, <1>14

(* What a call waits for depends on its own frame only.                    *)
LEMMA SameFrame ==
  ASSUME NEW t, NEW s, NEW r, NEW i, i = 0 \/ r[i] = s[i]
  PROVE  Pending(t, r, i) = Pending(t, s, i) /\ Under(t, r, i) = Under(t, s, i)
BY DEF Pending, Under

(* The innermost frame is replaced by one that goes on or makes a call.    *)
LEMMA ResumeMeant ==
  ASSUME NEW t, NEW s \in Seq(Frame), s # <<>>, NEW p, NEW c, NEW a, MeantIn(t, s, p, c, a),
         NEW h, NEW r, Len(r) = Len(s), r[Len(s)] = h,
         \A i \in 1 .. Len(s) - 1 : r[i] = s[i],
         h.schema = s[Len(s)].schema, h.value = s[Len(s)].value, NEW q, NEW d, NEW e,
         \/ q = "apply" /\ Idle(t, Deeper(t, Len(s)), h)
         \/ /\ q = "call" /\ Waiting(t, Deeper(t, Len(s)), h)
            /\ d = AllCalls(t, Deeper(t, Len(s)), h)[Taken(t, Deeper(t, Len(s)), h)]
  PROVE  MeantIn(t, r, q, d, e)
<1>1. Len(s) \in Nat /\ Len(s) >= 1
  BY StackFacts
<1>2. /\ Len(r) = Len(s) /\ r[Len(s)] = h
      /\ \A i \in 1 .. Len(s) - 1 : r[i] = s[i]
  OBVIOUS
<1>3. ASSUME NEW i \in 1 .. Len(s)
      PROVE  /\ IF i = Len(s) /\ q = "apply" THEN Idle(t, Deeper(t, i), r[i])
                ELSE Waiting(t, Deeper(t, i), r[i])
             /\ Pending(t, r, i - 1) = [schema |-> r[i].schema, value |-> r[i].value]
  <2>1. /\ i # Len(s) => Waiting(t, Deeper(t, i), s[i])
        /\ Pending(t, s, i - 1) = [schema |-> s[i].schema, value |-> s[i].value]
    BY DEF MeantIn
  <2>2. Pending(t, r, i - 1) = Pending(t, s, i - 1)
    <3>1. i - 1 = 0 \/ i - 1 \in 1 .. Len(s) - 1
      BY <1>1
    <3> QED
      BY <1>2, <3>1, SameFrame
  <2>3. CASE i = Len(s)
    BY <1>2, <2>1, <2>2, <2>3
  <2>4. CASE i # Len(s)
    <3>1. r[i] = s[i]
      BY <1>1, <1>2, <2>4
    <3> QED
      BY <2>1, <2>2, <2>4, <3>1
  <2> QED
    BY <2>3, <2>4
<1>4. Len(s) <= MaxDepth
  BY DEF MeantIn
<1>5. q = "call" => d = Pending(t, r, Len(s))
  BY <1>1, <1>2 DEF Pending
<1> QED
  BY <1>2, <1>3, <1>4, <1>5 DEF MeantIn

(* The meanings one level down.                                            *)
LEMMA DeeperIs ==
  ASSUME NEW t, NEW i \in 0 .. MaxDepth, NEW s \in Schema, NEW v \in Value, NEW u \in Uri
  PROVE  Deeper(t, i)[s][v][u] =
           IF i = MaxDepth THEN "aborted" ELSE SchemaMeaning(t, Deeper(t, i + 1), s, v, u)
<1>1. MaxDepth - i \in 0 .. MaxDepth /\ (MaxDepth - i = 0 <=> i = MaxDepth)
      /\ (MaxDepth - i) - 1 = MaxDepth - (i + 1)
  BY EvaluationAssumption
<1>2. Deeper(t, i) = Level(t, Meanings(t)[(MaxDepth - i) - 1], MaxDepth - i)
  BY <1>1, MeaningsEquation DEF Deeper
<1>3. Deeper(t, i) = Level(t, Deeper(t, i + 1), MaxDepth - i)
  BY <1>1, <1>2 DEF Deeper
<1> QED
  BY <1>1, <1>3 DEF Level

(* All the fields of the frame EnterObject pushes.                         *)
LEMMA EnteredFrame ==
  ASSUME TypeOK, EnterObject
  PROVE  \E f \in Frame :
           /\ stack' = Append(stack, f)
           /\ f.schema = arg.schema /\ f.value = arg.value /\ f.out = "valid" /\ f.count = 0
           /\ f.saved_base = effective_base_uri
           /\ f.keywords = body(arg.schema).keywords
           /\ f.keywords # <<>> => f.calls = First(task, f)
<1> DEFINE b == body(arg.schema)
           base == IF b.id = NoRelative THEN effective_base_uri
                   ELSE task.resolve[effective_base_uri][b.id]
           f == [schema |-> arg.schema, value |-> arg.value, entry_depth |-> depth,
                 saved_base |-> effective_base_uri, ref_base |-> base, keywords |-> <<>>,
                 calls |-> <<>>, count |-> 0, out |-> "valid"]
           ks == b.keywords
           calls == IF ks = <<>> THEN <<>> ELSE Calls(task, Head(ks), arg.value, base)
           g == Starting(f, ks, base)
<1>1. /\ arg.schema \in Schema /\ arg.value \in Value /\ task \in Task
      /\ effective_base_uri \in Uri /\ depth \in Nat
  BY DEF TypeOK, Call
<1>2. stack' = Append(stack, g)
  BY DEF EnterObject
<1>3. g = [f EXCEPT !.keywords = ks, !.count = 0, !.calls = calls]
  BY CallsAreCallsOf DEF Starting
<1>4. /\ ks \in Seq(Keyword) /\ base \in Uri
  BY <1>1, TaskFacts
<1>5. calls \in Seq(Call)
  BY <1>1, <1>4, KeywordFacts, CallsAre
<1>6. f \in Frame
  <2>1. <<>> \in Seq(Keyword) /\ <<>> \in Seq(Call) /\ "valid" \in Output
    BY DEF Output
  <2> HIDE DEF base
  <2> QED
    BY <1>1, <1>4, <2>1 DEF Frame
<1> HIDE DEF ks, calls, base
<1>7. g \in Frame
  <2> HIDE DEF f
  <2>1. [f EXCEPT !.keywords = ks, !.count = 0, !.calls = calls] \in Frame
    BY <1>4, <1>5, <1>6 DEF Frame
  <2> QED
    BY <1>3, <2>1
<1>8. /\ g.schema = arg.schema /\ g.value = arg.value /\ g.out = "valid" /\ g.count = 0
      /\ g.saved_base = effective_base_uri /\ g.keywords = ks /\ g.calls = calls
  BY <1>3
<1> HIDE DEF g
<1>9. Own(task, g) = base
  BY <1>8 DEF Own, base, body
<1>10. ks # <<>> => g.calls = First(task, g)
  BY <1>8, <1>9 DEF First, calls
<1> QED
  BY <1>2, <1>8, <1>7, <1>10 DEF ks

(* The new frame has applied nothing.                                      *)
LEMMA EnteredMeant ==
  ASSUME task \in Task, NEW g, NEW f \in Frame, task.body[f.schema].kind = "object",
         f.keywords = task.body[f.schema].keywords, f.out = "valid", f.count = 0,
         f.keywords # <<>> => f.calls = First(task, f)
  PROVE  Idle(task, g, f)
<1> DEFINE ks == task.body[f.schema].keywords
<1>1. Len(ks) \in Nat
  BY OwnType, LenProperties
<1>2. Applied(task, f) = 0
  BY <1>1 DEF Applied
<1>3. OfObject(task, f)
  BY <1>1, <1>2 DEF OfObject
<1>4. Settled(task, g, f) = {}
  BY <1>2 DEF Settled
<1> QED
  BY <1>3, <1>4, MergedFacts, StartMeant

(* A frame that has applied everything answers what its schema means.      *)
LEMMA LeftMeant ==
  ASSUME task \in Task, NEW g, NEW f \in Frame, Idle(task, g, f), f.keywords = <<>>, NEW a,
         a = merge(f.out, IF f.value \in task.body[f.schema].accepts THEN "valid" ELSE "failed")
  PROVE  a = SchemaMeaning(task, g, f.schema, f.value, f.saved_base)
<1> DEFINE b == task.body[f.schema]
           accepted == IF f.value \in b.accepts THEN "valid" ELSE "failed"
           K(i) == KeywordMeaning(task, g, b.keywords[i], f.value, Own(task, f))
<1>1. b.kind = "object" /\ f.out = Merged(Settled(task, g, f))
  BY DEF Idle, OfObject
<1>2. b.keywords \in Seq(Keyword) /\ f.schema \in Schema
  BY OwnType, TaskFacts DEF body
<1>3. Len(b.keywords) \in Nat /\ DOMAIN b.keywords = 1 .. Len(b.keywords)
  BY <1>2, LenProperties
<1>4. Applied(task, f) = Len(b.keywords)
  BY <1>3 DEF Applied
<1>5. Settled(task, g, f) = {K(i) : i \in DOMAIN b.keywords}
  BY <1>3, <1>4 DEF Settled
<1>6. a = Merged(Settled(task, g, f) \cup {accepted})
  <2>1. accepted \in Output
    BY DEF Output
  <2> QED
    BY <1>1, <2>1, MergedFacts
<1>7. SchemaMeaning(task, g, f.schema, f.value, f.saved_base)
        = Merged({K(i) : i \in DOMAIN b.keywords} \cup {accepted})
  BY <1>1 DEF SchemaMeaning, Own
<1> QED
  BY <1>5, <1>6, <1>7

(* The innermost frame.                                                    *)
LEMMA TopMeant ==
  ASSUME NEW t, NEW s \in Seq(Frame), s # <<>>, NEW p, NEW c, NEW a, MeantIn(t, s, p, c, a)
  PROVE  IF p = "apply" THEN Idle(t, Deeper(t, Len(s)), s[Len(s)])
         ELSE Waiting(t, Deeper(t, Len(s)), s[Len(s)])
<1>1. Len(s) \in 1 .. Len(s)
  BY StackFacts
<1>2. \A i \in 1 .. Len(s) :
        IF i = Len(s) /\ p = "apply" THEN Idle(t, Deeper(t, i), s[i])
        ELSE Waiting(t, Deeper(t, i), s[i])
  BY DEF MeantIn
<1> QED
  BY <1>1, <1>2

(* Every step inside a keyword leaves a frame that means the same.         *)
LEMMA KeywordMeant ==
  ASSUME TypeOK, Control, Cells, Meant, KeywordStep
  PROVE  \E h \in Frame :
           /\ stack' = [stack EXCEPT ![Len(stack)] = h]
           /\ h.schema = top.schema /\ h.value = top.value
           /\ Idle(task, Deeper(task, Len(stack)), h)
<1> DEFINE g == Deeper(task, Len(stack))
           u == Own(task, top)
           Resumed(h) == /\ h \in Frame
                         /\ stack' = [stack EXCEPT ![Len(stack)] = h]
                         /\ h.schema = top.schema /\ h.value = top.value
                         /\ Idle(task, g, h)
<1>1. /\ stack # <<>> /\ top \in Frame /\ top.keywords # <<>>
      /\ task \in Task /\ answer \in Output /\ u \in Uri
      /\ Len(stack) \in Nat /\ Len(stack) >= 1
  BY KeywordStepFacts, StackFacts, OwnType DEF TypeOK
<1>2. MeantIn(task, stack, pc, arg, answer) /\ top = stack[Len(stack)]
  BY DEF Meant, top
<1>3. IF pc = "apply" THEN Idle(task, g, top) ELSE Waiting(task, g, top)
  BY <1>1, <1>2, TopMeant DEF TypeOK
<1>4. pc = "return" => Waiting(task, g, top) /\ answer = Reply(task, g, top)
  <2> SUFFICES ASSUME pc = "return" PROVE Waiting(task, g, top) /\ answer = Reply(task, g, top)
    OBVIOUS
  <2>1. Waiting(task, g, top)
    BY <1>3
  <2>2. /\ Pending(task, stack, Len(stack)) = AllCalls(task, g, top)[Taken(task, g, top)]
        /\ Under(task, stack, Len(stack)) = Below(task, top)
    BY <1>1, <1>2 DEF Pending, Under
  <2>3. LET call == Pending(task, stack, Len(stack))
        IN answer = g[call.schema][call.value][Under(task, stack, Len(stack))]
    BY <1>2 DEF MeantIn
  <2> QED
    BY <2>1, <2>2, <2>3 DEF Reply
<1>5. effective_base_uri' = u
  BY KeywordBase
<1> HIDE DEF g, u
<1>6. ASSUME NEW out \in Output, stack' = Replace(NextKeyword(top, out, u)),
             Idle(task, g, NextKeyword(top, out, u))
      PROVE  Resumed(NextKeyword(top, out, u))
  BY <1>1, <1>6, NextKeywordIs DEF Replace
<1>7. "valid" \in Output /\ "failed" \in Output /\ "aborted" \in Output
  BY DEF Output
<1> SUFFICES \E h : Resumed(h)
  BY DEF g
<1>8. CASE UnresolvedRef
  <2>1. /\ pc = "apply" /\ top.calls = <<>> /\ Head(top.keywords).name = "ref"
        /\ stack' = Replace(NextKeyword(top, "aborted", u))
    BY <1>5, <1>8 DEF UnresolvedRef, keyword
  <2>2. Idle(task, g, NextKeyword(top, "aborted", u))
    BY <1>1, <1>3, <2>1, UnresolvedMeant DEF u
  <2>3. Resumed(NextKeyword(top, "aborted", u))
    BY <1>6, <1>7, <2>1, <2>2
  <2> QED
    BY <2>3
<1>9. CASE EndOfLoop
  <2> DEFINE out == Verdict(Head(top.keywords), top.value, top.count)
  <2>1. /\ pc = "apply" /\ top.calls = <<>> /\ Head(top.keywords).name # "ref"
        /\ stack' = Replace(NextKeyword(top, out, u))
    BY <1>5, <1>9 DEF EndOfLoop, keyword
  <2>2. out \in Output
    BY DEF Verdict, Output
  <2>3. Idle(task, g, NextKeyword(top, out, u))
    BY <1>1, <1>3, <2>1, <2>2, EndMeant DEF u
  <2> HIDE DEF out
  <2>4. Resumed(NextKeyword(top, out, u))
    BY <1>6, <2>1, <2>2, <2>3
  <2> QED
    BY <2>4
<1>10. CASE RefAnswered
  <2>1. /\ pc = "return" /\ Head(top.keywords).name = "ref"
        /\ stack' = Replace(NextKeyword(top, answer, u))
    BY <1>5, <1>10 DEF RefAnswered, Answered, keyword
  <2>2. Idle(task, g, NextKeyword(top, answer, u))
    BY <1>1, <1>4, <2>1, RefMeant DEF u
  <2>3. Resumed(NextKeyword(top, answer, u))
    BY <1>1, <1>6, <2>1, <2>2
  <2> QED
    BY <2>3
<1>11. CASE MergeAnswered
  <2> DEFINE h == [top EXCEPT !.out = merge(@, answer)]
  <2>1. /\ pc = "return" /\ Head(top.keywords).name \in Mergers
        /\ stack' = [stack EXCEPT ![Len(stack)] = h]
    BY <1>11 DEF MergeAnswered, Answered, keyword, Replace, Mergers
  <2>2. Idle(task, g, h)
    BY <1>1, <1>4, <2>1, MergeMeant
  <2>3. merge(top.out, answer) \in Output
    BY <1>1, OwnType, MergeFacts
  <2>4. h \in Frame /\ h.schema = top.schema /\ h.value = top.value
    BY <1>1, <2>3 DEF Frame
  <2> HIDE DEF h
  <2>5. Resumed(h)
    BY <2>1, <2>2, <2>4
  <2> QED
    BY <2>5
<1>12. CASE CountAnswered
  <2>1. /\ pc = "return" /\ Head(top.keywords).name \in Counters
        /\ effective_base_uri = u
    BY <1>5, <1>12 DEF CountAnswered, Answered, keyword, Counters
  <2>2. CASE answer = "aborted"
    <3>1. stack' = Replace(NextKeyword(top, "aborted", u))
      BY <1>12, <2>1, <2>2 DEF CountAnswered
    <3>2. Idle(task, g, NextKeyword(top, "aborted", u))
      BY <1>1, <1>4, <2>1, <2>2, CountAborted DEF u
    <3>3. Resumed(NextKeyword(top, "aborted", u))
      BY <1>6, <1>7, <3>1, <3>2
    <3> QED
      BY <3>3
  <2>3. CASE answer # "aborted"
    <3> DEFINE h == [top EXCEPT !.count = @ + (IF answer = "valid" THEN 1 ELSE 0)]
    <3>1. stack' = [stack EXCEPT ![Len(stack)] = h]
      BY <1>12, <2>3 DEF CountAnswered, Replace
    <3>2. Idle(task, g, h)
      BY <1>1, <1>4, <2>1, <2>3, CountMeant
    <3>3. h \in Frame /\ h.schema = top.schema /\ h.value = top.value
      BY <1>1 DEF Frame
    <3> HIDE DEF h
    <3>4. Resumed(h)
      BY <3>1, <3>2, <3>3
    <3> QED
      BY <3>4
  <2> QED
    BY <2>2, <2>3
<1>13. CASE NotAnswered
  <2> DEFINE out == IF answer = "aborted" THEN "aborted"
                    ELSE IF answer = "valid" THEN "failed" ELSE "valid"
  <2>1. /\ pc = "return" /\ Head(top.keywords).name = "not" /\ effective_base_uri = u
    BY <1>5, <1>13 DEF NotAnswered, Answered, keyword
  <2>2. stack' = Replace(NextKeyword(top, out, u))
    BY <1>1, <1>13, <2>1 DEF NotAnswered, Output
  <2>3. out \in Output
    BY DEF Output
  <2>4. Idle(task, g, NextKeyword(top, out, u))
    BY <1>1, <1>4, <2>1, <2>3, NotMeant DEF u
  <2> HIDE DEF out
  <2>5. Resumed(NextKeyword(top, out, u))
    BY <1>6, <2>2, <2>3, <2>4
  <2> QED
    BY <2>5
<1>14. CASE IfAnswered
  <2> DEFINE branch == Branch(Head(top.keywords), answer)
             h == [top EXCEPT !.count = 1, !.calls = <<[schema |-> branch, value |-> top.value]>>]
  <2>1. /\ pc = "return" /\ Head(top.keywords).name = "if" /\ effective_base_uri = u
    BY <1>5, <1>14 DEF IfAnswered, Answered, keyword
  <2>2. stack' = Replace(IF top.count = 1 \/ answer = "aborted" THEN NextKeyword(top, answer, u)
                         ELSE IF branch = NoSchema THEN NextKeyword(top, "valid", u) ELSE h)
    BY <1>14, <2>1 DEF IfAnswered, keyword, Branch
  <2>3. IF top.count = 1 \/ answer = "aborted" THEN Idle(task, g, NextKeyword(top, answer, u))
        ELSE IF branch = NoSchema THEN Idle(task, g, NextKeyword(top, "valid", u))
        ELSE Idle(task, g, h)
    BY <1>1, <1>4, <2>1, IfMeant DEF u
  <2>4. CASE top.count = 1 \/ answer = "aborted"
    <3>1. Resumed(NextKeyword(top, answer, u))
      BY <1>1, <1>6, <2>2, <2>3, <2>4
    <3> QED
      BY <3>1
  <2>5. CASE ~(top.count = 1 \/ answer = "aborted") /\ branch = NoSchema
    <3>1. Resumed(NextKeyword(top, "valid", u))
      BY <1>6, <1>7, <2>2, <2>3, <2>5
    <3> QED
      BY <3>1
  <2>6. CASE ~(top.count = 1 \/ answer = "aborted") /\ branch # NoSchema
    <3>1. Idle(task, g, h) /\ stack' = [stack EXCEPT ![Len(stack)] = h]
      BY <2>2, <2>3, <2>6 DEF Replace
    <3>2. h.schema = top.schema /\ h.value = top.value
      BY <1>1 DEF Frame
    <3>3. h \in Frame
      <4>1. Head(top.keywords) \in Keyword
        BY <1>1, AllCallsSeq
      <4>2. /\ Head(top.keywords).schemas \in Seq(Schema \cup {NoSchema})
            /\ Len(Head(top.keywords).schemas) = 3
        BY <2>1, <4>1 DEF Keyword
      <4>3. branch \in Schema
        BY <2>6, <4>2, ElementOfSeq DEF Branch
      <4> HIDE DEF branch
      <4> DEFINE calls == <<[schema |-> branch, value |-> top.value]>>
      <4>4. calls \in Seq(Call)
        BY <1>1, <4>3, OwnType DEF Call
      <4> HIDE DEF calls
      <4>5. [top EXCEPT !.count = 1, !.calls = calls] \in Frame
        BY <1>1, <4>4 DEF Frame
      <4> QED
        BY <4>5 DEF calls
    <3> HIDE DEF h
    <3>4. Resumed(h)
      BY <3>1, <3>2, <3>3
    <3> QED
      BY <3>4
  <2> QED
    BY <2>4, <2>5, <2>6
<1> QED
  BY <1>8, <1>9, <1>10, <1>11, <1>12, <1>13, <1>14 DEF KeywordStep

(* Meant is inductive.                                                     *)
LEMMA MeantStep ==
  ASSUME TypeOK, Control, Cells, Meant, [Next]_vars
  PROVE  Meant'
<1> DEFINE n == Len(stack)
<1>1. /\ stack \in Seq(Frame) /\ n \in Nat /\ task \in Task /\ answer \in Output
      /\ \A i \in 1 .. n : stack[i] \in Frame
  BY StackFacts DEF TypeOK
<1>2. MeantIn(task, stack, pc, arg, answer)
  BY DEF Meant
<1>3. n <= MaxDepth /\ n \in 0 .. MaxDepth
  BY <1>1, <1>2, EvaluationAssumption DEF MeantIn
<1>4. /\ depth = n
      /\ effective_base_uri = IF pc = "apply" THEN Own(task, stack[n]) ELSE Under(task, stack, n)
  BY DEF Cells, CellsIn
<1>5. SUFFICES MeantIn(task', stack', pc', arg', answer')
  BY DEF Meant
<1>6. CASE TooDeep \/ NotAnObject
  <2>1. /\ pc = "call" /\ pc' = "return"
        /\ UNCHANGED <<task, arg, stack>>
    BY <1>6 DEF TooDeep, NotAnObject, Return
  <2>2. arg.schema \in Schema /\ arg.value \in Value /\ effective_base_uri \in Uri
    BY DEF TypeOK, Call
  <2>3. arg = Pending(task, stack, n)
    BY <1>2, <2>1 DEF MeantIn
  <2>4. answer' = Deeper(task, n)[arg.schema][arg.value][effective_base_uri]
    <3>1. CASE TooDeep
      <4>1. n = MaxDepth /\ answer' = "aborted"
        BY <1>1, <1>3, <1>4, <3>1, EvaluationAssumption DEF TooDeep, Return
      <4> QED
        BY <1>3, <2>2, <4>1, DeeperIs
    <3>2. CASE NotAnObject
      <4>1. /\ n # MaxDepth /\ body(arg.schema).kind # "object"
            /\ answer' = IF body(arg.schema).kind = "true" THEN "valid" ELSE "failed"
        BY <1>4, <3>2, EvaluationAssumption DEF NotAnObject, Return
      <4>2. body(arg.schema).kind \in {"true", "false", "object", "other"}
        BY <1>1, <2>2 DEF Task, Body, body
      <4>3. answer' = SchemaMeaning(task, Deeper(task, n + 1), arg.schema, arg.value,
                                    effective_base_uri)
        BY <4>1, <4>2 DEF SchemaMeaning, body
      <4> QED
        BY <1>3, <2>2, <4>1, <4>3, DeeperIs
    <3> QED
      BY <1>6, <3>1, <3>2
  <2>5. effective_base_uri = Under(task, stack, n)
    BY <1>4, <2>1
  <2>6. \A i \in 1 .. n :
          /\ Waiting(task, Deeper(task, i), stack[i])
          /\ Pending(task, stack, i - 1) = [schema |-> stack[i].schema, value |-> stack[i].value]
    BY <1>2, <2>1 DEF MeantIn
  <2> QED
    BY <1>3, <2>1, <2>3, <2>4, <2>5, <2>6 DEF MeantIn
<1>7. CASE EnterObject
  <2>1. PICK f \in Frame :
          /\ stack' = Append(stack, f)
          /\ f.schema = arg.schema /\ f.value = arg.value /\ f.out = "valid" /\ f.count = 0
          /\ f.saved_base = effective_base_uri
          /\ f.keywords = body(arg.schema).keywords
          /\ f.keywords # <<>> => f.calls = First(task, f)
    BY <1>7, EnteredFrame
  <2>2. /\ Len(stack') = n + 1 /\ stack'[n + 1] = f
        /\ \A i \in 1 .. n : stack'[i] = stack[i]
    BY <1>1, <2>1, PushFacts
  <2>3. /\ pc = "call" /\ pc' = "apply" /\ task' = task /\ depth < MaxDepth
        /\ body(arg.schema).kind = "object"
    BY <1>7 DEF EnterObject
  <2>4. Idle(task, Deeper(task, n + 1), f)
    BY <1>1, <2>1, <2>3, EnteredMeant DEF body
  <2>5. arg \in Call /\ arg = [schema |-> f.schema, value |-> f.value]
    BY <2>1 DEF TypeOK, Call
  <2>6. arg = Pending(task, stack, n)
    BY <1>2, <2>3 DEF MeantIn
  <2>7. ASSUME NEW i \in 1 .. n + 1
        PROVE  /\ IF i = n + 1 THEN Idle(task, Deeper(task, i), stack'[i])
                  ELSE Waiting(task, Deeper(task, i), stack'[i])
               /\ Pending(task, stack', i - 1)
                    = [schema |-> stack'[i].schema, value |-> stack'[i].value]
    <3>1. Pending(task, stack', i - 1) = Pending(task, stack, i - 1)
      <4>1. i - 1 = 0 \/ i - 1 \in 1 .. n
        BY <1>1
      <4> QED
        BY <2>2, <4>1, SameFrame
    <3>2. CASE i = n + 1
      <4>1. i - 1 = n
        BY <1>1, <3>2
      <4> QED
        BY <2>2, <2>4, <2>5, <2>6, <3>1, <3>2, <4>1
    <3>3. CASE i # n + 1
      <4>1. i \in 1 .. n /\ stack'[i] = stack[i]
        BY <1>1, <2>2, <3>3
      <4>2. /\ Waiting(task, Deeper(task, i), stack[i])
            /\ Pending(task, stack, i - 1) = [schema |-> stack[i].schema, value |-> stack[i].value]
        BY <1>2, <2>3, <4>1 DEF MeantIn
      <4> QED
        BY <3>1, <3>3, <4>1, <4>2
    <3> QED
      BY <3>2, <3>3
  <2>8. n + 1 <= MaxDepth
    BY <1>1, <1>4, <2>3, EvaluationAssumption
  <2> QED
    BY <2>2, <2>3, <2>7, <2>8 DEF MeantIn
<1>8. CASE LeaveObject
  <2> DEFINE f == stack[n]
  <2>1. /\ Len(stack') = n - 1 /\ n >= 1 /\ f \in Frame
        /\ \A i \in 1 .. n - 1 : stack'[i] = stack[i]
    BY <1>1, <1>8, LeaveFacts, PopFacts, StackFacts DEF LeaveObject, Pop
  <2>2. /\ pc = "apply" /\ pc' = "return" /\ task' = task /\ f.keywords = <<>>
        /\ answer' = merge(f.out, IF f.value \in task.body[f.schema].accepts THEN "valid" ELSE "failed")
    BY <1>8 DEF LeaveObject, Return, top, body
  <2>3. Idle(task, Deeper(task, n), f)
    BY <1>1, <1>2, <1>8, <2>2, LeaveFacts, TopMeant
  <2>4. answer' = SchemaMeaning(task, Deeper(task, n), f.schema, f.value, f.saved_base)
    BY <1>1, <2>1, <2>2, <2>3, LeftMeant
  <2>5. f.saved_base = Under(task, stack, n - 1)
    BY <1>1, <2>1 DEF Cells, CellsIn
  <2>6. /\ Pending(task, stack, n - 1) = [schema |-> f.schema, value |-> f.value]
        /\ \A i \in 1 .. n - 1 :
             /\ Waiting(task, Deeper(task, i), stack[i])
             /\ Pending(task, stack, i - 1) = [schema |-> stack[i].schema, value |-> stack[i].value]
    BY <1>1, <1>2, <2>1 DEF MeantIn
  <2>7. \A i \in 0 .. n - 1 : /\ Pending(task, stack', i) = Pending(task, stack, i)
                              /\ Under(task, stack', i) = Under(task, stack, i)
    <3>1. \A i \in 0 .. n - 1 : i = 0 \/ stack'[i] = stack[i]
      BY <1>1, <2>1
    <3> QED
      BY <3>1, SameFrame
  <2>8. answer' = Deeper(task, n - 1)[f.schema][f.value][f.saved_base]
    <3>1. n - 1 \in 0 .. MaxDepth /\ n - 1 # MaxDepth /\ (n - 1) + 1 = n
      BY <1>1, <1>3, <2>1, EvaluationAssumption
    <3>2. f.schema \in Schema /\ f.value \in Value /\ f.saved_base \in Uri
      BY <1>1, <2>1, OwnType
    <3> QED
      BY <2>4, <3>1, <3>2, DeeperIs
  <2>9. n - 1 <= MaxDepth /\ n - 1 \in 0 .. n - 1 /\ \A i \in 1 .. n - 1 : i - 1 \in 0 .. n - 1
    BY <1>1, <1>3, <2>1, EvaluationAssumption
  <2> HIDE DEF f, n
  <2>10. LET call == Pending(task, stack', n - 1)
         IN answer' = Deeper(task, n - 1)[call.schema][call.value][Under(task, stack', n - 1)]
    BY <2>5, <2>6, <2>7, <2>8, <2>9
  <2>11. \A i \in 1 .. n - 1 :
           /\ Waiting(task, Deeper(task, i), stack'[i])
           /\ Pending(task, stack', i - 1) = [schema |-> stack'[i].schema, value |-> stack'[i].value]
    BY <2>1, <2>6, <2>7, <2>9
  <2> QED
    BY <2>1, <2>2, <2>9, <2>10, <2>11 DEF MeantIn
<1>9. CASE Descend
  <2> DEFINE h == [top EXCEPT !.calls = Tail(@), !.ref_base = effective_base_uri]
  <2>1. /\ pc = "apply" /\ pc' = "call" /\ task' = task /\ arg' = Head(top.calls)
        /\ top.keywords # <<>> /\ top.calls # <<>>
    BY <1>9 DEF Descend
  <2>10. stack' = [stack EXCEPT ![n] = h]
    BY <1>9 DEF Descend, Replace
  <2>2. stack # <<>> /\ top \in Frame /\ top = stack[n]
    BY <1>9, DescendFacts DEF top
  <2>3. Idle(task, Deeper(task, n), top)
    BY <1>1, <1>2, <2>1, <2>2, TopMeant
  <2>4. /\ Waiting(task, Deeper(task, n), h)
        /\ AllCalls(task, Deeper(task, n), h)[Taken(task, Deeper(task, n), h)] = Head(top.calls)
    <3> DEFINE g == Deeper(task, n)
    <3> HIDE DEF g
    <3>1. Idle(task, g, top)
      BY <2>3 DEF g
    <3>2. /\ h.schema = top.schema /\ h.value = top.value /\ h.saved_base = top.saved_base
          /\ h.keywords = top.keywords /\ h.count = top.count /\ h.out = top.out
          /\ h.calls = Tail(top.calls)
      BY <2>2 DEF Frame
    <3> HIDE DEF h
    <3>3. /\ Waiting(task, g, h)
          /\ AllCalls(task, g, h)[Taken(task, g, h)] = Head(top.calls)
      BY <1>1, <2>1, <2>2, <3>1, <3>2, DescendMeant
    <3> QED
      BY <3>3 DEF g
  <2>5. h.schema = top.schema /\ h.value = top.value
    BY <2>2 DEF Frame
  <2>6. h \in Frame
    <3>1. Tail(top.calls) \in Seq(Call) /\ effective_base_uri \in Uri
      BY <1>1, <2>1, <2>2, OwnType, HeadTailProperties DEF TypeOK
    <3> QED
      BY <2>2, <3>1 DEF Frame
  <2> HIDE DEF h
  <2>7. /\ Len(stack') = n /\ stack'[n] = h
        /\ \A i \in 1 .. n - 1 : stack'[i] = stack[i]
    BY <1>1, <2>10, <2>2, <2>6, ReplaceFacts
  <2> QED
    BY <1>1, <1>2, <2>1, <2>2, <2>4, <2>5, <2>7, ResumeMeant
<1>10. CASE KeywordStep
  <2>1. PICK h \in Frame :
          /\ stack' = [stack EXCEPT ![n] = h]
          /\ h.schema = top.schema /\ h.value = top.value
          /\ Idle(task, Deeper(task, n), h)
    BY <1>10, KeywordMeant
  <2>2. stack # <<>> /\ pc' = "apply" /\ top = stack[n]
    BY <1>10, KeywordStepFacts DEF top
  <2>3. task' = task
    BY <1>10 DEF KeywordStep, UnresolvedRef, EndOfLoop, RefAnswered, MergeAnswered,
       CountAnswered, NotAnswered, IfAnswered, Answered
  <2>4. /\ Len(stack') = n /\ stack'[n] = h
        /\ \A i \in 1 .. n - 1 : stack'[i] = stack[i]
    BY <1>1, <2>1, <2>2, ReplaceFacts
  <2> QED
    BY <1>1, <1>2, <2>1, <2>2, <2>3, <2>4, ResumeMeant
<1>11. CASE Validated
  <2>1. /\ pc = "return" /\ pc' = "done" /\ stack = <<>> /\ n = 0
        /\ UNCHANGED <<task, arg, answer, stack>>
    BY <1>11 DEF Validated
  <2>2. /\ Pending(task, stack, 0) = [schema |-> task.root, value |-> task.instance]
        /\ Under(task, stack, 0) = task.base
    BY DEF Pending, Under
  <2>3. LET call == Pending(task, stack, 0)
        IN answer = Deeper(task, 0)[call.schema][call.value][Under(task, stack, 0)]
    BY <1>2, <2>1 DEF MeantIn
  <2>4. MaxDepth - 0 = MaxDepth
    BY EvaluationAssumption
  <2>5. answer = Meaning(task)
    BY <2>2, <2>3, <2>4 DEF Meaning, Deeper
  <2> QED
    BY <1>3, <2>1, <2>5 DEF MeantIn
<1>12. CASE UNCHANGED vars
  <2>1. UNCHANGED <<task, stack, pc, arg, answer>>
    BY <1>12 DEF vars
  <2> QED
    BY <1>2, <2>1
<1> QED
  BY <1>6, <1>7, <1>8, <1>9, <1>10, <1>11, <1>12 DEF Next, KeywordStep, Done

(* Before the first step the call to make is that of Validator::validate.  *)
LEMMA MeantFirst == Init => Meant
<1> SUFFICES ASSUME Init PROVE Meant
  OBVIOUS
<1>1. /\ stack = <<>> /\ Len(stack) = 0 /\ pc = "call"
      /\ arg = [schema |-> task.root, value |-> task.instance]
  BY DEF Init
<1>2. 0 <= MaxDepth
  BY EvaluationAssumption
<1> QED
  BY <1>1, <1>2 DEF Meant, MeantIn, Pending

(* The answer of Validator::validate is the meaning of the schema.         *)
THEOREM VerdictCorrect == Spec => []VerdictMatchesReference
<1>1. TypeOK /\ Control /\ Cells /\ Meant /\ [Next]_vars => Meant'
  BY MeantStep
<1>2. Meant => VerdictMatchesReference
  BY DEF Meant, MeantIn, VerdictMatchesReference
<1> QED
  BY <1>1, <1>2, MeantFirst, TypeCorrect, CellsHold, PTL DEF Spec
=============================================================================
