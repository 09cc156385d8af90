--------------------------- MODULE ResolverProofs ---------------------------
(***************************************************************************)
(* The resolver crate.  Invariants of FileLoad for every tree, request,    *)
(* limit and number of changes by other processes; then of Resolvers: the  *)
(* registry is authoritative, of which nothing is used of how URIs are     *)
(* normalized or of fragments, and the limits are exact, for documents of  *)
(* every size and depth.                                                   *)
(***************************************************************************)
EXTENDS FileLoad, Resolvers, SequenceTheorems, FiniteSetTheorems, WellFoundedInduction, TLAPS

(* What read_to_string has after it read up to byte n of the file c.       *)
LEMMA ReadFacts ==
  ASSUME NEW c \in Seq(Byte), NEW s \in Seq(Byte), NEW n \in Len(s) + 1 .. Len(c)
  PROVE  /\ s \o SubSeq(c, Len(s) + 1, n) \in Seq(Byte)
         /\ Len(s \o SubSeq(c, Len(s) + 1, n)) = n
<1> DEFINE m == Len(s) + 1
           piece == SubSeq(c, m, n)
<1>1. Len(s) \in Nat /\ Len(c) \in Nat /\ n \in Int /\ m \in Int /\ m <= n
  BY LenProperties
<1>2. \A i \in m .. n : c[i] \in Byte
  BY <1>1, ElementOfSeq
<1>3. piece \in Seq(Byte) /\ Len(piece) = IF m <= n THEN n - m + 1 ELSE 0
  BY <1>1, <1>2, SubSeqProperties
<1>4. Len(piece) = n - Len(s)
  BY <1>1, <1>3
<1> HIDE DEF piece
<1>5. s \o piece \in Seq(Byte) /\ Len(s \o piece) = Len(s) + Len(piece)
  BY <1>3, ConcatProperties
<1>6. QED BY <1>1, <1>4, <1>5 DEF piece

(* An error of the loader is a ResolveError.                               *)
LEMMA ErrorNames ==
  {"NotFound", "PathEscaped", "IoError", "SizeExceeded", "ParseError"} = Errors
BY DEF Errors

-----------------------------------------------------------------------------
(* What a change by another process leaves the loader with.                *)
LEMMA EnvironmentFacts ==
  ASSUME TypeOK, Environment
  PROVE  /\ dir' \in [Path -> Inode \cup Link \cup {Absent}]
         /\ kind' \in [Inode -> Kind] /\ content' \in [Inode -> Seq(Byte)]
         /\ fd \in Inode => kind'[fd] = kind[fd]
         /\ UNCHANGED loader /\ changes' \in 0 .. MaxChanges
         /\ inside' = (inside \/ (fd \in Inode /\ HasNameInside(dir', fd)))
         /\ renamed' = (renamed \/ (pc = "walk" /\ dir'[reached] # fd))
<1>1. Change
  BY DEF Environment
<1>2. CASE \E p \in Path : Unlink(p)
  BY <1>1, <1>2, FileLoadAssumption DEF Change, Unlink, TypeOK
<1>3. CASE \E p, q \in Path : Symlink(p, q)
  <2>1. PICK p \in Path, q \in Path : Symlink(p, q)
    BY <1>3
  <2>2. [to |-> q] \in Link
    BY DEF Link
  <2>3. QED BY <1>1, <2>1, <2>2, FileLoadAssumption DEF Change, Symlink, TypeOK
<1>4. CASE \E p, q \in Path : Rename(p, q)
  <2>1. PICK p \in Path, q \in Path : Rename(p, q)
    BY <1>4
  <2>2. dir[p] \in Inode \cup Link \cup {Absent} /\ Absent \in Inode \cup Link \cup {Absent}
    BY DEF TypeOK
  <2>3. dir' \in [Path -> Inode \cup Link \cup {Absent}]
    BY <2>1, <2>2 DEF Rename, TypeOK
  <2>4. QED BY <1>1, <2>1, <2>3, FileLoadAssumption, SMTT(60) DEF Change, Rename, TypeOK
<1>5. CASE \E p \in Path, i \in Inode, k \in Kind, c \in Contents : Create(p, i, k, c)
  <2>1. PICK p \in Path, i \in Inode, k \in Kind, c \in Contents : Create(p, i, k, c)
    BY <1>5
  <2>2. c \in Seq(Byte)
    BY FileLoadAssumption
  <2>3. /\ dir' \in [Path -> Inode \cup Link \cup {Absent}]
        /\ kind' \in [Inode -> Kind] /\ content' \in [Inode -> Seq(Byte)]
        /\ fd \in Inode => kind'[fd] = kind[fd]
    BY <2>1, <2>2 DEF Create, TypeOK
  <2>4. UNCHANGED loader /\ changes' \in 0 .. MaxChanges
        /\ inside' = (inside \/ (fd \in Inode /\ HasNameInside(dir', fd)))
        /\ renamed' = (renamed \/ (pc = "walk" /\ dir'[reached] # fd))
    BY <1>1, FileLoadAssumption DEF Change, TypeOK
  <2>5. QED BY <2>3, <2>4
<1>6. CASE \E i \in Inode, c \in Contents : Write(i, c)
  BY <1>1, <1>6, FileLoadAssumption DEF Change, Write, TypeOK
<1>7. QED BY <1>2, <1>3, <1>4, <1>5, <1>6 DEF Environment

(* Why only jailed bytes are read: what each check has established, and    *)
(* that no other process can take it back.                                 *)
Checked ==
  /\ pc \in {"proc_fd", "walk", "fstat", "read"} => fd \in Inode
  /\ fd \in Inode /\ HasNameInside(dir, fd) => inside
  /\ pc = "walk" => renamed \/ dir[reached] = fd
  /\ pc \in {"fstat", "read"} => inside \/ renamed
  /\ pc = "read" => kind[fd] = "regular"
  /\ pc \in {"exists", "canonicalize", "stat", "open", "proc_fd", "walk", "fstat"} => text = <<>>
  /\ pc \in {"exists", "canonicalize", "stat", "open"} => fd = Absent
  /\ pc # "done" => outcome = "running"

(* The bound on the links is a number.                                     *)
LEMMA MaxLinksType == MaxLinks \in Nat
BY TreeAssumption, FS_CardinalityType DEF MaxLinks

(* The loader's variables keep their types, and its checks hold good.      *)
THEOREM TypeCorrect == Spec => [](TypeOK /\ Checked)
<1>1. Init => TypeOK /\ Checked
  <2> SUFFICES ASSUME Init PROVE TypeOK /\ Checked
    OBVIOUS
  <2>1. PICK w \in Worlds : dir = w.dir /\ kind = w.kind /\ content = w.content
    BY DEF Init
  <2>2. w \in World
    BY <2>1, FileLoadAssumption
  <2>3. /\ dir \in [Path -> Inode \cup Link \cup {Absent}]
        /\ kind \in [Inode -> Kind] /\ content \in [Inode -> Seq(Byte)]
    BY <2>1, <2>2 DEF World
  <2>4. request \in Request /\ request.lexical \in Path /\ request.walked \in Path
    BY FileLoadAssumption DEF Init, Request
  <2>5. TypeOK
    <3>1. changes \in 0 .. MaxChanges
      BY FileLoadAssumption DEF Init
    <3>2. text \in Seq(Byte) /\ fd = Absent /\ path \in Path /\ reached \in Path
          /\ links \in 0 .. MaxLinks
      BY <2>4, MaxLinksType DEF Init
    <3>3. QED BY <2>3, <2>4, <3>1, <3>2 DEF Init, TypeOK
  <2>6. Checked
    BY FileLoadAssumption DEF Init, Checked
  <2>7. QED BY <2>5, <2>6
<1>2. TypeOK /\ Checked /\ [Next]_vars => TypeOK' /\ Checked'
  <2> SUFFICES ASSUME TypeOK, Checked, [Next]_vars PROVE TypeOK' /\ Checked'
    OBVIOUS
  <2> USE DEF TypeOK, Checked, history
  <2>1. CASE NoBaseDir
    BY <2>1, ErrorNames DEF NoBaseDir, Finish, fs, HasNameInside
  <2>2. CASE RawPathExists
    BY <2>2, ErrorNames, FileLoadAssumption DEF RawPathExists, EnterJail, Finish, fs, HasNameInside
  <2>3. CASE Canonicalize
    BY <2>3, ErrorNames, FileLoadAssumption DEF Canonicalize, EnterJail, Finish, fs, HasNameInside
  <2>4. CASE PreOpenStat
    BY <2>4, ErrorNames DEF PreOpenStat, Finish, fs, HasNameInside
  <2>5. CASE OpenNonBlocking
    BY <2>5, ErrorNames DEF OpenNonBlocking, Exists, Descriptor, HasNameInside, Finish, fs
  <2>6. CASE PostOpenCanonical
    <3>1. dir[reached] = fd /\ reached \in Inside => HasNameInside(dir, fd)
      BY DEF HasNameInside
    <3>2. pc' = "fstat" => dir[reached] \in Inode /\ reached \in Inside
      BY <2>6 DEF PostOpenCanonical, Finish
    <3>3. pc' = "fstat" => inside \/ renamed
      BY <2>6, <3>1, <3>2 DEF PostOpenCanonical
    <3>4. QED BY <2>6, <3>3, ErrorNames DEF PostOpenCanonical, Finish, fs, HasNameInside
  <2>7. CASE Fstat
    BY <2>7, ErrorNames DEF Fstat, Finish, fs, HasNameInside
  <2>8. CASE Read
    <3>1. fd \in Inode /\ content[fd] \in Seq(Byte)
      BY <2>8 DEF Read
    <3>2. text' \in Seq(Byte)
      BY <2>8, <3>1, ReadFacts DEF Read
    <3>3. QED BY <2>8, <3>2 DEF Read, fs, HasNameInside
  <2>9. CASE EndOfFile
    BY <2>9, ErrorNames DEF EndOfFile, Finish, fs, HasNameInside
  <2>10. CASE Environment
    <3>1. TypeOK'
      BY <2>10, EnvironmentFacts DEF loader
    <3>2. /\ fd \in Inode => kind'[fd] = kind[fd]
          /\ UNCHANGED loader
          /\ inside' = (inside \/ (fd \in Inode /\ HasNameInside(dir', fd)))
          /\ renamed' = (renamed \/ (pc = "walk" /\ dir'[reached] # fd))
      BY <2>10, EnvironmentFacts
    <3>3. pc' = pc /\ fd' = fd /\ text' = text /\ reached' = reached
      BY <3>2 DEF loader
    <3>4. /\ inside \/ renamed => inside' \/ renamed'
          /\ pc = "walk" => renamed' \/ dir'[reached] = fd
      BY <3>2
    <3>5. fd' \in Inode /\ HasNameInside(dir', fd') => inside'
      BY <3>2, <3>3
    <3>6. HasNameInside(dir, fd)' <=> HasNameInside(dir', fd')
      BY DEF HasNameInside
    <3>7. outcome' = outcome
      BY <3>2 DEF loader
    <3>8. pc \in {"proc_fd", "walk", "fstat", "read"} => kind'[fd] = kind[fd]
      BY <3>2
    <3>9. /\ pc' = "walk" => renamed' \/ dir'[reached'] = fd'
          /\ pc' \in {"fstat", "read"} => inside' \/ renamed'
      BY <3>3, <3>4
    <3>10. Checked'
      BY <3>3, <3>5, <3>6, <3>7, <3>8, <3>9
    <3>11. QED BY <3>1, <3>10
  <2>11. CASE UNCHANGED vars
    BY <2>11 DEF vars, fs, loader, HasNameInside
  <2>12. CASE FollowLink
    <3>1. reached' \in Path
      BY <2>12 DEF FollowLink, Link
    <3>2. links' \in 0 .. MaxLinks
      BY <2>12, MaxLinksType DEF FollowLink
    <3>3. pc = "walk" => renamed
      BY <2>12, TreeAssumption DEF FollowLink
    <3>4. QED BY <2>12, <3>1, <3>2, <3>3 DEF FollowLink, fs, HasNameInside
  <2>13. CASE ReadDescriptor
    <3>1. CASE Finish("PathEscaped") /\ UNCHANGED <<reached, links>>
      BY <2>13, <3>1, ErrorNames DEF ReadDescriptor, Finish, fs, HasNameInside
    <3>2. CASE ~(Finish("PathEscaped") /\ UNCHANGED <<reached, links>>)
      <4>1. /\ reached' \in Path /\ dir[reached'] = fd /\ links' = 0 /\ pc' = "walk"
            /\ UNCHANGED outcome
        BY <2>13, <3>2 DEF ReadDescriptor, WalkFrom
      <4>2. 0 \in 0 .. MaxLinks
        BY MaxLinksType
      <4>3. QED BY <2>13, <4>1, <4>2 DEF ReadDescriptor, fs, HasNameInside
    <3>3. QED BY <3>1, <3>2
  <2>14. QED
    BY <2>1, <2>2, <2>3, <2>4, <2>5, <2>6, <2>7, <2>8, <2>9, <2>10, <2>11, <2>12, <2>13
       DEF Next, Load, Done
<1>3. QED BY <1>1, <1>2, PTL DEF Spec

(* OnlyJailedBytes holds between any two system calls, whatever the other  *)
(* processes do.                                                           *)
THEOREM JailHolds == Spec => []OnlyJailedBytes
<1>1. Init => OnlyJailedBytes
  BY DEF Init, OnlyJailedBytes
<1>2. TypeOK /\ Checked /\ OnlyJailedBytes /\ [Next]_vars => OnlyJailedBytes'
  <2> SUFFICES ASSUME TypeOK, Checked, OnlyJailedBytes, [Next]_vars PROVE OnlyJailedBytes'
    OBVIOUS
  <2> USE DEF OnlyJailedBytes
  <2>1. CASE Read
    BY <2>1 DEF Read, fs, history, Checked
  <2>2. CASE OpenNonBlocking
    BY <2>2 DEF OpenNonBlocking, fs, Checked
  <2>3. CASE NoBaseDir \/ RawPathExists \/ FollowLink \/ Canonicalize \/ PreOpenStat
             \/ ReadDescriptor \/ PostOpenCanonical \/ Fstat \/ EndOfFile
    BY <2>3 DEF NoBaseDir, RawPathExists, FollowLink, Canonicalize, PreOpenStat, ReadDescriptor,
       PostOpenCanonical, Fstat, EndOfFile, fs, history
  <2>4. CASE Environment
    <3>1. /\ fd \in Inode => kind'[fd] = kind[fd]
          /\ UNCHANGED loader
          /\ inside' = (inside \/ (fd \in Inode /\ HasNameInside(dir', fd)))
          /\ renamed' = (renamed \/ (pc = "walk" /\ dir'[reached] # fd))
      BY <2>4, EnvironmentFacts
    <3>2. inside \/ renamed => inside' \/ renamed'
      BY <3>1
    <3>3. fd' = fd /\ text' = text
      BY <3>1 DEF loader
    <3>4. QED BY <3>1, <3>2, <3>3
  <2>5. CASE UNCHANGED vars
    BY <2>5 DEF vars, fs, loader, history
  <2>6. QED BY <2>1, <2>2, <2>3, <2>4, <2>5 DEF Next, Load, Done
<1>3. QED BY <1>1, <1>2, TypeCorrect, PTL DEF Spec

(* SizeBounded: the read is cut off, and measured, whatever fstat said.    *)
THEOREM SizeHolds == Spec => []SizeBounded
<1>1. Init => SizeBounded
  BY FileLoadAssumption DEF Init, SizeBounded
<1>2. TypeOK /\ Checked /\ SizeBounded /\ [Next]_vars => SizeBounded'
  <2> SUFFICES ASSUME TypeOK, Checked, SizeBounded, [Next]_vars PROVE SizeBounded'
    OBVIOUS
  <2> USE FileLoadAssumption DEF SizeBounded
  <2>1. CASE Read
    <3>1. fd \in Inode /\ content[fd] \in Seq(Byte) /\ text \in Seq(Byte)
      BY <2>1 DEF Read, Checked, TypeOK
    <3>2. PICK n \in Len(text) + 1 .. Len(content[fd]) :
            n <= MaxBytes + 1 /\ text' = text \o SubSeq(content[fd], Len(text) + 1, n)
      BY <2>1 DEF Read
    <3>3. Len(text') = n /\ outcome' = outcome
      BY <2>1, <3>1, <3>2, ReadFacts DEF Read
    <3>4. outcome # "ok"
      BY <2>1 DEF Read, Checked
    <3>5. QED BY <3>2, <3>3, <3>4
  <2>2. CASE EndOfFile
    BY <2>2 DEF EndOfFile, Finish
  <2>3. CASE NoBaseDir \/ RawPathExists \/ FollowLink \/ Canonicalize \/ PreOpenStat
             \/ OpenNonBlocking \/ ReadDescriptor \/ PostOpenCanonical \/ Fstat
    BY <2>3 DEF NoBaseDir, RawPathExists, FollowLink, Canonicalize, EnterJail, PreOpenStat,
       OpenNonBlocking, Descriptor, ReadDescriptor, WalkFrom, PostOpenCanonical, Fstat, Finish
  <2>4. CASE Environment
    BY <2>4, EnvironmentFacts DEF loader
  <2>5. CASE UNCHANGED vars
    BY <2>5 DEF vars, loader
  <2>6. QED BY <2>1, <2>2, <2>3, <2>4, <2>5 DEF Next, Load, Done
<1>3. QED BY <1>1, <1>2, TypeCorrect, PTL DEF Spec

-----------------------------------------------------------------------------
(* Walking links, in a tree d.                                             *)
Walk(d, p) ==
  LET walk[n \in 0 .. Cardinality(Path)] ==
        IF n = 0 THEN p ELSE IF d[walk[n - 1]] \in Link THEN d[walk[n - 1]].to ELSE walk[n - 1]
  IN walk[Cardinality(Path)]

(* What the request r names in the tree d, the path that this gives, and   *)
(* where that leads.                                                       *)
Found(d, r) == d[Walk(d, r.walked)] \in Inode
Located(d, r) == IF Found(d, r) THEN Walk(d, r.walked) ELSE r.lexical
LeadsTo(d, r) == Walk(d, IF Found(d, r) THEN r.walked ELSE r.lexical)

Acceptable(d, k, c, r) ==
  LET file == d[LeadsTo(d, r)]
  IN /\ r.base_dir /\ ProcFd
     /\ Found(d, r) \/ r.lexical \in Inside
     /\ LeadsTo(d, r) \in Inside /\ file \in Inode
     /\ k[file] = "regular"
     /\ Len(c[file]) <= MaxBytes /\ c[file] \in Json

(* f is the walk from p in the tree d, link by link.                       *)
Follow(d, q) == IF d[q] \in Link THEN d[q].to ELSE q

IsWalk(f, d, p) ==
  /\ f[0] = p /\ f[MaxLinks] = Walk(d, p)
  /\ \A n \in Nat : n + 1 <= MaxLinks => f[n + 1] = Follow(d, f[n])

(* What the loader has found out so far, when nobody has changed anything.  *)
QuietNow ==
  LET file == dir[LeadsTo(dir, request)] IN
  /\ \A p, q \in Path : dir[p] = dir[q] /\ dir[p] \in Inode => p = q
  /\ pc = "exists" => reached = request.walked /\ links = 0
  /\ pc = "canonicalize" =>
       /\ request.base_dir /\ Found(dir, request)
       /\ \E f : IsWalk(f, dir, request.walked) /\ f[links] = reached
  /\ pc \in {"stat", "open", "proc_fd", "walk", "fstat", "read"} =>
       request.base_dir /\ path = Located(dir, request) /\ path \in Inside
  /\ pc \in {"open", "proc_fd", "walk", "fstat", "read"} =>
       file \in Inode /\ kind[file] = "regular"
  /\ pc \in {"proc_fd", "walk", "fstat", "read"} => fd = file
  /\ pc = "walk" => ProcFd /\ reached = LeadsTo(dir, request)
  /\ pc \in {"fstat", "read"} => ProcFd /\ LeadsTo(dir, request) \in Inside
  /\ pc = "read" =>
       /\ Len(content[file]) <= MaxBytes /\ Len(text) <= Len(content[file])
       /\ \A i \in 1 .. Len(text) : text[i] = content[file][i]
  /\ pc = "done" =>
       /\ outcome = "ok" <=> Acceptable(dir, kind, content, request)
       /\ outcome = "ok" => text = content[file]

Quiet == changes = 0 => QuietNow

(* Induction, with the set of the numbers that a property holds of.        *)
LEMMA SetInduction ==
  ASSUME NEW S \in SUBSET Nat, 0 \in S, \A n \in S : n + 1 \in S
  PROVE  S = Nat
<1> SUFFICES ASSUME Nat \ S # {} PROVE FALSE
  OBVIOUS
<1>1. PICK x \in Nat \ S : \A y \in Nat \ S : ~(<<y, x>> \in OpToRel(<, Nat))
  BY NatLessThanWellFounded, WFMin
<1>2. x \in Nat /\ x # 0 /\ x - 1 \in Nat
  OBVIOUS
<1>3. x - 1 \in S
  <2>1. x - 1 < x
    BY <1>2
  <2>2. <<x - 1, x>> \in OpToRel(<, Nat)
    BY <1>2, <2>1 DEF OpToRel
  <2> QED
    BY <1>1, <1>2, <2>2
<1>4. (x - 1) + 1 = x
  BY <1>2
<1> QED
  BY <1>1, <1>3, <1>4

(* The walk exists, and is a walk.                                         *)
LEMMA WalkEquation ==
  ASSUME NEW d, NEW p
  PROVE  \E f : /\ Walk(d, p) = f[Cardinality(Path)] /\ f[0] = p /\ Cardinality(Path) \in Nat
                /\ \A n \in Nat : n + 1 <= Cardinality(Path) => f[n + 1] = Follow(d, f[n])
<1> DEFINE N == Cardinality(Path)
           Step(f, n) == IF n = 0 THEN p ELSE Follow(d, f[n - 1])
           S == {n \in Nat : \E f : f = [m \in 0 .. n |-> Step(f, m)]}
<1>0. N \in Nat
  BY TreeAssumption, FS_CardinalityType
<1>1. 0 \in S
  <2> DEFINE f == [m \in 0 .. 0 |-> p]
  <2>1. f = [m \in 0 .. 0 |-> Step(f, m)]
    OBVIOUS
  <2> QED
    BY <2>1
<1>2. ASSUME NEW n \in S PROVE n + 1 \in S
  <2>1. PICK f : f = [m \in 0 .. n |-> Step(f, m)]
    OBVIOUS
  <2> DEFINE h == [m \in 0 .. n + 1 |-> IF m = n + 1 THEN Follow(d, f[n]) ELSE f[m]]
  <2>2. n \in Nat /\ \A m \in 0 .. n : f[m] = Step(f, m)
    BY <2>1
  <2>3. ASSUME NEW m \in 0 .. n + 1 PROVE h[m] = Step(h, m)
    <3>1. CASE m = 0
      <4>1. h[0] = p
        BY <2>2
      <4> HIDE DEF h
      <4> QED
        BY <3>1, <4>1
    <3>2. CASE m \in 1 .. n
      <4>1. h[m] = f[m] /\ h[m - 1] = f[m - 1]
        BY <2>2, <3>2
      <4> HIDE DEF h
      <4> QED
        BY <2>2, <3>2, <4>1
    <3>3. CASE m = n + 1
      <4>1. h[m] = Follow(d, f[n]) /\ h[n] = f[n] /\ m - 1 = n /\ m # 0
        BY <2>2, <3>3
      <4> HIDE DEF h
      <4> QED
        BY <4>1
    <3> QED
      BY <2>2, <3>1, <3>2, <3>3
  <2>4. h = [m \in 0 .. n + 1 |-> h[m]]
    OBVIOUS
  <2> HIDE DEF h, Step
  <2>5. h = [m \in 0 .. n + 1 |-> Step(h, m)]
    BY <2>3, <2>4
  <2> QED
    BY <2>2, <2>5
<1>3. N \in S
  <2> HIDE DEF S
  <2>1. S \in SUBSET Nat
    BY DEF S
  <2>2. S = Nat
    BY <1>1, <1>2, <2>1, SetInduction
  <2> QED
    BY <1>0, <2>2
<1> DEFINE w == CHOOSE f : f = [m \in 0 .. N |-> Step(f, m)]
<1>4. w = [m \in 0 .. N |-> Step(w, m)]
  <2>1. \E f : f = [m \in 0 .. N |-> Step(f, m)]
    BY <1>3
  <2> QED
    BY <2>1
<1>5. Walk(d, p) = w[N]
  BY DEF Walk, Follow
<1> HIDE DEF w
<1>6. \A m \in 0 .. N : w[m] = Step(w, m)
  BY <1>4
<1>7. w[0] = p
  BY <1>0, <1>6
<1>8. ASSUME NEW n \in Nat, n + 1 <= N PROVE w[n + 1] = Follow(d, w[n])
  <2>1. n + 1 \in 0 .. N /\ n + 1 # 0 /\ (n + 1) - 1 = n
    BY <1>0, <1>8
  <2> HIDE DEF N
  <2> QED
    BY <1>6, <2>1
<1> QED
  BY <1>0, <1>5, <1>7, <1>8

(* What holds of every step of a walk holds of its end.                    *)
LEMMA WalkKeeps ==
  ASSUME NEW d, NEW p, NEW S, p \in S, \A q \in S : Follow(d, q) \in S
  PROVE  Walk(d, p) \in S
<1> DEFINE N == Cardinality(Path)
<1>1. PICK f : /\ Walk(d, p) = f[N] /\ f[0] = p /\ N \in Nat
               /\ \A n \in Nat : n + 1 <= N => f[n + 1] = Follow(d, f[n])
  BY WalkEquation
<1> DEFINE T == {n \in Nat : n <= N => f[n] \in S}
<1> HIDE DEF N
<1>2. 0 \in T
  BY <1>1
<1>3. ASSUME NEW n \in T PROVE n + 1 \in T
  BY <1>1
<1>4. T = Nat
  <2>1. T \in SUBSET Nat
    OBVIOUS
  <2> HIDE DEF T
  <2> QED
    BY <1>2, <1>3, <2>1, SetInduction
<1>5. N \in T
  BY <1>1, <1>4
<1> QED
  BY <1>1, <1>5

(* A walk ends at a name, and where there is no link it ends at once.      *)
LEMMA WalkFacts ==
  ASSUME NEW d \in [Path -> Inode \cup Link \cup {Absent}], NEW p \in Path
  PROVE  Walk(d, p) \in Path /\ (d[p] \notin Link => Walk(d, p) = p)
<1>1. Walk(d, p) \in Path
  <2>1. \A q \in Path : Follow(d, q) \in Path
    BY DEF Follow, Link
  <2> QED
    BY <2>1, WalkKeeps
<1>2. ASSUME d[p] \notin Link PROVE Walk(d, p) = p
  <2>1. \A q \in {p} : Follow(d, q) \in {p}
    BY <1>2 DEF Follow
  <2>2. p \in {p}
    OBVIOUS
  <2>3. Walk(d, p) \in {p}
    BY <2>1, <2>2, WalkKeeps
  <2> QED
    BY <2>3
<1> QED
  BY <1>1, <1>2

(* The loader's own walk.                                                  *)
LEMMA CanonicalIsWalk ==
  ASSUME NEW p
  PROVE  Canonical(p) = Walk(dir, p) /\ (Exists(p) <=> dir[Walk(dir, p)] \in Inode)
BY DEF Exists, Canonical, Walk

(* The walk that canonicalize takes, as it starts, goes on and ends.       *)
LEMMA WalkSteps ==
  ASSUME NEW d \in [Path -> Inode \cup Link \cup {Absent}], NEW p \in Path
  PROVE  /\ \E f : IsWalk(f, d, p) /\ f[0] = p
         /\ \A f : IsWalk(f, d, p) =>
              \A n \in 0 .. MaxLinks :
                IF d[f[n]] \in Link THEN n < MaxLinks => f[n + 1] = d[f[n]].to
                ELSE Walk(d, p) = f[n]
<1>1. \E f : IsWalk(f, d, p) /\ f[0] = p
  BY WalkEquation DEF IsWalk, MaxLinks
<1>2. ASSUME NEW f, IsWalk(f, d, p), NEW n \in 0 .. MaxLinks, d[f[n]] \in Link, n < MaxLinks
      PROVE  f[n + 1] = d[f[n]].to
  BY <1>2, MaxLinksType DEF IsWalk, Follow
<1>3. ASSUME NEW f, IsWalk(f, d, p), NEW n \in 0 .. MaxLinks, d[f[n]] \notin Link
      PROVE  Walk(d, p) = f[n]
  <2> DEFINE T == {m \in Nat : n + m <= MaxLinks => f[n + m] = f[n]}
  <2>1. 0 \in T
    BY <1>3, MaxLinksType
  <2>2. ASSUME NEW m \in T PROVE m + 1 \in T
    <3>1. SUFFICES ASSUME n + (m + 1) <= MaxLinks PROVE f[n + (m + 1)] = f[n]
      OBVIOUS
    <3>2. n + m \in Nat /\ (n + m) + 1 = n + (m + 1) /\ n + m <= MaxLinks
      BY <3>1, MaxLinksType
    <3>3. f[n + m] = f[n] /\ f[(n + m) + 1] = Follow(d, f[n + m])
      BY <1>3, <3>1, <3>2 DEF IsWalk
    <3> QED
      BY <1>3, <3>2, <3>3 DEF Follow
  <2>3. T \in SUBSET Nat
    OBVIOUS
  <2> HIDE DEF T
  <2>4. T = Nat
    BY <2>1, <2>2, <2>3, SetInduction
  <2>5. MaxLinks - n \in T /\ n + (MaxLinks - n) = MaxLinks
    BY <2>4, MaxLinksType
  <2>6. f[MaxLinks] = f[n]
    BY <2>5, MaxLinksType DEF T
  <2> QED
    BY <1>3, <2>6 DEF IsWalk
<1> QED
  BY <1>1, <1>2, <1>3

(* The path the loader uses leads where the request does.                  *)
LEMMA LocatedLeads ==
  ASSUME NEW d \in [Path -> Inode \cup Link \cup {Absent}], NEW r \in Request
  PROVE  /\ Walk(d, Located(d, r)) = LeadsTo(d, r)
         /\ LeadsTo(d, r) \in Path /\ Located(d, r) \in Path
         /\ Found(d, r) => LeadsTo(d, r) = Located(d, r)
<1>1. r.walked \in Path /\ r.lexical \in Path
  BY DEF Request
<1>2. Walk(d, r.walked) \in Path /\ Walk(d, r.lexical) \in Path
  BY <1>1, WalkFacts
<1>3. CASE Found(d, r)
  <2> DEFINE p == Walk(d, r.walked)
  <2>1. p \in Path /\ d[p] \notin Link
    BY <1>2, <1>3, TreeAssumption DEF Found
  <2>2. Walk(d, p) = p
    BY <2>1, WalkFacts
  <2> QED
    BY <1>2, <1>3, <2>2 DEF Located, LeadsTo
<1>4. CASE ~Found(d, r)
  BY <1>1, <1>2, <1>4 DEF Located, LeadsTo
<1> QED
  BY <1>3, <1>4

(* Texts are equal when the one is a whole prefix of the other.            *)
LEMMA WholePrefix ==
  ASSUME NEW s \in Seq(Byte), NEW c \in Seq(Byte), Len(s) = Len(c),
         \A i \in 1 .. Len(s) : s[i] = c[i]
  PROVE  s = c
BY SeqEqual

(* Reading on keeps what was read a prefix of the file.                    *)
LEMMA ReadOn ==
  ASSUME NEW c \in Seq(Byte), NEW s \in Seq(Byte), NEW n \in Len(s) + 1 .. Len(c),
         \A i \in 1 .. Len(s) : s[i] = c[i]
  PROVE  LET t == s \o SubSeq(c, Len(s) + 1, n)
         IN Len(t) = n /\ \A i \in 1 .. n : t[i] = c[i]
<1> DEFINE m == Len(s) + 1
           piece == SubSeq(c, m, n)
           t == s \o piece
<1>1. Len(s) \in Nat /\ Len(c) \in Nat /\ n \in Int /\ m \in Int /\ m <= n
  BY LenProperties
<1>2. \A i \in m .. n : c[i] \in Byte
  BY <1>1, ElementOfSeq
<1>3. /\ piece \in Seq(Byte) /\ Len(piece) = IF m <= n THEN n - m + 1 ELSE 0
      /\ \A i \in 1 .. n - m + 1 : piece[i] = c[m + i - 1]
  BY <1>1, <1>2, SubSeqProperties
<1>4. Len(piece) = n - Len(s)
  BY <1>1, <1>3
<1> HIDE DEF piece
<1>5. /\ Len(t) = Len(s) + Len(piece)
      /\ \A i \in 1 .. Len(s) + Len(piece) :
           t[i] = IF i <= Len(s) THEN s[i] ELSE piece[i - Len(s)]
  BY <1>3, ConcatProperties
<1> HIDE DEF t
<1>6. Len(t) = n
  BY <1>1, <1>4, <1>5
<1>7. ASSUME NEW i \in 1 .. n PROVE t[i] = c[i]
  <2>1. CASE i <= Len(s)
    <3>1. i \in 1 .. Len(s) /\ i \in 1 .. Len(s) + Len(piece)
      BY <1>1, <1>4, <2>1
    <3> QED
      BY <1>5, <2>1, <3>1
  <2>2. CASE ~(i <= Len(s))
    <3>1. i - Len(s) \in 1 .. n - m + 1 /\ m + (i - Len(s)) - 1 = i
          /\ i \in 1 .. Len(s) + Len(piece)
      BY <1>1, <1>4, <2>2
    <3>2. t[i] = piece[i - Len(s)]
      BY <1>5, <2>2, <3>1
    <3> QED
      BY <1>3, <3>1, <3>2
  <2> QED
    BY <2>1, <2>2
<1> QED
  BY <1>6, <1>7 DEF t, piece

(* Before the first system call Quiet holds.                              *)
LEMMA QuietStart == Init => Quiet
<1> SUFFICES ASSUME Init PROVE Quiet
  OBVIOUS
<1>1. PICK w \in Worlds : dir = w.dir
  BY DEF Init
<1>2. \A p, q \in Path : dir[p] = dir[q] /\ dir[p] \in Inode => p = q
  BY <1>1, TreeAssumption
<1> QED
  BY <1>2 DEF Init, Quiet, QuietNow

(* What QuietLoadExact asks for.                                           *)
LEMMA QuietIsExact ==
  ASSUME TypeOK, Quiet
  PROVE  QuietLoadExact
<1> DEFINE asked == IF Exists(request.walked) THEN request.walked ELSE request.lexical
<1>1. Exists(request.walked) <=> Found(dir, request)
  BY CanonicalIsWalk DEF Found
<1>2. Canonical(asked) = LeadsTo(dir, request)
  BY <1>1, CanonicalIsWalk DEF LeadsTo
<1>3. Acceptable(dir, kind, content, request) <=>
        /\ request.base_dir /\ ProcFd
        /\ Exists(request.walked) \/ request.lexical \in Inside
        /\ Canonical(asked) \in Inside /\ dir[Canonical(asked)] \in Inode
        /\ kind[dir[Canonical(asked)]] = "regular"
        /\ Len(content[dir[Canonical(asked)]]) <= MaxBytes /\ content[dir[Canonical(asked)]] \in Json
  BY <1>1, <1>2 DEF Acceptable
<1> QED
  BY <1>2, <1>3 DEF Quiet, QuietNow, QuietLoadExact

(* Quiet is inductive.                                                     *)
LEMMA QuietStep ==
  ASSUME TypeOK, Checked, Quiet, [Next]_vars
  PROVE  Quiet'
<1> SUFFICES ASSUME (changes = 0)' PROVE QuietNow'
  BY DEF Quiet
<1> DEFINE target == LeadsTo(dir, request)
           file == dir[target]
           whole == content[file]
<1>1. /\ dir \in [Path -> Inode \cup Link \cup {Absent}] /\ request \in Request
      /\ text \in Seq(Byte) /\ path \in Path
  BY DEF TypeOK
<1>2. /\ Walk(dir, Located(dir, request)) = target /\ target \in Path
      /\ Found(dir, request) => target = Located(dir, request)
  BY <1>1, LocatedLeads
<1>3. ~Environment
  <2> SUFFICES ASSUME Environment PROVE FALSE
    OBVIOUS
  <2>1. changes' = changes + 1 /\ changes \in Nat
    BY FileLoadAssumption DEF Environment, Change, TypeOK
  <2> QED
    BY <2>1
<1>4. UNCHANGED <<dir, kind, content, request, changes>>
  BY <1>3 DEF Next, Load, NoBaseDir, RawPathExists, FollowLink, Canonicalize, PreOpenStat,
     OpenNonBlocking, ReadDescriptor, PostOpenCanonical, Fstat, Read, EndOfFile, Done, fs, vars, loader
<1>5. QuietNow
  BY <1>4 DEF Quiet
<1>6. \A p, q \in Path : dir[p] = dir[q] /\ dir[p] \in Inode => p = q
  BY <1>5 DEF QuietNow
<1>7. /\ pc = "canonicalize" =>
           /\ request.base_dir /\ Found(dir, request)
           /\ \E f : IsWalk(f, dir, request.walked) /\ f[links] = reached
      /\ pc \in {"stat", "open", "proc_fd", "walk", "fstat", "read"} =>
           request.base_dir /\ path = Located(dir, request) /\ path \in Inside
      /\ pc \in {"open", "proc_fd", "walk", "fstat", "read"} =>
           file \in Inode /\ kind[file] = "regular"
      /\ pc \in {"proc_fd", "walk", "fstat", "read"} => fd = file
      /\ pc = "walk" => ProcFd /\ reached = target
      /\ pc \in {"fstat", "read"} => ProcFd /\ target \in Inside
  BY <1>5 DEF QuietNow
<1>8. Acceptable(dir, kind, content, request) =>
        /\ request.base_dir /\ ProcFd
        /\ Found(dir, request) \/ request.lexical \in Inside
        /\ target \in Inside /\ file \in Inode /\ kind[file] = "regular"
        /\ Len(whole) <= MaxBytes /\ whole \in Json
  BY DEF Acceptable
<1>9. ASSUME pc' = "done", outcome' # "ok", ~Acceptable(dir, kind, content, request)
      PROVE  QuietNow'
  BY <1>4, <1>6, <1>9 DEF QuietNow
<1>10. CASE NoBaseDir
  BY <1>8, <1>9, <1>10 DEF NoBaseDir, Finish
<1>11. CASE RawPathExists
  <2>1. Exists(request.walked) <=> Found(dir, request)
    BY CanonicalIsWalk DEF Found
  <2>2. CASE Found(dir, request)
    <3>1. /\ pc' = "canonicalize" /\ request.base_dir
          /\ reached' = request.walked /\ links' = 0
      BY <1>5, <1>11, <2>1, <2>2 DEF RawPathExists, QuietNow
    <3>2. \E f : IsWalk(f, dir, request.walked) /\ f[0] = request.walked
      BY <1>1, WalkSteps DEF Request
    <3> QED
      BY <1>4, <1>6, <2>2, <3>1, <3>2 DEF QuietNow
  <2>3. CASE ~Found(dir, request) /\ request.lexical \in Inside
    <3>1. pc' = "stat" /\ path' = request.lexical /\ request.base_dir
      BY <1>11, <2>1, <2>3 DEF RawPathExists, EnterJail
    <3> QED
      BY <1>4, <1>6, <2>3, <3>1 DEF QuietNow, Located
  <2>4. CASE ~Found(dir, request) /\ request.lexical \notin Inside
    <3>1. pc' = "done" /\ outcome' = "PathEscaped"
      BY <1>11, <2>1, <2>4 DEF RawPathExists, EnterJail, Finish
    <3> QED
      BY <1>8, <1>9, <2>4, <3>1
  <2> QED
    BY <2>2, <2>3, <2>4
<1>12. CASE Canonicalize
  <2>1. pc = "canonicalize"
    BY <1>12 DEF Canonicalize
  <2>2. request.base_dir /\ Found(dir, request)
    BY <1>7, <2>1
  <2>3. dir[reached] \in Inode /\ reached = Located(dir, request)
    <3>1. PICK f : IsWalk(f, dir, request.walked) /\ f[links] = reached
      BY <1>7, <2>1
    <3>2. links \in 0 .. MaxLinks /\ request.walked \in Path
      BY DEF TypeOK, Request
    <3>3. dir[reached] \notin Link
      <4> SUFFICES ASSUME dir[reached] \in Link PROVE FALSE
        OBVIOUS
      <4>1. links = MaxLinks
        BY <1>12 DEF Canonicalize, WalkEnds
      <4>2. Walk(dir, request.walked) = reached
        BY <3>1, <4>1 DEF IsWalk
      <4> QED
        BY <2>2, <4>2, TreeAssumption DEF Found
    <3>4. Walk(dir, request.walked) = reached
      BY <1>1, <3>1, <3>2, <3>3, WalkSteps
    <3> QED
      BY <2>2, <3>4 DEF Found, Located
  <2>4. EnterJail(Located(dir, request))
    BY <1>12, <2>3 DEF Canonicalize
  <2>5. CASE Located(dir, request) \in Inside
    <3>1. pc' = "stat" /\ path' = Located(dir, request)
      BY <2>4, <2>5 DEF EnterJail
    <3> QED
      BY <1>4, <1>6, <2>2, <2>5, <3>1 DEF QuietNow
  <2>6. CASE Located(dir, request) \notin Inside
    <3>1. pc' = "done" /\ outcome' = "PathEscaped"
      BY <2>4, <2>6 DEF EnterJail, Finish
    <3> QED
      BY <1>2, <1>8, <1>9, <2>2, <2>6, <3>1
  <2> QED
    BY <2>5, <2>6
<1>13. ASSUME pc = "stat" \/ pc = "open"
       PROVE  Canonical(path) = target /\ (Exists(path) <=> file \in Inode)
  BY <1>2, <1>7, <1>13, CanonicalIsWalk
<1>14. CASE PreOpenStat
  <2>1. pc = "stat" /\ path' = path
    BY <1>14 DEF PreOpenStat
  <2>2. CASE file \in Inode /\ kind[file] = "regular"
    <3>1. pc' = "open"
      BY <1>13, <1>14, <2>1, <2>2 DEF PreOpenStat
    <3> QED
      BY <1>4, <1>6, <1>7, <2>1, <2>2, <3>1 DEF QuietNow
  <2>3. CASE ~(file \in Inode /\ kind[file] = "regular")
    <3>1. pc' = "done" /\ outcome' = "IoError"
      BY <1>13, <1>14, <2>1, <2>3 DEF PreOpenStat, Finish
    <3> QED
      BY <1>8, <1>9, <2>3, <3>1
  <2> QED
    BY <2>2, <2>3
<1>15. CASE OpenNonBlocking
  <2>1. pc = "open" /\ path' = path
    BY <1>15 DEF OpenNonBlocking
  <2>2. pc' = "proc_fd" /\ fd' = file
    BY <1>7, <1>13, <1>15, <2>1 DEF OpenNonBlocking, Descriptor
  <2> QED
    BY <1>4, <1>6, <1>7, <2>1, <2>2 DEF QuietNow
<1>16. CASE PostOpenCanonical
  <2>1. pc = "walk" /\ path' = path /\ fd' = fd
    BY <1>16 DEF PostOpenCanonical
  <2>2. ProcFd /\ reached = target /\ dir[reached] \in Inode
    BY <1>7, <2>1
  <2>3. CASE target \in Inside
    <3>1. pc' = "fstat"
      BY <1>16, <2>2, <2>3 DEF PostOpenCanonical
    <3> QED
      BY <1>4, <1>6, <1>7, <2>1, <2>2, <2>3, <3>1 DEF QuietNow
  <2>4. CASE target \notin Inside
    <3>1. pc' = "done" /\ outcome' = "PathEscaped"
      BY <1>16, <2>2, <2>4 DEF PostOpenCanonical, Finish
    <3> QED
      BY <1>8, <1>9, <2>4, <3>1
  <2> QED
    BY <2>3, <2>4
<1>17. CASE Fstat
  <2>1. /\ pc = "fstat" /\ path' = path /\ fd' = fd /\ text' = text /\ text = <<>>
        /\ fd = file /\ kind[fd] = "regular"
    BY <1>7, <1>17 DEF Fstat, Checked
  <2>2. CASE Len(whole) > MaxBytes
    <3>1. pc' = "done" /\ outcome' = "SizeExceeded"
      BY <1>17, <2>1, <2>2 DEF Fstat, Finish
    <3>2. ~(Len(whole) <= MaxBytes)
      <4>1. Len(whole) \in Nat
        BY <1>7, <2>1, LenProperties DEF TypeOK
      <4> QED
        BY <2>2, <4>1, FileLoadAssumption
    <3> QED
      BY <1>8, <1>9, <3>1, <3>2
  <2>3. CASE ~(Len(whole) > MaxBytes)
    <3>1. pc' = "read"
      BY <1>17, <2>1, <2>3 DEF Fstat
    <3>2. Len(whole) <= MaxBytes /\ Len(text') = 0 /\ 0 <= Len(whole)
      <4>1. Len(whole) \in Nat
        BY <1>7, <2>1, LenProperties DEF TypeOK
      <4> QED
        BY <2>1, <2>3, <4>1, FileLoadAssumption
    <3> QED
      BY <1>4, <1>6, <1>7, <2>1, <3>1, <3>2 DEF QuietNow
  <2> QED
    BY <2>2, <2>3
<1>18. ASSUME pc = "read"
       PROVE  /\ Len(whole) <= MaxBytes /\ Len(text) <= Len(whole)
              /\ \A i \in 1 .. Len(text) : text[i] = whole[i]
              /\ whole \in Seq(Byte) /\ Len(whole) \in Nat /\ Len(text) \in Nat /\ fd = file
  <2>1. /\ Len(whole) <= MaxBytes /\ Len(text) <= Len(whole)
        /\ \A i \in 1 .. Len(text) : text[i] = whole[i]
    BY <1>5, <1>18 DEF QuietNow
  <2>2. whole \in Seq(Byte) /\ fd = file
    BY <1>7, <1>18 DEF TypeOK
  <2> QED
    BY <1>1, <2>1, <2>2, LenProperties
<1>19. CASE Read
  <2>1. /\ pc = "read" /\ pc' = pc /\ path' = path /\ fd' = fd
    BY <1>19 DEF Read
  <2>2. PICK n \in Len(text) + 1 .. Len(whole) : text' = text \o SubSeq(whole, Len(text) + 1, n)
    BY <1>18, <1>19, <2>1 DEF Read
  <2> HIDE DEF whole
  <2>3. Len(text') = n /\ \A i \in 1 .. n : text'[i] = whole[i]
    BY <1>1, <1>18, <2>1, <2>2, ReadOn
  <2>4. n <= Len(whole)
    BY <1>18, <2>1
  <2> QED
    BY <1>4, <1>6, <1>7, <1>18, <2>1, <2>3, <2>4 DEF QuietNow, whole
<1>20. CASE EndOfFile
  <2>1. pc = "read" /\ pc' = "done" /\ ~Available /\ text' = text
    BY <1>20 DEF EndOfFile, Finish
  <2>2. text = whole
    <3>1. Len(text) = Len(whole)
      <4> HIDE DEF whole, file
      <4>1. ~(Len(whole) > Len(text) /\ Len(text) < MaxBytes + 1)
        BY <1>18, <2>1 DEF Available, whole
      <4> QED
        BY <1>18, <2>1, <4>1, FileLoadAssumption
    <3> HIDE DEF whole
    <3> QED
      BY <1>1, <1>18, <2>1, <3>1, WholePrefix
  <2>3. whole \in Json => ~ \E i \in 1 .. Len(text) : text[i] = NotUtf8
    <3> SUFFICES ASSUME whole \in Json, NEW i \in 1 .. Len(text) PROVE text[i] # NotUtf8
      OBVIOUS
    <3>1. text \in Seq(Byte \ {NotUtf8})
      BY <2>2, TreeAssumption
    <3> QED
      BY <3>1, ElementOfSeq
  <2>4. Acceptable(dir, kind, content, request) <=> whole \in Json
    <3>1. /\ request.base_dir /\ ProcFd /\ target \in Inside /\ file \in Inode
          /\ kind[file] = "regular" /\ Len(whole) <= MaxBytes
      BY <1>7, <1>18, <2>1
    <3>2. Found(dir, request) \/ request.lexical \in Inside
      BY <1>7, <2>1 DEF Located
    <3> QED
      BY <3>1, <3>2 DEF Acceptable
  <2>5. outcome' = "ok" <=> whole \in Json
    <3>1. ~(Len(text) > MaxBytes)
      BY <1>18, <2>1, <2>2, FileLoadAssumption
    <3>2. outcome' = IF \E i \in 1 .. Len(text) : text[i] = NotUtf8 THEN "IoError"
                     ELSE IF text \in Json THEN "ok" ELSE "ParseError"
      BY <1>20, <3>1 DEF EndOfFile, Finish
    <3> QED
      BY <2>2, <2>3, <3>2
  <2> QED
    BY <1>4, <1>6, <2>1, <2>2, <2>4, <2>5 DEF QuietNow
<1>21. CASE UNCHANGED vars
  BY <1>5, <1>21 DEF QuietNow, vars, fs, loader
<1>22. CASE FollowLink
  <2>1. /\ path' = path /\ fd' = fd /\ pc' = pc
        /\ reached' = dir[reached].to /\ links' = links + 1 /\ links < MaxLinks
        /\ dir[reached] \in Link
    BY <1>22 DEF FollowLink
  <2>2. pc = "canonicalize"
    <3>1. pc # "walk"
      BY <1>7, <2>1, TreeAssumption
    <3> QED
      BY <1>22, <3>1 DEF FollowLink
  <2>3. PICK f : IsWalk(f, dir, request.walked) /\ f[links] = reached
    BY <1>7, <2>2
  <2>4. links \in 0 .. MaxLinks /\ request.walked \in Path
    BY DEF TypeOK, Request
  <2>5. f[links + 1] = dir[reached].to
    BY <1>1, <2>1, <2>3, <2>4, WalkSteps
  <2> QED
    BY <1>4, <1>6, <1>7, <2>1, <2>2, <2>3, <2>5 DEF QuietNow
<1>23. CASE ReadDescriptor
  <2>1. pc = "proc_fd" /\ path' = path /\ fd' = fd /\ fd = file
    BY <1>7, <1>23 DEF ReadDescriptor
  <2>2. {p \in Path : dir[p] = fd} = {target}
    BY <1>2, <1>6, <1>7, <2>1
  <2>3. CASE ProcFd
    <3>1. pc' = "walk" /\ reached' = target
      BY <1>23, <2>2, <2>3 DEF ReadDescriptor, WalkFrom
    <3> QED
      BY <1>4, <1>6, <1>7, <2>1, <2>3, <3>1 DEF QuietNow
  <2>4. CASE ~ProcFd
    <3>1. pc' = "done" /\ outcome' = "PathEscaped"
      BY <1>23, <2>4 DEF ReadDescriptor, WalkFrom, Finish
    <3> QED
      BY <1>8, <1>9, <2>4, <3>1
  <2> QED
    BY <2>3, <2>4
<1>24. \/ NoBaseDir \/ RawPathExists \/ FollowLink \/ Canonicalize \/ PreOpenStat
       \/ OpenNonBlocking \/ ReadDescriptor \/ PostOpenCanonical \/ Fstat \/ Read \/ EndOfFile
       \/ UNCHANGED vars
  BY <1>3 DEF Next, Load, Done
<1> QED
  BY <1>10, <1>11, <1>12, <1>14, <1>15, <1>16, <1>17, <1>19, <1>20, <1>21, <1>22, <1>23, <1>24

(* QuietLoadExact: undisturbed, the loader accepts exactly the files it    *)
(* should, and returns them whole.                                         *)
THEOREM QuietLoadsExact == Spec => []QuietLoadExact
<1>1. TypeOK /\ Checked /\ Quiet /\ [Next]_vars => Quiet'
  BY QuietStep
<1>2. TypeOK /\ Quiet => QuietLoadExact
  BY QuietIsExact
<1> QED
  BY <1>1, <1>2, QuietStart, TypeCorrect, PTL DEF Spec

-----------------------------------------------------------------------------
(***************************************************************************)
(* The registered documents, and what is asked of them.                    *)
(***************************************************************************)
Registrations == [uri : Uris, doc : Docs]

ResolverTypes ==
  /\ resolver \in {"offline", "file", "unrooted", "network"}
  /\ limited \in BOOLEAN
  /\ log \in Seq(Registrations)

ResolverInv == ResolverTypes /\ LatestWins /\ Authoritative

(* A call that asks for nothing leaves nothing to be authoritative about.  *)
LEMMA NothingAsked ==
  ASSUME NEW error, answer' = Fail(error)
  PROVE  Authoritative'
<1>1. DOMAIN answer' = {"error"} BY DEF Fail
<1>2. "base" \notin DOMAIN answer' BY <1>1
<1> QED BY <1>2 DEF Authoritative

(* A key that is registered has a latest registration, and one only.       *)
LEMMA LatestIsOne ==
  ASSUME ResolverTypes, LatestWins, NEW key
  PROVE  /\ key \in DOMAIN schemas <=> Latest(key) # {}
         /\ \A i, j \in Latest(key) : i = j
         /\ \A i \in Latest(key) : schemas[key] = log[i].doc
<1>1. DOMAIN log = 1 .. Len(log) /\ Len(log) \in Nat BY DEF ResolverTypes
<1>2. \A i, j \in Latest(key) : i = j BY <1>1 DEF Latest
<1>3. Latest(key) # {} => key \in DOMAIN schemas BY DEF Latest, LatestWins
<1>4. key \in DOMAIN schemas => \E i \in Latest(key) : schemas[key] = log[i].doc
  BY DEF LatestWins
<1> QED BY <1>2, <1>3, <1>4

LEMMA ResolverInitHolds == ResolverInit => ResolverInv
<1> SUFFICES ASSUME ResolverInit PROVE ResolverInv OBVIOUS
<1>1. ResolverTypes
  <2>1. resolver \in {"offline", "file", "unrooted", "network"} BY DEF ResolverInit
  <2>2. limited \in BOOLEAN BY DEF ResolverInit
  <2>3. log \in Seq(Registrations) BY DEF ResolverInit
  <2> QED BY <2>1, <2>2, <2>3 DEF ResolverTypes
<1>2. LatestWins BY DEF ResolverInit, LatestWins
<1>3. DOMAIN answer = {"error"} BY DEF ResolverInit, NoAnswer
<1>4. Authoritative BY <1>3 DEF Authoritative
<1> QED BY <1>1, <1>2, <1>4 DEF ResolverInv

(* One more registration: its key has it as the latest, every other key    *)
(* has the latest it had.                                                  *)
LEMMA RegisterKeeps ==
  ASSUME ResolverInv, NEW uri \in Uris, NEW doc \in Docs, Register(uri, doc)
  PROVE  ResolverInv'
<1> DEFINE new == [uri |-> uri, doc |-> doc]
           n   == Len(log) + 1
<1>1. new \in Registrations BY DEF Registrations
<1>2. log \in Seq(Registrations) /\ Len(log) \in Nat /\ DOMAIN log = 1 .. Len(log)
  BY DEF ResolverInv, ResolverTypes
<1>3. log' = Append(log, new) BY DEF Register
<1>4. /\ log' \in Seq(Registrations) /\ Len(log') = n /\ DOMAIN log' = 1 .. n
      /\ log'[n] = new /\ \A i \in DOMAIN log : log'[i] = log[i]
  BY <1>1, <1>2, <1>3
<1>5. ResolverTypes' BY <1>4 DEF ResolverInv, ResolverTypes, Register
<1>6. /\ DOMAIN schemas' = DOMAIN schemas \cup {Key(uri)}
      /\ schemas'[Key(uri)] = doc
      /\ \A k \in DOMAIN schemas : k # Key(uri) => schemas'[k] = schemas[k]
  BY DEF Register
<1>7. \A i \in DOMAIN log' : Key(log'[i].uri) \in DOMAIN schemas'
  <2>1. ASSUME NEW i \in DOMAIN log' PROVE Key(log'[i].uri) \in DOMAIN schemas'
    <3>1. CASE i = n BY <3>1, <1>4, <1>6
    <3>2. CASE i # n
      <4>1. i \in DOMAIN log /\ log'[i] = log[i] BY <3>2, <1>2, <1>4
      <4>2. Key(log[i].uri) \in DOMAIN schemas BY <4>1 DEF ResolverInv, LatestWins
      <4> QED BY <4>1, <4>2, <1>6
    <3> QED BY <3>1, <3>2
  <2> QED BY <2>1
<1>8. ASSUME NEW k \in DOMAIN schemas'
      PROVE  \E i \in Latest(k)' : schemas'[k] = log'[i].doc
  <2>1. CASE k = Key(uri)
    <3>1. n \in DOMAIN log' BY <1>2, <1>4
    <3>2. n + 1 .. Len(log') = {} BY <1>2, <1>4
    <3>3. n \in Latest(k)' BY <2>1, <3>1, <3>2, <1>4 DEF Latest
    <3> QED BY <2>1, <3>3, <1>4, <1>6
  <2>2. CASE k # Key(uri)
    <3>1. k \in DOMAIN schemas BY <2>2, <1>6
    <3>2. PICK i \in Latest(k) : schemas[k] = log[i].doc BY <3>1 DEF ResolverInv, LatestWins
    <3>3. i \in DOMAIN log /\ Key(log[i].uri) = k
          /\ \A j \in i + 1 .. Len(log) : Key(log[j].uri) # k
      BY <3>2 DEF Latest
    <3>4. i \in DOMAIN log' /\ log'[i] = log[i] BY <3>3, <1>2, <1>4
    <3>5. ASSUME NEW j \in i + 1 .. Len(log') PROVE Key(log'[j].uri) # k
      <4>1. CASE j = n BY <4>1, <1>4, <2>2
      <4>2. CASE j # n
        <5>1. j \in i + 1 .. Len(log) /\ j \in DOMAIN log BY <4>2, <3>3, <1>2, <1>4
        <5> QED BY <5>1, <3>3, <1>4
      <4> QED BY <4>1, <4>2
    <3>6. i \in Latest(k)' BY <3>3, <3>4, <3>5 DEF Latest
    <3> QED BY <3>1, <3>2, <3>4, <3>6, <2>2, <1>6
  <2> QED BY <2>1, <2>2
<1>9. LatestWins' BY <1>7, <1>8 DEF LatestWins
<1>10. Authoritative'
  <2>1. answer' = NoAnswer BY DEF Register
  <2>2. DOMAIN answer' = {"error"} BY <2>1 DEF NoAnswer
  <2> QED BY <2>2 DEF Authoritative
<1> QED BY <1>5, <1>9, <1>10 DEF ResolverInv

(* Without a registered document, only a file resolver can answer.         *)
LEMMA UnregisteredIsLoaded ==
  ASSUME ResolverTypes, NEW base, NEW reference,
         resolver = "network" \/ Key(strip_fragment(resolve_uri(base, reference))) \notin DOMAIN schemas,
         resolver # "file"
  PROVE  /\ resolve(base, reference).error # "none"
         /\ Limit(resolve(base, reference)) = resolve(base, reference)
<1> DEFINE resolved == resolve_uri(base, reference)
<1>1. CASE resolver = "network"
  <2>1. resolve(base, reference) = Fail("NetworkDenied") BY <1>1 DEF resolve, ResolveAt
  <2> QED BY <2>1 DEF Fail, Limit
<1>2. CASE resolver = "offline"
  <2>1. resolve(base, reference) = Fail("NotFound") BY <1>2 DEF resolve, ResolveAt, resolve_offline
  <2> QED BY <2>1 DEF Fail, Limit
<1>3. CASE resolver = "unrooted"
  <2>1. load_from_path(strip_fragment(resolved)) = Fail("NotFound") BY <1>3 DEF load_from_path, LoadFrom
  <2>2. Fail("NotFound").error = "NotFound" BY DEF Fail
  <2>3. resolve(base, reference) = Fail("NotFound") BY <1>3, <2>1, <2>2 DEF resolve, ResolveAt, resolve_file
  <2> QED BY <2>3 DEF Fail, Limit
<1> QED BY <1>1, <1>2, <1>3 DEF ResolverTypes

LEMMA ResolveKeeps ==
  ASSUME ResolverInv, NEW base \in Bases, NEW reference \in References, Resolve(base, reference)
  PROVE  ResolverInv'
<1> DEFINE resolved == resolve_uri(base, reference)
           key == Key(strip_fragment(resolved))
           result == resolve(base, reference)
           registered == Latest(key) # {} /\ resolver # "network"
<1>1. UNCHANGED <<resolver, limited, schemas, log>> BY DEF Resolve
<1>2. ResolverTypes' /\ LatestWins' BY <1>1 DEF ResolverInv, ResolverTypes, LatestWins, Latest
<1>3. /\ answer'.base = base /\ answer'.reference = reference
      /\ answer'.result = Passed(result)
  BY DEF Resolve
<1>4. /\ key \in DOMAIN schemas <=> Latest(key) # {}
      /\ \A i \in Latest(key) : schemas[key] = log[i].doc
  BY LatestIsOne DEF ResolverInv
<1>5. registered => \A i \in Latest(key) : result = ApplyFragment(log[i].doc, Fragment(resolved))
  <2>1. registered => result = ApplyFragment(schemas[key], Fragment(resolved))
    BY <1>4 DEF resolve, ResolveAt, resolve_offline, resolve_file
  <2> QED BY <2>1, <1>4
<1>6. ~registered /\ resolver # "file" => answer'.result.error # "none"
  BY <1>3, <1>4, UnregisteredIsLoaded DEF ResolverInv, Passed
<1>7. Latest(key)' = Latest(key) BY <1>1 DEF Latest
<1>8. Authoritative' BY <1>1, <1>3, <1>5, <1>6, <1>7 DEF Authoritative, Passed
<1> QED BY <1>2, <1>8 DEF ResolverInv

LEMMA ResolverStepKeeps == ResolverInv /\ [ResolverNext]_resolver_vars => ResolverInv'
<1> SUFFICES ASSUME ResolverInv, [ResolverNext]_resolver_vars PROVE ResolverInv' OBVIOUS
<1>1. ASSUME NEW uri \in Uris, NEW doc \in Docs, Register(uri, doc) PROVE ResolverInv'
  BY <1>1, RegisterKeeps
<1>2. ASSUME NEW uri \in Uris, NEW json \in Docs \cup {NotJson}, RegisterJson(uri, json)
      PROVE  ResolverInv'
  <2>1. CASE json = NotJson
    <3>1. answer' = Fail("ParseError") /\ UNCHANGED <<resolver, limited, schemas, log>>
      BY <1>2, <2>1 DEF RegisterJson
    <3>2. ResolverTypes' /\ LatestWins' BY <3>1 DEF ResolverInv, ResolverTypes, LatestWins, Latest
    <3> QED BY <3>1, <3>2, NothingAsked DEF ResolverInv
  <2>2. CASE json # NotJson
    <3>1. json \in Docs /\ Register(uri, json) BY <1>2, <2>2 DEF RegisterJson
    <3> QED BY <3>1, RegisterKeeps
  <2> QED BY <2>1, <2>2
<1>3. CASE Wrap
  <2>1. answer' = NoAnswer /\ UNCHANGED <<resolver, schemas, log>> /\ limited' = TRUE
    BY <1>3 DEF Wrap
  <2>2. ResolverTypes' /\ LatestWins' BY <2>1 DEF ResolverInv, ResolverTypes, LatestWins, Latest
  <2>3. DOMAIN answer' = {"error"} BY <2>1 DEF NoAnswer
  <2>4. Authoritative' BY <2>3 DEF Authoritative
  <2> QED BY <2>2, <2>4 DEF ResolverInv
<1>4. ASSUME NEW base \in Bases, NEW reference \in References, Resolve(base, reference)
      PROVE  ResolverInv'
  BY <1>4, ResolveKeeps
<1>5. CASE UNCHANGED resolver_vars
  <2>1. UNCHANGED <<resolver, limited, schemas, log, answer>> BY <1>5 DEF resolver_vars
  <2>2. ResolverTypes' /\ LatestWins' BY <2>1 DEF ResolverInv, ResolverTypes, LatestWins, Latest
  <2>3. Authoritative' BY <2>1 DEF ResolverInv, Authoritative, Latest, Passed, Limit
  <2> QED BY <2>2, <2>3 DEF ResolverInv
<1> QED BY <1>1, <1>2, <1>3, <1>4, <1>5 DEF ResolverNext

LEMMA ResolverInvHolds == ResolverSpec => []ResolverInv
BY ResolverInitHolds, ResolverStepKeeps, PTL DEF ResolverSpec

(* The registry holds, under each key, what was registered last under any  *)
(* spelling of it.                                                         *)
THEOREM RegistryCorrect == ResolverSpec => []LatestWins
<1>1. ResolverInv => LatestWins BY DEF ResolverInv
<1> QED BY <1>1, ResolverInvHolds, PTL

(* A registered document answers, whatever is on the disk.                 *)
THEOREM AuthorityCorrect == ResolverSpec => []Authoritative
<1>1. ResolverInv => Authoritative BY DEF ResolverInv
<1> QED BY <1>1, ResolverInvHolds, PTL

-----------------------------------------------------------------------------
(***************************************************************************)
(* The recursive functions of Uri, JsonTree and Resolvers, which go along  *)
(* a sequence or up a document: that they exist, and what they give.       *)
(***************************************************************************)
(* What find_anchor_in_value finds at node i, where f is what it finds at  *)
(* the nodes below.                                                        *)
Finding(doc, name, i, f) ==
  IF doc[i].kind # "object" THEN 0
  ELSE IF IsAnchor(doc, i, name) THEN i
  ELSE LET children == SchemaChildren(doc, i)
           k == SelectInSeq(children, LAMBDA child : f[child] # 0)
       IN IF k = 0 THEN 0 ELSE f[children[k]]

(* What a node measures, prints and nests, where f is what those below do. *)
MeasuringNode(node, inner) ==
  CASE node.kind \in DOMAIN Literals -> [size |-> Len(Literals[node.kind]), depth |-> 1]
    [] node.kind = "number" -> [size |-> Len(node.text), depth |-> 1]
    [] node.kind = "string" -> [size |-> json_string_byte_size(node.text), depth |-> 1]
    [] OTHER ->
         [size |-> 2 + Max({Len(inner), 1}) - 1
                     + Total([p \in 1 .. Len(node.keys) |->
                                json_string_byte_size(node.keys[p]) + 1])
                     + Total([p \in 1 .. Len(node.parts) |-> inner[p].size]),
          depth |-> Max({0} \cup {inner[p].depth : p \in 1 .. Len(node.parts)}) + 1]

PrintingNode(node, inner) ==
  CASE node.kind \in DOMAIN Literals -> Literals[node.kind]
    [] node.kind = "number" -> node.text
    [] node.kind = "string" -> Quoted(node.text)
    [] node.kind = "array" -> <<"[">> \o Listed(inner) \o <<"]">>
    [] OTHER -> <<"{">> \o Listed([p \in 1 .. Len(node.parts) |->
                                    Quoted(node.keys[p]) \o <<":">> \o inner[p]]) \o <<"}">>

Below(doc, i, f) == [p \in 1 .. Len(doc[i].parts) |-> f[doc[i].parts[p]]]

Measuring(doc, i, f) == MeasuringNode(doc[i], Below(doc, i, f))

Printing(doc, i, f) == PrintingNode(doc[i], Below(doc, i, f))

Deepening(doc, i, f) == 1 + Max({0} \cup {f[p] : p \in ToSet(doc[i].parts)})

(* What each recursive function gives for x, where f is what it gives for  *)
(* arguments of smaller rank: three along a sequence, four up a document.  *)
Recurring(of, x, f) ==
  CASE of.name = "total" -> IF x = 0 THEN 0 ELSE f[x - 1] + of.list[x]
    [] of.name = "joined" -> IF x = 1 THEN of.list[x] ELSE f[x - 1] \o of.list[x]
    [] of.name = "pointer" -> IF x = 0 THEN 1 ELSE Under(of.doc, f[x - 1], of.list[x])
    [] of.name = "segments" -> IF x = 0 THEN << <<>> >> ELSE Segmented(f[x - 1], of.list[x])
    [] of.name = "kept" -> IF x = 0 THEN <<>> ELSE Stacked(f[x - 1], of.list[x], x \in of.drop)
    [] of.name = "positions" -> IF x = 0 THEN {1} ELSE f[x - 1] \cup SchemasIn(of.doc, f[x - 1])
    [] of.name = "found" -> Finding(of.doc, of.list, x, f)
    [] of.name = "measured" -> Measuring(of.doc, x, f)
    [] of.name = "printed" -> Printing(of.doc, x, f)
    [] of.name = "nested" -> Deepening(of.doc, x, f)

(* It reads only what f gives for arguments of smaller rank.               *)
ReadsLess(of, D, rank) ==
  \A x \in D : \A g, h :
    (\A y \in D : rank[y] < rank[x] => g[y] = h[y]) => Recurring(of, x, g) = Recurring(of, x, h)

(* There is a function that gives this.                                    *)
Defined(of, D) == \E f : f = [x \in D |-> Recurring(of, x, f)]

(* There is one where each value depends on those of smaller rank.         *)
LEMMA RecursionExists ==
  ASSUME NEW of, NEW D, NEW rank \in [D -> Nat], ReadsLess(of, D, rank)
  PROVE  Defined(of, D)
<1>0. ASSUME NEW x \in D, NEW g, NEW h, \A y \in D : rank[y] < rank[x] => g[y] = h[y]
      PROVE  Recurring(of, x, g) = Recurring(of, x, h)
  BY <1>0 DEF ReadsLess
<1> DEFINE Good(n, f) == f = [x \in D |-> f[x]] /\ \A x \in D : rank[x] < n => f[x] = Recurring(of, x, f)
           S == {n \in Nat : \E f : Good(n, f)}
<1>1. 0 \in S
  <2>1. Good(0, [x \in D |-> 0])
    OBVIOUS
  <2> QED BY <2>1
<1>2. ASSUME NEW n \in S PROVE n + 1 \in S
  <2>1. PICK f : Good(n, f)
    OBVIOUS
  <2> DEFINE g == [x \in D |-> Recurring(of, x, f)]
  <2>3. ASSUME NEW x \in D, rank[x] < n + 1 PROVE g[x] = Recurring(of, x, g)
    <3>1. ASSUME NEW y \in D, rank[y] < rank[x] PROVE f[y] = g[y]
      <4>1. rank[x] \in Nat /\ rank[y] \in Nat /\ n \in Nat
        OBVIOUS
      <4>2. rank[y] < n
        BY <4>1, <3>1, <2>3
      <4> QED BY <4>2, <2>1
    <3> HIDE DEF g
    <3>2. Recurring(of, x, f) = Recurring(of, x, g)
      BY <3>1, <1>0
    <3> QED BY <3>2 DEF g
  <2>4. Good(n + 1, g)
    BY <2>3
  <2>5. n + 1 \in Nat
    OBVIOUS
  <2> HIDE DEF g, Good
  <2> QED BY <2>4, <2>5
<1>3. S = Nat
  <2> HIDE DEF S
  <2>1. S \in SUBSET Nat
    BY DEF S
  <2> QED BY <1>1, <1>2, <2>1, SetInduction
<1>4. ASSUME NEW n \in Nat, NEW m \in Nat, n <= m, NEW f, NEW g, Good(n, f), Good(m, g),
             NEW x \in D, rank[x] < n
      PROVE  f[x] = g[x]
  <2> DEFINE T == {k \in Nat : \A y \in D : rank[y] < k /\ k <= n => f[y] = g[y]}
  <2>1. 0 \in T
    OBVIOUS
  <2>2. ASSUME NEW k \in T PROVE k + 1 \in T
    <3> SUFFICES ASSUME NEW y \in D, rank[y] < k + 1, k + 1 <= n PROVE f[y] = g[y]
      OBVIOUS
    <3>1. rank[y] \in Nat /\ k \in Nat
      OBVIOUS
    <3>2. \A z \in D : rank[z] < rank[y] => f[z] = g[z]
      <4> TAKE z \in D
      <4>1. rank[z] \in Nat
        OBVIOUS
      <4> QED BY <3>1, <4>1
    <3>3. Recurring(of, y, f) = Recurring(of, y, g)
      BY <3>2, <1>0
    <3>4. rank[y] < n /\ rank[y] < m
      BY <3>1, <1>4
    <3> QED BY <3>3, <3>4, <1>4
  <2>3. T = Nat
    <3> HIDE DEF T
    <3>1. T \in SUBSET Nat
      BY DEF T
    <3> QED BY <2>1, <2>2, <3>1, SetInduction
  <2>4. n \in T
    BY <2>3
  <2> QED BY <2>4, <1>4
<1> DEFINE G == [n \in Nat |-> CHOOSE g : Good(n, g)]
           f == [x \in D |-> G[rank[x] + 1][x]]
<1>5. ASSUME NEW n \in Nat PROVE Good(n, G[n])
  <2>1. \E g : Good(n, g)
    BY <1>3
  <2> HIDE DEF Good
  <2>2. G[n] = CHOOSE g : Good(n, g)
    OBVIOUS
  <2> QED BY <2>1, <2>2
<1>6. \A x \in D : rank[x] \in Nat /\ rank[x] + 1 \in Nat /\ rank[x] < rank[x] + 1
  OBVIOUS
<1>8. ASSUME NEW x \in D PROVE f[x] = Recurring(of, x, f)
  <2> DEFINE g == G[rank[x] + 1]
  <2>1. Good(rank[x] + 1, g)
    BY <1>5, <1>6
  <2>2. f[x] = g[x] /\ g[x] = Recurring(of, x, g)
    BY <2>1, <1>6
  <2>3. ASSUME NEW y \in D, rank[y] < rank[x] PROVE f[y] = g[y]
    <3>1. Good(rank[y] + 1, G[rank[y] + 1])
      BY <1>5, <1>6
    <3>2. rank[y] + 1 \in Nat /\ rank[x] + 1 \in Nat /\ rank[y] + 1 <= rank[x] + 1 /\ rank[y] < rank[y] + 1
      BY <1>6, <2>3
    <3> HIDE DEF Good, G
    <3>3. G[rank[y] + 1][y] = g[y]
      BY <3>1, <3>2, <2>1, <1>4
    <3> QED BY <3>3
  <2> HIDE DEF f, g
  <2>4. Recurring(of, x, f) = Recurring(of, x, g)
    BY <2>3, <1>0
  <2> QED BY <2>2, <2>4
<1>9. f = [x \in D |-> f[x]]
  OBVIOUS
<1> QED
  <2> HIDE DEF f
  <2>1. f = [x \in D |-> Recurring(of, x, f)]
    BY <1>8, <1>9
  <2> QED BY <2>1 DEF Defined

(* Along a list, there is one where each value depends on the one before.  *)
ReadsBefore(of, m, n) ==
  \A x \in m .. n : \A g, h :
    (x # m => g[x - 1] = h[x - 1]) => Recurring(of, x, g) = Recurring(of, x, h)

(* As above.                                                               *)
LEMMA ListRecursion ==
  ASSUME NEW of, NEW m \in Nat, NEW n \in Nat, ReadsBefore(of, m, n)
  PROVE  Defined(of, m .. n)
<1> DEFINE rank == [x \in m .. n |-> x]
<1>1. rank \in [m .. n -> Nat]
  OBVIOUS
<1>2. ASSUME NEW x \in m .. n, NEW g, NEW h, \A y \in m .. n : rank[y] < rank[x] => g[y] = h[y]
      PROVE  Recurring(of, x, g) = Recurring(of, x, h)
  <2>1. x # m => x - 1 \in m .. n /\ rank[x - 1] < rank[x]
    OBVIOUS
  <2> HIDE DEF rank
  <2> QED BY <1>2, <2>1 DEF ReadsBefore
<1> HIDE DEF rank
<1>3. ReadsLess(of, m .. n, rank)
  BY <1>2 DEF ReadsLess
<1> QED BY <1>1, <1>3, RecursionExists

(* Up a document, there is one where each value depends on those of the    *)
(* nodes that stand after.                                                 *)
ReadsAfter(of, n) ==
  \A x \in 1 .. n : \A g, h :
    (\A y \in x + 1 .. n : g[y] = h[y]) => Recurring(of, x, g) = Recurring(of, x, h)

(* As above.                                                               *)
LEMMA NodeRecursion ==
  ASSUME NEW of, NEW n \in Nat, ReadsAfter(of, n)
  PROVE  Defined(of, 1 .. n)
<1> DEFINE rank == [x \in 1 .. n |-> n - x]
<1>1. rank \in [1 .. n -> Nat]
  OBVIOUS
<1>2. ASSUME NEW x \in 1 .. n, NEW g, NEW h, \A y \in 1 .. n : rank[y] < rank[x] => g[y] = h[y]
      PROVE  Recurring(of, x, g) = Recurring(of, x, h)
  <2>1. \A y \in x + 1 .. n : y \in 1 .. n /\ rank[y] < rank[x]
    OBVIOUS
  <2> HIDE DEF rank
  <2> QED BY <1>2, <2>1 DEF ReadsAfter
<1> HIDE DEF rank
<1>3. ReadsLess(of, 1 .. n, rank)
  BY <1>2 DEF ReadsLess
<1> QED BY <1>1, <1>3, RecursionExists

(* What holds of the last node, and of each when it holds of those after   *)
(* it, holds of all.                                                       *)
LEMMA NodeInduction ==
  ASSUME NEW n \in Nat, NEW S \in SUBSET (1 .. n),
         \A x \in 1 .. n : (x + 1 .. n) \subseteq S => x \in S
  PROVE  S = 1 .. n
<1> DEFINE T == {k \in Nat : \A x \in 1 .. n : n - x < k => x \in S}
<1>1. 0 \in T
  OBVIOUS
<1>2. ASSUME NEW k \in T PROVE k + 1 \in T
  <2> SUFFICES ASSUME NEW x \in 1 .. n, n - x < k + 1 PROVE x \in S
    OBVIOUS
  <2>1. \A y \in x + 1 .. n : y \in 1 .. n /\ n - y < k
    OBVIOUS
  <2> QED BY <2>1
<1>3. T = Nat
  <2> HIDE DEF T
  <2>1. T \in SUBSET Nat
    BY DEF T
  <2> QED BY <1>1, <1>2, <2>1, SetInduction
<1>4. ASSUME NEW x \in 1 .. n PROVE x \in S
  <2>1. (n - x) + 1 \in T
    <3> HIDE DEF T
    <3> QED BY <1>3
  <2>2. n - x < (n - x) + 1
    OBVIOUS
  <2> QED BY <2>1, <2>2
<1> QED BY <1>4

(* The least of some numbers is one of them.                               *)
LEMMA MinFacts ==
  ASSUME NEW S \in SUBSET Nat, S # {}
  PROVE  Min(S) \in S
<1>1. PICK x \in S : \A y \in S : ~(<<y, x>> \in OpToRel(<, Nat))
  BY NatLessThanWellFounded, WFMin
<1>2. \A y \in S : x =< y
  <2> TAKE y \in S
  <2>1. x \in Nat /\ y \in Nat
    OBVIOUS
  <2>2. ASSUME y < x PROVE <<y, x>> \in OpToRel(<, Nat)
    BY <2>1, <2>2 DEF OpToRel
  <2>3. ~(y < x)
    BY <1>1, <2>2
  <2> QED BY <2>1, <2>3
<1>3. \E z \in S : \A y \in S : z =< y
  BY <1>2
<1> QED BY <1>3 DEF Min

(* The greatest of finitely many numbers is one of them.                   *)
LEMMA MaxFacts ==
  ASSUME NEW n \in Nat, NEW f, \A p \in 1 .. n : f[p] \in Nat
  PROVE  LET numbers == {0} \cup {f[p] : p \in 1 .. n}
         IN Max(numbers) \in numbers /\ Max(numbers) \in Nat
<1> DEFINE R(k) == {0} \cup {f[p] : p \in 1 .. k}
           S == {k \in Nat : k <= n => \E m \in R(k) : \A y \in R(k) : m >= y}
<1>1. 0 \in S
  OBVIOUS
<1>2. ASSUME NEW k \in S PROVE k + 1 \in S
  <2> SUFFICES ASSUME k + 1 <= n PROVE \E m \in R(k + 1) : \A y \in R(k + 1) : m >= y
    OBVIOUS
  <2>0. k \in Nat /\ k <= n /\ 1 .. k + 1 = (1 .. k) \cup {k + 1} /\ k + 1 \in 1 .. n
    OBVIOUS
  <2>1. PICK m \in R(k) : \A y \in R(k) : m >= y
    BY <2>0
  <2>2. R(k + 1) = R(k) \cup {f[k + 1]}
    BY <2>0
  <2>3. R(k) \subseteq Nat /\ f[k + 1] \in Nat
    BY <2>0
  <2> HIDE DEF R
  <2>4. CASE m >= f[k + 1]
    BY <2>1, <2>2, <2>4
  <2>5. CASE ~(m >= f[k + 1])
    <3>1. \A y \in R(k + 1) : f[k + 1] >= y
      BY <2>1, <2>2, <2>3, <2>5
    <3> QED BY <2>2, <3>1
  <2> QED BY <2>4, <2>5
<1>3. S = Nat
  <2> HIDE DEF S
  <2>1. S \in SUBSET Nat
    BY DEF S
  <2> QED BY <1>1, <1>2, <2>1, SetInduction
<1>4. \E m \in R(n) : \A y \in R(n) : m >= y
  <2> HIDE DEF R
  <2> QED BY <1>3
<1>5. R(n) \subseteq Nat
  OBVIOUS
<1>6. Max(R(n)) \in R(n)
  <2> HIDE DEF R
  <2> QED BY <1>4 DEF Max
<1> QED BY <1>5, <1>6

(* A sum grows number by number.                                           *)
Summed(list, n) == CHOOSE upto : upto = [k \in 0 .. n |-> IF k = 0 THEN 0 ELSE upto[k - 1] + list[k]]

(* As above.                                                               *)
LEMMA TotalSteps ==
  ASSUME NEW list, NEW n \in Nat, Len(list) = n
  PROVE  \E upto : /\ Total(list) = upto[n] /\ upto[0] = 0
                   /\ \A k \in 1 .. n : upto[k] = upto[k - 1] + list[k]
<1> DEFINE of == [name |-> "total", list |-> list]
           upto == Summed(list, n)
<1>1. \A x, f : Recurring(of, x, f) = (IF x = 0 THEN 0 ELSE f[x - 1] + list[x])
  BY DEF Recurring
<1>2. Total(list) = upto[n]
  BY DEF Total, Summed
<1> HIDE DEF of
<1>4. \E f : f = [x \in 0 .. n |-> IF x = 0 THEN 0 ELSE f[x - 1] + list[x]]
  <2>1. ReadsBefore(of, 0, n)
    BY <1>1 DEF ReadsBefore
  <2>2. Defined(of, 0 .. n)
    BY <2>1, ListRecursion
  <2>3. PICK f : f = [x \in 0 .. n |-> Recurring(of, x, f)]
    BY <2>2 DEF Defined
  <2>4. \A x \in 0 .. n : Recurring(of, x, f) = (IF x = 0 THEN 0 ELSE f[x - 1] + list[x])
    BY <1>1
  <2>5. f = [x \in 0 .. n |-> IF x = 0 THEN 0 ELSE f[x - 1] + list[x]]
    BY <2>3, <2>4
  <2> QED BY <2>5
<1>5. upto = [k \in 0 .. n |-> IF k = 0 THEN 0 ELSE upto[k - 1] + list[k]]
  BY <1>4 DEF Summed
<1> HIDE DEF upto
<1>6. upto[0] = 0 /\ \A k \in 1 .. n : upto[k] = upto[k - 1] + list[k]
  BY <1>5
<1> QED BY <1>2, <1>6

(* What grows like the sum is the sum.                                     *)
LEMMA TotalIs ==
  ASSUME NEW list, NEW n \in Nat, Len(list) = n, NEW g, g[0] = 0,
         \A k \in 1 .. n : g[k] = g[k - 1] + list[k]
  PROVE  Total(list) = g[n]
<1>1. PICK upto : /\ Total(list) = upto[n] /\ upto[0] = 0
                  /\ \A k \in 1 .. n : upto[k] = upto[k - 1] + list[k]
  BY TotalSteps
<1> DEFINE S == {k \in Nat : k <= n => upto[k] = g[k]}
<1>2. 0 \in S
  BY <1>1
<1>3. ASSUME NEW k \in S PROVE k + 1 \in S
  <2> SUFFICES ASSUME k + 1 <= n PROVE upto[k + 1] = g[k + 1]
    OBVIOUS
  <2>1. k + 1 \in 1 .. n /\ (k + 1) - 1 = k /\ k <= n
    OBVIOUS
  <2> QED BY <1>1, <2>1
<1>4. S = Nat
  <2> HIDE DEF S
  <2>1. S \in SUBSET Nat
    BY DEF S
  <2> QED BY <1>2, <1>3, <2>1, SetInduction
<1>5. n \in S
  BY <1>4
<1> QED BY <1>1, <1>5

(* The sum of integers is one.                                             *)
LEMMA TotalType ==
  ASSUME NEW list, NEW n \in Nat, Len(list) = n, \A k \in 1 .. n : list[k] \in Int
  PROVE  Total(list) \in Int
<1>1. PICK upto : /\ Total(list) = upto[n] /\ upto[0] = 0
                  /\ \A k \in 1 .. n : upto[k] = upto[k - 1] + list[k]
  BY TotalSteps
<1> DEFINE S == {k \in Nat : k <= n => upto[k] \in Int}
<1>2. 0 \in S
  BY <1>1
<1>3. ASSUME NEW k \in S PROVE k + 1 \in S
  <2> SUFFICES ASSUME k + 1 <= n PROVE upto[k + 1] \in Int
    OBVIOUS
  <2>1. k + 1 \in 1 .. n /\ (k + 1) - 1 = k /\ k <= n
    OBVIOUS
  <2>2. upto[k + 1] = upto[k] + list[k + 1] /\ upto[k] \in Int /\ list[k + 1] \in Int
    BY <1>1, <2>1
  <2> QED BY <2>2
<1>4. S = Nat
  <2> HIDE DEF S
  <2>1. S \in SUBSET Nat
    BY DEF S
  <2> QED BY <1>2, <1>3, <2>1, SetInduction
<1>5. n \in S
  BY <1>4
<1> QED BY <1>1, <1>5

(* Two sums make one.                                                      *)
LEMMA TotalPlus ==
  ASSUME NEW n \in Nat, NEW a, NEW b, NEW c, Len(a) = n, Len(b) = n, Len(c) = n
  PROVE  (\A k \in 1 .. n : a[k] \in Int /\ b[k] \in Int /\ c[k] = a[k] + b[k])
           => Total(c) = Total(a) + Total(b)
<1>1. ASSUME \A k \in 1 .. n : a[k] \in Int /\ b[k] \in Int /\ c[k] = a[k] + b[k]
      PROVE  Total(c) = Total(a) + Total(b)
  <2>1. PICK f : Total(a) = f[n] /\ f[0] = 0 /\ \A k \in 1 .. n : f[k] = f[k - 1] + a[k]
    BY TotalSteps
  <2>2. PICK g : Total(b) = g[n] /\ g[0] = 0 /\ \A k \in 1 .. n : g[k] = g[k - 1] + b[k]
    BY TotalSteps
  <2> DEFINE S == {k \in Nat : k <= n => f[k] \in Int /\ g[k] \in Int}
             h == [k \in 0 .. n |-> f[k] + g[k]]
  <2>3. 0 \in S
    BY <2>1, <2>2
  <2>4. ASSUME NEW k \in S PROVE k + 1 \in S
    <3> SUFFICES ASSUME k + 1 <= n PROVE f[k + 1] \in Int /\ g[k + 1] \in Int
      OBVIOUS
    <3>1. k + 1 \in 1 .. n /\ (k + 1) - 1 = k /\ k <= n
      OBVIOUS
    <3>2. /\ f[k + 1] = f[k] + a[k + 1] /\ f[k] \in Int /\ a[k + 1] \in Int
          /\ g[k + 1] = g[k] + b[k + 1] /\ g[k] \in Int /\ b[k + 1] \in Int
      BY <1>1, <2>1, <2>2, <3>1
    <3> QED BY <3>2
  <2>5. S = Nat
    <3> HIDE DEF S
    <3>1. S \in SUBSET Nat
      BY DEF S
    <3> QED BY <2>3, <2>4, <3>1, SetInduction
  <2>6. \A k \in 0 .. n : f[k] \in Int /\ g[k] \in Int
    BY <2>5
  <2>7. h[0] = 0 /\ h[n] = f[n] + g[n]
    BY <2>1, <2>2
  <2>8. ASSUME NEW k \in 1 .. n PROVE h[k] = h[k - 1] + c[k]
    <3>1. k - 1 \in 0 .. n /\ k \in 0 .. n
      OBVIOUS
    <3>2. h[k] = f[k] + g[k] /\ h[k - 1] = f[k - 1] + g[k - 1]
      BY <3>1
    <3>3. /\ f[k] = f[k - 1] + a[k] /\ g[k] = g[k - 1] + b[k] /\ c[k] = a[k] + b[k]
          /\ f[k - 1] \in Int /\ g[k - 1] \in Int /\ a[k] \in Int /\ b[k] \in Int
      BY <1>1, <2>1, <2>2, <2>6, <3>1
    <3> HIDE DEF h
    <3> QED BY <3>2, <3>3
  <2> HIDE DEF h, S
  <2>9. PICK e : e[0] = 0 /\ e[n] = f[n] + g[n] /\ \A k \in 1 .. n : e[k] = e[k - 1] + c[k]
    BY <2>7, <2>8
  <2>10. Total(c) = e[n]
    BY <2>9, TotalIs
  <2> QED BY <2>1, <2>2, <2>9, <2>10
<1> QED BY <1>1

(* What joins sequences grows sequence by sequence.                        *)
Joined(list, n) ==
  CHOOSE flatten : flatten = [i \in 1 .. n |-> IF i = 1 THEN list[i] ELSE flatten[i - 1] \o list[i]]

(* As above.                                                               *)
LEMMA FlattenSteps ==
  ASSUME NEW T, NEW list \in Seq(Seq(T))
  PROVE  \E f : /\ FlattenSeq(list) = f[Len(list)] /\ f[0] = <<>>
                /\ \A k \in 1 .. Len(list) : f[k] \in Seq(T) /\ f[k] = f[k - 1] \o list[k]
<1> DEFINE n == Len(list)
           of == [name |-> "joined", list |-> list]
           g == Joined(list, n)
           f == [k \in 0 .. n |-> IF k = 0 THEN <<>> ELSE g[k]]
<1>0. n \in Nat /\ \A k \in 1 .. n : list[k] \in Seq(T)
  OBVIOUS
<1>1. \A x, h : Recurring(of, x, h) = (IF x = 1 THEN list[x] ELSE h[x - 1] \o list[x])
  BY DEF Recurring
<1>2. n = 0 => FlattenSeq(list) = <<>>
  BY DEF FlattenSeq
<1>3. n # 0 => FlattenSeq(list) = g[n]
  BY DEF FlattenSeq, Joined
<1> HIDE DEF of, n
<1>4. \E h : h = [x \in 1 .. n |-> IF x = 1 THEN list[x] ELSE h[x - 1] \o list[x]]
  <2>1. ReadsBefore(of, 1, n)
    BY <1>1 DEF ReadsBefore
  <2>2. Defined(of, 1 .. n)
    BY <1>0, <2>1, ListRecursion
  <2>3. PICK h : h = [x \in 1 .. n |-> Recurring(of, x, h)]
    BY <2>2 DEF Defined
  <2>4. \A x \in 1 .. n : Recurring(of, x, h) = (IF x = 1 THEN list[x] ELSE h[x - 1] \o list[x])
    BY <1>1
  <2>5. h = [x \in 1 .. n |-> IF x = 1 THEN list[x] ELSE h[x - 1] \o list[x]]
    BY <2>3, <2>4
  <2> QED BY <2>5
<1>5. g = [x \in 1 .. n |-> IF x = 1 THEN list[x] ELSE g[x - 1] \o list[x]]
  BY <1>4 DEF Joined
<1> HIDE DEF g
<1>6. f[0] = <<>> /\ \A k \in 1 .. n : f[k] = g[k] /\ f[k - 1] = IF k = 1 THEN <<>> ELSE g[k - 1]
  BY <1>0
<1>7. FlattenSeq(list) = f[n]
  BY <1>0, <1>2, <1>3, <1>6
<1> HIDE DEF f
<1>8. \A k \in 1 .. n : f[k] = f[k - 1] \o list[k]
  <2> TAKE k \in 1 .. n
  <2>1. CASE k = 1
    <3>1. f[k] = list[k] /\ f[k - 1] = <<>>
      BY <1>5, <1>6, <2>1
    <3>2. list[k] \in Seq(T)
      BY <1>0
    <3> QED BY <3>1, <3>2
  <2>2. CASE k # 1
    <3>1. g[k] = g[k - 1] \o list[k]
      BY <1>5, <2>2
    <3>2. f[k] = g[k] /\ f[k - 1] = g[k - 1]
      BY <1>6, <2>2
    <3> QED BY <3>1, <3>2
  <2> QED BY <2>1, <2>2
<1> DEFINE S == {k \in Nat : k <= n => f[k] \in Seq(T)}
<1>9. 0 \in S
  <2>1. <<>> \in Seq(T)
    OBVIOUS
  <2> QED BY <1>6, <2>1
<1>10. ASSUME NEW k \in S PROVE k + 1 \in S
  <2> SUFFICES ASSUME k + 1 <= n PROVE f[k + 1] \in Seq(T)
    OBVIOUS
  <2>1. k + 1 \in 1 .. n /\ (k + 1) - 1 = k /\ k <= n
    BY <1>0
  <2>2. f[k + 1] = f[k] \o list[k + 1] /\ f[k] \in Seq(T) /\ list[k + 1] \in Seq(T)
    BY <1>0, <1>8, <2>1
  <2> QED BY <2>2
<1>11. S = Nat
  <2> HIDE DEF S
  <2>1. S \in SUBSET Nat
    BY DEF S
  <2> QED BY <1>9, <1>10, <2>1, SetInduction
<1>12. \A k \in 1 .. n : f[k] \in Seq(T)
  BY <1>0, <1>11
<1> QED BY <1>6, <1>7, <1>8, <1>12 DEF n

(* What is joined is in the sequences.                                     *)
LEMMA FlattenType ==
  ASSUME NEW T, NEW list \in Seq(Seq(T))
  PROVE  FlattenSeq(list) \in Seq(T)
<1>1. PICK f : /\ FlattenSeq(list) = f[Len(list)] /\ f[0] = <<>>
               /\ \A k \in 1 .. Len(list) : f[k] \in Seq(T) /\ f[k] = f[k - 1] \o list[k]
  BY FlattenSteps
<1>2. Len(list) \in Nat /\ <<>> \in Seq(T)
  OBVIOUS
<1>3. Len(list) = 0 \/ Len(list) \in 1 .. Len(list)
  BY <1>2
<1> QED BY <1>1, <1>2, <1>3

(* Where a text has a u that a backslash is before.                        *)
Units(s) == {i \in DOMAIN s : s[i] = "u" /\ i > 1 /\ s[i - 1] = "\\"}

(* No backslash is waiting for what follows.                               *)
Ends(s) == s = <<>> \/ s[Len(s)] # "\\"

(* There are finitely many.                                                *)
LEMMA UnitsFinite ==
  ASSUME NEW T, NEW s \in Seq(T)
  PROVE  IsFiniteSet(Units(s)) /\ Cardinality(Units(s)) \in Nat /\ Estimate(s) \in Int
<1>1. DOMAIN s = 1 .. Len(s) /\ Len(s) \in Nat /\ Len(s) \in Int /\ 1 \in Int
  OBVIOUS
<1>2. IsFiniteSet(DOMAIN s)
  BY <1>1, FS_Interval
<1>3. Units(s) \in SUBSET DOMAIN s
  BY DEF Units
<1>4. IsFiniteSet(Units(s))
  BY <1>2, <1>3, FS_Subset
<1>5. Cardinality(Units(s)) \in Nat
  BY <1>4, FS_CardinalityType
<1>6. Estimate(s) = Len(s) - 4 * Cardinality(Units(s))
  BY DEF Estimate, Units
<1> QED BY <1>1, <1>4, <1>5, <1>6

(* The estimates of two texts add up.                                      *)
LEMMA EstimateConcat ==
  ASSUME NEW T, NEW a \in Seq(T), NEW b \in Seq(T), Ends(a), Ends(b)
  PROVE  /\ a \o b \in Seq(T) /\ Ends(a \o b)
         /\ Estimate(a \o b) = Estimate(a) + Estimate(b)
<1> DEFINE c == a \o b
           m == Len(a)
           shift == [i \in Units(b) |-> i + m]
           R == {i + m : i \in Units(b)}
<1>1. /\ c \in Seq(T) /\ Len(c) = m + Len(b) /\ m \in Nat /\ Len(b) \in Nat
      /\ \A i \in 1 .. m : c[i] = a[i]
      /\ \A i \in 1 .. Len(b) : c[i + m] = b[i]
      /\ DOMAIN a = 1 .. m /\ DOMAIN b = 1 .. Len(b) /\ DOMAIN c = 1 .. m + Len(b)
  OBVIOUS
<1>2. Ends(c)
  <2>1. CASE Len(b) = 0
    <3>1. c = a
      BY <2>1
    <3> QED BY <3>1
  <2>2. CASE Len(b) # 0
    <3>1. Len(b) \in 1 .. Len(b) /\ Len(b) + m = Len(c)
      BY <1>1, <2>2
    <3>2. c[Len(c)] = b[Len(b)]
      BY <1>1, <3>1
    <3>3. b # <<>>
      BY <2>2
    <3> QED BY <3>2, <3>3 DEF Ends
  <2> QED BY <2>1, <2>2
<1>3. m # 0 => a[m] # "\\"
  BY DEF Ends
<1> HIDE DEF c, m
<1>4. Units(c) = Units(a) \cup R
  <2>1. ASSUME NEW i \in Units(a) PROVE i \in Units(c)
    <3>1. i \in 1 .. m /\ a[i] = "u" /\ i > 1 /\ a[i - 1] = "\\"
      BY <1>1 DEF Units
    <3>2. i - 1 \in 1 .. m /\ i \in 1 .. m + Len(b)
      BY <1>1, <3>1
    <3> QED BY <1>1, <3>1, <3>2 DEF Units
  <2>2. ASSUME NEW i \in Units(b) PROVE i + m \in Units(c)
    <3>1. i \in 1 .. Len(b) /\ b[i] = "u" /\ i > 1 /\ b[i - 1] = "\\"
      BY <1>1 DEF Units
    <3>2. i - 1 \in 1 .. Len(b) /\ (i - 1) + m = (i + m) - 1 /\ i + m > 1 /\ i + m \in 1 .. m + Len(b)
      BY <1>1, <3>1
    <3>3. c[i + m] = "u" /\ c[(i + m) - 1] = "\\"
      BY <1>1, <3>1, <3>2
    <3> QED BY <1>1, <3>2, <3>3 DEF Units
  <2>3. ASSUME NEW j \in Units(c) PROVE j \in Units(a) \cup R
    <3>1. j \in 1 .. m + Len(b) /\ c[j] = "u" /\ j > 1 /\ c[j - 1] = "\\"
      BY <1>1 DEF Units
    <3>2. CASE j <= m
      <4>1. j \in 1 .. m /\ j - 1 \in 1 .. m
        BY <1>1, <3>1, <3>2
      <4>2. a[j] = "u" /\ a[j - 1] = "\\"
        BY <1>1, <3>1, <4>1
      <4> QED BY <1>1, <3>1, <4>1, <4>2 DEF Units
    <3>3. CASE j = m + 1
      <4>1. m \in 1 .. m /\ j - 1 = m
        BY <1>1, <3>1, <3>3
      <4>2. c[j - 1] = a[m] /\ m # 0
        BY <1>1, <4>1
      <4> QED BY <1>3, <3>1, <4>2
    <3>4. CASE j > m + 1
      <4> DEFINE i == j - m
      <4>1. i \in 1 .. Len(b) /\ i - 1 \in 1 .. Len(b) /\ i + m = j /\ (i - 1) + m = j - 1 /\ i > 1
        BY <1>1, <3>1, <3>4
      <4> HIDE DEF i
      <4>2. b[i] = "u" /\ b[i - 1] = "\\"
        BY <1>1, <3>1, <4>1
      <4>3. i \in Units(b)
        BY <1>1, <4>1, <4>2 DEF Units
      <4> QED BY <4>1, <4>3
    <3> QED BY <1>1, <3>1, <3>2, <3>3, <3>4
  <2> QED BY <2>1, <2>2, <2>3
<1>5. Units(a) \cap R = {}
  <2>1. \A i \in Units(a) : i <= m /\ i \in Nat
    BY <1>1 DEF Units
  <2>2. \A i \in Units(b) : i + m > m
    BY <1>1 DEF Units
  <2> QED BY <1>1, <2>1, <2>2
<1>6. shift \in Bijection(Units(b), R)
  <2>1. \A i \in Units(b) : i \in Nat
    BY <1>1 DEF Units
  <2>2. shift \in [Units(b) -> R]
    OBVIOUS
  <2>3. \A i, j \in Units(b) : shift[i] = shift[j] => i = j
    BY <1>1, <2>1
  <2>4. \A r \in R : \E i \in Units(b) : shift[i] = r
    OBVIOUS
  <2> HIDE DEF shift, R
  <2>5. shift \in Injection(Units(b), R)
    BY <2>2, <2>3 DEF Injection, IsInjective
  <2>6. shift \in Surjection(Units(b), R)
    BY <2>2, <2>4 DEF Surjection
  <2> QED BY <2>5, <2>6 DEF Bijection
<1> HIDE DEF shift, R
<1>7. /\ IsFiniteSet(Units(a)) /\ Cardinality(Units(a)) \in Nat
      /\ IsFiniteSet(Units(b)) /\ Cardinality(Units(b)) \in Nat
  BY UnitsFinite
<1>8. ExistsBijection(Units(b), R)
  BY <1>6 DEF ExistsBijection
<1>9. IsFiniteSet(R) /\ Cardinality(R) = Cardinality(Units(b))
  BY <1>7, <1>8, FS_Bijection
<1>10. Cardinality(Units(a) \cup R) = Cardinality(Units(a)) + Cardinality(R) - Cardinality(Units(a) \cap R)
  BY <1>7, <1>9, FS_Union
<1>11. Cardinality({}) = 0
  BY FS_EmptySet
<1>12. Cardinality(Units(c)) = Cardinality(Units(a)) + Cardinality(Units(b))
  <2>1. Cardinality(Units(a) \cap R) = 0
    BY <1>5, <1>11
  <2>2. Cardinality(Units(c)) = Cardinality(Units(a) \cup R)
    BY <1>4
  <2> QED BY <1>7, <1>9, <1>10, <2>1, <2>2
<1>13. \A s : Estimate(s) = Len(s) - 4 * Cardinality(Units(s))
  BY DEF Estimate, Units
<1>14. Estimate(c) = Estimate(a) + Estimate(b)
  <2>1. Estimate(c) = Len(c) - 4 * Cardinality(Units(c)) /\ Len(c) = m + Len(b)
    BY <1>1, <1>13
  <2>2. Estimate(a) = m - 4 * Cardinality(Units(a)) /\ Estimate(b) = Len(b) - 4 * Cardinality(Units(b))
    BY <1>13 DEF m
  <2> QED BY <1>1, <1>7, <1>12, <2>1, <2>2
<1> QED BY <1>1, <1>2, <1>14 DEF c

(* Without backslash the estimate is the length.                           *)
LEMMA EstimatePlain ==
  ASSUME NEW T, NEW s \in Seq(T), \A i \in 1 .. Len(s) : s[i] # "\\"
  PROVE  Ends(s) /\ Estimate(s) = Len(s)
<1>1. DOMAIN s = 1 .. Len(s) /\ Len(s) \in Nat
  OBVIOUS
<1>2. Units(s) = {}
  <2> SUFFICES ASSUME NEW i \in Units(s) PROVE FALSE
    OBVIOUS
  <2>1. i \in 1 .. Len(s) /\ i > 1 /\ s[i - 1] = "\\"
    BY <1>1 DEF Units
  <2>2. i - 1 \in 1 .. Len(s)
    BY <1>1, <2>1
  <2> QED BY <2>1, <2>2
<1>3. Estimate(s) = Len(s) - 4 * Cardinality({})
  BY <1>2 DEF Estimate, Units
<1>4. Cardinality({}) = 0
  BY FS_EmptySet
<1>5. Estimate(s) = Len(s)
  BY <1>1, <1>3, <1>4
<1>6. s # <<>> => Len(s) \in 1 .. Len(s)
  BY <1>1
<1> QED BY <1>5, <1>6 DEF Ends

(* That of joined texts is the sum of theirs.                              *)
LEMMA EstimateFlatten ==
  ASSUME NEW T, NEW list \in Seq(Seq(T)), NEW n \in Nat, Len(list) = n, NEW sizes, Len(sizes) = n
  PROVE  (\A k \in 1 .. n : Ends(list[k]) /\ sizes[k] = Estimate(list[k]))
           => Ends(FlattenSeq(list)) /\ Estimate(FlattenSeq(list)) = Total(sizes)
<1>1. ASSUME \A k \in 1 .. n : Ends(list[k]) /\ sizes[k] = Estimate(list[k])
      PROVE  Ends(FlattenSeq(list)) /\ Estimate(FlattenSeq(list)) = Total(sizes)
  <2>1. PICK f : /\ FlattenSeq(list) = f[n] /\ f[0] = <<>>
                 /\ \A k \in 1 .. n : f[k] \in Seq(T) /\ f[k] = f[k - 1] \o list[k]
    <3>1. \E f : /\ FlattenSeq(list) = f[Len(list)] /\ f[0] = <<>>
                 /\ \A k \in 1 .. Len(list) : f[k] \in Seq(T) /\ f[k] = f[k - 1] \o list[k]
      BY FlattenSteps
    <3> QED BY <3>1
  <2> DEFINE S == {k \in Nat : k <= n => f[k] \in Seq(T) /\ Ends(f[k])}
             g == [k \in 0 .. n |-> Estimate(f[k])]
  <2>2. f[0] \in Seq(T) /\ Len(f[0]) = 0 /\ Ends(f[0])
    BY <2>1 DEF Ends
  <2>3. 0 \in S
    BY <2>2
  <2>4. \A k \in 1 .. n : list[k] \in Seq(T)
    OBVIOUS
  <2>5. ASSUME NEW k \in S PROVE k + 1 \in S
    <3> SUFFICES ASSUME k + 1 <= n PROVE f[k + 1] \in Seq(T) /\ Ends(f[k + 1])
      OBVIOUS
    <3>1. k + 1 \in 1 .. n /\ (k + 1) - 1 = k /\ k <= n
      OBVIOUS
    <3>2. f[k + 1] = f[k] \o list[k + 1] /\ f[k] \in Seq(T) /\ Ends(f[k])
      BY <2>1, <3>1
    <3>3. list[k + 1] \in Seq(T) /\ Ends(list[k + 1])
      BY <1>1, <2>4, <3>1
    <3> QED BY <3>2, <3>3, EstimateConcat
  <2>6. S = Nat
    <3> HIDE DEF S
    <3>1. S \in SUBSET Nat
      BY DEF S
    <3> QED BY <2>3, <2>5, <3>1, SetInduction
  <2>7. \A k \in 0 .. n : f[k] \in Seq(T) /\ Ends(f[k])
    BY <2>6
  <2>8. g[0] = 0
    <3>1. \A i \in 1 .. Len(f[0]) : f[0][i] # "\\"
      BY <2>2
    <3>2. Estimate(f[0]) = Len(f[0])
      BY <2>2, <3>1, EstimatePlain
    <3>3. 0 \in 0 .. n
      OBVIOUS
    <3> QED BY <2>2, <3>2, <3>3
  <2>9. ASSUME NEW k \in 1 .. n PROVE g[k] = g[k - 1] + sizes[k]
    <3>1. k - 1 \in 0 .. n /\ k \in 0 .. n
      OBVIOUS
    <3>2. f[k - 1] \in Seq(T) /\ Ends(f[k - 1]) /\ list[k] \in Seq(T) /\ Ends(list[k])
      BY <1>1, <2>4, <2>7, <3>1
    <3>3. Estimate(f[k - 1] \o list[k]) = Estimate(f[k - 1]) + Estimate(list[k])
      BY <3>2, EstimateConcat
    <3>4. f[k] = f[k - 1] \o list[k] /\ sizes[k] = Estimate(list[k])
      BY <1>1, <2>1
    <3>5. g[k] = Estimate(f[k]) /\ g[k - 1] = Estimate(f[k - 1])
      BY <3>1
    <3> QED BY <3>3, <3>4, <3>5
  <2>10. g[n] = Estimate(f[n]) /\ Ends(f[n])
    BY <2>7
  <2>11. \A k \in 1 .. n : g[k] = g[k - 1] + sizes[k]
    BY <2>9
  <2> HIDE DEF g, S
  <2>12. Total(sizes) = g[n]
    <3>1. \E e : e[0] = 0 /\ e[n] = g[n] /\ \A k \in 1 .. n : e[k] = e[k - 1] + sizes[k]
      BY <2>8, <2>11
    <3> QED BY <3>1, TotalIs
  <2> QED BY <2>1, <2>10, <2>12
<1> QED BY <1>1

(* What a text is made of.                                                 *)
Bytes == STRING \cup {"\\", "u", "0", "1", "quote", "[", "]", "{", "}", ":", ","}
                \cup {"n", "l", "t", "r", "e", "f", "a", "s"}

(* One character is estimated at its bytes, a control character at two.    *)
LEMMA EscapedMeasure ==
  ASSUME NEW c \in STRING, c # "\\"
  PROVE  /\ Escaped(c) \in Seq(Bytes) /\ Ends(Escaped(c))
         /\ Estimate(Escaped(c)) = IF c \in {Quote, Control} THEN 2 ELSE 1
<1> DEFINE T == Bytes
<1>1. c \in T /\ "\\" \in T /\ "u" \in T /\ "0" \in T /\ "1" \in T
  BY DEF Bytes
<1> HIDE DEF T
<1>2. Quote # Control /\ Quote # "\\" /\ Quote # "u" /\ Control # "\\" /\ Control # "u"
  BY ResolversAssumption
<1>3. \A s : Estimate(s) = Len(s) - 4 * Cardinality(Units(s))
  BY DEF Estimate, Units
<1>4. Cardinality({}) = 0 /\ Cardinality({2}) = 1
  BY FS_EmptySet, FS_Singleton
<1>5. CASE c = Quote
  <2> DEFINE s == <<"\\", c>>
  <2>1. Escaped(c) = s
    BY <1>2, <1>5 DEF Escaped
  <2>2. s \in Seq(T) /\ Len(s) = 2 /\ DOMAIN s = 1 .. 2 /\ s[1] = "\\" /\ s[2] = c
    BY <1>1
  <2> HIDE DEF s
  <2>3. Units(s) = {}
    BY <1>2, <1>5, <2>2 DEF Units
  <2>4. Estimate(s) = Len(s) - 4 * Cardinality({})
    BY <1>3, <2>3
  <2>5. Estimate(s) = 2
    BY <1>4, <2>2, <2>4
  <2>6. Ends(s)
    BY <1>2, <1>5, <2>2 DEF Ends
  <2> QED BY <1>5, <2>1, <2>2, <2>5, <2>6 DEF T
<1>6. CASE c = Control
  <2> DEFINE s == <<"\\", "u", "0", "0", "0", "1">>
  <2>1. Escaped(c) = s
    BY <1>2, <1>6 DEF Escaped
  <2>2. /\ s \in Seq(T) /\ Len(s) = 6 /\ DOMAIN s = 1 .. 6 /\ s[1] = "\\" /\ s[2] = "u"
        /\ s[3] = "0" /\ s[4] = "0" /\ s[5] = "0" /\ s[6] = "1"
    BY <1>1
  <2> HIDE DEF s
  <2>3. Units(s) = {2}
    <3>1. \A i \in 1 .. 6 : s[i] = "u" => i = 2
      BY <2>2
    <3> QED BY <2>2, <3>1 DEF Units
  <2>4. Estimate(s) = Len(s) - 4 * Cardinality({2})
    BY <1>3, <2>3
  <2>5. Estimate(s) = 2
    BY <1>4, <2>2, <2>4
  <2>6. Ends(s)
    BY <2>2 DEF Ends
  <2> QED BY <1>6, <2>1, <2>2, <2>5, <2>6 DEF T
<1>7. CASE c # Quote /\ c # Control
  <2> DEFINE s == <<c>>
  <2>1. Escaped(c) = s
    BY <1>7 DEF Escaped
  <2>2. s \in Seq(T) /\ Len(s) = 1 /\ s[1] = c
    BY <1>1
  <2> HIDE DEF s
  <2>3. Ends(s) /\ Estimate(s) = 1
    <3>1. \A i \in 1 .. Len(s) : s[i] # "\\"
      BY <2>2
    <3> QED BY <2>2, <3>1, EstimatePlain
  <2> QED BY <1>7, <2>1, <2>2, <2>3 DEF T
<1> QED BY <1>5, <1>6, <1>7

(* Counting what holds of some of n counts n once more for these.          *)
LEMMA TotalCounts ==
  ASSUME NEW n \in Nat, NEW E \in SUBSET (1 .. n)
  PROVE  Total([i \in 1 .. n |-> IF i \in E THEN 2 ELSE 1]) = n + Cardinality(E)
<1> DEFINE list == [i \in 1 .. n |-> IF i \in E THEN 2 ELSE 1]
           R(k) == E \cap 1 .. k
           g == [k \in 0 .. n |-> k + Cardinality(R(k))]
<1>1. \A k \in Nat : IsFiniteSet(R(k)) /\ Cardinality(R(k)) \in Nat
  <2> TAKE k \in Nat
  <2>1. IsFiniteSet(1 .. k)
    BY FS_Interval
  <2>2. R(k) \in SUBSET (1 .. k)
    OBVIOUS
  <2> HIDE DEF R
  <2>3. IsFiniteSet(R(k))
    BY <2>1, <2>2, FS_Subset
  <2> QED BY <2>3, FS_CardinalityType
<1>2. R(0) = {} /\ R(n) = E
  <2>1. 1 .. 0 = {}
    OBVIOUS
  <2>2. R(0) = {}
    BY <2>1
  <2>3. R(n) = E
    OBVIOUS
  <2> QED BY <2>2, <2>3
<1>3. Cardinality({}) = 0
  BY FS_EmptySet
<1>4. \A k \in 0 .. n : g[k] = k + Cardinality(R(k))
  OBVIOUS
<1>5. g[0] = 0 /\ g[n] = n + Cardinality(E)
  <2>1. 0 \in 0 .. n /\ n \in 0 .. n
    OBVIOUS
  <2> HIDE DEF g, R
  <2> QED BY <1>2, <1>3, <1>4, <2>1
<1>6. ASSUME NEW k \in 1 .. n PROVE g[k] = g[k - 1] + list[k]
  <2>1. k \in 0 .. n /\ k - 1 \in 0 .. n /\ k \in Nat /\ k - 1 \in Nat /\ k \notin R(k - 1)
    OBVIOUS
  <2>2. CASE k \in E
    <3>1. R(k) = R(k - 1) \cup {k} /\ list[k] = 2
      BY <2>2
    <3> HIDE DEF g, R, list
    <3>2. Cardinality(R(k)) = Cardinality(R(k - 1)) + 1
      BY <1>1, <2>1, <3>1, FS_AddElement
    <3>3. Cardinality(R(k - 1)) \in Nat
      BY <1>1, <2>1
    <3>4. g[k] = k + Cardinality(R(k)) /\ g[k - 1] = (k - 1) + Cardinality(R(k - 1))
      BY <1>4, <2>1
    <3> QED BY <3>1, <3>2, <3>3, <3>4
  <2>3. CASE k \notin E
    <3>1. R(k) = R(k - 1) /\ list[k] = 1
      BY <2>3
    <3> HIDE DEF g, R, list
    <3>3. Cardinality(R(k - 1)) \in Nat
      BY <1>1, <2>1
    <3>4. g[k] = k + Cardinality(R(k)) /\ g[k - 1] = (k - 1) + Cardinality(R(k - 1))
      BY <1>4, <2>1
    <3> QED BY <3>1, <3>3, <3>4
  <2> QED BY <2>2, <2>3
<1>7. Len(list) = n
  OBVIOUS
<1> HIDE DEF g, R
<1>8. \A k \in 1 .. n : g[k] = g[k - 1] + list[k]
  BY <1>6
<1> HIDE DEF list
<1>9. Total(list) = g[n]
  BY <1>5, <1>7, <1>8, TotalIs
<1> QED BY <1>5, <1>9 DEF list

(* A string is estimated at what json_string_byte_size says.               *)
LEMMA QuotedMeasure ==
  ASSUME NEW t \in Seq(STRING), \A i \in 1 .. Len(t) : t[i] # "\\"
  PROVE  /\ Quoted(t) \in Seq(Bytes) /\ Ends(Quoted(t))
         /\ Estimate(Quoted(t)) = json_string_byte_size(t) /\ json_string_byte_size(t) \in Int
<1> DEFINE T == Bytes
           n == Len(t)
           E == {i \in 1 .. n : t[i] \in {Quote, Control}}
           list == [i \in 1 .. n |-> Escaped(t[i])]
           sizes == [i \in 1 .. n |-> IF i \in E THEN 2 ELSE 1]
           inner == FlattenSeq(list)
           q == <<"quote">>
<1>1. n \in Nat /\ \A i \in 1 .. n : t[i] \in STRING
  OBVIOUS
<1>2. \A i \in 1 .. n : list[i] \in Seq(T) /\ Ends(list[i]) /\ Estimate(list[i]) = sizes[i]
  BY <1>1, EscapedMeasure
<1>3. list \in Seq(Seq(T)) /\ Len(list) = n /\ Len(sizes) = n
  BY <1>1, <1>2
<1>4. Quoted(t) = (q \o inner) \o q
  BY DEF Quoted
<1>5. Escapes(t) = Cardinality(E)
  BY DEF Escapes
<1>6. "quote" \in T
  BY DEF Bytes
<1>7. E \in SUBSET (1 .. n)
  OBVIOUS
<1>8. Total(sizes) = n + Cardinality(E)
  BY <1>1, <1>7, TotalCounts
<1> HIDE DEF E, sizes, list, T
<1>9. inner \in Seq(T)
  BY <1>3, FlattenType
<1>10. Ends(inner) /\ Estimate(inner) = Total(sizes)
  BY <1>1, <1>2, <1>3, EstimateFlatten
<1> HIDE DEF inner
<1>11. q \in Seq(T) /\ Len(q) = 1 /\ q[1] # "\\"
  BY <1>6
<1> HIDE DEF q
<1>12. Ends(q) /\ Estimate(q) = 1
  <2>1. \A i \in 1 .. Len(q) : q[i] # "\\"
    BY <1>11
  <2> QED BY <1>11, <2>1, EstimatePlain
<1>13. q \o inner \in Seq(T) /\ Ends(q \o inner) /\ Estimate(q \o inner) = 1 + Estimate(inner)
  BY <1>9, <1>10, <1>11, <1>12, EstimateConcat
<1>14. /\ (q \o inner) \o q \in Seq(T) /\ Ends((q \o inner) \o q)
       /\ Estimate((q \o inner) \o q) = Estimate(q \o inner) + 1
  <2> DEFINE p == q \o inner
  <2>1. p \in Seq(T) /\ Ends(p)
    BY <1>13
  <2> HIDE DEF p
  <2>2. p \o q \in Seq(T) /\ Ends(p \o q) /\ Estimate(p \o q) = Estimate(p) + Estimate(q)
    BY <1>11, <1>12, <2>1, EstimateConcat
  <2> QED BY <1>12, <2>2 DEF p
<1>15. Cardinality(E) \in Nat
  <2>1. IsFiniteSet(1 .. n)
    BY <1>1, FS_Interval
  <2>2. IsFiniteSet(E)
    BY <1>7, <2>1, FS_Subset
  <2> QED BY <2>2, FS_CardinalityType
<1>16. json_string_byte_size(t) = 2 + n + Cardinality(E)
  BY <1>5 DEF json_string_byte_size
<1>17. Estimate(Quoted(t)) = 2 + n + Cardinality(E)
  <2> HIDE DEF n
  <2> QED BY <1>1, <1>4, <1>8, <1>10, <1>13, <1>14, <1>15
<1>18. json_string_byte_size(t) \in Int
  <2> HIDE DEF n
  <2> QED BY <1>1, <1>15, <1>16
<1> QED BY <1>4, <1>14, <1>16, <1>17, <1>18 DEF T

(* One character by itself is one byte.                                    *)
LEMMA SingleMeasure ==
  ASSUME NEW T, NEW c \in T, c # "\\"
  PROVE  <<c>> \in Seq(T) /\ Ends(<<c>>) /\ Estimate(<<c>>) = 1
<1> DEFINE q == <<c>>
<1>1. q \in Seq(T) /\ Len(q) = 1 /\ \A i \in 1 .. Len(q) : q[i] # "\\"
  OBVIOUS
<1> HIDE DEF q
<1>2. Ends(q) /\ Estimate(q) = 1
  BY <1>1, EstimatePlain
<1> QED BY <1>1, <1>2 DEF q

(* A list is estimated at its items and the commas between them.           *)
LEMMA ListedMeasure ==
  ASSUME NEW n \in Nat, NEW items \in Seq(Seq(Bytes)), Len(items) = n, NEW sizes, Len(sizes) = n
  PROVE  (\A k \in 1 .. n : Ends(items[k]) /\ Estimate(items[k]) = sizes[k])
           => /\ Listed(items) \in Seq(Bytes) /\ Ends(Listed(items)) /\ Total(sizes) \in Int
              /\ Estimate(Listed(items)) = Total(sizes) + (Max({n, 1}) - 1)
<1>1. ASSUME \A k \in 1 .. n : Ends(items[k]) /\ Estimate(items[k]) = sizes[k]
      PROVE  /\ Listed(items) \in Seq(Bytes) /\ Ends(Listed(items)) /\ Total(sizes) \in Int
             /\ Estimate(Listed(items)) = Total(sizes) + (Max({n, 1}) - 1)
  <2> DEFINE T == Bytes
             comma == <<",">>
             list == [k \in 1 .. n |-> IF k = 1 THEN items[k] ELSE comma \o items[k]]
             commas == [k \in 1 .. n |-> IF k = 1 THEN 0 ELSE 1]
             both == [k \in 1 .. n |-> sizes[k] + commas[k]]
  <2>1. \A k \in 1 .. n : items[k] \in Seq(T)
    OBVIOUS
  <2>2. "," \in T
    BY DEF Bytes
  <2>3. Listed(items) = FlattenSeq(list)
    BY DEF Listed
  <2> HIDE DEF T
  <2>4. comma \in Seq(T) /\ Ends(comma) /\ Estimate(comma) = 1
    BY <2>2, SingleMeasure
  <2> HIDE DEF comma
  <2>6. \A k \in 1 .. n : sizes[k] \in Int /\ commas[k] \in Int
    <3> TAKE k \in 1 .. n
    <3>1. items[k] \in Seq(T)
      BY <2>1
    <3>2. Estimate(items[k]) \in Int
      BY <3>1, UnitsFinite
    <3> QED BY <1>1, <3>2
  <2>7. ASSUME NEW k \in 1 .. n
        PROVE list[k] \in Seq(T) /\ Ends(list[k]) /\ both[k] = Estimate(list[k])
    <3>1. items[k] \in Seq(T) /\ Ends(items[k]) /\ Estimate(items[k]) = sizes[k] /\ sizes[k] \in Int
      BY <1>1, <2>1, <2>6
    <3>2. CASE k = 1
      <4>1. list[k] = items[k] /\ both[k] = sizes[k] + 0
        BY <3>2
      <4> QED BY <3>1, <4>1
    <3>3. CASE k # 1
      <4>1. list[k] = comma \o items[k] /\ both[k] = sizes[k] + 1
        BY <3>3
      <4>2. /\ comma \o items[k] \in Seq(T) /\ Ends(comma \o items[k])
            /\ Estimate(comma \o items[k]) = 1 + sizes[k]
        BY <2>4, <3>1, EstimateConcat
      <4> QED BY <3>1, <4>1, <4>2
    <3> QED BY <3>2, <3>3
  <2>8. list \in Seq(Seq(T)) /\ Len(list) = n /\ Len(both) = n /\ Len(commas) = n
    BY <2>7
  <2>9. FlattenSeq(list) \in Seq(T)
    BY <2>8, FlattenType
  <2>10. \A k \in 1 .. n : both[k] = sizes[k] + commas[k]
    OBVIOUS
  <2>11. Total(commas) = Max({n, 1}) - 1
    <3> DEFINE g == [k \in 0 .. n |-> IF k = 0 THEN 0 ELSE k - 1]
    <3>1. g[0] = 0 /\ g[n] = IF n = 0 THEN 0 ELSE n - 1
      OBVIOUS
    <3>2. \A k \in 1 .. n : g[k] = g[k - 1] + commas[k]
      OBVIOUS
    <3>3. Max({n, 1}) = IF n = 0 THEN 1 ELSE n
      BY DEF Max
    <3> HIDE DEF g, commas
    <3>4. Len(commas) = n
      BY <2>8
    <3>5. Total(commas) = g[n]
      BY <3>1, <3>2, <3>4, TotalIs
    <3> QED BY <3>1, <3>3, <3>5
  <2> HIDE DEF list, commas, both
  <2>12. Total(both) = Total(sizes) + Total(commas)
    BY <2>6, <2>8, <2>10, TotalPlus
  <2>13. Total(sizes) \in Int
    BY <2>6, TotalType
  <2>14. Ends(FlattenSeq(list)) /\ Estimate(FlattenSeq(list)) = Total(both)
    BY <2>7, <2>8, EstimateFlatten
  <2> QED BY <2>3, <2>9, <2>11, <2>12, <2>13, <2>14 DEF T
<1> QED BY <1>1

(* Brackets make it two more.                                              *)
LEMMA BracketMeasure ==
  ASSUME NEW a \in Bytes, NEW b \in Bytes, a # "\\", b # "\\", NEW s \in Seq(Bytes), Ends(s)
  PROVE  LET whole == <<a>> \o s \o <<b>>
         IN whole \in Seq(Bytes) /\ Ends(whole) /\ Estimate(whole) = 2 + Estimate(s)
<1> DEFINE T == Bytes
<1> HIDE DEF T
<1> DEFINE p == <<a>>
           q == <<b>>
<1>2. /\ p \in Seq(T) /\ Ends(p) /\ Estimate(p) = 1
      /\ q \in Seq(T) /\ Ends(q) /\ Estimate(q) = 1
  BY SingleMeasure DEF T
<1> HIDE DEF p, q
<1>3. s \in Seq(T) /\ Estimate(s) \in Int
  BY UnitsFinite DEF T
<1> DEFINE r == p \o s
<1>4. r \in Seq(T) /\ Ends(r) /\ Estimate(r) = 1 + Estimate(s)
  BY <1>2, <1>3, EstimateConcat
<1> HIDE DEF r
<1>5. r \o q \in Seq(T) /\ Ends(r \o q) /\ Estimate(r \o q) = (1 + Estimate(s)) + 1
  BY <1>2, <1>4, EstimateConcat
<1>6. (1 + Estimate(s)) + 1 = 2 + Estimate(s)
  BY <1>3
<1> QED BY <1>5, <1>6 DEF p, q, r, T

(* A member is estimated at its key, a colon and its value.                *)
LEMMA MemberMeasure ==
  ASSUME NEW t \in Seq(STRING), \A i \in 1 .. Len(t) : t[i] # "\\", NEW s \in Seq(Bytes), Ends(s)
  PROVE  LET whole == Quoted(t) \o <<":">> \o s
         IN /\ whole \in Seq(Bytes) /\ Ends(whole)
            /\ Estimate(whole) = (json_string_byte_size(t) + 1) + Estimate(s)
<1> DEFINE T == Bytes
           p == Quoted(t)
           q == <<":">>
           r == p \o q
<1>1. p \in Seq(T) /\ Ends(p) /\ Estimate(p) = json_string_byte_size(t)
  BY QuotedMeasure
<1>2. ":" \in T
  BY DEF Bytes
<1>3. s \in Seq(T)
  OBVIOUS
<1> HIDE DEF T
<1>4. q \in Seq(T) /\ Ends(q) /\ Estimate(q) = 1
  BY <1>2, SingleMeasure
<1> HIDE DEF p, q
<1>6. r \in Seq(T) /\ Ends(r) /\ Estimate(r) = json_string_byte_size(t) + 1
  BY <1>1, <1>4, EstimateConcat
<1> HIDE DEF r
<1>7. r \o s \in Seq(T) /\ Ends(r \o s) /\ Estimate(r \o s) = (json_string_byte_size(t) + 1) + Estimate(s)
  BY <1>3, <1>6, EstimateConcat
<1> QED BY <1>7 DEF p, q, r, T

-----------------------------------------------------------------------------
(* The nodes of a document.                                                *)
LEMMA DocumentFacts ==
  ASSUME NEW doc, IsDocument(doc)
  PROVE  /\ Len(doc) \in Nat /\ DOMAIN doc = 1 .. Len(doc) /\ 1 \in 1 .. Len(doc)
         /\ \A i \in 1 .. Len(doc) :
              /\ doc[i].kind \in Kinds /\ doc[i].text \in Seq(STRING)
              /\ doc[i].keys \in Seq(Seq(STRING))
              /\ doc[i].parts \in Seq(i + 1 .. Len(doc)) /\ Len(doc[i].parts) \in Nat
              /\ \A p \in 1 .. Len(doc[i].parts) : doc[i].parts[p] \in i + 1 .. Len(doc)
              /\ doc[i].kind \notin {"array", "object"} => doc[i].parts = <<>>
              /\ Len(doc[i].keys) = IF doc[i].kind = "object" THEN Len(doc[i].parts) ELSE 0
              /\ \A c \in 1 .. Len(doc[i].text) : doc[i].text[c] # "\\"
              /\ \A k \in 1 .. Len(doc[i].keys) :
                   /\ doc[i].keys[k] \in Seq(STRING)
                   /\ \A c \in 1 .. Len(doc[i].keys[k]) : doc[i].keys[k][c] # "\\"
<1> DEFINE Shape == [kind : Kinds, text : Seq(STRING), keys : Seq(Seq(STRING)), parts : Seq(Nat)]
<1>1. doc \in Seq(Shape) /\ doc # <<>>
  BY DEF IsDocument
<1>2. \A i \in DOMAIN doc :
       /\ doc[i].parts \in Seq(i + 1 .. Len(doc))
       /\ doc[i].kind \notin {"array", "object"} => doc[i].parts = <<>>
       /\ Len(doc[i].keys) = IF doc[i].kind = "object" THEN Len(doc[i].parts) ELSE 0
       /\ \A t \in {doc[i].text} \cup ToSet(doc[i].keys) : "\\" \notin ToSet(t)
  BY DEF IsDocument
<1>3. \A node \in Shape : node.kind \in Kinds /\ node.text \in Seq(STRING) /\ node.keys \in Seq(Seq(STRING))
  OBVIOUS
<1> HIDE DEF Shape
<1>4. /\ Len(doc) \in Nat /\ DOMAIN doc = 1 .. Len(doc) /\ 1 \in 1 .. Len(doc)
      /\ \A i \in 1 .. Len(doc) : doc[i] \in Shape
  BY <1>1
<1>5. ASSUME NEW U, NEW list \in Seq(U)
      PROVE  /\ Len(list) \in Nat /\ DOMAIN list = 1 .. Len(list)
             /\ \A p \in 1 .. Len(list) : list[p] \in U /\ list[p] \in ToSet(list)
  BY DEF ToSet
<1>6. ASSUME NEW i \in 1 .. Len(doc)
      PROVE  /\ doc[i].kind \in Kinds /\ doc[i].text \in Seq(STRING)
             /\ doc[i].keys \in Seq(Seq(STRING))
             /\ doc[i].parts \in Seq(i + 1 .. Len(doc)) /\ Len(doc[i].parts) \in Nat
             /\ \A p \in 1 .. Len(doc[i].parts) : doc[i].parts[p] \in i + 1 .. Len(doc)
             /\ doc[i].kind \notin {"array", "object"} => doc[i].parts = <<>>
             /\ Len(doc[i].keys) = IF doc[i].kind = "object" THEN Len(doc[i].parts) ELSE 0
             /\ \A c \in 1 .. Len(doc[i].text) : doc[i].text[c] # "\\"
             /\ \A k \in 1 .. Len(doc[i].keys) :
                  /\ doc[i].keys[k] \in Seq(STRING)
                  /\ \A c \in 1 .. Len(doc[i].keys[k]) : doc[i].keys[k][c] # "\\"
  <2> DEFINE node == doc[i]
  <2>1. node.kind \in Kinds /\ node.text \in Seq(STRING) /\ node.keys \in Seq(Seq(STRING))
    BY <1>3, <1>4
  <2>2. /\ node.parts \in Seq(i + 1 .. Len(doc))
        /\ node.kind \notin {"array", "object"} => node.parts = <<>>
        /\ Len(node.keys) = IF node.kind = "object" THEN Len(node.parts) ELSE 0
        /\ \A t \in {node.text} \cup ToSet(node.keys) : "\\" \notin ToSet(t)
    BY <1>2, <1>4
  <2> HIDE DEF node
  <2>3. Len(node.parts) \in Nat /\ \A p \in 1 .. Len(node.parts) : node.parts[p] \in i + 1 .. Len(doc)
    BY <1>5, <2>2
  <2>4. \A c \in 1 .. Len(node.text) : node.text[c] # "\\"
    <3>1. \A c \in 1 .. Len(node.text) : node.text[c] \in ToSet(node.text)
      BY <1>5, <2>1
    <3> QED BY <2>2, <3>1
  <2>5. ASSUME NEW k \in 1 .. Len(node.keys)
        PROVE  node.keys[k] \in Seq(STRING) /\ \A c \in 1 .. Len(node.keys[k]) : node.keys[k][c] # "\\"
    <3>1. node.keys[k] \in Seq(STRING) /\ node.keys[k] \in ToSet(node.keys)
      BY <1>5, <2>1
    <3>2. \A c \in 1 .. Len(node.keys[k]) : node.keys[k][c] \in ToSet(node.keys[k])
      BY <1>5, <3>1
    <3> QED BY <2>2, <3>1, <3>2
  <2> QED BY <2>1, <2>2, <2>3, <2>4, <2>5 DEF node
<1> QED BY <1>4, <1>6

(* What is below a node is after it.                                       *)
LEMMA BelowSame ==
  ASSUME NEW doc, IsDocument(doc), NEW i \in 1 .. Len(doc), NEW g, NEW h,
         \A y \in i + 1 .. Len(doc) : g[y] = h[y]
  PROVE  Below(doc, i, g) = Below(doc, i, h)
<1>1. \A p \in 1 .. Len(doc[i].parts) : doc[i].parts[p] \in i + 1 .. Len(doc)
  BY DocumentFacts
<1>2. \A p \in 1 .. Len(doc[i].parts) : g[doc[i].parts[p]] = h[doc[i].parts[p]]
  BY <1>1
<1> QED BY <1>2 DEF Below

(* The functions that measure, print and nest the nodes of a document.     *)
Measured(doc) == CHOOSE f : f = [i \in DOMAIN doc |-> Measuring(doc, i, f)]
Printed(doc) == CHOOSE f : f = [i \in DOMAIN doc |-> Printing(doc, i, f)]
Deepened(doc) == CHOOSE f : f = [i \in DOMAIN doc |-> Deepening(doc, i, f)]

(* They give each node what those of the nodes below give.                 *)
LEMMA NodeSteps ==
  ASSUME NEW doc, IsDocument(doc), NEW i \in 1 .. Len(doc)
  PROVE  /\ json_size_and_depth(doc, i) = Measured(doc)[i]
         /\ Measured(doc)[i] = Measuring(doc, i, Measured(doc))
         /\ Serialized(doc, i) = Printed(doc)[i]
         /\ Printed(doc)[i] = Printing(doc, i, Printed(doc))
         /\ Nesting(doc, i) = Deepened(doc)[i]
         /\ Deepened(doc)[i] = Deepening(doc, i, Deepened(doc))
<1> DEFINE n == Len(doc)
<1>1. n \in Nat /\ DOMAIN doc = 1 .. n
  BY DocumentFacts
<1>2. json_size_and_depth(doc, i) = Measured(doc)[i]
  BY DEF json_size_and_depth, Measured, Measuring, MeasuringNode, Below
<1>3. Serialized(doc, i) = Printed(doc)[i]
  BY DEF Serialized, Printed, Printing, PrintingNode, Below
<1>4. Nesting(doc, i) = Deepened(doc)[i]
  BY DEF Nesting, Deepened, Deepening
<1>5. ASSUME NEW x \in 1 .. n, NEW g, NEW h, \A y \in x + 1 .. n : g[y] = h[y]
      PROVE  /\ Measuring(doc, x, g) = Measuring(doc, x, h)
             /\ Printing(doc, x, g) = Printing(doc, x, h)
             /\ Deepening(doc, x, g) = Deepening(doc, x, h)
  <2>1. Below(doc, x, g) = Below(doc, x, h)
    BY <1>5, BelowSame
  <2>2. Measuring(doc, x, g) = Measuring(doc, x, h) /\ Printing(doc, x, g) = Printing(doc, x, h)
    BY <2>1 DEF Measuring, Printing
  <2>3. ToSet(doc[x].parts) \subseteq x + 1 .. n
    BY DocumentFacts DEF ToSet
  <2>4. {g[p] : p \in ToSet(doc[x].parts)} = {h[p] : p \in ToSet(doc[x].parts)}
    BY <1>5, <2>3
  <2>5. Deepening(doc, x, g) = Deepening(doc, x, h)
    BY <2>4 DEF Deepening
  <2> QED BY <2>2, <2>5
<1>6. Measured(doc)[i] = Measuring(doc, i, Measured(doc))
  <2> DEFINE of == [name |-> "measured", doc |-> doc]
  <2>1. \A x, f : Recurring(of, x, f) = Measuring(doc, x, f)
    BY DEF Recurring
  <2> HIDE DEF of, n
  <2>2. ReadsAfter(of, n)
    BY <1>5, <2>1 DEF ReadsAfter
  <2>3. Defined(of, 1 .. n)
    BY <1>1, <2>2, NodeRecursion
  <2>4. \E f : f = [x \in 1 .. n |-> Measuring(doc, x, f)]
    BY <2>1, <2>3 DEF Defined
  <2>5. Measured(doc) = [x \in 1 .. n |-> Measuring(doc, x, Measured(doc))]
    BY <1>1, <2>4 DEF Measured
  <2>6. i \in 1 .. n
    BY DEF n
  <2> QED BY <2>5, <2>6
<1>7. Printed(doc)[i] = Printing(doc, i, Printed(doc))
  <2> DEFINE of == [name |-> "printed", doc |-> doc]
  <2>1. \A x, f : Recurring(of, x, f) = Printing(doc, x, f)
    BY DEF Recurring
  <2> HIDE DEF of, n
  <2>2. ReadsAfter(of, n)
    BY <1>5, <2>1 DEF ReadsAfter
  <2>3. Defined(of, 1 .. n)
    BY <1>1, <2>2, NodeRecursion
  <2>4. \E f : f = [x \in 1 .. n |-> Printing(doc, x, f)]
    BY <2>1, <2>3 DEF Defined
  <2>5. Printed(doc) = [x \in 1 .. n |-> Printing(doc, x, Printed(doc))]
    BY <1>1, <2>4 DEF Printed
  <2>6. i \in 1 .. n
    BY DEF n
  <2> QED BY <2>5, <2>6
<1>8. Deepened(doc)[i] = Deepening(doc, i, Deepened(doc))
  <2> DEFINE of == [name |-> "nested", doc |-> doc]
  <2>1. \A x, f : Recurring(of, x, f) = Deepening(doc, x, f)
    BY DEF Recurring
  <2> HIDE DEF of, n
  <2>2. ReadsAfter(of, n)
    BY <1>5, <2>1 DEF ReadsAfter
  <2>3. Defined(of, 1 .. n)
    BY <1>1, <2>2, NodeRecursion
  <2>4. \E f : f = [x \in 1 .. n |-> Deepening(doc, x, f)]
    BY <2>1, <2>3 DEF Defined
  <2>5. Deepened(doc) = [x \in 1 .. n |-> Deepening(doc, x, Deepened(doc))]
    BY <1>1, <2>4 DEF Deepened
  <2>6. i \in 1 .. n
    BY DEF n
  <2> QED BY <2>5, <2>6
<1> QED BY <1>2, <1>3, <1>4, <1>6, <1>7, <1>8

(* A literal is estimated at its letters.                                  *)
LEMMA LiteralMeasure ==
  ASSUME NEW name \in DOMAIN Literals
  PROVE  /\ Literals[name] \in Seq(Bytes) /\ Ends(Literals[name])
         /\ Estimate(Literals[name]) = Len(Literals[name]) /\ Len(Literals[name]) \in Int
<1> DEFINE T == Bytes
<1>1. {"n", "u", "l", "t", "r", "e", "f", "a", "s"} \subseteq T
  BY DEF Bytes
<1> HIDE DEF T
<1>2. name \in {"null", "true", "false"}
  BY DEF Literals
<1>3. /\ Literals["null"] = <<"n", "u", "l", "l">> /\ Literals["true"] = <<"t", "r", "u", "e">>
      /\ Literals["false"] = <<"f", "a", "l", "s", "e">>
  BY DEF Literals
<1>4. ASSUME NEW s \in Seq(T), \A i \in 1 .. Len(s) : s[i] # "\\"
      PROVE  Ends(s) /\ Estimate(s) = Len(s) /\ Len(s) \in Int
  BY <1>4, EstimatePlain
<1>5. CASE name = "null"
  <2>1. /\ <<"n", "u", "l", "l">> \in Seq(T)
        /\ \A i \in 1 .. Len(<<"n", "u", "l", "l">>) : <<"n", "u", "l", "l">>[i] # "\\"
    BY <1>1
  <2> QED BY <1>3, <1>4, <1>5, <2>1 DEF T
<1>6. CASE name = "true"
  <2>1. /\ <<"t", "r", "u", "e">> \in Seq(T)
        /\ \A i \in 1 .. Len(<<"t", "r", "u", "e">>) : <<"t", "r", "u", "e">>[i] # "\\"
    BY <1>1
  <2> QED BY <1>3, <1>4, <1>6, <2>1 DEF T
<1>7. CASE name = "false"
  <2>1. /\ <<"f", "a", "l", "s", "e">> \in Seq(T)
        /\ \A i \in 1 .. Len(<<"f", "a", "l", "s", "e">>) : <<"f", "a", "l", "s", "e">>[i] # "\\"
    BY <1>1
  <2> QED BY <1>3, <1>4, <1>7, <2>1 DEF T
<1> QED BY <1>2, <1>5, <1>6, <1>7

(* What sequences are.                                                     *)
LEMMA SequenceFacts ==
  ASSUME NEW T
  PROVE  /\ \A U : U \subseteq T => Seq(U) \subseteq Seq(T)
         /\ \A n \in Nat : \A f : f = [k \in 1 .. n |-> f[k]] /\ (\A k \in 1 .. n : f[k] \in T)
              => f \in Seq(T) /\ Len(f) = n
<1>1. ASSUME NEW n \in Nat, NEW f, f = [k \in 1 .. n |-> f[k]], \A k \in 1 .. n : f[k] \in T
      PROVE  f \in Seq(T) /\ Len(f) = n
  <2>1. [k \in 1 .. n |-> f[k]] \in Seq(T) /\ Len([k \in 1 .. n |-> f[k]]) = n
    BY <1>1
  <2> QED BY <1>1, <2>1
<1>2. ASSUME NEW U, U \subseteq T, NEW list \in Seq(U) PROVE list \in Seq(T)
  <2>1. /\ Len(list) \in Nat /\ list = [k \in 1 .. Len(list) |-> list[k]]
        /\ \A k \in 1 .. Len(list) : list[k] \in U
    OBVIOUS
  <2>2. \A k \in 1 .. Len(list) : list[k] \in T
    BY <1>2, <2>1
  <2> QED BY <1>1, <2>1, <2>2
<1> QED BY <1>1, <1>2

(* What a measure is to be.                                                *)
Exact(measure, bytes, level) ==
  /\ bytes \in Seq(Bytes) /\ Ends(bytes)
  /\ measure.size = Estimate(bytes) /\ measure.size \in Int
  /\ measure.depth = level /\ measure.depth \in Nat

(* A node that has no parts is measured exactly.                           *)
LEMMA LeafExact ==
  ASSUME NEW doc, IsDocument(doc), NEW i \in 1 .. Len(doc),
         doc[i].kind \notin {"array", "object"}
  PROVE  Exact(Measured(doc)[i], Printed(doc)[i], Deepened(doc)[i])
<1> DEFINE node == doc[i]
           m == Measured(doc)[i]
           s == Printed(doc)[i]
           l == Deepened(doc)[i]
<1>1. /\ m = MeasuringNode(node, Below(doc, i, Measured(doc)))
      /\ s = PrintingNode(node, Below(doc, i, Printed(doc)))
      /\ l = 1 + Max({0} \cup {Deepened(doc)[p] : p \in ToSet(node.parts)})
  BY NodeSteps DEF Measuring, Printing, Deepening
<1>2. /\ node.kind \in Kinds /\ node.text \in Seq(STRING) /\ node.parts = <<>>
      /\ \A c \in 1 .. Len(node.text) : node.text[c] # "\\"
  BY DocumentFacts
<1> HIDE DEF node, m, s, l
<1>3. l = 1
  <2>1. ToSet(node.parts) = {}
    BY <1>2 DEF ToSet
  <2>2. Max({0}) = 0
    BY DEF Max
  <2>3. {0} \cup {Deepened(doc)[p] : p \in ToSet(node.parts)} = {0}
    BY <2>1
  <2>4. Max({0} \cup {Deepened(doc)[p] : p \in ToSet(node.parts)}) = 0
    BY <2>2, <2>3
  <2>5. \A x : x = 0 => 1 + x = 1
    OBVIOUS
  <2> QED BY <1>1, <2>4, <2>5
<1>4. DOMAIN Literals = {"null", "true", "false"}
  BY DEF Literals
<1>5. CASE node.kind \in DOMAIN Literals
  <2>1. m = [size |-> Len(Literals[node.kind]), depth |-> 1]
    BY <1>1, <1>4, <1>5 DEF MeasuringNode
  <2>2. s = Literals[node.kind]
    BY <1>1, <1>4, <1>5 DEF PrintingNode
  <2> QED BY <1>3, <1>5, <2>1, <2>2, LiteralMeasure DEF Exact, m, s, l
<1>6. CASE node.kind = "number"
  <2>1. m = [size |-> Len(node.text), depth |-> 1]
    BY <1>1, <1>4, <1>6 DEF MeasuringNode
  <2>2. s = node.text
    BY <1>1, <1>4, <1>6 DEF PrintingNode
  <2>3. STRING \subseteq Bytes
    BY DEF Bytes
  <2>4. s \in Seq(Bytes) /\ Len(s) \in Nat
    <3>1. Seq(STRING) \subseteq Seq(Bytes)
      BY <2>3, SequenceFacts
    <3>2. s \in Seq(STRING)
      BY <1>2, <2>2
    <3> QED BY <3>1, <3>2
  <2>5. Ends(s) /\ Estimate(s) = Len(s)
    BY <1>2, <2>2, <2>4, EstimatePlain
  <2> QED BY <1>3, <2>1, <2>2, <2>4, <2>5 DEF Exact, m, s, l
<1>7. CASE node.kind = "string"
  <2>1. m = [size |-> json_string_byte_size(node.text), depth |-> 1]
    BY <1>1, <1>4, <1>7 DEF MeasuringNode
  <2>2. s = Quoted(node.text)
    BY <1>1, <1>4, <1>7 DEF PrintingNode
  <2>3. /\ s \in Seq(Bytes) /\ Ends(s) /\ Estimate(s) = json_string_byte_size(node.text)
        /\ json_string_byte_size(node.text) \in Int
    BY <1>2, <2>2, QuotedMeasure
  <2> QED BY <1>3, <2>1, <2>3 DEF Exact, m, s, l
<1>8. node.kind \in DOMAIN Literals \cup {"number", "string"}
  BY <1>2 DEF Kinds, node
<1> QED BY <1>5, <1>6, <1>7, <1>8 DEF node, m, s, l

(* So is a node whose parts are.                                           *)
LEMMA BranchExact ==
  ASSUME NEW doc, IsDocument(doc), NEW i \in 1 .. Len(doc),
         doc[i].kind \in {"array", "object"},
         \A y \in i + 1 .. Len(doc) : Exact(Measured(doc)[y], Printed(doc)[y], Deepened(doc)[y])
  PROVE  Exact(Measured(doc)[i], Printed(doc)[i], Deepened(doc)[i])
<1> DEFINE node == doc[i]
           n == Len(node.parts)
           inner == Below(doc, i, Measured(doc))
           printed == Below(doc, i, Printed(doc))
           deep == Below(doc, i, Deepened(doc))
           m == Measured(doc)[i]
           s == Printed(doc)[i]
           l == Deepened(doc)[i]
           under == {Deepened(doc)[p] : p \in ToSet(node.parts)}
<1>1. /\ m = MeasuringNode(node, inner)
      /\ s = PrintingNode(node, printed)
      /\ l = 1 + Max({0} \cup under)
  BY NodeSteps DEF Measuring, Printing, Deepening
<1>2. /\ n \in Nat /\ node.keys \in Seq(Seq(STRING))
      /\ Len(node.keys) = IF node.kind = "object" THEN n ELSE 0
      /\ \A k \in 1 .. Len(node.keys) :
           node.keys[k] \in Seq(STRING) /\ \A c \in 1 .. Len(node.keys[k]) : node.keys[k][c] # "\\"
      /\ node.parts \in Seq(i + 1 .. Len(doc))
      /\ \A p \in 1 .. n : node.parts[p] \in i + 1 .. Len(doc)
  BY DocumentFacts
<1>3. \A p \in 1 .. n : Exact(inner[p], printed[p], deep[p])
  BY <1>2 DEF Below
<1>4. /\ inner = [p \in 1 .. n |-> inner[p]] /\ Len(inner) = n
      /\ printed = [p \in 1 .. n |-> printed[p]] /\ Len(printed) = n
      /\ \A p \in 1 .. n : deep[p] = Deepened(doc)[node.parts[p]]
  BY <1>2 DEF Below
<1>5. under = {deep[p] : p \in 1 .. n}
  <2>1. ToSet(node.parts) = {node.parts[p] : p \in 1 .. n}
    <3>1. DOMAIN node.parts = 1 .. n
      BY <1>2
    <3> QED BY <3>1 DEF ToSet
  <2>2. under = {Deepened(doc)[node.parts[p]] : p \in 1 .. n}
    <3> HIDE DEF node, n
    <3> QED BY <2>1
  <2>3. \A p \in 1 .. n : deep[p] = Deepened(doc)[node.parts[p]]
    BY <1>4
  <2> HIDE DEF node, n, deep, under
  <2> QED BY <2>2, <2>3
<1>6. node.kind \in {"array", "object"}
  BY DEF node
<1> DEFINE sizes == [p \in 1 .. n |-> inner[p].size]
           keys == [p \in 1 .. Len(node.keys) |-> json_string_byte_size(node.keys[p]) + 1]
           depths == {inner[p].depth : p \in 1 .. n}
<1> HIDE DEF node, n, inner, printed, deep, m, s, l, under
<1>7. {inner[p].depth : p \in 1 .. n} = {deep[p] : p \in 1 .. n}
  BY <1>3 DEF Exact
<1>8. Max({0} \cup under) \in Nat
  <2>1. \A p \in 1 .. n : deep[p] \in Nat
    BY <1>3 DEF Exact
  <2>2. Max({0} \cup {deep[p] : p \in 1 .. n}) \in Nat
    BY <1>2, <2>1, MaxFacts
  <2> QED BY <1>5, <2>2
<1>9. DOMAIN Literals = {"null", "true", "false"}
  BY DEF Literals
<1>10. m = [size |-> 2 + Max({n, 1}) - 1 + Total(keys) + Total(sizes),
            depth |-> Max({0} \cup depths) + 1]
  <2>1. m = [size |-> 2 + Max({Len(inner), 1}) - 1
                     + Total([p \in 1 .. Len(node.keys) |->
                                json_string_byte_size(node.keys[p]) + 1])
                     + Total([p \in 1 .. Len(node.parts) |-> inner[p].size]),
             depth |-> Max({0} \cup {inner[p].depth : p \in 1 .. Len(node.parts)}) + 1]
    BY <1>1, <1>6, <1>9 DEF MeasuringNode
  <2>2. Len(node.parts) = n /\ Len(inner) = n
    BY <1>4 DEF n
  <2> QED BY <2>1, <2>2
<1>11. depths = under
  BY <1>5, <1>7
<1>12. \A p \in 1 .. n : /\ printed[p] \in Seq(Bytes) /\ Ends(printed[p])
                         /\ Estimate(printed[p]) = inner[p].size /\ inner[p].size \in Int
  BY <1>3 DEF Exact
<1>13. Len(sizes) = n /\ \A p \in 1 .. n : sizes[p] = inner[p].size
  BY <1>2
<1>14. Max({n, 1}) \in Int
  <2>1. Max({n, 1}) = IF n = 0 THEN 1 ELSE n
    BY <1>2 DEF Max
  <2> QED BY <1>2, <2>1
<1> HIDE DEF sizes, keys, depths
<1>15. m.depth = l /\ m.depth \in Nat
  <2>1. m.depth = Max({0} \cup under) + 1
    BY <1>10, <1>11
  <2> QED BY <1>1, <1>8, <2>1
<1>16. m.size = 2 + Max({n, 1}) - 1 + Total(keys) + Total(sizes)
  BY <1>10
<1>17. CASE node.kind = "array"
  <2>1. s = <<"[">> \o Listed(printed) \o <<"]">>
    BY <1>1, <1>9, <1>17 DEF PrintingNode
  <2>2. Total(keys) = 0
    <3> DEFINE none == [k \in 0 .. 0 |-> 0]
    <3>1. none[0] = 0
      OBVIOUS
    <3>2. Len(keys) = 0
      BY <1>2, <1>17 DEF keys
    <3> HIDE DEF none
    <3>3. \A k \in 1 .. 0 : none[k] = none[k - 1] + keys[k]
      OBVIOUS
    <3>4. Total(keys) = none[0]
      BY <3>1, <3>2, <3>3, TotalIs
    <3> QED BY <3>1, <3>4
  <2>3. printed \in Seq(Seq(Bytes)) /\ Len(printed) = n /\ Len(sizes) = n /\ n \in Nat
    <3>1. \A p \in 1 .. n : printed[p] \in Seq(Bytes)
      BY <1>12
    <3> QED BY <1>2, <1>4, <1>13, <3>1, SequenceFacts
  <2>4. \A p \in 1 .. n : Ends(printed[p]) /\ Estimate(printed[p]) = sizes[p]
    BY <1>12, <1>13
  <2>5. /\ Listed(printed) \in Seq(Bytes) /\ Ends(Listed(printed)) /\ Total(sizes) \in Int
        /\ Estimate(Listed(printed)) = Total(sizes) + (Max({n, 1}) - 1)
    BY <2>3, <2>4, ListedMeasure
  <2>6. "[" \in Bytes /\ "]" \in Bytes
    BY DEF Bytes
  <2>7. s \in Seq(Bytes) /\ Ends(s) /\ Estimate(s) = 2 + Estimate(Listed(printed))
    BY <2>1, <2>5, <2>6, BracketMeasure
  <2>8. m.size = Estimate(s) /\ m.size \in Int
    BY <1>14, <1>16, <2>2, <2>5, <2>7
  <2> QED BY <1>15, <2>7, <2>8 DEF Exact, m, s, l
<1>18. CASE node.kind = "object"
  <2> DEFINE items == [p \in 1 .. n |-> Quoted(node.keys[p]) \o <<":">> \o printed[p]]
             whole == [p \in 1 .. n |-> keys[p] + sizes[p]]
  <2>1. s = <<"{">> \o Listed(items) \o <<"}">>
    <3>1. Len(node.parts) = n
      BY DEF n
    <3> QED BY <1>1, <1>9, <1>18, <3>1 DEF PrintingNode
  <2>2. Len(node.keys) = n
    BY <1>2, <1>18
  <2>3. \A p \in 1 .. n : keys[p] = json_string_byte_size(node.keys[p]) + 1
    BY <2>2 DEF keys
  <2>4. ASSUME NEW p \in 1 .. n
        PROVE  /\ items[p] \in Seq(Bytes) /\ Ends(items[p]) /\ Estimate(items[p]) = whole[p]
               /\ keys[p] \in Int /\ sizes[p] \in Int
    <3>1. node.keys[p] \in Seq(STRING) /\ \A c \in 1 .. Len(node.keys[p]) : node.keys[p][c] # "\\"
      BY <1>2, <2>2
    <3>2. printed[p] \in Seq(Bytes) /\ Ends(printed[p]) /\ Estimate(printed[p]) = sizes[p] /\ sizes[p] \in Int
      BY <1>12, <1>13
    <3>3. json_string_byte_size(node.keys[p]) \in Int
      BY <3>1, QuotedMeasure
    <3>4. items[p] = Quoted(node.keys[p]) \o <<":">> \o printed[p] /\ whole[p] = keys[p] + sizes[p]
      OBVIOUS
    <3> HIDE DEF items, whole
    <3>5. /\ items[p] \in Seq(Bytes) /\ Ends(items[p])
          /\ Estimate(items[p]) = (json_string_byte_size(node.keys[p]) + 1) + Estimate(printed[p])
      BY <3>1, <3>2, <3>4, MemberMeasure
    <3> QED BY <2>3, <3>2, <3>3, <3>4, <3>5
  <2>5. items \in Seq(Seq(Bytes)) /\ Len(items) = n /\ Len(whole) = n /\ n \in Nat
    <3>1. items = [p \in 1 .. n |-> items[p]]
      OBVIOUS
    <3>3. Len(whole) = n
      BY <1>2
    <3>2. \A p \in 1 .. n : items[p] \in Seq(Bytes)
      BY <2>4
    <3> HIDE DEF items, whole
    <3> QED BY <1>2, <3>1, <3>2, <3>3, SequenceFacts
  <2>6. Len(keys) = n
    BY <1>2, <2>2 DEF keys
  <2>7. \A p \in 1 .. n : whole[p] = keys[p] + sizes[p]
    OBVIOUS
  <2> HIDE DEF items, whole
  <2>8. \A p \in 1 .. n : Ends(items[p]) /\ Estimate(items[p]) = whole[p]
    BY <2>4
  <2>9. /\ Listed(items) \in Seq(Bytes) /\ Ends(Listed(items)) /\ Total(whole) \in Int
        /\ Estimate(Listed(items)) = Total(whole) + (Max({n, 1}) - 1)
    BY <2>5, <2>8, ListedMeasure
  <2>10. \A p \in 1 .. n : keys[p] \in Int /\ sizes[p] \in Int /\ whole[p] = keys[p] + sizes[p]
    BY <2>4, <2>7
  <2>11. Total(whole) = Total(keys) + Total(sizes)
    <3>1. Len(keys) = n /\ Len(sizes) = n /\ Len(whole) = n /\ n \in Nat
      BY <1>13, <2>5, <2>6
    <3> QED BY <2>10, <3>1, TotalPlus
  <2>12. Total(keys) \in Int /\ Total(sizes) \in Int
    BY <1>2, <1>13, <2>6, <2>10, TotalType
  <2>13. "{" \in Bytes /\ "}" \in Bytes
    BY DEF Bytes
  <2>14. s \in Seq(Bytes) /\ Ends(s) /\ Estimate(s) = 2 + Estimate(Listed(items))
    BY <2>1, <2>9, <2>13, BracketMeasure
  <2>15. m.size = Estimate(s) /\ m.size \in Int
    BY <1>14, <1>16, <2>9, <2>11, <2>12, <2>14
  <2> QED BY <1>15, <2>14, <2>15 DEF Exact, m, s, l
<1> QED BY <1>6, <1>17, <1>18

(* The measures of limit.rs are exact, of every node of every document.    *)
LEMMA MeasuresExact ==
  ASSUME NEW doc, IsDocument(doc), NEW i \in 1 .. Len(doc)
  PROVE  LET measured == json_size_and_depth(doc, i)
         IN /\ measured.size = Estimate(Serialized(doc, i)) /\ measured.size \in Int
            /\ measured.depth = Nesting(doc, i) /\ measured.depth \in Nat
<1> DEFINE n == Len(doc)
           S == {x \in 1 .. n : Exact(Measured(doc)[x], Printed(doc)[x], Deepened(doc)[x])}
<1>1. n \in Nat
  BY DocumentFacts
<1>2. ASSUME NEW x \in 1 .. n, (x + 1 .. n) \subseteq S PROVE x \in S
  <2>1. \A y \in x + 1 .. n : Exact(Measured(doc)[y], Printed(doc)[y], Deepened(doc)[y])
    BY <1>2
  <2> QED BY <2>1, LeafExact, BranchExact
<1>3. S \in SUBSET (1 .. n)
  OBVIOUS
<1> HIDE DEF S
<1>4. S = 1 .. n
  BY <1>1, <1>2, <1>3, NodeInduction
<1>5. Exact(Measured(doc)[i], Printed(doc)[i], Deepened(doc)[i])
  BY <1>4 DEF S
<1> QED BY <1>5, NodeSteps DEF Exact

-----------------------------------------------------------------------------
(* Places in a URI, and parts of it.                                       *)
LEMMA PartFacts ==
  ASSUME NEW T, NEW uri \in Seq(T), NEW from \in Nat \ {0}, NEW S
  PROVE  /\ Find(uri, S, from) \in 1 .. Len(uri) + 1
         /\ Before(uri, Find(uri, S, from)) \in Seq(T)
         /\ From(uri, Find(uri, S, from)) \in Seq(T)
         /\ From(uri, Find(uri, S, from) + 1) \in Seq(T)
<1> DEFINE at == {i \in from .. Len(uri) : uri[i] \in S}
           f == Find(uri, S, from)
<1>1. Len(uri) \in Nat
  OBVIOUS
<1>2. f = IF at = {} THEN Len(uri) + 1 ELSE Min(at)
  BY DEF Find
<1>3. at \in SUBSET Nat
  OBVIOUS
<1>4. at # {} => Min(at) \in at
  <2> HIDE DEF at
  <2> QED BY <1>3, MinFacts
<1>5. f \in 1 .. Len(uri) + 1
  BY <1>1, <1>2, <1>4
<1> HIDE DEF f
<1>6. /\ SubSeq(uri, 1, f - 1) \in Seq(T) /\ SubSeq(uri, f, Len(uri)) \in Seq(T)
      /\ SubSeq(uri, f + 1, Len(uri)) \in Seq(T)
  BY <1>1, <1>5
<1> QED BY <1>5, <1>6 DEF f, Before, From

(* The segments of a path.                                                 *)
SegmentsUpTo(p, n) ==
  CHOOSE segs : segs = [k \in 0 .. n |-> IF k = 0 THEN << <<>> >> ELSE Segmented(segs[k - 1], p[k])]

(* As above.                                                               *)
LEMMA SegmentsType ==
  ASSUME NEW T, NEW p \in Seq(T)
  PROVE  Segments(p) \in Seq(Seq(T)) /\ Segments(p) # <<>>
<1> DEFINE n == Len(p)
           of == [name |-> "segments", list |-> p]
           g == SegmentsUpTo(p, n)
           U == Seq(T)
<1>0. n \in Nat /\ \A k \in 1 .. n : p[k] \in T
  OBVIOUS
<1>1. \A x, h : Recurring(of, x, h) = (IF x = 0 THEN << <<>> >> ELSE Segmented(h[x - 1], p[x]))
  BY DEF Recurring
<1>2. Segments(p) = g[n]
  BY DEF Segments, SegmentsUpTo
<1>3. <<>> \in U /\ \A s \in U, t \in T : Append(s, t) \in U
  OBVIOUS
<1> HIDE DEF of, n, U
<1>4. \E h : h = [x \in 0 .. n |-> IF x = 0 THEN << <<>> >> ELSE Segmented(h[x - 1], p[x])]
  <2>1. ReadsBefore(of, 0, n)
    BY <1>1 DEF ReadsBefore
  <2>2. Defined(of, 0 .. n)
    BY <1>0, <2>1, ListRecursion
  <2>3. PICK h : h = [x \in 0 .. n |-> Recurring(of, x, h)]
    BY <2>2 DEF Defined
  <2>4. \A x \in 0 .. n : Recurring(of, x, h) = (IF x = 0 THEN << <<>> >> ELSE Segmented(h[x - 1], p[x]))
    BY <1>1
  <2>5. h = [x \in 0 .. n |-> IF x = 0 THEN << <<>> >> ELSE Segmented(h[x - 1], p[x])]
    BY <2>3, <2>4
  <2> QED BY <2>5
<1>5. g = [x \in 0 .. n |-> IF x = 0 THEN << <<>> >> ELSE Segmented(g[x - 1], p[x])]
  BY <1>4 DEF SegmentsUpTo
<1> HIDE DEF g
<1> DEFINE S == {k \in Nat : k <= n => g[k] \in Seq(U) /\ Len(g[k]) # 0}
<1>6. 0 \in S
  <2>1. 0 \in 0 .. n
    BY <1>0
  <2>2. g[0] = << <<>> >>
    BY <1>5, <2>1
  <2>3. \A e \in U : <<e>> \in Seq(U) /\ Len(<<e>>) = 1
    OBVIOUS
  <2>4. g[0] \in Seq(U) /\ Len(g[0]) # 0
    <3>1. \A e \in U : <<e>> \in Seq(U) /\ Len(<<e>>) # 0
      BY <2>3
    <3> HIDE DEF S
    <3> QED BY <1>3, <2>2, <3>1
  <2>5. 0 \in Nat
    OBVIOUS
  <2> QED BY <2>4, <2>5
<1>7. ASSUME NEW k \in S PROVE k + 1 \in S
  <2> SUFFICES ASSUME k + 1 <= n PROVE g[k + 1] \in Seq(U) /\ Len(g[k + 1]) # 0
    OBVIOUS
  <2>1. k + 1 \in 1 .. n /\ k + 1 \in 0 .. n /\ (k + 1) - 1 = k /\ k <= n /\ k + 1 # 0
    BY <1>0
  <2> DEFINE s == g[k]
             t == p[k + 1]
  <2>2. g[k + 1] = Segmented(s, t)
    BY <1>5, <2>1
  <2>3. s \in Seq(U) /\ Len(s) # 0 /\ t \in T
    BY <1>0, <2>1
  <2> HIDE DEF s, t
  <2>4. CASE t = "/"
    <3>1. Segmented(s, t) = Append(s, <<>>)
      BY <2>4 DEF Segmented
    <3> QED BY <1>3, <2>2, <2>3, <3>1
  <2>5. CASE t # "/"
    <3>1. Segmented(s, t) = [s EXCEPT ![Len(s)] = Append(s[Len(s)], t)]
      BY <2>5 DEF Segmented
    <3>2. Len(s) \in 1 .. Len(s) /\ s[Len(s)] \in U
      BY <2>3
    <3>3. Append(s[Len(s)], t) \in U
      BY <1>3, <2>3, <3>2
    <3>4. [s EXCEPT ![Len(s)] = Append(s[Len(s)], t)] \in Seq(U)
      BY <2>3, <3>2, <3>3
    <3>5. Len([s EXCEPT ![Len(s)] = Append(s[Len(s)], t)]) = Len(s)
      BY <2>3, <3>2, <3>3
    <3> QED BY <2>2, <2>3, <3>1, <3>4, <3>5
  <2> QED BY <2>4, <2>5
<1>8. S = Nat
  <2> HIDE DEF S
  <2>1. S \in SUBSET Nat
    BY DEF S
  <2> QED BY <1>6, <1>7, <2>1, SetInduction
<1>9. g[n] \in Seq(U) /\ Len(g[n]) # 0
  BY <1>0, <1>8
<1> QED BY <1>2, <1>9 DEF U

(* What is left of segments.                                               *)
KeptUpTo(segs, Drop, n) ==
  CHOOSE stack : stack = [k \in 0 .. n |-> IF k = 0 THEN <<>>
                                           ELSE Stacked(stack[k - 1], segs[k], k \in Drop)]

(* As above.                                                               *)
LEMMA KeptType ==
  ASSUME NEW U, NEW segs \in Seq(U), NEW Drop
  PROVE  Kept(segs, Drop) \in Seq(U)
<1> DEFINE n == Len(segs)
           of == [name |-> "kept", list |-> segs, drop |-> Drop]
           g == KeptUpTo(segs, Drop, n)
<1>0. n \in Nat /\ \A k \in 1 .. n : segs[k] \in U
  OBVIOUS
<1>1. \A x, h : Recurring(of, x, h) = (IF x = 0 THEN <<>> ELSE Stacked(h[x - 1], segs[x], x \in Drop))
  BY DEF Recurring
<1>2. Kept(segs, Drop) = g[n]
  BY DEF Kept, KeptUpTo
<1> HIDE DEF of, n
<1>4. \E h : h = [x \in 0 .. n |-> IF x = 0 THEN <<>> ELSE Stacked(h[x - 1], segs[x], x \in Drop)]
  <2>1. ReadsBefore(of, 0, n)
    BY <1>1 DEF ReadsBefore
  <2>2. Defined(of, 0 .. n)
    BY <1>0, <2>1, ListRecursion
  <2>3. PICK h : h = [x \in 0 .. n |-> Recurring(of, x, h)]
    BY <2>2 DEF Defined
  <2>4. \A x \in 0 .. n :
          Recurring(of, x, h) = (IF x = 0 THEN <<>> ELSE Stacked(h[x - 1], segs[x], x \in Drop))
    BY <1>1
  <2>5. h = [x \in 0 .. n |-> IF x = 0 THEN <<>> ELSE Stacked(h[x - 1], segs[x], x \in Drop)]
    BY <2>3, <2>4
  <2> QED BY <2>5
<1>5. g = [x \in 0 .. n |-> IF x = 0 THEN <<>> ELSE Stacked(g[x - 1], segs[x], x \in Drop)]
  BY <1>4 DEF KeptUpTo
<1> HIDE DEF g
<1> DEFINE S == {k \in Nat : k <= n => g[k] \in Seq(U)}
<1>6. 0 \in S
  <2>1. 0 \in 0 .. n
    BY <1>0
  <2>2. g[0] = <<>>
    BY <1>5, <2>1
  <2>3. <<>> \in Seq(U)
    OBVIOUS
  <2> QED BY <2>2, <2>3
<1>7. ASSUME NEW k \in S PROVE k + 1 \in S
  <2> SUFFICES ASSUME k + 1 <= n PROVE g[k + 1] \in Seq(U)
    OBVIOUS
  <2>1. k + 1 \in 1 .. n /\ k + 1 \in 0 .. n /\ (k + 1) - 1 = k /\ k <= n /\ k + 1 # 0
    BY <1>0
  <2> DEFINE s == g[k]
             t == segs[k + 1]
             d == k + 1 \in Drop
  <2>2. g[k + 1] = Stacked(s, t, d)
    BY <1>5, <2>1
  <2>3. s \in Seq(U) /\ t \in U
    BY <1>0, <2>1
  <2> HIDE DEF s, t, d
  <2>4. Pop(s) \in Seq(U)
    <3>1. s # <<>> => Front(s) \in Seq(U)
      BY <2>3 DEF Front
    <3> QED BY <2>3, <3>1 DEF Pop
  <2>5. Append(s, t) \in Seq(U)
    BY <2>3
  <2>6. Stacked(s, t, d) \in {Pop(s), s, Append(s, t)}
    BY DEF Stacked
  <2> QED BY <2>2, <2>3, <2>4, <2>5, <2>6
<1>8. S = Nat
  <2> HIDE DEF S
  <2>1. S \in SUBSET Nat
    BY DEF S
  <2> QED BY <1>6, <1>7, <2>1, SetInduction
<1> QED BY <1>0, <1>2, <1>8

(* Segments that are joined.                                               *)
LEMMA JoinType ==
  ASSUME NEW T, "/" \in T, NEW segs \in Seq(Seq(T))
  PROVE  Join(segs) \in Seq(T)
<1> DEFINE n == Len(segs)
           list == [i \in 1 .. n |-> <<"/">> \o segs[i]]
<1>1. n \in Nat /\ \A i \in 1 .. n : segs[i] \in Seq(T)
  OBVIOUS
<1>2. \A s \in Seq(T) : <<"/">> \o s \in Seq(T) /\ Len(<<"/">> \o s) # 0
  OBVIOUS
<1>3. \A i \in 1 .. n : list[i] \in Seq(T) /\ Len(list[i]) # 0
  BY <1>1, <1>2
<1>4. list = [i \in 1 .. n |-> list[i]]
  OBVIOUS
<1>5. CASE segs = <<>>
  BY <1>5 DEF Join
<1>6. CASE segs # <<>>
  <2>1. Join(segs) = Tail(FlattenSeq(list)) /\ n # 0
    BY <1>6 DEF Join
  <2> HIDE DEF list, n
  <2>2. list \in Seq(Seq(T)) /\ Len(list) = n
    BY <1>1, <1>3, <1>4, SequenceFacts
  <2>3. PICK f : /\ FlattenSeq(list) = f[Len(list)] /\ f[0] = <<>>
                 /\ \A k \in 1 .. Len(list) : f[k] \in Seq(T) /\ f[k] = f[k - 1] \o list[k]
    BY <2>2, FlattenSteps
  <2>4. n \in 1 .. n /\ (n = 1 \/ n - 1 \in 1 .. n) /\ <<>> \in Seq(T) /\ 1 - 1 = 0
    BY <1>1, <2>1
  <2>5. f[n - 1] \in Seq(T)
    BY <2>2, <2>3, <2>4
  <2>6. f[n] \in Seq(T) /\ f[n] = f[n - 1] \o list[n] /\ list[n] \in Seq(T) /\ Len(list[n]) # 0
    BY <1>3, <2>2, <2>3, <2>4
  <2>7. Len(f[n]) # 0
    <3>1. \A a, b \in Seq(T) : Len(b) # 0 => Len(a \o b) # 0
      OBVIOUS
    <3> QED BY <2>5, <2>6, <3>1
  <2>8. Tail(f[n]) \in Seq(T)
    BY <2>6, <2>7
  <2> QED BY <2>1, <2>2, <2>3, <2>8
<1> QED BY <1>5, <1>6

(* Paths without dot segments, URIs with such paths, and resolved ones.    *)
LEMMA RemovedType ==
  ASSUME NEW T, "/" \in T, NEW p \in Seq(T)
  PROVE  remove_dot_segments(p) \in Seq(T) /\ remove_dot_segments_rfc3986(p) \in Seq(T)
<1> DEFINE segs == Segments(p)
<1>1. segs \in Seq(Seq(T))
  BY SegmentsType
<1> HIDE DEF segs
<1>2. ASSUME NEW Drop PROVE Rooted(p, Kept(segs, Drop)) \in Seq(T)
  <2> DEFINE stack == Kept(segs, Drop)
  <2>1. stack \in Seq(Seq(T))
    BY <1>1, KeptType
  <2> HIDE DEF stack
  <2>2. Join(stack) \in Seq(T)
    BY <2>1, JoinType
  <2>3. <<"/">> \in Seq(T)
    OBVIOUS
  <2>4. Rooted(p, stack) \in {Join(stack), <<"/">>}
    BY DEF Rooted
  <2> QED BY <2>2, <2>3, <2>4 DEF stack
<1> QED BY <1>2 DEF remove_dot_segments, remove_dot_segments_rfc3986, segs

(* As above.                                                               *)
LEMMA NormalizedType ==
  ASSUME NEW T, "/" \in T, NEW uri \in Seq(T)
  PROVE  normalize_path_in_uri(uri) \in Seq(T)
<1> DEFINE scheme == Find(uri, Scheme, 1)
           start == PathStart(uri)
           query == Find(uri, {"?", "#"}, start)
           p == SubSeq(uri, start, query - 1)
<1>1. scheme \in 1 .. Len(uri) + 1 /\ Len(uri) \in Nat
  BY PartFacts
<1>2. scheme + 1 \in Nat \ {0}
  BY <1>1
<1> HIDE DEF scheme
<1>3. start \in 1 .. Len(uri) + 1 /\ Before(uri, start) \in Seq(T)
  BY <1>2, PartFacts DEF PathStart, scheme
<1>4. start \in Nat \ {0}
  BY <1>1, <1>3
<1> HIDE DEF start
<1>5. query \in 1 .. Len(uri) + 1 /\ From(uri, query) \in Seq(T)
  BY <1>4, PartFacts
<1> HIDE DEF query
<1>6. p \in Seq(T)
  BY <1>1, <1>4, <1>5
<1> HIDE DEF p
<1>7. remove_dot_segments(p) \in Seq(T) /\ remove_dot_segments_rfc3986(p) \in Seq(T)
  BY <1>6, RemovedType
<1>8. normalize_path_in_uri(uri)
        = Before(uri, start)
            \o (IF IsPrefix(<<"file://">>, uri) THEN remove_dot_segments(p)
                ELSE remove_dot_segments_rfc3986(p))
            \o From(uri, query)
  BY DEF normalize_path_in_uri, NormalizedBetween, start, query, p
<1>9. \A a, b, c \in Seq(T) : a \o b \o c \in Seq(T)
  OBVIOUS
<1> QED BY <1>3, <1>5, <1>7, <1>8, <1>9

(* As above.                                                               *)
LEMMA ResolvedType ==
  ASSUME NEW T, "/" \in T, NEW base \in Seq(T), NEW reference \in Seq(T)
  PROVE  resolve_uri(base, reference) \in Seq(T)
<1>1. Len(base) \in Nat /\ 1 \in Nat \ {0} /\ \A a, b \in Seq(T) : a \o b \in Seq(T)
  OBVIOUS
<1>2. strip_fragment(base) \in Seq(T)
  BY <1>1, PartFacts DEF strip_fragment
<1>3. Origin(base) \in Seq(T)
  <2> DEFINE scheme == Find(base, Scheme, 1)
  <2>1. scheme \in 1 .. Len(base) + 1
    BY <1>1, PartFacts
  <2>2. scheme + 1 \in Nat \ {0}
    BY <1>1, <2>1
  <2> HIDE DEF scheme
  <2>3. Before(base, PathStart(base)) \in Seq(T)
    BY <2>2, PartFacts DEF PathStart, scheme
  <2>4. Before(base, Find(base, {"/"}, 1)) \in Seq(T)
    BY <1>1, PartFacts
  <2> QED BY <2>3, <2>4 DEF Origin
<1>4. base_directory(base) \in Seq(T)
  <2> DEFINE n == Len(base)
             at == {i \in 1 .. n : base[i] \in Scheme \cup {"/"}}
             f == [p \in 1 .. n |-> IF p \in at THEN p ELSE 0]
             m == Max({0} \cup at)
  <2>1. \A p \in 1 .. n : f[p] \in Nat
    BY <1>1
  <2>2. {0} \cup {f[p] : p \in 1 .. n} = {0} \cup at
    OBVIOUS
  <2>3. \A y \in {0} \cup at : 0 <= y /\ y <= n
    BY <1>1
  <2> HIDE DEF f, at
  <2>4. m \in {0} \cup at
    BY <1>1, <2>1, <2>2, MaxFacts
  <2>5. m \in Nat /\ m <= n
    BY <1>1, <2>1, <2>2, <2>3, <2>4, MaxFacts
  <2> HIDE DEF m
  <2>6. SubSeq(base, 1, m) \in Seq(T)
    BY <1>1, <2>5
  <2> QED BY <2>6 DEF base_directory, m, at
<1>5. CASE ~is_absolute_uri(reference) /\ IsPrefix(<<"#">>, reference)
  BY <1>1, <1>2, <1>5 DEF resolve_uri
<1>6. CASE ~(~is_absolute_uri(reference) /\ IsPrefix(<<"#">>, reference))
  <2> DEFINE front == CASE is_absolute_uri(reference) -> <<>>
                        [] ~is_absolute_uri(reference) /\ IsPrefix(<<"/">>, reference) -> Origin(base)
                        [] OTHER -> base_directory(base)
  <2>1. resolve_uri(base, reference) = normalize_path_in_uri(front \o reference)
    BY <1>6 DEF resolve_uri
  <2>2. front \in {<<>>, Origin(base), base_directory(base)}
    OBVIOUS
  <2> HIDE DEF front
  <2>3. front \in Seq(T)
    <3>1. <<>> \in Seq(T)
      OBVIOUS
    <3> QED BY <1>3, <1>4, <2>2, <3>1
  <2>4. front \o reference \in Seq(T)
    BY <1>1, <2>3
  <2> QED BY <2>1, <2>4, NormalizedType
<1> QED BY <1>5, <1>6

-----------------------------------------------------------------------------
(* A part that is looked up stands after the node.                         *)
LEMMA PartsAfter ==
  ASSUME NEW doc, IsDocument(doc), NEW i \in 1 .. Len(doc), NEW key
  PROVE  /\ Member(doc, i, key) = <<>> \/ \E v \in i + 1 .. Len(doc) : Member(doc, i, key) = <<v>>
         /\ Element(doc, i, key) = <<>> \/ \E v \in i + 1 .. Len(doc) : Element(doc, i, key) = <<v>>
<1> DEFINE node == doc[i]
           n == Len(node.parts)
           places == {p \in 1 .. n : <<ToString(p - 1)>> = key}
           keys == {k \in 1 .. Len(node.keys) : node.keys[k] = key}
<1>1. /\ n \in Nat /\ node.keys \in Seq(Seq(STRING))
      /\ Len(node.keys) = IF node.kind = "object" THEN n ELSE 0
      /\ \A p \in 1 .. n : node.parts[p] \in i + 1 .. Len(doc)
  BY DocumentFacts
<1>2. Element(doc, i, key) = IF places = {} THEN <<>> ELSE <<node.parts[Min(places)]>>
  BY DEF Element
<1>3. Member(doc, i, key) = IF node.kind # "object" \/ keys = {} THEN <<>> ELSE <<node.parts[Min(keys)]>>
  <2>1. keys # {} => Min(keys) \in keys
    <3>1. keys \in SUBSET Nat
      OBVIOUS
    <3> HIDE DEF keys
    <3> QED BY <3>1, MinFacts
  <2>2. keys # {} => Min(keys) # 0
    BY <2>1
  <2>3. SelectInSeq(node.keys, LAMBDA other : other = key) = IF keys # {} THEN Min(keys) ELSE 0
    BY DEF SelectInSeq
  <2>4. node.kind # "object" => Member(doc, i, key) = <<>>
    BY DEF Member
  <2>5. ASSUME node.kind = "object"
        PROVE  Member(doc, i, key) = LET k == SelectInSeq(node.keys, LAMBDA other : other = key)
                                     IN IF k = 0 THEN <<>> ELSE <<node.parts[k]>>
    BY <2>5 DEF Member
  <2> HIDE DEF node, keys
  <2> QED BY <2>2, <2>3, <2>4, <2>5
<1>4. places # {} => Min(places) \in 1 .. n
  <2>1. places \in SUBSET Nat /\ places \subseteq 1 .. n
    OBVIOUS
  <2> HIDE DEF places, n
  <2> QED BY <2>1, MinFacts
<1>5. keys # {} /\ node.kind = "object" => Min(keys) \in 1 .. n
  <2>1. keys \in SUBSET Nat /\ (node.kind = "object" => keys \subseteq 1 .. n)
    BY <1>1
  <2> HIDE DEF keys, n, node
  <2> QED BY <2>1, MinFacts
<1> HIDE DEF node, n, places, keys
<1> QED BY <1>1, <1>2, <1>3, <1>4, <1>5

(* A token leads to a node, or nowhere.                                    *)
LEMMA UnderFacts ==
  ASSUME NEW doc, IsDocument(doc), NEW i \in {0} \cup 1 .. Len(doc), NEW token
  PROVE  Under(doc, i, token) \in {0} \cup 1 .. Len(doc)
<1>1. CASE i = 0
  BY <1>1 DEF Under
<1>2. CASE i # 0
  <2>1. i \in 1 .. Len(doc) /\ Len(doc) \in Nat
    BY <1>2, DocumentFacts
  <2> DEFINE v == IF doc[i].kind = "array" THEN Element(doc, i, token) ELSE Member(doc, i, token)
  <2>2. v = <<>> \/ \E w \in i + 1 .. Len(doc) : v = <<w>>
    BY <2>1, PartsAfter
  <2>3. Under(doc, i, token) = IF v = <<>> THEN 0 ELSE v[1]
    BY <1>2 DEF Under
  <2> HIDE DEF v
  <2> QED BY <2>1, <2>2, <2>3
<1> QED BY <1>1, <1>2

(* So do all tokens of a pointer.                                          *)
PointedTo(doc, tokens, n) ==
  CHOOSE at : at = [k \in 0 .. n |-> IF k = 0 THEN 1 ELSE Under(doc, at[k - 1], tokens[k])]

(* As above.                                                               *)
LEMMA PointerFacts ==
  ASSUME NEW doc, IsDocument(doc), NEW U, NEW tokens \in Seq(U)
  PROVE  pointer(doc, tokens) \in {0} \cup 1 .. Len(doc)
<1> DEFINE n == Len(tokens)
           of == [name |-> "pointer", doc |-> doc, list |-> tokens]
           g == PointedTo(doc, tokens, n)
           P == {0} \cup 1 .. Len(doc)
<1>0. n \in Nat
  OBVIOUS
<1>1. \A x, h : Recurring(of, x, h) = (IF x = 0 THEN 1 ELSE Under(doc, h[x - 1], tokens[x]))
  BY DEF Recurring
<1>2. pointer(doc, tokens) = g[n]
  BY DEF pointer, PointedTo
<1>3. 1 \in P /\ \A i \in P : \A t : Under(doc, i, t) \in P
  BY DocumentFacts, UnderFacts
<1> HIDE DEF of, n, P
<1>4. \E h : h = [x \in 0 .. n |-> IF x = 0 THEN 1 ELSE Under(doc, h[x - 1], tokens[x])]
  <2>1. ReadsBefore(of, 0, n)
    BY <1>1 DEF ReadsBefore
  <2>2. Defined(of, 0 .. n)
    BY <1>0, <2>1, ListRecursion
  <2>3. PICK h : h = [x \in 0 .. n |-> Recurring(of, x, h)]
    BY <2>2 DEF Defined
  <2>4. \A x \in 0 .. n : Recurring(of, x, h) = (IF x = 0 THEN 1 ELSE Under(doc, h[x - 1], tokens[x]))
    BY <1>1
  <2>5. h = [x \in 0 .. n |-> IF x = 0 THEN 1 ELSE Under(doc, h[x - 1], tokens[x])]
    BY <2>3, <2>4
  <2> QED BY <2>5
<1>5. g = [x \in 0 .. n |-> IF x = 0 THEN 1 ELSE Under(doc, g[x - 1], tokens[x])]
  BY <1>4 DEF PointedTo
<1> HIDE DEF g
<1> DEFINE S == {k \in Nat : k <= n => g[k] \in P}
<1>6. 0 \in S
  <2>1. 0 \in 0 .. n
    BY <1>0
  <2>2. g[0] = 1
    BY <1>5, <2>1
  <2> QED BY <1>3, <2>2
<1>7. ASSUME NEW k \in S PROVE k + 1 \in S
  <2> SUFFICES ASSUME k + 1 <= n PROVE g[k + 1] \in P
    OBVIOUS
  <2>1. k + 1 \in 0 .. n /\ (k + 1) - 1 = k /\ k <= n /\ k + 1 # 0
    BY <1>0
  <2>2. g[k + 1] = Under(doc, g[k], tokens[k + 1])
    BY <1>5, <2>1
  <2>3. g[k] \in P
    BY <2>1
  <2> QED BY <1>3, <2>2, <2>3
<1>8. S = Nat
  <2> HIDE DEF S
  <2>1. S \in SUBSET Nat
    BY DEF S
  <2> QED BY <1>6, <1>7, <2>1, SetInduction
<1> QED BY <1>0, <1>2, <1>8 DEF P

(* The schemas below a node stand after it.                                *)
Gathered(doc, i, keywords, form) ==
  FlattenSeq([k \in 1 .. Len(keywords) |->
                LET v == Member(doc, i, <<keywords[k]>>)
                IN IF v = <<>> THEN <<>>
                   ELSE IF form = "single" THEN <<v[1]>>
                   ELSE IF doc[v[1]].kind = form THEN doc[v[1]].parts ELSE <<>>])

(* As above.                                                               *)
LEMMA GatheredType ==
  ASSUME NEW doc, IsDocument(doc), NEW i \in 1 .. Len(doc), NEW keywords, Len(keywords) \in Nat, NEW form
  PROVE  Gathered(doc, i, keywords, form) \in Seq(i + 1 .. Len(doc))
<1> DEFINE n == Len(keywords)
           T == i + 1 .. Len(doc)
           at(k) == Member(doc, i, <<keywords[k]>>)
           list == [k \in 1 .. n |->
                      IF at(k) = <<>> THEN <<>>
                      ELSE IF form = "single" THEN <<at(k)[1]>>
                      ELSE IF doc[at(k)[1]].kind = form THEN doc[at(k)[1]].parts ELSE <<>>]
<1>1. ASSUME NEW k \in 1 .. n PROVE list[k] \in Seq(T)
  <2> DEFINE m == at(k)
  <2>1. m = <<>> \/ \E v \in T : m = <<v>>
    BY PartsAfter
  <2>2. list[k] = IF m = <<>> THEN <<>>
                  ELSE IF form = "single" THEN <<m[1]>>
                  ELSE IF doc[m[1]].kind = form THEN doc[m[1]].parts ELSE <<>>
    OBVIOUS
  <2> HIDE DEF m, list
  <2>3. CASE m = <<>>
    <3>1. list[k] = <<>>
      BY <2>2, <2>3
    <3> QED BY <3>1
  <2>4. CASE \E v \in T : m = <<v>>
    <3>1. PICK v \in T : m = <<v>>
      BY <2>4
    <3>2. m # <<>> /\ m[1] = v
      BY <3>1
    <3>3. v \in 1 .. Len(doc) /\ v + 1 .. Len(doc) \subseteq T
      BY DocumentFacts
    <3>4. doc[v].parts \in Seq(v + 1 .. Len(doc))
      BY <3>3, DocumentFacts
    <3>5. doc[v].parts \in Seq(T)
      BY <3>3, <3>4, SequenceFacts
    <3> HIDE DEF T
    <3>6. <<v>> \in Seq(T) /\ <<>> \in Seq(T)
      OBVIOUS
    <3>7. list[k] \in {<<v>>, doc[v].parts, <<>>}
      BY <2>2, <3>2
    <3> QED BY <3>5, <3>6, <3>7
  <2> QED BY <2>1, <2>3, <2>4
<1>2. list = [k \in 1 .. n |-> list[k]]
  OBVIOUS
<1>3. Gathered(doc, i, keywords, form) = FlattenSeq(list)
  BY DEF Gathered
<1> HIDE DEF list, T
<1>4. list \in Seq(Seq(T))
  BY <1>1, <1>2, SequenceFacts
<1> QED BY <1>3, <1>4, FlattenType DEF T

(* As above.                                                               *)
LEMMA ChildrenType ==
  ASSUME NEW doc, IsDocument(doc), NEW i \in 1 .. Len(doc)
  PROVE  SchemaChildren(doc, i) \in Seq(i + 1 .. Len(doc))
<1> DEFINE a == Gathered(doc, i, SCHEMA_SINGLE_KEYWORDS, "single")
           b == Gathered(doc, i, SCHEMA_ARRAY_KEYWORDS, "array")
           c == Gathered(doc, i, SCHEMA_MAP_KEYWORDS, "object")
           T == i + 1 .. Len(doc)
<1>1. SchemaChildren(doc, i) = a \o b \o c
  BY DEF SchemaChildren, Gathered
<1>2. /\ Len(SCHEMA_SINGLE_KEYWORDS) \in Nat /\ Len(SCHEMA_ARRAY_KEYWORDS) \in Nat
      /\ Len(SCHEMA_MAP_KEYWORDS) \in Nat
  BY DEF SCHEMA_SINGLE_KEYWORDS, SCHEMA_ARRAY_KEYWORDS, SCHEMA_MAP_KEYWORDS
<1>3. a \in Seq(T) /\ b \in Seq(T) /\ c \in Seq(T)
  BY <1>2, GatheredType
<1> HIDE DEF a, b, c, T
<1>4. a \o b \o c \in Seq(T)
  BY <1>3
<1> QED BY <1>1, <1>4 DEF T

(* What is found at a node depends on what is found after it.              *)
FoundAt(doc, name) == CHOOSE find : find = [i \in DOMAIN doc |-> Finding(doc, name, i, find)]

(* As above.                                                               *)
LEMMA FindingFacts ==
  ASSUME NEW doc, IsDocument(doc), NEW name, NEW i \in 1 .. Len(doc)
  PROVE  /\ \A g, h : (\A y \in i + 1 .. Len(doc) : g[y] = h[y])
                        => Finding(doc, name, i, g) = Finding(doc, name, i, h)
         /\ \A g : \/ Finding(doc, name, i, g) \in {0, i}
                   \/ \E y \in i + 1 .. Len(doc) : Finding(doc, name, i, g) = g[y]
<1> DEFINE list == SchemaChildren(doc, i)
           at(g) == {k \in 1 .. Len(list) : g[list[k]] # 0}
<1>1. list \in Seq(i + 1 .. Len(doc)) /\ Len(list) \in Nat
  BY ChildrenType
<1>2. \A k \in 1 .. Len(list) : list[k] \in i + 1 .. Len(doc)
  BY <1>1
<1>3. ASSUME NEW g
      PROVE  Finding(doc, name, i, g)
               = IF doc[i].kind # "object" THEN 0
                 ELSE IF IsAnchor(doc, i, name) THEN i
                 ELSE IF at(g) = {} THEN 0 ELSE g[list[Min(at(g))]]
  <2>1. at(g) # {} => Min(at(g)) \in at(g)
    <3> DEFINE S == at(g)
    <3>1. S \in SUBSET Nat
      OBVIOUS
    <3> HIDE DEF S
    <3>2. S # {} => Min(S) \in S
      BY <3>1, MinFacts
    <3> QED BY <3>2 DEF S
  <2>2. at(g) # {} => Min(at(g)) # 0
    BY <2>1
  <2>3. SelectInSeq(list, LAMBDA child : g[child] # 0) = IF at(g) # {} THEN Min(at(g)) ELSE 0
    BY DEF SelectInSeq
  <2> DEFINE k == SelectInSeq(list, LAMBDA child : g[child] # 0)
  <2>4. Finding(doc, name, i, g)
          = IF doc[i].kind # "object" THEN 0
            ELSE IF IsAnchor(doc, i, name) THEN i
            ELSE IF k = 0 THEN 0 ELSE g[list[k]]
    BY DEF Finding
  <2>5. at(g) = {} => k = 0
    BY <2>3
  <2>6. at(g) # {} => k = Min(at(g)) /\ k # 0
    BY <2>2, <2>3
  <2> HIDE DEF k, at, list
  <2> QED BY <2>4, <2>5, <2>6
<1>4. ASSUME NEW g, at(g) # {} PROVE list[Min(at(g))] \in i + 1 .. Len(doc)
  <2> DEFINE S == at(g)
  <2>1. S \in SUBSET Nat /\ S \subseteq 1 .. Len(list)
    OBVIOUS
  <2> HIDE DEF S
  <2>2. S # {} => Min(S) \in 1 .. Len(list)
    BY <2>1, MinFacts
  <2> QED BY <1>2, <1>4, <2>2 DEF S
<1>5. ASSUME NEW g, NEW h, \A y \in i + 1 .. Len(doc) : g[y] = h[y]
      PROVE  Finding(doc, name, i, g) = Finding(doc, name, i, h)
  <2>1. at(g) = at(h)
    BY <1>2, <1>5
  <2>2. at(g) # {} => g[list[Min(at(g))]] = h[list[Min(at(g))]]
    BY <1>4, <1>5
  <2> HIDE DEF at, list
  <2> QED BY <1>3, <2>1, <2>2
<1>6. ASSUME NEW g
      PROVE  \/ Finding(doc, name, i, g) \in {0, i}
             \/ \E y \in i + 1 .. Len(doc) : Finding(doc, name, i, g) = g[y]
  <2> HIDE DEF at, list
  <2> QED BY <1>3, <1>4
<1> QED BY <1>5, <1>6

(* It gives each node what it finds there.                                 *)
LEMMA FoundSteps ==
  ASSUME NEW doc, IsDocument(doc), NEW name
  PROVE  /\ find_anchor_in_value(doc, name) = FoundAt(doc, name)[1]
         /\ \A x \in 1 .. Len(doc) :
              FoundAt(doc, name)[x] = Finding(doc, name, x, FoundAt(doc, name))
<1> DEFINE n == Len(doc)
           of == [name |-> "found", doc |-> doc, list |-> name]
           g == FoundAt(doc, name)
<1>1. n \in Nat /\ DOMAIN doc = 1 .. n
  BY DocumentFacts
<1>2. find_anchor_in_value(doc, name) = g[1]
  BY DEF find_anchor_in_value, FoundAt, Finding
<1>3. \A x, f : Recurring(of, x, f) = Finding(doc, name, x, f)
  BY DEF Recurring
<1>4. ASSUME NEW x \in 1 .. n, NEW e, NEW h, \A y \in x + 1 .. n : e[y] = h[y]
      PROVE  Finding(doc, name, x, e) = Finding(doc, name, x, h)
  BY <1>4, FindingFacts
<1> HIDE DEF of, n
<1>5. ReadsAfter(of, n)
  BY <1>3, <1>4 DEF ReadsAfter
<1>6. Defined(of, 1 .. n)
  BY <1>1, <1>5, NodeRecursion
<1>7. \E f : f = [x \in 1 .. n |-> Finding(doc, name, x, f)]
  BY <1>3, <1>6 DEF Defined
<1>8. g = [x \in 1 .. n |-> Finding(doc, name, x, g)]
  BY <1>1, <1>7 DEF FoundAt
<1> HIDE DEF g
<1>9. \A x \in 1 .. n : g[x] = Finding(doc, name, x, g)
  BY <1>8
<1> QED BY <1>2, <1>9 DEF g, n

(* An anchor is found at a node, or nowhere.                               *)
LEMMA AnchorFacts ==
  ASSUME NEW doc, IsDocument(doc), NEW name
  PROVE  find_anchor_in_value(doc, name) \in {0} \cup 1 .. Len(doc)
<1> DEFINE n == Len(doc)
           g == FoundAt(doc, name)
           S == {x \in 1 .. n : g[x] \in {0} \cup 1 .. n}
<1>1. n \in Nat /\ 1 \in 1 .. n
  BY DocumentFacts
<1>2. ASSUME NEW x \in 1 .. n, (x + 1 .. n) \subseteq S PROVE x \in S
  <2>1. g[x] = Finding(doc, name, x, g)
    BY FoundSteps
  <2>2. g[x] \in {0, x} \/ \E y \in x + 1 .. n : g[x] = g[y]
    BY <2>1, FindingFacts
  <2> HIDE DEF g
  <2> QED BY <1>2, <2>2
<1>3. S \in SUBSET (1 .. n)
  OBVIOUS
<1> HIDE DEF S
<1>4. S = 1 .. n
  BY <1>1, <1>2, <1>3, NodeInduction
<1>5. g[1] \in {0} \cup 1 .. n
  BY <1>1, <1>4 DEF S
<1> QED BY <1>5, FoundSteps

(* A fragment leads to a node of the document, or nowhere.                 *)
LEMMA PlaceFacts ==
  ASSUME NEW doc, IsDocument(doc), NEW T, NEW fragment \in Seq(T)
  PROVE  apply(doc, fragment) \in {0} \cup 1 .. Len(doc)
<1>1. CASE fragment = <<>>
  <2>1. ~IsPrefix(<<"/">>, <<>>)
    BY DEF IsPrefix
  <2>2. apply(doc, fragment) = 1
    BY <1>1, <2>1 DEF apply
  <2>3. 1 \in 1 .. Len(doc)
    BY DocumentFacts
  <2> QED BY <2>2, <2>3
<1>2. CASE fragment # <<>> /\ IsPrefix(<<"/">>, fragment)
  <2> DEFINE segs == Segments(fragment)
             U == Seq(T)
  <2>1. segs \in Seq(U) /\ segs # <<>>
    BY SegmentsType
  <2> HIDE DEF segs, U
  <2>2. Tail(segs) \in Seq(U)
    BY <2>1
  <2>3. apply(doc, fragment) = pointer(doc, Tail(segs))
    BY <1>2 DEF apply, segs
  <2> QED BY <2>2, <2>3, PointerFacts
<1>3. CASE fragment # <<>> /\ ~IsPrefix(<<"/">>, fragment)
  <2>1. apply(doc, fragment) = find_anchor_in_value(doc, fragment)
    BY <1>3 DEF apply
  <2> QED BY <2>1, AnchorFacts
<1> QED BY <1>1, <1>2, <1>3

-----------------------------------------------------------------------------
(* Only an object has schemas inside it or an anchor.                      *)
LEMMA ObjectFacts ==
  ASSUME NEW doc, IsDocument(doc), NEW i \in 1 .. Len(doc), doc[i].kind # "object", NEW name
  PROVE  SchemaChildren(doc, i) = <<>> /\ ~IsAnchor(doc, i, name)
<1>1. \A key : Member(doc, i, key) = <<>>
  BY DEF Member
<1>2. ~IsAnchor(doc, i, name)
  BY <1>1 DEF IsAnchor
<1>3. ASSUME NEW keywords, Len(keywords) \in Nat, NEW form
      PROVE  Gathered(doc, i, keywords, form) = <<>>
  <2> DEFINE n == Len(keywords)
             list == [k \in 1 .. n |-> <<>>]
  <2>1. Gathered(doc, i, keywords, form) = FlattenSeq(list)
    BY <1>1 DEF Gathered
  <2>2. <<>> \in Seq({})
    OBVIOUS
  <2>3. list = [k \in 1 .. n |-> list[k]] /\ \A k \in 1 .. n : list[k] \in Seq({})
    BY <2>2
  <2> HIDE DEF list
  <2>4. list \in Seq(Seq({}))
    BY <1>3, <2>3, SequenceFacts
  <2>5. FlattenSeq(list) \in Seq({})
    BY <2>4, FlattenType
  <2>6. \A s \in Seq({}) : s = <<>>
    OBVIOUS
  <2> QED BY <2>1, <2>5, <2>6
<1>4. /\ Len(SCHEMA_SINGLE_KEYWORDS) \in Nat /\ Len(SCHEMA_ARRAY_KEYWORDS) \in Nat
      /\ Len(SCHEMA_MAP_KEYWORDS) \in Nat
  BY DEF SCHEMA_SINGLE_KEYWORDS, SCHEMA_ARRAY_KEYWORDS, SCHEMA_MAP_KEYWORDS
<1>5. SchemaChildren(doc, i)
        = Gathered(doc, i, SCHEMA_SINGLE_KEYWORDS, "single")
            \o Gathered(doc, i, SCHEMA_ARRAY_KEYWORDS, "array")
            \o Gathered(doc, i, SCHEMA_MAP_KEYWORDS, "object")
  BY DEF SchemaChildren, Gathered
<1>6. <<>> \o <<>> \o <<>> = <<>>
  OBVIOUS
<1> QED BY <1>2, <1>3, <1>4, <1>5, <1>6

(* Nothing is found at a node only if it has not the anchor and nothing is *)
(* found inside; what is found is the node, or is found inside.            *)
LEMMA FindingInside ==
  ASSUME NEW doc, IsDocument(doc), NEW name, NEW i \in 1 .. Len(doc), NEW g
  PROVE  LET within == ToSet(SchemaChildren(doc, i))
             found  == Finding(doc, name, i, g)
         IN /\ within \subseteq i + 1 .. Len(doc)
            /\ found = 0 => ~IsAnchor(doc, i, name) /\ \A c \in within : g[c] = 0
            /\ \/ found = 0
               \/ found = i /\ IsAnchor(doc, i, name)
               \/ \E c \in within : found = g[c]
<1> DEFINE list == SchemaChildren(doc, i)
           within == ToSet(list)
           found == Finding(doc, name, i, g)
           at == {k \in 1 .. Len(list) : g[list[k]] # 0}
<1>1. list \in Seq(i + 1 .. Len(doc)) /\ Len(list) \in Nat /\ DOMAIN list = 1 .. Len(list)
  BY ChildrenType
<1>2. within = {list[k] : k \in 1 .. Len(list)}
  BY <1>1 DEF ToSet
<1>3. within \subseteq i + 1 .. Len(doc)
  BY <1>1, <1>2
<1>4. at # {} => Min(at) \in at
  <2>1. at \in SUBSET Nat
    OBVIOUS
  <2> HIDE DEF at
  <2> QED BY <2>1, MinFacts
<1> DEFINE k == SelectInSeq(list, LAMBDA child : g[child] # 0)
<1>5. k = IF at # {} THEN Min(at) ELSE 0
  BY DEF SelectInSeq
<1>6. found = IF doc[i].kind # "object" THEN 0
              ELSE IF IsAnchor(doc, i, name) THEN i
              ELSE IF k = 0 THEN 0 ELSE g[list[k]]
  BY DEF Finding
<1>7. at = {} => k = 0 /\ \A c \in within : g[c] = 0
  BY <1>2, <1>5
<1>8. at # {} => k # 0 /\ list[k] \in within /\ g[list[k]] # 0
  <2>1. \A m \in at : m # 0 /\ m \in 1 .. Len(list) /\ g[list[m]] # 0
    OBVIOUS
  <2>2. \A m \in 1 .. Len(list) : list[m] \in within
    BY <1>2
  <2> HIDE DEF at, k, list, within
  <2>3. at # {} => k \in at
    BY <1>4, <1>5
  <2> QED BY <2>1, <2>2, <2>3
<1>9. doc[i].kind # "object" => within = {} /\ ~IsAnchor(doc, i, name)
  <2>1. ToSet(<<>>) = {}
    BY DEF ToSet
  <2> QED BY <2>1, ObjectFacts
<1>10. i # 0
  OBVIOUS
<1> HIDE DEF list, within, found, at, k
<1>11. found = 0 => ~IsAnchor(doc, i, name) /\ \A c \in within : g[c] = 0
  BY <1>6, <1>7, <1>8, <1>9, <1>10
<1>12. found = 0 \/ (found = i /\ IsAnchor(doc, i, name)) \/ \E c \in within : found = g[c]
  BY <1>6, <1>7, <1>8
<1> QED BY <1>3, <1>11, <1>12 DEF within, found, list

(* The positions of a document, round by round.                            *)
PositionsUpTo(doc) ==
  CHOOSE upto : upto = [n \in 0 .. Len(doc) |->
                          IF n = 0 THEN {1} ELSE upto[n - 1] \cup SchemasIn(doc, upto[n - 1])]

(* As above.                                                               *)
LEMMA PositionSteps ==
  ASSUME NEW doc, IsDocument(doc)
  PROVE  LET n == Len(doc)
             R == PositionsUpTo(doc)
         IN /\ Positions(doc) = R[n] /\ R[0] = {1}
            /\ \A k \in 1 .. n : R[k] = R[k - 1] \cup SchemasIn(doc, R[k - 1])
<1> DEFINE n == Len(doc)
           of == [name |-> "positions", doc |-> doc]
           R == PositionsUpTo(doc)
<1>0. n \in Nat
  BY DocumentFacts
<1>1. \A x, h : Recurring(of, x, h) = (IF x = 0 THEN {1} ELSE h[x - 1] \cup SchemasIn(doc, h[x - 1]))
  BY DEF Recurring
<1>2. Positions(doc) = R[n]
  BY DEF Positions, PositionsUpTo
<1> HIDE DEF of
<1>3. \E h : h = [x \in 0 .. n |-> IF x = 0 THEN {1} ELSE h[x - 1] \cup SchemasIn(doc, h[x - 1])]
  <2> HIDE DEF n
  <2>1. ReadsBefore(of, 0, n)
    BY <1>1 DEF ReadsBefore
  <2>2. Defined(of, 0 .. n)
    BY <1>0, <2>1, ListRecursion
  <2>3. PICK h : h = [x \in 0 .. n |-> Recurring(of, x, h)]
    BY <2>2 DEF Defined
  <2>4. \A x \in 0 .. n :
          Recurring(of, x, h) = (IF x = 0 THEN {1} ELSE h[x - 1] \cup SchemasIn(doc, h[x - 1]))
    BY <1>1
  <2>5. h = [x \in 0 .. n |-> IF x = 0 THEN {1} ELSE h[x - 1] \cup SchemasIn(doc, h[x - 1])]
    BY <2>3, <2>4
  <2> QED BY <2>5
<1>4. R = [x \in 0 .. n |-> IF x = 0 THEN {1} ELSE R[x - 1] \cup SchemasIn(doc, R[x - 1])]
  BY <1>3 DEF PositionsUpTo
<1> HIDE DEF R, n
<1>5. R[0] = {1} /\ \A k \in 1 .. n : R[k] = R[k - 1] \cup SchemasIn(doc, R[k - 1])
  <2>1. 0 \in 0 .. n /\ \A k \in 1 .. n : k \in 0 .. n /\ k # 0
    BY <1>0
  <2>2. \A x \in 0 .. n : R[x] = IF x = 0 THEN {1} ELSE R[x - 1] \cup SchemasIn(doc, R[x - 1])
    BY <1>4
  <2> QED BY <2>1, <2>2
<1> QED BY <1>2, <1>5 DEF R, n

(* Each round keeps the earlier ones, and has nodes of the document.       *)
LEMMA RoundFacts ==
  ASSUME NEW doc, IsDocument(doc), NEW k \in 0 .. Len(doc)
  PROVE  LET R == PositionsUpTo(doc)
         IN R[k] \subseteq 1 .. Len(doc) /\ R[k] \subseteq R[Len(doc)]
<1> DEFINE n == Len(doc)
           R == PositionsUpTo(doc)
           U == {j \in Nat : j =< n => R[j] \subseteq 1 .. n}
           M == {j \in Nat : j =< n => R[n - j] \subseteq R[n]}
<1>1. n \in Nat /\ 1 \in 1 .. n
  BY DocumentFacts
<1>2. R[0] = {1} /\ \A j \in 1 .. n : R[j] = R[j - 1] \cup SchemasIn(doc, R[j - 1])
  BY PositionSteps
<1> HIDE DEF R
<1>3. ASSUME NEW S \in SUBSET (1 .. n) PROVE SchemasIn(doc, S) \subseteq 1 .. n
  <2>1. ASSUME NEW i \in S PROVE ToSet(SchemaChildren(doc, i)) \subseteq 1 .. n
    <3>1. i \in 1 .. n /\ (i + 1 .. n) \subseteq 1 .. n
      BY <1>1
    <3>2. ToSet(SchemaChildren(doc, i)) \subseteq i + 1 .. n
      BY <3>1, FindingInside
    <3> QED BY <3>1, <3>2
  <2> QED BY <2>1 DEF SchemasIn
<1> HIDE DEF n
<1>4. 0 \in U
  BY <1>1, <1>2
<1>5. ASSUME NEW j \in U PROVE j + 1 \in U
  <2> SUFFICES ASSUME j + 1 =< n PROVE R[j + 1] \subseteq 1 .. n
    OBVIOUS
  <2>1. j =< n /\ j + 1 \in 1 .. n /\ (j + 1) - 1 = j
    BY <1>1
  <2>2. R[j] \subseteq 1 .. n
    BY <2>1
  <2>3. R[j + 1] = R[j] \cup SchemasIn(doc, R[j])
    BY <1>2, <2>1
  <2> QED BY <1>3, <2>2, <2>3
<1>6. 0 \in M
  BY <1>1
<1>7. ASSUME NEW j \in M PROVE j + 1 \in M
  <2> SUFFICES ASSUME j + 1 =< n PROVE R[n - (j + 1)] \subseteq R[n]
    OBVIOUS
  <2>1. j =< n /\ n - j \in 1 .. n /\ (n - j) - 1 = n - (j + 1)
    BY <1>1
  <2>2. R[n - j] \subseteq R[n]
    BY <2>1
  <2>3. R[n - j] = R[n - (j + 1)] \cup SchemasIn(doc, R[n - (j + 1)])
    BY <1>2, <2>1
  <2> QED BY <2>2, <2>3
<1>8. U \in SUBSET Nat /\ M \in SUBSET Nat
  OBVIOUS
<1>9. k \in Nat /\ k =< n /\ n - k \in Nat /\ n - k =< n /\ n - (n - k) = k
  BY <1>1 DEF n
<1>10. k \in U /\ n - k \in M
  <2> HIDE DEF U, M
  <2>1. U = Nat
    BY <1>4, <1>5, <1>8, SetInduction
  <2>2. M = Nat
    BY <1>6, <1>7, <1>8, SetInduction
  <2> QED BY <1>9, <2>1, <2>2
<1>11. R[k] \subseteq 1 .. n
  BY <1>9, <1>10
<1>12. R[n - (n - k)] \subseteq R[n]
  BY <1>9, <1>10
<1>13. R[k] \subseteq R[n]
  BY <1>9, <1>12
<1> QED BY <1>11, <1>13 DEF R, n

(* Nothing is found at the root only if nothing is found at any position.  *)
LEMMA NothingFound ==
  ASSUME NEW doc, IsDocument(doc), NEW name, FoundAt(doc, name)[1] = 0, NEW x \in Positions(doc)
  PROVE  ~IsAnchor(doc, x, name)
<1> DEFINE n == Len(doc)
           R == PositionsUpTo(doc)
           g == FoundAt(doc, name)
           T == {k \in Nat : k =< n => \A y \in R[k] : g[y] = 0}
<1>1. n \in Nat /\ n \in 0 .. n
  BY DocumentFacts
<1>2. Positions(doc) = R[n] /\ R[0] = {1} /\ \A j \in 1 .. n : R[j] = R[j - 1] \cup SchemasIn(doc, R[j - 1])
  BY PositionSteps
<1>3. \A k \in 0 .. n : R[k] \subseteq 1 .. n
  BY RoundFacts
<1>4. \A y \in 1 .. n : g[y] = Finding(doc, name, y, g)
  BY FoundSteps
<1>5. g[1] = 0
  OBVIOUS
<1> HIDE DEF R, g
<1>6. ASSUME NEW y \in 1 .. n, g[y] = 0
      PROVE  ~IsAnchor(doc, y, name) /\ \A c \in ToSet(SchemaChildren(doc, y)) : g[c] = 0
  <2>1. Finding(doc, name, y, g) = 0
    BY <1>4, <1>6
  <2> QED BY <2>1, FindingInside
<1> HIDE DEF n
<1>7. 0 \in T
  BY <1>2, <1>5
<1>8. ASSUME NEW k \in T PROVE k + 1 \in T
  <2> SUFFICES ASSUME k + 1 =< n, NEW y \in R[k + 1] PROVE g[y] = 0
    OBVIOUS
  <2>1. k =< n /\ k \in 0 .. n /\ k + 1 \in 1 .. n /\ (k + 1) - 1 = k
    BY <1>1
  <2>2. \A z \in R[k] : g[z] = 0 /\ z \in 1 .. n
    BY <1>3, <2>1
  <2>3. y \in R[k] \cup SchemasIn(doc, R[k])
    BY <1>2, <2>1
  <2>4. ASSUME y \in SchemasIn(doc, R[k]) PROVE g[y] = 0
    <3>1. PICK z \in R[k] : y \in ToSet(SchemaChildren(doc, z))
      BY <2>4 DEF SchemasIn
    <3> QED BY <1>6, <2>2, <3>1
  <2> QED BY <2>2, <2>3, <2>4
<1>9. T \in SUBSET Nat
  OBVIOUS
<1>10. n \in T
  <2> HIDE DEF T
  <2> QED BY <1>1, <1>7, <1>8, <1>9, SetInduction
<1>11. x \in R[n] /\ x \in 1 .. n /\ n =< n
  BY <1>1, <1>2, <1>3
<1>12. g[x] = 0
  BY <1>10, <1>11
<1> QED BY <1>6, <1>11, <1>12

(* What is found at the root is a position with the anchor.                *)
LEMMA SomethingFound ==
  ASSUME NEW doc, IsDocument(doc), NEW name, FoundAt(doc, name)[1] # 0
  PROVE  LET found == FoundAt(doc, name)[1]
         IN found \in Positions(doc) /\ IsAnchor(doc, found, name)
<1> DEFINE n == Len(doc)
           R == PositionsUpTo(doc)
           g == FoundAt(doc, name)
           Right(i) == i = 0 \/ (i \in R[n] /\ IsAnchor(doc, i, name))
           S == {x \in 1 .. n : \A r \in 0 .. x - 1 : x \in R[r] => Right(g[x])}
<1>1. n \in Nat /\ 1 \in 1 .. n
  BY DocumentFacts
<1>2. Positions(doc) = R[n] /\ R[0] = {1} /\ \A j \in 1 .. n : R[j] = R[j - 1] \cup SchemasIn(doc, R[j - 1])
  BY PositionSteps
<1>3. \A k \in 0 .. n : R[k] \subseteq R[n]
  BY RoundFacts
<1>4. \A y \in 1 .. n : g[y] = Finding(doc, name, y, g)
  BY FoundSteps
<1> HIDE DEF R, g
<1>5. \A y \in 1 .. n :
         LET within == ToSet(SchemaChildren(doc, y))
         IN /\ within \subseteq y + 1 .. n
            /\ Right(g[y]) \/ (g[y] = y /\ IsAnchor(doc, y, name)) \/ \E c \in within : g[y] = g[c]
  <2> TAKE y \in 1 .. n
  <2> DEFINE within == ToSet(SchemaChildren(doc, y))
             found == Finding(doc, name, y, g)
  <2>1. g[y] = found
    BY <1>4
  <2>2. /\ within \subseteq y + 1 .. n
        /\ found = 0 \/ (found = y /\ IsAnchor(doc, y, name)) \/ \E c \in within : found = g[c]
    <3>1. within \subseteq y + 1 .. n
      BY FindingInside
    <3>2. found = 0 \/ (found = y /\ IsAnchor(doc, y, name)) \/ \E c \in within : found = g[c]
      <4> HIDE DEF Right, S
      <4> QED BY FindingInside
    <3> QED BY <3>1, <3>2
  <2> HIDE DEF g, within, found
  <2>3. Right(g[y]) \/ (g[y] = y /\ IsAnchor(doc, y, name)) \/ \E c \in within : g[y] = g[c]
    BY <2>1, <2>2
  <2> QED BY <2>2, <2>3 DEF within
<1>6. ASSUME NEW x \in 1 .. n, (x + 1 .. n) \subseteq S PROVE x \in S
  <2> SUFFICES ASSUME NEW r \in 0 .. x - 1, x \in R[r] PROVE Right(g[x])
    OBVIOUS
  <2>1. r \in 0 .. n /\ r + 1 \in 1 .. n /\ (r + 1) - 1 = r
    BY <1>1
  <2>2. x \in R[n]
    BY <1>3, <2>1
  <2>3. CASE g[x] = x /\ IsAnchor(doc, x, name)
    BY <2>2, <2>3
  <2>4. ASSUME NEW c \in ToSet(SchemaChildren(doc, x)), g[x] = g[c] PROVE Right(g[x])
    <3>1. c \in x + 1 .. n
      BY <1>5
    <3>2. c \in 1 .. n /\ r + 1 \in 0 .. c - 1
      BY <1>1, <3>1
    <3>3. c \in SchemasIn(doc, R[r])
      BY DEF SchemasIn
    <3>4. c \in R[r + 1]
      BY <1>2, <2>1, <3>3
    <3>5. c \in S
      BY <1>6, <3>1
    <3>6. Right(g[c])
      BY <3>2, <3>4, <3>5
    <3> QED BY <2>4, <3>6
  <2> QED BY <1>5, <2>3, <2>4
<1>7. S \in SUBSET (1 .. n)
  OBVIOUS
<1> HIDE DEF S
<1>8. S = 1 .. n
  BY <1>1, <1>6, <1>7, NodeInduction
<1>9. 1 \in S
  BY <1>1, <1>8
<1>10. 0 \in 0 .. 1 - 1 /\ 1 \in R[0]
  BY <1>2
<1>11. Right(g[1])
  BY <1>9, <1>10 DEF S
<1>12. g[1] # 0
  BY DEF g
<1> QED BY <1>2, <1>11, <1>12 DEF g

(* A fragment leads to a place that it names, or it names none.            *)
LEMMA NamedExact ==
  ASSUME NEW doc, IsDocument(doc), NEW T, NEW fragment \in Seq(T)
  PROVE  LET i == apply(doc, fragment)
         IN IF i = 0 THEN Named(doc, fragment) = {} ELSE i \in Named(doc, fragment)
<1>1. CASE fragment = <<>>
  <2>1. ~IsPrefix(<<"/">>, <<>>)
    BY DEF IsPrefix
  <2>2. apply(doc, fragment) = 1 /\ Named(doc, fragment) = {1}
    BY <1>1, <2>1 DEF apply, Named
  <2> QED BY <2>2
<1>2. CASE fragment # <<>> /\ IsPrefix(<<"/">>, fragment)
  <2> DEFINE i == pointer(doc, Tail(Segments(fragment)))
  <2>1. apply(doc, fragment) = i /\ Named(doc, fragment) = {i} \ {0}
    BY <1>2 DEF apply, Named
  <2> HIDE DEF i
  <2> QED BY <2>1
<1>3. CASE fragment # <<>> /\ ~IsPrefix(<<"/">>, fragment)
  <2> DEFINE i == FoundAt(doc, fragment)[1]
  <2>1. apply(doc, fragment) = i
    BY <1>3, FoundSteps DEF apply
  <2>2. Named(doc, fragment) = {x \in Positions(doc) : IsAnchor(doc, x, fragment)}
    BY <1>3 DEF Named
  <2>3. i = 0 => \A x \in Positions(doc) : ~IsAnchor(doc, x, fragment)
    BY NothingFound
  <2>4. i # 0 => i \in Positions(doc) /\ IsAnchor(doc, i, fragment)
    BY SomethingFound
  <2> HIDE DEF i
  <2> QED BY <2>1, <2>2, <2>3, <2>4
<1> QED BY <1>1, <1>2, <1>3

-----------------------------------------------------------------------------
(* What was asked, of which the answer is still what it would be.          *)
AnswerGiven ==
  "base" \in DOMAIN answer =>
    /\ answer.base \in Bases /\ answer.reference \in References
    /\ answer.result = Passed(resolve(answer.base, answer.reference))

(* What is placed in a document is a node of it, one that the fragment     *)
(* names; what is not placed has no such node.                             *)
LEMMA PlacedIn ==
  ASSUME NEW doc, IsDocument(doc), NEW T, NEW fragment \in Seq(T)
  PROVE  LET r == ApplyFragment(doc, fragment)
         IN IF r.error = "none"
            THEN /\ r.doc = doc /\ r.node \in 1 .. Len(doc)
                 /\ r.node \in Named(doc, fragment)
            ELSE Named(doc, fragment) = {}
<1> DEFINE i == apply(doc, fragment)
<1>1. i \in {0} \cup 1 .. Len(doc)
  BY PlaceFacts
<1>2. ApplyFragment(doc, fragment)
        = IF i = 0 THEN Fail("NotFound") ELSE [error |-> "none", doc |-> doc, node |-> i]
  BY DEF ApplyFragment, Placed
<1>3. Fail("NotFound").error # "none"
  BY DEF Fail
<1>4. IF i = 0 THEN Named(doc, fragment) = {} ELSE i \in Named(doc, fragment)
  BY NamedExact
<1> HIDE DEF i
<1> QED BY <1>1, <1>2, <1>3, <1>4

(* The fragment that is asked for is a sequence of tokens.                 *)
LEMMA FragmentType ==
  ASSUME NEW base \in Bases, NEW reference \in References
  PROVE  Fragment(resolve_uri(base, reference)) \in Seq(STRING \cup {"/"})
<1> DEFINE T == STRING \cup {"/"}
           resolved == resolve_uri(base, reference)
<1>1. base \in Seq(STRING) /\ reference \in Seq(STRING) /\ STRING \subseteq T /\ "/" \in T
  BY ResolversAssumption
<1> HIDE DEF T
<1>2. base \in Seq(T) /\ reference \in Seq(T)
  BY <1>1, SequenceFacts
<1>3. resolved \in Seq(T)
  BY <1>1, <1>2, ResolvedType
<1> HIDE DEF resolved
<1>4. 1 \in Nat \ {0}
  OBVIOUS
<1>5. Fragment(resolved) \in Seq(T)
  BY <1>3, <1>4, PartFacts DEF Fragment
<1> QED BY <1>5 DEF resolved, T

(* What is registered is a document.                                       *)
LEMMA RegisteredType ==
  ASSUME ResolverTypes, LatestWins, NEW key \in DOMAIN schemas
  PROVE  IsDocument(schemas[key])
<1>1. PICK j \in Latest(key) : schemas[key] = log[j].doc
  BY DEF LatestWins
<1>2. j \in DOMAIN log /\ log \in Seq(Registrations)
  BY DEF Latest, ResolverTypes
<1>3. log[j] \in Registrations
  BY <1>2
<1>4. log[j].doc \in Docs
  BY <1>3 DEF Registrations
<1> QED BY <1>1, <1>4, ResolversAssumption

(* So is what is answered.                                                 *)
LEMMA AnsweredIn ==
  ASSUME ResolverTypes, LatestWins, NEW base \in Bases, NEW reference \in References,
         resolve(base, reference).error = "none"
  PROVE  LET r == resolve(base, reference)
         IN /\ IsDocument(r.doc) /\ r.node \in 1 .. Len(r.doc)
            /\ r.node \in Named(r.doc, Fragment(resolve_uri(base, reference)))
<1> DEFINE T == STRING \cup {"/"}
           resolved == resolve_uri(base, reference)
           fragment == Fragment(resolved)
           uri == strip_fragment(resolved)
           key == Key(uri)
           loaded == load_from_path(uri)
           r == resolve(base, reference)
<1>1. fragment \in Seq(T)
  BY FragmentType
<1> HIDE DEF T
<1>2. \A doc \in Docs \cup ({Disk[p] : p \in DOMAIN Disk} \ {NotJson}) : IsDocument(doc)
  BY ResolversAssumption
<1>3. ASSUME key \in DOMAIN schemas PROVE IsDocument(schemas[key])
  <2> HIDE DEF key
  <2> QED BY <1>3, RegisteredType
<1>4. ASSUME loaded.error = "none" PROVE IsDocument(loaded.doc) /\ loaded.node \in 1 .. Len(loaded.doc)
  <2> DEFINE p == FilePath(uri)
  <2>1. loaded = LoadFrom(p)
    BY DEF load_from_path
  <2> HIDE DEF loaded, p
  <2>2. \A e \in {"NotFound", "PathEscaped", "IoError", "ParseError"} : Fail(e).error # "none"
    BY DEF Fail
  <2>3. ~(resolver = "unrooted") /\ IsPrefix(BaseDir, p) /\ p \in DOMAIN Disk
    BY <1>4, <2>1, <2>2 DEF LoadFrom
  <2>4. loaded = IF Disk[p] = NotJson THEN Fail("ParseError")
                 ELSE [error |-> "none", doc |-> Disk[p], node |-> 1]
    BY <2>1, <2>3 DEF LoadFrom
  <2>5. Disk[p] # NotJson
    BY <1>4, <2>2, <2>4
  <2>6. IsDocument(Disk[p])
    BY <1>2, <2>3, <2>5
  <2>7. 1 \in 1 .. Len(Disk[p])
    BY <2>6, DocumentFacts
  <2> QED BY <2>4, <2>5, <2>6, <2>7
<1>5. r = ResolveAt(uri, fragment)
  BY DEF resolve
<1>6. ASSUME NEW doc, IsDocument(doc), r = ApplyFragment(doc, fragment)
      PROVE  IsDocument(r.doc) /\ r.node \in 1 .. Len(r.doc) /\ r.node \in Named(r.doc, fragment)
  <2>1. ApplyFragment(doc, fragment).error = "none"
    BY <1>6
  <2> HIDE DEF r, fragment
  <2> QED BY <1>1, <1>6, <2>1, PlacedIn
<1>7. r.error = "none"
  OBVIOUS
<1>8. Fail("NetworkDenied").error # "none" /\ Fail("NotFound").error # "none"
  BY DEF Fail
<1> HIDE DEF r, uri, fragment, key, loaded
<1>9. resolver # "network"
  BY <1>5, <1>7, <1>8 DEF ResolveAt
<1>10. ASSUME resolver = "offline"
      PROVE  IsDocument(r.doc) /\ r.node \in 1 .. Len(r.doc) /\ r.node \in Named(r.doc, fragment)
  <2>1. r = IF key \in DOMAIN schemas THEN ApplyFragment(schemas[key], fragment) ELSE Fail("NotFound")
    BY <1>5, <1>10 DEF ResolveAt, resolve_offline, key
  <2>2. key \in DOMAIN schemas
    BY <1>7, <1>8, <2>1
  <2> QED BY <1>3, <1>6, <2>1, <2>2
<1>11. ASSUME resolver # "offline"
      PROVE  IsDocument(r.doc) /\ r.node \in 1 .. Len(r.doc) /\ r.node \in Named(r.doc, fragment)
  <2>1. r = resolve_file(loaded, key, fragment)
    BY <1>5, <1>9, <1>11 DEF ResolveAt, key, loaded
  <2>2. CASE key \in DOMAIN schemas
    <3>1. r = ApplyFragment(schemas[key], fragment)
      BY <2>1, <2>2 DEF resolve_file
    <3> QED BY <1>3, <1>6, <2>2, <3>1
  <2>3. CASE key \notin DOMAIN schemas
    <3>1. r = IF loaded.error # "none" THEN loaded ELSE ApplyFragment(loaded.doc, fragment)
      BY <2>1, <2>3 DEF resolve_file
    <3>2. loaded.error = "none" /\ r = ApplyFragment(loaded.doc, fragment)
      BY <1>7, <3>1
    <3> QED BY <1>4, <1>6, <3>2
  <2> QED BY <2>2, <2>3
<1>12. IsDocument(r.doc) /\ r.node \in 1 .. Len(r.doc) /\ r.node \in Named(r.doc, fragment)
  BY <1>10, <1>11
<1> QED BY <1>12 DEF r, fragment

(* What is answered stays the answer.                                      *)
LEMMA AnswerGivenHolds == ResolverSpec => []AnswerGiven
<1>1. ResolverInit => AnswerGiven
  <2> SUFFICES ASSUME ResolverInit PROVE AnswerGiven OBVIOUS
  <2>1. DOMAIN answer = {"error"} BY DEF ResolverInit, NoAnswer
  <2> QED BY <2>1 DEF AnswerGiven
<1>2. AnswerGiven /\ [ResolverNext]_resolver_vars => AnswerGiven'
  <2> SUFFICES ASSUME AnswerGiven, [ResolverNext]_resolver_vars PROVE AnswerGiven' OBVIOUS
  <2>1. ASSUME NEW e, answer' = Fail(e) \/ answer' = NoAnswer PROVE AnswerGiven'
    <3>1. DOMAIN answer' = {"error"} BY <2>1 DEF Fail, NoAnswer
    <3> QED BY <3>1 DEF AnswerGiven
  <2>2. ASSUME NEW uri \in Uris, NEW doc \in Docs, Register(uri, doc) PROVE AnswerGiven'
    BY <2>1, <2>2 DEF Register
  <2>3. ASSUME NEW uri \in Uris, NEW json \in Docs \cup {NotJson}, RegisterJson(uri, json)
        PROVE  AnswerGiven'
    BY <2>1, <2>3 DEF RegisterJson, Register
  <2>4. CASE Wrap
    BY <2>1, <2>4 DEF Wrap
  <2>5. ASSUME NEW base \in Bases, NEW reference \in References, Resolve(base, reference)
        PROVE  AnswerGiven'
    <3>1. /\ answer' = [base |-> base, reference |-> reference,
                        result |-> Passed(resolve(base, reference))]
          /\ UNCHANGED <<resolver, limited, schemas, log>>
      BY <2>5 DEF Resolve
    <3>2. Passed(resolve(base, reference))' = Passed(resolve(base, reference))
      BY <3>1 DEF Passed, Limit, resolve, ResolveAt, resolve_offline, resolve_file, load_from_path, LoadFrom
    <3>3. /\ answer'.base = base /\ answer'.reference = reference
          /\ answer'.result = Passed(resolve(base, reference))
      BY <3>1
    <3> QED BY <3>2, <3>3 DEF AnswerGiven
  <2>6. CASE UNCHANGED resolver_vars
    <3>1. UNCHANGED <<resolver, limited, schemas, log, answer>> BY <2>6 DEF resolver_vars
    <3> QED BY <3>1 DEF AnswerGiven, Passed, Limit, resolve, ResolveAt, resolve_offline,
                        resolve_file, load_from_path, LoadFrom
  <2> QED BY <2>2, <2>3, <2>4, <2>5, <2>6 DEF ResolverNext
<1> QED BY <1>1, <1>2, PTL DEF ResolverSpec

(* What is too large or too deep is refused, and nothing else: the bytes   *)
(* of the compact JSON and the longest way down are compared, for values   *)
(* of every size and depth.                                                *)
THEOREM LimitsHold == ResolverSpec => []LimitsExact
<1>1. ResolverInv /\ AnswerGiven => LimitsExact
  <2> SUFFICES ASSUME ResolverInv, AnswerGiven, limited, "base" \in DOMAIN answer
               PROVE  LET inner == resolve(answer.base, answer.reference)
                      IN inner.error = "none" =>
                           Within(answer.result.error, Estimate(Serialized(inner.doc, inner.node)),
                                  Nesting(inner.doc, inner.node))
    BY DEF LimitsExact
  <2> DEFINE inner == resolve(answer.base, answer.reference)
             measured == json_size_and_depth(inner.doc, inner.node)
             size == Estimate(Serialized(inner.doc, inner.node))
             depth == Nesting(inner.doc, inner.node)
  <2> SUFFICES ASSUME inner.error = "none" PROVE Within(answer.result.error, size, depth)
    OBVIOUS
  <2>1. answer.base \in Bases /\ answer.reference \in References /\ answer.result = Limit(inner)
    BY DEF AnswerGiven, Passed
  <2>2. IsDocument(inner.doc) /\ inner.node \in 1 .. Len(inner.doc)
    BY <2>1, AnsweredIn DEF ResolverInv
  <2> HIDE DEF inner
  <2>3. measured.size = size /\ size \in Int /\ measured.depth = depth /\ depth \in Int
    BY <2>2, MeasuresExact
  <2>4. MaxJsonBytes \in Int /\ MaxDepth \in Int
    BY ResolversAssumption
  <2>5. /\ Fail("SizeExceeded").error = "SizeExceeded"
        /\ Fail("DepthExceeded").error = "DepthExceeded"
    BY DEF Fail
  <2>6. answer.result = IF measured.size > MaxJsonBytes THEN Fail("SizeExceeded")
                        ELSE IF measured.depth > MaxDepth THEN Fail("DepthExceeded") ELSE inner
    BY <2>1 DEF Limit
  <2> HIDE DEF measured, size, depth
  <2>7. CASE size > MaxJsonBytes
    BY <2>3, <2>4, <2>5, <2>6, <2>7 DEF Within
  <2>8. CASE ~(size > MaxJsonBytes) /\ depth > MaxDepth
    BY <2>3, <2>4, <2>5, <2>6, <2>8 DEF Within
  <2>9. CASE ~(size > MaxJsonBytes) /\ ~(depth > MaxDepth)
    BY <2>3, <2>4, <2>6, <2>9 DEF Within
  <2> QED BY <2>7, <2>8, <2>9
<1> QED BY <1>1, ResolverInvHolds, AnswerGivenHolds, PTL

(* A fragment leads to a place that it names, and fails in a registered    *)
(* document only when it names none there, for documents of every size and *)
(* depth.                                                                  *)
THEOREM PlacesHold == ResolverSpec => []PlacesExact
<1>1. ResolverInv /\ AnswerGiven => PlacesExact
  <2> SUFFICES ASSUME ResolverInv, AnswerGiven, ~limited, "base" \in DOMAIN answer
               PROVE  LET resolved == resolve_uri(answer.base, answer.reference)
                          fragment == Fragment(resolved)
                          key == Key(strip_fragment(resolved))
                      IN IF answer.result.error = "none"
                         THEN answer.result.node \in Named(answer.result.doc, fragment)
                         ELSE key \in DOMAIN schemas /\ resolver # "network"
                                => Named(schemas[key], fragment) = {}
    BY DEF PlacesExact
  <2> DEFINE resolved == resolve_uri(answer.base, answer.reference)
             fragment == Fragment(resolved)
             uri == strip_fragment(resolved)
             key == Key(uri)
             r == resolve(answer.base, answer.reference)
             T == STRING \cup {"/"}
  <2>1. answer.base \in Bases /\ answer.reference \in References /\ answer.result = r
    BY DEF AnswerGiven, Passed
  <2>2. ResolverTypes /\ LatestWins
    BY DEF ResolverInv
  <2>3. CASE r.error = "none"
    BY <2>1, <2>2, <2>3, AnsweredIn
  <2>4. CASE r.error # "none" /\ key \in DOMAIN schemas /\ resolver # "network"
    <3>1. r = ResolveAt(uri, fragment)
      BY DEF resolve
    <3>2. IsDocument(schemas[key])
      <4> HIDE DEF key
      <4> QED BY <2>2, <2>4, RegisteredType
    <3>3. fragment \in Seq(T)
      BY <2>1, FragmentType
    <3> HIDE DEF r, uri, fragment, T
    <3>4. r = ApplyFragment(schemas[key], fragment)
      BY <2>4, <3>1 DEF ResolveAt, resolve_offline, resolve_file
    <3> HIDE DEF key
    <3>5. Named(schemas[key], fragment) = {}
      BY <2>4, <3>2, <3>3, <3>4, PlacedIn
    <3> QED BY <2>1, <2>4, <3>5 DEF r, key, uri, fragment
  <2> QED BY <2>1, <2>3, <2>4
<1> QED BY <1>1, ResolverInvHolds, AnswerGivenHolds, PTL
=============================================================================
