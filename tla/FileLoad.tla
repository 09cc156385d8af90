------------------------------ MODULE FileLoad ------------------------------
(***************************************************************************)
(* FileResolver's load_from_path (crates/schemaforge-resolver/src/file.rs, *)
(* Unix build): one load, system call by system call, while other          *)
(* processes change the directory tree and the files.                      *)
(*                                                                         *)
(* The loader walks a name several times and the tree may differ each time *)
(* it does, and between the steps of canonicalize's walk.  What it may     *)
(* promise is about the descriptor it ends up with.                        *)
(***************************************************************************)
EXTENDS Naturals, Sequences, FiniteSets

CONSTANTS
  Path,        (* canonical names                                          *)
  Inside,      (* those under the resolver's canonical base directory      *)
  Inode,       (* files                                                    *)
  Absent,      (* no file                                                  *)
  Byte, NotUtf8,
  Json,        (* the texts that parse                                     *)
  Requests,    (* what uri_to_jailed_path is asked for                     *)
  Worlds,      (* the trees the load may start in                          *)
  Contents,    (* what another process may write into a file               *)
  MaxBytes,    (* FileResolver.max_bytes                                   *)
  ProcFd,      (* whether the host has /proc/self/fd                       *)
  MaxChanges   (* bound: changes by other processes                        *)

Kind == {"regular", "fifo", "directory"}

Link == [to : Path]

(* A request is known by where the kernel's walk of the raw path ends up   *)
(* before the last component is followed, and by its lexical normal form.  *)
Request == [walked : Path, lexical : Path, base_dir : BOOLEAN]

World == [dir : [Path -> Inode \cup Link \cup {Absent}], kind : [Inode -> Kind],
          content : [Inode -> Seq(Byte)]]

ASSUME FileLoadAssumption ==
  /\ Inside \subseteq Path
  /\ Absent \notin Inode
  /\ NotUtf8 \in Byte
  /\ Requests \subseteq Request
  /\ Worlds \subseteq World
  /\ Contents \subseteq Seq(Byte)
  /\ MaxBytes \in Nat
  /\ ProcFd \in BOOLEAN
  /\ MaxChanges \in Nat

(* What a load that nobody disturbs rests on: a tree is finite, an entry is *)
(* a file, a link or nothing, a file has one name at most, and JSON is UTF-8. *)
ASSUME TreeAssumption ==
  /\ IsFiniteSet(Path)
  /\ (Inode \cup {Absent}) \cap Link = {}
  /\ \A w \in Worlds : \A p, q \in Path : w.dir[p] = w.dir[q] /\ w.dir[p] \in Inode => p = q
  /\ Json \subseteq Seq(Byte \ {NotUtf8})

VARIABLES
  dir, kind, content,  (* the file system                                  *)
  changes,             (* changes other processes have made                *)
  request,             (* load_from_path's arguments                       *)
  pc,                  (* the loader's next system call                    *)
  path,                (* what uri_to_jailed_path returned                 *)
  reached, links,      (* the name canonicalize has come to, and the links *)
                       (* it has followed to get there                     *)
  fd,                  (* the file behind the open descriptor              *)
  text,                (* what read_to_string has read                     *)
  outcome,             (* "running", "ok" or the ResolveError              *)
  inside,              (* history: since it was opened, the file behind fd *)
                       (* has had a name under the base directory          *)
  renamed              (* history: it lost the name that was read for it   *)
                       (* before that name was walked                      *)

fs == <<dir, kind, content>>
loader == <<request, pc, path, reached, links, fd, text, outcome>>
history == <<inside, renamed>>
vars == <<fs, changes, loader, history>>

Errors == {"NotFound", "PathEscaped", "IoError", "SizeExceeded", "ParseError"}

(* Where following symbolic links from p ends; at a link when they loop.   *)
Canonical(p) ==
  LET walk[n \in 0 .. Cardinality(Path)] ==
        IF n = 0 THEN p
        ELSE IF dir[walk[n - 1]] \in Link THEN dir[walk[n - 1]].to ELSE walk[n - 1]
  IN walk[Cardinality(Path)]

Exists(p) == dir[Canonical(p)] \in Inode

(* ELOOP: more links than there are names.                                 *)
MaxLinks == Cardinality(Path)

HasNameInside(d, i) == \E p \in Inside : d[p] = i

Init ==
  /\ \E w \in Worlds : dir = w.dir /\ kind = w.kind /\ content = w.content
  /\ changes = 0
  /\ request \in Requests
  /\ pc = "exists"
  /\ path = request.lexical
  /\ reached = request.walked
  /\ links = 0
  /\ fd = Absent
  /\ text = <<>>
  /\ outcome = "running"
  /\ inside = FALSE
  /\ renamed = FALSE

Finish(result) ==
  /\ outcome' = result
  /\ pc' = "done"

-----------------------------------------------------------------------------
(***************************************************************************)
(* uri_to_jailed_path.                                                     *)
(***************************************************************************)
NoBaseDir ==
  /\ pc = "exists"
  /\ ~request.base_dir
  /\ Finish("NotFound")
  /\ UNCHANGED <<fs, changes, request, path, reached, links, fd, text, history>>

(* The jail check on the name.                                             *)
EnterJail(normalized) ==
  \/ /\ normalized \in Inside
     /\ path' = normalized
     /\ pc' = "stat"
     /\ UNCHANGED outcome
  \/ /\ normalized \notin Inside
     /\ Finish("PathEscaped")
     /\ UNCHANGED path

RawPathExists ==
  /\ pc = "exists"
  /\ request.base_dir
  /\ IF Exists(request.walked) THEN pc' = "canonicalize" /\ UNCHANGED <<path, outcome>>
     ELSE EnterJail(request.lexical)
  /\ UNCHANGED <<fs, changes, request, reached, links, fd, text, history>>

(***************************************************************************)
(* std::fs::canonicalize, here of the raw path and below of the            *)
(* descriptor: it reads one directory entry at a time, and follows a link. *)
(***************************************************************************)
FollowLink ==
  /\ pc \in {"canonicalize", "walk"}
  /\ dir[reached] \in Link /\ links < MaxLinks
  /\ reached' = dir[reached].to
  /\ links' = links + 1
  /\ UNCHANGED <<fs, changes, request, pc, path, fd, text, outcome, history>>

WalkEnds == dir[reached] \in Link => links = MaxLinks

Canonicalize ==
  /\ pc = "canonicalize"
  /\ WalkEnds
  /\ EnterJail(IF dir[reached] \in Inode THEN reached ELSE request.lexical)
  /\ UNCHANGED <<fs, changes, request, reached, links, fd, text, history>>

-----------------------------------------------------------------------------
(***************************************************************************)
(* load_from_path, from the stat before the open to the parse.             *)
(***************************************************************************)
(* Mutant of PreOpenStat: a symbolic link is not followed.                 *)
PreOpenStatOfLink ==
  /\ pc = "stat"
  /\ IF dir[path] \in Inode /\ kind[dir[path]] = "regular"
     THEN pc' = "open" /\ UNCHANGED outcome
     ELSE Finish("IoError")
  /\ UNCHANGED <<fs, changes, request, path, reached, links, fd, text, history>>

PreOpenStat ==
  /\ pc = "stat"
  /\ IF Exists(path) /\ kind[dir[Canonical(path)]] = "regular"
     THEN pc' = "open" /\ UNCHANGED outcome
     ELSE Finish("IoError")
  /\ UNCHANGED <<fs, changes, request, path, reached, links, fd, text, history>>

Descriptor(file) ==
  /\ fd' = file
  /\ inside' = HasNameInside(dir, file)
  /\ pc' = "proc_fd"
  /\ UNCHANGED outcome

(* Mutants of OpenNonBlocking: the open of a fifo waits for a writer; the  *)
(* descriptor is that of the name itself.                                  *)
OpenBlocking ==
  /\ pc = "open"
  /\ \/ /\ Exists(path) /\ kind[dir[Canonical(path)]] = "fifo"
        /\ UNCHANGED <<pc, outcome, fd, inside>>
     \/ /\ Exists(path) /\ kind[dir[Canonical(path)]] # "fifo"
        /\ Descriptor(dir[Canonical(path)])
     \/ /\ ~Exists(path)
        /\ Finish("IoError")
        /\ UNCHANGED <<fd, inside>>
  /\ UNCHANGED <<fs, changes, request, path, reached, links, text, renamed>>

OpenNotFollowing ==
  /\ pc = "open"
  /\ IF Exists(path) THEN Descriptor(dir[path])
     ELSE Finish("IoError") /\ UNCHANGED <<fd, inside>>
  /\ UNCHANGED <<fs, changes, request, path, reached, links, text, renamed>>

(* With O_NONBLOCK the open returns for a fifo too.                        *)
OpenNonBlocking ==
  /\ pc = "open"
  /\ IF Exists(path) THEN Descriptor(dir[Canonical(path)])
     ELSE Finish("IoError") /\ UNCHANGED <<fd, inside>>
  /\ UNCHANGED <<fs, changes, request, path, reached, links, text, renamed>>

(* Where canonicalize of /proc/self/fd/{fd} goes on after its readlink: at *)
(* the name the descriptor's file has then.  Without /proc, and when the   *)
(* file has no name left, it fails.                                        *)
WalkFrom(names) ==
  \/ /\ ProcFd
     /\ \E p \in names : reached' = p
     /\ links' = 0
     /\ pc' = "walk"
     /\ UNCHANGED outcome
  \/ /\ ~ProcFd \/ names = {}
     /\ Finish("PathEscaped")
     /\ UNCHANGED <<reached, links>>

(* Mutant of ReadDescriptor: the path is walked again, not the descriptor. *)
ReadDescriptorOfPath ==
  /\ pc = "proc_fd"
  /\ WalkFrom({path})
  /\ UNCHANGED <<fs, changes, request, path, fd, text, history>>

ReadDescriptor ==
  /\ pc = "proc_fd"
  /\ WalkFrom({p \in Path : dir[p] = fd})
  /\ UNCHANGED <<fs, changes, request, path, fd, text, history>>

(* Where the walk of that name ends decides; any failure is an escape.     *)
PostOpenCanonical ==
  /\ pc = "walk"
  /\ WalkEnds
  /\ IF dir[reached] \in Inode /\ reached \in Inside
     THEN pc' = "fstat" /\ UNCHANGED outcome
     ELSE Finish("PathEscaped")
  /\ UNCHANGED <<fs, changes, request, path, reached, links, fd, text, history>>

Fstat ==
  /\ pc = "fstat"
  /\ CASE kind[fd] # "regular" -> Finish("IoError")
       [] kind[fd] = "regular" /\ Len(content[fd]) > MaxBytes -> Finish("SizeExceeded")
       [] OTHER -> pc' = "read" /\ UNCHANGED outcome
  /\ UNCHANGED <<fs, changes, request, path, reached, links, fd, text, history>>

(* take(max_bytes + 1).read_to_string: any number of bytes at a time.      *)
Available == Len(content[fd]) > Len(text) /\ Len(text) < MaxBytes + 1

Read ==
  /\ pc = "read"
  /\ Available
  /\ \E n \in Len(text) + 1 .. Len(content[fd]) :
       /\ n <= MaxBytes + 1
       /\ text' = text \o SubSeq(content[fd], Len(text) + 1, n)
  /\ UNCHANGED <<fs, changes, request, pc, path, reached, links, fd, outcome, history>>

(* Mutant of EndOfFile: the size from fstat is trusted.                    *)
EndOfFileUnmeasured ==
  /\ pc = "read"
  /\ ~Available
  /\ Finish(CASE \E i \in 1 .. Len(text) : text[i] = NotUtf8 -> "IoError"
              [] OTHER -> IF text \in Json THEN "ok" ELSE "ParseError")
  /\ UNCHANGED <<fs, changes, request, path, reached, links, fd, text, history>>

EndOfFile ==
  /\ pc = "read"
  /\ ~Available
  /\ Finish(IF \E i \in 1 .. Len(text) : text[i] = NotUtf8 THEN "IoError"
            ELSE IF Len(text) > MaxBytes THEN "SizeExceeded"
            ELSE IF text \in Json THEN "ok" ELSE "ParseError")
  /\ UNCHANGED <<fs, changes, request, path, reached, links, fd, text, history>>

Load ==
  \/ NoBaseDir \/ RawPathExists \/ FollowLink \/ Canonicalize
  \/ PreOpenStat \/ OpenNonBlocking \/ ReadDescriptor \/ PostOpenCanonical
  \/ Fstat \/ Read \/ EndOfFile

-----------------------------------------------------------------------------
(***************************************************************************)
(* Other processes.  A file has one name at most; the file behind fd stays *)
(* what it is, wherever it is moved, and can still be written.             *)
(***************************************************************************)
Change ==
  /\ pc # "done"
  /\ changes < MaxChanges
  /\ changes' = changes + 1
  /\ inside' = (inside \/ (fd \in Inode /\ HasNameInside(dir', fd)))
  /\ renamed' = (renamed \/ (pc = "walk" /\ dir'[reached] # fd))
  /\ UNCHANGED loader

Unlink(p) ==
  /\ dir[p] # Absent
  /\ dir' = [dir EXCEPT ![p] = Absent]
  /\ UNCHANGED <<kind, content>>

Symlink(p, q) ==
  /\ dir' = [dir EXCEPT ![p] = [to |-> q]]
  /\ UNCHANGED <<kind, content>>

Rename(p, q) ==
  /\ p # q /\ dir[p] # Absent
  /\ dir' = [dir EXCEPT ![p] = Absent, ![q] = dir[p]]
  /\ UNCHANGED <<kind, content>>

Create(p, i, k, c) ==
  /\ i # fd /\ \A q \in Path : dir[q] # i
  /\ dir' = [dir EXCEPT ![p] = i]
  /\ kind' = [kind EXCEPT ![i] = k]
  /\ content' = [content EXCEPT ![i] = c]

Write(i, c) ==
  /\ kind[i] = "regular"
  /\ content' = [content EXCEPT ![i] = c]
  /\ UNCHANGED <<dir, kind>>

Environment ==
  /\ \/ \E p \in Path : Unlink(p)
     \/ \E p, q \in Path : Symlink(p, q)
     \/ \E p, q \in Path : Rename(p, q)
     \/ \E p \in Path, i \in Inode, k \in Kind, c \in Contents : Create(p, i, k, c)
     \/ \E i \in Inode, c \in Contents : Write(i, c)
  /\ Change

Done == pc = "done" /\ UNCHANGED vars

Next == Load \/ Environment \/ Done

(* The loading thread is scheduled; nothing is assumed of the others.      *)
Spec == Init /\ [][Next]_vars /\ WF_vars(Load)
-----------------------------------------------------------------------------
(* Types of the file system and of the loader's locals.                    *)
TypeOK ==
  /\ dir \in [Path -> Inode \cup Link \cup {Absent}]
  /\ kind \in [Inode -> Kind]
  /\ content \in [Inode -> Seq(Byte)]
  /\ changes \in 0 .. MaxChanges
  /\ request \in Request
  /\ pc \in {"exists", "canonicalize", "stat", "open", "proc_fd", "walk", "fstat",
            "read", "done"}
  /\ path \in Path /\ reached \in Path
  /\ links \in 0 .. MaxLinks
  /\ fd \in Inode \cup {Absent}
  /\ text \in Seq(Byte)
  /\ outcome \in {"running", "ok"} \cup Errors
  /\ inside \in BOOLEAN /\ renamed \in BOOLEAN

(* The jail, against a tree that changes between any two system calls: not *)
(* a byte is read but from a regular file that, while it was open, had a   *)
(* name under the base directory.  The one exception is a file that is     *)
(* renamed after the descriptor's name was read and before it was walked;  *)
(* the comment at file.rs:128-131 does not mention it.                     *)
OnlyJailedBytes ==
  text # <<>> => fd \in Inode /\ kind[fd] = "regular" /\ (inside \/ renamed)

(* The size limit, although the file may grow after fstat: no more than    *)
(* one byte over it is ever buffered, and none over it is accepted.        *)
SizeBounded ==
  /\ Len(text) <= MaxBytes + 1
  /\ outcome = "ok" => Len(text) <= MaxBytes

(* A load that nobody disturbed accepts exactly the parseable regular      *)
(* files within the limit to which a name in the jail leads without        *)
(* leaving it, and reads all of them.                                      *)
QuietLoadExact ==
  LET asked == IF Exists(request.walked) THEN request.walked ELSE request.lexical
      file == dir[Canonical(asked)]
      acceptable ==
        /\ request.base_dir /\ ProcFd
        /\ Exists(request.walked) \/ request.lexical \in Inside
        /\ Canonical(asked) \in Inside /\ file \in Inode
        /\ kind[file] = "regular"
        /\ Len(content[file]) <= MaxBytes /\ content[file] \in Json
  IN pc = "done" /\ changes = 0 =>
       /\ outcome = "ok" <=> acceptable
       /\ outcome = "ok" => text = content[file]

(* The load ends whatever the others do: no open waits for a fifo's        *)
(* writer, and no file grows faster than it is read.                       *)
Termination == <>(pc = "done")
=============================================================================
