------------------------------ MODULE Rfc3986 ------------------------------
(***************************************************************************)
(* The reference for Uri: components of a URI, how RFC 3986, section 5.2,  *)
(* resolves a reference, and which URIs are the same.  The path of a file  *)
(* URI is read as the file system reads it.                                *)
(***************************************************************************)
EXTENDS Uri

HasScheme(uri) == uri # <<>> /\ uri[1] \in Scheme

(* The parts of a URI whose query and fragment begin at these places.      *)
Parts(uri, quest, hash) ==
  LET path == IF HasScheme(uri) THEN Find(Before(uri, quest), {"/"}, 2) ELSE 1
  IN [origin |-> Before(uri, path), path |-> SubSeq(uri, path, quest - 1),
      query |-> SubSeq(uri, quest, hash - 1), fragment |-> From(uri, hash)]

Parse(uri) ==
  LET hash == Find(uri, {"#"}, 1) IN Parts(uri, Find(Before(uri, hash), {"?"}, 1), hash)

(* Where a walk of the file system gets to along these segments.           *)
Walked(segs) ==
  FoldLeft(LAMBDA at, seg : IF seg \in {<<>>, <<".">>} THEN at
                            ELSE IF seg # <<"..">> THEN Append(at, seg)
                            ELSE IF at = <<>> THEN at ELSE Front(at),
           <<>>, segs)

(* Section 5.2.4, on the segments after the leading slash.                 *)
DotsRemoved(segs) ==
  LET step(out, i) ==
        LET up == IF segs[i] = <<"..">> /\ out # <<>> THEN Front(out) ELSE out
        IN IF segs[i] \notin {<<".">>, <<"..">>} THEN Append(up, segs[i])
           ELSE IF i = Len(segs) THEN Append(up, <<>>) ELSE up
  IN FoldLeft(step, <<>>, [i \in 1 .. Len(segs) |-> i])

(* Sections 5.2.2 and 5.2.3, before dots are removed, for a reference      *)
(* without a scheme; both are given by their components.                   *)
Merge(b, r) ==
  LET directory == Before(b.path, Len(b.path) + 1 - Len(Last(Segments(b.path))))
      path == IF r.path = <<>> THEN b.path
              ELSE IF r.path[1] = "/" THEN r.path
              ELSE IF b.path = <<>> THEN <<"/">> \o r.path ELSE directory \o r.path
      query == IF r.path = <<>> /\ r.query = <<>> THEN b.query ELSE r.query
  IN b.origin \o path \o query \o r.fragment

Target(base, reference) ==
  IF HasScheme(reference) THEN reference ELSE Merge(Parse(base), Parse(reference))

(* Two URIs are the same, fragments apart, when these are.                 *)
Identifying(u) ==
  LET segs == IF u.path = <<>> THEN <<>> ELSE Tail(Segments(u.path))
  IN [origin |-> u.origin, query |-> u.query,
      path |-> IF IsPrefix(<<"file://">>, u.origin) THEN Walked(segs) ELSE DotsRemoved(segs)]

Identity(uri) == Identifying(Parse(uri))

(* What the simplified algorithm is meant for: an absolute base with a     *)
(* path, no slash after it; a reference with a path or only a fragment;    *)
(* and, outside file URIs, no `..' among empty segments and no dot segment *)
(* at the end.                                                             *)
PlainBase(b) == b.origin # <<>> /\ b.path # <<>> /\ "/" \notin ToSet(b.query \o b.fragment)

PlainReference(r) ==
  /\ r.path # <<>> \/ (r.query = <<>> /\ r.fragment # <<>>)
  /\ ~IsPrefix(<<"/", "/">>, r.path)
  /\ Scheme \cap ToSet(r.path \o r.query \o r.fragment) = {}

PlainTarget(t) ==
  LET segs == Segments(t.path)
  IN \/ IsPrefix(<<"file://">>, t.origin)
     \/ /\ Last(segs) \notin {<<".">>, <<"..">>}
        /\ <<"..">> \in ToSet(segs) => \A i \in 2 .. Len(segs) - 1 : segs[i] # <<>>

Plain(base, reference) ==
  /\ IF HasScheme(reference) THEN Parse(reference).path # <<>>
     ELSE PlainBase(Parse(base)) /\ PlainReference(Parse(reference))
  /\ PlainTarget(Parse(Target(base, reference)))
=============================================================================
