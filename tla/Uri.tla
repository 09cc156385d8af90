-------------------------------- MODULE Uri --------------------------------
(***************************************************************************)
(* crates/schemaforge-resolver/src/uri.rs.  A URI is a sequence of tokens: *)
(* a scheme with its "://", "/", "?", "#", ".", ".." and words.  A dot     *)
(* token is a dot segment when it stands alone between slashes, and a URI  *)
(* has one scheme at most.  The build for Windows is not modelled.         *)
(***************************************************************************)
EXTENDS Naturals, FiniteSetsExt, SequencesExt

Scheme == {"file://", "https://"}

(* The first place from which on a token of S stands; past the end if none.*)
Find(uri, S, from) ==
  LET at == {i \in from .. Len(uri) : uri[i] \in S}
  IN IF at = {} THEN Len(uri) + 1 ELSE Min(at)

Before(uri, i) == SubSeq(uri, 1, i - 1)
From(uri, i) == SubSeq(uri, i, Len(uri))

Segmented(segs, t) ==
  IF t = "/" THEN Append(segs, <<>>) ELSE [segs EXCEPT ![Len(segs)] = Append(@, t)]

Segments(path) ==
  LET segs[n \in 0 .. Len(path)] == IF n = 0 THEN << <<>> >> ELSE Segmented(segs[n - 1], path[n])
  IN segs[Len(path)]

Join(segs) ==
  IF segs = <<>> THEN <<>>
  ELSE Tail(FlattenSeq([i \in 1 .. Len(segs) |-> <<"/">> \o segs[i]]))

(* A `..' takes the segment before it away, but no empty one.              *)
Pop(stack) == IF stack # <<>> /\ Last(stack) # <<>> THEN Front(stack) ELSE stack

Rooted(path, stack) ==
  LET joined == Join(stack)
  IN IF joined = <<>> /\ IsPrefix(<<"/">>, path) THEN <<"/">> ELSE joined

Stacked(stack, segment, drop) ==
  CASE segment = <<"..">> -> Pop(stack)
    [] segment = <<".">> \/ drop -> stack
    [] OTHER -> Append(stack, segment)

(* What is left of the segments; Drop are the numbers of those that go.    *)
Kept(segs, Drop) ==
  LET stack[n \in 0 .. Len(segs)] ==
        IF n = 0 THEN <<>> ELSE Stacked(stack[n - 1], segs[n], n \in Drop)
  IN stack[Len(segs)]

(* Numbers of empty segments.                                              *)
Empty(segs) == {i \in 1 .. Len(segs) : segs[i] = <<>>}

(* Mutant of remove_dot_segments: `//' is replaced by `/' in one pass.     *)
collapse_pairs(path) ==
  LET segs == Segments(path)
  IN Rooted(path, Kept(segs, {i \in Empty(segs) \ {1} : segs[i - 1] # <<>>}))

(* Empty segments go, except the one before a leading slash.               *)
remove_dot_segments(path) ==
  LET segs == Segments(path) IN Rooted(path, Kept(segs, Empty(segs) \ {1}))

remove_dot_segments_rfc3986(path) == Rooted(path, Kept(Segments(path), {}))

(* Where the path begins that follows a scheme and an authority.           *)
PathStart(uri) == Find(uri, {"/"}, Find(uri, Scheme, 1) + 1)

(* A URI without a path stays as it is.                                    *)
NormalizedBetween(uri, start, query) ==
  LET path == SubSeq(uri, start, query - 1)
  IN Before(uri, start)
       \o (IF IsPrefix(<<"file://">>, uri) THEN remove_dot_segments(path)
           ELSE remove_dot_segments_rfc3986(path))
       \o From(uri, query)

normalize_path_in_uri(uri) ==
  LET start == PathStart(uri)
  IN NormalizedBetween(uri, start, Find(uri, {"?", "#"}, start))

normalize_uri(uri) ==
  normalize_path_in_uri(IF IsSuffix(<<"#">>, uri) THEN Front(uri) ELSE uri)

strip_fragment(uri) == Before(uri, Find(uri, {"#"}, 1))

(* split_uri_fragment's second half.                                       *)
Fragment(uri) == From(uri, Find(uri, {"#"}, 1) + 1)

is_absolute_uri(uri) == Find(uri, Scheme, 1) <= Len(uri) \/ IsPrefix(<<"urn:">>, uri)

(* The last slash is searched in the whole text.                           *)
base_directory(uri) ==
  SubSeq(uri, 1, Max({0} \cup {i \in 1 .. Len(uri) : uri[i] \in Scheme \cup {"/"}}))

(* What stands before the path, for a reference with a leading slash.      *)
Origin(base) == Before(base, IF \E i \in 1 .. Len(base) : base[i] \in Scheme
                             THEN PathStart(base) ELSE Find(base, {"/"}, 1))

(* Mutant of resolve_uri: the base's last segment stays.                   *)
resolve_below(base, reference) ==
  IF is_absolute_uri(reference) THEN normalize_path_in_uri(reference)
  ELSE IF IsPrefix(<<"#">>, reference) THEN strip_fragment(base) \o reference
  ELSE normalize_path_in_uri(strip_fragment(base) \o <<"/">> \o reference)

resolve_uri(base, reference) ==
  IF ~is_absolute_uri(reference) /\ IsPrefix(<<"#">>, reference)
  THEN strip_fragment(base) \o reference
  ELSE normalize_path_in_uri(
         (CASE is_absolute_uri(reference) -> <<>>
            [] ~is_absolute_uri(reference) /\ IsPrefix(<<"/">>, reference) -> Origin(base)
            [] OTHER -> base_directory(base))
           \o reference)
=============================================================================
