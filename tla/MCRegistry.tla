----------------------------- MODULE MCRegistry -----------------------------
(***************************************************************************)
(* Registry with two keys and documents of one to three objects that are   *)
(* acceptable or fail each of the three walks, early or late.              *)
(***************************************************************************)
EXTENDS Registry

MCKey == {"", "r", "e"}
MCPattern == {"p", "q", "bad"}
MCCompiles == {"p", "q"}
MCName == {"n", "m"}

(* Two spellings of "r": only one has a fragment mark at the end.          *)
MCnormalize == [id \in Id |-> CASE id \in {"r", "r#"} -> "r" [] id = "e" -> "e" [] id = "#" -> ""]
MCId == {"r", "r#", "e"}

Plain == [unsupported |-> FALSE, patterns |-> <<>>, anchor |-> NoName, ref |-> NoRef]
With(ps) == [Plain EXCEPT !.patterns = ps]
Anchored(o, n) == [o EXCEPT !.anchor = n]
Unsupported == [Plain EXCEPT !.unsupported = TRUE]
Referring(ref) == [Plain EXCEPT !.ref = ref]

HerePosition == [to |-> "here", place |-> [position |-> 2]]
HereAnchor == [to |-> "here", place |-> [anchor |-> "n"]]
ThereRoot == [to |-> "key", key |-> "e", place |-> [position |-> 1]]
ThereAnchor == [to |-> "key", key |-> "e", place |-> [anchor |-> "n"]]
OwnAnchor == [to |-> "key", key |-> "r", place |-> [anchor |-> "m"]]
Nowhere == [to |-> "key", key |-> "e", place |-> [position |-> 9]]
MCRefs == {HerePosition, HereAnchor, ThereRoot, ThereAnchor, OwnAnchor, Nowhere}

D(objects, walked) == [objects |-> objects, walked |-> walked]

MCDocs == {
  D(<<Plain>>, 1),
  D(<<Referring(HerePosition), Anchored(With(<<"p">>), "n")>>, 2),
  D(<<Anchored(Referring(ThereAnchor), "m"), Anchored(With(<<"p", "q">>), "n")>>, 2),
  D(<<Anchored(With(<<"q">>), "n"), Unsupported>>, 1),
  D(<<Plain, Unsupported>>, 2),
  D(<<With(<<"p">>), With(<<"q", "bad", "p">>)>>, 2),
  D(<<Anchored(With(<<"bad">>), "n"), Anchored(Plain, "n")>>, 2),
  D(<<Anchored(With(<<"q">>), "m"), Anchored(Plain, "m"), Plain>>, 2)}
=============================================================================
