----------------------------- MODULE MCFileLoad -----------------------------
(***************************************************************************)
(* FileLoad on two names inside the base directory and one outside, with   *)
(* two files.                                                              *)
(***************************************************************************)
EXTENDS FileLoad, TLC

CONSTANTS i, j

MCPath == {"a", "b", "out"}
MCInside == {"a", "b"}
MCInode == {i, j}
MCByte == {"x", "?"}
MCJson == {<<"x">>, <<"x", "x">>, <<"x", "x", "x">>}
MCContents == {<<"x">>, <<"x", "x", "x", "x">>}

MCRequests ==
  {[walked |-> w, lexical |-> l, base_dir |-> TRUE] : w \in Path, l \in {"a", "out"}}
    \cup {[walked |-> "a", lexical |-> "a", base_dir |-> FALSE]}

To(p) == [to |-> p]

MCWorlds ==
  {[dir |-> [p \in Path |-> d[p]], kind |-> (i :> k @@ j :> "regular"),
    content |-> (i :> c @@ j :> <<"x", "x">>)] :
      d \in {"a" :> i @@ "b" :> Absent @@ "out" :> j,
             "a" :> To("b") @@ "b" :> i @@ "out" :> Absent,
             "a" :> To("out") @@ "b" :> Absent @@ "out" :> i},
      k \in Kind, c \in {<<"x", "x">>, <<"?">>, <<"x", "x", "x">>, <<>>}}
=============================================================================
