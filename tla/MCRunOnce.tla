----------------------------- MODULE MCRunOnce ------------------------------
(***************************************************************************)
(* Values of the constants of RunOnce for TLC: a file in the root and two  *)
(* in a directory below it, and a configuration that is narrowed to that   *)
(* directory from one start to the next.                                   *)
(***************************************************************************)
EXTENDS RunOnce, TLC

MCParent ==
  "r" :> None @@ "d" :> "r" @@ "a" :> "r" @@ "b" :> "d" @@ "c" :> "d"
MCAbove ==
  "r" :> {} @@ "d" :> {"r"} @@ "a" :> {"r"}
  @@ "b" :> {"r", "d"} @@ "c" :> {"r", "d"}
Narrowed == {{"r"}, {"d"}}
OneRoot == {{"r"}}
=============================================================================
