------------------------ MODULE MCFileMutationQueue ------------------------
(***************************************************************************)
(* An instance of FileMutationQueue for TLC: two edits and a write of the  *)
(* file "a", by two of its names, and a write of "b".  "a" is always there *)
(* and also reached through the link "l"; "b" may be missing or deleted.   *)
(***************************************************************************)
EXTENDS FileMutationQueue

Calls  == {"c1", "c2", "c3", "c4"}
Tool   == [o \in Calls |-> IF o \in {"c1", "c3"} THEN "edit" ELSE "write"]
Names  == {"a", "b", "l"}
Link   == [p \in Names |-> IF p = "l" THEN "a" ELSE p]
NameOf == [o \in Calls |-> CASE o = "c1" -> "l" [] o = "c4" -> "b" [] OTHER -> "a"]
=============================================================================
