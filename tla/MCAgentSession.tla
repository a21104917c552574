--------------------------- MODULE MCAgentSession ---------------------------
(***************************************************************************)
(* The callers of AgentSession in the model-checking runs.                 *)
(***************************************************************************)
EXTENDS AgentSession

(* One prompt, and a second call of any kind.                              *)
Inputs == {"p1", "p2"}
InputKinds == [p \in Inputs |-> IF p = "p1" THEN {"plain"} ELSE Kinds]
=============================================================================
