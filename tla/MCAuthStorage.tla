--------------------------- MODULE MCAuthStorage ---------------------------
(***************************************************************************)
(* An instance of AuthStorage for TLC: two processes that both need the    *)
(* expiring token of "a"; the first logs in to "b", the second is just     *)
(* being started.  The unit of time is five seconds.                       *)
(***************************************************************************)
EXTENDS AuthStorage

TwoProcs  == {"p1", "p2"}
Calls     == {"r1", "r2", "login", "logout", "start"}
CallProc  == [o \in Calls |-> IF o \in {"r1", "login"} THEN "p1" ELSE "p2"]
CallKind  == [o \in Calls |-> IF o \in {"r1", "r2"} THEN "resolve" ELSE o]
CallProv  == [o \in Calls |-> IF o = "login" THEN "b" ELSE "a"]

(* Refreshes take up to fifteen seconds, those of the process that runs    *)
(* while the other one starts less than ten.                               *)
QuickFirst == [p \in TwoProcs |-> IF p = "p1" THEN 1 ELSE 3]
SlowBoth   == [p \in TwoProcs |-> 3]
=============================================================================
