----------------------------- MODULE KeyedMutex -----------------------------
(***************************************************************************)
(* What withFileMutationQueue promises: operations that share a key enter  *)
(* one at a time and in the order in which they arrived; operations with   *)
(* different keys do not wait for each other.                              *)
(***************************************************************************)
CONSTANTS
    Ops,    \* the operations
    Keys,   \* the keys that serialize them
    NoKey   \* the key of an operation that has not arrived

VARIABLES
    phase,  \* where each operation is
    key,    \* its key
    ahead   \* the operations with its key that arrived earlier and are not out

vars == <<phase, key, ahead>>

Present(k) == {p \in Ops : phase[p] \in {"queued", "inside"} /\ key[p] = k}

Arrive(o, k) ==
    /\ phase[o] = "idle"
    /\ phase' = [phase EXCEPT ![o] = "queued"]
    /\ key' = [key EXCEPT ![o] = k]
    /\ ahead' = [ahead EXCEPT ![o] = Present(k)]

Enter(o) ==
    /\ phase[o] = "queued" /\ ahead[o] = {}
    /\ phase' = [phase EXCEPT ![o] = "inside"]
    /\ UNCHANGED <<key, ahead>>

(* An operation may be over as soon as it is let in.                       *)
Pass(o) ==
    /\ phase[o] = "queued" /\ ahead[o] = {}
    /\ phase' = [phase EXCEPT ![o] = "out"]
    /\ ahead' = [p \in Ops |-> ahead[p] \ {o}]
    /\ UNCHANGED key

Leave(o) ==
    /\ phase[o] = "inside"
    /\ phase' = [phase EXCEPT ![o] = "out"]
    /\ ahead' = [p \in Ops |-> ahead[p] \ {o}]
    /\ UNCHANGED key

Init ==
    /\ phase = [o \in Ops |-> "idle"]
    /\ key = [o \in Ops |-> NoKey]
    /\ ahead = [o \in Ops |-> {}]

Next == \E o \in Ops : (\E k \in Keys : Arrive(o, k)) \/ Enter(o) \/ Pass(o) \/ Leave(o)

Safety == Init /\ [][Next]_vars

(* Nobody stays inside or is kept out for ever.                            *)
Fairness == \A o \in Ops : WF_vars(Enter(o) \/ Pass(o)) /\ WF_vars(Leave(o))

Spec == Safety /\ Fairness
=============================================================================
