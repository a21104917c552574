--------------------------- MODULE ReplicatedState ---------------------------
(***************************************************************************)
(* What Chord's replicated state promises the reader of a replica: one     *)
(* writer owns the value, and a replica either shows nothing or shows the  *)
(* value the writer has now.  It never shows a value that was never        *)
(* written, misses a version without being cleared, or outlives its        *)
(* source.  ReplicatedService is shown to implement this specification.    *)
(***************************************************************************)
EXTENDS Naturals

CONSTANT Keys  \* the instances of the service; a singleton has one

VARIABLES
    source,  \* for each key the value of its live instance, or Cold
    shown    \* for each key what the consumer's replica shows, or Cold

vars == <<source, shown>>

(* A value is the sequence number of a state of one implementation.        *)
Cold == [life |-> 0, seq |-> 0]

Init == source = [k \in Keys |-> Cold] /\ shown = [k \in Keys |-> Cold]

(* Sets of replicas that may follow: each is brought up to date, cleared,  *)
(* or left as it is when nothing about its source has changed.             *)
Follows(changed) ==
    \A k \in Keys : \/ shown'[k] = source'[k]
                    \/ shown'[k] = Cold
                    \/ k \notin changed /\ shown'[k] = shown[k]

(* An implementation is provided, replaces another one, or is withdrawn.   *)
Provide(k) ==
    /\ source'[k].life > source[k].life
    /\ source' = [source EXCEPT ![k] = [life |-> source'[k].life, seq |-> 0]]
    /\ Follows({k})

Withdraw(K) ==
    /\ source' = [k \in Keys |-> IF k \in K THEN Cold ELSE source[k]]
    /\ Follows(K)

(* The owner commits the next version; a replica that showed the previous  *)
(* one shows it at once and no replica is hydrated by it.                  *)
Change(k) ==
    /\ source[k] # Cold
    /\ source' = [source EXCEPT ![k].seq = @ + 1]
    /\ shown' = [shown EXCEPT ![k] = IF @ = Cold THEN Cold ELSE source'[k]]

(* The consumer subscribes, unsubscribes or is disconnected.               *)
Rebind == source' = source /\ Follows({})

Next == \/ \E k \in Keys : Provide(k) \/ Change(k)
        \/ \E K \in SUBSET Keys : Withdraw(K)
        \/ Rebind

Spec == Init /\ [][Next]_vars
=============================================================================
