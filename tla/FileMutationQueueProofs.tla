----------------------- MODULE FileMutationQueueProofs -----------------------
(***************************************************************************)
(* Proofs for FileMutationQueue, for any calls, paths and links.  The      *)
(* queue is a chain of promises, each call awaiting only the call that was *)
(* the last one of its key when it registered, and the entry of a key is   *)
(* deleted by its last call.  Mutual exclusion needs the whole chain:      *)
(* QueueInv says what a call that got its turn knows about all calls that  *)
(* registered before it.                                                   *)
(***************************************************************************)
EXTENDS FileMutationQueue, TLAPS

Active(o)     == pc[o] \in Inside \cup {"waiting"}
Registered(o) == Active(o) \/ pc[o] = "done"

(* A step that leaves the queue and the calls that are in it alone.        *)
Quiet ==
    /\ UNCHANGED <<key, prev, tail, before>>
    /\ \A o \in Ops : /\ pc'[o] \in Inside <=> pc[o] \in Inside
                      /\ pc'[o] = "waiting" <=> pc[o] = "waiting"
                      /\ pc'[o] = "done" <=> pc[o] = "done"

Admitted(o) == pc[o] \in Inside \/ (pc[o] = "waiting" /\ Released(o))

EnterStep(o) ==
    /\ pc[o] = "waiting" /\ Released(o) /\ pc' = [pc EXCEPT ![o] = "check"]
    /\ UNCHANGED queue

EndStep(o) == Admitted(o) /\ End(o)

-----------------------------------------------------------------------------
LEMMA InitType == Init => TypeOK
<1> SUFFICES ASSUME Init PROVE TypeOK
  OBVIOUS
<1>1. /\ pc \in [Ops -> {"new", "registering", "waiting"} \cup Inside \cup Ended]
      /\ found \in Paths \cup {None} /\ key \in [Ops -> Paths \cup {None}]
      /\ prev \in [Ops -> Ops \cup {None}] /\ tail \in [Paths -> Ops \cup {None}]
      /\ aborted \in BOOLEAN /\ exists \subseteq Files
  BY DEF Init
<1>2. regs \in Seq(Ops)
  BY DEF Init
<1>3. /\ content \in [Files -> SUBSET Ops] /\ applied \in [Files -> SUBSET Ops]
      /\ buffer \in [Ops -> SUBSET Ops] /\ before \in [Ops -> SUBSET Ops]
  BY DEF Init
<1> QED
  BY <1>1, <1>2, <1>3 DEF TypeOK

LEMMA FileOfType == \A o \in Ops : PathOf[o] \in Paths /\ FileOf(o) \in Files /\ FileOf(o) \in Paths
  BY QueueAssumption DEF FileOf, Files

LEMMA StepType ==
  ASSUME TypeOK, [Next]_vars
  PROVE  TypeOK'
<1> USE DEF TypeOK
<1>1. CASE UNCHANGED vars
  BY <1>1 DEF vars
<1>2. CASE Abort
  BY <1>2 DEF Abort, queue, disk
<1>3. ASSUME NEW f \in Files, Delete(f) PROVE TypeOK'
  BY <1>3 DEF Delete, queue
<1>4. ASSUME NEW o \in Ops, Call(o) PROVE TypeOK'
  BY <1>4 DEF Call, disk
<1>5. ASSUME NEW o \in Ops, Lookup(o) PROVE TypeOK'
  <2>1. KeyNow(PathOf[o]) \in Paths
    BY FileOfType DEF KeyNow, FileOf
  <2> QED
    BY <1>5, <2>1 DEF Lookup, disk
<1>6. ASSUME NEW o \in Ops, Refuse(o) PROVE TypeOK'
  BY <1>6 DEF Refuse, disk, Ended
<1>7. ASSUME NEW o \in Ops, Register(o) PROVE TypeOK'
  <2>1. Present(found) \in SUBSET Ops
    BY DEF Present
  <2>2. before' \in [Ops -> SUBSET Ops]
    BY <1>7, <2>1 DEF Register
  <2>3. found \in Paths
    BY <1>7 DEF Register
  <2> QED
    BY <1>7, <2>2, <2>3 DEF Register, disk
<1>e. ASSUME NEW o \in Ops, End(o)
      PROVE  /\ pc' \in [Ops -> {"new", "registering", "waiting"} \cup Inside \cup Ended]
             /\ tail' \in [Paths -> Ops \cup {None}]
             /\ UNCHANGED <<regs, found, key, prev, before>>
  BY <1>e DEF End, Ended
<1>p. ASSUME NEW o \in Ops, NEW l \in Inside, Proceed(o, l)
      PROVE  /\ pc' \in [Ops -> {"new", "registering", "waiting"} \cup Inside \cup Ended]
             /\ tail' \in [Paths -> Ops \cup {None}]
             /\ UNCHANGED <<regs, found, key, prev, before>>
  BY <1>p, <1>e DEF Proceed, queue
<1>8. ASSUME NEW o \in Ops, Begin(o) PROVE TypeOK'
  BY <1>8, <1>p DEF Begin, disk, Inside
<1>9. ASSUME NEW o \in Ops, Check(o) PROVE TypeOK'
  BY <1>9, <1>e, <1>p DEF Check, disk, Inside
<1>10. ASSUME NEW o \in Ops, Read(o) PROVE TypeOK'
  BY <1>10, <1>e, <1>p, FileOfType DEF Read, disk, Inside
<1>11. ASSUME NEW o \in Ops, Truncate(o) PROVE TypeOK'
  BY <1>11, FileOfType DEF Truncate, queue, Inside
<1>12. ASSUME NEW o \in Ops, FinishWrite(o) PROVE TypeOK'
  <2>1. /\ content' \in [Files -> SUBSET Ops] /\ applied' \in [Files -> SUBSET Ops]
    BY <1>12, FileOfType DEF FinishWrite
  <2> QED
    BY <1>12, <1>e, <2>1 DEF FinishWrite
<1>13. ASSUME NEW o \in Ops, Throw(o) PROVE TypeOK'
  BY <1>13, <1>e, FileOfType DEF Throw
<1> QED
  BY <1>1, <1>2, <1>3, <1>4, <1>5, <1>6, <1>7, <1>8, <1>9, <1>10, <1>11, <1>12, <1>13
     DEF Next, Progress

(* Every variable keeps its type, whatever calls are made on whatever      *)
(* paths.                                                                  *)
THEOREM TypeCorrect == Spec => []TypeOK
  BY InitType, StepType, PTL DEF Spec

-----------------------------------------------------------------------------
(* What holds of the chain.  A call that has registered has a key; the     *)
(* calls it registered behind have the same one; the entry of a key is its *)
(* last call, behind which all others of the key are; a call that got its  *)
(* turn, or waits for nobody, has only finished calls before it; the call  *)
(* that a call waits for stands for all before it; of two calls with one   *)
(* key one is behind the other or finished.                                *)
Keyed   == \A o \in Ops : Registered(o) => key[o] \in Paths
Behind  == \A o, p \in Ops : p \in before[o] => /\ Registered(o) /\ Registered(p)
                                               /\ key[p] = key[o]
Last    == \A k \in Paths, p \in Ops :
              /\ tail[k] = p => Active(p) /\ key[p] = k
              /\ Active(p) /\ key[p] = k => /\ tail[k] # None
                                            /\ p = tail[k] \/ p \in before[tail[k]]
Turn    == \A o, p \in Ops :
              /\ p \in before[o]
              /\ pc[o] \in Inside \cup {"done"} \/ (Registered(o) /\ prev[o] = None)
              => pc[p] = "done"
Chain   == \A o, p, q \in Ops :
              Registered(o) /\ prev[o] = q =>
                 /\ Registered(q)
                 /\ p \in before[o] => p = q \/ p \in before[q] \/ pc[p] = "done"
Ordered == \A o, p \in Ops :
              Registered(o) /\ Registered(p) /\ key[o] = key[p] =>
                 \/ o = p \/ o \in before[p] \/ p \in before[o]
                 \/ pc[o] = "done" \/ pc[p] = "done"
QueueInv == Keyed /\ Behind /\ Last /\ Turn /\ Chain /\ Ordered

LEMMA InitQueue == Init => QueueInv
  BY QueueAssumption DEF Init, QueueInv, Keyed, Behind, Last, Turn, Chain, Ordered, Registered, Active, Inside

(* Every step is one of four as far as the queue is concerned.             *)
LEMMA QueueStep ==
  ASSUME TypeOK, [Next]_vars
  PROVE  Quiet \/ \E o \in Ops : Register(o) \/ EnterStep(o) \/ EndStep(o)
<1>1. CASE UNCHANGED vars
  BY <1>1 DEF vars, Quiet
<1>2. CASE Abort
  BY <1>2 DEF Abort, queue, Quiet
<1>3. ASSUME NEW f \in Files, Delete(f) PROVE Quiet
  BY <1>3 DEF Delete, queue, Quiet
<1>4. ASSUME NEW o \in Ops, Call(o) PROVE Quiet
  BY <1>4 DEF Call, Quiet, TypeOK, Inside
<1>5. ASSUME NEW o \in Ops, Lookup(o) PROVE Quiet
  BY <1>5 DEF Lookup, Quiet
<1>6. ASSUME NEW o \in Ops, Refuse(o) PROVE Quiet
  BY <1>6 DEF Refuse, Quiet, TypeOK, Inside
<1>p. ASSUME NEW o \in Ops, NEW l \in Inside, pc[o] \in Inside, Proceed(o, l)
      PROVE  Quiet \/ EndStep(o)
  BY <1>p DEF Proceed, EndStep, Admitted, Quiet, queue, TypeOK, Inside
<1>8. ASSUME NEW o \in Ops, Begin(o) PROVE EnterStep(o) \/ EndStep(o)
  BY <1>8 DEF Begin, Proceed, EnterStep, EndStep, Admitted
<1>9. ASSUME NEW o \in Ops, Check(o) PROVE Quiet \/ EndStep(o)
  <2>1. pc[o] \in Inside /\ "read" \in Inside /\ "write" \in Inside
    BY <1>9 DEF Check, Inside
  <2> QED
    BY <1>9, <1>p, <2>1 DEF Check, EndStep, Admitted
<1>10. ASSUME NEW o \in Ops, Read(o) PROVE Quiet \/ EndStep(o)
  <2>1. pc[o] \in Inside /\ "write" \in Inside
    BY <1>10 DEF Read, Inside
  <2> QED
    BY <1>10, <1>p, <2>1 DEF Read, EndStep, Admitted
<1>11. ASSUME NEW o \in Ops, Truncate(o) PROVE Quiet
  BY <1>11 DEF Truncate, Quiet, queue, TypeOK, Inside
<1>12. ASSUME NEW o \in Ops, FinishWrite(o) PROVE EndStep(o)
  BY <1>12 DEF FinishWrite, EndStep, Admitted, Inside
<1>13. ASSUME NEW o \in Ops, Throw(o) PROVE EndStep(o)
  BY <1>13 DEF Throw, EndStep, Admitted
<1> QED
  BY <1>1, <1>2, <1>3, <1>4, <1>5, <1>6, <1>8, <1>9, <1>10, <1>11, <1>12, <1>13
     DEF Next, Progress

LEMMA QuietQueue ==
  ASSUME QueueInv, Quiet
  PROVE  QueueInv'
<1>1. \A o \in Ops : /\ Active(o)' <=> Active(o)
                     /\ Registered(o)' <=> Registered(o)
  BY DEF Quiet, Active, Registered
<1> QED
  BY <1>1 DEF QueueInv, Quiet, Keyed, Behind, Last, Turn, Chain, Ordered

LEMMA RegisterQueue ==
  ASSUME TypeOK, QueueInv, NEW o \in Ops, Register(o)
  PROVE  QueueInv'
<1>1. /\ found \in Paths /\ pc[o] = "registering" /\ ~Registered(o) /\ ~Active(o)
      /\ pc' = [pc EXCEPT ![o] = "waiting"] /\ key'[o] = found /\ prev'[o] = tail[found]
      /\ tail' = [tail EXCEPT ![found] = o] /\ before'[o] = Present(found)
      /\ \A p \in Ops \ {o} : /\ key'[p] = key[p] /\ prev'[p] = prev[p]
                              /\ before'[p] = before[p] /\ pc'[p] = pc[p]
  BY DEF Register, TypeOK, Registered, Active, Inside
<1>2. /\ Active(o)' /\ Registered(o)' /\ pc'[o] = "waiting"
      /\ \A p \in Ops \ {o} : Active(p)' = Active(p) /\ Registered(p)' = Registered(p)
  BY <1>1 DEF Active, Registered, TypeOK
<1>3. \A p \in Ops : p \in Present(found) <=> Active(p) /\ key[p] = found
  BY DEF Present, Active
<1>4. \A p \in Ops : /\ o \notin before[p] /\ o \notin Present(found)
                     /\ p \in before'[o] <=> p \in Present(found)
                     /\ p \in Present(found) => p # o /\ Registered(p)
  BY <1>1, <1>3 DEF QueueInv, Behind, Registered
<1>5. tail[found] \in Ops \cup {None}
  BY <1>1 DEF TypeOK
<1>6. Keyed'
  BY <1>1, <1>2 DEF QueueInv, Keyed
<1>7. Behind'
  BY <1>1, <1>2, <1>3, <1>4 DEF QueueInv, Behind
<1>8. Last'
  BY <1>1, <1>2, <1>3, <1>4, QueueAssumption DEF QueueInv, Last, TypeOK
<1>9. Chain'
  <2> SUFFICES ASSUME NEW x \in Ops, NEW p \in Ops, NEW q \in Ops, Registered(x)', prev'[x] = q
              PROVE  Registered(q)' /\ (p \in before'[x] => p = q \/ p \in before'[q] \/ pc'[p] = "done")
    BY DEF Chain
  <2>1. CASE x = o
    BY <2>1, <1>1, <1>2, <1>3, <1>4 DEF QueueInv, Last
  <2>2. CASE x # o
    BY <2>2, <1>1, <1>2, <1>4 DEF QueueInv, Chain
  <2> QED
    BY <2>1, <2>2
<1>10. Turn'
  <2> SUFFICES ASSUME NEW x \in Ops, NEW p \in Ops, p \in before'[x],
                     pc'[x] \in Inside \cup {"done"} \/ (Registered(x)' /\ prev'[x] = None)
              PROVE  pc'[p] = "done"
    BY DEF Turn
  <2>1. CASE x = o
    BY <2>1, <1>1, <1>2, <1>3, <1>4 DEF QueueInv, Last, Inside
  <2>2. CASE x # o
    BY <2>2, <1>1, <1>2, <1>4 DEF QueueInv, Turn
  <2> QED
    BY <2>1, <2>2
<1>11. Ordered'
  <2> SUFFICES ASSUME NEW x \in Ops, NEW p \in Ops, Registered(x)', Registered(p)', key'[x] = key'[p], x # p
              PROVE  x \in before'[p] \/ p \in before'[x] \/ pc'[x] = "done" \/ pc'[p] = "done"
    BY DEF Ordered
  <2>1. CASE x = o
    BY <2>1, <1>1, <1>2, <1>3, <1>4 DEF Registered
  <2>2. CASE p = o
    BY <2>2, <1>1, <1>2, <1>3, <1>4 DEF Registered
  <2>3. CASE x # o /\ p # o
    BY <2>3, <1>1, <1>2 DEF QueueInv, Ordered
  <2> QED
    BY <2>1, <2>2, <2>3
<1> QED
  BY <1>6, <1>7, <1>8, <1>9, <1>10, <1>11 DEF QueueInv

(* A call that got its turn has only finished calls before it.             *)
LEMMA TurnComes ==
  ASSUME TypeOK, QueueInv, NEW o \in Ops, Admitted(o), NEW p \in before[o]
  PROVE  pc[p] = "done"
<1>0. p \in Ops
  BY DEF TypeOK
<1>1. CASE pc[o] \in Inside
  BY <1>0, <1>1 DEF QueueInv, Turn
<1>2. CASE pc[o] = "waiting" /\ prev[o] = None
  BY <1>0, <1>2 DEF QueueInv, Turn, Registered, Active
<1>3. CASE pc[o] = "waiting" /\ prev[o] # None
  <2>1. prev[o] \in Ops /\ pc[prev[o]] = "done" /\ Registered(o)
    BY <1>3, QueueAssumption DEF Admitted, Released, TypeOK, Registered, Active, Inside
  <2>2. p = prev[o] \/ p \in before[prev[o]] \/ pc[p] = "done"
    BY <1>0, <2>1 DEF QueueInv, Chain
  <2> QED
    BY <1>0, <2>1, <2>2 DEF QueueInv, Turn
<1> QED
  BY <1>1, <1>2, <1>3 DEF Admitted

LEMMA EnterQueue ==
  ASSUME TypeOK, QueueInv, NEW o \in Ops, EnterStep(o)
  PROVE  QueueInv'
<1>1. /\ pc[o] = "waiting" /\ pc'[o] = "check" /\ \A p \in Ops \ {o} : pc'[p] = pc[p]
      /\ UNCHANGED <<key, prev, tail, before>>
  BY DEF EnterStep, queue, TypeOK
<1>2. \A p \in Ops : Active(p)' = Active(p) /\ Registered(p)' = Registered(p) /\ (pc'[p] = "done" <=> pc[p] = "done")
  BY <1>1 DEF Active, Registered, Inside
<1>3. Admitted(o)
  BY DEF EnterStep, Admitted
<1>4. Keyed' /\ Behind' /\ Last' /\ Chain' /\ Ordered'
  BY <1>1, <1>2 DEF QueueInv, Keyed, Behind, Last, Chain, Ordered
<1>5. Turn'
  BY <1>1, <1>2, <1>3, TurnComes DEF QueueInv, Turn
<1> QED
  BY <1>4, <1>5 DEF QueueInv

LEMMA EndQueue ==
  ASSUME TypeOK, QueueInv, NEW o \in Ops, EndStep(o)
  PROVE  QueueInv'
<1>1. /\ pc'[o] = "done" /\ \A p \in Ops \ {o} : pc'[p] = pc[p]
      /\ UNCHANGED <<key, prev, before>>
      /\ tail' = IF tail[key[o]] = o THEN [tail EXCEPT ![key[o]] = None] ELSE tail
      /\ Active(o) /\ Registered(o) /\ pc[o] # "done"
  BY DEF EndStep, End, Admitted, TypeOK, Active, Registered, Inside
<1>2. \A p \in Ops : /\ Registered(p)' = Registered(p)
                     /\ Active(p)' <=> Active(p) /\ p # o
  BY <1>1 DEF Active, Registered, Inside
<1>3. \A p \in before[o] : pc[p] = "done"
  BY TurnComes DEF EndStep
<1>4. key[o] \in Paths
  BY <1>1 DEF QueueInv, Keyed
<1>5. Keyed' /\ Behind' /\ Chain' /\ Ordered'
  BY <1>1, <1>2 DEF QueueInv, Keyed, Behind, Chain, Ordered
<1>6. Turn'
  BY <1>1, <1>2, <1>3 DEF QueueInv, Turn, Registered, Active
<1>7. Last'
  <2>1. CASE tail[key[o]] = o
    <3>1. \A p \in Ops : Active(p) /\ key[p] = key[o] => p = o
      BY <2>1, <1>3, <1>4 DEF QueueInv, Last, Active, Inside
    <3>2. /\ tail'[key[o]] = None /\ \A k \in Paths \ {key[o]} : tail'[k] = tail[k]
      BY <2>1, <1>1, <1>4 DEF TypeOK
    <3> QED
      BY <3>1, <3>2, <1>1, <1>2, QueueAssumption DEF QueueInv, Last
  <2>2. CASE tail[key[o]] # o
    <3>1. tail' = tail
      BY <2>2, <1>1
    <3>2. \A k \in Paths : tail[k] # o
      BY <2>2, <1>1, <1>2 DEF QueueInv, Last
    <3> QED
      BY <3>1, <3>2, <1>1, <1>2 DEF QueueInv, Last
  <2> QED
    BY <2>1, <2>2
<1> QED
  BY <1>5, <1>6, <1>7 DEF QueueInv

LEMMA StepQueue ==
  ASSUME TypeOK, QueueInv, [Next]_vars
  PROVE  QueueInv'
  BY QueueStep, QuietQueue, RegisterQueue, EnterQueue, EndQueue

(* The queue keeps its order: a call that has its turn has only finished   *)
(* calls of its key before it.                                             *)
THEOREM ChainCorrect == Spec => []QueueInv
<1>1. TypeOK /\ QueueInv /\ [Next]_vars => (TypeOK /\ QueueInv)'
  BY StepType, StepQueue
<1> QED
  BY <1>1, InitType, InitQueue, PTL DEF Spec

-----------------------------------------------------------------------------
(* The key of a call is its file, if keys are stable.                      *)
Permanent == Files \ Volatile \subseteq exists
FoundKey == found # None => regs # <<>> /\ found = FileOf(Head(regs))
KeyIsFile == \A o \in Ops : Registered(o) => key[o] = FileOf(o)
FileInv == Permanent /\ FoundKey /\ KeyIsFile

LEMMA InitFile == Init => FileInv
  BY DEF Init, FileInv, Permanent, FoundKey, KeyIsFile, Registered, Active, Inside

LEMMA StepFile ==
  ASSUME StableKeys, TypeOK, FileInv, [Next]_vars
  PROVE  FileInv'
<1>1. Permanent'
  BY DEF FileInv, Permanent, Next, Progress, vars, disk, Abort, Delete, Call, Lookup, Refuse, Register,
         Begin, Check, Read, Truncate, FinishWrite, Throw
<1>2. ASSUME NEW o \in Ops, Register(o) PROVE FoundKey' /\ KeyIsFile'
  <2>1. /\ key'[o] = FileOf(o) /\ found' = None
        /\ \A p \in Ops \ {o} : key'[p] = key[p] /\ (Registered(p)' <=> Registered(p))
    BY <1>2 DEF Register, FileInv, FoundKey, TypeOK, Registered, Active
  <2> QED
    BY <2>1 DEF FileInv, FoundKey, KeyIsFile
<1>3. ASSUME NEW o \in Ops, EnterStep(o) \/ EndStep(o) PROVE FoundKey' /\ KeyIsFile'
  <2>1. UNCHANGED <<key, found, regs>> /\ \A p \in Ops : Registered(p)' <=> Registered(p)
    BY <1>3 DEF EnterStep, EndStep, End, Admitted, queue, TypeOK, Registered, Active, Inside
  <2> QED
    BY <2>1 DEF FileInv, FoundKey, KeyIsFile
<1>4. ASSUME Quiet PROVE KeyIsFile'
  BY <1>4 DEF Quiet, FileInv, KeyIsFile, Registered, Active
<1>5. ASSUME NEW o \in Ops, Call(o) PROVE FoundKey'
  <2>1. regs # <<>> => Append(regs, o) # <<>> /\ Head(Append(regs, o)) = Head(regs)
    BY DEF TypeOK
  <2> QED
    BY <1>5, <2>1 DEF Call, FileInv, FoundKey
<1>6. ASSUME NEW o \in Ops, Lookup(o) PROVE FoundKey'
  <2>1. PathOf[o] \in Paths /\ Real[PathOf[o]] \in Files
    BY QueueAssumption DEF Files
  <2>2. KeyNow(PathOf[o]) = FileOf(o)
    BY <2>1 DEF KeyNow, FileOf, StableKeys, FileInv, Permanent
  <2> QED
    BY <1>6, <2>2 DEF Lookup, FoundKey
<1>7. FoundKey'
  <2>1. CASE UNCHANGED <<regs, found>>
    BY <2>1 DEF FileInv, FoundKey
  <2>2. ASSUME NEW o \in Ops, Refuse(o) PROVE FoundKey'
    BY <2>2 DEF Refuse, FoundKey
  <2>3. ASSUME NEW o \in Ops, NEW l, Proceed(o, l) \/ End(o) PROVE UNCHANGED <<regs, found>>
    BY <2>3 DEF Proceed, End, queue
  <2>4. ASSUME NEW o \in Ops, Begin(o) \/ Check(o) \/ Read(o) \/ Truncate(o) \/ FinishWrite(o) \/ Throw(o)
        PROVE UNCHANGED <<regs, found>>
    BY <2>3, <2>4 DEF Begin, Check, Read, Truncate, FinishWrite, Throw, queue
  <2>5. ASSUME NEW f \in Files, Delete(f) PROVE UNCHANGED <<regs, found>>
    BY <2>5 DEF Delete, queue
  <2>6. Abort \/ UNCHANGED vars => UNCHANGED <<regs, found>>
    BY DEF Abort, queue, vars
  <2> QED
    BY <1>2, <1>5, <1>6, <2>1, <2>2, <2>4, <2>5, <2>6 DEF Next, Progress
<1> QED
  BY <1>1, <1>2, <1>3, <1>4, <1>7, QueueStep DEF FileInv

LEMMA AloneWithKey ==
  ASSUME TypeOK, QueueInv, NEW o \in Ops, NEW p \in Ops,
         Admitted(o), Admitted(p), key[o] = key[p]
  PROVE  o = p
<1>1. Registered(o) /\ Registered(p) /\ pc[o] # "done" /\ pc[p] # "done"
  BY DEF Admitted, Registered, Active, Inside
<1> QED
  BY <1>1, TurnComes DEF QueueInv, Ordered

LEMMA AloneWithFile ==
  ASSUME TypeOK, QueueInv, FileInv
  PROVE  OneMutationPerFile
<1> SUFFICES ASSUME NEW o \in Ops, NEW p \in Ops, pc[o] \in Inside, pc[p] \in Inside, FileOf(o) = FileOf(p)
             PROVE  o = p
  BY DEF OneMutationPerFile
<1>1. Admitted(o) /\ Admitted(p) /\ Registered(o) /\ Registered(p)
  BY DEF Admitted, Registered, Active
<1> QED
  BY <1>1, AloneWithKey DEF FileInv, KeyIsFile

(* Two calls on one file never run at the same time, whatever links lead   *)
(* to it, provided that only files that stay are reached through links.    *)
THEOREM OneAtATime == StableKeys => (Spec => []OneMutationPerFile)
<1> SUFFICES ASSUME StableKeys PROVE Spec => []OneMutationPerFile
  OBVIOUS
<1> DEFINE Inv == TypeOK /\ QueueInv /\ FileInv
<1>1. Init => Inv
  BY InitType, InitQueue, InitFile
<1>2. Inv /\ [Next]_vars => Inv'
  BY StepType, StepQueue, StepFile
<1>3. Inv => OneMutationPerFile
  BY AloneWithFile
<1> QED
  BY <1>1, <1>2, <1>3, PTL DEF Spec

-----------------------------------------------------------------------------
(* What an edit has read shows all that its file must show, and a file     *)
(* that is missing need not show anything.                                 *)
Fresh   == \A o \in Ops : pc[o] \in {"write", "writing"} /\ Kind[o] = "edit" =>
                              applied[FileOf(o)] \subseteq buffer[o]
Missing == \A f \in Files : f \notin exists => applied[f] = {}
EditInv == NoLostEdit /\ Fresh /\ Missing

LEMMA InitEdit == Init => EditInv
  BY FileOfType DEF Init, EditInv, NoLostEdit, Fresh, Missing

LEMMA StepEdit ==
  ASSUME TypeOK, OneMutationPerFile, EditInv, [Next]_vars
  PROVE  EditInv'
<1> USE DEF EditInv
(* Steps of calls that do not write, and end or go on.                     *)
<1>m. ASSUME UNCHANGED disk, UNCHANGED buffer,
             \A o \in Ops : /\ pc'[o] = "writing" <=> pc[o] = "writing"
                            /\ pc'[o] = "write" => pc[o] = "write" \/ Kind[o] = "write"
      PROVE  EditInv'
  <2>1. NoLostEdit'
    BY <1>m DEF NoLostEdit, disk
  <2>2. Fresh'
    BY <1>m, QueueAssumption DEF Fresh, disk
  <2>3. Missing'
    BY <1>m DEF Missing, disk
  <2> QED
    BY <2>1, <2>2, <2>3
<1>1. CASE UNCHANGED vars \/ Abort
  BY <1>1, <1>m DEF vars, Abort, disk
<1>2. ASSUME NEW f \in Files, Delete(f) PROVE EditInv'
  <2>1. /\ applied'[f] = {} /\ content'[f] = {} /\ UNCHANGED <<pc, buffer>> /\ exists' = exists \ {f}
        /\ \A g \in Files \ {f} : applied'[g] = applied[g] /\ content'[g] = content[g]
    BY <1>2 DEF Delete, TypeOK
  <2> QED
    BY <2>1, FileOfType DEF NoLostEdit, Fresh, Missing
<1>3. ASSUME NEW o \in Ops, Call(o) \/ Lookup(o) \/ Refuse(o) \/ Register(o) PROVE EditInv'
  BY <1>3, <1>m DEF Call, Lookup, Refuse, Register, TypeOK
<1>4. ASSUME NEW o \in Ops, Begin(o) PROVE EditInv'
  BY <1>4, <1>m DEF Begin, Proceed, End, TypeOK
<1>5. ASSUME NEW o \in Ops, Check(o) PROVE EditInv'
  <2>1. Kind[o] = "edit" \/ Kind[o] = "write"
    BY QueueAssumption
  <2> QED
    BY <1>5, <1>m, <2>1 DEF Check, Proceed, End, TypeOK
<1>6. ASSUME NEW o \in Ops, Read(o) PROVE EditInv'
  <2>1. UNCHANGED disk /\ \A x \in Ops : pc'[x] = "writing" <=> pc[x] = "writing"
    BY <1>6 DEF Read, Proceed, End, TypeOK
  <2>2. NoLostEdit' /\ Missing'
    BY <2>1 DEF NoLostEdit, Missing, disk
  <2>3. \A x \in Ops : pc[x] = "writing" => FileOf(x) # FileOf(o)
    BY <1>6 DEF OneMutationPerFile, Read, Inside
  <2>4. applied[FileOf(o)] \subseteq content[FileOf(o)]
    BY <2>3, FileOfType DEF NoLostEdit
  <2>5. /\ pc'[o] = "write" => buffer'[o] = content[FileOf(o)]
        /\ pc'[o] # "writing"
        /\ \A x \in Ops \ {o} : pc'[x] = pc[x] /\ buffer'[x] = buffer[x]
    BY <1>6 DEF Read, Proceed, End, TypeOK
  <2>6. Fresh'
    BY <2>1, <2>4, <2>5 DEF Fresh, disk
  <2> QED
    BY <2>2, <2>6
<1>7. ASSUME NEW o \in Ops, Truncate(o) PROVE EditInv'
  <2>1. /\ pc[o] = "write" /\ pc'[o] = "writing" /\ UNCHANGED <<applied, buffer>>
        /\ exists' = exists \cup {FileOf(o)}
        /\ \A x \in Ops \ {o} : pc'[x] = pc[x]
        /\ \A f \in Files \ {FileOf(o)} : content'[f] = content[f]
    BY <1>7, FileOfType DEF Truncate, TypeOK
  <2> QED
    BY <2>1, FileOfType DEF NoLostEdit, Fresh, Missing
<1>8. ASSUME NEW o \in Ops, FinishWrite(o) PROVE EditInv'
  <2> DEFINE f == FileOf(o)
  <2>1. /\ pc[o] = "writing" /\ pc'[o] = "done" /\ UNCHANGED <<exists, buffer>>
        /\ \A x \in Ops \ {o} : pc'[x] = pc[x]
        /\ \A g \in Files \ {f} : content'[g] = content[g] /\ applied'[g] = applied[g]
    BY <1>8, FileOfType DEF FinishWrite, End, TypeOK
  <2>2. \A x \in Ops \ {o} : pc[x] \in {"write", "writing"} => FileOf(x) # f
    BY <2>1 DEF OneMutationPerFile, Inside
  <2>3. Kind[o] \in {"edit", "write"} /\ f \in Files
    BY QueueAssumption, FileOfType
  <2>4. f \in exists => applied'[f] \subseteq content'[f]
    <3>1. CASE Kind[o] = "edit"
      BY <1>8, <2>1, <2>3, <3>1 DEF FinishWrite, Fresh, TypeOK
    <3>2. CASE Kind[o] = "write"
      BY <1>8, <2>3, <3>2 DEF FinishWrite, TypeOK
    <3> QED
      BY <2>3, <3>1, <3>2
  <2>5. f \notin exists => applied'[f] = {}
    BY <1>8, <2>3 DEF FinishWrite, Missing
  <2>6. NoLostEdit'
    BY <2>1, <2>2, <2>4, <2>5 DEF NoLostEdit
  <2>7. Fresh'
    BY <2>1, <2>2, FileOfType DEF Fresh
  <2>8. Missing'
    BY <2>1, <2>5 DEF Missing
  <2> QED
    BY <2>6, <2>7, <2>8
<1>9. ASSUME NEW o \in Ops, Throw(o) PROVE EditInv'
  <2>1. CASE pc[o] = "writing"
    <3>1. /\ pc'[o] = "done" /\ UNCHANGED <<exists, content, buffer>>
          /\ \A x \in Ops \ {o} : pc'[x] = pc[x]
          /\ applied'[FileOf(o)] = {}
          /\ \A g \in Files \ {FileOf(o)} : applied'[g] = applied[g]
      BY <1>9, <2>1, FileOfType DEF Throw, End, TypeOK
    <3> QED
      BY <3>1, FileOfType DEF NoLostEdit, Fresh, Missing
  <2>2. CASE pc[o] # "writing"
    <3>1. UNCHANGED disk /\ UNCHANGED buffer
      BY <1>9, <2>2 DEF Throw, disk
    <3>2. pc' = [pc EXCEPT ![o] = "done"]
      BY <1>9 DEF Throw, End
    <3> QED
      BY <3>1, <3>2, <2>2, <1>m DEF TypeOK
  <2> QED
    BY <2>1, <2>2
<1> QED
  BY <1>1, <1>2, <1>3, <1>4, <1>5, <1>6, <1>7, <1>8, <1>9 DEF Next, Progress

(* No edit is lost: what a completed edit or write has done to a file is   *)
(* there for as long as nothing but further edits is done to the file.     *)
THEOREM EditsKept == StableKeys => (Spec => []NoLostEdit)
<1> SUFFICES ASSUME StableKeys PROVE Spec => []NoLostEdit
  OBVIOUS
<1> DEFINE Inv == TypeOK /\ QueueInv /\ FileInv /\ EditInv
<1>1. Init => Inv
  BY InitType, InitQueue, InitFile, InitEdit
<1>2. Inv /\ [Next]_vars => Inv'
  BY StepType, StepQueue, StepFile, StepEdit, AloneWithFile
<1>3. Inv => NoLostEdit
  BY DEF EditInv
<1> QED
  BY <1>1, <1>2, <1>3, PTL DEF Spec

-----------------------------------------------------------------------------
(* The refinement: steps of the chain are steps of the keyed mutex.        *)
Phase == [o \in Ops |-> PhaseOf(o)]
Ahead == [o \in Ops |-> {p \in before[o] : pc[p] \notin Ended}]

LEMMA PhaseIs ==
  ASSUME NEW o \in Ops
  PROVE  /\ pc[o] \in {"new", "registering", "refused"} => PhaseOf(o) = "idle"
         /\ pc[o] = "waiting" => PhaseOf(o) = "queued"
         /\ pc[o] \in Inside => PhaseOf(o) = "inside"
         /\ pc[o] = "done" => PhaseOf(o) = "out"
  BY DEF PhaseOf, Inside

LEMMA PhaseNext ==
  ASSUME NEW o \in Ops
  PROVE  /\ pc'[o] \in {"new", "registering", "refused"} => PhaseOf(o)' = "idle"
         /\ pc'[o] = "waiting" => PhaseOf(o)' = "queued"
         /\ pc'[o] \in Inside => PhaseOf(o)' = "inside"
         /\ pc'[o] = "done" => PhaseOf(o)' = "out"
  BY DEF PhaseOf, Inside

LEMMA PhaseSame ==
  ASSUME NEW o \in Ops, pc'[o] = pc[o]
  PROVE  PhaseOf(o)' = PhaseOf(o)
  BY DEF PhaseOf

LEMMA InitMutex == Init => Mutex!Init
<1> SUFFICES ASSUME Init PROVE Mutex!Init
  OBVIOUS
<1>1. \A o \in Ops : PhaseOf(o) = "idle"
  BY PhaseIs DEF Init
<1> QED
  BY <1>1 DEF Init, Mutex!Init

LEMMA QuietMutex ==
  ASSUME TypeOK, TypeOK', QueueInv, Quiet
  PROVE  UNCHANGED Mutex!vars
<1>1. ASSUME NEW o \in Ops PROVE PhaseOf(o)' = PhaseOf(o)
  BY PhaseIs, PhaseNext DEF Quiet, TypeOK, Ended
<1>2. ASSUME NEW o \in Ops
      PROVE  {p \in before[o] : pc[p] \notin Ended}' = {p \in before[o] : pc[p] \notin Ended}
  <2>1. \A p \in before[o] : p \in Ops /\ (pc'[p] \in Ended <=> pc[p] \in Ended)
    BY DEF Quiet, QueueInv, Behind, Registered, Active, Ended, Inside, TypeOK
  <2> QED
    BY <2>1 DEF Quiet
<1> QED
  BY <1>1, <1>2 DEF Quiet, Mutex!vars

LEMMA RegisterMutex ==
  ASSUME TypeOK, QueueInv, NEW o \in Ops, Register(o)
  PROVE  \E k \in Paths : Mutex!Arrive(o, k)
<1>0. PICK k \in Paths : k = found
  BY DEF Register, TypeOK
<1>1. /\ pc[o] = "registering" /\ pc'[o] = "waiting" /\ \A p \in Ops \ {o} : pc'[p] = pc[p]
      /\ before' = [before EXCEPT ![o] = Present(found)] /\ key' = [key EXCEPT ![o] = found]
  BY DEF Register, TypeOK
<1>2. PhaseOf(o) = "idle" /\ Phase' = [Phase EXCEPT ![o] = "queued"]
  BY <1>1, PhaseIs, PhaseNext, PhaseSame DEF Phase
<1>3. ASSUME NEW p \in Ops
      PROVE  Active(p) <=> PhaseOf(p) \in {"queued", "inside"}
  BY PhaseIs DEF Active, TypeOK, Ended
<1>4. Present(found) = {p \in Ops : Phase[p] \in {"queued", "inside"} /\ key[p] = found}
  BY <1>3 DEF Present, Active, Phase
<1>5. Ahead' = [Ahead EXCEPT ![o] = Present(found)]
  <2>1. ASSUME NEW x \in Ops \ {o}
        PROVE  {p \in before'[x] : pc'[p] \notin Ended} = {p \in before[x] : pc[p] \notin Ended}
    <3>1. before'[x] = before[x] /\ \A p \in before[x] : p \in Ops /\ (pc'[p] \in Ended <=> pc[p] \in Ended)
      BY <1>1 DEF TypeOK, Ended
    <3> QED
      BY <3>1
  <2>2. {p \in before'[o] : pc'[p] \notin Ended} = Present(found)
    BY <1>1 DEF TypeOK, Present, Inside, Ended
  <2> QED
    BY <2>1, <2>2 DEF Ahead
<1>6. Mutex!Arrive(o, k)
  BY <1>0, <1>1, <1>2, <1>4, <1>5 DEF Mutex!Arrive, Mutex!Present, Phase, Ahead
<1> QED
  BY <1>6

LEMMA AheadEmpty ==
  ASSUME TypeOK, QueueInv, NEW o \in Ops, Admitted(o)
  PROVE  Ahead[o] = {}
  BY TurnComes DEF Ahead, Ended

LEMMA EnterMutex ==
  ASSUME TypeOK, QueueInv, NEW o \in Ops, EnterStep(o)
  PROVE  Mutex!Enter(o)
<1>1. /\ pc[o] = "waiting" /\ pc'[o] = "check" /\ \A p \in Ops \ {o} : pc'[p] = pc[p]
      /\ UNCHANGED <<before, key>> /\ Admitted(o)
  BY DEF EnterStep, queue, TypeOK, Admitted
<1>2. PhaseOf(o) = "queued" /\ Phase' = [Phase EXCEPT ![o] = "inside"]
  BY <1>1, PhaseIs, PhaseNext, PhaseSame DEF Phase, Inside
<1>3. Ahead' = Ahead
  <2>1. \A p \in Ops : pc'[p] \in Ended <=> pc[p] \in Ended
    BY <1>1 DEF Ended
  <2> QED
    BY <1>1, <2>1 DEF Ahead, TypeOK
<1> QED
  BY <1>1, <1>2, <1>3, AheadEmpty DEF Mutex!Enter, Phase, Ahead

LEMMA EndMutex ==
  ASSUME TypeOK, QueueInv, NEW o \in Ops, EndStep(o)
  PROVE  Mutex!Pass(o) \/ Mutex!Leave(o)
<1>1. /\ Admitted(o) /\ pc'[o] = "done" /\ \A p \in Ops \ {o} : pc'[p] = pc[p]
      /\ UNCHANGED <<before, key>> /\ pc[o] \notin Ended
  BY DEF EndStep, End, Admitted, TypeOK, Ended, Inside
<1>2. /\ PhaseOf(o) \in {"queued", "inside"}
      /\ Phase' = [Phase EXCEPT ![o] = "out"]
  BY <1>1, PhaseIs, PhaseNext, PhaseSame DEF Phase, Admitted
<1>3. Ahead' = [p \in Ops |-> Ahead[p] \ {o}]
  <2>1. ASSUME NEW x \in Ops
        PROVE  {p \in before'[x] : pc'[p] \notin Ended} = {p \in before[x] : pc[p] \notin Ended} \ {o}
    <3>1. \A p \in before[x] : p \in Ops /\ (pc'[p] \notin Ended <=> pc[p] \notin Ended /\ p # o)
      BY <1>1 DEF TypeOK, Ended
    <3> QED
      BY <1>1, <3>1
  <2> QED
    BY <2>1 DEF Ahead
<1> QED
  BY <1>1, <1>2, <1>3, AheadEmpty DEF Mutex!Pass, Mutex!Leave, Phase, Ahead

(* The queue implements the keyed mutex: calls with one key run one at a   *)
(* time in the order in which they registered, for any links and deletions *)
(* and whatever calls are refused, throw or are aborted.                   *)
THEOREM QueueIsMutex == Spec => Mutex!Safety
<1>1. TypeOK /\ QueueInv /\ [Next]_vars => (TypeOK /\ QueueInv)'
  BY StepType, StepQueue
<1>2. TypeOK /\ TypeOK' /\ QueueInv /\ [Next]_vars => [Mutex!Next]_(Mutex!vars)
  <2> SUFFICES ASSUME TypeOK, TypeOK', QueueInv, [Next]_vars PROVE [Mutex!Next]_(Mutex!vars)
    OBVIOUS
  <2>1. CASE Quiet
    BY <2>1, QuietMutex
  <2>2. ASSUME NEW o \in Ops, Register(o) PROVE Mutex!Next
    BY <2>2, RegisterMutex DEF Mutex!Next
  <2>3. ASSUME NEW o \in Ops, EnterStep(o) \/ EndStep(o) PROVE Mutex!Next
    BY <2>3, EnterMutex, EndMutex DEF Mutex!Next
  <2> QED
    BY <2>1, <2>2, <2>3, QueueStep
<1> QED
  BY <1>1, <1>2, InitType, InitQueue, InitMutex, PTL DEF Spec, Mutex!Safety
=============================================================================
