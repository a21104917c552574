-------------------------- MODULE FileMutationQueue --------------------------
(***************************************************************************)
(* withFileMutationQueue (file-mutation-queue.ts) and the two tools that   *)
(* mutate files under it, edit (edit.ts) and write (write.ts), called in   *)
(* parallel by one batch of tool calls, while other programs delete files  *)
(* and the user may abort the batch.                                       *)
(*                                                                         *)
(* A step is what happens between two awaits.  A call first registers, one *)
(* at a time: it asks the file system for the real path, which is the key  *)
(* of its queue, and chains itself behind the last call with that key.     *)
(***************************************************************************)
EXTENDS Naturals, Sequences

CONSTANTS
    Ops,      \* the tool calls
    Kind,     \* which tool each one calls: "edit" or "write"
    Paths,    \* the absolute paths they use
    PathOf,   \* the path of each call
    Real,     \* the file each path leads to, named by its real path
    Volatile, \* the files that may be missing, or deleted by other programs
    None      \* no call, no key

Files == {Real[p] : p \in Paths}

ASSUME QueueAssumption ==
    /\ None \notin Ops /\ None \notin Paths
    /\ Kind \in [Ops -> {"edit", "write"}]
    /\ PathOf \in [Ops -> Paths]
    /\ Real \in [Paths -> Paths]
    /\ \A p \in Paths : Real[Real[p]] = Real[p]
    /\ Volatile \subseteq Paths

VARIABLES
    pc,       \* where each call is
    regs,     \* registrationQueue: the calls that have still to register
    found,    \* what getMutationQueueKey returned for the first of them
    key,      \* the key each call registered with
    prev,     \* currentQueue: the call that each one waits for
    tail,     \* fileMutationQueues: the last call of each key
    aborted,  \* the signal of the batch
    exists,   \* the files that exist
    content,  \* the mutations that the content of a file shows
    buffer,   \* what each edit has read
    before,   \* history: the calls with its key that each call registered behind
    applied   \* history: the completed mutations that the file must show

queue == <<regs, found, key, prev, tail, before>>
disk  == <<exists, content, applied>>
vars  == <<pc, regs, found, key, prev, tail, aborted, exists, content, buffer, before, applied>>

Inside == {"check", "read", "write", "writing"}
Ended  == {"done", "refused"}
FileOf(o) == Real[PathOf[o]]

-----------------------------------------------------------------------------
(* Mutant of Call: the path is registered in place of the call.            *)
CallByPath(o) ==
    /\ pc[o] = "new"
    /\ pc' = [pc EXCEPT ![o] = "registering"]
    /\ regs' = Append(regs, PathOf[o])
    /\ UNCHANGED <<found, key, prev, tail, aborted, buffer, before, disk>>

(* A tool is called: its registration is chained behind the others.        *)
Call(o) ==
    /\ pc[o] = "new"
    /\ pc' = [pc EXCEPT ![o] = "registering"]
    /\ regs' = Append(regs, o)
    /\ UNCHANGED <<found, key, prev, tail, aborted, buffer, before, disk>>

(* Mutant of KeyNow: the path itself is the key.                           *)
KeyOfPath(p) == p

(* getMutationQueueKey: the real path of an existing file, the resolved    *)
(* path of a missing one.                                                  *)
KeyNow(p) == IF Real[p] \in exists THEN Real[p] ELSE p

Lookup(o) ==
    /\ regs # <<>> /\ o = Head(regs) /\ pc[o] = "registering"
    /\ found = None /\ found' = KeyNow(PathOf[o])
    /\ UNCHANGED <<pc, regs, key, prev, tail, aborted, buffer, before, disk>>

(* realpath fails for another reason: the call is refused, and the next    *)
(* registration goes on.                                                   *)
Refuse(o) ==
    /\ regs # <<>> /\ o = Head(regs) /\ pc[o] = "registering" /\ found = None
    /\ pc' = [pc EXCEPT ![o] = "refused"] /\ regs' = Tail(regs)
    /\ UNCHANGED <<found, key, prev, tail, aborted, buffer, before, disk>>

(* The calls with a key that have registered and are not done.             *)
Present(k) == {p \in Ops : pc[p] \in Inside \cup {"waiting"} /\ key[p] = k}

(* The rest of the registration, when the real path has arrived.           *)
Register(o) ==
    /\ regs # <<>> /\ o = Head(regs) /\ pc[o] = "registering" /\ found # None
    /\ pc' = [pc EXCEPT ![o] = "waiting"] /\ regs' = Tail(regs) /\ found' = None
    /\ key' = [key EXCEPT ![o] = found]
    /\ prev' = [prev EXCEPT ![o] = tail[found]]
    /\ tail' = [tail EXCEPT ![found] = o]
    /\ before' = [before EXCEPT ![o] = Present(found)]
    /\ UNCHANGED <<aborted, buffer, disk>>

-----------------------------------------------------------------------------
(* Mutants of End: the entry of the key is always deleted; it is kept, but *)
(* the next call is not released.                                          *)
EndForgets(o) ==
    /\ pc' = [pc EXCEPT ![o] = "done"]
    /\ tail' = [tail EXCEPT ![key[o]] = None]
    /\ UNCHANGED <<regs, found, key, prev, before>>
EndStuck(o) ==
    /\ pc' = [pc EXCEPT ![o] = IF aborted THEN "refused" ELSE "done"]
    /\ UNCHANGED queue

(* The finally block: the next call is released, and the entry of the key  *)
(* deleted unless another call has been chained behind this one.           *)
End(o) ==
    /\ pc' = [pc EXCEPT ![o] = "done"]
    /\ tail' = IF tail[key[o]] = o THEN [tail EXCEPT ![key[o]] = None] ELSE tail
    /\ UNCHANGED <<regs, found, key, prev, before>>

(* throwIfAborted, or on to the next await.                                *)
Proceed(o, next) ==
    IF aborted THEN End(o)
    ELSE pc' = [pc EXCEPT ![o] = next] /\ UNCHANGED queue

(* Mutant of Released: a call waits only while the one before it waits.    *)
ReleasedEarly(o) == prev[o] # None => pc[prev[o]] \in Inside \cup {"done"}

(* currentQueue is resolved.                                               *)
Released(o) == prev[o] # None => pc[prev[o]] = "done"

Begin(o) ==
    /\ pc[o] = "waiting" /\ Released(o)
    /\ Proceed(o, "check")
    /\ UNCHANGED <<aborted, buffer, disk>>

(* edit: access, then readFile and the replacement; write: mkdir.          *)
Check(o) ==
    /\ pc[o] = "check"
    /\ IF Kind[o] = "edit" /\ FileOf(o) \notin exists THEN End(o)
       ELSE Proceed(o, IF Kind[o] = "edit" THEN "read" ELSE "write")
    /\ UNCHANGED <<aborted, buffer, disk>>

Read(o) ==
    /\ pc[o] = "read"
    /\ IF FileOf(o) \notin exists THEN End(o) /\ UNCHANGED buffer
       ELSE Proceed(o, "write") /\ buffer' = [buffer EXCEPT ![o] = content[FileOf(o)]]
    /\ UNCHANGED <<aborted, disk>>

(* writeFile: the file is created or truncated, then its content written.  *)
(* An abort does not release the queue before the write has settled.       *)
Truncate(o) ==
    /\ pc[o] = "write" /\ pc' = [pc EXCEPT ![o] = "writing"]
    /\ exists' = exists \cup {FileOf(o)}
    /\ content' = [content EXCEPT ![FileOf(o)] = {}]
    /\ UNCHANGED <<aborted, buffer, applied, queue>>

FinishWrite(o) ==
    LET f == FileOf(o) IN
    /\ pc[o] = "writing" /\ End(o)
    /\ IF f \in exists
       THEN /\ content' = [content EXCEPT ![f] =
                              IF Kind[o] = "edit" THEN buffer[o] \cup {o} ELSE {o}]
            /\ applied' = [applied EXCEPT ![f] =
                              IF Kind[o] = "edit" THEN @ \cup {o} ELSE {o}]
       ELSE UNCHANGED <<content, applied>>
    /\ UNCHANGED <<aborted, exists, buffer>>

(* Some operation of the file system fails, or the text to replace is not  *)
(* found; a write that fails leaves the file truncated.                    *)
Throw(o) ==
    /\ pc[o] \in Inside /\ End(o)
    /\ applied' = IF pc[o] = "writing" THEN [applied EXCEPT ![FileOf(o)] = {}] ELSE applied
    /\ UNCHANGED <<aborted, exists, content, buffer>>

-----------------------------------------------------------------------------
Abort ==
    /\ ~aborted /\ aborted' = TRUE
    /\ UNCHANGED <<pc, buffer, queue, disk>>

(* Another program deletes a file.                                         *)
Delete(f) ==
    /\ f \in Volatile \cap exists /\ exists' = exists \ {f}
    /\ content' = [content EXCEPT ![f] = {}]
    /\ applied' = [applied EXCEPT ![f] = {}]
    /\ UNCHANGED <<pc, aborted, buffer, queue>>

-----------------------------------------------------------------------------
Init ==
    /\ pc = [o \in Ops |-> "new"]
    /\ regs = <<>> /\ found = None
    /\ key = [o \in Ops |-> None] /\ prev = [o \in Ops |-> None]
    /\ tail = [k \in Paths |-> None]
    /\ aborted = FALSE
    /\ exists \in {Files \ M : M \in SUBSET (Volatile \cap Files)}
    /\ content = [f \in Files |-> {}] /\ applied = [f \in Files |-> {}]
    /\ buffer = [o \in Ops |-> {}] /\ before = [o \in Ops |-> {}]

(* What the runtime and the file system do for a call once it is made.     *)
Progress(o) ==
    \/ Lookup(o) \/ Refuse(o) \/ Register(o) \/ Begin(o)
    \/ Check(o) \/ Read(o) \/ Truncate(o) \/ FinishWrite(o) \/ Throw(o)

Next == Abort \/ (\E f \in Files : Delete(f)) \/ \E o \in Ops : Call(o) \/ Progress(o)

(* Every operation of the file system returns.                             *)
Fairness == \A o \in Ops : WF_vars(Progress(o))

Spec == Init /\ [][Next]_vars /\ Fairness

-----------------------------------------------------------------------------
(* Every variable has its type.                                            *)
TypeOK ==
    /\ pc \in [Ops -> {"new", "registering", "waiting"} \cup Inside \cup Ended]
    /\ regs \in Seq(Ops) /\ found \in Paths \cup {None}
    /\ key \in [Ops -> Paths \cup {None}]
    /\ prev \in [Ops -> Ops \cup {None}] /\ tail \in [Paths -> Ops \cup {None}]
    /\ aborted \in BOOLEAN
    /\ exists \subseteq Files
    /\ content \in [Files -> SUBSET Ops] /\ applied \in [Files -> SUBSET Ops]
    /\ buffer \in [Ops -> SUBSET Ops] /\ before \in [Ops -> SUBSET Ops]

(* The real path of a path does not depend on whether the file exists:     *)
(* only a file that is always there is reached through a link.             *)
StableKeys == \A p \in Paths : Real[p] \in Volatile => Real[p] = p

(* Two calls on one file, by whatever path, never run at the same time     *)
(* (file-mutation-queue.ts:28).                                            *)
OneMutationPerFile ==
    \A o, p \in Ops : (pc[o] \in Inside /\ pc[p] \in Inside /\ FileOf(o) = FileOf(p)) => o = p

(* A file that nobody is writing shows every mutation completed since it   *)
(* was last written whole or deleted: no edit is overwritten by another    *)
(* one that read the file before it (edit.ts:163).                         *)
NoLostEdit ==
    \A f \in Files :
        (~\E o \in Ops : pc[o] = "writing" /\ FileOf(o) = f) => applied[f] \subseteq content[f]

(* Every call that was made is eventually settled, whatever fails before   *)
(* it (file-mutation-queue.ts:45, 54).                                     *)
EveryCallSettles == \A o \in Ops : pc[o] # "new" ~> pc[o] \in Ended

(* The queue implements the keyed mutex: first come, first served by key,  *)
(* also across refused registrations, throwing calls and deleted entries.  *)
PhaseOf(o) ==
    CASE pc[o] \in {"new", "registering", "refused"} -> "idle"
      [] pc[o] = "waiting" -> "queued"
      [] pc[o] \in Inside  -> "inside"
      [] pc[o] = "done"    -> "out"
Mutex == INSTANCE KeyedMutex WITH
    Keys <- Paths, NoKey <- None,
    phase <- [o \in Ops |-> PhaseOf(o)],
    ahead <- [o \in Ops |-> {p \in before[o] : pc[p] \notin Ended}]
ImplementsMutex == Mutex!Spec
=============================================================================
