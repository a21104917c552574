------------------------- MODULE AuthStorageProofs -------------------------
(***************************************************************************)
(* Proofs about AuthStorage, for any processes, calls and providers: the   *)
(* types in general; the lock, the snapshots and the tokens on the         *)
(* assumption QuickEnough, without which a holder may lose its lock and    *)
(* another process may write between two of its steps.                     *)
(***************************************************************************)
EXTENDS AuthStorage, TLAPS

-----------------------------------------------------------------------------
(* Where each user can be, and what it has by then.  Only a call that      *)
(* resolves a token refreshes one; who writes has something to write; what *)
(* a call notes is set by its callback and gone when it is over.           *)
Shape ==
    /\ \A p \in Procs : pc[p] \in Holding \cup {"idle", "locking", "failing", "returning", "killed"}
    /\ \A u \in Users : pc[u] \in Refreshing => u \in Ops /\ Kind[u] = "resolve"
    /\ \A u \in Users : pc[u] = "writing" => u \in Ops /\ next[u] # None
    /\ \A u \in Users : u \in Procs => next[u] = None
    /\ \A u \in Users : pc[u] = "reloading" => Kind[u] = "resolve"
    /\ \A u \in Users : pc[u] \in Active \ {"entered"} => u \in Procs \/ Kind[u] # "start"

(* A snapshot, and a revision about to be noted, is never newer than the   *)
(* file, and as new as the file only if it is the content of the file.     *)
SnapshotInv ==
    /\ frev > 0
    /\ \A p \in Procs : rev[p] <= frev /\ (rev[p] = frev => cache[p] = file)
    /\ \A u \in Users : seen[u] <= frev /\ (seen[u] = frev => base[u] = file /\ next[u] = None)
    /\ \A u \in Users : next[u] # None => seen[u] = 0
    /\ \A u \in Users :
          pc[u] \in {"new", "idle", "reloading", "locking", "locked", "entered", "refreshing"} =>
              seen[u] = 0 /\ next[u] = None

-----------------------------------------------------------------------------
(* The processes that have been started.                                   *)
Begun(p) == \A o \in Ops : Proc[o] = p /\ Kind[o] = "start" => pc[o] # "new"

Started ==
    \A u \in Users : pc[u] \in Active \cup {"reloading"} =>
        Begun(ProcOf(u)) \/ (u \in Ops /\ Kind[u] = "start")

(* The lock is that of its holder, and younger than its hold.              *)
Locked ==
    /\ compromised = {}
    /\ \A u \in Users : pc[u] \notin Active \ {"locking", "locked", "entered"} => held[u] = 0
    /\ \A u \in Users : pc[u] \in Holding =>
          lock = u /\ lockAge <= held[u] /\ held[u] <= Longest[ProcOf(u)]

(* What the holder has read is what the file contains until it writes.     *)
BaseCurrent ==
    \A u \in Users : pc[u] \in {"entered", "refreshing", "answering", "applied"} => base[u] = file

(* What it is going to write differs in the token of its provider, and     *)
(* that is a new one.                                                      *)
NextOK ==
    /\ \A p \in Providers : issued[p] >= 1
    /\ \A o \in Ops : Kind[o] = "login" /\ pc[o] \in Holding \cup {"locking"} => got[o] >= 2
    /\ \A o \in Ops : pc[o] \in {"answering", "applied"} /\ next[o] # None =>
          /\ next[o][Provider[o]] # 1
          /\ \A q \in Providers \ {Provider[o]} : next[o][q] = base[o][q]
    /\ \A o \in Ops : pc[o] \in Refreshing => base[o][Provider[o]] = 1
    /\ \A o \in Ops : pc[o] = "applied" /\ Redeemed(o) => base[o][Provider[o]] = 1
    /\ \A o \in Ops : pc[o] = "answering" => next[o] # None

(* A token that is stored and expires soon is still accepted, or is lost,  *)
(* or its successor is on its way into the file.                           *)
Alive(p) == 1 \in valid[p] \/ <<p, 1>> \in lost
OnItsWay(p) == \E o \in Ops : pc[o] \in {"answering", "applied"} /\ Redeemed(o) /\ Provider[o] = p
TokenInv ==
    /\ \A p \in Providers : file[p] = 1 => Alive(p) \/ OnItsWay(p)
    /\ \A o \in Ops : pc[o] = "writing" => \A q \in Providers : next[o][q] = 1 => Alive(q)


(* The types are kept by every step of a call, a reload, time or a kill.   *)
LEMMA TypeStep ==
  ASSUME TypeOK, Shape, [Next]_vars
  PROVE  TypeOK'
<1> USE AuthAssumption DEF Users, At, Active, lockVars, fileVars, workVars, cacheVars, serverVars
<1>1. ASSUME NEW o \in Ops, ReadLatest(o) PROVE TypeOK'
  BY <1>1 DEF ReadLatest, Running, Got, ExpiresSoon, TypeOK, Holding, Over,
       Contents, Shape, Refreshing
<1>2. ASSUME NEW o \in Ops, Login(o) PROVE TypeOK'
  BY <1>2 DEF Login, Running, TypeOK, Holding, Over, Contents, Shape,
       Refreshing
<1>3. ASSUME NEW o \in Ops, Logout(o) PROVE TypeOK'
  BY <1>3 DEF Logout, Running, TypeOK, Holding, Over, Contents, Shape,
       Refreshing
<1>4. ASSUME NEW o \in Ops, SyncSkip(o) PROVE TypeOK'
  BY <1>4 DEF SyncSkip, TypeOK, Holding, Over, Contents, Shape,
       Refreshing
<1>5. ASSUME NEW o \in Ops, SyncRead(o) PROVE TypeOK'
  BY <1>5 DEF SyncRead, TypeOK, Holding, Over, Contents, Shape,
       Refreshing
<1>6. ASSUME NEW o \in Users, SyncReload(o) PROVE TypeOK'
  BY <1>6 DEF SyncReload, Empty, NoToken, TypeOK, Holding, Over, Contents
<1>7. ASSUME NEW o \in Ops, Abort(o) PROVE TypeOK'
  BY <1>7 DEF Abort, Holding, TypeOK, Over, Contents, Shape, Refreshing
<1>8. ASSUME NEW u \in Users, Acquire(u) PROVE TypeOK'
  BY <1>8 DEF Acquire, Free, TypeOK, Holding, Over, Contents, Shape, Refreshing
<1>9. ASSUME NEW u \in Users, GiveUp(u) PROVE TypeOK'
  BY <1>9 DEF GiveUp, Free, TypeOK, Holding, Over, Contents, Shape, Refreshing
<1>10. ASSUME NEW u \in Users, EnterStopped(u) PROVE TypeOK'
  BY <1>10 DEF EnterStopped, Stopped, TypeOK, Holding, Over, Contents, Shape,
       Refreshing
<1>11. ASSUME NEW u \in Users, ReadUnderLock(u) PROVE TypeOK'
  BY <1>11 DEF ReadUnderLock, Stopped, TypeOK, Holding, Over, Contents, Shape,
       Refreshing
<1>12. ASSUME NEW u \in Users, EnterReload(u) PROVE TypeOK'
  BY <1>12 DEF EnterReload, TypeOK, Holding, Over,
       Contents, Shape, Refreshing
<1>13. ASSUME NEW u \in Users, EnterChange(u) PROVE TypeOK'
  BY <1>13 DEF EnterChange, NoToken, TypeOK, Holding,
       Over, Contents, Shape, Refreshing
<1>14. ASSUME NEW u \in Users, EnterRefresh(u) PROVE TypeOK'
  BY <1>14 DEF EnterRefresh, ExpiresSoon, TypeOK,
       Holding, Over, Contents, Shape, Refreshing
<1>15. ASSUME NEW u \in Users, EnterKeep(u) PROVE TypeOK'
  BY <1>15 DEF EnterKeep, ExpiresSoon, TypeOK, Holding,
       Over, Contents, Shape, Refreshing
<1>16. ASSUME NEW u \in Users, Redeem(u) PROVE TypeOK'
  BY <1>16 DEF Redeem, TypeOK, Holding, Over, Contents, Shape, Refreshing
<1>17. ASSUME NEW u \in Users, RefuseToken(u) PROVE TypeOK'
  BY <1>17 DEF RefuseToken, TypeOK, Holding, Over, Contents, Shape, Refreshing
<1>18. ASSUME NEW u \in Users, Answer(u) PROVE TypeOK'
  BY <1>18 DEF Answer, TypeOK, Holding, Over, Contents, Shape, Refreshing
<1>19. ASSUME NEW u \in Users, RefreshFails(u) PROVE TypeOK'
  BY <1>19 DEF RefreshFails, Refreshing, Lose, Token, Redeemed, TypeOK,
       Holding, Over, Contents, Shape
<1>20. ASSUME NEW u \in Users, ApplyStopped(u) PROVE TypeOK'
  BY <1>20 DEF ApplyStopped, Stopped, Lose, Token, Redeemed, TypeOK, Holding,
       Over, Contents, Shape, Refreshing
<1>21. ASSUME NEW u \in Users, ApplyNothing(u) PROVE TypeOK'
  BY <1>21 DEF ApplyNothing, Stopped, TypeOK, Holding, Over, Contents, Shape,
       Refreshing
<1>22. ASSUME NEW u \in Users, Truncate(u) PROVE TypeOK'
  BY <1>22 DEF Truncate, Stopped, Empty, NoToken, TypeOK, Holding, Over,
       Contents, Shape, Refreshing
<1>23. ASSUME NEW u \in Users, Write(u) PROVE TypeOK'
  BY <1>23 DEF Write, TypeOK, Holding, Over, Contents, Shape, Refreshing
<1>24. ASSUME NEW u \in Users, Release(u) PROVE TypeOK'
  BY <1>24 DEF Release, TypeOK, Holding, Over, Contents, Shape, Refreshing
<1>25. ASSUME NEW u \in Users, ReturnReload(u) PROVE TypeOK'
  BY <1>25 DEF ReturnReload, Readers, Got, Clear, ExpiresSoon, Empty, NoToken,
       TypeOK, Holding, Over, Contents, Shape, Refreshing
<1>26. ASSUME NEW u \in Users, ReturnCall(u) PROVE TypeOK'
  BY <1>26 DEF ReturnCall, Note, Clear, ProcOf, Empty, NoToken, TypeOK,
       Holding, Over, Contents, Shape, Refreshing
<1>27. ASSUME NEW u \in Users, ReturnFailed(u) PROVE TypeOK'
  BY <1>27 DEF ReturnFailed, Clear, Empty, NoToken, TypeOK, Holding, Over,
       Contents, Shape, Refreshing
<1>28. ASSUME NEW u \in Users, Update(u) PROVE TypeOK'
  BY <1>28 DEF Update, Refreshing, TypeOK, Holding, Over, Contents, Shape
<1>29. ASSUME Tick PROVE TypeOK'
  BY <1>29 DEF Tick, Holding, Refreshing, ProcOf, Free, Upto, TypeOK, Over,
       Contents, Shape
<1>30. ASSUME NEW p \in Procs, Kill(p) PROVE TypeOK'
  BY <1>30 DEF Kill, ProcOf, Over, Lose, Empty, Clear, Token, Redeemed,
       NoToken, TypeOK, Holding, Contents, Shape, Refreshing
<1>31. ASSUME UNCHANGED vars PROVE TypeOK'
  BY <1>31 DEF vars, TypeOK, Holding, Over, Contents, Shape, Refreshing
<1> QED
  BY <1>1, <1>2, <1>3, <1>4, <1>5, <1>6, <1>7, <1>8, <1>9, <1>10, <1>11,
       <1>12, <1>13, <1>14, <1>15, <1>16, <1>17, <1>18, <1>19, <1>20, <1>21,
       <1>22, <1>23, <1>24, <1>25, <1>26, <1>27, <1>28, <1>29, <1>30, <1>31
     DEF Next, Begin, Progress, Enter, Apply, Return

(* Every step leaves each user at a place that its kind allows.            *)
LEMMA ShapeStep ==
  ASSUME TypeOK, Shape, [Next]_vars
  PROVE  Shape'
<1> USE AuthAssumption DEF Users, At, Active, lockVars, fileVars, workVars, cacheVars, serverVars
<1>1. ASSUME NEW o \in Ops, ReadLatest(o) PROVE Shape'
  BY <1>1 DEF ReadLatest, Running, Got, ExpiresSoon, Shape, Holding,
       Refreshing, TypeOK, Over, Contents
<1>2. ASSUME NEW o \in Ops, Login(o) PROVE Shape'
  BY <1>2 DEF Login, Running, Shape, Holding, Refreshing, TypeOK, Over,
       Contents
<1>3. ASSUME NEW o \in Ops, Logout(o) PROVE Shape'
  BY <1>3 DEF Logout, Running, Shape, Holding, Refreshing, TypeOK, Over,
       Contents
<1>4. ASSUME NEW o \in Ops, SyncSkip(o) PROVE Shape'
  BY <1>4 DEF SyncSkip, Shape, Holding, Refreshing, TypeOK, Over,
       Contents
<1>5. ASSUME NEW o \in Ops, SyncRead(o) PROVE Shape'
  BY <1>5 DEF SyncRead, Shape, Holding, Refreshing, TypeOK, Over,
       Contents
<1>6. ASSUME NEW o \in Users, SyncReload(o) PROVE Shape'
  BY <1>6 DEF SyncReload, Shape, Holding, Refreshing, TypeOK, Over, Contents
<1>7. ASSUME NEW o \in Ops, Abort(o) PROVE Shape'
  BY <1>7 DEF Abort, Holding, Shape, Refreshing, TypeOK, Over, Contents
<1>8. ASSUME NEW u \in Users, Acquire(u) PROVE Shape'
  BY <1>8 DEF Acquire, Free, Shape, Holding, Refreshing, TypeOK, Over, Contents
<1>9. ASSUME NEW u \in Users, GiveUp(u) PROVE Shape'
  BY <1>9 DEF GiveUp, Free, Shape, Holding, Refreshing, TypeOK, Over, Contents
<1>10. ASSUME NEW u \in Users, EnterStopped(u) PROVE Shape'
  BY <1>10 DEF EnterStopped, Stopped, Shape, Holding, Refreshing, TypeOK, Over,
       Contents
<1>11. ASSUME NEW u \in Users, ReadUnderLock(u) PROVE Shape'
  BY <1>11 DEF ReadUnderLock, Stopped, Shape, Holding, Refreshing, TypeOK, Over,
       Contents
<1>12. ASSUME NEW u \in Users, EnterReload(u) PROVE Shape'
  BY <1>12 DEF EnterReload, Shape, Holding, Refreshing,
       TypeOK, Over, Contents
<1>13. ASSUME NEW u \in Users, EnterChange(u) PROVE Shape'
  BY <1>13 DEF EnterChange, NoToken, Shape, Holding,
       Refreshing, TypeOK, Over, Contents
<1>14. ASSUME NEW u \in Users, EnterRefresh(u) PROVE Shape'
  BY <1>14 DEF EnterRefresh, ExpiresSoon, Shape,
       Holding, Refreshing, TypeOK, Over, Contents
<1>15. ASSUME NEW u \in Users, EnterKeep(u) PROVE Shape'
  BY <1>15 DEF EnterKeep, ExpiresSoon, Shape, Holding,
       Refreshing, TypeOK, Over, Contents
<1>16. ASSUME NEW u \in Users, Redeem(u) PROVE Shape'
  BY <1>16 DEF Redeem, Shape, Holding, Refreshing, TypeOK, Over, Contents
<1>17. ASSUME NEW u \in Users, RefuseToken(u) PROVE Shape'
  BY <1>17 DEF RefuseToken, Shape, Holding, Refreshing, TypeOK, Over, Contents
<1>18. ASSUME NEW u \in Users, Answer(u) PROVE Shape'
  BY <1>18 DEF Answer, Shape, Holding, Refreshing, TypeOK, Over, Contents
<1>19. ASSUME NEW u \in Users, RefreshFails(u) PROVE Shape'
  BY <1>19 DEF RefreshFails, Refreshing, Lose, Token, Redeemed, Shape, Holding,
       TypeOK, Over, Contents
<1>20. ASSUME NEW u \in Users, ApplyStopped(u) PROVE Shape'
  BY <1>20 DEF ApplyStopped, Stopped, Lose, Token, Redeemed, Shape, Holding,
       Refreshing, TypeOK, Over, Contents
<1>21. ASSUME NEW u \in Users, ApplyNothing(u) PROVE Shape'
  BY <1>21 DEF ApplyNothing, Stopped, Shape, Holding, Refreshing, TypeOK, Over,
       Contents
<1>22. ASSUME NEW u \in Users, Truncate(u) PROVE Shape'
  BY <1>22 DEF Truncate, Stopped, Empty, NoToken, Shape, Holding, Refreshing,
       TypeOK, Over, Contents
<1>23. ASSUME NEW u \in Users, Write(u) PROVE Shape'
  BY <1>23 DEF Write, Shape, Holding, Refreshing, TypeOK, Over, Contents
<1>24. ASSUME NEW u \in Users, Release(u) PROVE Shape'
  BY <1>24 DEF Release, Shape, Holding, Refreshing, TypeOK, Over, Contents
<1>25. ASSUME NEW u \in Users, ReturnReload(u) PROVE Shape'
  <2>1. \A x \in Users : pc'[x] \in {pc[x], "idle", "locking", "done", "failed"}
    BY <1>25 DEF ReturnReload, Got
  <2>2. \A x \in Procs : pc'[x] \in {pc[x], "idle"}
    BY <1>25 DEF ReturnReload, Readers
  <2>3. \A x \in Users : pc'[x] = "locking" => pc[x] = "locking" \/ (x \in Ops /\ pc[x] = "reloading")
    BY <1>25 DEF ReturnReload, Readers, Got
  <2>4. \A x \in Users : next'[x] \in {next[x], None} /\ (pc'[x] = "writing" => next'[x] = next[x])
    BY <1>25 DEF ReturnReload, Clear, Readers
  <2> QED
    BY <2>1, <2>2, <2>3, <2>4 DEF Shape, Holding, Refreshing
<1>26. ASSUME NEW u \in Users, ReturnCall(u) PROVE Shape'
  BY <1>26 DEF ReturnCall, Note, Clear, ProcOf, Empty, NoToken, Shape, Holding,
       Refreshing, TypeOK, Over, Contents
<1>27. ASSUME NEW u \in Users, ReturnFailed(u) PROVE Shape'
  BY <1>27 DEF ReturnFailed, Clear, Empty, NoToken, Shape, Holding, Refreshing,
       TypeOK, Over, Contents
<1>28. ASSUME NEW u \in Users, Update(u) PROVE Shape'
  BY <1>28 DEF Update, Refreshing, Shape, Holding, TypeOK, Over, Contents
<1>29. ASSUME Tick PROVE Shape'
  BY <1>29 DEF Tick, Holding, Refreshing, ProcOf, Free, Upto, Shape, TypeOK,
       Over, Contents
<1>30. ASSUME NEW p \in Procs, Kill(p) PROVE Shape'
  BY <1>30 DEF Kill, ProcOf, Over, Lose, Empty, Clear, Token, Redeemed,
       NoToken, Shape, Holding, Refreshing, TypeOK, Contents
<1>31. ASSUME UNCHANGED vars PROVE Shape'
  BY <1>31 DEF vars, Shape, Holding, Refreshing, TypeOK, Over, Contents
<1> QED
  BY <1>1, <1>2, <1>3, <1>4, <1>5, <1>6, <1>7, <1>8, <1>9, <1>10, <1>11,
       <1>12, <1>13, <1>14, <1>15, <1>16, <1>17, <1>18, <1>19, <1>20, <1>21,
       <1>22, <1>23, <1>24, <1>25, <1>26, <1>27, <1>28, <1>29, <1>30, <1>31
     DEF Next, Begin, Progress, Enter, Apply, Return

(* Every step keeps the snapshots behind the file: who writes makes the    *)
(* file newer than all of them, and who takes its revision has read what   *)
(* it still contains.                                                      *)
LEMMA SnapshotStep ==
  ASSUME TypeOK, TypeOK', Shape, BaseCurrent, SnapshotInv, [Next]_vars
  PROVE  SnapshotInv'
<1> USE AuthAssumption DEF Users, At, Active, lockVars, fileVars, workVars, cacheVars, serverVars
<1>1. ASSUME NEW o \in Ops, ReadLatest(o) PROVE SnapshotInv'
  BY <1>1 DEF ReadLatest, Running, Got, ExpiresSoon, SnapshotInv, TypeOK,
       Holding, Over, Contents, Shape, Refreshing
<1>2. ASSUME NEW o \in Ops, Login(o) PROVE SnapshotInv'
  BY <1>2 DEF Login, Running, SnapshotInv, TypeOK, Holding, Over, Contents,
       Shape, Refreshing
<1>3. ASSUME NEW o \in Ops, Logout(o) PROVE SnapshotInv'
  BY <1>3 DEF Logout, Running, SnapshotInv, TypeOK, Holding, Over, Contents,
       Shape, Refreshing
<1>4. ASSUME NEW o \in Ops, SyncSkip(o) PROVE SnapshotInv'
  BY <1>4 DEF SyncSkip, SnapshotInv, TypeOK, Holding, Over, Contents,
       Shape, Refreshing
<1>5. ASSUME NEW o \in Ops, SyncRead(o) PROVE SnapshotInv'
  BY <1>5 DEF SyncRead, SnapshotInv, TypeOK, Holding, Over, Contents,
       Shape, Refreshing
<1>6. ASSUME NEW o \in Users, SyncReload(o) PROVE SnapshotInv'
  <2>1. \A x \in Users : pc'[x] \in {pc[x], "done"}
    BY <1>6 DEF SyncReload, TypeOK
  <2>2. base[o] = file
    BY <1>6 DEF SyncReload, BaseCurrent
  <2>3. \A p \in Procs : \/ cache'[p] = cache[p] /\ rev'[p] = rev[p]
                         \/ cache'[p] = file /\ rev'[p] = frev
    BY <1>6, <2>2 DEF SyncReload, TypeOK
  <2>4. seen[o] = 0 /\ \A x \in Users : x # o => base'[x] = base[x]
    BY <1>6 DEF SyncReload, SnapshotInv, TypeOK
  <2>5. UNCHANGED <<file, frev, next, seen>>
    BY <1>6 DEF SyncReload
  <2> QED
    BY <2>1, <2>3, <2>4, <2>5 DEF SnapshotInv, TypeOK
<1>7. ASSUME NEW o \in Ops, Abort(o) PROVE SnapshotInv'
  BY <1>7 DEF Abort, Holding, SnapshotInv, TypeOK, Over, Contents, Shape,
       Refreshing
<1>8. ASSUME NEW u \in Users, Acquire(u) PROVE SnapshotInv'
  BY <1>8 DEF Acquire, Free, SnapshotInv, TypeOK, Holding, Over, Contents,
       Shape, Refreshing
<1>9. ASSUME NEW u \in Users, GiveUp(u) PROVE SnapshotInv'
  BY <1>9 DEF GiveUp, Free, SnapshotInv, TypeOK, Holding, Over, Contents,
       Shape, Refreshing
<1>10. ASSUME NEW u \in Users, EnterStopped(u) PROVE SnapshotInv'
  BY <1>10 DEF EnterStopped, Stopped, SnapshotInv, TypeOK, Holding, Over,
       Contents, Shape, Refreshing
<1>11. ASSUME NEW u \in Users, ReadUnderLock(u) PROVE SnapshotInv'
  BY <1>11 DEF ReadUnderLock, Stopped, SnapshotInv, TypeOK, Holding, Over, Contents,
       Shape, Refreshing
<1>12. ASSUME NEW u \in Users, EnterReload(u) PROVE SnapshotInv'
  BY <1>12 DEF EnterReload, BaseCurrent, SnapshotInv, TypeOK, Holding,
       Over, Contents, Shape, Refreshing
<1>13. ASSUME NEW u \in Users, EnterChange(u) PROVE SnapshotInv'
  BY <1>13 DEF EnterChange, NoToken, SnapshotInv,
       TypeOK, Holding, Over, Contents, Shape, Refreshing
<1>14. ASSUME NEW u \in Users, EnterRefresh(u) PROVE SnapshotInv'
  BY <1>14 DEF EnterRefresh, ExpiresSoon, SnapshotInv,
       TypeOK, Holding, Over, Contents, Shape, Refreshing
<1>15. ASSUME NEW u \in Users, EnterKeep(u) PROVE SnapshotInv'
  BY <1>15 DEF EnterKeep, ExpiresSoon, BaseCurrent, SnapshotInv, TypeOK,
       Holding, Over, Contents, Shape, Refreshing
<1>16. ASSUME NEW u \in Users, Redeem(u) PROVE SnapshotInv'
  BY <1>16 DEF Redeem, SnapshotInv, TypeOK, Holding, Over, Contents, Shape,
       Refreshing
<1>17. ASSUME NEW u \in Users, RefuseToken(u) PROVE SnapshotInv'
  BY <1>17 DEF RefuseToken, SnapshotInv, TypeOK, Holding, Over, Contents,
       Shape, Refreshing
<1>18. ASSUME NEW u \in Users, Answer(u) PROVE SnapshotInv'
  BY <1>18 DEF Answer, SnapshotInv, TypeOK, Holding, Over, Contents, Shape,
       Refreshing
<1>19. ASSUME NEW u \in Users, RefreshFails(u) PROVE SnapshotInv'
  BY <1>19 DEF RefreshFails, Refreshing, Lose, Token, Redeemed, SnapshotInv,
       TypeOK, Holding, Over, Contents, Shape
<1>20. ASSUME NEW u \in Users, ApplyStopped(u) PROVE SnapshotInv'
  BY <1>20 DEF ApplyStopped, Stopped, Lose, Token, Redeemed, SnapshotInv,
       TypeOK, Holding, Over, Contents, Shape, Refreshing
<1>21. ASSUME NEW u \in Users, ApplyNothing(u) PROVE SnapshotInv'
  BY <1>21 DEF ApplyNothing, Stopped, SnapshotInv, TypeOK, Holding, Over,
       Contents, Shape, Refreshing
<1>22. ASSUME NEW u \in Users, Truncate(u) PROVE SnapshotInv'
  BY <1>22 DEF Truncate, Stopped, Empty, NoToken, SnapshotInv, TypeOK, Holding,
       Over, Contents, Shape, Refreshing
<1>23. ASSUME NEW u \in Users, Write(u) PROVE SnapshotInv'
  BY <1>23 DEF Write, SnapshotInv, TypeOK, Holding, Over, Contents, Shape,
       Refreshing
<1>24. ASSUME NEW u \in Users, Release(u) PROVE SnapshotInv'
  BY <1>24 DEF Release, SnapshotInv, TypeOK, Holding, Over, Contents, Shape,
       Refreshing
<1>25. ASSUME NEW u \in Users, ReturnReload(u) PROVE SnapshotInv'
  BY <1>25 DEF ReturnReload, Readers, Got, Clear, ExpiresSoon, Empty, NoToken,
       SnapshotInv, TypeOK, Holding, Over, Contents, Shape, Refreshing
<1>26. ASSUME NEW u \in Users, ReturnCall(u) PROVE SnapshotInv'
  BY <1>26 DEF ReturnCall, Note, Clear, ProcOf, Empty, NoToken, SnapshotInv,
       TypeOK, Holding, Over, Contents, Shape, Refreshing
<1>27. ASSUME NEW u \in Users, ReturnFailed(u) PROVE SnapshotInv'
  BY <1>27 DEF ReturnFailed, Clear, Empty, NoToken, SnapshotInv, TypeOK,
       Holding, Over, Contents, Shape, Refreshing
<1>28. ASSUME NEW u \in Users, Update(u) PROVE SnapshotInv'
  BY <1>28 DEF Update, Refreshing, SnapshotInv, TypeOK, Holding, Over,
       Contents, Shape
<1>29. ASSUME Tick PROVE SnapshotInv'
  BY <1>29 DEF Tick, Holding, Refreshing, ProcOf, Free, Upto, SnapshotInv,
       TypeOK, Over, Contents, Shape
<1>30. ASSUME NEW p \in Procs, Kill(p) PROVE SnapshotInv'
  BY <1>30 DEF Kill, ProcOf, Over, Lose, Empty, Clear, Token, Redeemed,
       NoToken, SnapshotInv, TypeOK, Holding, Contents, Shape, Refreshing
<1>31. ASSUME UNCHANGED vars PROVE SnapshotInv'
  BY <1>31 DEF vars, SnapshotInv, TypeOK, Holding, Over, Contents, Shape,
       Refreshing
<1> QED
  BY <1>1, <1>2, <1>3, <1>4, <1>5, <1>6, <1>7, <1>8, <1>9, <1>10, <1>11,
       <1>12, <1>13, <1>14, <1>15, <1>16, <1>17, <1>18, <1>19, <1>20, <1>21,
       <1>22, <1>23, <1>24, <1>25, <1>26, <1>27, <1>28, <1>29, <1>30, <1>31
     DEF Next, Begin, Progress, Enter, Apply, Return

(* Only a process whose constructor has run takes part.                    *)
LEMMA StartedStep ==
  ASSUME TypeOK, Shape, Started, [Next]_vars
  PROVE  Started'
<1> USE AuthAssumption DEF Users, At, Active, lockVars, fileVars, workVars, cacheVars, serverVars
<1>1. ASSUME NEW o \in Ops, ReadLatest(o) PROVE Started'
  BY <1>1 DEF ReadLatest, Running, Got, ExpiresSoon, Started, Holding, Begun,
       ProcOf, TypeOK, Over, Contents, Shape, Refreshing
<1>2. ASSUME NEW o \in Ops, Login(o) PROVE Started'
  BY <1>2 DEF Login, Running, Started, Holding, Begun, ProcOf, TypeOK, Over,
       Contents, Shape, Refreshing
<1>3. ASSUME NEW o \in Ops, Logout(o) PROVE Started'
  BY <1>3 DEF Logout, Running, Started, Holding, Begun, ProcOf, TypeOK, Over,
       Contents, Shape, Refreshing
<1>4. ASSUME NEW o \in Ops, SyncSkip(o) PROVE Started'
  BY <1>4 DEF SyncSkip, Started, Holding, Begun, ProcOf, TypeOK, Over,
       Contents, Shape, Refreshing
<1>5. ASSUME NEW o \in Ops, SyncRead(o) PROVE Started'
  BY <1>5 DEF SyncRead, Started, Holding, Begun, ProcOf, TypeOK, Over,
       Contents, Shape, Refreshing
<1>6. ASSUME NEW o \in Users, SyncReload(o) PROVE Started'
  BY <1>6 DEF SyncReload, Started, Holding, Begun, ProcOf, TypeOK, Over,
       Contents, Shape, Refreshing, Running
<1>7. ASSUME NEW o \in Ops, Abort(o) PROVE Started'
  BY <1>7 DEF Abort, Holding, Started, Begun, ProcOf, TypeOK, Over, Contents,
       Shape, Refreshing, Running
<1>8. ASSUME NEW u \in Users, Acquire(u) PROVE Started'
  BY <1>8 DEF Acquire, Free, Started, Holding, Begun, ProcOf, TypeOK, Over,
       Contents, Shape, Refreshing, Running
<1>9. ASSUME NEW u \in Users, GiveUp(u) PROVE Started'
  BY <1>9 DEF GiveUp, Free, Started, Holding, Begun, ProcOf, TypeOK, Over,
       Contents, Shape, Refreshing, Running
<1>10. ASSUME NEW u \in Users, EnterStopped(u) PROVE Started'
  BY <1>10 DEF EnterStopped, Stopped, Started, Holding, Begun, ProcOf, TypeOK,
       Over, Contents, Shape, Refreshing, Running
<1>11. ASSUME NEW u \in Users, ReadUnderLock(u) PROVE Started'
  BY <1>11 DEF ReadUnderLock, Stopped, Started, Holding, Begun, ProcOf, TypeOK, Over,
       Contents, Shape, Refreshing
<1>12. ASSUME NEW u \in Users, EnterReload(u) PROVE Started'
  BY <1>12 DEF EnterReload, Started, Holding, Begun,
       ProcOf, TypeOK, Over, Contents, Shape, Refreshing, Running
<1>13. ASSUME NEW u \in Users, EnterChange(u) PROVE Started'
  BY <1>13 DEF EnterChange, NoToken, Started, Holding,
       Begun, ProcOf, TypeOK, Over, Contents, Shape, Refreshing, Running
<1>14. ASSUME NEW u \in Users, EnterRefresh(u) PROVE Started'
  BY <1>14 DEF EnterRefresh, ExpiresSoon, Started,
       Holding, Begun, ProcOf, TypeOK, Over, Contents, Shape, Refreshing,
       Running
<1>15. ASSUME NEW u \in Users, EnterKeep(u) PROVE Started'
  BY <1>15 DEF EnterKeep, ExpiresSoon, Started,
       Holding, Begun, ProcOf, TypeOK, Over, Contents, Shape, Refreshing,
       Running
<1>16. ASSUME NEW u \in Users, Redeem(u) PROVE Started'
  BY <1>16 DEF Redeem, Started, Holding, Begun, ProcOf, TypeOK, Over, Contents,
       Shape, Refreshing, Running
<1>17. ASSUME NEW u \in Users, RefuseToken(u) PROVE Started'
  BY <1>17 DEF RefuseToken, Started, Holding, Begun, ProcOf, TypeOK, Over,
       Contents, Shape, Refreshing, Running
<1>18. ASSUME NEW u \in Users, Answer(u) PROVE Started'
  BY <1>18 DEF Answer, Started, Holding, Begun, ProcOf, TypeOK, Over, Contents,
       Shape, Refreshing, Running
<1>19. ASSUME NEW u \in Users, RefreshFails(u) PROVE Started'
  BY <1>19 DEF RefreshFails, Refreshing, Lose, Token, Redeemed, Started,
       Holding, Begun, ProcOf, TypeOK, Over, Contents, Shape, Running
<1>20. ASSUME NEW u \in Users, ApplyStopped(u) PROVE Started'
  BY <1>20 DEF ApplyStopped, Stopped, Lose, Token, Redeemed, Started, Holding,
       Begun, ProcOf, TypeOK, Over, Contents, Shape, Refreshing, Running
<1>21. ASSUME NEW u \in Users, ApplyNothing(u) PROVE Started'
  BY <1>21 DEF ApplyNothing, Stopped, Started, Holding, Begun, ProcOf, TypeOK,
       Over, Contents, Shape, Refreshing, Running
<1>22. ASSUME NEW u \in Users, Truncate(u) PROVE Started'
  BY <1>22 DEF Truncate, Stopped, Empty, NoToken, Started, Holding, Begun,
       ProcOf, TypeOK, Over, Contents, Shape, Refreshing, Running
<1>23. ASSUME NEW u \in Users, Write(u) PROVE Started'
  BY <1>23 DEF Write, Started, Holding, Begun, ProcOf, TypeOK, Over, Contents,
       Shape, Refreshing, Running
<1>24. ASSUME NEW u \in Users, Release(u) PROVE Started'
  BY <1>24 DEF Release, Started, Holding, Begun, ProcOf, TypeOK, Over,
       Contents, Shape, Refreshing, Running
<1>25. ASSUME NEW u \in Users, ReturnReload(u) PROVE Started'
  BY <1>25 DEF ReturnReload, Readers, Got, Clear, ExpiresSoon, Empty, NoToken,
       Started, Holding, Begun, ProcOf, TypeOK, Over, Contents, Shape,
       Refreshing, Running
<1>26. ASSUME NEW u \in Users, ReturnCall(u) PROVE Started'
  BY <1>26 DEF ReturnCall, Note, Clear, ProcOf, Empty, NoToken, Started,
       Holding, Begun, TypeOK, Over, Contents, Shape, Refreshing, Running
<1>27. ASSUME NEW u \in Users, ReturnFailed(u) PROVE Started'
  BY <1>27 DEF ReturnFailed, Clear, Empty, NoToken, Started, Holding, Begun,
       ProcOf, TypeOK, Over, Contents, Shape, Refreshing, Running
<1>28. ASSUME NEW u \in Users, Update(u) PROVE Started'
  BY <1>28 DEF Update, Refreshing, Started, Holding, Begun, ProcOf, TypeOK,
       Over, Contents, Shape, Running
<1>29. ASSUME Tick PROVE Started'
  BY <1>29 DEF Tick, Holding, Refreshing, ProcOf, Free, Upto, Started, Begun,
       TypeOK, Over, Contents, Shape, Running
<1>30. ASSUME NEW p \in Procs, Kill(p) PROVE Started'
  BY <1>30 DEF Kill, ProcOf, Over, Lose, Empty, Clear, Token, Redeemed,
       NoToken, Started, Holding, Begun, TypeOK, Contents, Shape, Refreshing,
       Running
<1>31. ASSUME UNCHANGED vars PROVE Started'
  BY <1>31 DEF vars, Started, Holding, Begun, ProcOf, TypeOK, Over, Contents,
       Shape, Refreshing, Running
<1> QED
  BY <1>1, <1>2, <1>3, <1>4, <1>5, <1>6, <1>7, <1>8, <1>9, <1>10, <1>11,
       <1>12, <1>13, <1>14, <1>15, <1>16, <1>17, <1>18, <1>19, <1>20, <1>21,
       <1>22, <1>23, <1>24, <1>25, <1>26, <1>27, <1>28, <1>29, <1>30, <1>31
     DEF Next, Begin, Progress, Enter, Apply, Return

(* Nobody takes the lock of a holder over: lock waits until the file is    *)
(* older than any hold, and lockSync meets, when refreshes are quick       *)
(* enough, only lock files that nobody holds any longer.                   *)
LEMMA LockedStep ==
  ASSUME QuickEnough, TypeOK, TypeOK', Shape, Started, Locked, [Next]_vars
  PROVE  Locked'
<1> USE AuthAssumption DEF Users, At, Active, lockVars, fileVars, workVars, cacheVars, serverVars
<1>1. ASSUME NEW o \in Ops, ReadLatest(o) PROVE Locked'
  BY <1>1 DEF ReadLatest, Running, Got, ExpiresSoon, Locked, Holding, ProcOf,
       TypeOK, Over, Contents, Shape, Refreshing, Started, Begun, QuickEnough
<1>2. ASSUME NEW o \in Ops, Login(o) PROVE Locked'
  BY <1>2 DEF Login, Running, Locked, Holding, ProcOf, TypeOK, Over, Contents,
       Shape, Refreshing, Started, Begun, QuickEnough
<1>3. ASSUME NEW o \in Ops, Logout(o) PROVE Locked'
  BY <1>3 DEF Logout, Running, Locked, Holding, ProcOf, TypeOK, Over, Contents,
       Shape, Refreshing, Started, Begun, QuickEnough
<1>4. ASSUME NEW o \in Ops, SyncSkip(o) PROVE Locked'
  BY <1>4 DEF SyncSkip, Locked, Holding, ProcOf, TypeOK, Over, Contents,
       Shape, Refreshing, Started, Begun, QuickEnough
<1>5. ASSUME NEW o \in Ops, SyncRead(o) PROVE Locked'
  <2>1. ASSUME NEW v \in Users, pc[v] \in Holding PROVE FALSE
    <3>1. lock = v /\ lockAge <= held[v] /\ held[v] <= Longest[ProcOf(v)] /\ ProcOf(v) \in Procs
      BY <2>1 DEF Locked, ProcOf
    <3>2. ~(Longest[ProcOf(v)] < SyncStale)
      BY <1>5, <3>1 DEF SyncRead, TypeOK
    <3>3. Proc[o] = ProcOf(v)
      BY <1>5, <3>1, <3>2 DEF SyncRead, QuickEnough
    <3>4. v \in Ops /\ Kind[v] = "start"
      BY <1>5, <2>1, <3>3 DEF SyncRead, Started, Begun
    <3>5. Busy(v)
      BY <2>1, <3>4 DEF Shape, Busy
    <3> QED
      BY <1>5, <2>1, <3>3, <3>5 DEF SyncRead, Turn, ProcOf, Holding
  <2>2. held[o] = 0 /\ lock' = o /\ lockAge' = 0 /\ ProcOf(o) \in Procs
    BY <1>5 DEF SyncRead, Locked, Holding, ProcOf
  <2>3. \A v \in Users : pc'[v] = IF v = o THEN "entered" ELSE pc[v]
    BY <1>5 DEF SyncRead, TypeOK
  <2>4. UNCHANGED <<held, compromised>>
    BY <1>5 DEF SyncRead
  <2> QED
    BY <2>1, <2>2, <2>3, <2>4 DEF Locked, Holding, TypeOK
<1>6. ASSUME NEW o \in Users, SyncReload(o) PROVE Locked'
  <2>1. \A v \in Users : pc'[v] = IF v = o THEN "done" ELSE pc[v]
    BY <1>6 DEF SyncReload, TypeOK
  <2>2. \A v \in Users : v # o => pc[v] \notin Holding
    BY <1>6 DEF SyncReload, Locked, Holding
  <2>3. held[o] = 0 /\ UNCHANGED <<held, compromised>>
    BY <1>6 DEF SyncReload, Locked
  <2> QED
    BY <2>1, <2>2, <2>3 DEF Locked, Holding
<1>7. ASSUME NEW o \in Ops, Abort(o) PROVE Locked'
  BY <1>7 DEF Abort, Holding, Locked, ProcOf, TypeOK, Over, Contents, Shape,
       Refreshing, Started, Begun, QuickEnough
<1>8. ASSUME NEW u \in Users, Acquire(u) PROVE Locked'
  <2>1. ASSUME NEW v \in Users, pc[v] \in Holding PROVE FALSE
    <3>1. lock = v /\ lockAge <= held[v] /\ held[v] <= Longest[ProcOf(v)]
      BY <2>1 DEF Locked
    <3>2. ProcOf(v) \in Procs
      BY DEF ProcOf
    <3>3. lockAge < Stale
      BY <3>1, <3>2 DEF TypeOK
    <3> QED
      BY <1>8, <3>1, <3>3 DEF Acquire, Free, TypeOK
  <2>2. ProcOf(u) \in Procs
    BY DEF ProcOf
  <2>3. held[u] = 0 /\ lock' = u /\ lockAge' = 0
    BY <1>8 DEF Acquire, Locked, Holding
  <2>4. \A v \in Users : pc'[v] = IF v = u THEN "locked" ELSE pc[v]
    BY <1>8 DEF Acquire, TypeOK
  <2>5. UNCHANGED <<held, compromised>>
    BY <1>8 DEF Acquire
  <2> QED
    BY <2>1, <2>2, <2>3, <2>4, <2>5 DEF Locked, Holding, TypeOK
<1>9. ASSUME NEW u \in Users, GiveUp(u) PROVE Locked'
  BY <1>9 DEF GiveUp, Free, Locked, Holding, ProcOf, TypeOK, Over, Contents,
       Shape, Refreshing, Started, Begun, QuickEnough
<1>10. ASSUME NEW u \in Users, EnterStopped(u) PROVE Locked'
  BY <1>10 DEF EnterStopped, Stopped, Locked, Holding, ProcOf, TypeOK, Over,
       Contents, Shape, Refreshing, Started, Begun, QuickEnough
<1>11. ASSUME NEW u \in Users, ReadUnderLock(u) PROVE Locked'
  BY <1>11 DEF ReadUnderLock, Stopped, Locked, Holding, ProcOf, TypeOK, Over, Contents,
       Shape, Refreshing, Started, Begun, QuickEnough
<1>12. ASSUME NEW u \in Users, EnterReload(u) PROVE Locked'
  BY <1>12 DEF EnterReload, Locked, Holding, ProcOf,
       TypeOK, Over, Contents, Shape, Refreshing, Started, Begun, QuickEnough
<1>13. ASSUME NEW u \in Users, EnterChange(u) PROVE Locked'
  BY <1>13 DEF EnterChange, NoToken, Locked, Holding,
       ProcOf, TypeOK, Over, Contents, Shape, Refreshing, Started, Begun,
       QuickEnough
<1>14. ASSUME NEW u \in Users, EnterRefresh(u) PROVE Locked'
  BY <1>14 DEF EnterRefresh, ExpiresSoon, Locked,
       Holding, ProcOf, TypeOK, Over, Contents, Shape, Refreshing, Started,
       Begun, QuickEnough
<1>15. ASSUME NEW u \in Users, EnterKeep(u) PROVE Locked'
  BY <1>15 DEF EnterKeep, ExpiresSoon, Locked, Holding,
       ProcOf, TypeOK, Over, Contents, Shape, Refreshing, Started, Begun,
       QuickEnough
<1>16. ASSUME NEW u \in Users, Redeem(u) PROVE Locked'
  BY <1>16 DEF Redeem, Locked, Holding, ProcOf, TypeOK, Over, Contents, Shape,
       Refreshing, Started, Begun, QuickEnough
<1>17. ASSUME NEW u \in Users, RefuseToken(u) PROVE Locked'
  BY <1>17 DEF RefuseToken, Locked, Holding, ProcOf, TypeOK, Over, Contents,
       Shape, Refreshing, Started, Begun, QuickEnough
<1>18. ASSUME NEW u \in Users, Answer(u) PROVE Locked'
  BY <1>18 DEF Answer, Locked, Holding, ProcOf, TypeOK, Over, Contents, Shape,
       Refreshing, Started, Begun, QuickEnough
<1>19. ASSUME NEW u \in Users, RefreshFails(u) PROVE Locked'
  BY <1>19 DEF RefreshFails, Refreshing, Lose, Token, Redeemed, Locked,
       Holding, ProcOf, TypeOK, Over, Contents, Shape, Started, Begun,
       QuickEnough
<1>20. ASSUME NEW u \in Users, ApplyStopped(u) PROVE Locked'
  BY <1>20 DEF ApplyStopped, Stopped, Lose, Token, Redeemed, Locked, Holding,
       ProcOf, TypeOK, Over, Contents, Shape, Refreshing, Started, Begun,
       QuickEnough
<1>21. ASSUME NEW u \in Users, ApplyNothing(u) PROVE Locked'
  BY <1>21 DEF ApplyNothing, Stopped, Locked, Holding, ProcOf, TypeOK, Over,
       Contents, Shape, Refreshing, Started, Begun, QuickEnough
<1>22. ASSUME NEW u \in Users, Truncate(u) PROVE Locked'
  BY <1>22 DEF Truncate, Stopped, Empty, NoToken, Locked, Holding, ProcOf,
       TypeOK, Over, Contents, Shape, Refreshing, Started, Begun, QuickEnough
<1>23. ASSUME NEW u \in Users, Write(u) PROVE Locked'
  BY <1>23 DEF Write, Locked, Holding, ProcOf, TypeOK, Over, Contents, Shape,
       Refreshing, Started, Begun, QuickEnough
<1>24. ASSUME NEW u \in Users, Release(u) PROVE Locked'
  BY <1>24 DEF Release, Locked, Holding, ProcOf, TypeOK, Over, Contents, Shape,
       Refreshing, Started, Begun, QuickEnough
<1>25. ASSUME NEW u \in Users, ReturnReload(u) PROVE Locked'
  BY <1>25 DEF ReturnReload, Readers, Got, Clear, ExpiresSoon, Empty, NoToken,
       Locked, Holding, ProcOf, TypeOK, Over, Contents, Shape, Refreshing,
       Started, Begun, QuickEnough
<1>26. ASSUME NEW u \in Users, ReturnCall(u) PROVE Locked'
  BY <1>26 DEF ReturnCall, Note, Clear, ProcOf, Empty, NoToken, Locked,
       Holding, TypeOK, Over, Contents, Shape, Refreshing, Started, Begun,
       QuickEnough
<1>27. ASSUME NEW u \in Users, ReturnFailed(u) PROVE Locked'
  BY <1>27 DEF ReturnFailed, Clear, Empty, NoToken, Locked, Holding, ProcOf,
       TypeOK, Over, Contents, Shape, Refreshing, Started, Begun, QuickEnough
<1>28. ASSUME NEW u \in Users, Update(u) PROVE Locked'
  BY <1>28 DEF Update, Refreshing, Locked, Holding, ProcOf, TypeOK, Over,
       Contents, Shape, Started, Begun, QuickEnough
<1>29. ASSUME Tick PROVE Locked'
  BY <1>29 DEF Tick, Holding, Refreshing, ProcOf, Free, Upto, Locked, TypeOK,
       Over, Contents, Shape, Started, Begun, QuickEnough
<1>30. ASSUME NEW p \in Procs, Kill(p) PROVE Locked'
  BY <1>30 DEF Kill, ProcOf, Over, Lose, Empty, Clear, Token, Redeemed,
       NoToken, Locked, Holding, TypeOK, Contents, Shape, Refreshing, Started,
       Begun, QuickEnough
<1>31. ASSUME UNCHANGED vars PROVE Locked'
  BY <1>31 DEF vars, Locked, Holding, ProcOf, TypeOK, Over, Contents, Shape,
       Refreshing, Started, Begun, QuickEnough
<1> QED
  BY <1>1, <1>2, <1>3, <1>4, <1>5, <1>6, <1>7, <1>8, <1>9, <1>10, <1>11,
       <1>12, <1>13, <1>14, <1>15, <1>16, <1>17, <1>18, <1>19, <1>20, <1>21,
       <1>22, <1>23, <1>24, <1>25, <1>26, <1>27, <1>28, <1>29, <1>30, <1>31
     DEF Next, Begin, Progress, Enter, Apply, Return

(* Only the holder changes the file.                                       *)
LEMMA BaseStep ==
  ASSUME TypeOK, Shape, Locked, BaseCurrent, [Next]_vars
  PROVE  BaseCurrent'
<1> USE AuthAssumption DEF Users, At, Active, lockVars, fileVars, workVars, cacheVars, serverVars
<1>1. ASSUME NEW o \in Ops, ReadLatest(o) PROVE BaseCurrent'
  BY <1>1 DEF ReadLatest, Running, Got, ExpiresSoon, BaseCurrent, TypeOK,
       Holding, Over, Contents, Locked, ProcOf
<1>2. ASSUME NEW o \in Ops, Login(o) PROVE BaseCurrent'
  BY <1>2 DEF Login, Running, BaseCurrent, TypeOK, Holding, Over, Contents,
       Locked, ProcOf
<1>3. ASSUME NEW o \in Ops, Logout(o) PROVE BaseCurrent'
  BY <1>3 DEF Logout, Running, BaseCurrent, TypeOK, Holding, Over, Contents,
       Locked, ProcOf
<1>4. ASSUME NEW o \in Ops, SyncSkip(o) PROVE BaseCurrent'
  BY <1>4 DEF SyncSkip, BaseCurrent, TypeOK, Holding, Over, Contents,
       Locked, ProcOf
<1>5. ASSUME NEW o \in Ops, SyncRead(o) PROVE BaseCurrent'
  BY <1>5 DEF SyncRead, BaseCurrent, TypeOK, Holding, Over, Contents,
       Locked, ProcOf
<1>6. ASSUME NEW o \in Users, SyncReload(o) PROVE BaseCurrent'
  BY <1>6 DEF SyncReload, BaseCurrent, TypeOK, Holding, Over, Contents, Locked,
       ProcOf
<1>7. ASSUME NEW o \in Ops, Abort(o) PROVE BaseCurrent'
  BY <1>7 DEF Abort, Holding, BaseCurrent, TypeOK, Over, Contents, Locked,
       ProcOf
<1>8. ASSUME NEW u \in Users, Acquire(u) PROVE BaseCurrent'
  BY <1>8 DEF Acquire, Free, BaseCurrent, TypeOK, Holding, Over, Contents,
       Locked, ProcOf
<1>9. ASSUME NEW u \in Users, GiveUp(u) PROVE BaseCurrent'
  BY <1>9 DEF GiveUp, Free, BaseCurrent, TypeOK, Holding, Over, Contents,
       Locked, ProcOf
<1>10. ASSUME NEW u \in Users, EnterStopped(u) PROVE BaseCurrent'
  BY <1>10 DEF EnterStopped, Stopped, BaseCurrent, TypeOK, Holding, Over,
       Contents, Locked, ProcOf
<1>11. ASSUME NEW u \in Users, ReadUnderLock(u) PROVE BaseCurrent'
  BY <1>11 DEF ReadUnderLock, Stopped, BaseCurrent, TypeOK, Holding, Over, Contents,
       Locked, ProcOf
<1>12. ASSUME NEW u \in Users, EnterReload(u) PROVE BaseCurrent'
  BY <1>12 DEF EnterReload, BaseCurrent, TypeOK,
       Holding, Over, Contents, Locked, ProcOf
<1>13. ASSUME NEW u \in Users, EnterChange(u) PROVE BaseCurrent'
  BY <1>13 DEF EnterChange, NoToken, BaseCurrent,
       TypeOK, Holding, Over, Contents, Locked, ProcOf
<1>14. ASSUME NEW u \in Users, EnterRefresh(u) PROVE BaseCurrent'
  BY <1>14 DEF EnterRefresh, ExpiresSoon, BaseCurrent,
       TypeOK, Holding, Over, Contents, Locked, ProcOf
<1>15. ASSUME NEW u \in Users, EnterKeep(u) PROVE BaseCurrent'
  BY <1>15 DEF EnterKeep, ExpiresSoon, BaseCurrent,
       TypeOK, Holding, Over, Contents, Locked, ProcOf
<1>16. ASSUME NEW u \in Users, Redeem(u) PROVE BaseCurrent'
  BY <1>16 DEF Redeem, BaseCurrent, TypeOK, Holding, Over, Contents, Locked,
       ProcOf
<1>17. ASSUME NEW u \in Users, RefuseToken(u) PROVE BaseCurrent'
  BY <1>17 DEF RefuseToken, BaseCurrent, TypeOK, Holding, Over, Contents,
       Locked, ProcOf
<1>18. ASSUME NEW u \in Users, Answer(u) PROVE BaseCurrent'
  BY <1>18 DEF Answer, BaseCurrent, TypeOK, Holding, Over, Contents, Locked,
       ProcOf
<1>19. ASSUME NEW u \in Users, RefreshFails(u) PROVE BaseCurrent'
  BY <1>19 DEF RefreshFails, Refreshing, Lose, Token, Redeemed, BaseCurrent,
       TypeOK, Holding, Over, Contents, Locked, ProcOf
<1>20. ASSUME NEW u \in Users, ApplyStopped(u) PROVE BaseCurrent'
  BY <1>20 DEF ApplyStopped, Stopped, Lose, Token, Redeemed, BaseCurrent,
       TypeOK, Holding, Over, Contents, Locked, ProcOf
<1>21. ASSUME NEW u \in Users, ApplyNothing(u) PROVE BaseCurrent'
  BY <1>21 DEF ApplyNothing, Stopped, BaseCurrent, TypeOK, Holding, Over,
       Contents, Locked, ProcOf
<1>22. ASSUME NEW u \in Users, Truncate(u) PROVE BaseCurrent'
  BY <1>22 DEF Truncate, Stopped, Empty, NoToken, BaseCurrent, TypeOK, Holding,
       Over, Contents, Locked, ProcOf
<1>23. ASSUME NEW u \in Users, Write(u) PROVE BaseCurrent'
  BY <1>23 DEF Write, BaseCurrent, TypeOK, Holding, Over, Contents, Locked,
       ProcOf
<1>24. ASSUME NEW u \in Users, Release(u) PROVE BaseCurrent'
  BY <1>24 DEF Release, BaseCurrent, TypeOK, Holding, Over, Contents, Locked,
       ProcOf
<1>25. ASSUME NEW u \in Users, ReturnReload(u) PROVE BaseCurrent'
  BY <1>25 DEF ReturnReload, Readers, Got, Clear, ExpiresSoon, Empty, NoToken,
       BaseCurrent, TypeOK, Holding, Over, Contents, Locked, ProcOf
<1>26. ASSUME NEW u \in Users, ReturnCall(u) PROVE BaseCurrent'
  BY <1>26 DEF ReturnCall, Note, Clear, ProcOf, Empty, NoToken, BaseCurrent,
       TypeOK, Holding, Over, Contents, Locked
<1>27. ASSUME NEW u \in Users, ReturnFailed(u) PROVE BaseCurrent'
  BY <1>27 DEF ReturnFailed, Clear, Empty, NoToken, BaseCurrent, TypeOK,
       Holding, Over, Contents, Locked, ProcOf
<1>28. ASSUME NEW u \in Users, Update(u) PROVE BaseCurrent'
  BY <1>28 DEF Update, Refreshing, BaseCurrent, TypeOK, Holding, Over,
       Contents, Locked, ProcOf
<1>29. ASSUME Tick PROVE BaseCurrent'
  BY <1>29 DEF Tick, Holding, Refreshing, ProcOf, Free, Upto, BaseCurrent,
       TypeOK, Over, Contents, Locked
<1>30. ASSUME NEW p \in Procs, Kill(p) PROVE BaseCurrent'
  BY <1>30 DEF Kill, ProcOf, Over, Lose, Empty, Clear, Token, Redeemed,
       NoToken, BaseCurrent, TypeOK, Holding, Contents, Locked
<1>31. ASSUME UNCHANGED vars PROVE BaseCurrent'
  BY <1>31 DEF vars, BaseCurrent, TypeOK, Holding, Over, Contents, Locked,
       ProcOf
<1> QED
  BY <1>1, <1>2, <1>3, <1>4, <1>5, <1>6, <1>7, <1>8, <1>9, <1>10, <1>11,
       <1>12, <1>13, <1>14, <1>15, <1>16, <1>17, <1>18, <1>19, <1>20, <1>21,
       <1>22, <1>23, <1>24, <1>25, <1>26, <1>27, <1>28, <1>29, <1>30, <1>31
     DEF Next, Begin, Progress, Enter, Apply, Return

(* What is written comes from what was read, with a new token.             *)
LEMMA NextStep ==
  ASSUME TypeOK, Shape, SnapshotInv, NextOK, [Next]_vars
  PROVE  NextOK'
<1> USE AuthAssumption DEF Users, At, Active, lockVars, fileVars, workVars, cacheVars, serverVars
<1>1. ASSUME NEW o \in Ops, ReadLatest(o) PROVE NextOK'
  BY <1>1 DEF ReadLatest, Running, Got, ExpiresSoon, NextOK, Holding,
       Refreshing, Redeemed, TypeOK, Over, Contents, Shape, SnapshotInv
<1>2. ASSUME NEW o \in Ops, Login(o) PROVE NextOK'
  BY <1>2 DEF Login, Running, NextOK, Holding, Refreshing, Redeemed, TypeOK,
       Over, Contents, Shape, SnapshotInv
<1>3. ASSUME NEW o \in Ops, Logout(o) PROVE NextOK'
  BY <1>3 DEF Logout, Running, NextOK, Holding, Refreshing, Redeemed, TypeOK,
       Over, Contents, Shape, SnapshotInv
<1>4. ASSUME NEW o \in Ops, SyncSkip(o) PROVE NextOK'
  BY <1>4 DEF SyncSkip, NextOK, Holding, Refreshing, Redeemed, TypeOK,
       Over, Contents, Shape, SnapshotInv
<1>5. ASSUME NEW o \in Ops, SyncRead(o) PROVE NextOK'
  BY <1>5 DEF SyncRead, NextOK, Holding, Refreshing, Redeemed, TypeOK,
       Over, Contents, Shape, SnapshotInv
<1>6. ASSUME NEW o \in Users, SyncReload(o) PROVE NextOK'
  BY <1>6 DEF SyncReload, NextOK, Holding, Refreshing, Redeemed, TypeOK, Over,
       Contents, Shape, SnapshotInv
<1>7. ASSUME NEW o \in Ops, Abort(o) PROVE NextOK'
  BY <1>7 DEF Abort, Holding, NextOK, Refreshing, Redeemed, TypeOK, Over,
       Contents, Shape, SnapshotInv
<1>8. ASSUME NEW u \in Users, Acquire(u) PROVE NextOK'
  BY <1>8 DEF Acquire, Free, NextOK, Holding, Refreshing, Redeemed, TypeOK,
       Over, Contents, Shape, SnapshotInv
<1>9. ASSUME NEW u \in Users, GiveUp(u) PROVE NextOK'
  BY <1>9 DEF GiveUp, Free, NextOK, Holding, Refreshing, Redeemed, TypeOK,
       Over, Contents, Shape, SnapshotInv
<1>10. ASSUME NEW u \in Users, EnterStopped(u) PROVE NextOK'
  BY <1>10 DEF EnterStopped, Stopped, NextOK, Holding, Refreshing, Redeemed,
       TypeOK, Over, Contents, Shape, SnapshotInv
<1>11. ASSUME NEW u \in Users, ReadUnderLock(u) PROVE NextOK'
  BY <1>11 DEF ReadUnderLock, Stopped, NextOK, Holding, Refreshing, Redeemed, TypeOK,
       Over, Contents, Shape, SnapshotInv
<1>12. ASSUME NEW u \in Users, EnterReload(u) PROVE NextOK'
  BY <1>12 DEF EnterReload, NextOK, Holding, Refreshing,
       Redeemed, TypeOK, Over, Contents, Shape, SnapshotInv
<1>13. ASSUME NEW u \in Users, EnterChange(u) PROVE NextOK'
  BY <1>13 DEF EnterChange, NoToken, NextOK, Holding,
       Refreshing, Redeemed, TypeOK, Over, Contents, Shape, SnapshotInv
<1>14. ASSUME NEW u \in Users, EnterRefresh(u) PROVE NextOK'
  BY <1>14 DEF EnterRefresh, ExpiresSoon, NextOK,
       Holding, Refreshing, Redeemed, TypeOK, Over, Contents, Shape,
       SnapshotInv
<1>15. ASSUME NEW u \in Users, EnterKeep(u) PROVE NextOK'
  BY <1>15 DEF EnterKeep, ExpiresSoon, NextOK, Holding,
       Refreshing, Redeemed, TypeOK, Over, Contents, Shape, SnapshotInv
<1>16. ASSUME NEW u \in Users, Redeem(u) PROVE NextOK'
  <2>1. u \in Ops /\ Kind[u] = "resolve" /\ base[u][Provider[u]] = 1
    BY <1>16 DEF Redeem, Shape, Refreshing, NextOK
  <2>2. Provider[u] \in Providers /\ issued[Provider[u]] + 1 > 1
    BY <2>1 DEF NextOK, TypeOK
  <2>3. /\ next' = [next EXCEPT ![u] = [base[u] EXCEPT ![Provider[u]] = issued[Provider[u]] + 1]]
        /\ issued' = [issued EXCEPT ![Provider[u]] = issued[Provider[u]] + 1]
        /\ pc' = [pc EXCEPT ![u] = "answering"] /\ base' = base /\ got' = got
    BY <1>16 DEF Redeem
  <2>4. \A x \in Ops \ {u} : pc'[x] = pc[x] /\ next'[x] = next[x]
    BY <2>3 DEF TypeOK
  <2>5. /\ pc'[u] = "answering" /\ next'[u] # None
        /\ next'[u][Provider[u]] = issued[Provider[u]] + 1
        /\ \A q \in Providers \ {Provider[u]} : next'[u][q] = base[u][q]
    BY <2>1, <2>2, <2>3 DEF TypeOK, Contents
  <2>6. \A p \in Providers : issued'[p] >= issued[p]
    BY <2>2, <2>3 DEF TypeOK
  <2>7. \A p \in Providers : issued[p] \in Nat /\ issued'[p] \in Nat
    BY <2>2, <2>3 DEF TypeOK
  <2> QED
    BY <2>1, <2>2, <2>3, <2>4, <2>5, <2>6, <2>7 DEF NextOK, Holding, Refreshing, Redeemed
<1>17. ASSUME NEW u \in Users, RefuseToken(u) PROVE NextOK'
  BY <1>17 DEF RefuseToken, NextOK, Holding, Refreshing, Redeemed, TypeOK,
       Over, Contents, Shape, SnapshotInv
<1>18. ASSUME NEW u \in Users, Answer(u) PROVE NextOK'
  BY <1>18 DEF Answer, NextOK, Holding, Refreshing, Redeemed, TypeOK, Over,
       Contents, Shape, SnapshotInv
<1>19. ASSUME NEW u \in Users, RefreshFails(u) PROVE NextOK'
  BY <1>19 DEF RefreshFails, Refreshing, Lose, Token, Redeemed, NextOK,
       Holding, TypeOK, Over, Contents, Shape, SnapshotInv
<1>20. ASSUME NEW u \in Users, ApplyStopped(u) PROVE NextOK'
  BY <1>20 DEF ApplyStopped, Stopped, Lose, Token, Redeemed, NextOK, Holding,
       Refreshing, TypeOK, Over, Contents, Shape, SnapshotInv
<1>21. ASSUME NEW u \in Users, ApplyNothing(u) PROVE NextOK'
  BY <1>21 DEF ApplyNothing, Stopped, NextOK, Holding, Refreshing, Redeemed,
       TypeOK, Over, Contents, Shape, SnapshotInv
<1>22. ASSUME NEW u \in Users, Truncate(u) PROVE NextOK'
  BY <1>22 DEF Truncate, Stopped, Empty, NoToken, NextOK, Holding, Refreshing,
       Redeemed, TypeOK, Over, Contents, Shape, SnapshotInv
<1>23. ASSUME NEW u \in Users, Write(u) PROVE NextOK'
  BY <1>23 DEF Write, NextOK, Holding, Refreshing, Redeemed, TypeOK, Over,
       Contents, Shape, SnapshotInv
<1>24. ASSUME NEW u \in Users, Release(u) PROVE NextOK'
  BY <1>24 DEF Release, NextOK, Holding, Refreshing, Redeemed, TypeOK, Over,
       Contents, Shape, SnapshotInv
<1>25. ASSUME NEW u \in Users, ReturnReload(u) PROVE NextOK'
  <2>1. \A x \in Ops : pc'[x] = pc[x] \/ (pc[x] = "reloading" /\ pc'[x] \in {"locking", "done", "failed"})
    BY <1>25 DEF ReturnReload, Readers, Got
  <2>2. \A x \in Ops : base'[x] = base[x] /\ next'[x] = next[x]
    BY <1>25 DEF ReturnReload, Clear, TypeOK
  <2>3. UNCHANGED <<issued, got>>
    BY <1>25 DEF ReturnReload, serverVars
  <2> QED
    BY <2>1, <2>2, <2>3 DEF NextOK, Shape, Holding, Refreshing, Redeemed
<1>26. ASSUME NEW u \in Users, ReturnCall(u) PROVE NextOK'
  BY <1>26 DEF ReturnCall, Note, Clear, ProcOf, Empty, NoToken, NextOK,
       Holding, Refreshing, Redeemed, TypeOK, Over, Contents, Shape,
       SnapshotInv
<1>27. ASSUME NEW u \in Users, ReturnFailed(u) PROVE NextOK'
  BY <1>27 DEF ReturnFailed, Clear, Empty, NoToken, NextOK, Holding,
       Refreshing, Redeemed, TypeOK, Over, Contents, Shape, SnapshotInv
<1>28. ASSUME NEW u \in Users, Update(u) PROVE NextOK'
  BY <1>28 DEF Update, Refreshing, NextOK, Holding, Redeemed, TypeOK, Over,
       Contents, Shape, SnapshotInv
<1>29. ASSUME Tick PROVE NextOK'
  BY <1>29 DEF Tick, Holding, Refreshing, ProcOf, Free, Upto, NextOK, Redeemed,
       TypeOK, Over, Contents, Shape, SnapshotInv
<1>30. ASSUME NEW p \in Procs, Kill(p) PROVE NextOK'
  BY <1>30 DEF Kill, ProcOf, Over, Lose, Empty, Clear, Token, Redeemed,
       NoToken, NextOK, Holding, Refreshing, TypeOK, Contents, Shape,
       SnapshotInv
<1>31. ASSUME UNCHANGED vars PROVE NextOK'
  BY <1>31 DEF vars, NextOK, Holding, Refreshing, Redeemed, TypeOK, Over,
       Contents, Shape, SnapshotInv
<1> QED
  BY <1>1, <1>2, <1>3, <1>4, <1>5, <1>6, <1>7, <1>8, <1>9, <1>10, <1>11,
       <1>12, <1>13, <1>14, <1>15, <1>16, <1>17, <1>18, <1>19, <1>20, <1>21,
       <1>22, <1>23, <1>24, <1>25, <1>26, <1>27, <1>28, <1>29, <1>30, <1>31
     DEF Next, Begin, Progress, Enter, Apply, Return

(* A step that leaves the file alone keeps TokenInv if it begins no write  *)
(* and every successor on its way stays there or is lost.                  *)
LEMMA TokenKept ==
  ASSUME TypeOK, TokenInv, file' = file,
         \A q \in Providers : Alive(q) => Alive(q)',
         \A o \in Ops : pc[o] \in {"answering", "applied"} /\ Redeemed(o) =>
            \/ pc'[o] \in {"answering", "applied"} /\ Redeemed(o)'
            \/ Alive(Provider[o])',
         \A o \in Ops : pc'[o] = "writing" => pc[o] = "writing" /\ next'[o] = next[o]
  PROVE  TokenInv'
<1>1. ASSUME NEW q \in Providers, OnItsWay(q) PROVE Alive(q)' \/ OnItsWay(q)'
  BY <1>1 DEF OnItsWay
<1> QED
  BY <1>1 DEF TokenInv

(* No stored token is redeemed without its successor being stored or       *)
(* lost.                                                                   *)
LEMMA TokenStep ==
  ASSUME TypeOK, Shape, SnapshotInv, Locked, BaseCurrent, NextOK, TokenInv, [Next]_vars
  PROVE  TokenInv'
<1> USE AuthAssumption DEF Users, At, Active, lockVars, fileVars, workVars, cacheVars, serverVars
<1>1. ASSUME NEW o \in Ops, ReadLatest(o) PROVE TokenInv'
  <2>1. file' = file /\ \A q \in Providers : Alive(q) => Alive(q)'
    BY <1>1 DEF ReadLatest, Running, Got, ExpiresSoon, Alive, Redeemed, TypeOK
  <2>2. \A x \in Ops : pc[x] \in {"answering", "applied"} /\ Redeemed(x) =>
            pc'[x] \in {"answering", "applied"} /\ Redeemed(x)'
    BY <1>1 DEF ReadLatest, Running, Got, ExpiresSoon, Alive, Redeemed, TypeOK
  <2>3. \A x \in Ops : pc'[x] = "writing" => pc[x] = "writing" /\ next'[x] = next[x]
    BY <1>1 DEF ReadLatest, Running, Got, ExpiresSoon, Alive, Redeemed, TypeOK
  <2> QED
    BY <2>1, <2>2, <2>3, TokenKept
<1>2. ASSUME NEW o \in Ops, Login(o) PROVE TokenInv'
  BY <1>2 DEF Login, Running, TokenInv, Alive, OnItsWay, Redeemed, TypeOK,
       Holding, Over, Contents, Shape, Refreshing, Locked, ProcOf, BaseCurrent,
       NextOK
<1>3. ASSUME NEW o \in Ops, Logout(o) PROVE TokenInv'
  BY <1>3 DEF Logout, Running, TokenInv, Alive, OnItsWay, Redeemed, TypeOK,
       Holding, Over, Contents, Shape, Refreshing, Locked, ProcOf, BaseCurrent,
       NextOK
<1>4. ASSUME NEW o \in Ops, SyncSkip(o) PROVE TokenInv'
  BY <1>4 DEF SyncSkip, TokenInv, Alive, OnItsWay, Redeemed, TypeOK,
       Holding, Over, Contents, Shape, Refreshing, Locked, ProcOf, BaseCurrent,
       NextOK
<1>5. ASSUME NEW o \in Ops, SyncRead(o) PROVE TokenInv'
  BY <1>5 DEF SyncRead, TokenInv, Alive, OnItsWay, Redeemed, TypeOK,
       Holding, Over, Contents, Shape, Refreshing, Locked, ProcOf, BaseCurrent,
       NextOK
<1>6. ASSUME NEW o \in Users, SyncReload(o) PROVE TokenInv'
  BY <1>6 DEF SyncReload, TokenInv, Alive, OnItsWay, Redeemed, TypeOK, Holding,
       Over, Contents, Shape, Refreshing, Locked, ProcOf, BaseCurrent, NextOK
<1>7. ASSUME NEW o \in Ops, Abort(o) PROVE TokenInv'
  BY <1>7 DEF Abort, Holding, TokenInv, Alive, OnItsWay, Redeemed, TypeOK,
       Over, Contents, Shape, Refreshing, Locked, ProcOf, BaseCurrent, NextOK
<1>8. ASSUME NEW u \in Users, Acquire(u) PROVE TokenInv'
  <2>1. file' = file /\ \A q \in Providers : Alive(q) => Alive(q)'
    BY <1>8 DEF Acquire, Free, Alive, Redeemed, TypeOK
  <2>2. \A x \in Ops : pc[x] \in {"answering", "applied"} /\ Redeemed(x) =>
            pc'[x] \in {"answering", "applied"} /\ Redeemed(x)'
    BY <1>8 DEF Acquire, Free, Alive, Redeemed, TypeOK
  <2>3. \A x \in Ops : pc'[x] = "writing" => pc[x] = "writing" /\ next'[x] = next[x]
    BY <1>8 DEF Acquire, Free, Alive, Redeemed, TypeOK
  <2> QED
    BY <2>1, <2>2, <2>3, TokenKept
<1>9. ASSUME NEW u \in Users, GiveUp(u) PROVE TokenInv'
  <2>1. file' = file /\ \A q \in Providers : Alive(q) => Alive(q)'
    BY <1>9 DEF GiveUp, Free, Alive, Redeemed, TypeOK
  <2>2. \A x \in Ops : pc[x] \in {"answering", "applied"} /\ Redeemed(x) =>
            pc'[x] \in {"answering", "applied"} /\ Redeemed(x)'
    BY <1>9 DEF GiveUp, Free, Alive, Redeemed, TypeOK
  <2>3. \A x \in Ops : pc'[x] = "writing" => pc[x] = "writing" /\ next'[x] = next[x]
    BY <1>9 DEF GiveUp, Free, Alive, Redeemed, TypeOK
  <2> QED
    BY <2>1, <2>2, <2>3, TokenKept
<1>10. ASSUME NEW u \in Users, EnterStopped(u) PROVE TokenInv'
  <2>1. file' = file /\ \A q \in Providers : Alive(q) => Alive(q)'
    BY <1>10 DEF EnterStopped, Stopped, Alive, Redeemed, TypeOK
  <2>2. \A x \in Ops : pc[x] \in {"answering", "applied"} /\ Redeemed(x) =>
            pc'[x] \in {"answering", "applied"} /\ Redeemed(x)'
    BY <1>10 DEF EnterStopped, Stopped, Alive, Redeemed, TypeOK
  <2>3. \A x \in Ops : pc'[x] = "writing" => pc[x] = "writing" /\ next'[x] = next[x]
    BY <1>10 DEF EnterStopped, Stopped, Alive, Redeemed, TypeOK
  <2> QED
    BY <2>1, <2>2, <2>3, TokenKept
<1>11. ASSUME NEW u \in Users, ReadUnderLock(u) PROVE TokenInv'
  BY <1>11 DEF ReadUnderLock, Stopped, TokenInv, Alive, OnItsWay, Redeemed, TypeOK,
       Holding, Over, Contents, Shape, Refreshing, Locked, ProcOf, BaseCurrent,
       NextOK
<1>12. ASSUME NEW u \in Users, EnterReload(u) PROVE TokenInv'
  BY <1>12 DEF EnterReload, TokenInv, Alive, OnItsWay,
       Redeemed, TypeOK, Holding, Over, Contents, Shape, Refreshing, Locked,
       ProcOf, BaseCurrent, NextOK
<1>13. ASSUME NEW u \in Users, EnterChange(u) PROVE TokenInv'
  <2>1. file' = file /\ \A q \in Providers : Alive(q) => Alive(q)'
    BY <1>13 DEF EnterChange, Alive
  <2>2. \A x \in Ops : x # u => pc'[x] = pc[x] /\ next'[x] = next[x]
    BY <1>13 DEF EnterChange, TypeOK
  <2>3. pc[u] = "entered" /\ pc'[u] = "applied"
    BY <1>13 DEF EnterChange, TypeOK
  <2> QED
    BY <2>1, <2>2, <2>3, TokenKept DEF Redeemed
<1>14. ASSUME NEW u \in Users, EnterRefresh(u) PROVE TokenInv'
  <2>1. file' = file /\ \A q \in Providers : Alive(q) => Alive(q)'
    BY <1>14 DEF EnterRefresh, ExpiresSoon, Alive,
         Redeemed, TypeOK
  <2>2. \A x \in Ops : pc[x] \in {"answering", "applied"} /\ Redeemed(x) =>
            pc'[x] \in {"answering", "applied"} /\ Redeemed(x)'
    BY <1>14 DEF EnterRefresh, ExpiresSoon, Alive,
         Redeemed, TypeOK
  <2>3. \A x \in Ops : pc'[x] = "writing" => pc[x] = "writing" /\ next'[x] = next[x]
    BY <1>14 DEF EnterRefresh, ExpiresSoon, Alive,
         Redeemed, TypeOK
  <2> QED
    BY <2>1, <2>2, <2>3, TokenKept
<1>15. ASSUME NEW u \in Users, EnterKeep(u) PROVE TokenInv'
  BY <1>15 DEF EnterKeep, ExpiresSoon, TokenInv, Alive,
       OnItsWay, Redeemed, TypeOK, Holding, Over, Contents, Shape, Refreshing,
       Locked, ProcOf, BaseCurrent, NextOK
<1>16. ASSUME NEW u \in Users, Redeem(u) PROVE TokenInv'
  <2>1. u \in Ops /\ Kind[u] = "resolve" /\ pc[u] = "refreshing" /\ pc'[u] = "answering"
    BY <1>16 DEF Redeem, Shape, Refreshing, TypeOK
  <2>2. base[u][Provider[u]] = 1 /\ Provider[u] \in Providers
    BY <2>1 DEF NextOK, Refreshing
  <2>3. next'[u] # None /\ OnItsWay(Provider[u])'
    <3>1. next'[u] = [base[u] EXCEPT ![Provider[u]] = issued[Provider[u]] + 1]
      BY <1>16 DEF Redeem, TypeOK
    <3>2. next'[u] # None
      BY <2>2, <3>1 DEF TypeOK, Contents
    <3> QED
      BY <2>1, <3>2 DEF OnItsWay, Redeemed
  <2>4. ASSUME NEW q \in Providers, q # Provider[u], Alive(q) PROVE Alive(q)'
    BY <1>16, <2>4 DEF Redeem, Alive, TypeOK
  <2>5. ASSUME NEW x \in Ops, x # u PROVE pc'[x] = pc[x] /\ pc[x] \notin {"writing", "answering", "applied"}
    BY <1>16, <2>1, <2>5 DEF Redeem, TypeOK, Locked, Holding
  <2>6. \A q \in Providers : ~OnItsWay(q)
    BY <2>1, <2>5 DEF OnItsWay
  <2> QED
    BY <1>16, <2>1, <2>2, <2>3, <2>4, <2>5, <2>6 DEF TokenInv, Redeem
<1>17. ASSUME NEW u \in Users, RefuseToken(u) PROVE TokenInv'
  <2>1. next[u] = None /\ pc[u] = "refreshing"
    BY <1>17 DEF RefuseToken, SnapshotInv
  <2>2. file' = file /\ \A q \in Providers : Alive(q) => Alive(q)'
    BY <1>17, <2>1 DEF RefuseToken, Alive, Redeemed, TypeOK
  <2>3. \A x \in Ops : pc[x] \in {"answering", "applied"} /\ Redeemed(x) =>
            pc'[x] \in {"answering", "applied"} /\ Redeemed(x)'
    BY <1>17, <2>1 DEF RefuseToken, Alive, Redeemed, TypeOK
  <2>4. \A x \in Ops : pc'[x] = "writing" => pc[x] = "writing" /\ next'[x] = next[x]
    BY <1>17, <2>1 DEF RefuseToken, Alive, Redeemed, TypeOK
  <2> QED
    BY <2>2, <2>3, <2>4, TokenKept
<1>18. ASSUME NEW u \in Users, Answer(u) PROVE TokenInv'
  BY <1>18 DEF Answer, TokenInv, Alive, OnItsWay, Redeemed, TypeOK, Holding,
       Over, Contents, Shape, Refreshing, Locked, ProcOf, BaseCurrent, NextOK
<1>19. ASSUME NEW u \in Users, RefreshFails(u) PROVE TokenInv'
  BY <1>19 DEF RefreshFails, Refreshing, Lose, Token, Redeemed, TokenInv,
       Alive, OnItsWay, TypeOK, Holding, Over, Contents, Shape, Locked, ProcOf,
       BaseCurrent, NextOK
<1>20. ASSUME NEW u \in Users, ApplyStopped(u) PROVE TokenInv'
  BY <1>20 DEF ApplyStopped, Stopped, Lose, Token, Redeemed, TokenInv, Alive,
       OnItsWay, TypeOK, Holding, Over, Contents, Shape, Refreshing, Locked,
       ProcOf, BaseCurrent, NextOK
<1>21. ASSUME NEW u \in Users, ApplyNothing(u) PROVE TokenInv'
  BY <1>21 DEF ApplyNothing, Stopped, TokenInv, Alive, OnItsWay, Redeemed,
       TypeOK, Holding, Over, Contents, Shape, Refreshing, Locked, ProcOf,
       BaseCurrent, NextOK
<1>22. ASSUME NEW u \in Users, Truncate(u) PROVE TokenInv'
  <2>1. u \in Ops /\ next[u] # None /\ next' = next
    BY <1>22 DEF Truncate, Shape
  <2>2. \A x \in Ops \ {u} : pc'[x] = pc[x] /\ pc[x] \notin Holding
    BY <1>22, <2>1 DEF Truncate, TypeOK, Locked, Holding
  <2>3. pc[u] = "applied" /\ pc'[u] = "writing" /\ base[u] = file
    BY <1>22, <2>1 DEF Truncate, TypeOK, BaseCurrent
  <2>4. ASSUME NEW q \in Providers, next[u][q] = 1 PROVE Alive(q)'
    <3>1. q # Provider[u] /\ file[q] = 1
      BY <2>1, <2>3, <2>4 DEF NextOK
    <3>2. ~OnItsWay(q)
      BY <2>1, <2>2, <3>1 DEF OnItsWay, Holding
    <3> QED
      BY <1>22, <3>1, <3>2 DEF TokenInv, Truncate, Alive
  <2>5. \A q \in Providers : file'[q] # 1
    BY <1>22 DEF Truncate, Empty, NoToken
  <2> QED
    BY <2>1, <2>2, <2>3, <2>4, <2>5 DEF TokenInv, Holding
<1>23. ASSUME NEW u \in Users, Write(u) PROVE TokenInv'
  BY <1>23 DEF Write, TokenInv, Alive, OnItsWay, Redeemed, TypeOK, Holding,
       Over, Contents, Shape, Refreshing, Locked, ProcOf, BaseCurrent, NextOK
<1>24. ASSUME NEW u \in Users, Release(u) PROVE TokenInv'
  <2>1. file' = file /\ \A q \in Providers : Alive(q) => Alive(q)'
    BY <1>24 DEF Release, Alive, Redeemed, TypeOK
  <2>2. \A x \in Ops : pc[x] \in {"answering", "applied"} /\ Redeemed(x) =>
            pc'[x] \in {"answering", "applied"} /\ Redeemed(x)'
    BY <1>24 DEF Release, Alive, Redeemed, TypeOK
  <2>3. \A x \in Ops : pc'[x] = "writing" => pc[x] = "writing" /\ next'[x] = next[x]
    BY <1>24 DEF Release, Alive, Redeemed, TypeOK
  <2> QED
    BY <2>1, <2>2, <2>3, TokenKept
<1>25. ASSUME NEW u \in Users, ReturnReload(u) PROVE TokenInv'
  <2>1. file' = file /\ \A q \in Providers : Alive(q) => Alive(q)'
    BY <1>25 DEF ReturnReload, Alive
  <2>2. \A x \in Ops : pc'[x] = pc[x] \/ (pc[x] = "reloading" /\ pc'[x] \in {"locking", "done", "failed"})
    BY <1>25 DEF ReturnReload, Readers, Got
  <2>3. \A x \in Ops : next'[x] = next[x]
    BY <1>25 DEF ReturnReload, Clear, TypeOK
  <2> QED
    BY <2>1, <2>2, <2>3, TokenKept DEF Redeemed
<1>26. ASSUME NEW u \in Users, ReturnCall(u) PROVE TokenInv'
  <2>1. file' = file /\ \A q \in Providers : Alive(q) => Alive(q)'
    BY <1>26 DEF ReturnCall, Note, Clear, ProcOf, Empty, NoToken, Alive, Redeemed,
         TypeOK
  <2>2. \A x \in Ops : pc[x] \in {"answering", "applied"} /\ Redeemed(x) =>
            pc'[x] \in {"answering", "applied"} /\ Redeemed(x)'
    BY <1>26 DEF ReturnCall, Note, Clear, ProcOf, Empty, NoToken, Alive, Redeemed,
         TypeOK
  <2>3. \A x \in Ops : pc'[x] = "writing" => pc[x] = "writing" /\ next'[x] = next[x]
    BY <1>26 DEF ReturnCall, Note, Clear, ProcOf, Empty, NoToken, Alive, Redeemed,
         TypeOK
  <2> QED
    BY <2>1, <2>2, <2>3, TokenKept
<1>27. ASSUME NEW u \in Users, ReturnFailed(u) PROVE TokenInv'
  <2>1. file' = file /\ \A q \in Providers : Alive(q) => Alive(q)'
    BY <1>27 DEF ReturnFailed, Clear, Empty, NoToken, Alive, Redeemed, TypeOK
  <2>2. \A x \in Ops : pc[x] \in {"answering", "applied"} /\ Redeemed(x) =>
            pc'[x] \in {"answering", "applied"} /\ Redeemed(x)'
    BY <1>27 DEF ReturnFailed, Clear, Empty, NoToken, Alive, Redeemed, TypeOK
  <2>3. \A x \in Ops : pc'[x] = "writing" => pc[x] = "writing" /\ next'[x] = next[x]
    BY <1>27 DEF ReturnFailed, Clear, Empty, NoToken, Alive, Redeemed, TypeOK
  <2> QED
    BY <2>1, <2>2, <2>3, TokenKept
<1>28. ASSUME NEW u \in Users, Update(u) PROVE TokenInv'
  BY <1>28 DEF Update, Refreshing, TokenInv, Alive, OnItsWay, Redeemed, TypeOK,
       Holding, Over, Contents, Shape, Locked, ProcOf, BaseCurrent, NextOK
<1>29. ASSUME Tick PROVE TokenInv'
  BY <1>29 DEF Tick, Holding, Refreshing, ProcOf, Free, Upto, TokenInv, Alive,
       OnItsWay, Redeemed, TypeOK, Over, Contents, Shape, Locked, BaseCurrent,
       NextOK
<1>30. ASSUME NEW p \in Procs, Kill(p) PROVE TokenInv'
  <2>1. file' = file /\ valid' = valid /\ lost \subseteq lost'
    BY <1>30 DEF Kill, Lose
  <2>2. ASSUME NEW x \in Ops, Proc[x] = p, pc[x] \in {"answering", "applied"}, Redeemed(x)
        PROVE  Alive(Provider[x])'
    <3>1. Token(x) = <<Provider[x], 1>>
      BY <2>2 DEF Token, NextOK, Refreshing, Redeemed
    <3>2. Token(x) \in lost'
      BY <1>30, <2>2 DEF Kill, Lose, ProcOf
    <3> QED
      BY <3>1, <3>2 DEF Alive
  <2>3. ASSUME NEW x \in Ops, Proc[x] # p PROVE pc'[x] = pc[x] /\ next'[x] = next[x]
    BY <1>30, <2>3 DEF Kill, ProcOf, Clear, TypeOK
  <2>4. ASSUME NEW x \in Ops, Proc[x] = p PROVE pc'[x] # "writing"
    BY <1>30, <2>4 DEF Kill, ProcOf, Over
  <2> QED
    BY <2>1, <2>2, <2>3, <2>4, TokenKept DEF Alive, Redeemed
<1>31. ASSUME UNCHANGED vars PROVE TokenInv'
  BY <1>31 DEF vars, TokenInv, Alive, OnItsWay, Redeemed, TypeOK, Holding,
       Over, Contents, Shape, Refreshing, Locked, ProcOf, BaseCurrent, NextOK
<1> QED
  BY <1>1, <1>2, <1>3, <1>4, <1>5, <1>6, <1>7, <1>8, <1>9, <1>10, <1>11,
       <1>12, <1>13, <1>14, <1>15, <1>16, <1>17, <1>18, <1>19, <1>20, <1>21,
       <1>22, <1>23, <1>24, <1>25, <1>26, <1>27, <1>28, <1>29, <1>30, <1>31
     DEF Next, Begin, Progress, Enter, Apply, Return

-----------------------------------------------------------------------------
LEMMA InitInv ==
  Init => TypeOK /\ Shape /\ SnapshotInv /\ Started /\ Locked /\ BaseCurrent /\ NextOK /\ TokenInv
<1> SUFFICES ASSUME Init
             PROVE  TypeOK /\ Shape /\ SnapshotInv /\ Started /\ Locked /\ BaseCurrent /\ NextOK /\ TokenInv
  OBVIOUS
<1> USE AuthAssumption DEF Users, Active, Init, Empty, NoToken
<1>1. TypeOK
  BY DEF TypeOK, Contents, Holding, Over
<1>2. \A u \in Users : pc[u] \in {"idle", "new"} /\ next[u] = None /\ seen[u] = 0 /\ held[u] = 0
  OBVIOUS
<1>3. Shape
  BY <1>2 DEF Shape, Holding, Refreshing
<1>4. SnapshotInv
  BY <1>2 DEF SnapshotInv
<1>5. Started
  BY <1>2 DEF Started, Holding
<1>6. Locked /\ BaseCurrent
  BY <1>2 DEF Locked, BaseCurrent, Holding
<1>7. NextOK
  BY <1>2 DEF NextOK, Holding, Refreshing, Redeemed
<1>8. TokenInv
  BY <1>2 DEF TokenInv, Alive
<1> QED
  BY <1>1, <1>3, <1>4, <1>5, <1>6, <1>7, <1>8

(* Whatever the calls do and whichever processes are killed, every         *)
(* variable keeps its type, and every user is where Shape says.            *)
THEOREM TypeCorrect == Spec => []TypeOK
<1>1. Init => TypeOK /\ Shape
  BY InitInv
<1>2. TypeOK /\ Shape /\ [Next]_vars => TypeOK' /\ Shape'
  BY TypeStep, ShapeStep
<1> QED
  BY <1>1, <1>2, PTL DEF Spec

-----------------------------------------------------------------------------
LEMMA QuickStep ==
  ASSUME QuickEnough, TypeOK, Shape, SnapshotInv, Started, Locked, BaseCurrent, NextOK, TokenInv,
         [Next]_vars
  PROVE  (TypeOK /\ Shape /\ SnapshotInv /\ Started /\ Locked /\ BaseCurrent /\ NextOK /\ TokenInv)'
<1>1. TypeOK'
  BY TypeStep
<1>2. Shape' /\ SnapshotInv' /\ Started'
  BY <1>1, ShapeStep, SnapshotStep, StartedStep
<1>3. Locked' /\ BaseCurrent'
  BY <1>1, LockedStep, BaseStep
<1>4. NextOK' /\ TokenInv'
  BY NextStep, TokenStep
<1> QED
  BY <1>1, <1>2, <1>3, <1>4

(* The holder of the lock is alone with the file.                          *)
Alone == Locked /\ BaseCurrent

(* Nobody takes the lock of withLockAsync over while it is held, and what  *)
(* its holder has read is the content of auth.json until it writes.        *)
THEOREM HolderAlone == QuickEnough => (Spec => []Alone)
<1> SUFFICES ASSUME QuickEnough PROVE Spec => []Alone
  OBVIOUS
<1>1. Init => TypeOK /\ Shape /\ Started /\ Alone
  BY InitInv DEF Alone
<1>2. TypeOK /\ Shape /\ Started /\ Alone /\ [Next]_vars => (TypeOK /\ Shape /\ Started /\ Alone)'
  BY TypeStep, ShapeStep, StartedStep, LockedStep, BaseStep DEF Alone
<1> QED
  BY <1>1, <1>2, PTL DEF Spec

(* A process that finds the revision of its snapshot to be that of         *)
(* auth.json has the content of auth.json: nobody writes between the       *)
(* reading of the file and the asking for its revision, and what is noted  *)
(* later is never newer than the file.                                     *)
THEOREM SnapshotCorrect == QuickEnough => (Spec => []SnapshotCurrent)
<1> SUFFICES ASSUME QuickEnough PROVE Spec => []SnapshotCurrent
  OBVIOUS
<1>1. Init => TypeOK /\ Shape /\ SnapshotInv /\ Started /\ Locked /\ BaseCurrent
  BY InitInv
<1>2. TypeOK /\ Shape /\ SnapshotInv /\ Started /\ Locked /\ BaseCurrent /\ [Next]_vars
        => (TypeOK /\ Shape /\ SnapshotInv /\ Started /\ Locked /\ BaseCurrent)'
  BY TypeStep, ShapeStep, SnapshotStep, StartedStep, LockedStep, BaseStep
<1>3. SnapshotInv => SnapshotCurrent
  BY DEF SnapshotInv, SnapshotCurrent
<1> QED
  BY <1>1, <1>2, <1>3, PTL DEF Spec

(* A refresh token goes to its provider only if nobody has redeemed it, or *)
(* its successor could not be stored.                                      *)
THEOREM RefreshedOnceCorrect == QuickEnough => (Spec => []RefreshedOnce)
<1> SUFFICES ASSUME QuickEnough PROVE Spec => []RefreshedOnce
  OBVIOUS
<1>1. Init => TypeOK /\ Shape /\ SnapshotInv /\ Started /\ Locked /\ BaseCurrent /\ NextOK /\ TokenInv
  BY InitInv
<1>2. TypeOK /\ Shape /\ SnapshotInv /\ Started /\ Locked /\ BaseCurrent /\ NextOK /\ TokenInv /\ [Next]_vars
        => (TypeOK /\ Shape /\ SnapshotInv /\ Started /\ Locked /\ BaseCurrent /\ NextOK /\ TokenInv)'
  BY QuickStep
<1>3. TypeOK /\ Shape /\ Locked /\ BaseCurrent /\ NextOK /\ TokenInv => RefreshedOnce
  <2> SUFFICES ASSUME TypeOK, Shape, Locked, BaseCurrent, NextOK, TokenInv,
                      NEW u \in Ops, pc[u] = "refreshing"
               PROVE  base[u][Provider[u]] \in valid[Provider[u]] \/ Token(u) \in lost
    BY DEF RefreshedOnce
  <2> USE AuthAssumption DEF Users
  <2>1. base[u][Provider[u]] = 1 /\ base[u] = file /\ lock = u
    BY DEF NextOK, BaseCurrent, Locked, Holding, Refreshing
  <2>2. ~OnItsWay(Provider[u])
    BY <2>1 DEF OnItsWay, Locked, Holding
  <2>3. Alive(Provider[u])
    BY <2>1, <2>2 DEF TokenInv
  <2> QED
    BY <2>1, <2>3 DEF Alive, Token
<1> QED
  BY <1>1, <1>2, <1>3, PTL DEF Spec

(* A call writes only over the content that it has read: the change of one *)
(* provider never undoes that of another.                                  *)
THEOREM NoLostUpdateCorrect == QuickEnough => (Spec => NoLostUpdate)
<1> SUFFICES ASSUME QuickEnough PROVE Spec => NoLostUpdate
  OBVIOUS
<1>1. Alone => \A u \in Ops : pc[u] = "applied" /\ pc'[u] = "writing" => base[u] = file
  BY DEF Alone, BaseCurrent, Users
<1>2. Spec => []Alone
  BY HolderAlone
<1> QED
  BY <1>1, <1>2, PTL DEF Spec, NoLostUpdate
=============================================================================
