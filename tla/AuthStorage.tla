----------------------------- MODULE AuthStorage -----------------------------
(***************************************************************************)
(* The credentials that all pi processes of a user share: auth.json under  *)
(* its lock file (FileAuthStorageBackend), the snapshot that each process  *)
(* keeps of it (AuthStorage), and the refresh of expiring OAuth tokens     *)
(* (resolveStoredOAuth).  The lock file is that of proper-lockfile: it     *)
(* belongs to nobody once its modification time is old enough, its holder  *)
(* touches it regularly and learns at that moment that it was taken over.  *)
(*                                                                         *)
(* A step is what a process does between two awaits, cut where another     *)
(* process may come between: the file is truncated and then written, read  *)
(* and then asked for its revision.  A user of the lock is a call, or the  *)
(* reload of a process that its readers share.  Processes may be killed at *)
(* any step; the refresh token of a credential is redeemed once and        *)
(* replaced (rotation).                                                    *)
(***************************************************************************)
EXTENDS Naturals, FiniteSets

CONSTANTS
    Procs,       \* the processes; the reload of a process has its name
    Ops,         \* the calls
    Proc,        \* the process of each call
    Kind,        \* "resolve", "login", "logout", or "start" (the constructor)
    Providers,
    Provider,    \* the provider that each call is about
    Killable,    \* the processes that may be killed
    Abortable,   \* the calls that may be aborted
    SyncStale,   \* the age of the lock file at which lockSync takes it over
    UpdateEvery, \* after how long a holder touches it
    Stale,       \* the age at which lock takes it over
    Deadline,    \* how long lock is retried
    Longest,     \* how long the refreshes of each process may take
    None

Users == Ops \cup Procs

ASSUME AuthAssumption ==
    /\ Ops \cap Procs = {} /\ None \notin Users /\ None \notin [Providers -> Nat]
    /\ Proc \in [Ops -> Procs] /\ Provider \in [Ops -> Providers]
    /\ Kind \in [Ops -> {"resolve", "login", "logout", "start"}]
    /\ Killable \subseteq Procs /\ Abortable \subseteq Ops
    /\ {SyncStale, UpdateEvery, Stale, Deadline} \subseteq Nat
    /\ Longest \in [Procs -> 0..UpdateEvery] /\ UpdateEvery < Stale /\ Stale <= Deadline

VARIABLES
    pc,          \* where each user is
    lock,        \* the user that made the lock file, or None
    lockAge,     \* the time since it was touched
    held,        \* the time since each user got the lock
    waited,      \* the time each user has tried to get it
    compromised, \* the users that know that their lock was taken over
    aborted,     \* the calls whose signal is aborted
    file, frev,  \* auth.json: the token of each provider, and its revision
    base,        \* what each user has read under the lock
    next,        \* what it is going to write, or None
    cache, rev,  \* readState: the snapshot of each process and its revision
    seen,        \* the revision a call goes on to note, 0 if none
    issued,      \* how many tokens each provider has issued
    valid,       \* the tokens that a provider accepts
    got,         \* the token that each login has got
    lost         \* history: redeemed tokens whose successor could not be stored

lockVars   == <<lock, lockAge, held, waited, compromised>>
fileVars   == <<file, frev>>
workVars   == <<base, next, seen>>
cacheVars  == <<cache, rev>>
serverVars == <<issued, valid, got, lost>>
vars == <<pc, lockVars, aborted, fileVars, workVars, cacheVars, serverVars>>

(* Tokens are numbered; 0 is none, and the first one expires soon.         *)
NoToken == 0
ExpiresSoon(t) == t = 1
Empty == [p \in Providers |-> NoToken]

ProcOf(u) == IF u \in Procs THEN u ELSE Proc[u]
Holding == {"locked", "entered", "refreshing", "answering", "applied", "writing",
            "releasing", "releasingOk"}
Refreshing == {"refreshing", "answering"}
Active == Holding \cup {"locking", "failing", "returning"}
Over == {"done", "failed", "killed"}
Stopped(u) == u \in compromised \cup aborted

(* Who is at work without an await; the other users of its process wait.   *)
Busy(u) == pc[u] = "writing" \/ (pc[u] = "entered" /\ ~(u \in Ops /\ Kind[u] = "resolve"))
Turn(u) == \A x \in Users : ProcOf(x) = ProcOf(u) /\ Busy(x) => x = u

(* A user goes on to l.                                                    *)
At(u, l) == Turn(u) /\ pc' = [pc EXCEPT ![u] = l]

(* A process lives, and its constructor has run.                           *)
Running(p) ==
    /\ pc[p] # "killed"
    /\ \A o \in Ops : Proc[o] = p /\ Kind[o] = "start" => pc[o] # "new"

(* What users that are done have read, waited and known does not matter.   *)
Clear(S) ==
    /\ base' = [u \in Users |-> IF u \in S THEN Empty ELSE base[u]]
    /\ next' = [u \in Users |-> IF u \in S THEN None ELSE next[u]]
    /\ seen' = [u \in Users |-> IF u \in S THEN 0 ELSE seen[u]]
    /\ held' = [u \in Users |-> IF u \in S THEN 0 ELSE held[u]]
    /\ waited' = [u \in Users |-> IF u \in S THEN 0 ELSE waited[u]]
    /\ compromised' = compromised \ S

-----------------------------------------------------------------------------
(* readLatestData: the snapshot is used if the file has its revision, else *)
(* the call joins or starts the reload of its process.                     *)
Got(o, data) == IF ExpiresSoon(data[Provider[o]]) THEN "locking" ELSE "done"

ReadLatest(o) ==
    LET p == Proc[o] IN
    /\ Kind[o] = "resolve" /\ pc[o] = "new" /\ Running(p) /\ Turn(o)
    /\ pc' = IF rev[p] = frev THEN [pc EXCEPT ![o] = Got(o, cache[p])]
             ELSE [pc EXCEPT ![o] = "reloading", ![p] = IF @ = "idle" THEN "locking" ELSE @]
    /\ UNCHANGED <<lockVars, aborted, fileVars, workVars, cacheVars, serverVars>>

(* A login has got a token; it is stored by modify.  A logout deletes one. *)
Login(o) ==
    LET p == Provider[o] new == issued[p] + 1 IN
    /\ Kind[o] = "login" /\ pc[o] = "new" /\ Running(Proc[o])
    /\ At(o, "locking")
    /\ issued' = [issued EXCEPT ![p] = new] /\ valid' = [valid EXCEPT ![p] = @ \cup {new}]
    /\ got' = [got EXCEPT ![o] = new]
    /\ UNCHANGED <<lockVars, aborted, fileVars, workVars, cacheVars, lost>>

Logout(o) ==
    /\ Kind[o] = "logout" /\ pc[o] = "new" /\ Running(Proc[o])
    /\ At(o, "locking")
    /\ UNCHANGED <<lockVars, aborted, fileVars, workVars, cacheVars, serverVars>>

(* The constructor's reload under lockSync, which gives up soon: the file  *)
(* is read and then asked for its revision.                                *)
SyncSkip(o) ==
    LET p == Proc[o] IN
    /\ Kind[o] = "start" /\ pc[o] = "new" /\ pc[p] # "killed" /\ At(o, "done")
    /\ rev[p] = frev \/ (lock # None /\ lockAge < SyncStale)
    /\ UNCHANGED <<lockVars, aborted, fileVars, workVars, cacheVars, serverVars>>

SyncRead(o) ==
    LET p == Proc[o] IN
    /\ Kind[o] = "start" /\ pc[o] = "new" /\ pc[p] # "killed" /\ At(o, "entered")
    /\ rev[p] # frev /\ (lock = None \/ lockAge >= SyncStale)
    /\ lock' = o /\ lockAge' = 0 /\ base' = [base EXCEPT ![o] = file]
    /\ UNCHANGED <<held, waited, compromised, aborted, fileVars, next, seen, cacheVars, serverVars>>

SyncReload(o) ==
    LET p == Proc[o] IN
    /\ o \in Ops /\ Kind[o] = "start" /\ pc[o] = "entered" /\ At(o, "done")
    /\ lock' = None /\ lockAge' = 0 /\ base' = [base EXCEPT ![o] = Empty]
    /\ cache' = [cache EXCEPT ![p] = base[o]] /\ rev' = [rev EXCEPT ![p] = frev]
    /\ UNCHANGED <<held, waited, compromised, aborted, fileVars, next, seen, serverVars>>

-----------------------------------------------------------------------------
(* Mutant of Free: lock takes a lock file over as early as lockSync does.  *)
FreeSooner == lock = None \/ lockAge >= SyncStale

Free == lock = None \/ lockAge >= Stale

(* acquireLockAsync.                                                       *)
Acquire(u) ==
    /\ pc[u] = "locking" /\ u \notin aborted /\ Free
    /\ lock' = u /\ lockAge' = 0 /\ waited' = [waited EXCEPT ![u] = 0]
    /\ At(u, "locked")
    /\ UNCHANGED <<held, compromised, aborted, fileVars, workVars, cacheVars, serverVars>>

GiveUp(u) ==
    /\ pc[u] = "locking" /\ At(u, "failing")
    /\ u \in aborted \/ (~Free /\ waited[u] >= Deadline)
    /\ UNCHANGED <<lockVars, aborted, fileVars, workVars, cacheVars, serverVars>>

(* The file is read, after a last look at the signal and the lock.         *)
EnterStopped(u) ==
    /\ pc[u] = "locked" /\ Stopped(u) /\ At(u, "releasing")
    /\ UNCHANGED <<lockVars, aborted, fileVars, workVars, cacheVars, serverVars>>

ReadUnderLock(u) ==
    /\ pc[u] = "locked" /\ ~Stopped(u) /\ At(u, "entered")
    /\ base' = [base EXCEPT ![u] = file]
    /\ UNCHANGED <<lockVars, aborted, fileVars, next, seen, cacheVars, serverVars>>

(* The callback, up to its first await: a reload keeps what was read and   *)
(* takes the revision the file has by then, a login or a logout changes    *)
(* what was read, and a refresh looks again whether the token expires      *)
(* soon; if not, it takes the revision as well.                            *)
EnterReload(u) ==
    /\ u \in Procs /\ pc[u] = "entered" /\ At(u, "applied")
    /\ cache' = [cache EXCEPT ![u] = base[u]] /\ rev' = [rev EXCEPT ![u] = frev]
    /\ UNCHANGED <<lockVars, aborted, fileVars, workVars, serverVars>>

EnterChange(o) ==
    LET p == Provider[o] IN
    /\ o \in Ops /\ Kind[o] \in {"login", "logout"} /\ pc[o] = "entered" /\ At(o, "applied")
    /\ next' = [next EXCEPT ![o] =
                    [base[o] EXCEPT ![p] = IF Kind[o] = "login" THEN got[o] ELSE NoToken]]
    /\ UNCHANGED <<lockVars, aborted, fileVars, base, seen, cacheVars, serverVars>>

EnterRefresh(o) ==
    /\ o \in Ops /\ Kind[o] = "resolve" /\ ExpiresSoon(base[o][Provider[o]])
    /\ pc[o] = "entered" /\ At(o, "refreshing")
    /\ UNCHANGED <<lockVars, aborted, fileVars, workVars, cacheVars, serverVars>>

EnterKeep(o) ==
    /\ o \in Ops /\ Kind[o] = "resolve" /\ ~ExpiresSoon(base[o][Provider[o]])
    /\ pc[o] = "entered" /\ At(o, "applied") /\ seen' = [seen EXCEPT ![o] = frev]
    /\ UNCHANGED <<lockVars, aborted, fileVars, base, next, cacheVars, serverVars>>

(* Mutant of Enter: expiry is not checked again under the lock.            *)
EnterUnchecked(u) ==
    \/ EnterStopped(u) \/ ReadUnderLock(u) \/ EnterReload(u) \/ EnterChange(u)
    \/ /\ u \in Ops /\ Kind[u] = "resolve" /\ pc[u] = "entered" /\ At(u, "refreshing")
       /\ UNCHANGED <<lockVars, aborted, fileVars, workVars, cacheVars, serverVars>>

Enter(u) ==
    \/ EnterStopped(u) \/ ReadUnderLock(u)
    \/ EnterReload(u) \/ EnterChange(u) \/ EnterRefresh(u) \/ EnterKeep(u)

(* The token of a call, and that it is lost if the call redeemed it and    *)
(* will not store the new one.                                             *)
Token(u) == <<Provider[u], base[u][Provider[u]]>>
Redeemed(u) == u \in Ops /\ Kind[u] = "resolve" /\ next[u] # None
Lose(S) == lost' = lost \cup {Token(u) : u \in {x \in S : Redeemed(x)}}

(* The provider redeems the token, or refuses it.                          *)
Redeem(u) ==
    LET p == Provider[u] t == base[u][p] new == issued[p] + 1 IN
    /\ pc[u] = "refreshing" /\ t \in valid[p] /\ At(u, "answering")
    /\ valid' = [valid EXCEPT ![p] = (@ \ {t}) \cup {new}] /\ issued' = [issued EXCEPT ![p] = new]
    /\ next' = [next EXCEPT ![u] = [base[u] EXCEPT ![p] = new]]
    /\ UNCHANGED <<lockVars, aborted, fileVars, base, seen, cacheVars, got, lost>>

RefuseToken(u) ==
    /\ pc[u] = "refreshing" /\ base[u][Provider[u]] \notin valid[Provider[u]] /\ At(u, "releasing")
    /\ UNCHANGED <<lockVars, aborted, fileVars, workVars, cacheVars, serverVars>>

(* The answer arrives; or the request fails, is aborted or times out.      *)
Answer(u) ==
    /\ pc[u] = "answering" /\ At(u, "applied")
    /\ UNCHANGED <<lockVars, aborted, fileVars, workVars, cacheVars, serverVars>>

RefreshFails(u) ==
    /\ pc[u] \in Refreshing /\ At(u, "releasing")
    /\ Lose({u})
    /\ UNCHANGED <<lockVars, aborted, fileVars, workVars, cacheVars, issued, valid, got>>

(* Mutant of Apply: the file is written also if nothing has changed.       *)
ApplyAlways(u) ==
    /\ pc[u] = "applied" /\ At(u, "writing") /\ file' = Empty /\ frev' = frev + 1
    /\ UNCHANGED <<lockVars, aborted, workVars, cacheVars, serverVars>>

(* The callback has returned: writeFileSync truncates the file, then       *)
(* writes it.                                                              *)
ApplyStopped(u) ==
    /\ pc[u] = "applied" /\ Stopped(u) /\ At(u, "releasing") /\ Lose({u})
    /\ UNCHANGED <<lockVars, aborted, fileVars, workVars, cacheVars, issued, valid, got>>

ApplyNothing(u) ==
    /\ pc[u] = "applied" /\ ~Stopped(u) /\ next[u] = None /\ At(u, "releasingOk")
    /\ UNCHANGED <<lockVars, aborted, fileVars, workVars, cacheVars, serverVars>>

Truncate(u) ==
    /\ pc[u] = "applied" /\ ~Stopped(u) /\ next[u] # None /\ At(u, "writing")
    /\ file' = Empty /\ frev' = frev + 1
    /\ UNCHANGED <<lockVars, aborted, workVars, cacheVars, serverVars>>

Apply(u) == ApplyStopped(u) \/ ApplyNothing(u) \/ Truncate(u)

Write(u) ==
    /\ pc[u] = "writing" /\ At(u, "releasingOk")
    /\ file' = next[u] /\ frev' = frev + 1
    /\ UNCHANGED <<lockVars, aborted, workVars, cacheVars, serverVars>>

(* release removes the lock file, whoever made it, unless it is known to   *)
(* have been taken over.                                                   *)
Release(u) ==
    /\ pc[u] \in {"releasing", "releasingOk"}
    /\ At(u, IF pc[u] = "releasing" THEN "failing" ELSE "returning")
    /\ IF u \in compromised THEN UNCHANGED <<lock, lockAge>> ELSE lock' = None /\ lockAge' = 0
    /\ UNCHANGED <<held, waited, compromised, aborted, fileVars, workVars, cacheVars, serverVars>>

-----------------------------------------------------------------------------
(* Mutant of Note: the revision is taken when the call returns.            *)
NoteNow(u) ==
    /\ cache' = [cache EXCEPT ![ProcOf(u)] = IF next[u] = None THEN base[u] ELSE next[u]]
    /\ rev' = [rev EXCEPT ![ProcOf(u)] = frev]

(* updateReadState at the end of modify and delete.                        *)
Note(u) ==
    /\ cache' = [cache EXCEPT ![ProcOf(u)] = IF next[u] = None THEN base[u] ELSE next[u]]
    /\ rev' = [rev EXCEPT ![ProcOf(u)] = seen[u]]

Readers(p) == {o \in Ops : pc[o] = "reloading" /\ Proc[o] = p}

(* Mutant of Return: the readers are left waiting.                         *)
ReturnAlone(u) ==
    /\ pc[u] \in {"returning", "failing"}
    /\ IF u \in Procs THEN At(u, "idle") /\ UNCHANGED cacheVars
       ELSE IF pc[u] = "returning" THEN At(u, "done") /\ Note(u)
       ELSE At(u, "failed") /\ UNCHANGED cacheVars
    /\ Clear({u}) /\ UNCHANGED <<lock, lockAge, aborted, fileVars, serverVars>>

(* A reload returns to its readers, a call to its caller.                  *)
ReturnReload(p) ==
    /\ p \in Procs /\ pc[p] \in {"returning", "failing"} /\ Turn(p)
    /\ pc' = [x \in Users |->
                 IF x = p THEN "idle"
                 ELSE IF x \notin Readers(p) THEN pc[x]
                 ELSE IF pc[p] = "returning" THEN Got(x, base[p]) ELSE "failed"]
    /\ Clear({p}) /\ UNCHANGED <<lock, lockAge, aborted, fileVars, cacheVars, serverVars>>

ReturnCall(o) ==
    /\ o \in Ops /\ pc[o] = "returning" /\ At(o, "done") /\ Note(o)
    /\ Clear({o}) /\ UNCHANGED <<lock, lockAge, aborted, fileVars, serverVars>>

ReturnFailed(o) ==
    /\ o \in Ops /\ pc[o] = "failing" /\ At(o, "failed")
    /\ Clear({o}) /\ UNCHANGED <<lock, lockAge, aborted, fileVars, cacheVars, serverVars>>

Return(u) == ReturnReload(u) \/ ReturnCall(u) \/ ReturnFailed(u)

-----------------------------------------------------------------------------
(* The holder's timer: it touches its lock file, or finds it is another's. *)
Update(u) ==
    /\ pc[u] \in Refreshing /\ Turn(u)
    /\ held[u] >= UpdateEvery /\ u \notin compromised
    /\ IF lock = u THEN lockAge' = 0 /\ UNCHANGED compromised
       ELSE compromised' = compromised \cup {u} /\ UNCHANGED lockAge
    /\ UNCHANGED <<pc, lock, held, waited, aborted, fileVars, workVars, cacheVars, serverVars>>

(* Time passes.  Of what is done under the lock only a refresh takes time, *)
(* at most Longest.  The retries are shorter than the unit of time, so a   *)
(* free lock is found by who waits for it, and at the deadline there is a  *)
(* last try.                                                               *)
Upto(n, max) == IF n < max THEN n + 1 ELSE n
Tick ==
    /\ \A u \in Users :
          /\ pc[u] \in Holding => pc[u] \in Refreshing /\ held[u] < Longest[ProcOf(u)]
          /\ pc[u] = "locking" => waited[u] < Deadline /\ ~Free
    /\ lockAge' = IF lock = None THEN 0 ELSE Upto(lockAge, Stale)
    /\ held' = [u \in Users |-> IF pc[u] \in Holding THEN Upto(held[u], UpdateEvery) ELSE held[u]]
    /\ waited' = [u \in Users |-> IF pc[u] = "locking" THEN Upto(waited[u], Deadline) ELSE waited[u]]
    /\ UNCHANGED <<pc, lock, compromised, aborted, fileVars, workVars, cacheVars, serverVars>>

Abort(o) ==
    /\ o \in Abortable \ aborted /\ pc[o] \in Holding \cup {"locking"}
    /\ Turn(o) /\ ~Busy(o)
    /\ aborted' = aborted \cup {o}
    /\ UNCHANGED <<pc, lockVars, fileVars, workVars, cacheVars, serverVars>>

(* The process is killed; its lock file stays.                             *)
Kill(p) ==
    LET users == {u \in Users : ProcOf(u) = p} IN
    /\ p \in Killable /\ pc[p] # "killed"
    /\ pc' = [u \in Users |-> IF u \in users /\ pc[u] \notin Over THEN "killed" ELSE pc[u]]
    /\ Lose({u \in users : pc[u] \in {"answering", "applied", "writing"}})
    /\ cache' = [cache EXCEPT ![p] = Empty] /\ rev' = [rev EXCEPT ![p] = 0]
    /\ Clear(users) /\ UNCHANGED <<lock, lockAge, aborted, fileVars, issued, valid, got>>

-----------------------------------------------------------------------------
Init ==
    /\ pc = [u \in Users |-> IF u \in Procs THEN "idle" ELSE "new"]
    /\ lock = None /\ lockAge = 0
    /\ held = [u \in Users |-> 0] /\ waited = [u \in Users |-> 0]
    /\ compromised = {} /\ aborted = {}
    /\ file = [p \in Providers |-> 1] /\ frev = 1
    /\ base = [u \in Users |-> Empty] /\ next = [u \in Users |-> None]
    /\ seen = [u \in Users |-> 0]
    /\ cache = [p \in Procs |-> Empty] /\ rev = [p \in Procs |-> 0]
    /\ issued = [p \in Providers |-> 1] /\ valid = [p \in Providers |-> {1}]
    /\ got = [o \in Ops |-> NoToken] /\ lost = {}

(* What a process does for a call or a reload once it has begun.           *)
Progress(u) ==
    \/ SyncReload(u) \/ Acquire(u) \/ GiveUp(u) \/ Enter(u) \/ Redeem(u) \/ RefuseToken(u)
    \/ Answer(u) \/ RefreshFails(u) \/ Apply(u) \/ Write(u) \/ Release(u) \/ Return(u)

Begin(o) == ReadLatest(o) \/ Login(o) \/ Logout(o) \/ SyncSkip(o) \/ SyncRead(o)

Next ==
    \/ \E o \in Ops : Begin(o) \/ Abort(o)
    \/ \E u \in Users : Progress(u) \/ Update(u)
    \/ Tick \/ \E p \in Procs : Kill(p)

(* Processes that live go on, and time passes.                             *)
Fairness == WF_vars(Tick) /\ \A u \in Users : WF_vars(pc[u] \in Active /\ Progress(u))

Spec == Init /\ [][Next]_vars /\ Fairness

-----------------------------------------------------------------------------
Contents == [Providers -> Nat]

(* Every variable has its type.                                            *)
TypeOK ==
    /\ pc \in [Users -> Active \cup Over \cup {"new", "idle", "reloading"}]
    /\ lock \in Users \cup {None} /\ lockAge \in 0..Stale
    /\ held \in [Users -> 0..UpdateEvery] /\ waited \in [Users -> 0..Deadline]
    /\ compromised \subseteq Users /\ aborted \subseteq Ops
    /\ file \in Contents /\ frev \in Nat
    /\ base \in [Users -> Contents] /\ next \in [Users -> Contents \cup {None}]
    /\ seen \in [Users -> Nat]
    /\ cache \in [Procs -> Contents] /\ rev \in [Procs -> Nat]
    /\ issued \in [Providers -> Nat] /\ valid \in [Providers -> SUBSET Nat]
    /\ got \in [Ops -> Nat]
    /\ lost \subseteq Providers \X Nat

(* The refreshes of a process are over before another process, that is     *)
(* just being started, would take their lock over.                         *)
QuickEnough ==
    \A o \in Ops, p \in Procs : Kind[o] = "start" /\ Proc[o] # p => Longest[p] < SyncStale

(* A refresh token is sent to its provider only if no other call has       *)
(* redeemed it, unless that one failed or was killed before it could store *)
(* the new one (resolve.ts: "refresh once globally").                      *)
RefreshedOnce ==
    \A u \in Ops : pc[u] = "refreshing" =>
        base[u][Provider[u]] \in valid[Provider[u]] \/ Token(u) \in lost

(* The file is replaced only by what was made from its present content, so *)
(* that a change of one provider never undoes a change of another one.     *)
NoLostUpdate ==
    [][\A u \in Ops : pc[u] = "applied" /\ pc'[u] = "writing" => base[u] = file]_vars

(* A snapshot that is taken for the present one is the content of the      *)
(* file.                                                                   *)
SnapshotCurrent == \A p \in Procs : rev[p] = frev => cache[p] = file

(* Every call ends, also when the holder of the lock has been killed.      *)
EveryCallEnds == <>[](\A o \in Ops : pc[o] \in Over \cup {"new"})
=============================================================================
