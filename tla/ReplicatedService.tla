-------------------------- MODULE ReplicatedService --------------------------
(***************************************************************************)
(* Chord's remote services over the loopback transport                     *)
(* (packages/chord/src/services): a RemoteServiceProvider that owns a      *)
(* singleton or keyed instances with one replicated state each, and the    *)
(* RemoteServiceBindingImpl of one consumer, which subscribes, hydrates    *)
(* its replicas from the snapshot, applies the updates buffered meanwhile  *)
(* and follows later ones.                                                 *)
(*                                                                         *)
(* JavaScript runs to completion: an action is the code between two        *)
(* awaits.  A call of the loopback transport reaches the provider at once, *)
(* but its result is only seen by a later continuation; `tasks' holds the  *)
(* continuations that are due, in no particular order: the adapter of an   *)
(* application may answer in any order.                                    *)
(*                                                                         *)
(* Abstractions: a value is the number of commits of its implementation,   *)
(* and an operation batch turns one value into the next and nothing else.  *)
(* A service has one state member.  Listeners of a replica do not call     *)
(* back into the provider or the binding.  A KeyedBinding that is closed   *)
(* and the one made after it are one record whose revision goes on         *)
(* counting: a continuation or a listener of the closed one is told by its *)
(* revision.                                                               *)
(***************************************************************************)
EXTENDS Naturals, Sequences, FiniteSets, FiniteSetsExt, SequencesExt

CONSTANTS
    Modes,           \* the modes of the service a behaviour may start with
    Keys,            \* the keys of a keyed service
    Sole,            \* the key that stands for the singleton
    Observers,       \* handlers passed to observe
    ObserveWhileRebinding, \* may observe be called while a rebind waits?
    MaxLives,        \* implementations provided per key
    MaxSeq,          \* commits per implementation
    MaxRevision      \* #readinessRevision at which nothing is bound any more

ASSUME ServiceAssumption ==
    /\ Modes \subseteq {"singleton", "keyed"}
    /\ Sole \in Keys /\ IsFiniteSet(Keys)
    /\ ObserveWhileRebinding \in BOOLEAN
    /\ {MaxLives, MaxSeq, MaxRevision} \subseteq Nat

VARIABLES
    mode,      \* the mode of the service, fixed
    live,      \* for each key the life of its instance, 0 when there is none
    lives,     \* for each key the number of lives so far: #generations
    seq,       \* for each key the sequence number of its state
    stopped,   \* the provider is disposed
    subs,      \* the provider's subscribers, in the order they subscribed
    untold,    \* the subscribers that were not told of the implementation there is
    bound,     \* RemoteServiceBindingImpl.#bound
    disposed,  \* the consumer is disposed
    binding,   \* the consumer's SingletonBinding or KeyedBinding
    held,      \* for each key, what the facade of the binding holds
    running,   \* the handlers started by InstanceDirectory and not cancelled
    tasks,     \* continuations of start and rebind
    revision,  \* #readinessRevision
    reader,    \* a caller of ready()
    faults     \* the errors reported to onError

provider == <<live, lives, seq, stopped, untold>>
vars == <<mode, live, lives, seq, stopped, subs, untold, bound, disposed, binding,
          held, running, tasks, revision, reader, faults>>

Keyed == mode = "keyed"
Slots == IF Keyed THEN Keys ELSE {Sole}

(* The address of a keyed instance has a generation, a singleton has none. *)
Gen(life) == IF Keyed THEN life ELSE 0

Cold == [life |-> 0, seq |-> 0]
NoEntry == [gen |-> 0, val |-> Cold]

(* What #snapshotInstance records of the live instance of a key.           *)
Value(k) == IF live[k] = 0 THEN Cold ELSE [life |-> live[k], seq |-> seq[k]]

Update(type, k, val) == [type |-> type, key |-> k, gen |-> Gen(val.life), val |-> val]

(* A binding before it is made, or after it is closed.                     *)
Shut(rev) == [open |-> FALSE, rev |-> rev, sub |-> 0, starting |-> FALSE,
              failed |-> FALSE, ready |-> FALSE, observers |-> {}]

Idle == [waiting |-> FALSE, rev |-> 0, on |-> {}]

Init ==
    /\ mode \in Modes
    /\ live = [k \in Keys |-> 0] /\ lives = live /\ seq = live
    /\ stopped = FALSE /\ subs = <<>> /\ untold = {}
    /\ bound \in BOOLEAN /\ disposed = FALSE
    /\ binding = Shut(0) /\ held = [k \in Keys |-> NoEntry]
    /\ running = {} /\ tasks = {} /\ revision = 0 /\ reader = Idle /\ faults = {}

-----------------------------------------------------------------------------
(* The consumer's side of a delivery.  A delivery works on a record of     *)
(* held, running and faults, so that those of one step can be chained.     *)

World == [held |-> held, running |-> running, faults |-> faults]

Becomes(w) == held' = w.held /\ running' = w.running /\ faults' = w.faults

Handlers(k, gen) == [observer : binding.observers, key : {k}, gen : {gen}]
Others(r, k) == {h \in r : h.key # k}

(* KeyedBinding.#spawn and InstanceDirectory.replace: a new facade is      *)
(* hydrated and takes the place of an older generation; its handlers start *)
(* once the directory is ready.                                            *)
Spawn(w, u) ==
    IF w.held[u.key].gen = u.gen
    THEN [w EXCEPT !.faults = @ \cup {"repeat"}]
    ELSE [w EXCEPT !.held[u.key] = [gen |-> u.gen, val |-> u.val],
                   !.running = Others(@, u.key)
                               \cup (IF binding.ready THEN Handlers(u.key, u.gen) ELSE {})]

(* Mutant of Drop: the handlers of the instance are not cancelled.         *)
DropUncancelled(w, k) == [w EXCEPT !.held[k] = NoEntry]

(* InstanceDirectory.remove and #remove.                                   *)
Drop(w, k) == [w EXCEPT !.held[k] = NoEntry, !.running = Others(@, k)]

(* ReplicatedStateReplica.update.  An update before hydration throws and   *)
(* changes nothing, a gap throws and clears the replica; the binding       *)
(* reports what is thrown.  Operations of another implementation leave a   *)
(* value that nobody wrote: it has no life.                                *)
Patch(w, u) ==
    LET had == w.held[u.key].val IN
    CASE had = Cold -> [w EXCEPT !.faults = @ \cup {"cold"}]
      [] had # Cold /\ u.val.seq # had.seq + 1 ->
            [w EXCEPT !.held[u.key].val = Cold, !.faults = @ \cup {"gap"}]
      [] OTHER ->
            [w EXCEPT !.held[u.key].val =
                [life |-> IF had.life = u.val.life THEN had.life ELSE 0, seq |-> u.val.seq]]

(* Mutant of Deliver: a withdrawn singleton leaves its value in place.     *)
DeliverUnavailable(w, rev, u) ==
    IF ~binding.open \/ binding.rev # rev \/ u.type = "unavailable" THEN w
    ELSE CASE u.type = "replaced" -> [w EXCEPT !.held[u.key] = [gen |-> 0, val |-> u.val]]
           [] u.type = "spawned" -> Spawn(w, u)
           [] u.type = "closed" -> IF w.held[u.key].gen = u.gen THEN Drop(w, u.key) ELSE w
           [] u.type = "state" -> IF w.held[u.key].gen = u.gen THEN Patch(w, u) ELSE w

(* The listener of #startSingleton and KeyedBinding.#update.  The listener *)
(* ignores updates of another revision or of a binding that is closed.     *)
Deliver(w, rev, u) ==
    IF ~binding.open \/ binding.rev # rev THEN w
    ELSE CASE u.type = "unavailable" -> [w EXCEPT !.held[u.key].val = Cold]
           [] u.type = "replaced" -> [w EXCEPT !.held[u.key] = [gen |-> 0, val |-> u.val]]
           [] u.type = "spawned" -> Spawn(w, u)
           [] u.type = "closed" -> IF w.held[u.key].gen = u.gen THEN Drop(w, u.key) ELSE w
           [] u.type = "state" -> IF w.held[u.key].gen = u.gen THEN Patch(w, u) ELSE w

-----------------------------------------------------------------------------
(* The provider's side: #emit, subscribe, activate and close.              *)

(* updateCoveredBySnapshot: is the update part of what the snapshot of the *)
(* subscriber says, and what does the subscriber remember afterwards?      *)
Remembered(s, u) == {m \in s.covered : m.key = u.key /\ m.gen = u.gen}

IsCovered(s, u) == u.type = "state" /\ \E m \in Remembered(s, u) : u.val.seq <= m.seq

Memory(key, gen, val) == [key |-> key, gen |-> gen, seq |-> val.seq]

Covered(s, u) ==
    CASE u.type = "state" -> IF IsCovered(s, u) THEN s.covered ELSE s.covered \ Remembered(s, u)
      [] u.type = "replaced" -> {Memory(u.key, u.gen, u.val)}
      [] u.type = "spawned" -> (s.covered \ Remembered(s, u)) \cup {Memory(u.key, u.gen, u.val)}
      [] u.type = "unavailable" -> {}
      [] u.type = "closed" -> s.covered \ Remembered(s, u)

(* #emit: every subscriber that is not closed and whose snapshot does not  *)
(* cover the update gets it, now when it is active and later otherwise.    *)
Wants(s, u) == s.listed /\ ~s.closed /\ ~IsCovered(s, u)

(* Mutant of Emitted: what happens before the activation is not buffered.  *)
EmittedUnbuffered(ss, u) ==
    [n \in DOMAIN ss |-> IF ss[n].listed /\ ~ss[n].closed
                         THEN [ss[n] EXCEPT !.covered = Covered(ss[n], u)] ELSE ss[n]]

Emitted(ss, u) ==
    [n \in DOMAIN ss |->
        IF ss[n].listed /\ ~ss[n].closed
        THEN [ss[n] EXCEPT !.covered = Covered(ss[n], u),
                           !.buffer = IF Wants(ss[n], u) /\ ~ss[n].active
                                      THEN Append(@, u) ELSE @]
        ELSE ss[n]]

(* The subscribers that are active hear of it, in order.                   *)
Hear(w, u) ==
    FoldLeft(LAMBDA x, s : IF s.active /\ Wants(s, u) THEN Deliver(x, s.rev, u) ELSE x, w, subs)

Emit(u) == subs' = Emitted(subs, u) /\ Becomes(Hear(World, u))

(* RemoteServiceProvider.subscribe: capture first, then the snapshot.  It  *)
(* throws when the provider is disposed or the singleton is not provided.  *)
CanSubscribe == ~stopped /\ (Keyed \/ live[Sole] # 0)

Subscriber(rev) ==
    [rev |-> rev, active |-> FALSE, terminated |-> FALSE,
     closed |-> FALSE, listed |-> TRUE, buffer |-> <<>>,
     snapshot |-> {Update("spawned", k, Value(k)) : k \in {k \in Slots : live[k] # 0}},
     covered |-> {Memory(k, Gen(live[k]), Value(k)) : k \in {k \in Slots : live[k] # 0}}]

(* Mutant of Closed: the buffer is not emptied.                            *)
ClosedKeepsBuffer(s) == [s EXCEPT !.closed = TRUE, !.listed = FALSE, !.active = FALSE,
                                  !.snapshot = {}, !.covered = {}, !.rev = 0]

(* close() of the subscription: nothing of the subscriber is used again.   *)
Closed(s) == [s EXCEPT !.closed = TRUE, !.listed = FALSE, !.active = FALSE,
                       !.buffer = <<>>, !.snapshot = {}, !.covered = {},
                       !.rev = 0]

CloseSub(ss, n) == IF n = 0 THEN ss ELSE [ss EXCEPT ![n] = Closed(@)]

(* activate(): the subscriber is active from now on; what was buffered is  *)
(* delivered; a subscriber the provider has terminated is closed then.     *)
Activate(s) == [s EXCEPT !.active = TRUE, !.buffer = <<>>, !.snapshot = {},
                         !.closed = s.terminated]

-----------------------------------------------------------------------------
(* Operations of the provider.                                             *)

consumer == <<mode, bound, disposed, binding, tasks, revision, reader>>

Open(k) ==
    /\ lives' = [lives EXCEPT ![k] = @ + 1]
    /\ live' = [live EXCEPT ![k] = lives'[k]]
    /\ seq' = [seq EXCEPT ![k] = 0]

(* Commits of an implementation that is gone reach nobody.                 *)
Leave(K) ==
    /\ live' = [k \in Keys |-> IF k \in K THEN 0 ELSE live[k]]
    /\ seq' = [k \in Keys |-> IF k \in K THEN 0 ELSE seq[k]]

(* provide: the first implementation, or one after withdraw.  The          *)
(* subscribers there are are not told of it.                               *)
Provide ==
    /\ ~Keyed /\ ~stopped /\ live[Sole] = 0 /\ lives[Sole] < MaxLives
    /\ Open(Sole)
    /\ untold' = {n \in DOMAIN subs : subs[n].listed}
    /\ UNCHANGED <<stopped, subs, held, running, faults, consumer>>

(* replace: the next implementation, with the same members.                *)
Replace ==
    /\ ~Keyed /\ ~stopped /\ lives[Sole] < MaxLives
    /\ Open(Sole)
    /\ Emit(Update("replaced", Sole, [life |-> live'[Sole], seq |-> 0]))
    /\ untold' = {}
    /\ UNCHANGED <<stopped, consumer>>

Withdraw ==
    /\ ~Keyed /\ ~stopped /\ live[Sole] # 0
    /\ Leave({Sole})
    /\ Emit(Update("unavailable", Sole, Cold))
    /\ untold' = {}
    /\ UNCHANGED <<lives, stopped, consumer>>

SpawnInstance(k) ==
    /\ Keyed /\ ~stopped /\ live[k] = 0 /\ lives[k] < MaxLives
    /\ Open(k)
    /\ Emit(Update("spawned", k, [life |-> live'[k], seq |-> 0]))
    /\ UNCHANGED <<stopped, untold, consumer>>

(* The function spawn returns.                                             *)
CloseInstance(k) ==
    /\ Keyed /\ live[k] # 0
    /\ Leave({k})
    /\ Emit(Update("closed", k, Value(k)))
    /\ UNCHANGED <<lives, stopped, untold, consumer>>

(* MutableReplicatedStateImpl.#commit of the state of a live instance.     *)
Change(k) ==
    /\ k \in Slots /\ live[k] # 0 /\ seq[k] < MaxSeq
    /\ seq' = [seq EXCEPT ![k] = @ + 1]
    /\ Emit(Update("state", k, [life |-> live[k], seq |-> seq'[k]]))
    /\ UNCHANGED <<live, lives, stopped, untold, consumer>>

(* dispose of the provider: the instances go, one after the other, and     *)
(* with them the subscribers; one that is not active yet is only marked.   *)
Farewell(k) == Update(IF Keyed THEN "closed" ELSE "unavailable", k, Value(k))
Farewells ==
    LET order == SetToSeq({k \in Slots : live[k] # 0})
    IN  [i \in DOMAIN order |-> Farewell(order[i])]

Ended(s) ==
    IF ~s.listed \/ s.closed THEN s
    ELSE IF s.active THEN Closed(s)
    ELSE [s EXCEPT !.terminated = TRUE, !.listed = FALSE, !.covered = {}, !.buffer = @ \o Farewells]

Dispose ==
    /\ ~stopped
    /\ stopped' = TRUE /\ Leave(Keys) /\ untold' = {}
    /\ subs' = [n \in DOMAIN subs |-> Ended(subs[n])]
    /\ Becomes(FoldLeft(Hear, World, Farewells))
    /\ UNCHANGED <<lives, consumer>>

-----------------------------------------------------------------------------
(* Operations of the consumer.                                             *)

(* The call of transport.subscribe in a start: the provider is reached     *)
(* now, the rest of the start is a continuation.  `others' are the tasks   *)
(* that stay.                                                              *)
Start(rev, others) ==
    /\ subs' = IF CanSubscribe THEN Append(subs, Subscriber(rev)) ELSE subs
    /\ tasks' = others \cup {[rev |-> rev, stage |-> "subscribing", bound |-> TRUE,
                              sub |-> IF CanSubscribe THEN Len(subs) + 1 ELSE 0]}

(* use: the singleton's binding is made once.                              *)
Use ==
    /\ ~Keyed /\ ~disposed /\ ~binding.open /\ revision < MaxRevision
    /\ revision' = revision + 1
    /\ binding' = [binding EXCEPT !.open = TRUE, !.starting = bound]
    /\ IF bound THEN Start(binding.rev, tasks) ELSE UNCHANGED <<subs, tasks>>
    /\ UNCHANGED <<mode, bound, disposed, held, running, reader, faults, provider>>

Rebinding == \E t \in tasks : t.rev = binding.rev /\ t.stage = "closing"

(* observe: the first handler makes the binding; the directory starts a    *)
(* handler for the instances it has; a binding that is not starting starts.*)
Observe(o) ==
    LET starts == bound /\ ~binding.starting
    IN  /\ Keyed /\ ~disposed
        /\ ~binding.open => revision < MaxRevision
        /\ o \notin binding.observers
        /\ ObserveWhileRebinding \/ ~Rebinding
        /\ revision' = IF binding.open THEN revision ELSE revision + 1
        /\ binding' = [binding EXCEPT !.open = TRUE, !.observers = @ \cup {o},
                                      !.starting = @ \/ starts]
        /\ running' = running \cup
                {[observer |-> o, key |-> k, gen |-> held[k].gen] :
                    k \in {k \in Keys : binding.ready /\ held[k] # NoEntry}}
        /\ IF starts THEN Start(binding.rev, tasks) ELSE UNCHANGED <<subs, tasks>>
        /\ UNCHANGED <<mode, bound, disposed, held, reader, faults, provider>>

(* KeyedBinding.#reset, and its counterpart in rebind and dispose of a     *)
(* singleton: the replicas are cleared, the handlers cancelled and the     *)
(* subscription closed.                                                    *)
Reset ==
    /\ held' = [k \in Keys |-> NoEntry]
    /\ running' = {}
    /\ subs' = CloseSub(subs, binding.sub)

(* close() of a binding, by its last observer or by dispose.               *)
CloseBinding == Reset /\ binding' = Shut(binding.rev + 1)

(* The function observe returns.                                           *)
StopObserving(o) ==
    /\ o \in binding.observers
    /\ IF binding.observers = {o}
       THEN CloseBinding /\ revision' = revision + 1
       ELSE /\ binding' = [binding EXCEPT !.observers = @ \ {o}]
            /\ running' = {h \in running : h.observer # o}
            /\ UNCHANGED <<held, subs, revision>>
    /\ UNCHANGED <<mode, bound, disposed, tasks, reader, faults, provider>>

(* rebind, up to where it waits for the old subscription to be closed.     *)
Rebind(to) ==
    /\ ~disposed /\ revision < MaxRevision
    /\ bound' = to /\ revision' = revision + 1
    /\ IF ~binding.open
       THEN UNCHANGED <<held, running, subs, binding, tasks>>
       ELSE /\ Reset
            /\ binding' = [binding EXCEPT !.rev = @ + 1, !.sub = 0, !.failed = FALSE,
                                          !.ready = FALSE, !.starting = ~Keyed]
            /\ tasks' = tasks \cup {[rev |-> binding.rev + 1, stage |-> "closing",
                                     bound |-> to, sub |-> 0]}
    /\ UNCHANGED <<mode, disposed, reader, faults, provider>>

DisposeConsumer ==
    /\ ~disposed /\ disposed' = TRUE
    /\ CloseBinding
    /\ UNCHANGED <<mode, bound, tasks, revision, reader, faults, provider>>

(* Is the binding still open, connected and at the revision of the task?   *)
Latest(t) == binding.open /\ bound /\ binding.rev = t.rev

(* The rest of rebind.  A keyed binding looks whether it is still the      *)
(* latest rebind; a singleton starts and looks after that.                 *)
Restart(t) ==
    LET starts == t.bound /\ (Keyed => Latest(t) /\ binding.observers # {})
    IN  /\ t.stage = "closing"
        /\ IF starts THEN Start(t.rev, tasks \ {t}) ELSE tasks' = tasks \ {t} /\ UNCHANGED subs
        /\ binding' = [binding EXCEPT !.starting = @ \/ (Keyed /\ starts)]
        /\ UNCHANGED <<mode, bound, disposed, held, running, revision, reader, faults, provider>>

(* Mutant of Late: the subscription of a start that is late stays open.    *)
LateStaysOpen(t) ==
    /\ t.stage = "subscribing" /\ t.sub # 0 /\ ~Latest(t)
    /\ tasks' = tasks \ {t}
    /\ UNCHANGED <<mode, bound, disposed, binding, subs, held, running, revision, reader, faults, provider>>

(* A start that is late: its binding is closed, unbound or has moved on.   *)
Late(t) ==
    /\ t.stage = "subscribing" /\ t.sub # 0 /\ ~Latest(t)
    /\ subs' = CloseSub(subs, t.sub) /\ tasks' = tasks \ {t}
    /\ UNCHANGED <<mode, bound, disposed, binding, held, running, revision, reader, faults, provider>>

(* A start fails when subscribe throws, or when the snapshot repeats an    *)
(* instance that is there already.  A caller of ready() waiting for it     *)
(* gets the error.                                                         *)
Fails(t) ==
    /\ binding' = [binding EXCEPT !.failed = @ \/ (binding.open /\ binding.rev = t.rev),
                                  !.sub = IF t.sub = 0 THEN @ ELSE t.sub]
    /\ reader' = IF t.rev \in reader.on THEN Idle ELSE reader

Refused(t) ==
    /\ t.stage = "subscribing" /\ t.sub = 0
    /\ tasks' = tasks \ {t} /\ Fails(t)
    /\ UNCHANGED <<mode, bound, disposed, subs, held, running, revision, faults, provider>>

(* The rest of #startSingleton and KeyedBinding.#start: the snapshot is    *)
(* installed, the subscription activated and the directory made ready.     *)
Install(w, u) ==
    IF ~Keyed THEN [w EXCEPT !.held[u.key] = [gen |-> 0, val |-> u.val]]
    ELSE IF w.faults # {} THEN w ELSE Spawn(w, u)

Installed(t) == FoldLeft(Install, [World EXCEPT !.faults = {}], SetToSeq(subs[t.sub].snapshot))

Caught(t) == FoldLeft(LAMBDA w, u : Deliver(w, t.rev, u), Installed(t), subs[t.sub].buffer)

Repeats(t) ==
    /\ held' = Installed(t).held /\ running' = Installed(t).running
    /\ faults' = faults \cup Installed(t).faults
    /\ Fails(t) /\ UNCHANGED subs

Activates(t) ==
    LET w == Caught(t)
        all == {k \in Keys : Keyed /\ w.held[k] # NoEntry}
    IN  /\ held' = w.held /\ faults' = faults \cup w.faults
        /\ running' = w.running \cup UNION {Handlers(k, w.held[k].gen) : k \in all}
        /\ subs' = [subs EXCEPT ![t.sub] = Activate(@)]
        /\ binding' = [binding EXCEPT !.sub = t.sub, !.ready = Keyed]
        /\ UNCHANGED reader

Subscribed(t) ==
    /\ t.stage = "subscribing" /\ t.sub # 0 /\ Latest(t)
    /\ tasks' = tasks \ {t}
    /\ IF Installed(t).faults # {} THEN Repeats(t) ELSE Activates(t)
    /\ UNCHANGED <<mode, bound, disposed, revision, provider>>

(* ready(): waits for the starts it finds, again when a binding was made   *)
(* or rebound meanwhile.  It throws when one of them has failed or the     *)
(* consumer is disposed.                                                   *)
Starts == {t.rev : t \in {t \in tasks : binding.open /\ t.rev = binding.rev}}

Throws == disposed \/ binding.failed

Waiting == [waiting |-> TRUE, rev |-> revision, on |-> Starts]

CallReady ==
    /\ ~reader.waiting /\ ~Throws
    /\ reader' = Waiting
    /\ UNCHANGED <<mode, bound, disposed, binding, subs, held, running, tasks, revision, faults, provider>>

(* Mutant of ReadyWakes: what was bound meanwhile is not waited for.       *)
ReadyWakesOnce ==
    /\ reader.waiting
    /\ \A t \in tasks : t.rev \notin reader.on
    /\ reader' = Idle
    /\ UNCHANGED <<mode, bound, disposed, binding, subs, held, running, tasks, revision, faults, provider>>

ReadyWakes ==
    /\ reader.waiting
    /\ \A t \in tasks : t.rev \notin reader.on
    /\ reader' = IF Throws \/ revision = reader.rev THEN Idle ELSE Waiting
    /\ UNCHANGED <<mode, bound, disposed, binding, subs, held, running, tasks, revision, faults, provider>>

Continue(t) == Restart(t) \/ Late(t) \/ Refused(t) \/ Subscribed(t)

Calls ==
    \/ Provide \/ Replace \/ Withdraw \/ Dispose \/ Use \/ DisposeConsumer \/ CallReady
    \/ \E k \in Keys : SpawnInstance(k) \/ CloseInstance(k) \/ Change(k)
    \/ \E o \in Observers : Observe(o) \/ StopObserving(o)
    \/ \E to \in BOOLEAN : Rebind(to)

Next == Calls \/ (\E t \in tasks : Continue(t)) \/ ReadyWakes

Spec == Init /\ [][Next]_vars

-----------------------------------------------------------------------------
(* Properties.                                                             *)

(* Every variable has its type.                                            *)
TypeOK ==
    /\ mode \in Modes /\ {stopped, bound, disposed} \subseteq BOOLEAN
    /\ live \in [Keys -> 0..MaxLives] /\ lives \in [Keys -> 0..MaxLives] /\ seq \in [Keys -> 0..MaxSeq]
    /\ held \in [Keys -> [gen : 0..MaxLives, val : [life : 0..MaxLives, seq : 0..MaxSeq]]]
    /\ binding.observers \subseteq Observers /\ binding.sub \in 0..Len(subs)
    /\ \A n \in DOMAIN subs : subs[n].closed => subs[n].buffer = <<>>
    /\ \A t \in tasks : t.stage \in {"closing", "subscribing"} /\ t.sub \in 0..Len(subs)
    /\ running \subseteq [observer : Observers, key : Keys, gen : 1..MaxLives]

(* When nothing is in flight, a connected binding has its one subscription *)
(* and the provider serves no other: whatever the order of observe, use,   *)
(* rebind, stop, dispose and their continuations, none is left behind and  *)
(* no rebind is forgotten.                                                 *)
OneSubscription ==
    LET connected == binding.open /\ bound /\ ~binding.failed /\ ~stopped IN
    tasks = {} => /\ {n \in DOMAIN subs : subs[n].listed} = IF connected THEN {binding.sub} ELSE {}
                  /\ connected => subs[binding.sub].active

(* Updates that race the snapshot are delivered after it with no gap:      *)
(* whatever subscribe, rebind, spawn, replace, close and commit do to each *)
(* other, no instance is announced twice and no replica that holds a value *)
(* is handed an update that does not follow it.  An update that comes      *)
(* before hydration is reported for a singleton only.  When nothing is in  *)
(* flight a connected binding has exactly the instances of the provider,   *)
(* each at its generation and its value: a singleton is empty instead only *)
(* while its subscription is older than a provide that followed a withdraw *)
(* and told nobody (provider.ts:112).                                      *)
NoGap ==
    /\ faults \subseteq (IF Keyed THEN {} ELSE {"cold"})
    /\ (tasks = {} /\ binding.open /\ bound /\ ~binding.failed) =>
          \A k \in Keys :
              \/ held[k] = [gen |-> Gen(live[k]), val |-> Value(k)]
              \/ (~Keyed /\ binding.sub \in untold /\ held[k] = NoEntry)

(* An observer has one handler running for each instance of the directory, *)
(* started only when the directory is ready and cancelled with the         *)
(* instance, the connection or the observation.                            *)
HandlersFollow ==
    running = UNION {Handlers(k, held[k].gen) : k \in {k \in Keys : binding.ready /\ held[k] # NoEntry}}

(* When ready() returns, a binding that is connected has its subscription, *)
(* and the subscription is active (or the provider is gone).  A wait that  *)
(* ends together with a start has thrown the error of that start.          *)
ReadyReturns == reader.waiting /\ ~reader'.waiting /\ ~Throws /\ tasks' = tasks

ReadyMeansSubscribed ==
    [][ReadyReturns /\ bound /\ binding.open =>
            binding.sub # 0 /\ (subs[binding.sub].active \/ stopped)]_vars

(* The replicas of the consumer implement one-writer latest-value          *)
(* replication.                                                            *)
Replication == INSTANCE ReplicatedState WITH
    source <- [k \in Keys |-> Value(k)],
    shown <- [k \in Keys |-> held[k].val]

ImplementsReplication == Replication!Spec
=============================================================================
