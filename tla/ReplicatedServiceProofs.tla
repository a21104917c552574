----------------------- MODULE ReplicatedServiceProofs -----------------------
(***************************************************************************)
(* Proofs about ReplicatedService, for any keys, observers and bounds: the *)
(* subscriptions of a binding, through every order of its starts, rebinds, *)
(* closings and their continuations.  What is delivered over them is not   *)
(* looked at.                                                              *)
(***************************************************************************)
EXTENDS ReplicatedService, FiniteSetTheorems, TLAPS

-----------------------------------------------------------------------------
(* The types of what the provider and the binding keep.                    *)
Vals    == [life : 0..MaxLives, seq : 0..MaxSeq]
Updates == [type : {"unavailable", "replaced", "spawned", "closed", "state"},
            key : Keys, gen : 0..MaxLives, val : Vals]
Notes   == [key : Keys, gen : Nat, seq : Nat]
Subscribers ==
    [rev : Nat, active : BOOLEAN, terminated : BOOLEAN, closed : BOOLEAN, listed : BOOLEAN,
     buffer : Seq(Updates), snapshot : SUBSET Updates, covered : SUBSET Notes]
Tasks == [rev : Nat, stage : {"closing", "subscribing"}, bound : BOOLEAN, sub : Nat]

ProviderTyped ==
    /\ live \in [Keys -> 0..MaxLives] /\ lives \in [Keys -> 0..MaxLives] /\ seq \in [Keys -> 0..MaxSeq]
    /\ stopped \in BOOLEAN
SubsTyped == subs \in Seq(Subscribers)
BindingTyped ==
    /\ bound \in BOOLEAN /\ disposed \in BOOLEAN
    /\ binding \in [open : BOOLEAN, rev : Nat, sub : Nat, starting : BOOLEAN, failed : BOOLEAN,
                    ready : BOOLEAN, observers : SUBSET Observers]
TasksTyped == tasks \subseteq Tasks
ReaderTyped == revision \in Nat /\ reader \in [waiting : BOOLEAN, rev : Nat, on : SUBSET Nat]
Typed == ProviderTyped /\ SubsTyped /\ BindingTyped /\ TasksTyped /\ ReaderTyped

(* A continuation belongs to the present life of the binding or to an      *)
(* earlier one.                                                            *)
RevInv ==
    \A t \in tasks : t.rev <= binding.rev /\ (~binding.open => t.rev < binding.rev)

(* A subscription is that of the binding or of one start.                  *)
OwnInv ==
    /\ binding.sub <= Len(subs)
    /\ \A t \in tasks : t.sub <= Len(subs) /\ (t.sub # 0 => t.sub # binding.sub)
    /\ \A t \in tasks : t.stage = "closing" => t.sub = 0
    /\ \A t, v \in tasks : t.sub = v.sub /\ t.sub # 0 => t = v

(* The rebind that waits knows whether the binding is connected; a keyed   *)
(* binding is open as long as it has observers; connected, it has started, *)
(* or a rebind is going to start it.                                       *)
StartInv ==
    /\ \A t \in tasks : t.stage = "closing" /\ t.rev = binding.rev => t.bound = bound
    /\ ~binding.open => ~binding.starting
    /\ Keyed /\ binding.open => binding.observers # {}
    /\ Keyed /\ binding.open /\ bound /\ ~binding.starting =>
          \E t \in tasks : t.rev = binding.rev /\ t.stage = "closing"

(* A connected binding without a start under way has its subscription.     *)
ServedInv ==
    (/\ binding.open /\ bound /\ ~binding.failed
     /\ \A t \in tasks : t.rev # binding.rev) =>
        binding.sub # 0 /\ (subs[binding.sub].active \/ stopped)

(* ready() waits for the starts of the present life of the binding.        *)
WaitInv ==
    reader.waiting =>
       /\ reader.rev <= revision
       /\ (reader.rev = revision /\ binding.open /\ \E t \in tasks : t.rev = binding.rev) =>
             binding.rev \in reader.on

Coherent == Typed /\ RevInv /\ OwnInv /\ StartInv /\ ServedInv /\ WaitInv

(* One start at a time, and nothing is subscribed but by it or for the     *)
(* binding.                                                                *)
AloneInv ==
    /\ \A t \in tasks : t.rev = binding.rev => binding.sub = 0 /\ ~binding.failed
    /\ \A t, v \in tasks : t.rev = binding.rev /\ v.rev = binding.rev => t = v
    /\ binding.sub # 0 => binding.open /\ bound /\ ~binding.failed
    /\ binding.failed => binding.open
ListedInv ==
    /\ \A n \in 1..Len(subs) : subs[n].listed =>
          ~subs[n].closed /\ ~subs[n].terminated /\ (n = binding.sub \/ \E t \in tasks : t.sub = n)
    /\ stopped => \A n \in 1..Len(subs) : ~subs[n].listed
    /\ ~stopped /\ binding.sub # 0 => subs[binding.sub].listed /\ subs[binding.sub].active
    /\ ~stopped => \A t \in tasks : t.sub # 0 => subs[t.sub].listed

-----------------------------------------------------------------------------
(* Updates and subscribers keep their types.                               *)
LEMMA ValueIn ==
  ASSUME ProviderTyped, NEW k \in Keys
  PROVE  Value(k) \in Vals /\ Cold \in Vals
BY ServiceAssumption DEF ProviderTyped, Value, Vals, Cold

LEMMA UpdateIn ==
  ASSUME NEW type \in {"unavailable", "replaced", "spawned", "closed", "state"},
         NEW k \in Keys, NEW val \in Vals
  PROVE  Update(type, k, val) \in Updates
BY ServiceAssumption DEF Update, Updates, Vals, Gen

LEMMA CoveredIn ==
  ASSUME NEW s \in Subscribers, NEW u \in Updates
  PROVE  Covered(s, u) \in SUBSET Notes
<1>1. Remembered(s, u) \subseteq s.covered /\ s.covered \subseteq Notes
  BY DEF Remembered, Subscribers
<1>2. Memory(u.key, u.gen, u.val) \in Notes
  BY DEF Memory, Notes, Updates, Vals
<1>3. u.type \in {"unavailable", "replaced", "spawned", "closed", "state"}
  BY DEF Updates
<1> QED
  BY <1>1, <1>2, <1>3 DEF Covered

(* What close() does to a subscriber.                                      *)
LEMMA ClosedSub ==
  ASSUME NEW s \in Subscribers
  PROVE  /\ Closed(s) \in Subscribers
         /\ ~Closed(s).listed /\ Closed(s).terminated = s.terminated
<1>1. <<>> \in Seq(Updates)
  OBVIOUS
<1>2. Closed(s) \in Subscribers
  BY <1>1 DEF Closed, Subscribers
<1>3. ~Closed(s).listed /\ Closed(s).terminated = s.terminated
  BY DEF Closed, Subscribers
<1> QED
  BY <1>2, <1>3

(* What activate() does to a subscriber.                                   *)
LEMMA ActivatedSub ==
  ASSUME NEW s \in Subscribers
  PROVE  /\ Activate(s) \in Subscribers
         /\ Activate(s).active /\ Activate(s).listed = s.listed
         /\ Activate(s).closed = s.terminated /\ Activate(s).terminated = s.terminated
<1>1. <<>> \in Seq(Updates)
  OBVIOUS
<1>2. Activate(s) \in Subscribers
  BY <1>1 DEF Activate, Subscribers
<1>3. /\ Activate(s).active /\ Activate(s).listed = s.listed
      /\ Activate(s).closed = s.terminated /\ Activate(s).terminated = s.terminated
  BY DEF Activate, Subscribers
<1> QED
  BY <1>2, <1>3

(* #emit leaves the subscribers and their standing alone.                  *)
SameStanding(s, r) ==
    /\ r.active = s.active /\ r.listed = s.listed
    /\ r.closed = s.closed /\ r.terminated = s.terminated
SameSubs ==
    /\ Len(subs') = Len(subs)
    /\ \A n \in 1..Len(subs) : SameStanding(subs[n], subs'[n])

LEMMA EmittedSubs ==
  ASSUME SubsTyped, NEW u \in Updates, subs' = Emitted(subs, u)
  PROVE  SubsTyped' /\ SameSubs
<1>0. DOMAIN subs = 1..Len(subs) /\ Len(subs) \in Nat
  BY DEF SubsTyped
<1>1. /\ subs' = [n \in 1..Len(subs) |-> subs'[n]]
      /\ \A n \in 1..Len(subs) : subs'[n] =
           IF subs[n].listed /\ ~subs[n].closed
           THEN [subs[n] EXCEPT !.covered = Covered(subs[n], u),
                                !.buffer = IF Wants(subs[n], u) /\ ~subs[n].active
                                           THEN Append(@, u) ELSE @]
           ELSE subs[n]
  BY <1>0 DEF Emitted
<1>2. ASSUME NEW s \in Subscribers
      PROVE  [s EXCEPT !.covered = Covered(s, u), !.buffer = Append(@, u)] \in Subscribers
  <2>1. Append(s.buffer, u) \in Seq(Updates) /\ Covered(s, u) \in SUBSET Notes
    BY CoveredIn DEF Subscribers
  <2> QED
    BY <2>1 DEF Subscribers
<1>3. ASSUME NEW s \in Subscribers
      PROVE  [s EXCEPT !.covered = Covered(s, u), !.buffer = @] \in Subscribers
  BY CoveredIn DEF Subscribers
<1>4. ASSUME NEW n \in 1..Len(subs)
      PROVE  subs'[n] \in Subscribers /\ SameStanding(subs[n], subs'[n])
  <2>1. subs[n] \in Subscribers
    BY DEF SubsTyped
  <2>2. subs'[n] \in Subscribers
    BY <1>1, <1>2, <1>3, <2>1
  <2>3. SameStanding(subs[n], subs'[n])
    BY <1>1, <2>1 DEF SameStanding, Subscribers
  <2> QED
    BY <2>2, <2>3
<1>5. subs' \in [1..Len(subs) -> Subscribers] /\ Len(subs) \in Nat
  BY <1>0, <1>1, <1>4
<1>6. subs' \in Seq(Subscribers) /\ Len(subs') = Len(subs)
  BY <1>5
<1> QED
  BY <1>4, <1>6 DEF SubsTyped, SameSubs

(* A new subscriber.                                                       *)
LEMMA NewSub ==
  ASSUME ProviderTyped, NEW rev \in Nat
  PROVE  /\ Subscriber(rev) \in Subscribers
         /\ Subscriber(rev).listed /\ ~Subscriber(rev).closed /\ ~Subscriber(rev).terminated
<1>1. Slots \subseteq Keys
  BY ServiceAssumption DEF Slots
<1>2. \A k \in Keys : Update("spawned", k, Value(k)) \in Updates
  BY ValueIn, UpdateIn
<1>3. \A k \in Keys : Memory(k, Gen(live[k]), Value(k)) \in Notes
  BY ValueIn DEF Memory, Notes, Gen, ProviderTyped, Vals
<1>4. {Update("spawned", k, Value(k)) : k \in {k \in Slots : live[k] # 0}} \in SUBSET Updates
  BY <1>1, <1>2
<1>5. {Memory(k, Gen(live[k]), Value(k)) : k \in {k \in Slots : live[k] # 0}} \in SUBSET Notes
  BY <1>1, <1>3
<1>6. <<>> \in Seq(Updates)
  OBVIOUS
<1> QED
  BY <1>4, <1>5, <1>6 DEF Subscriber, Subscribers

(* The farewells of dispose are a sequence of updates.                     *)
LEMMA FarewellsIn ==
  ASSUME ProviderTyped
  PROVE  Farewells \in Seq(Updates)
<1> DEFINE S == {k \in Slots : live[k] # 0}
           n == Cardinality(S)
<1>1. S \subseteq Keys /\ IsFiniteSet(Keys)
  BY ServiceAssumption DEF Slots
<1>2. IsFiniteSet(S) /\ n \in Nat
  BY <1>1, FS_Subset, FS_CardinalityType
<1>3. \E f \in [1..n -> S] : IsInjective(f)
  <2>1. ExistsBijection(1..n, S)
    BY <1>2, FS_NatBijection, FS_CountingElements
  <2>2. PICK f \in Bijection(1..n, S) : TRUE
    BY <2>1 DEF ExistsBijection
  <2>3. f \in [1..n -> S] /\ \A a, b \in 1..n : f[a] = f[b] => a = b
    BY <2>2 DEF Bijection, Injection, Surjection, IsInjective
  <2> QED
    BY <2>3 DEF IsInjective
<1>4. SetToSeq(S) \in [1..n -> S]
  BY <1>3 DEF SetToSeq
<1>5. \A i \in 1..n : Farewell(SetToSeq(S)[i]) \in Updates
  BY <1>1, <1>4, ValueIn, UpdateIn DEF Farewell
<1>6. Farewells \in [1..n -> Updates]
  BY <1>4, <1>5 DEF Farewells
<1> HIDE DEF n, S
<1> QED
  BY <1>2, <1>6

(* What dispose of the provider does to a subscriber.                      *)
LEMMA EndedSub ==
  ASSUME ProviderTyped, NEW s \in Subscribers
  PROVE  /\ Ended(s) \in Subscribers
         /\ Ended(s).listed => s.listed /\ s.closed /\ Ended(s) = s
<1>1. CASE ~s.listed \/ s.closed
  BY <1>1 DEF Ended
<1>2. CASE s.listed /\ ~s.closed /\ s.active
  BY <1>2, ClosedSub DEF Ended
<1>3. CASE s.listed /\ ~s.closed /\ ~s.active
  <2> DEFINE B == s.buffer \o Farewells
  <2>1. B \in Seq(Updates)
    BY FarewellsIn DEF Subscribers
  <2>2. Ended(s) = [s EXCEPT !.terminated = TRUE, !.listed = FALSE, !.covered = {}, !.buffer = B]
    BY <1>3 DEF Ended, Subscribers
  <2> HIDE DEF B
  <2>3. [s EXCEPT !.terminated = TRUE, !.listed = FALSE, !.covered = {}, !.buffer = B] \in Subscribers
    BY <2>1 DEF Subscribers
  <2>4. ~[s EXCEPT !.terminated = TRUE, !.listed = FALSE, !.covered = {}, !.buffer = B].listed
    BY DEF Subscribers
  <2> QED
    BY <2>2, <2>3, <2>4
<1> QED
  BY <1>1, <1>2, <1>3 DEF Subscribers

(* close() of one subscription.                                            *)
LEMMA CloseSubs ==
  ASSUME SubsTyped, NEW m \in 0..Len(subs), subs' = CloseSub(subs, m)
  PROVE  /\ SubsTyped' /\ Len(subs') = Len(subs)
         /\ \A n \in 1..Len(subs) : n # m => subs'[n] = subs[n]
         /\ m # 0 => ~subs'[m].listed
<1>1. CASE m = 0
  BY <1>1 DEF CloseSub, SubsTyped
<1>2. CASE m # 0
  <2>1. subs[m] \in Subscribers /\ m \in 1..Len(subs) /\ Len(subs) \in Nat
    BY <1>2 DEF SubsTyped
  <2>2. subs' = [subs EXCEPT ![m] = Closed(subs[m])]
    BY <1>2 DEF CloseSub
  <2>3. Closed(subs[m]) \in Subscribers /\ ~Closed(subs[m]).listed
    BY <2>1, ClosedSub
  <2>4. subs' \in [1..Len(subs) -> Subscribers]
    BY <2>1, <2>2, <2>3 DEF SubsTyped
  <2>5. subs' \in Seq(Subscribers) /\ Len(subs') = Len(subs)
    BY <2>1, <2>4
  <2> QED
    BY <2>1, <2>2, <2>3, <2>5 DEF SubsTyped
<1> QED
  BY <1>1, <1>2

(* transport.subscribe in a start: n is the new subscriber, or 0 if it was *)
(* refused.                                                                *)
Opened(rev, others, n) ==
    /\ tasks' = others \cup {[rev |-> rev, stage |-> "subscribing", bound |-> TRUE, sub |-> n]}
    /\ SubsTyped' /\ n \in Nat
    /\ n = 0 => subs' = subs
    /\ n # 0 => /\ n = Len(subs) + 1 /\ Len(subs') = n /\ ~stopped
               /\ subs'[n].listed /\ ~subs'[n].closed /\ ~subs'[n].terminated
               /\ \A i \in 1..Len(subs) : subs'[i] = subs[i]

LEMMA StartSubs ==
  ASSUME ProviderTyped, SubsTyped, NEW rev \in Nat, NEW others, Start(rev, others)
  PROVE  \E n : Opened(rev, others, n)
<1>1. CASE CanSubscribe
  <2> DEFINE s == Subscriber(rev)
  <2>1. s \in Subscribers /\ s.listed /\ ~s.closed /\ ~s.terminated
    BY NewSub
  <2>2. subs' = Append(subs, s)
    BY <1>1 DEF Start
  <2>3. tasks' = others \cup {[rev |-> rev, stage |-> "subscribing", bound |-> TRUE, sub |-> Len(subs) + 1]}
    BY <1>1 DEF Start
  <2> HIDE DEF s
  <2>4. /\ subs' \in Seq(Subscribers) /\ Len(subs') = Len(subs) + 1 /\ subs'[Len(subs) + 1] = s
        /\ \A i \in 1..Len(subs) : subs'[i] = subs[i]
        /\ Len(subs) \in Nat
    BY <2>1, <2>2 DEF SubsTyped
  <2>5. ~stopped
    BY <1>1 DEF CanSubscribe
  <2>6. Opened(rev, others, Len(subs) + 1)
    BY <2>1, <2>3, <2>4, <2>5 DEF SubsTyped, Opened
  <2> QED
    BY <2>6
<1>2. CASE ~CanSubscribe
  <2>1. Opened(rev, others, 0)
    BY <1>2 DEF Start, Opened, SubsTyped
  <2> QED
    BY <2>1
<1> QED
  BY <1>1, <1>2

-----------------------------------------------------------------------------
(* What the actions do to the provider, the subscribers, the binding and   *)
(* the continuations.                                                      *)

(* The provider's operations but dispose.                                  *)
Emits == SubsTyped' /\ SameSubs /\ UNCHANGED consumer /\ stopped' = stopped

LEMMA ProvideEffect ==
  ASSUME Typed, Provide
  PROVE  ProviderTyped' /\ Emits
BY ServiceAssumption DEF Typed, Provide, Open, ProviderTyped, SubsTyped, Emits, SameSubs, SameStanding, consumer

LEMMA OpenTyped ==
  ASSUME ProviderTyped, NEW k \in Keys, lives[k] < MaxLives, Open(k), stopped' = stopped
  PROVE  ProviderTyped' /\ [life |-> live'[k], seq |-> 0] \in Vals
<1>1. /\ lives' \in [Keys -> 0..MaxLives] /\ seq' \in [Keys -> 0..MaxSeq]
      /\ lives'[k] \in 0..MaxLives /\ 0 \in 0..MaxSeq
  BY ServiceAssumption DEF ProviderTyped, Open
<1>2. live' \in [Keys -> 0..MaxLives]
  BY <1>1 DEF ProviderTyped, Open
<1> QED
  BY <1>1, <1>2 DEF ProviderTyped, Vals

LEMMA LeaveTyped ==
  ASSUME ProviderTyped, NEW K, Leave(K), lives' = lives, stopped' \in BOOLEAN
  PROVE  ProviderTyped'
BY ServiceAssumption DEF ProviderTyped, Leave

LEMMA ReplaceEffect ==
  ASSUME Typed, Replace
  PROVE  ProviderTyped' /\ Emits
<1>1. Sole \in Keys
  BY ServiceAssumption
<1>2. ProviderTyped' /\ [life |-> live'[Sole], seq |-> 0] \in Vals
  BY <1>1, OpenTyped DEF Replace, Typed
<1>3. Update("replaced", Sole, [life |-> live'[Sole], seq |-> 0]) \in Updates
  BY <1>1, <1>2, UpdateIn
<1> QED
  BY <1>2, <1>3, EmittedSubs DEF Replace, Emit, Typed, Emits

LEMMA WithdrawEffect ==
  ASSUME Typed, Withdraw
  PROVE  ProviderTyped' /\ Emits
<1>1. Sole \in Keys
  BY ServiceAssumption
<1>2. ProviderTyped'
  BY LeaveTyped DEF Withdraw, Typed, ProviderTyped
<1>3. Update("unavailable", Sole, Cold) \in Updates
  BY <1>1, ValueIn, UpdateIn DEF Typed
<1> QED
  BY <1>2, <1>3, EmittedSubs DEF Withdraw, Emit, Typed, Emits

LEMMA SpawnEffect ==
  ASSUME Typed, NEW k \in Keys, SpawnInstance(k)
  PROVE  ProviderTyped' /\ Emits
<1>1. ProviderTyped' /\ [life |-> live'[k], seq |-> 0] \in Vals
  BY OpenTyped DEF SpawnInstance, Typed
<1>2. Update("spawned", k, [life |-> live'[k], seq |-> 0]) \in Updates
  BY <1>1, UpdateIn
<1> QED
  BY <1>1, <1>2, EmittedSubs DEF SpawnInstance, Emit, Typed, Emits

LEMMA CloseEffect ==
  ASSUME Typed, NEW k \in Keys, CloseInstance(k)
  PROVE  ProviderTyped' /\ Emits
<1>1. ProviderTyped'
  BY LeaveTyped DEF CloseInstance, Typed, ProviderTyped
<1>2. Update("closed", k, Value(k)) \in Updates
  BY ValueIn, UpdateIn DEF Typed
<1> QED
  BY <1>1, <1>2, EmittedSubs DEF CloseInstance, Emit, Typed, Emits

LEMMA ChangeEffect ==
  ASSUME Typed, NEW k \in Keys, Change(k)
  PROVE  ProviderTyped' /\ Emits
<1>1. ProviderTyped' /\ [life |-> live[k], seq |-> seq'[k]] \in Vals
  BY ServiceAssumption DEF Change, Typed, ProviderTyped, Vals
<1>2. Update("state", k, [life |-> live[k], seq |-> seq'[k]]) \in Updates
  BY <1>1, UpdateIn
<1> QED
  BY <1>1, <1>2, EmittedSubs DEF Change, Emit, Typed, Emits

(* dispose of the provider.                                                *)
LEMMA DisposeEffect ==
  ASSUME Typed, Dispose
  PROVE  /\ ProviderTyped' /\ SubsTyped' /\ stopped' /\ UNCHANGED consumer
         /\ Len(subs') = Len(subs)
         /\ \A n \in 1..Len(subs) : subs'[n].listed => subs[n].listed /\ subs[n].closed
<1>1. ProviderTyped' /\ stopped' /\ UNCHANGED consumer
  BY LeaveTyped DEF Dispose, Typed
<1>2. DOMAIN subs = 1..Len(subs) /\ Len(subs) \in Nat /\ \A n \in 1..Len(subs) : subs[n] \in Subscribers
  BY DEF Typed, SubsTyped
<1>3. /\ subs' = [n \in 1..Len(subs) |-> Ended(subs[n])]
      /\ \A n \in 1..Len(subs) : subs'[n] = Ended(subs[n])
  BY <1>2 DEF Dispose
<1>4. \A n \in 1..Len(subs) : Ended(subs[n]) \in Subscribers
                              /\ (Ended(subs[n]).listed => subs[n].listed /\ subs[n].closed)
  BY <1>2, EndedSub DEF Typed
<1>5. subs' \in [1..Len(subs) -> Subscribers]
  BY <1>3, <1>4
<1>6. subs' \in Seq(Subscribers) /\ Len(subs') = Len(subs)
  BY <1>2, <1>5
<1> QED
  BY <1>1, <1>3, <1>4, <1>6 DEF SubsTyped

(* Steps of the binding: what becomes of its fields.                       *)
BindingIs(open, rev, sub, starting, failed, observers) ==
    /\ binding'.open = open /\ binding'.rev = rev /\ binding'.sub = sub
    /\ binding'.starting = starting /\ binding'.failed = failed /\ binding'.observers = observers

LEMMA UseEffect ==
  ASSUME Typed, Use
  PROVE  /\ BindingTyped'
         /\ ~Keyed /\ ~binding.open
         /\ BindingIs(TRUE, binding.rev, binding.sub, bound, binding.failed, binding.observers)
         /\ revision' = revision + 1
         /\ UNCHANGED <<mode, bound, disposed, reader, provider>>
         /\ IF bound THEN \E n : Opened(binding.rev, tasks, n) ELSE UNCHANGED <<subs, tasks>>
<1>1. bound => \E n : Opened(binding.rev, tasks, n)
  BY StartSubs DEF Use, Typed, BindingTyped
<1>2. /\ BindingTyped'
      /\ BindingIs(TRUE, binding.rev, binding.sub, bound, binding.failed, binding.observers)
  BY DEF Use, Typed, BindingTyped, BindingIs
<1> QED
  BY <1>1, <1>2 DEF Use

LEMMA ObserveEffect ==
  ASSUME Typed, NEW o \in Observers, Observe(o)
  PROVE  LET starts == bound /\ ~binding.starting IN
         /\ BindingTyped'
         /\ Keyed /\ (ObserveWhileRebinding \/ ~Rebinding)
         /\ BindingIs(TRUE, binding.rev, binding.sub, binding.starting \/ starts, binding.failed,
                      binding.observers \cup {o})
         /\ revision' = IF binding.open THEN revision ELSE revision + 1
         /\ UNCHANGED <<mode, bound, disposed, reader, provider>>
         /\ IF starts THEN \E n : Opened(binding.rev, tasks, n) ELSE UNCHANGED <<subs, tasks>>
<1> DEFINE starts == bound /\ ~binding.starting
<1>1. starts => \E n : Opened(binding.rev, tasks, n)
  BY StartSubs DEF Observe, Typed, BindingTyped
<1>2. /\ BindingTyped'
      /\ BindingIs(TRUE, binding.rev, binding.sub, binding.starting \/ starts, binding.failed,
                   binding.observers \cup {o})
  BY DEF Observe, Typed, BindingTyped, BindingIs
<1> QED
  BY <1>1, <1>2 DEF Observe

(* close() of the binding.                                                 *)
Closes ==
    /\ BindingIs(FALSE, binding.rev + 1, 0, FALSE, FALSE, {})
    /\ SubsTyped' /\ Len(subs') = Len(subs)
    /\ \A n \in 1..Len(subs) : n # binding.sub => subs'[n] = subs[n]
    /\ binding.sub # 0 => ~subs'[binding.sub].listed

LEMMA CloseBindingEffect ==
  ASSUME Typed, OwnInv, CloseBinding
  PROVE  Closes /\ binding' \in [open : BOOLEAN, rev : Nat, sub : Nat, starting : BOOLEAN,
                    failed : BOOLEAN, ready : BOOLEAN, observers : SUBSET Observers]
<1>1. binding.sub \in 0..Len(subs)
  BY DEF Typed, BindingTyped, SubsTyped, OwnInv
<1>2. binding' = Shut(binding.rev + 1) /\ subs' = CloseSub(subs, binding.sub) /\ binding.rev \in Nat
  BY DEF CloseBinding, Reset, Typed, BindingTyped
<1>3. /\ SubsTyped' /\ Len(subs') = Len(subs)
      /\ \A n \in 1..Len(subs) : n # binding.sub => subs'[n] = subs[n]
      /\ binding.sub # 0 => ~subs'[binding.sub].listed
  BY <1>1, <1>2, CloseSubs DEF Typed
<1>4. /\ BindingIs(FALSE, binding.rev + 1, 0, FALSE, FALSE, {})
      /\ binding' \in [open : BOOLEAN, rev : Nat, sub : Nat, starting : BOOLEAN,
                        failed : BOOLEAN, ready : BOOLEAN, observers : SUBSET Observers]
  BY <1>2 DEF Shut, BindingIs
<1> QED
  BY <1>3, <1>4 DEF Closes

LEMMA StopObservingEffect ==
  ASSUME Typed, OwnInv, NEW o \in Observers, StopObserving(o)
  PROVE  /\ BindingTyped' /\ SubsTyped'
         /\ UNCHANGED <<mode, bound, disposed, tasks, reader, provider>>
         /\ \/ Closes /\ revision' = revision + 1
            \/ /\ BindingIs(binding.open, binding.rev, binding.sub, binding.starting, binding.failed,
                            binding.observers \ {o})
               /\ binding.observers # {o} /\ o \in binding.observers
               /\ UNCHANGED <<subs, revision>>
<1>1. CASE binding.observers = {o}
  BY <1>1, CloseBindingEffect DEF StopObserving, Typed, BindingTyped, Closes
<1>2. CASE binding.observers # {o}
  <2>1. /\ BindingIs(binding.open, binding.rev, binding.sub, binding.starting, binding.failed,
                     binding.observers \ {o})
        /\ BindingTyped'
    BY <1>2 DEF StopObserving, Typed, BindingTyped, BindingIs
  <2> QED
    BY <1>2, <2>1 DEF StopObserving, Typed, SubsTyped
<1> QED
  BY <1>1, <1>2

LEMMA RebindEffect ==
  ASSUME Typed, OwnInv, NEW to \in BOOLEAN, Rebind(to)
  PROVE  /\ BindingTyped' /\ SubsTyped' /\ bound' = to /\ revision' = revision + 1
         /\ UNCHANGED <<mode, disposed, reader, provider>>
         /\ IF ~binding.open THEN UNCHANGED <<binding, subs, tasks>>
            ELSE /\ BindingIs(binding.open, binding.rev + 1, 0, ~Keyed, FALSE, binding.observers)
                 /\ Len(subs') = Len(subs)
                 /\ \A n \in 1..Len(subs) : n # binding.sub => subs'[n] = subs[n]
                 /\ binding.sub # 0 => ~subs'[binding.sub].listed
                 /\ tasks' = tasks \cup {[rev |-> binding.rev + 1, stage |-> "closing",
                                          bound |-> to, sub |-> 0]}
<1>1. CASE ~binding.open
  BY <1>1 DEF Rebind, Typed, BindingTyped, SubsTyped
<1>2. CASE binding.open
  <2>1. binding.sub \in 0..Len(subs) /\ subs' = CloseSub(subs, binding.sub)
    BY <1>2 DEF Typed, BindingTyped, SubsTyped, OwnInv, Rebind, Reset
  <2>2. /\ SubsTyped' /\ Len(subs') = Len(subs)
        /\ \A n \in 1..Len(subs) : n # binding.sub => subs'[n] = subs[n]
        /\ binding.sub # 0 => ~subs'[binding.sub].listed
    BY <2>1, CloseSubs DEF Typed
  <2>3. /\ BindingIs(binding.open, binding.rev + 1, 0, ~Keyed, FALSE, binding.observers)
        /\ BindingTyped'
    <3> DEFINE b == ~Keyed
    <3>1. /\ b \in BOOLEAN /\ bound' \in BOOLEAN /\ disposed' = disposed
          /\ binding' = [binding EXCEPT !.rev = binding.rev + 1, !.sub = 0, !.failed = FALSE,
                                        !.ready = FALSE, !.starting = b]
      BY <1>2 DEF Rebind, Typed, BindingTyped, Keyed
    <3> HIDE DEF b
    <3>2. BindingTyped'
      <4> DEFINE r == binding.rev + 1
      <4>1. r \in Nat
        BY DEF Typed, BindingTyped
      <4>2. binding' = [binding EXCEPT !.rev = r, !.sub = 0, !.failed = FALSE,
                                      !.ready = FALSE, !.starting = b]
        BY <3>1
      <4>3. ASSUME NEW x \in Nat, NEW y \in BOOLEAN
            PROVE  [binding EXCEPT !.rev = x, !.sub = 0, !.failed = FALSE, !.ready = FALSE, !.starting = y]
                     \in [open : BOOLEAN, rev : Nat, sub : Nat, starting : BOOLEAN, failed : BOOLEAN,
                          ready : BOOLEAN, observers : SUBSET Observers]
        BY DEF Typed, BindingTyped
      <4> HIDE DEF r
      <4>4. binding' \in [open : BOOLEAN, rev : Nat, sub : Nat, starting : BOOLEAN, failed : BOOLEAN,
                          ready : BOOLEAN, observers : SUBSET Observers]
        BY <3>1, <4>1, <4>2, <4>3
      <4> QED
        BY <3>1, <4>4 DEF Typed, BindingTyped
    <3>3. BindingIs(binding.open, binding.rev + 1, 0, b, FALSE, binding.observers)
      BY <3>1 DEF Typed, BindingTyped, BindingIs
    <3> QED
      BY <3>2, <3>3 DEF b
  <2> QED
    BY <1>2, <2>2, <2>3 DEF Rebind
<1> QED
  BY <1>1, <1>2

LEMMA DisposeConsumerEffect ==
  ASSUME Typed, OwnInv, DisposeConsumer
  PROVE  BindingTyped' /\ Closes /\ UNCHANGED <<mode, bound, tasks, revision, reader, provider>>
BY CloseBindingEffect DEF DisposeConsumer, Typed, BindingTyped

LEMMA RestartEffect ==
  ASSUME Typed, NEW t \in tasks, Restart(t)
  PROVE  LET starts == t.bound /\ (Keyed => Latest(t) /\ binding.observers # {}) IN
         /\ BindingTyped' /\ SubsTyped' /\ t.stage = "closing"
         /\ BindingIs(binding.open, binding.rev, binding.sub, binding.starting \/ (Keyed /\ starts),
                      binding.failed, binding.observers)
         /\ UNCHANGED <<mode, bound, disposed, revision, reader, provider>>
         /\ IF starts THEN \E n : Opened(t.rev, tasks \ {t}, n)
            ELSE tasks' = tasks \ {t} /\ UNCHANGED subs
<1> DEFINE starts == t.bound /\ (Keyed => Latest(t) /\ binding.observers # {})
<1>1. t.rev \in Nat
  BY DEF Typed, TasksTyped, Tasks
<1>2. starts => \E n : Opened(t.rev, tasks \ {t}, n)
  BY <1>1, StartSubs DEF Restart, Typed
<1>3. SubsTyped'
  BY <1>2 DEF Restart, Opened, Typed, SubsTyped
<1>4. /\ BindingTyped'
      /\ BindingIs(binding.open, binding.rev, binding.sub, binding.starting \/ (Keyed /\ starts),
                      binding.failed, binding.observers)
  <2>1. (binding.starting \/ (Keyed /\ starts)) \in BOOLEAN
    BY DEF Typed, BindingTyped
  <2> DEFINE b == binding.starting \/ (Keyed /\ starts)
  <2>2. binding' = [binding EXCEPT !.starting = b] /\ UNCHANGED <<bound, disposed>>
    BY DEF Restart
  <2> HIDE DEF b
  <2>3. binding' = [binding EXCEPT !.starting = b] /\ b \in BOOLEAN
    BY <2>1, <2>2 DEF b
  <2>4. BindingTyped' /\ BindingIs(binding.open, binding.rev, binding.sub, b, binding.failed, binding.observers)
    BY <2>2, <2>3 DEF Typed, BindingTyped, BindingIs
  <2> QED
    BY <2>4 DEF b
<1> QED
  BY <1>2, <1>3, <1>4 DEF Restart

LEMMA LateEffect ==
  ASSUME Typed, OwnInv, NEW t \in tasks, Late(t)
  PROVE  /\ t.sub # 0 /\ ~Latest(t) /\ t.stage = "subscribing"
         /\ SubsTyped' /\ Len(subs') = Len(subs)
         /\ \A n \in 1..Len(subs) : n # t.sub => subs'[n] = subs[n]
         /\ ~subs'[t.sub].listed
         /\ tasks' = tasks \ {t}
         /\ UNCHANGED <<mode, bound, disposed, binding, revision, reader, provider>>
<1>1. t.sub \in 0..Len(subs) /\ t.sub # 0 /\ subs' = CloseSub(subs, t.sub)
  BY DEF Typed, TasksTyped, Tasks, SubsTyped, OwnInv, Late
<1> QED
  BY <1>1, CloseSubs DEF Late, Typed

(* A start that fails.                                                     *)
LEMMA FailsEffect ==
  ASSUME Typed, NEW t \in tasks, Fails(t), UNCHANGED <<bound, disposed, revision>>
  PROVE  /\ BindingTyped' /\ ReaderTyped'
         /\ BindingIs(binding.open, binding.rev, IF t.sub = 0 THEN binding.sub ELSE t.sub,
                      binding.starting, binding.failed \/ (binding.open /\ binding.rev = t.rev),
                      binding.observers)
         /\ reader' = reader \/ ~reader'.waiting
<1>1. t.sub \in Nat
  BY DEF Typed, TasksTyped, Tasks
<1>2. ReaderTyped' /\ (reader' = reader \/ ~reader'.waiting)
  BY DEF Fails, Typed, ReaderTyped, Idle
<1> DEFINE f == binding.failed \/ (binding.open /\ binding.rev = t.rev)
           m == IF t.sub = 0 THEN binding.sub ELSE t.sub
<1>3. f \in BOOLEAN /\ m \in Nat /\ binding' = [binding EXCEPT !.failed = f, !.sub = m]
  BY <1>1 DEF Fails, Typed, BindingTyped
<1> HIDE DEF f, m
<1>4. BindingTyped' /\ BindingIs(binding.open, binding.rev, m, binding.starting, f, binding.observers)
  BY <1>3 DEF Typed, BindingTyped, BindingIs
<1> QED
  BY <1>2, <1>4 DEF f, m

(* A start that succeeds.                                                  *)
LEMMA ActivatesEffect ==
  ASSUME Typed, OwnInv, NEW t \in tasks, Activates(t), t.sub # 0, UNCHANGED <<bound, disposed>>
  PROVE  /\ BindingTyped' /\ SubsTyped' /\ reader' = reader
         /\ BindingIs(binding.open, binding.rev, t.sub, binding.starting, binding.failed, binding.observers)
         /\ Len(subs') = Len(subs)
         /\ \A n \in 1..Len(subs) : n # t.sub => subs'[n] = subs[n]
         /\ subs'[t.sub].active /\ subs'[t.sub].listed = subs[t.sub].listed
         /\ subs'[t.sub].closed = subs[t.sub].terminated
         /\ subs'[t.sub].terminated = subs[t.sub].terminated
<1>1. t.sub \in 1..Len(subs) /\ subs[t.sub] \in Subscribers /\ Len(subs) \in Nat
  BY DEF Typed, TasksTyped, Tasks, SubsTyped, OwnInv
<1>2. subs' = [subs EXCEPT ![t.sub] = Activate(subs[t.sub])] /\ reader' = reader
  BY DEF Activates
<1>3. /\ Activate(subs[t.sub]) \in Subscribers
      /\ Activate(subs[t.sub]).active /\ Activate(subs[t.sub]).listed = subs[t.sub].listed
      /\ Activate(subs[t.sub]).closed = subs[t.sub].terminated
      /\ Activate(subs[t.sub]).terminated = subs[t.sub].terminated
  BY <1>1, ActivatedSub
<1>4. subs' \in [1..Len(subs) -> Subscribers]
  BY <1>1, <1>2, <1>3 DEF Typed, SubsTyped
<1>5. subs' \in Seq(Subscribers) /\ Len(subs') = Len(subs)
  BY <1>1, <1>4
<1>6. subs'[t.sub] = Activate(subs[t.sub]) /\ \A n \in 1..Len(subs) : n # t.sub => subs'[n] = subs[n]
  BY <1>1, <1>2 DEF Typed, SubsTyped
<1>7. /\ BindingTyped'
      /\ BindingIs(binding.open, binding.rev, t.sub, binding.starting, binding.failed, binding.observers)
  <2>1. binding' = [binding EXCEPT !.sub = t.sub, !.ready = Keyed] /\ t.sub \in Nat /\ Keyed \in BOOLEAN
    BY <1>1 DEF Activates, Keyed
  <2> QED
    BY <2>1 DEF Typed, BindingTyped, BindingIs
<1> QED
  BY <1>2, <1>3, <1>5, <1>6, <1>7 DEF SubsTyped

-----------------------------------------------------------------------------
(* Every action keeps the invariant.                                       *)

LEMMA EmitsCoherent ==
  ASSUME Coherent, ProviderTyped', Emits
  PROVE  Coherent'
<1> USE DEF Coherent, Emits, consumer
<1>1. Typed' /\ RevInv' /\ StartInv' /\ WaitInv'
  BY DEF Typed, BindingTyped, TasksTyped, ReaderTyped, RevInv, StartInv, WaitInv, Keyed
<1>2. OwnInv'
  BY DEF OwnInv, SameSubs
<1>3. ServedInv'
  <2>1. binding.sub # 0 => binding.sub \in 1..Len(subs)
    BY DEF OwnInv, Typed, BindingTyped, SubsTyped
  <2>2. binding.sub # 0 => subs'[binding.sub].active = subs[binding.sub].active
    BY <2>1 DEF SameSubs, SameStanding
  <2> QED
    BY <2>2 DEF ServedInv
<1> QED
  BY <1>1, <1>2, <1>3

LEMMA DisposeCoherent ==
  ASSUME Coherent, Dispose
  PROVE  Coherent'
<1> USE DEF Coherent, consumer
<1>1. Typed' /\ RevInv' /\ StartInv' /\ WaitInv'
  BY DisposeEffect
     DEF Typed, BindingTyped, TasksTyped, ReaderTyped, RevInv, StartInv, WaitInv, Keyed
<1>2. OwnInv'
  BY DisposeEffect DEF OwnInv
<1>3. ServedInv'
  BY DisposeEffect DEF ServedInv
<1> QED
  BY <1>1, <1>2, <1>3

(* A start is added: the new continuation has a subscriber of its own.     *)
LEMMA OpenedOwn ==
  ASSUME Typed, OwnInv, NEW rev \in Nat, NEW others, others \subseteq tasks, NEW n,
         Opened(rev, others, n), binding'.sub = binding.sub
  PROVE  OwnInv' /\ TasksTyped' /\ Len(subs) <= Len(subs')
<1> DEFINE new == [rev |-> rev, stage |-> "subscribing", bound |-> TRUE, sub |-> n]
<1>1. tasks' = others \cup {new} /\ n \in Nat /\ new.sub = n /\ new.stage = "subscribing" /\ new \in Tasks
  BY DEF Opened, Tasks
<1>2. Len(subs) \in Nat /\ (n = 0 => Len(subs') = Len(subs)) /\ (n # 0 => n = Len(subs) + 1 /\ Len(subs') = n)
  BY DEF Opened, Typed, SubsTyped
<1>3. \A t \in tasks : t.sub \in Nat /\ t.sub <= Len(subs)
  BY DEF OwnInv, Typed, TasksTyped, Tasks
<1>4. binding.sub \in Nat /\ binding.sub <= Len(subs)
  BY DEF OwnInv, Typed, BindingTyped
<1> HIDE DEF new
<1>5. TasksTyped'
  BY <1>1 DEF Typed, TasksTyped
<1>6. Len(subs) <= Len(subs')
  BY <1>2
<1>7. \A t \in tasks' : t.sub <= Len(subs') /\ (t.sub # 0 => t.sub # binding.sub)
  BY <1>1, <1>2, <1>3, <1>4 DEF OwnInv
<1>8. \A t \in tasks' : t.stage = "closing" => t.sub = 0
  BY <1>1 DEF OwnInv
<1>9. \A t, v \in tasks' : t.sub = v.sub /\ t.sub # 0 => t = v
  <2> SUFFICES ASSUME NEW t \in tasks', NEW v \in tasks', t.sub = v.sub, t.sub # 0 PROVE t = v
    OBVIOUS
  <2>1. CASE t \in tasks /\ v \in tasks
    BY <2>1 DEF OwnInv
  <2>2. CASE t = new /\ v \in tasks
    BY <2>2, <1>1, <1>2, <1>3
  <2>3. CASE t \in tasks /\ v = new
    BY <2>3, <1>1, <1>2, <1>3
  <2> QED
    BY <2>1, <2>2, <2>3, <1>1
<1> QED
  BY <1>2, <1>4, <1>5, <1>6, <1>7, <1>8, <1>9 DEF OwnInv

(* What the binding has keeps its standing.                                *)
LEMMA OpenedKeeps ==
  ASSUME Typed, OwnInv, NEW rev, NEW others, NEW n, Opened(rev, others, n), binding.sub # 0
  PROVE  subs'[binding.sub] = subs[binding.sub]
BY DEF Opened, Typed, BindingTyped, SubsTyped, OwnInv

(* The continuation that Opened adds.                                      *)
LEMMA OpenedTask ==
  ASSUME NEW rev, NEW others, NEW n, Opened(rev, others, n)
  PROVE  \E new : /\ tasks' = others \cup {new}
                  /\ new.rev = rev /\ new.stage = "subscribing" /\ new.bound /\ new.sub = n
<1> DEFINE new == [rev |-> rev, stage |-> "subscribing", bound |-> TRUE, sub |-> n]
<1>1. tasks' = others \cup {new}
  BY DEF Opened
<1>2. new.rev = rev /\ new.stage = "subscribing" /\ new.bound /\ new.sub = n
  OBVIOUS
<1> QED
  BY <1>1, <1>2

LEMMA UseCoherent ==
  ASSUME Coherent, Use
  PROVE  Coherent'
<1> USE DEF Coherent
<1>1. /\ BindingTyped' /\ ~Keyed /\ ~binding.open
      /\ binding'.open /\ binding'.rev = binding.rev /\ binding'.sub = binding.sub
      /\ binding'.observers = binding.observers /\ binding'.starting = bound
      /\ revision' = revision + 1 /\ UNCHANGED <<mode, bound, reader, live, lives, seq, stopped>>
  BY UseEffect DEF BindingIs, provider
<1>2. ReaderTyped' /\ ProviderTyped'
  BY <1>1 DEF Typed, ReaderTyped, ProviderTyped
<1>3. /\ binding.rev \in Nat /\ revision \in Nat
      /\ reader.rev \in Nat /\ \A t \in tasks : t.rev \in Nat
  BY DEF Typed, BindingTyped, ReaderTyped, TasksTyped, Tasks
<1>4. WaitInv'
  BY <1>1, <1>3 DEF WaitInv
<1>5. CASE ~bound
  <2>1. UNCHANGED <<subs, tasks>>
    BY <1>5, UseEffect
  <2>2. Typed' /\ OwnInv'
    BY <1>1, <1>2, <2>1 DEF Typed, SubsTyped, TasksTyped, OwnInv
  <2>3. RevInv'
    BY <1>1, <1>3, <2>1 DEF RevInv
  <2>4. StartInv' /\ ServedInv'
    BY <1>1, <1>5, <2>1 DEF StartInv, ServedInv, Keyed
  <2> QED
    BY <1>4, <2>2, <2>3, <2>4
<1>6. CASE bound
  <2>1. PICK n : Opened(binding.rev, tasks, n)
    BY <1>6, UseEffect
  <2>2. PICK new : /\ tasks' = tasks \cup {new}
                   /\ new.rev = binding.rev /\ new.stage = "subscribing"
    BY <2>1, OpenedTask
  <2>3. OwnInv' /\ TasksTyped'
    BY <1>1, <1>3, <2>1, OpenedOwn
  <2>4. Typed'
    BY <1>1, <1>2, <2>1, <2>3 DEF Typed, Opened
  <2>5. RevInv'
    BY <1>1, <1>3, <2>2 DEF RevInv
  <2>6. StartInv' /\ ServedInv'
    BY <1>1, <2>2 DEF StartInv, ServedInv, Keyed
  <2> QED
    BY <1>4, <2>3, <2>4, <2>5, <2>6
<1> QED
  BY <1>1, <1>5, <1>6

LEMMA ObserveCoherent ==
  ASSUME Coherent, NEW o \in Observers, Observe(o)
  PROVE  Coherent'
<1> USE DEF Coherent
<1>1. /\ BindingTyped' /\ Keyed
      /\ binding'.open /\ binding'.rev = binding.rev /\ binding'.sub = binding.sub
      /\ binding'.failed = binding.failed
      /\ binding'.observers = binding.observers \cup {o}
      /\ binding'.starting = (binding.starting \/ (bound /\ ~binding.starting))
      /\ UNCHANGED <<mode, bound, reader, live, lives, seq, stopped>>
      /\ revision' = IF binding.open THEN revision ELSE revision + 1
  BY ObserveEffect DEF BindingIs, provider
<1>2. ReaderTyped' /\ ProviderTyped'
  BY <1>1 DEF Typed, ReaderTyped, ProviderTyped
<1>3. /\ binding.rev \in Nat /\ revision \in Nat
      /\ reader.rev \in Nat /\ \A t \in tasks : t.rev \in Nat
  BY DEF Typed, BindingTyped, ReaderTyped, TasksTyped, Tasks
<1>4. CASE ~(bound /\ ~binding.starting)
  <2>1. UNCHANGED <<subs, tasks>>
    BY <1>4, ObserveEffect
  <2>2. Typed' /\ OwnInv'
    BY <1>1, <1>2, <2>1 DEF Typed, SubsTyped, TasksTyped, OwnInv
  <2>3. RevInv'
    BY <1>1, <1>3, <2>1 DEF RevInv
  <2>4. StartInv'
    BY <1>1, <1>4, <2>1 DEF StartInv, Keyed
  <2>5. ServedInv'
    BY <1>1, <1>4, <2>1 DEF StartInv, ServedInv
  <2>6. WaitInv'
    BY <1>1, <1>3, <2>1 DEF WaitInv
  <2> QED
    BY <2>2, <2>3, <2>4, <2>5, <2>6
<1>5. CASE bound /\ ~binding.starting
  <2>1. PICK n : Opened(binding.rev, tasks, n)
    BY <1>5, ObserveEffect
  <2>2. PICK new : /\ tasks' = tasks \cup {new}
                   /\ new.rev = binding.rev /\ new.stage = "subscribing"
    BY <2>1, OpenedTask
  <2>3. OwnInv' /\ TasksTyped'
    BY <1>1, <1>3, <2>1, OpenedOwn
  <2>4. Typed'
    BY <1>1, <1>2, <2>1, <2>3 DEF Typed, Opened
  <2>5. RevInv'
    BY <1>1, <1>3, <2>2 DEF RevInv
  <2>6. StartInv' /\ ServedInv'
    BY <1>1, <1>5, <2>2 DEF StartInv, ServedInv, Keyed
  <2>7. binding.open => \E t \in tasks : t.rev = binding.rev
    BY <1>1, <1>5 DEF StartInv
  <2>8. WaitInv'
    BY <1>1, <1>3, <2>2, <2>7 DEF WaitInv
  <2> QED
    BY <2>3, <2>4, <2>5, <2>6, <2>8
<1> QED
  BY <1>4, <1>5

(* The binding is closed.                                                  *)
LEMMA ClosesCoherent ==
  ASSUME Coherent, Closes, BindingTyped', revision' \in {revision, revision + 1},
         UNCHANGED <<mode, bound, tasks, reader, provider>>
  PROVE  Coherent'
<1> USE DEF Coherent
<1>1. /\ ~binding'.open /\ binding'.rev = binding.rev + 1 /\ binding'.sub = 0 /\ ~binding'.starting
      /\ SubsTyped' /\ Len(subs') = Len(subs)
  BY DEF Closes, BindingIs
<1>2. /\ binding.rev \in Nat /\ revision \in Nat
      /\ reader.rev \in Nat /\ \A t \in tasks : t.rev \in Nat
  BY DEF Typed, BindingTyped, ReaderTyped, TasksTyped, Tasks
<1>3. ReaderTyped' /\ ProviderTyped' /\ TasksTyped'
  BY DEF Typed, ReaderTyped, ProviderTyped, TasksTyped, provider
<1>4. RevInv'
  BY <1>1, <1>2 DEF RevInv
<1>5. OwnInv'
  BY <1>1 DEF OwnInv, Typed, SubsTyped
<1>6. StartInv'
  BY <1>1, <1>2 DEF StartInv, RevInv, Keyed
<1>7. ServedInv' /\ WaitInv'
  BY <1>1, <1>2 DEF ServedInv, WaitInv
<1> QED
  BY <1>1, <1>3, <1>4, <1>5, <1>6, <1>7 DEF Typed

LEMMA StopObservingCoherent ==
  ASSUME Coherent, NEW o \in Observers, StopObserving(o)
  PROVE  Coherent'
<1>1. /\ BindingTyped' /\ SubsTyped'
      /\ UNCHANGED <<mode, bound, disposed, tasks, reader, provider>>
  BY StopObservingEffect DEF Coherent
<1>2. CASE Closes /\ revision' = revision + 1
  BY <1>1, <1>2, ClosesCoherent
<1>3. CASE /\ BindingIs(binding.open, binding.rev, binding.sub, binding.starting, binding.failed,
                        binding.observers \ {o})
           /\ binding.observers # {o} /\ o \in binding.observers
           /\ UNCHANGED <<subs, revision>>
  <2> USE DEF Coherent
  <2>1. /\ binding'.open = binding.open /\ binding'.rev = binding.rev /\ binding'.sub = binding.sub
        /\ binding'.failed = binding.failed /\ binding'.starting = binding.starting
        /\ binding'.observers # {}
    BY <1>3 DEF BindingIs
  <2>2. Typed'
    BY <1>1, <1>3 DEF Typed, ReaderTyped, ProviderTyped, TasksTyped, provider
  <2>3. RevInv' /\ OwnInv' /\ StartInv' /\ ServedInv' /\ WaitInv'
    BY <1>1, <1>3, <2>1 DEF RevInv, OwnInv, StartInv, ServedInv, WaitInv, provider, Keyed
  <2> QED
    BY <2>2, <2>3
<1> QED
  BY <1>2, <1>3, StopObservingEffect DEF Coherent

LEMMA DisposeConsumerCoherent ==
  ASSUME Coherent, DisposeConsumer
  PROVE  Coherent'
BY DisposeConsumerEffect, ClosesCoherent DEF Coherent

LEMMA RebindCoherent ==
  ASSUME Coherent, NEW to \in BOOLEAN, Rebind(to)
  PROVE  Coherent'
<1> USE DEF Coherent
<1>1. /\ BindingTyped' /\ SubsTyped' /\ bound' = to /\ revision' = revision + 1
      /\ UNCHANGED <<mode, reader, live, lives, seq, stopped>>
  BY RebindEffect DEF provider
<1>2. /\ binding.rev \in Nat /\ revision \in Nat
      /\ reader.rev \in Nat /\ \A t \in tasks : t.rev \in Nat
  BY DEF Typed, BindingTyped, ReaderTyped, TasksTyped, Tasks
<1>3. ReaderTyped' /\ ProviderTyped' /\ WaitInv'
  BY <1>1, <1>2 DEF Typed, ReaderTyped, ProviderTyped, WaitInv
<1>4. CASE ~binding.open
  <2>1. UNCHANGED <<binding, subs, tasks>>
    BY <1>4, RebindEffect
  <2>2. Typed' /\ RevInv' /\ OwnInv' /\ ServedInv'
    BY <1>1, <1>3, <1>4, <2>1 DEF Typed, TasksTyped, RevInv, OwnInv, ServedInv
  <2>3. StartInv'
    BY <1>1, <1>2, <1>4, <2>1 DEF StartInv, RevInv, Keyed
  <2> QED
    BY <1>3, <2>2, <2>3
<1>5. CASE binding.open
  <2>1. /\ binding'.open /\ binding'.rev = binding.rev + 1 /\ binding'.sub = 0
        /\ binding'.observers = binding.observers /\ Len(subs') = Len(subs)
    BY <1>5, RebindEffect DEF BindingIs
  <2>2. PICK new \in Tasks : /\ tasks' = tasks \cup {new} /\ new.rev = binding.rev + 1 /\ new.sub = 0
                             /\ new.stage = "closing" /\ new.bound = to
    <3> DEFINE new == [rev |-> binding.rev + 1, stage |-> "closing", bound |-> to, sub |-> 0]
    <3>1. tasks' = tasks \cup {new}
      BY <1>5, RebindEffect
    <3>2. /\ new \in Tasks /\ new.rev = binding.rev + 1 /\ new.sub = 0
          /\ new.stage = "closing" /\ new.bound = to
      BY <1>2 DEF Tasks
    <3> QED
      BY <3>1, <3>2
  <2>3. Typed'
    BY <1>1, <1>3, <2>2 DEF Typed, TasksTyped
  <2>4. RevInv'
    BY <1>2, <2>1, <2>2 DEF RevInv
  <2>5. OwnInv'
    <3>1. 0 <= Len(subs)
      BY DEF Typed, SubsTyped
    <3>2. \A t, v \in tasks' : t.sub = v.sub /\ t.sub # 0 => t = v
      BY <2>2 DEF OwnInv
    <3> QED
      BY <2>1, <2>2, <3>1, <3>2 DEF OwnInv
  <2>6. StartInv'
    BY <1>1, <1>2, <1>5, <2>1, <2>2 DEF StartInv, RevInv, Keyed
  <2>7. ServedInv'
    BY <2>1, <2>2 DEF ServedInv
  <2> QED
    BY <1>3, <2>3, <2>4, <2>5, <2>6, <2>7
<1> QED
  BY <1>4, <1>5

LEMMA RestartCoherent ==
  ASSUME Coherent, NEW t \in tasks, Restart(t)
  PROVE  Coherent'
<1> USE DEF Coherent
<1> DEFINE starts == t.bound /\ (Keyed => Latest(t) /\ binding.observers # {})
<1>1. /\ BindingTyped' /\ SubsTyped' /\ t.stage = "closing"
      /\ binding'.open = binding.open /\ binding'.rev = binding.rev /\ binding'.sub = binding.sub
      /\ binding'.failed = binding.failed /\ binding'.observers = binding.observers
      /\ binding'.starting = (binding.starting \/ (Keyed /\ starts))
      /\ UNCHANGED <<mode, bound, revision, reader, live, lives, seq, stopped>>
  BY RestartEffect DEF BindingIs, provider
<1>2. /\ binding.rev \in Nat /\ revision \in Nat /\ reader.rev \in Nat
      /\ t.rev \in Nat /\ \A v \in tasks : v.rev \in Nat
  BY DEF Typed, BindingTyped, ReaderTyped, TasksTyped, Tasks
<1>3. ReaderTyped' /\ ProviderTyped'
  BY <1>1 DEF Typed, ReaderTyped, ProviderTyped
<1>4. t.rev = binding.rev /\ binding.open /\ bound => starts
  BY <1>1 DEF StartInv, Latest
<1>5. ~binding.open => ~binding'.starting
  BY <1>1 DEF StartInv, Latest
<1>6. CASE ~starts
  <2>1. tasks' = tasks \ {t} /\ UNCHANGED subs
    BY <1>6, RestartEffect
  <2>2. Typed' /\ RevInv' /\ OwnInv'
    BY <1>1, <1>3, <2>1 DEF Typed, TasksTyped, RevInv, OwnInv
  <2>3. StartInv'
    <3>1. Keyed /\ binding.open /\ bound /\ ~binding.starting =>
             \E v \in tasks : v.rev = binding.rev /\ v.stage = "closing" /\ v # t
      BY <1>4, <1>6 DEF StartInv
    <3> QED
      BY <1>1, <1>5, <1>6, <2>1, <3>1 DEF StartInv, Keyed
  <2>4. ServedInv'
    BY <1>1, <1>4, <1>6, <2>1 DEF ServedInv
  <2>5. WaitInv'
    BY <1>1, <2>1 DEF WaitInv
  <2> QED
    BY <2>2, <2>3, <2>4, <2>5
<1>7. CASE starts
  <2>1. PICK n : Opened(t.rev, tasks \ {t}, n)
    BY <1>7, RestartEffect
  <2>2. PICK new : /\ tasks' = (tasks \ {t}) \cup {new}
                   /\ new.rev = t.rev /\ new.stage = "subscribing"
    BY <2>1, OpenedTask
  <2> HIDE DEF starts
  <2>3. OwnInv' /\ TasksTyped'
    BY <1>1, <1>2, <2>1, OpenedOwn
  <2>4. Typed'
    BY <1>1, <1>3, <2>3 DEF Typed
  <2>5. RevInv'
    BY <1>1, <1>2, <2>2 DEF RevInv
  <2>6. StartInv'
    <3>1. Keyed => binding'.starting
      BY <1>1, <1>7
    <3> QED
      BY <1>1, <1>5, <2>2, <3>1 DEF StartInv, Keyed
  <2>7. ServedInv'
    <3>1. binding.sub # 0 => subs'[binding.sub] = subs[binding.sub]
      BY <2>1, OpenedKeeps
    <3>2. (\A v \in tasks' : v.rev # binding.rev) => \A v \in tasks : v.rev # binding.rev
      BY <2>2
    <3> QED
      BY <1>1, <3>1, <3>2 DEF ServedInv
  <2>8. WaitInv'
    <3>1. (\E v \in tasks' : v.rev = binding.rev) => \E v \in tasks : v.rev = binding.rev
      BY <2>2
    <3> QED
      BY <1>1, <3>1 DEF WaitInv
  <2> QED
    BY <2>3, <2>4, <2>5, <2>6, <2>7, <2>8
<1> QED
  BY <1>6, <1>7

LEMMA LateCoherent ==
  ASSUME Coherent, NEW t \in tasks, Late(t)
  PROVE  Coherent'
<1> USE DEF Coherent
<1>1. /\ t.sub # 0 /\ ~Latest(t) /\ t.stage = "subscribing"
      /\ SubsTyped' /\ Len(subs') = Len(subs)
      /\ \A n \in 1..Len(subs) : n # t.sub => subs'[n] = subs[n]
      /\ tasks' = tasks \ {t}
      /\ UNCHANGED <<mode, bound, disposed, binding, revision, reader, live, lives, seq, stopped>>
  BY LateEffect DEF provider
<1>2. Typed' /\ RevInv' /\ OwnInv' /\ WaitInv'
  BY <1>1 DEF Typed, BindingTyped, TasksTyped, ReaderTyped, ProviderTyped, RevInv, OwnInv, WaitInv
<1>3. StartInv'
  BY <1>1 DEF StartInv, Keyed
<1>4. ServedInv'
  <2>1. binding.sub # 0 => binding.sub \in 1..Len(subs) /\ t.sub # binding.sub
    BY <1>1 DEF OwnInv, Typed, BindingTyped, SubsTyped
  <2>2. binding.sub # 0 => subs'[binding.sub] = subs[binding.sub]
    BY <1>1, <2>1
  <2> QED
    BY <1>1, <2>2 DEF ServedInv, Latest
<1> QED
  BY <1>2, <1>3, <1>4

(* A start fails: subscribe has thrown, or the snapshot repeats an         *)
(* instance.                                                               *)
LEMMA FailsCoherent ==
  ASSUME Coherent, NEW t \in tasks, t.stage = "subscribing", t.sub = 0 \/ Latest(t),
         Fails(t), tasks' = tasks \ {t},
         UNCHANGED <<mode, bound, disposed, subs, revision, provider>>
  PROVE  Coherent'
<1> USE DEF Coherent
<1>1. /\ BindingTyped' /\ ReaderTyped'
      /\ binding'.open = binding.open /\ binding'.rev = binding.rev
      /\ binding'.sub = (IF t.sub = 0 THEN binding.sub ELSE t.sub)
      /\ binding'.starting = binding.starting /\ binding'.observers = binding.observers
      /\ binding'.failed = (binding.failed \/ (binding.open /\ binding.rev = t.rev))
      /\ reader' = reader \/ ~reader'.waiting
  BY FailsEffect DEF BindingIs
<1>2. UNCHANGED <<mode, bound, disposed, subs, revision, live, lives, seq, stopped>>
  BY DEF provider
<1>3. Typed' /\ RevInv'
  BY <1>1, <1>2 DEF Typed, TasksTyped, SubsTyped, ProviderTyped, RevInv
<1>4. OwnInv'
  <2>1. binding'.sub <= Len(subs)
    BY <1>1 DEF OwnInv
  <2>2. \A v \in tasks' : v.sub # 0 => v.sub # binding'.sub
    BY <1>1 DEF OwnInv
  <2> QED
    BY <1>2, <2>1, <2>2 DEF OwnInv
<1>5. StartInv'
  BY <1>1, <1>2 DEF StartInv, Keyed
<1>6. ServedInv'
  <2>1. CASE binding.open /\ binding.rev = t.rev
    BY <1>1, <2>1 DEF ServedInv
  <2>2. CASE ~(binding.open /\ binding.rev = t.rev)
    <3>1. binding'.sub = binding.sub
      BY <1>1, <2>2 DEF Latest
    <3>2. binding.open /\ (\A v \in tasks' : v.rev # binding.rev) => \A v \in tasks : v.rev # binding.rev
      BY <2>2
    <3> QED
      <4>1. binding'.open = binding.open /\ binding'.rev = binding.rev /\ (binding.failed => binding'.failed)
        BY <1>1
      <4> QED
        BY <1>2, <3>1, <3>2, <4>1 DEF ServedInv
  <2> QED
    BY <2>1, <2>2
<1>7. WaitInv'
  BY <1>1, <1>2 DEF WaitInv
<1> QED
  BY <1>3, <1>4, <1>5, <1>6, <1>7

LEMMA SubscribedCoherent ==
  ASSUME Coherent, NEW t \in tasks, Subscribed(t)
  PROVE  Coherent'
<1>1. CASE Installed(t).faults # {}
  BY <1>1, FailsCoherent DEF Subscribed, Repeats
<1>2. CASE Installed(t).faults = {}
  <2> USE DEF Coherent
  <2>1. /\ Activates(t) /\ t.stage = "subscribing" /\ t.sub # 0 /\ Latest(t)
        /\ tasks' = tasks \ {t}
        /\ UNCHANGED <<mode, bound, disposed, revision, live, lives, seq, stopped>>
    BY <1>2 DEF Subscribed, provider
  <2>2. /\ BindingTyped' /\ SubsTyped' /\ reader' = reader
        /\ binding'.open = binding.open /\ binding'.rev = binding.rev /\ binding'.sub = t.sub
        /\ binding'.starting = binding.starting /\ binding'.failed = binding.failed
        /\ binding'.observers = binding.observers
        /\ Len(subs') = Len(subs) /\ subs'[t.sub].active
    BY <2>1, ActivatesEffect DEF BindingIs
  <2>3. Typed' /\ RevInv' /\ WaitInv'
    BY <2>1, <2>2 DEF Typed, TasksTyped, ReaderTyped, ProviderTyped, RevInv, WaitInv
  <2>4. OwnInv'
    <3>1. \A v \in tasks' : v.sub # 0 => v.sub # t.sub
      BY <2>1 DEF OwnInv
    <3> QED
      BY <2>1, <2>2, <3>1 DEF OwnInv
  <2>5. StartInv'
    BY <2>1, <2>2 DEF StartInv, Keyed
  <2>6. ServedInv'
    BY <2>1, <2>2 DEF ServedInv
  <2> QED
    BY <2>3, <2>4, <2>5, <2>6
<1> QED
  BY <1>1, <1>2

(* A call of ready(), or its continuation.                                 *)
LEMMA ReaderCoherent ==
  ASSUME Coherent, reader' \in {Waiting, Idle},
         UNCHANGED <<mode, bound, disposed, binding, subs, tasks, revision, provider>>
  PROVE  Coherent'
<1> USE DEF Coherent
<1>1. UNCHANGED <<mode, bound, disposed, binding, subs, tasks, revision, live, lives, seq, stopped>>
  BY DEF provider
<1>2. Starts \subseteq Nat /\ (binding.open /\ (\E t \in tasks : t.rev = binding.rev) => binding.rev \in Starts)
  BY DEF Starts, Typed, TasksTyped, Tasks
<1>3. ReaderTyped' /\ WaitInv'
  <2>1. revision \in Nat
    BY DEF Typed, ReaderTyped
  <2>2. CASE reader' = Waiting
    <3>1. reader' = [waiting |-> TRUE, rev |-> revision, on |-> Starts]
      BY <2>2 DEF Waiting
    <3>2. reader'.waiting /\ reader'.rev = revision /\ reader'.on = Starts
      BY <3>1
    <3>3. ReaderTyped'
      BY <1>1, <1>2, <2>1, <3>1 DEF ReaderTyped
    <3>4. WaitInv'
      BY <1>1, <1>2, <2>1, <3>2 DEF WaitInv
    <3> QED
      BY <3>3, <3>4
  <2>3. CASE reader' = Idle
    BY <1>1, <2>1, <2>3 DEF Idle, ReaderTyped, WaitInv
  <2> QED
    BY <2>2, <2>3
<1>4. Typed' /\ RevInv' /\ OwnInv' /\ StartInv' /\ ServedInv'
  BY <1>1, <1>3 DEF Typed, BindingTyped, SubsTyped, TasksTyped, ProviderTyped, RevInv, OwnInv, StartInv,
                    ServedInv, Keyed
<1> QED
  BY <1>3, <1>4

LEMMA ReadyCoherent ==
  ASSUME Coherent, CallReady \/ ReadyWakes
  PROVE  Coherent'
BY ReaderCoherent DEF CallReady, ReadyWakes

LEMMA InitCoherent ==
  ASSUME Init
  PROVE  Coherent
<1>1. /\ live = [k \in Keys |-> 0] /\ lives = live /\ seq = live /\ stopped = FALSE /\ subs = <<>>
      /\ bound \in BOOLEAN /\ disposed = FALSE /\ binding = Shut(0) /\ tasks = {} /\ revision = 0
      /\ reader = Idle
  BY DEF Init
<1>2. ~binding.open /\ binding.sub = 0 /\ ~binding.starting /\ ~reader.waiting
  BY <1>1 DEF Shut, Idle
<1>3. SubsTyped /\ Len(subs) = 0
  BY <1>1 DEF SubsTyped
<1>4. ProviderTyped /\ TasksTyped
  <2>1. 0 \in 0..MaxLives /\ 0 \in 0..MaxSeq
    BY ServiceAssumption
  <2> QED
    BY <1>1, <2>1 DEF ProviderTyped, TasksTyped
<1>5. BindingTyped /\ ReaderTyped
  BY <1>1 DEF BindingTyped, Shut, ReaderTyped, Idle
<1>6. RevInv /\ OwnInv /\ StartInv /\ ServedInv /\ WaitInv
  BY <1>1, <1>2, <1>3 DEF RevInv, OwnInv, StartInv, ServedInv, WaitInv
<1> QED
  BY <1>3, <1>4, <1>5, <1>6 DEF Coherent, Typed

LEMMA CoherentStep ==
  ASSUME Coherent, [Next]_vars
  PROVE  Coherent'
<1>1. CASE Provide
  BY <1>1, ProvideEffect, EmitsCoherent DEF Coherent
<1>2. CASE Replace
  BY <1>2, ReplaceEffect, EmitsCoherent DEF Coherent
<1>3. CASE Withdraw
  BY <1>3, WithdrawEffect, EmitsCoherent DEF Coherent
<1>4. CASE Dispose
  BY <1>4, DisposeCoherent
<1>5. CASE Use
  BY <1>5, UseCoherent
<1>6. CASE DisposeConsumer
  BY <1>6, DisposeConsumerCoherent
<1>7. CASE CallReady \/ ReadyWakes
  BY <1>7, ReadyCoherent
<1>8. ASSUME NEW k \in Keys, SpawnInstance(k) \/ CloseInstance(k) \/ Change(k)
      PROVE  Coherent'
  BY <1>8, SpawnEffect, CloseEffect, ChangeEffect, EmitsCoherent DEF Coherent
<1>9. ASSUME NEW o \in Observers, Observe(o) \/ StopObserving(o)
      PROVE  Coherent'
  BY <1>9, ObserveCoherent, StopObservingCoherent
<1>10. ASSUME NEW to \in BOOLEAN, Rebind(to)
       PROVE  Coherent'
  BY <1>10, RebindCoherent
<1>11. ASSUME NEW t \in tasks, Continue(t)
       PROVE  Coherent'
  <2>1. CASE Restart(t)
    BY <2>1, RestartCoherent
  <2>2. CASE Late(t)
    BY <2>2, LateCoherent
  <2>3. CASE Refused(t)
    BY <2>3, FailsCoherent DEF Refused
  <2>4. CASE Subscribed(t)
    BY <2>4, SubscribedCoherent
  <2> QED
    BY <1>11, <2>1, <2>2, <2>3, <2>4 DEF Continue
<1>12. CASE UNCHANGED vars
  <2>1. UNCHANGED <<mode, live, lives, seq, stopped, subs, bound, disposed, binding, tasks, revision, reader>>
    BY <1>12 DEF vars
  <2> QED
    BY <2>1 DEF Coherent, Typed, BindingTyped, SubsTyped, TasksTyped, ReaderTyped, ProviderTyped,
                RevInv, OwnInv, StartInv, ServedInv, WaitInv, Keyed
<1> QED
  BY <1>1, <1>2, <1>3, <1>4, <1>5, <1>6, <1>7, <1>8, <1>9, <1>10, <1>11, <1>12 DEF Next, Calls

LEMMA CoherentAlways == Spec => []Coherent
<1>1. Init => Coherent
  BY InitCoherent
<1>2. Coherent /\ [Next]_vars => Coherent'
  BY CoherentStep
<1> QED
  BY <1>1, <1>2, PTL DEF Spec

-----------------------------------------------------------------------------
(* When a step ends the wait of ready() without an error, and no start     *)
(* ends with it, it is the continuation of ready() itself.                 *)
LEMMA ReturnsByWaking ==
  ASSUME Coherent, [Next]_vars, ReadyReturns
  PROVE  /\ reader.rev = revision
         /\ \A t \in tasks : t.rev \notin reader.on
<1>1. /\ reader.waiting /\ ~reader'.waiting /\ ~Throws /\ tasks' = tasks /\ reader' # reader
  BY DEF ReadyReturns
<1>2. ASSUME NEW t \in tasks, tasks' = tasks \ {t}
      PROVE  FALSE
  BY <1>1, <1>2
<1>3. ReadyWakes
  <2>1. ~UNCHANGED vars
    BY <1>1 DEF vars
  <2>2. ~(Provide \/ Replace \/ Withdraw \/ Dispose)
    BY <1>1 DEF Provide, Replace, Withdraw, Dispose, consumer
  <2>3. ~(Use \/ DisposeConsumer)
    BY <1>1 DEF Use, DisposeConsumer
  <2>4. ~CallReady
    BY <1>1 DEF CallReady
  <2>5. \A k \in Keys : ~(SpawnInstance(k) \/ CloseInstance(k) \/ Change(k))
    BY <1>1 DEF SpawnInstance, CloseInstance, Change, consumer
  <2>6. \A o \in Observers : ~(Observe(o) \/ StopObserving(o))
    BY <1>1 DEF Observe, StopObserving
  <2>7. \A to \in BOOLEAN : ~Rebind(to)
    BY <1>1 DEF Rebind
  <2>8. \A t \in tasks : ~Continue(t)
    BY <1>1, <1>2 DEF Continue, Restart, Late, Refused, Subscribed
  <2> QED
    BY <2>1, <2>2, <2>3, <2>4, <2>5, <2>6, <2>7, <2>8 DEF Next, Calls
<1>4. reader' = Idle
  <2>1. Waiting.waiting
    BY DEF Waiting
  <2> QED
    BY <1>1, <1>3, <2>1 DEF ReadyWakes
<1>5. revision = reader.rev
  <2>1. Waiting # Idle
    BY DEF Waiting, Idle
  <2> QED
    BY <1>1, <1>3, <1>4, <2>1 DEF ReadyWakes
<1> QED
  BY <1>3, <1>5 DEF ReadyWakes

(* When ready() returns, every binding that is connected has its           *)
(* subscription, whatever was used, observed, rebound or disposed while it *)
(* waited, and also when observe is called during a rebind                 *)
(* (consumer.ts:501, 521).                                                 *)
THEOREM ReadyCorrect == Spec => ReadyMeansSubscribed
<1>1. ASSUME Coherent, [Next]_vars, ReadyReturns /\ bound /\ binding.open
      PROVE  binding.sub # 0 /\ (subs[binding.sub].active \/ stopped)
  <2>1. reader.waiting /\ ~binding.failed
    BY <1>1 DEF ReadyReturns, Throws
  <2>2. reader.rev = revision /\ \A t \in tasks : t.rev \notin reader.on
    BY <1>1, ReturnsByWaking
  <2>3. \A t \in tasks : t.rev # binding.rev
    BY <1>1, <2>1, <2>2 DEF Coherent, WaitInv
  <2> QED
    BY <1>1, <2>1, <2>3 DEF Coherent, ServedInv
<1>2. Coherent /\ [Next]_vars =>
        [ReadyReturns /\ bound /\ binding.open =>
            binding.sub # 0 /\ (subs[binding.sub].active \/ stopped)]_vars
  BY <1>1
<1> QED
  BY <1>2, CoherentAlways, PTL DEF Spec, ReadyMeansSubscribed

-----------------------------------------------------------------------------
(* One subscription.  As long as observe is not called during a rebind,    *)
(* every action keeps one start at a time and one owner per subscription.  *)
Single == Coherent /\ AloneInv /\ ListedInv

LEMMA EmitsAlone ==
  ASSUME Single, Emits
  PROVE  AloneInv' /\ ListedInv'
<1> USE DEF Single, Emits, consumer
<1>1. AloneInv'
  BY DEF AloneInv
<1>2. /\ Len(subs') = Len(subs)
      /\ \A n \in 1..Len(subs) : /\ subs'[n].active = subs[n].active /\ subs'[n].listed = subs[n].listed
                                 /\ subs'[n].closed = subs[n].closed
                                 /\ subs'[n].terminated = subs[n].terminated
  BY DEF SameSubs, SameStanding
<1>3. binding.sub # 0 => binding.sub \in 1..Len(subs)
  BY DEF Coherent, OwnInv, Typed, BindingTyped, SubsTyped
<1>4. \A t \in tasks : t.sub # 0 => t.sub \in 1..Len(subs)
  BY DEF Coherent, OwnInv, Typed, TasksTyped, Tasks, SubsTyped
<1> QED
  BY <1>1, <1>2, <1>3, <1>4 DEF ListedInv

LEMMA DisposeAlone ==
  ASSUME Single, Dispose
  PROVE  AloneInv' /\ ListedInv'
<1> USE DEF Single, consumer
<1>1. /\ stopped' /\ UNCHANGED <<bound, binding, tasks>> /\ Len(subs') = Len(subs)
      /\ \A n \in 1..Len(subs) : subs'[n].listed => subs[n].listed /\ subs[n].closed
  BY DisposeEffect DEF Coherent
<1> QED
  BY <1>1 DEF AloneInv, ListedInv

(* A start is added: its subscriber is listed, the others are as before.   *)
LEMMA OpenedListed ==
  ASSUME Single, NEW rev, NEW others, others \subseteq tasks, \A t \in tasks \ others : t.sub = 0,
         NEW n, Opened(rev, others, n), binding'.sub = binding.sub, stopped' = stopped
  PROVE  ListedInv'
<1> USE DEF Single
<1>1. PICK new : tasks' = others \cup {new} /\ new.sub = n
  BY OpenedTask
<1>2. Len(subs) \in Nat /\ n \in Nat
  BY DEF Coherent, Typed, SubsTyped, Opened
<1>3. binding.sub # 0 => binding.sub \in 1..Len(subs)
  BY DEF Coherent, OwnInv, Typed, BindingTyped, SubsTyped
<1>4. \A t \in tasks : t.sub # 0 => t.sub \in 1..Len(subs)
  BY DEF Coherent, OwnInv, Typed, TasksTyped, Tasks, SubsTyped
<1>5. CASE n = 0
  <2>1. subs' = subs
    BY <1>5 DEF Opened
  <2> QED
    BY <1>1, <1>5, <2>1 DEF ListedInv
<1>6. CASE n # 0
  <2>1. /\ n = Len(subs) + 1 /\ Len(subs') = n /\ ~stopped
        /\ subs'[n].listed /\ ~subs'[n].closed /\ ~subs'[n].terminated
        /\ \A i \in 1..Len(subs) : subs'[i] = subs[i]
    BY <1>6 DEF Opened
  <2>2. ASSUME NEW i \in 1..Len(subs'), subs'[i].listed
        PROVE  ~subs'[i].closed /\ ~subs'[i].terminated /\ (i = binding'.sub \/ \E t \in tasks' : t.sub = i)
    <3>1. CASE i = n
      BY <1>1, <2>1, <3>1
    <3>2. CASE i # n
      <4>1. i \in 1..Len(subs) /\ subs'[i] = subs[i] /\ i # 0
        BY <1>2, <2>1, <3>2
      <4> QED
        BY <1>1, <2>2, <4>1 DEF ListedInv
    <3> QED
      BY <3>1, <3>2
  <2>3. binding'.sub # 0 => subs'[binding'.sub].listed /\ subs'[binding'.sub].active
    BY <1>3, <2>1 DEF ListedInv
  <2>4. \A t \in tasks' : t.sub # 0 => subs'[t.sub].listed
    BY <1>1, <1>4, <2>1 DEF ListedInv
  <2> QED
    BY <2>1, <2>2, <2>3, <2>4 DEF ListedInv
<1> QED
  BY <1>5, <1>6

LEMMA UseAlone ==
  ASSUME Single, Use
  PROVE  AloneInv' /\ ListedInv'
<1> USE DEF Single
<1>1. /\ ~binding.open /\ binding'.open /\ binding'.rev = binding.rev /\ binding'.sub = binding.sub
      /\ binding'.failed = binding.failed /\ UNCHANGED <<bound, stopped>>
  BY UseEffect DEF BindingIs, provider, Coherent
<1>2. binding.sub = 0 /\ ~binding.failed /\ \A t \in tasks : t.rev # binding.rev
  BY <1>1 DEF AloneInv, Coherent, RevInv, Typed, TasksTyped, Tasks, BindingTyped
<1>3. CASE ~bound
  <2>1. UNCHANGED <<subs, tasks>>
    BY <1>3, UseEffect DEF Coherent
  <2> QED
    BY <1>1, <1>2, <2>1 DEF AloneInv, ListedInv
<1>4. CASE bound
  <2>1. PICK n : Opened(binding.rev, tasks, n)
    BY <1>4, UseEffect DEF Coherent
  <2>2. PICK new : tasks' = tasks \cup {new}
    BY <2>1, OpenedTask
  <2>3. AloneInv'
    BY <1>1, <1>2, <2>2 DEF AloneInv
  <2> QED
    BY <1>1, <2>1, <2>3, OpenedListed
<1> QED
  BY <1>3, <1>4

LEMMA ObserveAlone ==
  ASSUME Single, ~ObserveWhileRebinding, NEW o \in Observers, Observe(o)
  PROVE  AloneInv' /\ ListedInv'
<1> USE DEF Single
<1>1. /\ Keyed /\ ~Rebinding
      /\ binding'.open /\ binding'.rev = binding.rev /\ binding'.sub = binding.sub
      /\ binding'.failed = binding.failed /\ UNCHANGED <<bound, stopped>>
  BY ObserveEffect DEF BindingIs, provider, Coherent
<1>2. CASE ~(bound /\ ~binding.starting)
  <2>1. UNCHANGED <<subs, tasks>>
    BY <1>2, ObserveEffect DEF Coherent
  <2> QED
    BY <1>1, <2>1 DEF AloneInv, ListedInv
<1>3. CASE bound /\ ~binding.starting
  <2>1. PICK n : Opened(binding.rev, tasks, n)
    BY <1>3, ObserveEffect DEF Coherent
  <2>2. PICK new : tasks' = tasks \cup {new}
    BY <2>1, OpenedTask
  <2>3. ~binding.open
    BY <1>1, <1>3 DEF Coherent, StartInv, Rebinding
  <2>4. binding.sub = 0 /\ ~binding.failed /\ \A t \in tasks : t.rev # binding.rev
    BY <2>3 DEF AloneInv, Coherent, RevInv, Typed, TasksTyped, Tasks, BindingTyped
  <2>5. AloneInv'
    BY <1>1, <2>2, <2>4 DEF AloneInv
  <2> QED
    BY <1>1, <2>1, <2>5, OpenedListed
<1> QED
  BY <1>2, <1>3

LEMMA ClosesAlone ==
  ASSUME Single, Closes, UNCHANGED <<bound, tasks, provider>>
  PROVE  AloneInv' /\ ListedInv'
<1> USE DEF Single, provider
<1>1. /\ ~binding'.open /\ binding'.rev = binding.rev + 1 /\ binding'.sub = 0 /\ ~binding'.failed
      /\ Len(subs') = Len(subs) /\ UNCHANGED <<bound, tasks, stopped>>
      /\ \A n \in 1..Len(subs) : n # binding.sub => subs'[n] = subs[n]
      /\ binding.sub # 0 => ~subs'[binding.sub].listed
  BY DEF Closes, BindingIs
<1>2. \A t \in tasks : t.rev # binding'.rev
  BY <1>1 DEF Coherent, RevInv, Typed, TasksTyped, Tasks, BindingTyped
<1>3. AloneInv'
  BY <1>1, <1>2 DEF AloneInv
<1>4. \A t \in tasks : t.sub # 0 => t.sub \in 1..Len(subs) /\ t.sub # binding.sub
  BY DEF Coherent, OwnInv, Typed, TasksTyped, Tasks, SubsTyped
<1>5. ListedInv'
  BY <1>1, <1>4 DEF ListedInv
<1> QED
  BY <1>3, <1>5

LEMMA StopObservingAlone ==
  ASSUME Single, NEW o \in Observers, StopObserving(o)
  PROVE  AloneInv' /\ ListedInv'
<1>1. UNCHANGED <<bound, tasks, provider>>
  BY StopObservingEffect DEF Single, Coherent
<1>2. CASE Closes
  BY <1>1, <1>2, ClosesAlone
<1>3. CASE BindingIs(binding.open, binding.rev, binding.sub, binding.starting, binding.failed,
                     binding.observers \ {o}) /\ UNCHANGED subs
  BY <1>1, <1>3 DEF BindingIs, Single, AloneInv, ListedInv, provider
<1> QED
  BY <1>2, <1>3, StopObservingEffect DEF Single, Coherent

LEMMA DisposeConsumerAlone ==
  ASSUME Single, DisposeConsumer
  PROVE  AloneInv' /\ ListedInv'
BY DisposeConsumerEffect, ClosesAlone DEF Single, Coherent

LEMMA RebindAlone ==
  ASSUME Single, NEW to \in BOOLEAN, Rebind(to)
  PROVE  AloneInv' /\ ListedInv'
<1> USE DEF Single
<1>1. stopped' = stopped
  BY RebindEffect DEF Coherent, provider
<1>2. CASE ~binding.open
  <2>1. UNCHANGED <<binding, subs, tasks>>
    BY <1>2, RebindEffect DEF Coherent
  <2> QED
    BY <1>1, <1>2, <2>1 DEF AloneInv, ListedInv
<1>3. CASE binding.open
  <2>1. /\ binding'.open /\ binding'.rev = binding.rev + 1 /\ binding'.sub = 0 /\ ~binding'.failed
        /\ Len(subs') = Len(subs)
        /\ \A n \in 1..Len(subs) : n # binding.sub => subs'[n] = subs[n]
        /\ binding.sub # 0 => ~subs'[binding.sub].listed
    BY <1>3, RebindEffect DEF BindingIs, Coherent
  <2>2. PICK new : tasks' = tasks \cup {new} /\ new.sub = 0
    <3> DEFINE new == [rev |-> binding.rev + 1, stage |-> "closing", bound |-> to, sub |-> 0]
    <3>1. tasks' = tasks \cup {new}
      BY <1>3, RebindEffect DEF Coherent
    <3>2. new.sub = 0
      OBVIOUS
    <3> QED
      BY <3>1, <3>2
  <2>3. \A t \in tasks : t.rev # binding.rev + 1
    BY DEF Coherent, RevInv, Typed, TasksTyped, Tasks, BindingTyped
  <2>4. AloneInv'
    BY <2>1, <2>2, <2>3 DEF AloneInv
  <2>5. \A t \in tasks : t.sub # 0 => t.sub \in 1..Len(subs) /\ t.sub # binding.sub
    BY DEF Coherent, OwnInv, Typed, TasksTyped, Tasks, SubsTyped
  <2>6. ListedInv'
    BY <1>1, <2>1, <2>2, <2>5 DEF ListedInv
  <2> QED
    BY <2>4, <2>6
<1> QED
  BY <1>2, <1>3

LEMMA RestartAlone ==
  ASSUME Single, NEW t \in tasks, Restart(t)
  PROVE  AloneInv' /\ ListedInv'
<1> USE DEF Single
<1> DEFINE starts == t.bound /\ (Keyed => Latest(t) /\ binding.observers # {})
<1>1. /\ t.stage = "closing"
      /\ binding'.open = binding.open /\ binding'.rev = binding.rev /\ binding'.sub = binding.sub
      /\ binding'.failed = binding.failed /\ UNCHANGED <<bound, stopped>>
  BY RestartEffect DEF BindingIs, provider, Coherent
<1>2. t.sub = 0
  BY <1>1 DEF Coherent, OwnInv
<1>3. CASE ~starts
  <2>1. tasks' = tasks \ {t} /\ UNCHANGED subs
    BY <1>3, RestartEffect DEF Coherent
  <2> QED
    BY <1>1, <1>2, <2>1 DEF AloneInv, ListedInv, Coherent, Typed, SubsTyped
<1>4. CASE starts
  <2>1. PICK n : Opened(t.rev, tasks \ {t}, n)
    BY <1>4, RestartEffect DEF Coherent
  <2>2. PICK new : tasks' = (tasks \ {t}) \cup {new} /\ new.rev = t.rev
    BY <2>1, OpenedTask
  <2>3. AloneInv'
    BY <1>1, <2>2 DEF AloneInv
  <2> QED
    BY <1>1, <1>2, <2>1, <2>3, OpenedListed
<1> QED
  BY <1>3, <1>4

LEMMA LateAlone ==
  ASSUME Single, NEW t \in tasks, Late(t)
  PROVE  AloneInv' /\ ListedInv'
<1> USE DEF Single
<1>1. /\ t.sub # 0 /\ Len(subs') = Len(subs)
      /\ \A n \in 1..Len(subs) : n # t.sub => subs'[n] = subs[n]
      /\ ~subs'[t.sub].listed /\ tasks' = tasks \ {t}
      /\ UNCHANGED <<bound, binding, stopped>>
  BY LateEffect DEF provider, Coherent
<1>2. AloneInv'
  BY <1>1 DEF AloneInv
<1>3. binding.sub # 0 => binding.sub \in 1..Len(subs) /\ binding.sub # t.sub
  BY <1>1 DEF Coherent, OwnInv, Typed, BindingTyped, SubsTyped
<1>4. \A v \in tasks' : v.sub # 0 => v.sub \in 1..Len(subs) /\ v.sub # t.sub
  BY <1>1 DEF Coherent, OwnInv, Typed, TasksTyped, Tasks, SubsTyped
<1>5. ListedInv'
  BY <1>1, <1>3, <1>4 DEF ListedInv
<1> QED
  BY <1>2, <1>5

LEMMA RefusedAlone ==
  ASSUME Single, NEW t \in tasks, Refused(t)
  PROVE  AloneInv' /\ ListedInv'
<1> USE DEF Single
<1>1. /\ t.sub = 0 /\ tasks' = tasks \ {t} /\ UNCHANGED <<bound, subs, stopped>>
      /\ binding'.open = binding.open /\ binding'.rev = binding.rev /\ binding'.sub = binding.sub
      /\ binding'.failed = (binding.failed \/ (binding.open /\ binding.rev = t.rev))
  BY FailsEffect DEF Refused, BindingIs, provider, Coherent
<1>2. binding.rev = t.rev => binding.sub = 0 /\ \A v \in tasks' : v.rev # binding.rev
  BY <1>1 DEF AloneInv
<1>3. AloneInv'
  <2>1. CASE binding.open /\ binding.rev = t.rev
    BY <1>1, <1>2, <2>1 DEF AloneInv
  <2>2. CASE ~(binding.open /\ binding.rev = t.rev)
    <3>1. binding'.failed = binding.failed
      BY <1>1, <2>2 DEF Coherent, Typed, BindingTyped
    <3> QED
      BY <1>1, <3>1 DEF AloneInv
  <2> QED
    BY <2>1, <2>2
<1>4. ListedInv'
  BY <1>1 DEF ListedInv, Coherent, Typed, SubsTyped
<1> QED
  BY <1>3, <1>4

LEMMA SubscribedAlone ==
  ASSUME Single, NEW t \in tasks, Subscribed(t), Installed(t).faults = {}
  PROVE  AloneInv' /\ ListedInv'
<1> USE DEF Single
<1>2. /\ Activates(t) /\ t.sub # 0 /\ binding.open /\ bound /\ binding.rev = t.rev
      /\ tasks' = tasks \ {t} /\ UNCHANGED <<bound, disposed, stopped>>
  BY DEF Subscribed, provider, Latest
<1>3. /\ binding'.open = binding.open /\ binding'.rev = binding.rev /\ binding'.sub = t.sub
      /\ binding'.failed = binding.failed
      /\ Len(subs') = Len(subs)
      /\ \A n \in 1..Len(subs) : n # t.sub => subs'[n] = subs[n]
      /\ subs'[t.sub].active /\ subs'[t.sub].listed = subs[t.sub].listed
      /\ subs'[t.sub].closed = subs[t.sub].terminated
      /\ subs'[t.sub].terminated = subs[t.sub].terminated
  BY <1>2, ActivatesEffect DEF BindingIs, Coherent
<1>4. binding.sub = 0 /\ ~binding.failed /\ \A v \in tasks' : v.rev # binding.rev
  BY <1>2 DEF AloneInv
<1>5. AloneInv'
  BY <1>2, <1>3, <1>4 DEF AloneInv
<1>6. t.sub \in 1..Len(subs) /\ \A v \in tasks' : v.sub # 0 => v.sub \in 1..Len(subs) /\ v.sub # t.sub
  BY <1>2 DEF Coherent, OwnInv, Typed, TasksTyped, Tasks, SubsTyped
<1>7. ListedInv'
  <2>1. ASSUME NEW n \in 1..Len(subs'), subs'[n].listed
        PROVE  ~subs'[n].closed /\ ~subs'[n].terminated /\ (n = binding'.sub \/ \E v \in tasks' : v.sub = n)
    <3>1. CASE n = t.sub
      BY <1>3, <1>6, <2>1, <3>1 DEF ListedInv
    <3>2. CASE n # t.sub
      BY <1>2, <1>3, <1>4, <2>1, <3>2 DEF ListedInv
    <3> QED
      BY <3>1, <3>2
  <2>2. stopped' => \A n \in 1..Len(subs') : ~subs'[n].listed
    BY <1>2, <1>3, <1>6 DEF ListedInv
  <2>3. ~stopped' => subs'[t.sub].listed /\ subs'[t.sub].active /\ \A v \in tasks' : v.sub # 0 => subs'[v.sub].listed
    BY <1>2, <1>3, <1>6 DEF ListedInv
  <2> QED
    BY <1>3, <2>1, <2>2, <2>3 DEF ListedInv
<1> QED
  BY <1>5, <1>7

LEMMA SingleStep ==
  ASSUME Single, ~ObserveWhileRebinding, [Next]_vars,
         \A t \in tasks : Subscribed(t) => Installed(t).faults = {}
  PROVE  Single'
<1>0. Coherent' /\ Typed
  BY CoherentStep DEF Single, Coherent
<1>1. CASE Provide \/ Replace \/ Withdraw
  BY <1>0, <1>1, ProvideEffect, ReplaceEffect, WithdrawEffect, EmitsAlone DEF Single
<1>2. CASE Dispose \/ Use \/ DisposeConsumer
  BY <1>0, <1>2, DisposeAlone, UseAlone, DisposeConsumerAlone DEF Single
<1>3. ASSUME NEW k \in Keys, SpawnInstance(k) \/ CloseInstance(k) \/ Change(k)
      PROVE  Single'
  BY <1>0, <1>3, SpawnEffect, CloseEffect, ChangeEffect, EmitsAlone DEF Single
<1>4. ASSUME NEW o \in Observers, Observe(o) \/ StopObserving(o)
      PROVE  Single'
  BY <1>0, <1>4, ObserveAlone, StopObservingAlone DEF Single
<1>5. ASSUME NEW to \in BOOLEAN, Rebind(to)
      PROVE  Single'
  BY <1>0, <1>5, RebindAlone DEF Single
<1>6. ASSUME NEW t \in tasks, Continue(t)
      PROVE  Single'
  BY <1>0, <1>6, RestartAlone, LateAlone, RefusedAlone, SubscribedAlone DEF Continue, Single
<1>7. CASE CallReady \/ ReadyWakes \/ UNCHANGED vars
  <2>1. UNCHANGED <<bound, binding, subs, tasks, stopped>>
    BY <1>7 DEF CallReady, ReadyWakes, vars, provider
  <2> QED
    BY <1>0, <2>1 DEF Single, AloneInv, ListedInv
<1> QED
  BY <1>1, <1>2, <1>3, <1>4, <1>5, <1>6, <1>7 DEF Next, Calls

(* Single says what OneSubscription says of a state with nothing in        *)
(* flight.                                                                 *)
LEMMA SingleMeansOne ==
  ASSUME Single
  PROVE  OneSubscription
<1> USE DEF Single
<1> SUFFICES ASSUME tasks = {}
             PROVE  LET connected == binding.open /\ bound /\ ~binding.failed /\ ~stopped IN
                    /\ {n \in DOMAIN subs : subs[n].listed} = IF connected THEN {binding.sub} ELSE {}
                    /\ connected => subs[binding.sub].active
  BY DEF OneSubscription
<1> DEFINE connected == binding.open /\ bound /\ ~binding.failed /\ ~stopped
<1>1. DOMAIN subs = 1..Len(subs)
  BY DEF Coherent, Typed, SubsTyped
<1>2. \A n \in 1..Len(subs) : subs[n].listed => n = binding.sub /\ ~stopped /\ n # 0
  BY DEF ListedInv
<1>3. CASE connected
  <2>1. binding.sub \in 1..Len(subs)
    BY <1>3 DEF Coherent, ServedInv, OwnInv, Typed, BindingTyped, SubsTyped
  <2>2. subs[binding.sub].listed /\ subs[binding.sub].active
    BY <1>3, <2>1 DEF ListedInv
  <2> QED
    BY <1>1, <1>2, <1>3, <2>1, <2>2
<1>4. CASE ~connected
  <2>1. \A n \in 1..Len(subs) : ~subs[n].listed
    BY <1>2, <1>4 DEF AloneInv
  <2> QED
    BY <1>1, <1>4, <2>1
<1> QED
  BY <1>3, <1>4

LEMMA InitSingle ==
  ASSUME Init
  PROVE  Single
<1>1. binding = Shut(0) /\ tasks = {} /\ subs = <<>>
  BY DEF Init
<1>2. ~binding.open /\ ~binding.failed /\ binding.sub = 0 /\ Len(subs) = 0
  BY <1>1 DEF Shut
<1>3. AloneInv /\ ListedInv
  BY <1>1, <1>2 DEF AloneInv, ListedInv
<1> QED
  BY <1>3, InitCoherent DEF Single
=============================================================================
