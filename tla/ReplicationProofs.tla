-------------------------- MODULE ReplicationProofs --------------------------
(***************************************************************************)
(* Proofs about ReplicatedService, for any keys, observers and bounds,     *)
(* when observe is not called while a rebind waits: the replicas follow    *)
(* their source without a gap, a binding has one subscription, and both    *)
(* together implement ReplicatedState.                                     *)
(***************************************************************************)
EXTENDS ReplicaProofs

-----------------------------------------------------------------------------
(* What a facade holds, and what an update makes of it.                    *)
Holdings == [Keys -> Entries]
Clean    == [k \in Keys |-> NoEntry]

(* What the provider has now.                                              *)
Now == [k \in Keys |-> [gen |-> Gen(live[k]), val |-> Value(k)]]

(* A facade that follows holds what the provider has; that of a singleton  *)
(* may be empty when its subscriber n is one of those not told of it.      *)
Right(h, now, n, quiet) == h = now \/ (~Keyed /\ n \in quiet /\ h = Clean)

(* What may have been reported: updates before hydration, to a singleton.  *)
Mild(f) == f \subseteq (IF Keyed THEN {} ELSE {"cold"})

(* An update that follows what is held: an instance is new, or it is the   *)
(* one that is held; a value is the next one, or the replica is cleared.   *)
Legal(h, u) ==
    LET had == h[u.key] IN
    CASE u.type = "spawned" -> had.gen # u.gen
      [] u.type = "replaced" -> u.gen = 0
      [] u.type = "closed" -> had.gen = u.gen
      [] u.type = "state" ->
            had.gen = u.gen /\ ((~Keyed /\ had.val = Cold)
                                \/ (had.val # Cold /\ u.val.seq = had.val.seq + 1 /\ u.val.life = had.val.life))
      [] OTHER -> TRUE

Outcome(h, u) ==
    LET had == h[u.key] IN
    [h EXCEPT ![u.key] =
        CASE u.type = "unavailable" -> [gen |-> had.gen, val |-> Cold]
          [] u.type = "closed" -> NoEntry
          [] u.type = "state" /\ had.val = Cold -> had
          [] OTHER -> [gen |-> u.gen, val |-> u.val]]

After(h, u, g) == Legal(h, u) /\ g = Outcome(h, u)

(* A sequence of updates leads from h to g, each following the one before. *)
Path(h, ss, g) ==
    \E c \in [0..Len(ss) -> Holdings] :
        /\ c[0] = h /\ c[Len(ss)] = g
        /\ \A i \in 1..Len(ss) : After(c[i - 1], ss[i], c[i])

(* A snapshot says h.                                                      *)
Says(ss, h) ==
    /\ \A u \in ss : h[u.key] = [gen |-> u.gen, val |-> u.val]
                     /\ u.type = "spawned" /\ (Keyed <=> u.gen # 0)
    /\ \A u, v \in ss : u.key = v.key => u = v
    /\ \A k \in Keys : (\A u \in ss : u.key # k) => h[k] = NoEntry

(* The snapshot of a subscriber and what is buffered behind it lead to     *)
(* what the provider has.                                                  *)
Coming(s, now, n, quiet) ==
    \E h, g \in Holdings : Says(s.snapshot, h) /\ Path(h, s.buffer, g) /\ Right(g, now, n, quiet)

-----------------------------------------------------------------------------
(* The invariant.                                                          *)

(* Each life of an instance is new; a provider that is disposed has none.  *)
SourceInv ==
    /\ \A k \in Keys : live[k] \in {0, lives[k]} /\ (live[k] = 0 => seq[k] = 0)
    /\ ~Keyed => \A k \in Keys : k # Sole => live[k] = 0
    /\ stopped => \A k \in Keys : live[k] = 0

(* What the provider remembers of a snapshot is not ahead of the state.    *)
CoverInv ==
    \A n \in 1..Len(subs) : subs[n].listed =>
        \A m \in subs[n].covered :
            live[m.key] # 0 /\ m.gen = Gen(live[m.key]) /\ m.seq <= seq[m.key]

(* A subscriber knows whose it is; that of a start is not active yet.      *)
OwnerInv ==
    \A n \in 1..Len(subs) : subs[n].listed =>
        /\ n = binding.sub => subs[n].rev = binding.rev
        /\ \A t \in tasks : t.sub = n => subs[n].rev = t.rev /\ ~subs[n].active

(* A binding without a subscription holds nothing, one with a subscription *)
(* holds what the provider has, or nothing while it has not been told.     *)
HeldInv ==
    /\ Mild(faults)
    /\ IF binding.sub = 0 THEN held = Clean ELSE Right(held, Now, binding.sub, untold)

ComingInv == \A t \in tasks : t.sub # 0 => Coming(subs[t.sub], Now, t.sub, untold)

Synced == Sane /\ AloneInv /\ ListedInv /\ SourceInv /\ CoverInv /\ OwnerInv /\ HeldInv /\ ComingInv

-----------------------------------------------------------------------------
(* Paths.                                                                  *)
LEMMA PathEmpty ==
  ASSUME NEW h \in Holdings
  PROVE  Path(h, <<>>, h)
<1> DEFINE c == [i \in 0..0 |-> h]
<1>1. Len(<<>>) = 0 /\ 1..0 = {}
  OBVIOUS
<1>2. c \in [0..0 -> Holdings] /\ c[0] = h
  OBVIOUS
<1> HIDE DEF c
<1> QED
  BY <1>1, <1>2 DEF Path

LEMMA PathAppend ==
  ASSUME NEW S, NEW ss \in Seq(S), NEW u \in S, NEW h, NEW g, NEW x \in Holdings,
         Path(h, ss, g), After(g, u, x)
  PROVE  Path(h, Append(ss, u), x)
<1> DEFINE n == Len(ss)
           b == Append(ss, u)
<1>1. PICK c \in [0..n -> Holdings] :
         c[0] = h /\ c[n] = g /\ \A i \in 1..n : After(c[i - 1], ss[i], c[i])
  BY DEF Path
<1>2. n \in Nat /\ Len(b) = n + 1 /\ b[n + 1] = u /\ \A i \in 1..n : b[i] = ss[i]
  OBVIOUS
<1> HIDE DEF n, b
<1> DEFINE d == [i \in 0..(n + 1) |-> IF i = n + 1 THEN x ELSE c[i]]
<1>3. d \in [0..(n + 1) -> Holdings] /\ d[0] = h /\ d[n + 1] = x /\ \A i \in 0..n : d[i] = c[i]
  BY <1>1, <1>2
<1>4. ASSUME NEW i \in 1..(n + 1) PROVE After(d[i - 1], b[i], d[i])
  <2>1. CASE i = n + 1
    BY <1>1, <1>2, <1>3, <2>1
  <2>2. CASE i # n + 1
    <3>1. i \in 1..n /\ i \in 0..n /\ i - 1 \in 0..n
      BY <1>2, <2>2
    <3> QED
      BY <1>1, <1>2, <1>3, <3>1
  <2> QED
    BY <2>1, <2>2
<1> HIDE DEF d
<1>5. Path(h, b, x)
  BY <1>2, <1>3, <1>4 DEF Path
<1> QED
  BY <1>5 DEF b

LEMMA PathJoin ==
  ASSUME NEW S, NEW ss \in Seq(S), NEW rr \in Seq(S), NEW h, NEW g, NEW x,
         Path(h, ss, g), Path(g, rr, x)
  PROVE  Path(h, ss \o rr, x)
<1> DEFINE n == Len(ss)
           m == Len(rr)
           b == ss \o rr
<1>1. PICK c \in [0..n -> Holdings] :
         c[0] = h /\ c[n] = g /\ \A i \in 1..n : After(c[i - 1], ss[i], c[i])
  BY DEF Path
<1>2. PICK d \in [0..m -> Holdings] :
         d[0] = g /\ d[m] = x /\ \A i \in 1..m : After(d[i - 1], rr[i], d[i])
  BY DEF Path
<1>3. /\ n \in Nat /\ m \in Nat /\ Len(b) = n + m
      /\ \A i \in 1..n : b[i] = ss[i]
      /\ \A i \in (n + 1)..(n + m) : b[i] = rr[i - n]
  OBVIOUS
<1> HIDE DEF n, m, b
<1> DEFINE e == [i \in 0..(n + m) |-> IF i <= n THEN c[i] ELSE d[i - n]]
<1>4. e \in [0..(n + m) -> Holdings]
  <2>1. \A i \in 0..(n + m) : i <= n => i \in 0..n
    BY <1>3
  <2>2. \A i \in 0..(n + m) : ~(i <= n) => i - n \in 0..m
    BY <1>3
  <2> QED
    BY <1>1, <1>2, <2>1, <2>2
<1>5. /\ \A i \in 0..n : e[i] = c[i]
      /\ \A i \in n..(n + m) : e[i] = d[i - n]
  <2>1. ASSUME NEW i \in 0..n PROVE e[i] = c[i]
    BY <1>3
  <2>2. ASSUME NEW i \in n..(n + m) PROVE e[i] = d[i - n]
    <3>1. CASE i = n
      BY <1>1, <1>2, <1>3, <3>1
    <3>2. CASE i # n
      BY <1>3, <3>2
    <3> QED
      BY <3>1, <3>2
  <2> QED
    BY <2>1, <2>2
<1> HIDE DEF e
<1>6. e[0] = h /\ e[n + m] = x
  <2>1. 0 \in 0..n /\ n + m \in n..(n + m) /\ (n + m) - n = m
    BY <1>3
  <2> QED
    BY <1>1, <1>2, <1>5, <2>1
<1>7. ASSUME NEW i \in 1..(n + m) PROVE After(e[i - 1], b[i], e[i])
  <2>1. CASE i <= n
    <3>1. i \in 1..n /\ i \in 0..n /\ i - 1 \in 0..n
      BY <1>3, <2>1
    <3> QED
      BY <1>1, <1>3, <1>5, <3>1
  <2>2. CASE i > n
    <3>1. /\ i \in (n + 1)..(n + m) /\ i \in n..(n + m) /\ i - 1 \in n..(n + m)
          /\ i - n \in 1..m /\ (i - 1) - n = (i - n) - 1
      BY <1>3, <2>2
    <3>2. e[i - 1] = d[(i - n) - 1] /\ e[i] = d[i - n] /\ b[i] = rr[i - n]
      BY <1>3, <1>5, <3>1
    <3> QED
      BY <1>2, <3>1, <3>2
  <2> QED
    BY <1>3, <2>1, <2>2
<1>8. Path(h, b, x)
  BY <1>3, <1>4, <1>6, <1>7 DEF Path
<1> QED
  BY <1>8 DEF b

-----------------------------------------------------------------------------
(* A new facade.                                                           *)
LEMMA SpawnHeld ==
  ASSUME NEW w \in Worlds, NEW u \in Sent, w.held[u.key].gen # u.gen
  PROVE  /\ Spawn(w, u).held = [w.held EXCEPT ![u.key] = [gen |-> u.gen, val |-> u.val]]
         /\ Spawn(w, u).faults = w.faults
<1> DEFINE k == u.key
           e == [gen |-> u.gen, val |-> u.val]
           R == Others(w.running, k) \cup (IF binding.ready THEN Handlers(k, u.gen) ELSE {})
           v == [w EXCEPT !.held[k] = e]
<1>1. w = [held |-> w.held, running |-> w.running, faults |-> w.faults]
  BY WorldIs
<1>2. Spawn(w, u) = [w EXCEPT !.held[k] = e, !.running = R]
  BY <1>1 DEF Spawn
<1> HIDE DEF e, R
<1>3. v = [held |-> [w.held EXCEPT ![k] = e], running |-> w.running, faults |-> w.faults]
  BY <1>1
<1>4. [w EXCEPT !.held[k] = e, !.running = R] = [v EXCEPT !.running = R]
  BY <1>1
<1> HIDE DEF v
<1>5. [v EXCEPT !.running = R].held = [w.held EXCEPT ![k] = e] /\ [v EXCEPT !.running = R].faults = w.faults
  BY <1>3
<1> QED
  BY <1>2, <1>4, <1>5 DEF e

(* A delivery makes of the world what the update says.                     *)
LEMMA DeliverAfter ==
  ASSUME NEW w \in Worlds, NEW u \in Sent, NEW g, Mild(w.faults), After(w.held, u, g),
         binding.open
  PROVE  Deliver(w, binding.rev, u).held = g /\ Mild(Deliver(w, binding.rev, u).faults)
<1> DEFINE k == u.key
           had == w.held[k]
<1>1. /\ w = [held |-> w.held, running |-> w.running, faults |-> w.faults]
      /\ w.held \in [Keys -> Entries]
  BY WorldIs
<1>2. /\ k \in Keys /\ u.val \in Vals
      /\ u.type \in {"unavailable", "replaced", "spawned", "closed", "state"}
  BY DEF Sent, Updates
<1>3. had = [gen |-> had.gen, val |-> had.val] /\ had.val \in Vals
  BY <1>1, <1>2 DEF Entries
<1>4. Legal(w.held, u) /\ g = Outcome(w.held, u)
  BY DEF After
<1>0. \A v : [w EXCEPT !.held[u.key].val = v] =
              [held |-> [w.held EXCEPT ![u.key] = [gen |-> w.held[u.key].gen, val |-> v]],
               running |-> w.running, faults |-> w.faults]
  BY <1>2, ValueSet
<1>5. CASE u.type = "unavailable"
  <2>1. g = [w.held EXCEPT ![k] = [gen |-> had.gen, val |-> Cold]]
    BY <1>4, <1>5 DEF Outcome
  <2>2. Deliver(w, binding.rev, u) = [w EXCEPT !.held[k].val = Cold]
    BY <1>5 DEF Deliver
  <2>3. [w EXCEPT !.held[k].val = Cold] =
          [held |-> [w.held EXCEPT ![k] = [gen |-> had.gen, val |-> Cold]],
           running |-> w.running, faults |-> w.faults]
    BY <1>0
  <2> QED
    BY <2>1, <2>2, <2>3
<1>6. CASE u.type = "replaced"
  <2>1. u.gen = 0
    BY <1>4, <1>6 DEF Legal
  <2>2. g = [w.held EXCEPT ![k] = [gen |-> 0, val |-> u.val]]
    BY <1>4, <1>6, <2>1 DEF Outcome
  <2>3. Deliver(w, binding.rev, u) = [w EXCEPT !.held[k] = [gen |-> 0, val |-> u.val]]
    BY <1>6 DEF Deliver
  <2> DEFINE e == [gen |-> 0, val |-> u.val]
  <2> HIDE DEF e
  <2>4. [w EXCEPT !.held[k] = e] =
          [held |-> [w.held EXCEPT ![k] = e], running |-> w.running, faults |-> w.faults]
    BY <1>1
  <2> QED
    BY <2>2, <2>3, <2>4 DEF e
<1>7. CASE u.type = "spawned"
  <2>1. w.held[u.key].gen # u.gen
    BY <1>4, <1>7 DEF Legal
  <2>2. g = [w.held EXCEPT ![k] = [gen |-> u.gen, val |-> u.val]]
    BY <1>4, <1>7 DEF Outcome
  <2>3. Deliver(w, binding.rev, u) = Spawn(w, u)
    BY <1>7 DEF Deliver
  <2> QED
    BY <2>1, <2>2, <2>3, SpawnHeld
<1>8. CASE u.type = "closed"
  <2>1. had.gen = u.gen
    BY <1>4, <1>8 DEF Legal
  <2>2. g = [w.held EXCEPT ![k] = NoEntry]
    BY <1>4, <1>8 DEF Outcome
  <2>3. Deliver(w, binding.rev, u) = Drop(w, k)
    BY <1>8, <2>1 DEF Deliver
  <2> DEFINE v == [w EXCEPT !.held[k] = NoEntry]
             R == Others(w.running, k)
  <2>4. v = [held |-> [w.held EXCEPT ![k] = NoEntry], running |-> w.running, faults |-> w.faults]
    BY <1>1
  <2>5. Drop(w, k) = [v EXCEPT !.running = R]
    BY <1>1 DEF Drop
  <2> HIDE DEF v, R
  <2>6. [v EXCEPT !.running = R].held = [w.held EXCEPT ![k] = NoEntry] /\ [v EXCEPT !.running = R].faults = w.faults
    BY <2>4
  <2> QED
    BY <2>2, <2>3, <2>5, <2>6
<1>9. CASE u.type = "state"
  <2>1. had.gen = u.gen /\ ((~Keyed /\ had.val = Cold) \/ (had.val # Cold /\ u.val.seq = had.val.seq + 1 /\ u.val.life = had.val.life))
    BY <1>4, <1>9 DEF Legal
  <2>2. Deliver(w, binding.rev, u) = Patch(w, u)
    BY <1>9, <2>1 DEF Deliver
  <2>3. CASE had.val = Cold
    <3>1. g = [w.held EXCEPT ![k] = had]
      BY <1>4, <1>9, <2>3 DEF Outcome
    <3>2. g = w.held
      BY <1>1, <1>2, <3>1
    <3> DEFINE f == w.faults \cup {"cold"}
    <3>3. Patch(w, u) = [w EXCEPT !.faults = f]
      BY <1>1, <2>3 DEF Patch
    <3>4. ~Keyed
      BY <2>1, <2>3
    <3>5. Mild(f)
      BY <3>4 DEF Mild
    <3> HIDE DEF f
    <3>6. Patch(w, u).held = w.held /\ Patch(w, u).faults = f
      BY <1>1, <3>3
    <3> QED
      BY <2>2, <3>2, <3>5, <3>6
  <2>4. CASE had.val # Cold
    <3>1. u.val.seq = had.val.seq + 1 /\ u.val.life = had.val.life
      BY <2>1, <2>4
    <3>2. g = [w.held EXCEPT ![k] = [gen |-> u.gen, val |-> u.val]]
      BY <1>4, <1>9, <2>4 DEF Outcome
    <3>3. Patch(w, u) = [w EXCEPT !.held[k].val =
              [life |-> IF had.val.life = u.val.life THEN had.val.life ELSE 0, seq |-> u.val.seq]]
      BY <2>4, <3>1 DEF Patch
    <3>4. [life |-> IF had.val.life = u.val.life THEN had.val.life ELSE 0, seq |-> u.val.seq] = u.val
      BY <1>2, <3>1 DEF Vals
    <3>5. [w EXCEPT !.held[k].val = u.val] =
            [held |-> [w.held EXCEPT ![k] = [gen |-> had.gen, val |-> u.val]],
             running |-> w.running, faults |-> w.faults]
      BY <1>0
    <3> QED
      BY <2>1, <2>2, <3>2, <3>3, <3>4, <3>5
  <2> QED
    BY <2>3, <2>4
<1> QED
  BY <1>2, <1>5, <1>6, <1>7, <1>8, <1>9

(* Delivering what was buffered follows the path.                          *)
LEMMA CatchUpPath ==
  ASSUME BindingTyped, DirectoryInv, NEW ss \in Seq(Sent), NEW w \in Worlds, Mild(w.faults),
         NEW g, Path(w.held, ss, g), binding.open
  PROVE  CatchUp(w, binding.rev, ss).held = g /\ Mild(CatchUp(w, binding.rev, ss).faults)
<1> DEFINE n == Len(ss)
<1>1. PICK p \in [0..n -> Holdings] :
         p[0] = w.held /\ p[n] = g /\ \A i \in 1..n : After(p[i - 1], ss[i], p[i])
  BY DEF Path
<1>2. PICK c \in [0..n -> Worlds] :
         /\ c[0] = w /\ c[n] = CatchUp(w, binding.rev, ss)
         /\ \A i \in 1..n : c[i] = Deliver(c[i - 1], binding.rev, ss[i])
  BY CatchUpChain
<1>3. n \in Nat /\ \A i \in 1..n : ss[i] \in Sent /\ i - 1 \in 0..n
  OBVIOUS
<1> HIDE DEF n
<1> DEFINE S == {i \in 0..n : c[i].held = p[i] /\ Mild(c[i].faults)}
<1>4. 0 \in S
  BY <1>1, <1>2, <1>3
<1>0. ASSUME NEW v \in Worlds, NEW u \in Sent, NEW x, Mild(v.faults), After(v.held, u, x)
      PROVE  Deliver(v, binding.rev, u).held = x /\ Mild(Deliver(v, binding.rev, u).faults)
  BY <1>0, DeliverAfter
<1>5. ASSUME NEW i \in 1..n, i - 1 \in S PROVE i \in S
  <2>1. c[i - 1] \in Worlds /\ Mild(c[i - 1].faults) /\ After(c[i - 1].held, ss[i], p[i])
    BY <1>1, <1>2, <1>3, <1>5
  <2>2. c[i].held = p[i] /\ Mild(c[i].faults)
    <3> DEFINE v == c[i - 1]
    <3>1. v \in Worlds /\ Mild(v.faults) /\ After(v.held, ss[i], p[i]) /\ ss[i] \in Sent
      BY <1>3, <2>1
    <3>2. c[i] = Deliver(v, binding.rev, ss[i])
      BY <1>2
    <3> HIDE DEF v
    <3>3. Deliver(v, binding.rev, ss[i]).held = p[i] /\ Mild(Deliver(v, binding.rev, ss[i]).faults)
      BY <1>0, <3>1
    <3> QED
      BY <3>2, <3>3
  <2> QED
    BY <2>2
<1> HIDE DEF S
<1>6. 0..n \subseteq S
  BY <1>3, <1>4, <1>5, CountUp
<1>7. n \in S
  BY <1>3, <1>6
<1> QED
  BY <1>1, <1>2, <1>7 DEF S

-----------------------------------------------------------------------------
(* Installing a snapshot.                                                  *)

(* SetToSeq lists every element.                                           *)
LEMMA ListingAll ==
  ASSUME NEW S, IsFiniteSet(S)
  PROVE  \A x \in S : \E a \in 1..Cardinality(S) : SetToSeq(S)[a] = x
<1> DEFINE n == Cardinality(S)
           f == SetToSeq(S)
<1>1. n \in Nat /\ f \in [1..n -> S] /\ \A a, b \in 1..n : f[a] = f[b] => a = b
  BY ListingIs
<1>2. Cardinality(1..n) = n
  <2>1. 1 \in Int /\ n \in Int /\ (IF 1 > n THEN 0 ELSE n - 1 + 1) = n
    BY <1>1
  <2> HIDE DEF n
  <2> QED
    BY <2>1, FS_Interval
<1> HIDE DEF f
<1>3. f \in Injection(1..n, S)
  BY <1>1 DEF Injection, IsInjective
<1>4. f \in Surjection(1..n, S)
  BY <1>2, <1>3, FS_Injection
<1>5. \A x \in S : \E a \in 1..n : f[a] = x
  BY <1>4 DEF Surjection
<1> QED
  BY <1>5 DEF f

LEMMA InstallOne ==
  ASSUME NEW w \in Worlds, NEW u \in Sent, w.faults = {},
         IF Keyed THEN w.held[u.key].gen # u.gen ELSE u.gen = 0
  PROVE  /\ Install(w, u).held = [w.held EXCEPT ![u.key] = [gen |-> u.gen, val |-> u.val]]
         /\ Install(w, u).faults = {}
<1>1. CASE Keyed
  BY <1>1, SpawnHeld DEF Install
<1>2. CASE ~Keyed
  <2> DEFINE e == [gen |-> 0, val |-> u.val]
  <2>1. Install(w, u) = [w EXCEPT !.held[u.key] = e] /\ u.gen = 0
    BY <1>2 DEF Install
  <2> HIDE DEF e
  <2>2. [w EXCEPT !.held[u.key] = e] =
          [held |-> [w.held EXCEPT ![u.key] = e], running |-> w.running, faults |-> w.faults]
    BY WorldIs
  <2> QED
    BY <2>1, <2>2 DEF e
<1> QED
  BY <1>1, <1>2

(* A facade that held nothing holds what the snapshot says.                *)
LEMMA InstallSays ==
  ASSUME BindingTyped, DirectoryInv, NEW w \in Worlds, w.faults = {}, w.held = Clean,
         NEW S, S \subseteq Sent, IsFiniteSet(S), SetToSeq(S) \in Seq(Sent),
         NEW h \in Holdings, Says(S, h)
  PROVE  /\ FoldLeft(Install, w, SetToSeq(S)).held = h
         /\ FoldLeft(Install, w, SetToSeq(S)).faults = {}
<1> DEFINE n == Cardinality(S)
           q == SetToSeq(S)
<1>1. /\ n \in Nat /\ q \in [1..n -> S] /\ \A a, b \in 1..n : q[a] = q[b] => a = b
      /\ \A x \in S : \E a \in 1..n : q[a] = x
  BY ListingIs, ListingAll
<1>2. PICK c \in [0..Len(q) -> Worlds] :
         /\ c[0] = w /\ c[Len(q)] = FoldLeft(Install, w, q)
         /\ \A i \in 1..Len(q) : c[i] = Install(c[i - 1], q[i])
  BY InstallChain
<1>3. Len(q) = n
  BY <1>1
<1> HIDE DEF n, q
<1> DEFINE g(i) == [k \in Keys |-> IF \E j \in 1..i : q[j].key = k THEN h[k] ELSE NoEntry]
           T == {i \in 0..n : c[i].held = g(i) /\ c[i].faults = {}}
<1>4. 0 \in T
  <2>1. 1..0 = {} /\ g(0) = Clean /\ 0 \in 0..n
    BY <1>1 DEF Clean
  <2> QED
    BY <1>2, <2>1
<1>5. ASSUME NEW i \in 1..n, i - 1 \in T PROVE i \in T
  <2> DEFINE v == c[i - 1]
             u == q[i]
  <2>1. v \in Worlds /\ v.held = g(i - 1) /\ v.faults = {} /\ c[i] = Install(v, u)
    BY <1>1, <1>2, <1>3, <1>5
  <2>2. u \in Sent /\ u \in S /\ u.key \in Keys
    BY <1>1 DEF Sent, Updates
  <2>3. /\ h[u.key] = [gen |-> u.gen, val |-> u.val] /\ (Keyed <=> u.gen # 0)
        /\ \A x \in S : x.key = u.key => x = u
    BY <2>2 DEF Says
  <2>4. \A j \in 1..(i - 1) : q[j].key # u.key
    BY <1>1, <2>3
  <2>5. g(i - 1)[u.key] = NoEntry
    BY <2>2, <2>4
  <2>6. IF Keyed THEN v.held[u.key].gen # u.gen ELSE u.gen = 0
    BY <2>1, <2>3, <2>5, NoEntryIn
  <2>7. g(i) = [g(i - 1) EXCEPT ![u.key] = [gen |-> u.gen, val |-> u.val]]
    <3>1. ASSUME NEW k \in Keys
          PROVE  g(i)[k] = IF k = u.key THEN [gen |-> u.gen, val |-> u.val] ELSE g(i - 1)[k]
      <4>1. CASE k = u.key
        BY <1>1, <2>3, <4>1
      <4>2. CASE k # u.key
        <5>1. (\E j \in 1..i : q[j].key = k) <=> (\E j \in 1..(i - 1) : q[j].key = k)
          BY <1>1, <4>2
        <5> QED
          BY <4>2, <5>1
      <4> QED
        BY <4>1, <4>2
    <3> QED
      BY <2>2, <3>1
  <2> HIDE DEF v, u, g
  <2>8. c[i].held = g(i) /\ c[i].faults = {}
    BY <2>1, <2>2, <2>6, <2>7, InstallOne
  <2> QED
    BY <2>8 DEF g
<1> HIDE DEF T
<1>6. 0..n \subseteq T
  BY <1>1, <1>4, <1>5, CountUp
<1>7. c[n].held = g(n) /\ c[n].faults = {}
  BY <1>1, <1>6 DEF T
<1>8. g(n) = h
  <2>1. ASSUME NEW k \in Keys PROVE g(n)[k] = h[k]
    <3>1. CASE \E j \in 1..n : q[j].key = k
      BY <3>1
    <3>2. CASE \A j \in 1..n : q[j].key # k
      <4>1. \A u \in S : u.key # k
        BY <1>1, <3>2
      <4>2. h[k] = NoEntry
        BY <4>1 DEF Says
      <4> QED
        BY <3>2, <4>2
    <3> QED
      BY <3>1, <3>2
  <2> QED
    BY <2>1 DEF Holdings
<1> HIDE DEF g
<1> QED
  BY <1>2, <1>3, <1>7, <1>8 DEF q

-----------------------------------------------------------------------------
(* Who hears of an update: the subscription of the binding, no other.      *)
Standing == Coherent /\ AloneInv /\ ListedInv /\ OwnerInv /\ DirectoryInv

LEMMA HearOne ==
  ASSUME Standing, ~stopped, NEW u \in Sent, NEW w \in Worlds,
         \A n \in 1..Len(subs) : subs[n].listed => ~IsCovered(subs[n], u)
  PROVE  Hear(w, u) = IF binding.sub # 0 THEN Deliver(w, binding.rev, u) ELSE w
<1> DEFINE N == Len(subs)
           b == binding.sub
           d == Deliver(w, binding.rev, u)
<1>1. BindingTyped /\ SubsTyped /\ DirectoryInv /\ N \in Nat /\ b \in 0..N
  BY DEF Standing, Coherent, Typed, SubsTyped, BindingTyped, OwnInv
<1>2. PICK c \in [0..N -> Worlds] :
         /\ c[0] = w /\ c[N] = Hear(w, u)
         /\ \A i \in 1..N : c[i] = Reaches(c[i - 1], subs[i], u)
  BY <1>1, HearChain
<1>3. ASSUME NEW i \in 1..N, NEW x, i # b PROVE Reaches(x, subs[i], u) = x
  <2>1. CASE ~subs[i].listed
    BY <2>1 DEF Reaches, Wants
  <2>2. CASE subs[i].listed
    <3>1. PICK t \in tasks : t.sub = i
      BY <1>3, <2>2 DEF Standing, ListedInv
    <3>2. ~subs[i].active
      BY <2>2, <3>1 DEF Standing, OwnerInv
    <3> QED
      BY <3>2 DEF Reaches
  <2> QED
    BY <2>1, <2>2
<1>4. ASSUME NEW x, b # 0 PROVE Reaches(x, subs[b], u) = Deliver(x, binding.rev, u)
  <2>1. b \in 1..N
    BY <1>1, <1>4
  <2>2. subs[b].listed /\ subs[b].active
    BY <1>4 DEF Standing, ListedInv
  <2>3. ~subs[b].closed /\ subs[b].rev = binding.rev /\ ~IsCovered(subs[b], u)
    BY <2>1, <2>2 DEF Standing, ListedInv, OwnerInv
  <2> QED
    BY <2>2, <2>3 DEF Reaches, Wants
<1> HIDE DEF N, b, d
<1> DEFINE S == {i \in 0..N : c[i] = IF b # 0 /\ b <= i THEN d ELSE w}
<1>5. 0 \in S
  BY <1>1, <1>2
<1>6. ASSUME NEW i \in 1..N, i - 1 \in S PROVE i \in S
  <2>1. CASE i # b
    <3>1. c[i] = c[i - 1]
      BY <1>2, <1>3, <2>1
    <3>2. (b <= i) <=> (b <= i - 1)
      BY <1>1, <2>1
    <3> QED
      BY <1>6, <3>1, <3>2
  <2>2. CASE i = b
    <3>1. b # 0 /\ ~(b <= i - 1) /\ b <= i /\ c[i - 1] = w
      BY <1>1, <1>6, <2>2
    <3>2. c[i] = Deliver(w, binding.rev, u)
      BY <1>2, <1>4, <2>2, <3>1
    <3> QED
      BY <3>1, <3>2 DEF d
  <2> QED
    BY <2>1, <2>2
<1> HIDE DEF S
<1>7. 0..N \subseteq S
  BY <1>1, <1>5, <1>6, CountUp
<1>8. c[N] = IF b # 0 /\ b <= N THEN d ELSE w
  BY <1>1, <1>7 DEF S
<1> QED
  BY <1>1, <1>2, <1>8 DEF b, d

(* Several updates that no snapshot covers.                                *)
LEMMA HearPath ==
  ASSUME Standing, ~stopped, NEW ss \in Seq(Sent), \A i \in 1..Len(ss) : ss[i].type # "state",
         NEW w \in Worlds, Mild(w.faults), NEW g, binding.sub # 0 => Path(w.held, ss, g)
  PROVE  /\ binding.sub # 0 => FoldLeft(Hear, w, ss).held = g
         /\ binding.sub = 0 => FoldLeft(Hear, w, ss).held = w.held
         /\ Mild(FoldLeft(Hear, w, ss).faults)
<1> DEFINE n == Len(ss)
           b == binding.sub # 0
<1>1. PICK p : b => /\ p \in [0..n -> Holdings] /\ p[0] = w.held /\ p[n] = g
                     /\ \A i \in 1..n : After(p[i - 1], ss[i], p[i])
  BY DEF Path
<1>2. PICK c \in [0..n -> Worlds] :
         /\ c[0] = w /\ c[n] = FoldLeft(Hear, w, ss)
         /\ \A i \in 1..n : c[i] = Hear(c[i - 1], ss[i])
  BY FarewellChain DEF Standing, Coherent, Typed
<1>3. n \in Nat /\ \A i \in 1..n : ss[i] \in Sent /\ i - 1 \in 0..n
  OBVIOUS
<1>4. ASSUME NEW i \in 1..n, NEW v \in Worlds
      PROVE  Hear(v, ss[i]) = IF b THEN Deliver(v, binding.rev, ss[i]) ELSE v
  <2>1. \A m \in 1..Len(subs) : ~IsCovered(subs[m], ss[i])
    BY DEF IsCovered
  <2>2. ss[i] \in Sent
    BY <1>3
  <2> DEFINE u == ss[i]
  <2> HIDE DEF u
  <2>3. Hear(v, u) = IF b THEN Deliver(v, binding.rev, u) ELSE v
    BY <2>1, <2>2, HearOne DEF u
  <2> QED
    BY <2>3 DEF u
<1>5. b => binding.open
  BY DEF Standing, AloneInv
<1>6. ASSUME NEW v \in Worlds, NEW u \in Sent, NEW x, Mild(v.faults), After(v.held, u, x), b
      PROVE  Deliver(v, binding.rev, u).held = x /\ Mild(Deliver(v, binding.rev, u).faults)
  BY <1>5, <1>6, DeliverAfter
<1> HIDE DEF n, b
<1> DEFINE S == {i \in 0..n : c[i].held = (IF b THEN p[i] ELSE w.held) /\ Mild(c[i].faults)}
<1>7. 0 \in S
  BY <1>1, <1>2, <1>3
<1>8. ASSUME NEW i \in 1..n, i - 1 \in S PROVE i \in S
  <2> DEFINE v == c[i - 1]
  <2>1. /\ v \in Worlds /\ Mild(v.faults) /\ v.held = (IF b THEN p[i - 1] ELSE w.held)
        /\ (b => After(p[i - 1], ss[i], p[i])) /\ ss[i] \in Sent
    BY <1>1, <1>3, <1>8
  <2>2. c[i] = IF b THEN Deliver(v, binding.rev, ss[i]) ELSE v
    BY <1>2, <1>4, <2>1
  <2> HIDE DEF v
  <2>3. c[i].held = (IF b THEN p[i] ELSE w.held) /\ Mild(c[i].faults)
    <3>1. CASE b
      <4>1. Deliver(v, binding.rev, ss[i]).held = p[i] /\ Mild(Deliver(v, binding.rev, ss[i]).faults)
        BY <1>6, <2>1, <3>1
      <4> QED
        BY <2>2, <3>1, <4>1
    <3>2. CASE ~b
      BY <2>1, <2>2, <3>2
    <3> QED
      BY <3>1, <3>2
  <2> QED
    BY <2>3
<1> HIDE DEF S
<1>9. 0..n \subseteq S
  BY <1>3, <1>7, <1>8, CountUp
<1>10. n \in S
  BY <1>3, <1>9
<1> QED
  BY <1>1, <1>2, <1>10 DEF S, b

-----------------------------------------------------------------------------
(* What the provider's operations do to what it has.                       *)
LEMMA NowIn ==
  ASSUME ProviderTyped
  PROVE  Now \in Holdings /\ Clean \in Holdings
<1>1. \A k \in Keys : Gen(live[k]) \in 0..MaxLives
  BY ServiceAssumption DEF ProviderTyped, Gen
<1>2. \A k \in Keys : [gen |-> Gen(live[k]), val |-> Value(k)] \in Entries
  BY <1>1, ValueIn DEF Entries
<1> QED
  BY <1>2, NoEntryIn DEF Now, Clean, Holdings

LEMMA NowNext ==
  ASSUME ProviderTyped'
  PROVE  Now' \in Holdings
<1>1. ASSUME NEW k \in Keys
      PROVE  /\ Gen(live[k])' \in 0..MaxLives
             /\ Value(k)' \in Vals
  BY ServiceAssumption DEF ProviderTyped, Gen, Value, Cold, Vals
<1>2. Now' = [k \in Keys |-> [gen |-> Gen(live[k])', val |-> Value(k)']]
  BY DEF Now
<1>3. \A k \in Keys : [gen |-> Gen(live[k])', val |-> Value(k)'] \in Entries
  BY <1>1 DEF Entries
<1> QED
  BY <1>2, <1>3 DEF Holdings

LEMMA RightIn ==
  ASSUME ProviderTyped, NEW h, NEW n, Right(h, Now, n, untold)
  PROVE  h \in Holdings
BY NowIn DEF Right

(* What is remembered of a snapshot is not ahead of the provider.          *)
Recent(C) == \A m \in C : live[m.key] # 0 /\ m.gen = Gen(live[m.key]) /\ m.seq <= seq[m.key]
RecentNext(C) == \A m \in C : live'[m.key] # 0 /\ m.gen = Gen(live'[m.key]) /\ m.seq <= seq'[m.key]

(* An operation that emits u: u follows what a facade holds that follows,  *)
(* no snapshot covers it, and memories stay behind.                        *)
Moves(u) ==
    /\ ~stopped /\ stopped' = stopped /\ ProviderTyped' /\ SourceInv' /\ mode' = mode
    /\ \A h, n : Right(h, Now, n, untold) => Legal(h, u) /\ Right(Outcome(h, u), Now', n, untold')
    /\ \A s \in Subscribers : Recent(s.covered) => ~IsCovered(s, u) /\ RecentNext(Covered(s, u))

LEMMA NowAt ==
  ASSUME NEW k \in Keys
  PROVE  /\ Now[k] = [gen |-> Gen(live[k]), val |-> Value(k)]
         /\ live[k] = 0 => Now[k] = NoEntry
         /\ live[k] # 0 => Now[k] = [gen |-> Gen(live[k]), val |-> [life |-> live[k], seq |-> seq[k]]]
BY DEF Now, Gen, Value, NoEntry, Cold

(* The provider changes at one key.                                        *)
LEMMA NowElsewhere ==
  ASSUME mode' = mode, NEW k \in Keys, \A j \in Keys : j # k => live'[j] = live[j] /\ seq'[j] = seq[j]
  PROVE  Now' = [Now EXCEPT ![k] = Now'[k]]
<1>1. \A j \in Keys : j # k => Now'[j] = Now[j]
  BY DEF Now, Gen, Value, Keyed
<1>2. Now' = [j \in Keys |-> Now'[j]]
  BY DEF Now
<1>3. Now = [j \in Keys |-> Now[j]]
  BY DEF Now
<1> QED
  BY <1>1, <1>2, <1>3

LEMMA ReplaceMoves ==
  ASSUME ProviderTyped, ProviderTyped', SourceInv, Replace
  PROVE  Moves(Update("replaced", Sole, [life |-> live'[Sole], seq |-> 0]))
<1> DEFINE u == Update("replaced", Sole, [life |-> live'[Sole], seq |-> 0])
<1>1. /\ Sole \in Keys /\ ~Keyed /\ ~stopped /\ stopped' = stopped /\ mode' = mode
      /\ lives' = [lives EXCEPT ![Sole] = lives[Sole] + 1]
      /\ live' = [live EXCEPT ![Sole] = lives'[Sole]] /\ seq' = [seq EXCEPT ![Sole] = 0]
      /\ live \in [Keys -> Nat] /\ lives \in [Keys -> Nat] /\ seq \in [Keys -> Nat]
  BY ServiceAssumption DEF Replace, Open, ProviderTyped, consumer
<1>2. /\ live'[Sole] = lives[Sole] + 1 /\ lives'[Sole] = lives[Sole] + 1 /\ seq'[Sole] = 0
      /\ live'[Sole] # 0
      /\ \A j \in Keys : j # Sole => live'[j] = live[j] /\ lives'[j] = lives[j] /\ seq'[j] = seq[j]
  BY <1>1
<1>3. SourceInv'
  BY <1>1, <1>2 DEF SourceInv, Keyed
<1>4. /\ u.type = "replaced" /\ u.key = Sole /\ u.gen = 0
      /\ u.val = [life |-> live'[Sole], seq |-> 0]
  BY <1>1 DEF Update, Gen
<1> HIDE DEF u
<1>5. Now' = [Now EXCEPT ![Sole] = [gen |-> 0, val |-> [life |-> live'[Sole], seq |-> 0]]]
  <2>1. Now' = [Now EXCEPT ![Sole] = Now'[Sole]]
    BY <1>1, <1>2, NowElsewhere
  <2>2. Now'[Sole] = [gen |-> 0, val |-> [life |-> live'[Sole], seq |-> 0]]
    BY <1>1, <1>2 DEF Now, Gen, Value, Keyed
  <2> QED
    BY <2>1, <2>2
<1>6. Clean = Now \/ \A k \in Keys : k # Sole => Now[k] = NoEntry
  BY <1>1, NowAt DEF SourceInv
<1>7. ASSUME NEW h, NEW n, Right(h, Now, n, untold) PROVE Legal(h, u) /\ Right(Outcome(h, u), Now', n, untold')
  <2>1. Legal(h, u)
    BY <1>4 DEF Legal
  <2>2. Outcome(h, u) = [h EXCEPT ![Sole] = [gen |-> 0, val |-> [life |-> live'[Sole], seq |-> 0]]]
    BY <1>4 DEF Outcome
  <2>3. CASE h = Now
    BY <1>5, <2>1, <2>2, <2>3 DEF Right
  <2>4. CASE h = Clean
    <3>1. \A k \in Keys : k # Sole => Now[k] = Clean[k]
      BY <1>6 DEF Clean
    <3>2. [Clean EXCEPT ![Sole] = [gen |-> 0, val |-> [life |-> live'[Sole], seq |-> 0]]] =
          [Now EXCEPT ![Sole] = [gen |-> 0, val |-> [life |-> live'[Sole], seq |-> 0]]]
      BY <3>1 DEF Clean, Now
    <3> QED
      BY <1>5, <2>1, <2>2, <2>4, <3>2 DEF Right
  <2> QED
    BY <1>7, <2>3, <2>4 DEF Right
<1>8. ASSUME NEW s \in Subscribers, Recent(s.covered) PROVE ~IsCovered(s, u) /\ RecentNext(Covered(s, u))
  <2>1. ~IsCovered(s, u)
    BY <1>4 DEF IsCovered
  <2>2. Covered(s, u) = {Memory(Sole, 0, [life |-> live'[Sole], seq |-> 0])}
    BY <1>4 DEF Covered
  <2>3. Memory(Sole, 0, [life |-> live'[Sole], seq |-> 0]) = [key |-> Sole, gen |-> 0, seq |-> 0]
    BY DEF Memory
  <2>4. RecentNext(Covered(s, u))
    BY <1>1, <1>2, <2>2, <2>3 DEF RecentNext, Gen
  <2> QED
    BY <2>1, <2>4
<1>9. Moves(u)
  BY <1>1, <1>3, <1>7, <1>8 DEF Moves
<1> QED
  BY <1>9 DEF u

LEMMA WithdrawMoves ==
  ASSUME ProviderTyped, ProviderTyped', SourceInv, Withdraw
  PROVE  Moves(Update("unavailable", Sole, Cold))
<1> DEFINE u == Update("unavailable", Sole, Cold)
<1>1. /\ Sole \in Keys /\ ~Keyed /\ ~stopped /\ stopped' = stopped /\ mode' = mode
      /\ live' = [k \in Keys |-> IF k = Sole THEN 0 ELSE live[k]] /\ lives' = lives
      /\ seq' = [k \in Keys |-> IF k = Sole THEN 0 ELSE seq[k]]
      /\ live \in [Keys -> Nat] /\ lives \in [Keys -> Nat] /\ seq \in [Keys -> Nat]
  BY ServiceAssumption DEF Withdraw, Leave, ProviderTyped, consumer
<1>2. SourceInv'
  BY <1>1 DEF SourceInv, Keyed
<1>3. u.type = "unavailable" /\ u.key = Sole
  BY DEF Update
<1> HIDE DEF u
<1>4. Now' = Clean
  <2>1. \A k \in Keys : live'[k] = 0
    BY <1>1 DEF SourceInv
  <2> QED
    BY <1>1, <2>1 DEF Now, Clean, Gen, Keyed, Value, NoEntry
<1>5. \A k \in Keys : k # Sole => Now[k] = NoEntry
  BY <1>1, NowAt DEF SourceInv
<1>6. ASSUME NEW h, NEW n, Right(h, Now, n, untold) PROVE Legal(h, u) /\ Right(Outcome(h, u), Now', n, untold')
  <2>1. Legal(h, u)
    BY <1>3 DEF Legal
  <2>2. Outcome(h, u) = [h EXCEPT ![Sole] = [gen |-> h[Sole].gen, val |-> Cold]]
    BY <1>3 DEF Outcome
  <2>3. /\ h = [k \in Keys |-> h[k]] /\ h[Sole].gen = 0
        /\ \A k \in Keys : k # Sole => h[k] = NoEntry
    <3>1. CASE h = Now
      BY <1>1, <1>5, <3>1, NowAt DEF Now, Gen
    <3>2. CASE h = Clean
      BY <1>1, <3>2 DEF Clean, NoEntry
    <3> QED
      BY <1>6, <3>1, <3>2 DEF Right
  <2>4. Outcome(h, u) = [k \in Keys |-> IF k = Sole THEN [gen |-> 0, val |-> Cold] ELSE NoEntry]
    BY <1>1, <2>2, <2>3
  <2>5. Outcome(h, u) = Clean
    BY <2>4 DEF Clean, NoEntry
  <2> QED
    BY <1>4, <2>1, <2>5 DEF Right
<1>7. ASSUME NEW s \in Subscribers PROVE ~IsCovered(s, u) /\ RecentNext(Covered(s, u))
  BY <1>3 DEF IsCovered, Covered, RecentNext
<1>8. Moves(u)
  BY <1>1, <1>2, <1>6, <1>7 DEF Moves
<1> QED
  BY <1>8 DEF u

LEMMA SpawnMoves ==
  ASSUME ProviderTyped, ProviderTyped', SourceInv, NEW k \in Keys, SpawnInstance(k)
  PROVE  Moves(Update("spawned", k, [life |-> live'[k], seq |-> 0]))
<1> DEFINE e == [life |-> live'[k], seq |-> 0]
           u == Update("spawned", k, e)
<1>1. /\ Keyed /\ ~stopped /\ stopped' = stopped /\ mode' = mode /\ live[k] = 0
      /\ lives' = [lives EXCEPT ![k] = lives[k] + 1]
      /\ live' = [live EXCEPT ![k] = lives'[k]] /\ seq' = [seq EXCEPT ![k] = 0]
      /\ live \in [Keys -> Nat] /\ lives \in [Keys -> Nat] /\ seq \in [Keys -> Nat]
  BY ServiceAssumption DEF SpawnInstance, Open, ProviderTyped, consumer
<1>2. /\ live'[k] = lives[k] + 1 /\ lives'[k] = lives[k] + 1 /\ seq'[k] = 0
      /\ live'[k] # 0
      /\ \A j \in Keys : j # k => live'[j] = live[j] /\ lives'[j] = lives[j] /\ seq'[j] = seq[j]
  BY <1>1
<1>3. SourceInv'
  BY <1>1, <1>2 DEF SourceInv, Keyed
<1>4. u.type = "spawned" /\ u.key = k /\ u.gen = live'[k] /\ u.val = e
  BY <1>1 DEF Update, Gen
<1>5. Now' = [Now EXCEPT ![k] = [gen |-> live'[k], val |-> e]]
  <2>1. Now' = [Now EXCEPT ![k] = Now'[k]]
    BY <1>1, <1>2, NowElsewhere
  <2>2. Now'[k] = [gen |-> live'[k], val |-> e]
    BY <1>1, <1>2 DEF Now, Gen, Value, Keyed
  <2> QED
    BY <2>1, <2>2
<1> HIDE DEF u, e
<1>6. ASSUME NEW h, NEW n, Right(h, Now, n, untold) PROVE Legal(h, u) /\ Right(Outcome(h, u), Now', n, untold')
  <2>1. h = Now /\ h[k] = NoEntry
    BY <1>1, <1>6, NowAt DEF Right
  <2>2. Legal(h, u)
    BY <1>2, <1>4, <2>1, NoEntryIn DEF Legal
  <2>3. Outcome(h, u) = [h EXCEPT ![k] = [gen |-> live'[k], val |-> e]]
    BY <1>4 DEF Outcome
  <2> QED
    BY <1>5, <2>1, <2>2, <2>3 DEF Right
<1>7. ASSUME NEW s \in Subscribers, Recent(s.covered) PROVE ~IsCovered(s, u) /\ RecentNext(Covered(s, u))
  <2>1. ~IsCovered(s, u)
    BY <1>4 DEF IsCovered
  <2>2. Covered(s, u) \subseteq s.covered \cup {[key |-> k, gen |-> live'[k], seq |-> e.seq]}
    BY <1>4 DEF Covered, Memory
  <2>3. e.seq = 0
    BY DEF e
  <2>4. ASSUME NEW m \in Covered(s, u)
        PROVE  live'[m.key] # 0 /\ m.gen = Gen(live'[m.key]) /\ m.seq <= seq'[m.key]
    <3>1. CASE m \in s.covered
      <4>1. m.key \in Keys /\ m.key # k
        BY <1>1, <1>7, <3>1 DEF Recent, Subscribers, Notes
      <4> QED
        BY <1>2, <1>7, <3>1, <4>1 DEF Recent
    <3>2. CASE m = [key |-> k, gen |-> live'[k], seq |-> 0]
      BY <1>1, <1>2, <3>2 DEF Gen
    <3> QED
      BY <2>2, <2>3, <3>1, <3>2
  <2> QED
    BY <2>1, <2>4 DEF RecentNext
<1>8. Moves(u)
  BY <1>1, <1>3, <1>6, <1>7 DEF Moves
<1> QED
  BY <1>8 DEF u, e

LEMMA CloseMoves ==
  ASSUME ProviderTyped, ProviderTyped', SourceInv, NEW k \in Keys, CloseInstance(k)
  PROVE  Moves(Update("closed", k, Value(k)))
<1> DEFINE u == Update("closed", k, Value(k))
<1>1. /\ Keyed /\ stopped' = stopped /\ mode' = mode /\ live[k] # 0 /\ lives' = lives
      /\ live' = [j \in Keys |-> IF j = k THEN 0 ELSE live[j]]
      /\ seq' = [j \in Keys |-> IF j = k THEN 0 ELSE seq[j]]
  BY DEF CloseInstance, Leave, consumer
<1>2. SourceInv' /\ ~stopped
  BY <1>1 DEF SourceInv, Keyed
<1>3. u.type = "closed" /\ u.key = k /\ u.gen = live[k]
  BY <1>1 DEF Update, Gen, Value
<1> HIDE DEF u
<1>4. Now' = [Now EXCEPT ![k] = NoEntry]
  <2>1. Now' = [Now EXCEPT ![k] = Now'[k]]
    BY <1>1, NowElsewhere
  <2>2. Now'[k] = NoEntry
    BY <1>1 DEF Now, Gen, Value, Keyed, NoEntry
  <2> QED
    BY <2>1, <2>2
<1>5. ASSUME NEW h, NEW n, Right(h, Now, n, untold) PROVE Legal(h, u) /\ Right(Outcome(h, u), Now', n, untold')
  <2>0. Now[k] = [gen |-> live[k], val |-> [life |-> live[k], seq |-> seq[k]]]
    BY <1>1, NowAt DEF Gen
  <2>1. h = Now /\ h[k].gen = live[k]
    BY <1>1, <1>5, <2>0 DEF Right
  <2>2. Legal(h, u)
    BY <1>3, <2>1 DEF Legal
  <2>3. Outcome(h, u) = [h EXCEPT ![k] = NoEntry]
    BY <1>3 DEF Outcome
  <2> QED
    BY <1>4, <2>1, <2>2, <2>3 DEF Right
<1>6. ASSUME NEW s \in Subscribers, Recent(s.covered) PROVE ~IsCovered(s, u) /\ RecentNext(Covered(s, u))
  <2>1. ~IsCovered(s, u)
    BY <1>3 DEF IsCovered
  <2>2. Covered(s, u) = {m \in s.covered : ~(m.key = k /\ m.gen = live[k])}
    BY <1>3 DEF Covered, Remembered
  <2>3. ASSUME NEW m \in Covered(s, u)
        PROVE  live'[m.key] # 0 /\ m.gen = Gen(live'[m.key]) /\ m.seq <= seq'[m.key]
    <3>1. m.key \in Keys /\ m.key # k
      BY <1>1, <1>6, <2>2 DEF Recent, Subscribers, Notes, Gen
    <3> QED
      BY <1>1, <1>6, <2>2, <3>1 DEF Recent
  <2> QED
    BY <2>1, <2>3 DEF RecentNext
<1>7. Moves(u)
  BY <1>1, <1>2, <1>5, <1>6 DEF Moves
<1> QED
  BY <1>7 DEF u

LEMMA ChangeMoves ==
  ASSUME ProviderTyped, ProviderTyped', SourceInv, NEW k \in Keys, Change(k)
  PROVE  Moves(Update("state", k, [life |-> live[k], seq |-> seq'[k]]))
<1> DEFINE e == [life |-> live[k], seq |-> seq'[k]]
           u == Update("state", k, e)
<1>1. /\ k \in Slots /\ stopped' = stopped /\ mode' = mode /\ live[k] # 0 /\ lives' = lives /\ live' = live /\ untold' = untold
      /\ seq' = [seq EXCEPT ![k] = seq[k] + 1] /\ seq \in [Keys -> Nat]
  BY ServiceAssumption DEF Change, ProviderTyped, consumer
<1>2. /\ seq'[k] = seq[k] + 1 /\ seq[k] \in Nat /\ \A j \in Keys : j # k => seq'[j] = seq[j]
  BY <1>1
<1>3. SourceInv' /\ ~stopped
  BY <1>1, <1>2 DEF SourceInv, Keyed
<1>4. /\ u.type = "state" /\ u.key = k /\ u.gen = Gen(live[k]) /\ u.val = e
      /\ e.life = live[k] /\ e.seq = seq[k] + 1
  BY <1>1, <1>2 DEF Update, Gen
<1>5. Now' = [Now EXCEPT ![k] = [gen |-> Gen(live[k]), val |-> e]]
  <2>1. Now' = [Now EXCEPT ![k] = Now'[k]]
    BY <1>1, <1>2, NowElsewhere
  <2>2. Now'[k] = [gen |-> Gen(live[k]), val |-> e]
    BY <1>1, <1>2 DEF Now, Gen, Value, Keyed
  <2> QED
    BY <2>1, <2>2
<1> HIDE DEF u, e
<1>6. ASSUME NEW h, NEW n, Right(h, Now, n, untold) PROVE Legal(h, u) /\ Right(Outcome(h, u), Now', n, untold')
  <2>1. CASE h = Now
    <3>0. Now[k] = [gen |-> Gen(live[k]), val |-> [life |-> live[k], seq |-> seq[k]]]
      BY <1>1, NowAt
    <3>1. /\ h[k].gen = Gen(live[k]) /\ h[k].val = [life |-> live[k], seq |-> seq[k]]
      BY <2>1, <3>0
    <3>2. h[k].val # Cold /\ h[k].val.life = live[k] /\ h[k].val.seq = seq[k]
      BY <1>1, <3>1 DEF Cold
    <3>3. Legal(h, u)
      BY <1>4, <3>1, <3>2 DEF Legal
    <3>4. Outcome(h, u) = [h EXCEPT ![k] = [gen |-> Gen(live[k]), val |-> e]]
      BY <1>4, <3>2 DEF Outcome
    <3> QED
      BY <1>5, <2>1, <3>3, <3>4 DEF Right
  <2>2. CASE ~Keyed /\ n \in untold /\ h = Clean
    <3>1. h[k] = NoEntry /\ h[k].gen = 0 /\ h[k].val = Cold
      BY <2>2, NoEntryIn DEF Clean
    <3>2. Legal(h, u)
      BY <1>4, <2>2, <3>1 DEF Legal, Gen
    <3>3. Outcome(h, u) = [h EXCEPT ![k] = h[k]]
      BY <1>4, <3>1 DEF Outcome
    <3>4. Outcome(h, u) = Clean
      BY <2>2, <3>1, <3>3 DEF Clean
    <3> QED
      BY <1>1, <2>2, <3>2, <3>4 DEF Right
  <2> QED
    BY <1>6, <2>1, <2>2 DEF Right
<1>7. ASSUME NEW s \in Subscribers, Recent(s.covered) PROVE ~IsCovered(s, u) /\ RecentNext(Covered(s, u))
  <2>1. \A m \in s.covered : m \in Notes /\ live[m.key] # 0 /\ m.gen = Gen(live[m.key]) /\ m.seq <= seq[m.key]
    BY <1>7 DEF Recent, Subscribers
  <2>2. ~IsCovered(s, u)
    <3>1. ASSUME NEW m \in Remembered(s, u) PROVE ~(u.val.seq <= m.seq)
      BY <1>2, <1>4, <2>1 DEF Remembered, Notes
    <3> QED
      BY <3>1 DEF IsCovered
  <2>3. Covered(s, u) = {m \in s.covered : ~(m.key = k /\ m.gen = Gen(live[k]))}
    BY <1>4, <2>2 DEF Covered, Remembered
  <2>4. ASSUME NEW m \in Covered(s, u)
        PROVE  live'[m.key] # 0 /\ m.gen = Gen(live'[m.key]) /\ m.seq <= seq'[m.key]
    <3>1. m.key \in Keys /\ m.key # k
      BY <2>1, <2>3 DEF Notes
    <3> QED
      BY <1>1, <1>2, <2>1, <2>3, <3>1
  <2> QED
    BY <2>2, <2>4 DEF RecentNext
<1>8. Moves(u)
  BY <1>1, <1>3, <1>6, <1>7 DEF Moves
<1> QED
  BY <1>8 DEF u, e

(* The farewells of dispose empty a facade that follows.                   *)
LEMMA FarewellPath ==
  ASSUME ProviderTyped, SourceInv, NEW h, NEW m, Right(h, Now, m, untold)
  PROVE  /\ Path(h, Farewells, Clean)
         /\ \A i \in 1..Len(Farewells) : Farewells[i].type # "state"
<1> DEFINE S == {k \in Slots : live[k] # 0}
           n == Cardinality(S)
           q == SetToSeq(S)
<1>1. IsFiniteSet(S) /\ S \subseteq Keys /\ \A k \in S : live[k] # 0
  BY ServiceAssumption, FS_Subset DEF Slots
<1>2. /\ n \in Nat /\ q \in [1..n -> S] /\ \A a, b \in 1..n : q[a] = q[b] => a = b
      /\ \A x \in S : \E a \in 1..n : q[a] = x
  BY <1>1, ListingIs, ListingAll
<1>3. Farewells = [i \in 1..n |-> Farewell(q[i])]
  BY <1>2 DEF Farewells
<1>4. Len(Farewells) = n /\ \A i \in 1..n : Farewells[i] = Farewell(q[i])
  BY <1>2, <1>3
<1>5. h \in Holdings /\ h = [k \in Keys |-> h[k]] /\ \A k \in Keys : k \notin S => h[k] = NoEntry
  <2>1. \A k \in Keys : k \notin S => live[k] = 0
    BY DEF SourceInv, Slots
  <2>2. \A k \in Keys : k \notin S => Now[k] = NoEntry /\ Clean[k] = NoEntry
    BY <2>1, NowAt DEF Clean
  <2>3. h \in Holdings
    BY RightIn
  <2> QED
    BY <2>2, <2>3 DEF Right, Holdings
<1>6. ASSUME NEW k \in S
      PROVE  /\ Farewell(k).key = k
             /\ Keyed => Farewell(k).type = "closed" /\ Farewell(k).gen = h[k].gen
             /\ ~Keyed => Farewell(k).type = "unavailable" /\ h[k].gen = 0
  <2>1. Farewell(k).key = k /\ Farewell(k).type = (IF Keyed THEN "closed" ELSE "unavailable")
    BY DEF Farewell, Update
  <2>2. Farewell(k).gen = Gen(live[k])
    BY <1>1 DEF Farewell, Update, Value
  <2>3. Now[k].gen = Gen(live[k])
    BY <1>1 DEF Now
  <2>4. CASE Keyed
    BY <2>1, <2>2, <2>3, <2>4 DEF Right
  <2>5. CASE ~Keyed
    <3>1. Now[k].gen = 0 /\ Clean[k].gen = 0
      BY <1>1, <2>3, <2>5, NoEntryIn DEF Gen, Clean
    <3> QED
      BY <2>1, <2>5, <3>1 DEF Right
  <2> QED
    BY <2>4, <2>5, <2>1
<1>7. \A i \in 1..Len(Farewells) : Farewells[i].type # "state"
  BY <1>2, <1>4, <1>6
<1> HIDE DEF n, q
<1> DEFINE c == [i \in 0..n |-> [k \in Keys |-> IF \E j \in 1..i : q[j] = k THEN NoEntry ELSE h[k]]]
<1>8. c \in [0..n -> Holdings]
  BY <1>5, NoEntryIn DEF Holdings
<1>9. c[0] = h
  <2>1. 1..0 = {} /\ 0 \in 0..n
    BY <1>2
  <2> QED
    BY <1>5, <2>1
<1>10. c[n] = Clean
  <2>1. n \in 0..n
    BY <1>2
  <2>2. \A k \in Keys : (IF \E j \in 1..n : q[j] = k THEN NoEntry ELSE h[k]) = NoEntry
    BY <1>2, <1>5
  <2> QED
    BY <2>1, <2>2 DEF Clean
<1>11. ASSUME NEW i \in 1..n PROVE After(c[i - 1], Farewells[i], c[i])
  <2> DEFINE k == q[i]
             u == Farewells[i]
             g == c[i - 1]
  <2>1. k \in S /\ k \in Keys /\ u = Farewell(k) /\ i - 1 \in 0..n /\ i \in 0..n
    BY <1>1, <1>2, <1>4
  <2>2. \A j \in 1..(i - 1) : q[j] # k
    BY <1>2
  <2>3. g = [j \in Keys |-> g[j]] /\ g[k] = h[k]
    BY <2>1, <2>2
  <2>4. c[i] = [g EXCEPT ![k] = NoEntry]
    <3>1. ASSUME NEW j \in Keys PROVE c[i][j] = IF j = k THEN NoEntry ELSE g[j]
      <4>1. CASE j = k
        BY <1>2, <2>1, <4>1
      <4>2. CASE j # k
        <5>1. (\E x \in 1..i : q[x] = j) <=> (\E x \in 1..(i - 1) : q[x] = j)
          BY <1>2, <4>2
        <5> QED
          BY <2>1, <4>2, <5>1
      <4> QED
        BY <4>1, <4>2
    <3>2. c[i] = [j \in Keys |-> c[i][j]]
      BY <2>1
    <3> HIDE DEF c
    <3> QED
      BY <2>1, <2>3, <3>1, <3>2
  <2>5. /\ u.key = k /\ (Keyed => u.type = "closed" /\ u.gen = h[k].gen)
        /\ (~Keyed => u.type = "unavailable" /\ h[k].gen = 0)
    BY <1>6, <2>1
  <2> HIDE DEF c, g, u, k
  <2>6. CASE Keyed
    <3>1. Legal(g, u)
      BY <2>3, <2>5, <2>6 DEF Legal
    <3>2. Outcome(g, u) = [g EXCEPT ![k] = NoEntry]
      BY <2>5, <2>6 DEF Outcome
    <3> QED
      BY <2>4, <3>1, <3>2 DEF After, g, u
  <2>7. CASE ~Keyed
    <3>1. Legal(g, u)
      BY <2>5, <2>7 DEF Legal
    <3>2. Outcome(g, u) = [g EXCEPT ![k] = [gen |-> g[k].gen, val |-> Cold]]
      BY <2>5, <2>7 DEF Outcome
    <3>3. [gen |-> g[k].gen, val |-> Cold] = NoEntry
      BY <2>3, <2>5, <2>7 DEF NoEntry
    <3> QED
      BY <2>4, <3>1, <3>2, <3>3 DEF After, g, u
  <2> QED
    BY <2>6, <2>7
<1> HIDE DEF c
<1>12. Path(h, Farewells, Clean)
  BY <1>4, <1>8, <1>9, <1>10, <1>11 DEF Path
<1> QED
  BY <1>7, <1>12

-----------------------------------------------------------------------------
(* Every action keeps the invariant.                                       *)
LEMMA ComingKept ==
  ASSUME mode' = mode, \A t \in tasks' : t.sub # 0 => Coming(subs'[t.sub], Now', t.sub, untold')
  PROVE  ComingInv'
<1>1. Keyed' = Keyed
  BY DEF Keyed
<1>2. ASSUME NEW t \in tasks', t.sub # 0 PROVE Coming(subs[t.sub], Now, t.sub, untold)'
  <2>1. PICK h, g \in Holdings : Says(subs'[t.sub].snapshot, h) /\ Path(h, subs'[t.sub].buffer, g)
                                    /\ Right(g, Now', t.sub, untold')
    BY <1>2 DEF Coming
  <2>2. Says(subs[t.sub].snapshot, h)'
    BY <1>1, <2>1 DEF Says
  <2>3. Right(g, Now, t.sub, untold)'
    BY <1>1, <2>1 DEF Right
  <2>4. Path(h, subs[t.sub].buffer, g)'
    BY <1>1, <2>1 DEF Path, After, Legal
  <2> QED
    BY <2>2, <2>3, <2>4 DEF Coming
<1> QED
  BY <1>2 DEF ComingInv

LEMMA HeldKept ==
  ASSUME mode' = mode, Mild(faults'),
         IF binding'.sub = 0 THEN held' = Clean ELSE Right(held', Now', binding'.sub, untold')
  PROVE  HeldInv'
BY DEF HeldInv, Right, Mild, Keyed

LEMMA EmittedAt ==
  ASSUME SubsTyped, NEW u, subs' = Emitted(subs, u), NEW n \in 1..Len(subs), subs[n].listed, ~subs[n].closed
  PROVE  /\ subs'[n].rev = subs[n].rev /\ subs'[n].snapshot = subs[n].snapshot
         /\ subs'[n].covered = Covered(subs[n], u)
         /\ subs'[n].buffer = IF Wants(subs[n], u) /\ ~subs[n].active
                              THEN Append(subs[n].buffer, u) ELSE subs[n].buffer
<1>1. subs[n] \in Subscribers /\ n \in DOMAIN subs
  BY DEF SubsTyped
<1> DEFINE C == Covered(subs[n], u)
           B == IF Wants(subs[n], u) /\ ~subs[n].active THEN Append(subs[n].buffer, u) ELSE subs[n].buffer
<1>2. subs'[n] = [subs[n] EXCEPT !.covered = C, !.buffer = B]
  BY <1>1 DEF Emitted, Subscribers
<1> HIDE DEF B, C
<1>3. subs'[n].rev = subs[n].rev /\ subs'[n].snapshot = subs[n].snapshot /\ subs'[n].covered = C /\ subs'[n].buffer = B
  BY <1>1, <1>2 DEF Subscribers
<1> QED
  BY <1>3 DEF B, C

LEMMA SyncedStands ==
  ASSUME Synced
  PROVE  Standing /\ BindingTyped /\ ProviderTyped /\ SubsTyped /\ TasksTyped /\ World \in Worlds
         /\ Goods(subs) /\ Mild(World.faults)
BY WorldFields DEF Synced, Standing, Sane, Coherent, Typed, HeldInv

(* What a facade that is connected makes of an update.                     *)
LEMMA EmitHeld ==
  ASSUME Synced, NEW u \in Sent, Emit(u), Moves(u)
  PROVE  /\ binding.sub = 0 => held' = held
         /\ binding.sub # 0 => held' = Outcome(held, u) /\ Right(held, Now, binding.sub, untold)
         /\ Mild(faults')
<1>1. /\ Becomes(Hear(World, u)) /\ ~stopped
      /\ \A h, n : Right(h, Now, n, untold) => Legal(h, u)
      /\ \A s \in Subscribers : Recent(s.covered) => ~IsCovered(s, u)
  BY DEF Emit, Moves
<1>2. /\ Standing /\ SubsTyped /\ World \in Worlds /\ Mild(World.faults)
      /\ World.held = held /\ Mild(faults)
  BY SyncedStands, WorldFields DEF Synced, HeldInv
<1>3. ASSUME NEW n \in 1..Len(subs), subs[n].listed PROVE ~IsCovered(subs[n], u)
  <2>1. subs[n] \in Subscribers /\ Recent(subs[n].covered)
    BY <1>2, <1>3 DEF Synced, CoverInv, Recent, SubsTyped
  <2> QED
    BY <1>1, <2>1
<1>4. Hear(World, u) = IF binding.sub # 0 THEN Deliver(World, binding.rev, u) ELSE World
  BY <1>1, <1>2, <1>3, HearOne
<1>5. CASE binding.sub = 0
  BY <1>1, <1>2, <1>4, <1>5 DEF Becomes
<1>6. CASE binding.sub # 0
  <2> DEFINE g == Outcome(held, u)
  <2>1. Right(held, Now, binding.sub, untold) /\ binding.open
    BY <1>6 DEF Synced, HeldInv, AloneInv
  <2>2. After(World.held, u, g)
    BY <1>1, <1>2, <2>1 DEF After
  <2> HIDE DEF g
  <2>3. Deliver(World, binding.rev, u).held = g /\ Mild(Deliver(World, binding.rev, u).faults)
    BY <1>2, <2>1, <2>2, DeliverAfter
  <2>4. held' = g /\ Mild(faults')
    BY <1>1, <1>4, <1>6, <2>3 DEF Becomes
  <2> QED
    BY <1>6, <2>1, <2>4 DEF g
<1> QED
  BY <1>5, <1>6

LEMMA EmitSynced ==
  ASSUME Synced, Sane', AloneInv', ListedInv', NEW u \in Sent, Emit(u), UNCHANGED consumer, Moves(u)
  PROVE  Synced'
<1>1. /\ mode' = mode /\ binding' = binding /\ tasks' = tasks /\ SourceInv'
      /\ subs' = Emitted(subs, u) /\ Becomes(Hear(World, u)) /\ ~stopped
      /\ \A h, n : Right(h, Now, n, untold) => Legal(h, u) /\ Right(Outcome(h, u), Now', n, untold')
      /\ \A s \in Subscribers : Recent(s.covered) => ~IsCovered(s, u) /\ RecentNext(Covered(s, u))
      /\ ProviderTyped'
  BY DEF Emit, Moves, consumer
<1>2. /\ Standing /\ BindingTyped /\ ProviderTyped /\ SubsTyped /\ World \in Worlds /\ Mild(World.faults)
      /\ Goods(subs)
  BY SyncedStands
<1>3. SameSubs /\ SubsTyped'
  BY <1>1, <1>2, EmittedSubs DEF Sent
<1>4. ASSUME NEW n \in 1..Len(subs), subs[n].listed
      PROVE  /\ ~subs[n].closed /\ ~IsCovered(subs[n], u) /\ RecentNext(Covered(subs[n], u))
  <2>1. subs[n] \in Subscribers /\ Recent(subs[n].covered)
    BY <1>2, <1>4 DEF Synced, CoverInv, Recent, SubsTyped
  <2>2. ~subs[n].closed
    BY <1>4 DEF Synced, ListedInv
  <2> QED
    BY <1>1, <2>1, <2>2
<1>5. /\ Len(subs') = Len(subs)
      /\ \A n \in 1..Len(subs) : subs'[n].listed = subs[n].listed /\ subs'[n].active = subs[n].active
      /\ \A n \in 1..Len(subs) : subs[n].listed =>
            /\ subs'[n].rev = subs[n].rev /\ subs'[n].snapshot = subs[n].snapshot
            /\ subs'[n].covered = Covered(subs[n], u)
            /\ ~subs[n].active => subs'[n].buffer = Append(subs[n].buffer, u)
  BY <1>1, <1>2, <1>3, <1>4, EmittedAt DEF SameSubs, SameStanding, Wants
<1>6. CoverInv'
  <2>1. \A n \in 1..Len(subs) : subs[n].listed => RecentNext(subs'[n].covered)
    BY <1>4, <1>5
  <2> QED
    BY <1>1, <1>5, <2>1 DEF CoverInv, RecentNext, Gen, Keyed
<1>7. OwnerInv'
  BY <1>1, <1>5 DEF Synced, OwnerInv
<1>8. HeldInv'
  <2>1. /\ binding.sub = 0 => held' = held /\ held = Clean
        /\ binding.sub # 0 => held' = Outcome(held, u) /\ Right(held, Now, binding.sub, untold)
        /\ Mild(faults')
    BY EmitHeld DEF Synced, HeldInv
  <2> QED
    BY <1>1, <2>1, HeldKept
<1>9. ComingInv'
  <2>1. ASSUME NEW t \in tasks, t.sub # 0 PROVE Coming(subs'[t.sub], Now', t.sub, untold')
    <3> DEFINE n == t.sub
    <3>1. n \in 1..Len(subs)
      BY <1>2, <2>1 DEF Synced, Sane, Coherent, OwnInv, Typed, TasksTyped, Tasks
    <3>2. subs[n].listed
      BY <1>1, <2>1 DEF Synced, ListedInv
    <3>3. ~subs[n].active
      BY <2>1, <3>1, <3>2 DEF Synced, OwnerInv
    <3>4. PICK h, g \in Holdings : Says(subs[n].snapshot, h) /\ Path(h, subs[n].buffer, g) /\ Right(g, Now, n, untold)
      BY <2>1 DEF Synced, ComingInv, Coming
    <3> DEFINE x == Outcome(g, u)
    <3>5. After(g, u, x) /\ Right(x, Now', n, untold')
      BY <1>1, <3>4 DEF After
    <3>6. x \in Holdings
      <4>1. Now' \in Holdings /\ Clean \in Holdings
        BY <1>1, <1>2, NowIn, NowNext
      <4> QED
        BY <3>5, <4>1 DEF Right
    <3> HIDE DEF x, n
    <3>7. subs[n].buffer \in Seq(Sent)
      BY <1>2, <3>1 DEF Goods, SubGood
    <3>8. Path(h, Append(subs[n].buffer, u), x)
      BY <3>4, <3>5, <3>6, <3>7, PathAppend
    <3>9. subs'[n].snapshot = subs[n].snapshot /\ subs'[n].buffer = Append(subs[n].buffer, u)
      BY <1>5, <3>1, <3>2, <3>3
    <3>10. Coming(subs'[n], Now', n, untold')
      BY <3>4, <3>5, <3>6, <3>8, <3>9 DEF Coming
    <3> QED
      BY <3>10 DEF n
  <2> QED
    BY <1>1, <2>1, ComingKept
<1> QED
  BY <1>1, <1>6, <1>7, <1>8, <1>9 DEF Synced

(* A singleton is provided; its subscribers are not told.                  *)
LEMMA ProvideSynced ==
  ASSUME Synced, Sane', AloneInv', ListedInv', Provide
  PROVE  Synced'
<1>1. ProviderTyped /\ SubsTyped
  BY SyncedStands
<1>2. /\ Sole \in Keys /\ ~Keyed /\ ~stopped /\ stopped' = stopped /\ mode' = mode /\ live[Sole] = 0
      /\ lives' = [lives EXCEPT ![Sole] = lives[Sole] + 1]
      /\ live' = [live EXCEPT ![Sole] = lives'[Sole]] /\ seq' = [seq EXCEPT ![Sole] = 0]
      /\ live \in [Keys -> Nat] /\ lives \in [Keys -> Nat] /\ seq \in [Keys -> Nat]
      /\ UNCHANGED <<subs, held, faults, binding, tasks>>
  BY <1>1, ServiceAssumption DEF Provide, Open, ProviderTyped, consumer
<1>3. SourceInv'
  <2>1. /\ live'[Sole] = lives[Sole] + 1 /\ lives'[Sole] = lives[Sole] + 1 /\ live'[Sole] # 0
        /\ \A j \in Keys : j # Sole => live'[j] = live[j] /\ lives'[j] = lives[j] /\ seq'[j] = seq[j]
    BY <1>2
  <2> QED
    BY <1>2, <2>1 DEF Synced, SourceInv, Keyed
<1>4. \A k \in Keys : live[k] = 0
  BY <1>2 DEF Synced, SourceInv
<1>5. Now = Clean
  BY <1>4, NowAt DEF Now, Clean
<1>6. \A h, n : n \in 1..Len(subs) /\ subs[n].listed /\ Right(h, Now, n, untold) => Right(h, Now', n, untold')
  <2>1. \A n \in 1..Len(subs) : subs[n].listed => n \in untold'
    BY <1>1 DEF Provide, SubsTyped
  <2> QED
    BY <1>2, <1>5, <2>1 DEF Right
<1>7. CoverInv'
  <2>1. ASSUME NEW n \in 1..Len(subs), subs[n].listed PROVE subs[n].covered = {}
    <3>0. subs[n] \in Subscribers
      BY <1>1 DEF SubsTyped
    <3>1. subs[n].covered \subseteq Notes
      BY <3>0 DEF Subscribers
    <3>2. \A m \in subs[n].covered : m.key \in Keys /\ live[m.key] # 0
      BY <2>1, <3>1 DEF Synced, CoverInv, Notes
    <3> QED
      BY <1>4, <3>2
  <2> QED
    BY <1>2, <2>1 DEF CoverInv
<1>8. OwnerInv'
  BY <1>2 DEF Synced, OwnerInv
<1>9. HeldInv'
  <2>1. binding.sub # 0 => binding.sub \in 1..Len(subs) /\ subs[binding.sub].listed
    BY <1>1, <1>2 DEF Synced, ListedInv, Sane, Coherent, OwnInv, Typed, BindingTyped, SubsTyped
  <2> QED
    BY <1>2, <1>6, <2>1, HeldKept DEF Synced, HeldInv
<1>10. ComingInv'
  <2>1. ASSUME NEW t \in tasks, t.sub # 0 PROVE Coming(subs[t.sub], Now', t.sub, untold')
    <3>1. t.sub \in 1..Len(subs) /\ subs[t.sub].listed
      BY <1>1, <1>2, <2>1 DEF Synced, ListedInv, Sane, Coherent, OwnInv, Typed, TasksTyped, Tasks, SubsTyped
    <3> QED
      BY <1>6, <2>1, <3>1 DEF Synced, ComingInv, Coming
  <2> QED
    BY <1>2, <2>1, ComingKept
<1> QED
  BY <1>3, <1>7, <1>8, <1>9, <1>10 DEF Synced

(* The provider is disposed.                                               *)
LEMMA DisposeSynced ==
  ASSUME Synced, Sane', AloneInv', ListedInv', Dispose
  PROVE  Synced'
<1>1. /\ Standing /\ ProviderTyped /\ SubsTyped /\ World \in Worlds /\ Mild(World.faults) /\ Goods(subs)
  BY SyncedStands
<1>2. /\ ~stopped /\ stopped' = TRUE /\ mode' = mode /\ binding' = binding /\ tasks' = tasks
      /\ Becomes(FoldLeft(Hear, World, Farewells))
      /\ live' = [k \in Keys |-> 0] /\ seq' = [k \in Keys |-> 0] /\ lives' = lives
  BY DEF Dispose, Leave, consumer
<1>3. SourceInv'
  BY <1>2 DEF SourceInv
<1>4. Now' = Clean
  BY <1>2 DEF Now, Clean, Gen, Value, NoEntry
<1>5. /\ Len(subs') = Len(subs) /\ \A n \in 1..Len(subs) : ~subs'[n].listed
  <2>1. /\ Len(subs') = Len(subs)
        /\ \A n \in 1..Len(subs) : subs'[n].listed => subs[n].listed /\ subs[n].closed
    BY DisposeEffect DEF Synced, Sane, Coherent
  <2> QED
    BY <2>1 DEF Synced, ListedInv
<1>6. CoverInv' /\ OwnerInv'
  BY <1>5 DEF CoverInv, OwnerInv
<1>7. Farewells \in Seq(Sent)
  BY <1>1, FarewellsSent
<1>8. SourceInv
  BY DEF Synced
<1>9. HeldInv'
  <2> DEFINE w == FoldLeft(Hear, World, Farewells)
  <2>1. binding.sub # 0 => Path(World.held, Farewells, Clean)
    BY <1>1, <1>8, FarewellPath, WorldFields DEF Synced, HeldInv
  <2>2. \A i \in 1..Len(Farewells) : Farewells[i].type # "state"
    <3>1. Right(Now, Now, 0, untold)
      BY DEF Right
    <3> DEFINE h == Now
    <3>2. Right(h, Now, 0, untold)
      BY <3>1
    <3> HIDE DEF h
    <3> QED
      BY <1>1, <1>8, <3>2, FarewellPath
  <2>3. (binding.sub # 0 => w.held = Clean) /\ (binding.sub = 0 => w.held = World.held) /\ Mild(w.faults)
    BY <1>1, <1>2, <1>7, <2>1, <2>2, HearPath
  <2>4. held' = w.held /\ faults' = w.faults
    BY <1>2 DEF Becomes
  <2> HIDE DEF w
  <2>5. binding.sub = 0 => World.held = Clean
    BY WorldFields DEF Synced, HeldInv
  <2>6. held' = Clean /\ Mild(faults')
    BY <2>3, <2>4, <2>5
  <2> QED
    BY <1>2, <1>4, <2>6, HeldKept DEF Right
<1>10. ComingInv'
  <2>1. ASSUME NEW t \in tasks, t.sub # 0 PROVE Coming(subs'[t.sub], Now', t.sub, untold')
    <3> DEFINE n == t.sub
               s == subs[n]
    <3>1. n \in 1..Len(subs)
      BY <1>1, <2>1 DEF Synced, Sane, Coherent, OwnInv, Typed, TasksTyped, Tasks
    <3>2. s.listed /\ ~s.closed
      BY <1>2, <2>1, <3>1 DEF Synced, ListedInv
    <3>3. ~s.active /\ s \in Subscribers
      BY <1>1, <2>1, <3>1, <3>2 DEF Synced, OwnerInv, SubsTyped
    <3>4. PICK h, g \in Holdings : Says(s.snapshot, h) /\ Path(h, s.buffer, g) /\ Right(g, Now, n, untold)
      BY <2>1 DEF Synced, ComingInv, Coming
    <3>5. Path(g, Farewells, Clean)
      BY <1>1, <1>8, <3>4, FarewellPath
    <3>6. s.buffer \in Seq(Sent)
      BY <1>1, <3>1 DEF Goods, SubGood
    <3>7. subs'[n] = Ended(s)
      BY <1>1, <3>1 DEF Dispose, SubsTyped
    <3> HIDE DEF s, n
    <3> DEFINE B == s.buffer \o Farewells
    <3>8. Path(h, B, Clean)
      BY <1>7, <3>4, <3>5, <3>6, PathJoin
    <3>9. Ended(s) = [s EXCEPT !.terminated = TRUE, !.listed = FALSE, !.covered = {}, !.buffer = B]
      BY <3>2, <3>3 DEF Ended, Subscribers
    <3> HIDE DEF B
    <3>10. Ended(s).snapshot = s.snapshot /\ Ended(s).buffer = B
      BY <3>3, <3>9 DEF Subscribers
    <3>11. Clean \in Holdings /\ Right(Clean, Now', n, untold')
      BY <1>1, <1>4, NowIn DEF Right
    <3>12. Coming(subs'[n], Now', n, untold')
      BY <3>4, <3>7, <3>8, <3>10, <3>11 DEF Coming
    <3> QED
      BY <3>12 DEF n
  <2> QED
    BY <1>2, <2>1, ComingKept
<1> QED
  BY <1>3, <1>6, <1>9, <1>10 DEF Synced


(* Steps of the consumer that close subscriptions or none, and leave the   *)
(* others alone.                                                           *)
Kept == SourceInv /\ CoverInv /\ OwnerInv /\ HeldInv /\ ComingInv

LEMMA NowSame ==
  ASSUME mode' = mode, UNCHANGED provider
  PROVE  Now' = Now
BY DEF Now, Gen, Value, Keyed, provider

LEMMA SourceSame ==
  ASSUME mode' = mode, UNCHANGED provider, SourceInv
  PROVE  SourceInv'
BY DEF SourceInv, Keyed, provider

LEMMA KeepSynced ==
  ASSUME Synced, mode' = mode, UNCHANGED provider, faults' = faults, Len(subs') = Len(subs),
         \A n \in 1..Len(subs) : subs'[n].listed => subs'[n] = subs[n],
         \A t \in tasks' : t.sub # 0 => t \in tasks /\ subs'[t.sub] = subs[t.sub],
         binding'.sub = 0 => held' = Clean,
         binding'.sub # 0 => binding'.sub = binding.sub /\ binding'.rev = binding.rev /\ held' = held
  PROVE  Kept'
<1>1. Now' = Now /\ SourceInv'
  BY NowSame, SourceSame DEF Synced
<1>2. CoverInv'
  BY DEF Synced, CoverInv, provider, Gen, Keyed
<1>3. OwnerInv'
  <2>1. ASSUME NEW n \in 1..Len(subs), subs'[n].listed
        PROVE  /\ n = binding'.sub => subs'[n].rev = binding'.rev
               /\ \A t \in tasks' : t.sub = n => subs'[n].rev = t.rev /\ ~subs'[n].active
    <3>1. n # 0 /\ subs'[n] = subs[n] /\ subs[n].listed
      BY <2>1
    <3> QED
      BY <3>1 DEF Synced, OwnerInv
  <2> QED
    BY <2>1 DEF OwnerInv
<1>4. HeldInv'
  BY <1>1, HeldKept DEF provider, Synced, HeldInv
<1>5. ComingInv'
  BY <1>1, ComingKept DEF provider, Synced, ComingInv
<1> QED
  BY <1>1, <1>2, <1>3, <1>4, <1>5 DEF Kept

(* A snapshot says what the provider has.                                  *)
LEMMA SaysNow ==
  ASSUME ProviderTyped, SourceInv, NEW rev
  PROVE  Says(Subscriber(rev).snapshot, Now)
<1> DEFINE S == {k \in Slots : live[k] # 0}
           T == {Update("spawned", k, Value(k)) : k \in S}
<1>1. Subscriber(rev).snapshot = T
  BY DEF Subscriber
<1>2. ASSUME NEW k \in S
      PROVE  LET u == Update("spawned", k, Value(k)) IN
             /\ u.key = k /\ Now[u.key] = [gen |-> u.gen, val |-> u.val]
             /\ u.type = "spawned" /\ (Keyed <=> u.gen # 0)
  <2>1. k \in Keys /\ live[k] # 0 /\ Value(k).life = live[k]
    BY ServiceAssumption DEF Slots, Value
  <2>2. Gen(live[k]) = IF Keyed THEN live[k] ELSE 0
    BY DEF Gen
  <2>3. Now[k] = [gen |-> Gen(live[k]), val |-> Value(k)]
    BY <2>1, NowAt
  <2> QED
    BY <2>1, <2>2, <2>3 DEF Update
<1>3. ASSUME NEW k \in Keys, \A u \in T : u.key # k
      PROVE  Now[k] = NoEntry
  <2>1. k \notin S
    BY <1>2, <1>3
  <2>2. live[k] = 0
    BY <2>1 DEF SourceInv, Slots
  <2> QED
    BY <2>2, NowAt
<1>4. \A u, v \in T : u.key = v.key => u = v
  <2>1. ASSUME NEW u \in T
        PROVE  u.key \in S /\ u = Update("spawned", u.key, Value(u.key))
    <3>1. PICK k \in S : u = Update("spawned", k, Value(k))
      OBVIOUS
    <3>2. u.key = k
      BY <3>1 DEF Update
    <3> QED
      BY <3>1, <3>2
  <2> QED
    BY <2>1
<1>5. \A u \in T : Now[u.key] = [gen |-> u.gen, val |-> u.val] /\ u.type = "spawned" /\ (Keyed <=> u.gen # 0)
  BY <1>2
<1> HIDE DEF T, S
<1> QED
  BY <1>1, <1>3, <1>4, <1>5 DEF Says

(* transport.subscribe in a start.                                         *)
LEMMA StartSynced ==
  ASSUME Synced, NEW rev \in Nat, NEW others, others \subseteq tasks, Start(rev, others),
         mode' = mode, UNCHANGED <<live, lives, seq, stopped, untold, held, faults>>,
         binding'.sub = binding.sub, binding'.rev = binding.rev
  PROVE  Kept'
<1>1. /\ BindingTyped /\ ProviderTyped /\ SubsTyped /\ TasksTyped /\ SourceInv /\ UNCHANGED provider
      /\ binding.sub = 0 => held = Clean
  BY SyncedStands DEF Synced, provider, HeldInv
<1>2. CASE ~CanSubscribe
  <2>1. subs' = subs /\ \A t \in tasks' : t.sub # 0 => t \in tasks
    BY <1>2 DEF Start
  <2> QED
    BY <1>1, <2>1, KeepSynced
<1>3. CASE CanSubscribe
  <2> DEFINE N == Len(subs)
             s == Subscriber(rev)
             new == [rev |-> rev, stage |-> "subscribing", bound |-> TRUE, sub |-> N + 1]
  <2>1. subs' = Append(subs, s) /\ tasks' = others \cup {new} /\ s \in Subscribers
    BY <1>1, <1>3, NewSub DEF Start
  <2>2. s.rev = rev /\ ~s.active /\ s.buffer = <<>>
    BY DEF Subscriber
  <2>3. ASSUME NEW m \in s.covered
        PROVE  live[m.key] # 0 /\ m.gen = Gen(live[m.key]) /\ m.seq <= seq[m.key]
    <3>1. PICK k \in Slots : live[k] # 0 /\ m = Memory(k, Gen(live[k]), Value(k))
      BY <2>3 DEF Subscriber
    <3>2. k \in Keys /\ seq[k] \in Nat /\ Value(k).seq = seq[k]
      BY <1>1, <3>1, ServiceAssumption DEF Slots, Value, ProviderTyped
    <3>3. m.key = k /\ m.gen = Gen(live[k]) /\ m.seq = seq[k]
      BY <3>1, <3>2 DEF Memory
    <3> QED
      BY <3>1, <3>2, <3>3
  <2>4. Says(s.snapshot, Now)
    BY <1>1, SaysNow
  <2> HIDE DEF s
  <2>5. /\ N \in Nat /\ Len(subs') = N + 1 /\ subs'[N + 1] = s
        /\ \A i \in 1..N : subs'[i] = subs[i]
    BY <1>1, <2>1 DEF SubsTyped
  <2>6. /\ new.rev = rev /\ new.sub = N + 1
        /\ binding.sub \in 0..N /\ \A t \in tasks : t.sub \in 0..N
    BY <1>1, <2>5 DEF Synced, Sane, Coherent, OwnInv, BindingTyped, TasksTyped, Tasks
  <2> HIDE DEF N, new
  <2>7. Now' = Now /\ SourceInv'
    BY <1>1, NowSame, SourceSame
  <2>8. CoverInv'
    <3>1. ASSUME NEW n \in 1..(N + 1), subs'[n].listed, NEW m \in subs'[n].covered
          PROVE  live[m.key] # 0 /\ m.gen = Gen(live[m.key]) /\ m.seq <= seq[m.key]
      <4>1. CASE n = N + 1
        BY <2>3, <2>5, <3>1, <4>1
      <4>2. CASE n # N + 1
        <5>1. n \in 1..N
          BY <2>5, <4>2
        <5> QED
          BY <2>5, <3>1, <5>1 DEF Synced, CoverInv, N
      <4> QED
        BY <4>1, <4>2
    <3> QED
      BY <2>5, <3>1 DEF CoverInv, Gen, Keyed
  <2>9. OwnerInv'
    <3>1. ASSUME NEW n \in 1..(N + 1), subs'[n].listed
          PROVE  /\ n = binding.sub => subs'[n].rev = binding.rev
                 /\ \A t \in tasks' : t.sub = n => subs'[n].rev = t.rev /\ ~subs'[n].active
      <4>1. CASE n = N + 1
        BY <2>1, <2>2, <2>5, <2>6, <4>1
      <4>2. CASE n # N + 1
        <5>1. n \in 1..N
          BY <2>5, <4>2
        <5>2. \A t \in tasks' : t.sub = n => t \in tasks
          BY <2>1, <2>6, <4>2
        <5> QED
          BY <2>5, <3>1, <5>1, <5>2 DEF Synced, OwnerInv, N
      <4> QED
        BY <4>1, <4>2
    <3> QED
      BY <2>5, <3>1 DEF OwnerInv
  <2>10. HeldInv'
    BY <1>1, <2>7, HeldKept DEF provider, Synced, HeldInv
  <2>11. ComingInv'
    <3>1. ASSUME NEW t \in tasks', t.sub # 0 PROVE Coming(subs'[t.sub], Now, t.sub, untold)
      <4>1. CASE t \in tasks
        <5>1. t.sub \in 1..N
          BY <2>6, <3>1, <4>1
        <5> QED
          BY <2>5, <3>1, <4>1, <5>1 DEF Synced, ComingInv
      <4>2. CASE t = new
        <5>1. Now \in Holdings /\ Path(Now, <<>>, Now) /\ Right(Now, Now, new.sub, untold)
          BY <1>1, NowIn, PathEmpty DEF Right
        <5>2. Coming(s, Now, new.sub, untold)
          BY <2>2, <2>4, <5>1 DEF Coming
        <5> QED
          BY <2>5, <2>6, <4>2, <5>2
      <4> QED
        BY <2>1, <4>1, <4>2
    <3> QED
      BY <1>1, <2>7, <3>1, ComingKept DEF provider
  <2> QED
    BY <2>7, <2>8, <2>9, <2>10, <2>11 DEF Kept
<1> QED
  BY <1>2, <1>3

(* A start that is not late: its snapshot finds an empty facade, and what  *)
(* was buffered leads to what the provider has.                            *)
LEMMA CaughtUp ==
  ASSUME Synced, NEW t \in tasks, t.sub # 0, Latest(t)
  PROVE  /\ Installed(t).faults = {} /\ Mild(Caught(t).faults)
         /\ Right(Caught(t).held, Now, t.sub, untold)
<1> DEFINE w == [World EXCEPT !.faults = {}]
           S == subs[t.sub].snapshot
           b == subs[t.sub].buffer
           v == Installed(t)
<1>1. binding.open /\ binding.rev = t.rev /\ binding.sub = 0 /\ held = Clean
  BY DEF Latest, Synced, AloneInv, HeldInv
<1>2. BindingTyped /\ DirectoryInv /\ Sane
  BY SyncedStands DEF Synced, Sane
<1>3. w \in Worlds /\ v \in Worlds /\ SetToSeq(S) \in Seq(Sent) /\ b \in Seq(Sent)
  BY <1>2, InstalledWorld
<1>4. w.held = Clean /\ w.faults = {}
  BY <1>1 DEF World
<1>5. S \subseteq Sent /\ IsFiniteSet(S)
  <2>1. t.sub \in 1..Len(subs)
    BY DEF Synced, Sane, Coherent, OwnInv, Typed, TasksTyped, Tasks, SubsTyped
  <2> QED
    BY <2>1 DEF Synced, Sane, Goods, SubGood
<1>6. PICK h, g \in Holdings : Says(S, h) /\ Path(h, b, g) /\ Right(g, Now, t.sub, untold)
  BY DEF Synced, ComingInv, Coming
<1>7. v = FoldLeft(Install, w, SetToSeq(S))
  BY DEF Installed
<1>8. Caught(t) = CatchUp(v, binding.rev, b)
  BY <1>1 DEF Caught, CatchUp
<1> HIDE DEF w, S, b, v
<1>9. v.held = h /\ v.faults = {}
  BY <1>2, <1>3, <1>4, <1>5, <1>6, <1>7, InstallSays
<1>11. Mild(v.faults)
  BY <1>9 DEF Mild
<1>10. CatchUp(v, binding.rev, b).held = g /\ Mild(CatchUp(v, binding.rev, b).faults)
  BY <1>1, <1>2, <1>3, <1>6, <1>9, <1>11, CatchUpPath
<1> QED
  BY <1>6, <1>8, <1>9, <1>10 DEF v

LEMMA SubscribedSynced ==
  ASSUME Synced, NEW t \in tasks, Subscribed(t)
  PROVE  Kept'
<1>1. /\ t.sub # 0 /\ Latest(t) /\ tasks' = tasks \ {t}
      /\ mode' = mode /\ UNCHANGED <<bound, disposed, revision, provider>>
  BY DEF Subscribed
<1>2. Installed(t).faults = {} /\ Mild(Caught(t).faults) /\ Right(Caught(t).held, Now, t.sub, untold)
  BY <1>1, CaughtUp
<1>3. Activates(t)
  BY <1>2 DEF Subscribed
<1>4. Typed /\ OwnInv /\ Mild(faults) /\ binding.rev = t.rev
  BY <1>1 DEF Synced, Sane, Coherent, HeldInv, Latest
<1>5. /\ binding'.rev = binding.rev /\ binding'.sub = t.sub
      /\ Len(subs') = Len(subs) /\ Len(subs) \in Nat
      /\ \A n \in 1..Len(subs) : n # t.sub => subs'[n] = subs[n]
      /\ subs'[t.sub].listed = subs[t.sub].listed
  BY <1>1, <1>3, <1>4, ActivatesEffect DEF BindingIs, Typed, SubsTyped
<1>6. t.sub \in 1..Len(subs) /\ subs[t.sub] \in Subscribers
  BY <1>1, <1>4 DEF OwnInv, Typed, TasksTyped, Tasks, SubsTyped
<1>7. subs'[t.sub].covered = subs[t.sub].covered /\ subs'[t.sub].rev = subs[t.sub].rev
  <2> DEFINE s == subs[t.sub]
  <2>1. subs'[t.sub] = Activate(s) /\ s \in Subscribers
    BY <1>3, <1>4, <1>6 DEF Activates, Typed, SubsTyped
  <2> HIDE DEF s
  <2>2. Activate(s).covered = s.covered /\ Activate(s).rev = s.rev
    BY <2>1 DEF Activate, Subscribers
  <2> QED
    BY <2>1, <2>2 DEF s
<1>8. \A v \in tasks' : v \in tasks /\ (v.sub # 0 => v.sub # t.sub)
  BY <1>1, <1>4 DEF OwnInv
<1>9. Now' = Now /\ SourceInv'
  BY <1>1, NowSame, SourceSame DEF Synced
<1>10. \A n \in 1..Len(subs) : /\ subs'[n].listed = subs[n].listed
                               /\ subs'[n].covered = subs[n].covered /\ subs'[n].rev = subs[n].rev
  BY <1>5, <1>7
<1>11. CoverInv'
  BY <1>1, <1>5, <1>10 DEF Synced, CoverInv, provider, Gen, Keyed
<1>12. OwnerInv'
  <2>1. ASSUME NEW n \in 1..Len(subs), subs'[n].listed
        PROVE  /\ n = t.sub => subs'[n].rev = binding.rev
               /\ \A v \in tasks' : v.sub = n => subs'[n].rev = v.rev /\ ~subs'[n].active
    <3>1. subs[n].listed /\ n # 0
      BY <1>10, <2>1
    <3> QED
      BY <1>4, <1>5, <1>8, <1>10, <3>1 DEF Synced, OwnerInv
  <2> QED
    BY <1>5, <2>1 DEF OwnerInv
<1>13. HeldInv'
  <2>1. held' = Caught(t).held /\ Mild(faults')
    BY <1>2, <1>3, <1>4 DEF Activates, Mild
  <2> QED
    BY <1>1, <1>2, <1>5, <1>9, <2>1, HeldKept DEF provider
<1>14. ComingInv'
  <2>1. ASSUME NEW v \in tasks', v.sub # 0 PROVE Coming(subs'[v.sub], Now, v.sub, untold)
    <3>1. v \in tasks /\ v.sub # t.sub /\ v.sub \in 1..Len(subs)
      BY <1>4, <1>8, <2>1 DEF OwnInv, Typed, TasksTyped, Tasks, SubsTyped
    <3> QED
      BY <1>5, <2>1, <3>1 DEF Synced, ComingInv
  <2> QED
    BY <1>1, <1>9, <2>1, ComingKept DEF provider
<1> QED
  BY <1>9, <1>11, <1>12, <1>13, <1>14 DEF Kept

(* The other steps of the consumer.                                        *)
LEMMA QuietSynced ==
  ASSUME Synced, mode' = mode, UNCHANGED <<live, lives, seq, stopped, untold, held, faults, subs>>,
         binding'.sub = binding.sub, binding'.rev = binding.rev,
         \A t \in tasks' : t.sub # 0 => t \in tasks
  PROVE  Kept'
<1>1. binding.sub = 0 => held = Clean
  BY DEF Synced, HeldInv
<1> QED
  BY <1>1, KeepSynced DEF provider

LEMMA ClosesSynced ==
  ASSUME Synced, CloseBinding, faults' = faults, mode' = mode, tasks' = tasks, UNCHANGED provider
  PROVE  Kept'
<1>1. Typed /\ OwnInv
  BY DEF Synced, Sane, Coherent
<1>2. /\ binding'.sub = 0 /\ Len(subs') = Len(subs)
      /\ \A n \in 1..Len(subs) : n # binding.sub => subs'[n] = subs[n]
      /\ binding.sub # 0 => ~subs'[binding.sub].listed
  BY <1>1, CloseBindingEffect DEF Closes, BindingIs
<1>3. held' = Clean
  BY DEF CloseBinding, Reset, Clean
<1>4. \A t \in tasks : t.sub # 0 => t.sub \in 1..Len(subs) /\ t.sub # binding.sub
  BY <1>1 DEF OwnInv, Typed, TasksTyped, Tasks, SubsTyped
<1>5. \A n \in 1..Len(subs) : subs'[n].listed => subs'[n] = subs[n]
  BY <1>2
<1> QED
  BY <1>2, <1>3, <1>4, <1>5, KeepSynced

LEMMA StopObservingSynced ==
  ASSUME Synced, NEW o \in Observers, StopObserving(o)
  PROVE  Kept'
<1>1. CASE binding.observers = {o}
  BY <1>1, ClosesSynced DEF StopObserving
<1>2. CASE binding.observers # {o}
  <2>1. binding'.sub = binding.sub /\ binding'.rev = binding.rev
    BY <1>2 DEF StopObserving, Synced, Sane, Coherent, Typed, BindingTyped
  <2> QED
    BY <1>2, <2>1, QuietSynced DEF StopObserving, provider
<1> QED
  BY <1>1, <1>2

LEMMA UseSynced ==
  ASSUME Synced, Use
  PROVE  Kept'
<1>1. binding'.sub = binding.sub /\ binding'.rev = binding.rev /\ binding.rev \in Nat
  BY DEF Use, Synced, Sane, Coherent, Typed, BindingTyped
<1>2. CASE bound
  BY <1>1, <1>2, StartSynced DEF Use, provider
<1>3. CASE ~bound
  BY <1>1, <1>3, QuietSynced DEF Use, provider
<1> QED
  BY <1>2, <1>3

LEMMA ObserveSynced ==
  ASSUME Synced, NEW o \in Observers, Observe(o)
  PROVE  Kept'
<1>1. binding'.sub = binding.sub /\ binding'.rev = binding.rev /\ binding.rev \in Nat
  BY DEF Observe, Synced, Sane, Coherent, Typed, BindingTyped
<1>2. CASE bound /\ ~binding.starting
  BY <1>1, <1>2, StartSynced DEF Observe, provider
<1>3. CASE ~(bound /\ ~binding.starting)
  BY <1>1, <1>3, QuietSynced DEF Observe, provider
<1> QED
  BY <1>2, <1>3

LEMMA RebindSynced ==
  ASSUME Synced, NEW to \in BOOLEAN, Rebind(to)
  PROVE  Kept'
<1>1. Typed /\ OwnInv
  BY DEF Synced, Sane, Coherent
<1>2. CASE ~binding.open
  BY <1>2, QuietSynced DEF Rebind, provider
<1>3. CASE binding.open
  <2>1. /\ binding'.sub = 0 /\ Len(subs') = Len(subs)
        /\ \A n \in 1..Len(subs) : n # binding.sub => subs'[n] = subs[n]
        /\ binding.sub # 0 => ~subs'[binding.sub].listed
    BY <1>1, <1>3, RebindEffect DEF BindingIs
  <2>2. held' = Clean /\ \A t \in tasks' : t.sub # 0 => t \in tasks
    BY <1>3 DEF Rebind, Reset, Clean
  <2>3. \A t \in tasks : t.sub # 0 => t.sub \in 1..Len(subs) /\ t.sub # binding.sub
    BY <1>1 DEF OwnInv, Typed, TasksTyped, Tasks, SubsTyped
  <2>4. \A n \in 1..Len(subs) : subs'[n].listed => subs'[n] = subs[n]
    BY <2>1
  <2>5. \A t \in tasks' : t.sub # 0 => t \in tasks /\ subs'[t.sub] = subs[t.sub]
    BY <2>1, <2>2, <2>3
  <2> QED
    BY <2>1, <2>2, <2>4, <2>5, KeepSynced DEF Rebind
<1> QED
  BY <1>2, <1>3

LEMMA RestartSynced ==
  ASSUME Synced, NEW t \in tasks, Restart(t)
  PROVE  Kept'
<1>1. binding'.sub = binding.sub /\ binding'.rev = binding.rev /\ t.rev \in Nat
  BY DEF Restart, Synced, Sane, Coherent, Typed, BindingTyped, TasksTyped, Tasks
<1> DEFINE starts == t.bound /\ (Keyed => Latest(t) /\ binding.observers # {})
<1>2. CASE starts
  BY <1>1, <1>2, StartSynced DEF Restart, provider
<1>3. CASE ~starts
  BY <1>1, <1>3, QuietSynced DEF Restart, provider
<1> QED
  BY <1>2, <1>3

LEMMA LateSynced ==
  ASSUME Synced, NEW t \in tasks, Late(t)
  PROVE  Kept'
<1>1. Typed /\ OwnInv /\ (binding.sub = 0 => held = Clean)
  BY DEF Synced, Sane, Coherent, HeldInv
<1>2. /\ t.sub # 0 /\ Len(subs') = Len(subs) /\ tasks' = tasks \ {t}
      /\ \A n \in 1..Len(subs) : n # t.sub => subs'[n] = subs[n]
      /\ ~subs'[t.sub].listed
  BY <1>1, LateEffect
<1>3. \A v \in tasks' : v.sub # 0 => v \in tasks /\ v.sub # t.sub /\ v.sub \in 1..Len(subs)
  BY <1>1, <1>2 DEF OwnInv, Typed, TasksTyped, Tasks, SubsTyped
<1>4. \A n \in 1..Len(subs) : subs'[n].listed => subs'[n] = subs[n]
  BY <1>2
<1> QED
  BY <1>1, <1>2, <1>3, <1>4, KeepSynced DEF Late

LEMMA RefusedSynced ==
  ASSUME Synced, NEW t \in tasks, Refused(t)
  PROVE  Kept'
<1>1. binding'.sub = binding.sub /\ binding'.rev = binding.rev
  BY DEF Refused, Fails, Synced, Sane, Coherent, Typed, BindingTyped
<1> QED
  BY <1>1, QuietSynced DEF Refused, provider

LEMMA SyncedStep ==
  ASSUME Synced, ~ObserveWhileRebinding, [Next]_vars
  PROVE  Synced'
<1>1. Sane' /\ Single /\ Typed /\ ProviderTyped /\ SourceInv
  BY SaneStep DEF Synced, Sane, Single, Coherent, Typed
<1>2. Single'
  <2>1. \A t \in tasks : Subscribed(t) => Installed(t).faults = {}
    BY CaughtUp DEF Subscribed
  <2> QED
    BY <1>1, <2>1, SingleStep
<1>3. AloneInv' /\ ListedInv' /\ ProviderTyped'
  BY <1>1, <1>2 DEF Single, Sane, Coherent, Typed
<1>4. Kept' => Synced'
  BY <1>1, <1>3 DEF Kept, Synced
<1>5. CASE Provide
  BY <1>1, <1>3, <1>5, ProvideSynced
<1>6. CASE Replace
  <2>1. Update("replaced", Sole, [life |-> live'[Sole], seq |-> 0]) \in Sent
    BY <1>1, <1>6, ReplaceSent
  <2> QED
    BY <1>1, <1>3, <1>6, <2>1, ReplaceMoves, EmitSynced DEF Replace
<1>7. CASE Withdraw
  <2>1. Update("unavailable", Sole, Cold) \in Sent
    BY <1>1, <1>7, WithdrawSent
  <2> QED
    BY <1>1, <1>3, <1>7, <2>1, WithdrawMoves, EmitSynced DEF Withdraw
<1>8. ASSUME NEW k \in Keys, SpawnInstance(k) PROVE Synced'
  <2>1. Update("spawned", k, [life |-> live'[k], seq |-> 0]) \in Sent
    BY <1>1, <1>8, SpawnSent
  <2> QED
    BY <1>1, <1>3, <1>8, <2>1, SpawnMoves, EmitSynced DEF SpawnInstance
<1>9. ASSUME NEW k \in Keys, CloseInstance(k) PROVE Synced'
  <2>1. Update("closed", k, Value(k)) \in Sent
    BY <1>1, <1>9, CloseSent
  <2> QED
    BY <1>1, <1>3, <1>9, <2>1, CloseMoves, EmitSynced DEF CloseInstance
<1>10. ASSUME NEW k \in Keys, Change(k) PROVE Synced'
  <2>1. Update("state", k, [life |-> live[k], seq |-> seq'[k]]) \in Sent
    BY <1>1, <1>10, ChangeSent
  <2> QED
    BY <1>1, <1>3, <1>10, <2>1, ChangeMoves, EmitSynced DEF Change
<1>11. CASE Dispose
  BY <1>1, <1>3, <1>11, DisposeSynced
<1>12. CASE Use
  BY <1>4, <1>12, UseSynced
<1>13. CASE DisposeConsumer
  BY <1>4, <1>13, ClosesSynced DEF DisposeConsumer
<1>14. CASE CallReady \/ ReadyWakes \/ UNCHANGED vars
  <2>1. UNCHANGED <<mode, live, lives, seq, stopped, untold, held, faults, subs, binding, tasks>>
    BY <1>14 DEF CallReady, ReadyWakes, vars, provider
  <2> QED
    BY <1>4, <2>1, QuietSynced
<1>15. ASSUME NEW o \in Observers, Observe(o) \/ StopObserving(o) PROVE Synced'
  BY <1>4, <1>15, ObserveSynced, StopObservingSynced
<1>16. ASSUME NEW to \in BOOLEAN, Rebind(to) PROVE Synced'
  BY <1>4, <1>16, RebindSynced
<1>17. ASSUME NEW t \in tasks, Continue(t) PROVE Synced'
  BY <1>4, <1>17, RestartSynced, LateSynced, RefusedSynced, SubscribedSynced DEF Continue
<1> QED
  BY <1>5, <1>6, <1>7, <1>8, <1>9, <1>10, <1>11, <1>12, <1>13, <1>14, <1>15, <1>16, <1>17
     DEF Next, Calls

LEMMA InitSynced ==
  ASSUME Init
  PROVE  Synced
<1>1. /\ live = [k \in Keys |-> 0] /\ lives = live /\ seq = live /\ stopped = FALSE
      /\ subs = <<>> /\ binding = Shut(0) /\ held = [k \in Keys |-> NoEntry] /\ tasks = {} /\ faults = {}
  BY DEF Init
<1>2. Sane /\ Single
  BY InitSane, InitSingle
<1>3. SourceInv
  BY <1>1 DEF SourceInv
<1>4. CoverInv /\ OwnerInv /\ ComingInv
  BY <1>1 DEF CoverInv, OwnerInv, ComingInv
<1>5. HeldInv
  BY <1>1 DEF HeldInv, Mild, Shut, Clean
<1> QED
  BY <1>2, <1>3, <1>4, <1>5 DEF Synced, Single

LEMMA SyncedAlways ==
  ASSUME ~ObserveWhileRebinding
  PROVE  Spec => []Synced
<1>1. Init => Synced
  BY InitSynced
<1>2. Synced /\ [Next]_vars => Synced'
  BY SyncedStep
<1> QED
  BY <1>1, <1>2, PTL DEF Spec

(* Whatever the order of use, observe, rebind, stop, dispose and their     *)
(* continuations, a connected binding at rest has its one subscription,    *)
(* it is active, and the provider serves no other: #subscriptions of the   *)
(* provider does not grow (provider.ts:262, consumer.ts:464), for any      *)
(* number of keys, observers and revisions.  The hypothesis leaves out     *)
(* observe between the two halves of a rebind, which starts twice.         *)
THEOREM OneSubscriptionCorrect ==
  ASSUME ~ObserveWhileRebinding
  PROVE  Spec => []OneSubscription
<1>1. Synced => OneSubscription
  BY SingleMeansOne DEF Synced, Sane, Single
<1> QED
  BY <1>1, SyncedAlways, PTL

(* No replica that holds a value is handed an update that does not follow  *)
(* it, no instance is announced twice, only a singleton reports an update  *)
(* before hydration, and a connected binding at rest has the provider's    *)
(* instances, each at its generation and its value, or is a singleton that *)
(* subscribed before a provide that told nobody: the snapshot, the buffer  *)
(* behind it and what updateCoveredBySnapshot filters join without a gap   *)
(* (provider.ts:241, consumer.ts:602), for any number of keys, commits and *)
(* lives.                                                                  *)
THEOREM NoGapCorrect ==
  ASSUME ~ObserveWhileRebinding
  PROVE  Spec => []NoGap
<1>1. Synced => NoGap
  <2> SUFFICES ASSUME Synced PROVE NoGap
    OBVIOUS
  <2>1. faults \subseteq (IF Keyed THEN {} ELSE {"cold"})
    BY DEF Synced, HeldInv, Mild
  <2>2. ASSUME tasks = {}, binding.open, bound, ~binding.failed, NEW k \in Keys
        PROVE  \/ held[k] = [gen |-> Gen(live[k]), val |-> Value(k)]
               \/ (~Keyed /\ binding.sub \in untold /\ held[k] = NoEntry)
    <3>1. binding.sub # 0
      BY <2>2 DEF Synced, Sane, Coherent, ServedInv
    <3>2. CASE held = Now
      BY <3>2, NowAt
    <3>3. CASE ~Keyed /\ binding.sub \in untold /\ held = Clean
      BY <3>3 DEF Clean
    <3> QED
      BY <3>1, <3>2, <3>3 DEF Synced, HeldInv, Right
  <2> QED
    BY <2>1, <2>2 DEF NoGap
<1> QED
  BY <1>1, SyncedAlways, PTL

-----------------------------------------------------------------------------
(* The replicas implement ReplicatedState.                                 *)
Source == [k \in Keys |-> Value(k)]
Shown  == [k \in Keys |-> held[k].val]

(* A replica shows the value of its source or nothing.                     *)
LEMMA ShownRight ==
  ASSUME Synced, NEW k \in Keys
  PROVE  held[k].val = Value(k) \/ held[k].val = Cold
<1>1. Clean[k].val = Cold /\ Now[k].val = Value(k)
  BY NoEntryIn DEF Clean, Now
<1> QED
  BY <1>1 DEF Synced, HeldInv, Right

LEMMA FollowsAll ==
  ASSUME Synced'
  PROVE  \A K : Replication!Follows(K)
<1>1. ASSUME NEW k \in Keys
      PROVE  held'[k].val = Value(k)' \/ held'[k].val = Cold
  <2>1. Clean[k].val = Cold /\ Now'[k].val = Value(k)'
    BY NoEntryIn DEF Clean, Now
  <2> QED
    BY <2>1 DEF Synced, HeldInv, Right, Clean
<1>2. \A k \in Keys : Source'[k] = Value(k)' /\ Shown'[k] = held'[k].val
  BY DEF Source, Shown
<1>3. Cold = Replication!Cold
  BY DEF Cold, Replication!Cold
<1> QED
  BY <1>1, <1>2, <1>3 DEF Replication!Follows, Source, Shown

LEMMA Provided ==
  ASSUME Synced, Synced', NEW k \in Keys, mode' = mode,
         live'[k] = lives[k] + 1, seq'[k] = 0,
         \A j \in Keys : j # k => live'[j] = live[j] /\ seq'[j] = seq[j]
  PROVE  Replication!Provide(k)
<1>1. ProviderTyped /\ live[k] \in {0, lives[k]}
  BY SyncedStands DEF Synced, SourceInv
<1>2. /\ Source[k].life = live[k] /\ live'[k] > live[k] /\ live'[k] # 0
  BY <1>1 DEF Source, Value, Cold, ProviderTyped
<1>3. Source'[k] = [life |-> live'[k], seq |-> 0]
  BY <1>2 DEF Source, Value
<1>4. \A j \in Keys : j # k => Source'[j] = Source[j]
  BY DEF Source, Value
<1>5. Source = [j \in Keys |-> Source[j]] /\ Source' = [j \in Keys |-> Source'[j]]
  BY DEF Source
<1>6. Source'[k].life > Source[k].life
  BY <1>2, <1>3
<1>7. Source' = [Source EXCEPT ![k] = [life |-> Source'[k].life, seq |-> 0]]
  BY <1>3, <1>4, <1>5
<1>8. Replication!Follows({k})
  BY FollowsAll
<1> QED
  BY <1>6, <1>7, <1>8 DEF Replication!Provide, Source

LEMMA Withdrawn ==
  ASSUME Synced', NEW K, Leave(K)
  PROVE  Replication!Withdraw(K)
<1>1. Source' = [k \in Keys |-> IF k \in K THEN Replication!Cold ELSE Source[k]]
  BY DEF Leave, Source, Value, Cold, Replication!Cold
<1>2. Replication!Follows(K)
  BY FollowsAll
<1> QED
  BY <1>1, <1>2 DEF Replication!Withdraw, Source

LEMMA Rebound ==
  ASSUME Synced', UNCHANGED <<live, seq>>
  PROVE  Replication!Rebind
<1>1. Source' = Source
  BY DEF Source, Value
<1>2. Replication!Follows({})
  BY FollowsAll
<1> QED
  BY <1>1, <1>2 DEF Replication!Rebind, Source

(* A commit reaches the replica at once, or finds it empty.                *)
LEMMA Changed ==
  ASSUME Synced, NEW k \in Keys, Change(k)
  PROVE  Replication!Change(k)
<1> DEFINE e == [life |-> live[k], seq |-> seq'[k]]
           u == Update("state", k, e)
<1>1. /\ live[k] # 0 /\ live' = live /\ seq' = [seq EXCEPT ![k] = seq[k] + 1] /\ mode' = mode
      /\ Emit(u) /\ Typed /\ SourceInv /\ ProviderTyped
  BY DEF Change, consumer, Synced, Sane, Coherent, Typed
<1>2. ProviderTyped' /\ u \in Sent
  BY <1>1, ChangeEffect, ChangeSent
<1>3. Moves(u)
  BY <1>1, <1>2, ChangeMoves
<1>4. u.type = "state" /\ u.key = k /\ u.gen = Gen(live[k]) /\ u.val = e
  BY DEF Update
<1>5. seq'[k] = seq[k] + 1 /\ \A j \in Keys : j # k => seq'[j] = seq[j]
  BY <1>1, <1>2 DEF ProviderTyped
<1>6. /\ Source[k] = [life |-> live[k], seq |-> seq[k]] /\ Source[k] # Cold
      /\ Source'[k] = e
      /\ \A j \in Keys : j # k => Source'[j] = Source[j]
  BY <1>1, <1>5 DEF Source, Value, Cold
<1> HIDE DEF u
<1>7. Source' = [Source EXCEPT ![k].seq = @ + 1]
  <2>1. Source = [j \in Keys |-> Source[j]] /\ Source' = [j \in Keys |-> Source'[j]]
    BY DEF Source
  <2>2. [Source[k] EXCEPT !.seq = @ + 1] = e
    BY <1>5, <1>6
  <2> QED
    BY <1>6, <2>1, <2>2
<1>8. \A j \in Keys : held'[j].val = IF j = k /\ held[k].val # Cold THEN e ELSE held[j].val
  <2>1. held \in Holdings
    BY WorldIs, WorldFields DEF Synced, Sane, Holdings
  <2>2. CASE binding.sub = 0
    <3>1. held' = held /\ held = Clean
      BY <1>1, <1>2, <1>3, <2>2, EmitHeld DEF Synced, HeldInv
    <3>2. held[k].val = Cold
      BY <3>1, NoEntryIn DEF Clean
    <3> QED
      BY <3>1, <3>2
  <2>3. CASE binding.sub # 0
    <3>1. held' = Outcome(held, u)
      BY <1>1, <1>2, <1>3, <2>3, EmitHeld
    <3>2. Outcome(held, u) = [held EXCEPT ![k] = IF held[k].val = Cold THEN held[k] ELSE [gen |-> u.gen, val |-> e]]
      BY <1>4 DEF Outcome
    <3> QED
      BY <2>1, <3>1, <3>2 DEF Holdings
  <2> QED
    BY <2>2, <2>3
<1>9. Shown' = [Shown EXCEPT ![k] = IF Shown[k] = Cold THEN Cold ELSE Source'[k]]
  <2>1. Shown' = [j \in Keys |-> held'[j].val] /\ Shown = [j \in Keys |-> held[j].val]
    BY DEF Shown
  <2> HIDE DEF e
  <2> QED
    BY <1>6, <1>8, <2>1
<1>10. Cold = Replication!Cold
  BY DEF Cold, Replication!Cold
<1> QED
  BY <1>6, <1>7, <1>9, <1>10 DEF Replication!Change, Source, Shown

LEMMA ReplicationStep ==
  ASSUME Synced, Synced', [Next]_vars
  PROVE  Replication!Next
<1>1. Typed /\ ProviderTyped /\ Sole \in Keys
  BY ServiceAssumption DEF Synced, Sane, Coherent, Typed
<1>2. ASSUME NEW k \in Keys, Open(k)
      PROVE  /\ live'[k] = lives[k] + 1 /\ seq'[k] = 0
             /\ \A j \in Keys : j # k => live'[j] = live[j] /\ seq'[j] = seq[j]
  BY <1>1, <1>2 DEF Open, ProviderTyped
<1>3. CASE Provide \/ Replace
  <2>1. Open(Sole) /\ mode' = mode
    BY <1>3 DEF Provide, Replace, consumer
  <2> QED
    BY <1>1, <1>2, <2>1, Provided DEF Replication!Next
<1>4. ASSUME NEW k \in Keys, SpawnInstance(k) PROVE Replication!Next
  BY <1>2, <1>4, Provided DEF SpawnInstance, consumer, Replication!Next
<1>5. CASE Withdraw
  <2>1. Replication!Withdraw({Sole}) /\ {Sole} \in SUBSET Keys
    BY <1>1, <1>5, Withdrawn DEF Withdraw
  <2> QED
    BY <2>1 DEF Replication!Next
<1>6. ASSUME NEW k \in Keys, CloseInstance(k) PROVE Replication!Next
  <2>1. Replication!Withdraw({k}) /\ {k} \in SUBSET Keys
    BY <1>6, Withdrawn DEF CloseInstance
  <2> QED
    BY <2>1 DEF Replication!Next
<1>7. CASE Dispose
  <2>1. Replication!Withdraw(Keys) /\ Keys \in SUBSET Keys
    BY <1>7, Withdrawn DEF Dispose
  <2> QED
    BY <2>1 DEF Replication!Next
<1>8. ASSUME NEW k \in Keys, Change(k) PROVE Replication!Next
  BY <1>8, Changed DEF Replication!Next
<1>9. CASE UNCHANGED <<live, seq>>
  BY <1>9, Rebound DEF Replication!Next
<1>10. CASE Use \/ DisposeConsumer \/ CallReady \/ ReadyWakes \/ UNCHANGED vars
  BY <1>9, <1>10 DEF Use, DisposeConsumer, CallReady, ReadyWakes, vars, provider
<1>11. ASSUME NEW o \in Observers, Observe(o) \/ StopObserving(o) PROVE Replication!Next
  BY <1>9, <1>11 DEF Observe, StopObserving, provider
<1>12. ASSUME NEW to \in BOOLEAN, Rebind(to) PROVE Replication!Next
  BY <1>9, <1>12 DEF Rebind, provider
<1>13. ASSUME NEW t \in tasks, Continue(t) PROVE Replication!Next
  BY <1>9, <1>13 DEF Continue, Restart, Late, Refused, Subscribed, provider
<1> QED
  BY <1>3, <1>4, <1>5, <1>6, <1>7, <1>8, <1>10, <1>11, <1>12, <1>13 DEF Next, Calls

(* One-writer, latest-value replication: a replica shows the value its     *)
(* source has now or nothing; a commit reaches a replica that shows the    *)
(* version before it and hydrates none; nothing outlives its source        *)
(* (state.ts, provider.ts, consumer.ts).  Every behaviour of the provider  *)
(* and the consumer together is one of ReplicatedState.                    *)
THEOREM ReplicationCorrect ==
  ASSUME ~ObserveWhileRebinding
  PROVE  Spec => ImplementsReplication
<1>1. Init => Replication!Init
  <2> SUFFICES ASSUME Init PROVE Replication!Init
    OBVIOUS
  <2>1. \A k \in Keys : Value(k) = Cold /\ held[k] = NoEntry
    BY DEF Init, Value
  <2>2. Source = [k \in Keys |-> Cold] /\ Shown = [k \in Keys |-> Cold]
    BY <2>1, NoEntryIn DEF Source, Shown
  <2> QED
    BY <2>2 DEF Replication!Init, Replication!Cold, Cold, Source, Shown
<1>2. Synced /\ Synced' /\ [Next]_vars => [Replication!Next]_Replication!vars
  BY ReplicationStep
<1> QED
  BY <1>1, <1>2, SyncedAlways, PTL DEF Spec, ImplementsReplication, Replication!Spec
=============================================================================
