---------------------------- MODULE ReplicaProofs ----------------------------
(***************************************************************************)
(* Proofs about what ReplicatedService delivers, for any keys, observers   *)
(* and bounds: snapshots, the updates buffered meanwhile and the updates   *)
(* that follow.  A delivery is a fold over a sequence; FoldExists and      *)
(* the Chain lemmas turn such a fold into the chain of its worlds.         *)
(***************************************************************************)
EXTENDS ReplicatedServiceProofs, WellFoundedInduction, NaturalsInduction

-----------------------------------------------------------------------------
(* Folds over sequences.                                                   *)

(* A set of numbers that has 0 and the successors of its elements, up to n.*)
LEMMA CountUp ==
  ASSUME NEW n \in Nat, NEW S, 0 \in S, \A i \in 1..n : i - 1 \in S => i \in S
  PROVE  0..n \subseteq S
<1> DEFINE Bad == {i \in 0..n : i \notin S}
           R == {ss \in Nat \X Nat : ss[1] < ss[2]}
<1>1. SUFFICES ASSUME Bad # {} PROVE FALSE
  OBVIOUS
<1>2. IsWellFoundedOn(R, Nat)
  BY NatLessThanWellFounded DEF OpToRel
<1>3. \A x, y \in Nat : <<x, y>> \in R <=> x < y
  OBVIOUS
<1>4. Bad \subseteq Nat
  OBVIOUS
<1> HIDE DEF R
<1>5. PICK x \in Bad : \A y \in Bad : ~(<<y, x>> \in R)
  BY <1>1, <1>2, <1>4, WFMin
<1>6. x \in 1..n /\ x - 1 \in 0..n /\ x - 1 \in Nat /\ x \in Nat /\ x - 1 < x
  BY <1>5
<1>7. x - 1 \in S
  BY <1>3, <1>5, <1>6
<1> QED
  BY <1>5, <1>6, <1>7

(* The largest of a set of positions.                                      *)
LEMMA MaxOf ==
  ASSUME NEW m \in Nat, NEW s, s \subseteq 1..m, m \in s
  PROVE  Max(s) = m
<1>1. \A y \in s : m >= y
  OBVIOUS
<1>2. \A x \in s : (\A y \in s : x >= y) => x = m
  OBVIOUS
<1> QED
  BY <1>1, <1>2 DEF Max

LEMMA MaxIn ==
  ASSUME NEW n \in Nat
  PROVE  \A s \in SUBSET (1..n) : s # {} => Max(s) \in s
<1> DEFINE S == {m \in 0..n : \A s \in SUBSET (1..m) : s # {} => Max(s) \in s}
<1>1. 0 \in S
  <2>1. 1..0 = {} /\ 0 \in 0..n
    OBVIOUS
  <2> QED
    BY <2>1
<1>2. ASSUME NEW i \in 1..n, i - 1 \in S PROVE i \in S
  <2>1. ASSUME NEW s \in SUBSET (1..i), s # {} PROVE Max(s) \in s
    <3>1. CASE i \in s
      <4>1. i \in Nat /\ s \subseteq 1..i
        OBVIOUS
      <4> QED
        BY <3>1, <4>1, MaxOf
    <3>2. CASE i \notin s
      <4>1. s \in SUBSET (1..(i - 1))
        BY <3>2
      <4> QED
        BY <1>2, <2>1, <4>1
    <3> QED
      BY <3>1, <3>2
  <2> QED
    BY <2>1
<1> HIDE DEF S
<1>3. n \in S
  BY <1>1, <1>2, CountUp
<1> QED
  BY <1>3 DEF S

(* The function that FoldLeft is defined by exists.                        *)
Fold(f, g, base, n) ==
    f = [s \in SUBSET (1..n) |-> IF s = {} THEN base ELSE g[<<Max(s), f[s \ {Max(s)}]>>]]

LEMMA FoldExists ==
  ASSUME NEW W, NEW n \in Nat, NEW base \in W, NEW g \in [(1..n) \X W -> W]
  PROVE  \E f \in [SUBSET (1..n) -> W] : Fold(f, g, base, n)
<1> DEFINE S == {m \in 0..n : \E f \in [SUBSET (1..m) -> W] : Fold(f, g, base, m)}
<1>1. 0 \in S
  <2> DEFINE f == [s \in SUBSET (1..0) |-> base]
  <2>1. f \in [SUBSET (1..0) -> W] /\ \A s \in SUBSET (1..0) : s = {}
    OBVIOUS
  <2>2. Fold(f, g, base, 0)
    BY <2>1 DEF Fold
  <2> QED
    BY <2>1, <2>2
<1>2. ASSUME NEW i \in 1..n, i - 1 \in S PROVE i \in S
  <2>1. PICK f \in [SUBSET (1..(i - 1)) -> W] : Fold(f, g, base, i - 1)
    BY <1>2
  <2>2. \A s \in SUBSET (1..i) : s \ {i} \in SUBSET (1..(i - 1)) /\ (i \notin s => s \in SUBSET (1..(i - 1)))
    OBVIOUS
  <2> DEFINE h == [s \in SUBSET (1..i) |-> IF i \in s THEN g[<<i, f[s \ {i}]>>] ELSE f[s]]
  <2>3. h \in [SUBSET (1..i) -> W]
    BY <2>1, <2>2
  <2>4. ASSUME NEW s \in SUBSET (1..i)
        PROVE  h[s] = IF s = {} THEN base ELSE g[<<Max(s), h[s \ {Max(s)}]>>]
    <3>1. CASE i \in s
      <4>0. i \in Nat /\ s \subseteq 1..i
        OBVIOUS
      <4>1. Max(s) = i /\ s # {}
        BY <3>1, <4>0, MaxOf
      <4>2. h[s] = g[<<i, f[s \ {i}]>>] /\ h[s \ {i}] = f[s \ {i}]
        BY <2>2, <3>1
      <4> QED
        BY <4>1, <4>2
    <3>2. CASE i \notin s
      <4>1. s \in SUBSET (1..(i - 1)) /\ h[s] = f[s] /\ i \notin s \ {Max(s)}
            /\ s \ {Max(s)} \in SUBSET (1..i)
        BY <2>2, <3>2
      <4>2. f[s] = IF s = {} THEN base ELSE g[<<Max(s), f[s \ {Max(s)}]>>]
        BY <2>1, <4>1 DEF Fold
      <4>3. h[s \ {Max(s)}] = f[s \ {Max(s)}]
        BY <4>1
      <4> QED
        BY <4>1, <4>2, <4>3
    <3> QED
      BY <3>1, <3>2
  <2> HIDE DEF h
  <2>5. Fold(h, g, base, i)
    BY <2>3, <2>4 DEF Fold
  <2> QED
    BY <2>3, <2>5
<1> HIDE DEF S
<1>3. n \in S
  BY <1>1, <1>2, CountUp
<1> QED
  BY <1>3 DEF S

(* The positions up to i are the ones before i, and i.                     *)
LEMMA LastPosition ==
  ASSUME NEW n \in Nat, NEW i \in 1..n
  PROVE  Max(1..i) = i /\ 1..i \in SUBSET (1..n) /\ 1..i # {}
<1>1. i \in 1..i /\ i \in Nat /\ 1..i \subseteq 1..i
  OBVIOUS
<1>2. Max(1..i) = i
  BY <1>1, MaxOf
<1>3. 1..i \in SUBSET (1..n) /\ 1..i # {}
  OBVIOUS
<1> QED
  BY <1>2, <1>3

(* SetToSeq lists a finite set.                                            *)
LEMMA ListingIs ==
  ASSUME NEW S, IsFiniteSet(S)
  PROVE  /\ Cardinality(S) \in Nat
         /\ SetToSeq(S) \in [1..Cardinality(S) -> S]
         /\ \A a, b \in 1..Cardinality(S) : SetToSeq(S)[a] = SetToSeq(S)[b] => a = b
<1> DEFINE n == Cardinality(S)
<1>1. n \in Nat
  BY FS_CardinalityType
<1>2. ExistsBijection(1..n, S)
  BY <1>1, FS_NatBijection, FS_CountingElements
<1>3. PICK f \in Bijection(1..n, S) : TRUE
  BY <1>2 DEF ExistsBijection
<1>4. f \in [1..n -> S] /\ \A a, b \in 1..n : f[a] = f[b] => a = b
  BY <1>3 DEF Bijection, Injection, Surjection, IsInjective
<1>5. f \in [1..n -> S] /\ IsInjective(f)
  BY <1>4 DEF IsInjective
<1>6. SetToSeq(S) \in [1..n -> S] /\ IsInjective(SetToSeq(S))
  BY <1>5 DEF SetToSeq
<1>7. \A a, b \in 1..n : SetToSeq(S)[a] = SetToSeq(S)[b] => a = b
  BY <1>6 DEF IsInjective
<1> QED
  BY <1>1, <1>6, <1>7

-----------------------------------------------------------------------------
(* The worlds a delivery works on: a handler runs for each observer and    *)
(* each instance of a directory that is ready, and a keyed instance has a  *)
(* generation.                                                             *)
Entries == [gen : 0..MaxLives, val : Vals]
Runs    == [observer : Observers, key : Keys, gen : 1..MaxLives]
Errors  == {"repeat", "gap", "cold"}

Follow(w) ==
    \A h : h \in w.running <=>
       /\ h \in Runs /\ binding.ready /\ h.observer \in binding.observers
       /\ w.held[h.key] # NoEntry /\ h.gen = w.held[h.key].gen
Filled(w) == Keyed => \A k \in Keys : w.held[k].gen = 0 => w.held[k] = NoEntry

Worlds == {w \in [held : [Keys -> Entries], running : SUBSET Runs, faults : SUBSET Errors] :
             Follow(w) /\ Filled(w)}

(* What is sent in the mode of the service.                                *)
Sent == {u \in Updates : Keyed => u.gen # 0 /\ u.type \notin {"replaced", "unavailable"}}

(* Only a keyed binding has a directory.                                   *)
DirectoryInv == binding.ready => Keyed

(* Changing the entry of one key, its handlers or the faults.              *)
LEMMA WorldParts ==
  ASSUME NEW w \in Worlds, NEW k \in Keys, NEW e \in Entries, NEW r, NEW f \in SUBSET Errors,
         Keyed => (e.gen = 0 => e = NoEntry),
         \A h : h \in r <=>
            \/ h \in w.running /\ h.key # k
            \/ h \in Runs /\ binding.ready /\ h.observer \in binding.observers /\ h.key = k
               /\ e # NoEntry /\ h.gen = e.gen
  PROVE  [held |-> [w.held EXCEPT ![k] = e], running |-> r, faults |-> f] \in Worlds
<1> DEFINE g == [w.held EXCEPT ![k] = e]
           x == [held |-> g, running |-> r, faults |-> f]
<1>1. w.held \in [Keys -> Entries] /\ w.running \subseteq Runs /\ Follow(w) /\ Filled(w)
  BY DEF Worlds
<1>2. g \in [Keys -> Entries] /\ g[k] = e /\ \A j \in Keys : j # k => g[j] = w.held[j]
  BY <1>1
<1>3. r \subseteq Runs
  BY <1>1
<1> HIDE DEF g
<1>4. x.held = g /\ x.running = r /\ x.faults = f
  OBVIOUS
<1>5. x \in [held : [Keys -> Entries], running : SUBSET Runs, faults : SUBSET Errors]
  BY <1>2, <1>3
<1>6. Filled(x)
  BY <1>1, <1>2, <1>4 DEF Filled
<1>7. Follow(x)
  <2>1. ASSUME NEW h \in Runs
        PROVE  h \in r <=> /\ binding.ready /\ h.observer \in binding.observers
                           /\ g[h.key] # NoEntry /\ h.gen = g[h.key].gen
    <3>1. h.key \in Keys
      BY DEF Runs
    <3>2. CASE h.key = k
      BY <1>2, <3>2
    <3>3. CASE h.key # k
      BY <1>1, <1>2, <3>1, <3>3 DEF Follow
    <3> QED
      BY <3>2, <3>3
  <2> QED
    BY <1>3, <1>4, <2>1 DEF Follow
<1> HIDE DEF x
<1>8. x \in Worlds
  BY <1>5, <1>6, <1>7 DEF Worlds
<1> QED
  BY <1>8 DEF x, g

(* Deliveries lead from worlds to worlds.                                  *)
LEMMA NoEntryIn == NoEntry \in Entries /\ Cold \in Vals /\ NoEntry.gen = 0 /\ NoEntry.val = Cold
BY ServiceAssumption DEF NoEntry, Entries, Cold, Vals

LEMMA WorldIs ==
  ASSUME NEW w \in Worlds
  PROVE  /\ w = [held |-> w.held, running |-> w.running, faults |-> w.faults]
         /\ w.held \in [Keys -> Entries] /\ w.running \subseteq Runs
         /\ w.faults \in SUBSET Errors /\ Follow(w) /\ Filled(w)
BY DEF Worlds

(* The record of a world after an EXCEPT.                                  *)
LEMMA ValueSet ==
  ASSUME NEW w \in Worlds, NEW k \in Keys, NEW v
  PROVE  [w EXCEPT !.held[k].val = v] =
            [held |-> [w.held EXCEPT ![k] = [gen |-> w.held[k].gen, val |-> v]],
             running |-> w.running, faults |-> w.faults]
<1>1. w.held[k] = [gen |-> w.held[k].gen, val |-> w.held[k].val] /\ w.held \in [Keys -> Entries]
  BY WorldIs DEF Entries
<1>2. [w.held[k] EXCEPT !.val = v] = [gen |-> w.held[k].gen, val |-> v]
  BY <1>1
<1>3. [w EXCEPT !.held[k].val = v] =
        [held |-> [w.held EXCEPT ![k].val = v], running |-> w.running, faults |-> w.faults]
  BY WorldIs
<1>4. [w.held EXCEPT ![k].val = v] = [w.held EXCEPT ![k] = [gen |-> w.held[k].gen, val |-> v]]
  BY <1>1, <1>2
<1> QED
  BY <1>3, <1>4

(* An error that is reported changes nothing else.                         *)
LEMMA BlamedWorld ==
  ASSUME NEW w \in Worlds, NEW e \in Errors
  PROVE  [w EXCEPT !.faults = @ \cup {e}] \in Worlds
<1> DEFINE f == w.faults \cup {e}
           x == [held |-> w.held, running |-> w.running, faults |-> f]
<1>1. w = [held |-> w.held, running |-> w.running, faults |-> w.faults]
  BY WorldIs
<1>2. f \in SUBSET Errors
  BY WorldIs
<1>5. [w EXCEPT !.faults = @ \cup {e}] = [w EXCEPT !.faults = f]
  OBVIOUS
<1> HIDE DEF f
<1>6. [w EXCEPT !.faults = f] = x
  BY <1>1
<1>3. x.held = w.held /\ x.running = w.running /\ x.faults = f
  OBVIOUS
<1>4. Follow(x) /\ Filled(x)
  BY <1>3, WorldIs DEF Follow, Filled
<1> QED
  BY <1>2, <1>4, <1>5, <1>6, WorldIs DEF Worlds

LEMMA SpawnWorld ==
  ASSUME BindingTyped, DirectoryInv, NEW w \in Worlds, NEW u \in Sent
  PROVE  Spawn(w, u) \in Worlds
<1>1. u.key \in Keys /\ u.gen \in 0..MaxLives /\ u.val \in Vals /\ (Keyed => u.gen # 0)
  BY DEF Sent, Updates
<1> DEFINE e == [gen |-> u.gen, val |-> u.val]
<1>2. e \in Entries /\ e.gen = u.gen
  BY <1>1 DEF Entries
<1>3. CASE w.held[u.key].gen = u.gen
  <2>1. Spawn(w, u) = [w EXCEPT !.faults = @ \cup {"repeat"}]
    BY <1>3 DEF Spawn
  <2> QED
    BY <2>1, BlamedWorld DEF Errors
<1>4. CASE w.held[u.key].gen # u.gen
  <2> DEFINE r == Others(w.running, u.key)
                    \cup (IF binding.ready THEN Handlers(u.key, u.gen) ELSE {})
  <2>1. Spawn(w, u) = [held |-> [w.held EXCEPT ![u.key] = e], running |-> r, faults |-> w.faults]
    <3> DEFINE v == [w EXCEPT !.held[u.key] = e]
    <3>1. Spawn(w, u) = [v EXCEPT !.running = Others(@, u.key)
                               \cup (IF binding.ready THEN Handlers(u.key, u.gen) ELSE {})]
      BY <1>4 DEF Spawn
    <3>2. v = [held |-> [w.held EXCEPT ![u.key] = e], running |-> w.running, faults |-> w.faults]
      BY WorldIs
    <3> HIDE DEF v
    <3> QED
      BY <3>1, <3>2
  <2>2. binding.ready => e # NoEntry /\ u.gen \in 1..MaxLives
    BY <1>1, <1>2, NoEntryIn DEF DirectoryInv
  <2>3. ASSUME NEW h
        PROVE  h \in r <=>
            \/ h \in w.running /\ h.key # u.key
            \/ h \in Runs /\ binding.ready /\ h.observer \in binding.observers /\ h.key = u.key
               /\ e # NoEntry /\ h.gen = e.gen
    <3>1. h \in Others(w.running, u.key) <=> h \in w.running /\ h.key # u.key
      BY DEF Others
    <3>2. binding.ready =>
            (h \in Handlers(u.key, u.gen) <=>
                h \in Runs /\ h.observer \in binding.observers /\ h.key = u.key /\ h.gen = u.gen)
      BY <1>1, <2>2 DEF Handlers, Runs, BindingTyped
    <3> HIDE DEF e
    <3> QED
      BY <1>2, <2>2, <3>1, <3>2
  <2>4. Keyed => (e.gen = 0 => e = NoEntry)
    BY <1>1, <1>2
  <2> HIDE DEF e, r
  <2>5. [held |-> [w.held EXCEPT ![u.key] = e], running |-> r, faults |-> w.faults] \in Worlds
    BY <1>1, <1>2, <2>3, <2>4, WorldIs, WorldParts
  <2> QED
    BY <2>1, <2>5
<1> QED
  BY <1>3, <1>4

LEMMA DropWorld ==
  ASSUME NEW w \in Worlds, NEW k \in Keys
  PROVE  Drop(w, k) \in Worlds
<1> DEFINE r == Others(w.running, k)
<1>1. Drop(w, k) = [held |-> [w.held EXCEPT ![k] = NoEntry], running |-> r, faults |-> w.faults]
  <2> DEFINE v == [w EXCEPT !.held[k] = NoEntry]
  <2>1. Drop(w, k) = [v EXCEPT !.running = Others(@, k)]
    BY DEF Drop
  <2>2. v = [held |-> [w.held EXCEPT ![k] = NoEntry], running |-> w.running, faults |-> w.faults]
    BY WorldIs
  <2> HIDE DEF v
  <2> QED
    BY <2>1, <2>2
<1>2. \A h : h \in r <=> h \in w.running /\ h.key # k
  BY DEF Others
<1> HIDE DEF r
<1>3. [held |-> [w.held EXCEPT ![k] = NoEntry], running |-> r, faults |-> w.faults] \in Worlds
  BY <1>2, NoEntryIn, WorldIs, WorldParts
<1> QED
  BY <1>1, <1>3

(* Another value for an instance that is there, or for the singleton.      *)
LEMMA ValueWorld ==
  ASSUME DirectoryInv, NEW w \in Worlds, NEW k \in Keys, NEW v \in Vals,
         Keyed => (w.held[k].gen = 0 => v = Cold), NEW f \in SUBSET Errors
  PROVE  [held |-> [w.held EXCEPT ![k] = [gen |-> w.held[k].gen, val |-> v]],
          running |-> w.running, faults |-> f] \in Worlds
<1> DEFINE e == [gen |-> w.held[k].gen, val |-> v]
<1>1. w.held[k] \in Entries /\ w.running \subseteq Runs /\ Follow(w) /\ Filled(w)
  BY WorldIs
<1>2. e \in Entries /\ e.gen = w.held[k].gen /\ e.val = v
  BY <1>1 DEF Entries
<1>3. Keyed => (e.gen = 0 => e = NoEntry)
  BY <1>2 DEF NoEntry
<1>4. Keyed => (e # NoEntry <=> w.held[k] # NoEntry)
  BY <1>1, <1>2, <1>3, NoEntryIn DEF Filled
<1> HIDE DEF e
<1>5. \A h : h \in w.running <=>
            \/ h \in w.running /\ h.key # k
            \/ h \in Runs /\ binding.ready /\ h.observer \in binding.observers /\ h.key = k
               /\ e # NoEntry /\ h.gen = e.gen
  BY <1>1, <1>2, <1>4 DEF Follow, DirectoryInv
<1>6. [held |-> [w.held EXCEPT ![k] = e], running |-> w.running, faults |-> f] \in Worlds
  BY <1>2, <1>3, <1>5, WorldParts
<1> QED
  BY <1>6 DEF e

LEMMA PatchWorld ==
  ASSUME DirectoryInv, NEW w \in Worlds, NEW u \in Sent, w.held[u.key].gen = u.gen
  PROVE  Patch(w, u) \in Worlds
<1>1. u.key \in Keys /\ u.gen \in 0..MaxLives /\ u.val \in Vals /\ (Keyed => u.gen # 0)
  BY DEF Sent, Updates
<1>2. w.held[u.key] \in Entries /\ w.held[u.key].val \in Vals
  BY <1>1, WorldIs DEF Entries
<1> DEFINE had == w.held[u.key].val
           v == [life |-> IF had.life = u.val.life THEN had.life ELSE 0, seq |-> u.val.seq]
<1>3. v \in Vals
  BY <1>1, <1>2, ServiceAssumption DEF Vals
<1>4. CASE had = Cold
  <2>1. Patch(w, u) = [w EXCEPT !.faults = @ \cup {"cold"}]
    BY <1>4 DEF Patch
  <2> QED
    BY <2>1, BlamedWorld DEF Errors
<1>5. CASE had # Cold /\ u.val.seq # had.seq + 1
  <2>1. Patch(w, u) = [w EXCEPT !.held[u.key].val = Cold, !.faults = @ \cup {"gap"}]
    BY <1>5 DEF Patch
  <2>2. Patch(w, u) = [held |-> [w.held EXCEPT ![u.key] = [gen |-> w.held[u.key].gen, val |-> Cold]],
                       running |-> w.running, faults |-> w.faults \cup {"gap"}]
    <3> DEFINE x == [w EXCEPT !.held[u.key].val = Cold]
    <3>1. Patch(w, u) = [x EXCEPT !.faults = @ \cup {"gap"}]
      BY <2>1
    <3>2. x = [held |-> [w.held EXCEPT ![u.key] = [gen |-> w.held[u.key].gen, val |-> Cold]],
               running |-> w.running, faults |-> w.faults]
      BY <1>1, ValueSet
    <3> HIDE DEF x
    <3> QED
      BY <3>1, <3>2
  <2>3. w.faults \cup {"gap"} \in SUBSET Errors
    BY WorldIs DEF Errors
  <2> QED
    BY <1>1, <2>2, <2>3, NoEntryIn, ValueWorld
<1>6. CASE had # Cold /\ u.val.seq = had.seq + 1
  <2>1. Patch(w, u) = [w EXCEPT !.held[u.key].val = v]
    BY <1>6 DEF Patch
  <2> HIDE DEF v
  <2>2. Patch(w, u) = [held |-> [w.held EXCEPT ![u.key] = [gen |-> w.held[u.key].gen, val |-> v]],
                       running |-> w.running, faults |-> w.faults]
    BY <1>1, <2>1, ValueSet
  <2> QED
    BY <1>1, <1>3, <2>2, WorldIs, ValueWorld
<1> QED
  BY <1>4, <1>5, <1>6

LEMMA DeliverWorld ==
  ASSUME BindingTyped, DirectoryInv, NEW w \in Worlds, NEW rev, NEW u \in Sent
  PROVE  Deliver(w, rev, u) \in Worlds
<1>1. /\ u.key \in Keys /\ u.val \in Vals
      /\ u.type \in {"unavailable", "replaced", "spawned", "closed", "state"}
      /\ (Keyed => u.type \notin {"replaced", "unavailable"})
  BY DEF Sent, Updates
<1>2. CASE u.type = "unavailable"
  <2>1. [w EXCEPT !.held[u.key].val = Cold] =
           [held |-> [w.held EXCEPT ![u.key] = [gen |-> w.held[u.key].gen, val |-> Cold]],
            running |-> w.running, faults |-> w.faults]
    BY <1>1, ValueSet
  <2>2. [w EXCEPT !.held[u.key].val = Cold] \in Worlds
    BY <1>1, <2>1, NoEntryIn, WorldIs, ValueWorld
  <2> QED
    BY <1>2, <2>2 DEF Deliver
<1>3. CASE u.type = "replaced"
  <2> DEFINE e == [gen |-> 0, val |-> u.val]
  <2>1. [w EXCEPT !.held[u.key] = e] =
           [held |-> [w.held EXCEPT ![u.key] = e], running |-> w.running, faults |-> w.faults]
    BY WorldIs
  <2>2. e \in Entries
    BY <1>1, ServiceAssumption DEF Entries
  <2>3. ~Keyed /\ ~binding.ready
    BY <1>1, <1>3 DEF DirectoryInv
  <2> HIDE DEF e
  <2>4. w.running = {}
    BY <2>3, WorldIs DEF Follow
  <2>5. [held |-> [w.held EXCEPT ![u.key] = e], running |-> w.running, faults |-> w.faults] \in Worlds
    BY <1>1, <2>2, <2>3, <2>4, WorldIs, WorldParts
  <2> QED
    BY <1>3, <2>1, <2>5 DEF Deliver, e
<1>4. CASE u.type = "spawned"
  BY <1>4, SpawnWorld DEF Deliver
<1>5. CASE u.type = "closed"
  BY <1>1, <1>5, DropWorld DEF Deliver
<1>6. CASE u.type = "state"
  BY <1>6, PatchWorld DEF Deliver
<1> QED
  BY <1>1, <1>2, <1>3, <1>4, <1>5, <1>6

LEMMA InstallWorld ==
  ASSUME BindingTyped, DirectoryInv, NEW w \in Worlds, NEW u \in Sent
  PROVE  Install(w, u) \in Worlds
<1>1. CASE ~Keyed
  <2> DEFINE e == [gen |-> 0, val |-> u.val]
  <2>1. [w EXCEPT !.held[u.key] = e] =
           [held |-> [w.held EXCEPT ![u.key] = e], running |-> w.running, faults |-> w.faults]
    BY WorldIs
  <2>2. u.key \in Keys /\ u.val \in Vals
    BY DEF Sent, Updates
  <2>3. e \in Entries
    BY <2>2, ServiceAssumption DEF Entries
  <2> HIDE DEF e
  <2>4. w.running = {} /\ ~binding.ready
    BY <1>1, WorldIs DEF Follow, DirectoryInv
  <2>5. [held |-> [w.held EXCEPT ![u.key] = e], running |-> w.running, faults |-> w.faults] \in Worlds
    BY <1>1, <2>2, <2>3, <2>4, WorldIs, WorldParts
  <2> QED
    BY <1>1, <2>1, <2>5 DEF Install, e
<1>2. CASE Keyed
  BY <1>2, SpawnWorld DEF Install
<1> QED
  BY <1>1, <1>2

-----------------------------------------------------------------------------
(* The chains of the folds.                                                *)

(* Installing a snapshot.                                                  *)
LEMMA InstallChain ==
  ASSUME BindingTyped, DirectoryInv, NEW ss \in Seq(Sent), NEW w \in Worlds
  PROVE  \E c \in [0..Len(ss) -> Worlds] :
            /\ c[0] = w /\ c[Len(ss)] = FoldLeft(Install, w, ss)
            /\ \A i \in 1..Len(ss) : c[i] = Install(c[i - 1], ss[i])
<1> DEFINE n == Len(ss)
           g == [p \in (1..n) \X Worlds |-> Install(p[2], ss[p[1]])]
           R(f) == f = [s \in SUBSET (1..n) |-> IF s = {} THEN w ELSE Install(f[s \ {Max(s)}], ss[Max(s)])]
           F == CHOOSE f : R(f)
<1>1. n \in Nat /\ DOMAIN ss = 1..n
  OBVIOUS
<1>2. \A i \in 1..n : \A x \in Worlds : Install(x, ss[i]) \in Worlds
  BY InstallWorld
<1>3. g \in [(1..n) \X Worlds -> Worlds] /\ \A i \in 1..n : \A x \in Worlds : g[<<i, x>>] = Install(x, ss[i])
  BY <1>2
<1>4. FoldLeft(Install, w, ss) = F[1..n]
  BY <1>1 DEF FoldLeft, MapThenFoldSet
<1> HIDE DEF n, g
<1>5. PICK f \in [SUBSET (1..n) -> Worlds] : Fold(f, g, w, n)
  BY <1>1, <1>3, FoldExists
<1>6. \A s \in SUBSET (1..n) : s # {} =>
          g[<<Max(s), f[s \ {Max(s)}]>>] = Install(f[s \ {Max(s)}], ss[Max(s)])
  BY <1>1, <1>3, <1>5, MaxIn
<1>7. R(f)
  BY <1>5, <1>6 DEF Fold
<1>8. R(F)
  BY <1>7
<1> HIDE DEF F
<1>9. \A s \in SUBSET (1..n) : F[s] = IF s = {} THEN w ELSE Install(F[s \ {Max(s)}], ss[Max(s)])
  BY <1>8
<1>0. F[1..0] = w
  <2>1. 1..0 = {} /\ {} \in SUBSET (1..n)
    OBVIOUS
  <2> QED
    BY <1>9, <2>1
<1>10. ASSUME NEW i \in 1..n PROVE F[1..i] = Install(F[1..(i - 1)], ss[i])
  <2>1. Max(1..i) = i /\ 1..i \in SUBSET (1..n) /\ 1..i # {}
    BY <1>1, LastPosition
  <2>2. F[1..i] = Install(F[(1..i) \ {i}], ss[i])
    BY <1>9, <2>1
  <2>3. (1..i) \ {i} = 1..(i - 1)
    BY <1>1
  <2> QED
    BY <2>2, <2>3
<1>11. \A i \in 0..n : F[1..i] \in Worlds
  <2> DEFINE S == {i \in 0..n : F[1..i] \in Worlds}
  <2>1. 0 \in S
    BY <1>1, <1>0
  <2>2. \A i \in 1..n : i - 1 \in S => i \in S
    BY <1>1, <1>2, <1>10
  <2> HIDE DEF S
  <2>3. 0..n \subseteq S
    BY <1>1, <2>1, <2>2, CountUp
  <2> QED
    BY <2>3 DEF S
<1> DEFINE c == [i \in 0..n |-> F[1..i]]
<1>12. c \in [0..n -> Worlds] /\ c[0] = w /\ c[n] = FoldLeft(Install, w, ss)
  BY <1>1, <1>4, <1>0, <1>11
<1>13. \A i \in 1..n : c[i] = Install(c[i - 1], ss[i])
  BY <1>1, <1>10
<1> HIDE DEF c
<1> QED
  BY <1>12, <1>13 DEF n

CatchUp(w, rev, ss) == FoldLeft(LAMBDA x, u : Deliver(x, rev, u), w, ss)

(* Delivering what was buffered.                                           *)
LEMMA CatchUpChain ==
  ASSUME BindingTyped, DirectoryInv, NEW ss \in Seq(Sent), NEW w \in Worlds, NEW rev
  PROVE  \E c \in [0..Len(ss) -> Worlds] :
            /\ c[0] = w /\ c[Len(ss)] = CatchUp(w, rev, ss)
            /\ \A i \in 1..Len(ss) : c[i] = Deliver(c[i - 1], rev, ss[i])
<1> DEFINE n == Len(ss)
           g == [p \in (1..n) \X Worlds |-> Deliver(p[2], rev, ss[p[1]])]
           R(f) == f = [s \in SUBSET (1..n) |-> IF s = {} THEN w ELSE Deliver(f[s \ {Max(s)}], rev, ss[Max(s)])]
           F == CHOOSE f : R(f)
<1>1. n \in Nat /\ DOMAIN ss = 1..n
  OBVIOUS
<1>2. \A i \in 1..n : \A x \in Worlds : Deliver(x, rev, ss[i]) \in Worlds
  BY DeliverWorld
<1>3. g \in [(1..n) \X Worlds -> Worlds] /\ \A i \in 1..n : \A x \in Worlds : g[<<i, x>>] = Deliver(x, rev, ss[i])
  BY <1>2
<1>4. CatchUp(w, rev, ss) = F[1..n]
  BY <1>1 DEF FoldLeft, MapThenFoldSet, CatchUp
<1> HIDE DEF n, g
<1>5. PICK f \in [SUBSET (1..n) -> Worlds] : Fold(f, g, w, n)
  BY <1>1, <1>3, FoldExists
<1>6. \A s \in SUBSET (1..n) : s # {} =>
          g[<<Max(s), f[s \ {Max(s)}]>>] = Deliver(f[s \ {Max(s)}], rev, ss[Max(s)])
  BY <1>1, <1>3, <1>5, MaxIn
<1>7. R(f)
  BY <1>5, <1>6 DEF Fold
<1>8. R(F)
  BY <1>7
<1> HIDE DEF F
<1>9. \A s \in SUBSET (1..n) : F[s] = IF s = {} THEN w ELSE Deliver(F[s \ {Max(s)}], rev, ss[Max(s)])
  BY <1>8
<1>0. F[1..0] = w
  <2>1. 1..0 = {} /\ {} \in SUBSET (1..n)
    OBVIOUS
  <2> QED
    BY <1>9, <2>1
<1>10. ASSUME NEW i \in 1..n PROVE F[1..i] = Deliver(F[1..(i - 1)], rev, ss[i])
  <2>1. Max(1..i) = i /\ 1..i \in SUBSET (1..n) /\ 1..i # {}
    BY <1>1, LastPosition
  <2>2. F[1..i] = Deliver(F[(1..i) \ {i}], rev, ss[i])
    BY <1>9, <2>1
  <2>3. (1..i) \ {i} = 1..(i - 1)
    BY <1>1
  <2> QED
    BY <2>2, <2>3
<1>11. \A i \in 0..n : F[1..i] \in Worlds
  <2> DEFINE S == {i \in 0..n : F[1..i] \in Worlds}
  <2>1. 0 \in S
    BY <1>1, <1>0
  <2>2. \A i \in 1..n : i - 1 \in S => i \in S
    BY <1>1, <1>2, <1>10
  <2> HIDE DEF S
  <2>3. 0..n \subseteq S
    BY <1>1, <2>1, <2>2, CountUp
  <2> QED
    BY <2>3 DEF S
<1> DEFINE c == [i \in 0..n |-> F[1..i]]
<1>12. c \in [0..n -> Worlds] /\ c[0] = w /\ c[n] = CatchUp(w, rev, ss)
  BY <1>1, <1>4, <1>0, <1>11
<1>13. \A i \in 1..n : c[i] = Deliver(c[i - 1], rev, ss[i])
  BY <1>1, <1>10
<1> HIDE DEF c
<1> QED
  BY <1>12, <1>13 DEF n

(* One subscriber hears of an update, or does not.                         *)
Reaches(x, s, u) == IF s.active /\ Wants(s, u) THEN Deliver(x, s.rev, u) ELSE x

(* The subscribers hear of an update.                                      *)
LEMMA HearChain ==
  ASSUME BindingTyped, DirectoryInv, SubsTyped, NEW u \in Sent, NEW w \in Worlds
  PROVE  \E c \in [0..Len(subs) -> Worlds] :
            /\ c[0] = w /\ c[Len(subs)] = Hear(w, u)
            /\ \A i \in 1..Len(subs) : c[i] = Reaches(c[i - 1], subs[i], u)
<1> DEFINE n == Len(subs)
           g == [p \in (1..n) \X Worlds |-> Reaches(p[2], subs[p[1]], u)]
           R(f) == f = [s \in SUBSET (1..n) |-> IF s = {} THEN w ELSE Reaches(f[s \ {Max(s)}], subs[Max(s)], u)]
           F == CHOOSE f : R(f)
<1>1. n \in Nat /\ DOMAIN subs = 1..n
  BY DEF SubsTyped
<1>2. \A i \in 1..n : \A x \in Worlds : Reaches(x, subs[i], u) \in Worlds
  BY DeliverWorld DEF Reaches
<1>3. g \in [(1..n) \X Worlds -> Worlds] /\ \A i \in 1..n : \A x \in Worlds : g[<<i, x>>] = Reaches(x, subs[i], u)
  BY <1>2
<1>4. Hear(w, u) = F[1..n]
  BY <1>1 DEF FoldLeft, MapThenFoldSet, Hear, Reaches
<1> HIDE DEF n, g
<1>5. PICK f \in [SUBSET (1..n) -> Worlds] : Fold(f, g, w, n)
  BY <1>1, <1>3, FoldExists
<1>6. \A s \in SUBSET (1..n) : s # {} =>
          g[<<Max(s), f[s \ {Max(s)}]>>] = Reaches(f[s \ {Max(s)}], subs[Max(s)], u)
  BY <1>1, <1>3, <1>5, MaxIn
<1>7. R(f)
  BY <1>5, <1>6 DEF Fold
<1>8. R(F)
  BY <1>7
<1> HIDE DEF F
<1>9. \A s \in SUBSET (1..n) : F[s] = IF s = {} THEN w ELSE Reaches(F[s \ {Max(s)}], subs[Max(s)], u)
  BY <1>8
<1>0. F[1..0] = w
  <2>1. 1..0 = {} /\ {} \in SUBSET (1..n)
    OBVIOUS
  <2> QED
    BY <1>9, <2>1
<1>10. ASSUME NEW i \in 1..n PROVE F[1..i] = Reaches(F[1..(i - 1)], subs[i], u)
  <2>1. Max(1..i) = i /\ 1..i \in SUBSET (1..n) /\ 1..i # {}
    BY <1>1, LastPosition
  <2>2. F[1..i] = Reaches(F[(1..i) \ {i}], subs[i], u)
    BY <1>9, <2>1
  <2>3. (1..i) \ {i} = 1..(i - 1)
    BY <1>1
  <2> QED
    BY <2>2, <2>3
<1>11. \A i \in 0..n : F[1..i] \in Worlds
  <2> DEFINE S == {i \in 0..n : F[1..i] \in Worlds}
  <2>1. 0 \in S
    BY <1>1, <1>0
  <2>2. \A i \in 1..n : i - 1 \in S => i \in S
    BY <1>1, <1>2, <1>10
  <2> HIDE DEF S
  <2>3. 0..n \subseteq S
    BY <1>1, <2>1, <2>2, CountUp
  <2> QED
    BY <2>3 DEF S
<1> DEFINE c == [i \in 0..n |-> F[1..i]]
<1>12. c \in [0..n -> Worlds] /\ c[0] = w /\ c[n] = Hear(w, u)
  BY <1>1, <1>4, <1>0, <1>11
<1>13. \A i \in 1..n : c[i] = Reaches(c[i - 1], subs[i], u)
  BY <1>1, <1>10
<1> HIDE DEF c
<1> QED
  BY <1>12, <1>13 DEF n

LEMMA HearWorld ==
  ASSUME BindingTyped, DirectoryInv, SubsTyped, NEW u \in Sent, NEW w \in Worlds
  PROVE  Hear(w, u) \in Worlds
<1>1. PICK c \in [0..Len(subs) -> Worlds] : c[Len(subs)] = Hear(w, u)
  BY HearChain
<1>2. Len(subs) \in 0..Len(subs)
  BY DEF SubsTyped
<1> QED
  BY <1>1, <1>2

(* The subscribers hear of several updates.                                *)
LEMMA FarewellChain ==
  ASSUME BindingTyped, DirectoryInv, SubsTyped, NEW ss \in Seq(Sent), NEW w \in Worlds
  PROVE  \E c \in [0..Len(ss) -> Worlds] :
            /\ c[0] = w /\ c[Len(ss)] = FoldLeft(Hear, w, ss)
            /\ \A i \in 1..Len(ss) : c[i] = Hear(c[i - 1], ss[i])
<1> DEFINE n == Len(ss)
           g == [p \in (1..n) \X Worlds |-> Hear(p[2], ss[p[1]])]
           R(f) == f = [s \in SUBSET (1..n) |-> IF s = {} THEN w ELSE Hear(f[s \ {Max(s)}], ss[Max(s)])]
           F == CHOOSE f : R(f)
<1>1. n \in Nat /\ DOMAIN ss = 1..n
  OBVIOUS
<1>2. \A i \in 1..n : \A x \in Worlds : Hear(x, ss[i]) \in Worlds
  BY HearWorld
<1>3. g \in [(1..n) \X Worlds -> Worlds] /\ \A i \in 1..n : \A x \in Worlds : g[<<i, x>>] = Hear(x, ss[i])
  BY <1>2
<1>4. FoldLeft(Hear, w, ss) = F[1..n]
  BY <1>1 DEF FoldLeft, MapThenFoldSet
<1> HIDE DEF n, g
<1>5. PICK f \in [SUBSET (1..n) -> Worlds] : Fold(f, g, w, n)
  BY <1>1, <1>3, FoldExists
<1>6. \A s \in SUBSET (1..n) : s # {} =>
          g[<<Max(s), f[s \ {Max(s)}]>>] = Hear(f[s \ {Max(s)}], ss[Max(s)])
  BY <1>1, <1>3, <1>5, MaxIn
<1>7. R(f)
  BY <1>5, <1>6 DEF Fold
<1>8. R(F)
  BY <1>7
<1> HIDE DEF F
<1>9. \A s \in SUBSET (1..n) : F[s] = IF s = {} THEN w ELSE Hear(F[s \ {Max(s)}], ss[Max(s)])
  BY <1>8
<1>0. F[1..0] = w
  <2>1. 1..0 = {} /\ {} \in SUBSET (1..n)
    OBVIOUS
  <2> QED
    BY <1>9, <2>1
<1>10. ASSUME NEW i \in 1..n PROVE F[1..i] = Hear(F[1..(i - 1)], ss[i])
  <2>1. Max(1..i) = i /\ 1..i \in SUBSET (1..n) /\ 1..i # {}
    BY <1>1, LastPosition
  <2>2. F[1..i] = Hear(F[(1..i) \ {i}], ss[i])
    BY <1>9, <2>1
  <2>3. (1..i) \ {i} = 1..(i - 1)
    BY <1>1
  <2> QED
    BY <2>2, <2>3
<1>11. \A i \in 0..n : F[1..i] \in Worlds
  <2> DEFINE S == {i \in 0..n : F[1..i] \in Worlds}
  <2>1. 0 \in S
    BY <1>1, <1>0
  <2>2. \A i \in 1..n : i - 1 \in S => i \in S
    BY <1>1, <1>2, <1>10
  <2> HIDE DEF S
  <2>3. 0..n \subseteq S
    BY <1>1, <2>1, <2>2, CountUp
  <2> QED
    BY <2>3 DEF S
<1> DEFINE c == [i \in 0..n |-> F[1..i]]
<1>12. c \in [0..n -> Worlds] /\ c[0] = w /\ c[n] = FoldLeft(Hear, w, ss)
  BY <1>1, <1>4, <1>0, <1>11
<1>13. \A i \in 1..n : c[i] = Hear(c[i - 1], ss[i])
  BY <1>1, <1>10
<1> HIDE DEF c
<1> QED
  BY <1>12, <1>13 DEF n

-----------------------------------------------------------------------------
(* What subscribers have been sent.                                        *)
SubGood(s) ==
    /\ s.snapshot \subseteq Sent /\ IsFiniteSet(s.snapshot)
    /\ s.buffer \in Seq(Sent)
    /\ s.closed => s.buffer = <<>>
Goods(ss) == \A n \in 1..Len(ss) : SubGood(ss[n])

LEMMA EmittedGood ==
  ASSUME SubsTyped, Goods(subs), NEW u \in Sent
  PROVE  Goods(Emitted(subs, u))
<1> DEFINE ss == Emitted(subs, u)
<1>1. DOMAIN subs = 1..Len(subs) /\ Len(subs) \in Nat /\ \A n \in 1..Len(subs) : subs[n] \in Subscribers
  BY DEF SubsTyped
<1>2. /\ ss = [n \in 1..Len(subs) |-> ss[n]]
      /\ \A n \in 1..Len(subs) : ss[n] =
           IF subs[n].listed /\ ~subs[n].closed
           THEN [subs[n] EXCEPT !.covered = Covered(subs[n], u),
                                !.buffer = IF Wants(subs[n], u) /\ ~subs[n].active
                                           THEN Append(@, u) ELSE @]
           ELSE subs[n]
  BY <1>1 DEF Emitted
<1> HIDE DEF ss
<1>3. Len(ss) = Len(subs)
  <2> DEFINE T == {ss[n] : n \in 1..Len(subs)}
  <2>1. ss \in [1..Len(subs) -> T]
    BY <1>2
  <2> HIDE DEF T
  <2>2. ss \in Seq(T)
    BY <1>1, <2>1
  <2> QED
    BY <1>1, <2>1, <2>2
<1>4. ASSUME NEW s \in Subscribers, SubGood(s), ~s.closed, NEW C, NEW b \in BOOLEAN
      PROVE  SubGood([s EXCEPT !.covered = C, !.buffer = IF b THEN Append(@, u) ELSE @])
  <2> DEFINE B == IF b THEN Append(s.buffer, u) ELSE s.buffer
             r == [s EXCEPT !.covered = C, !.buffer = B]
  <2>1. B \in Seq(Sent)
    BY <1>4 DEF SubGood
  <2> HIDE DEF B
  <2>2. r.snapshot = s.snapshot /\ r.buffer = B /\ r.closed = s.closed
    BY DEF Subscribers
  <2>3. SubGood(r)
    BY <1>4, <2>1, <2>2 DEF SubGood
  <2>4. r = [s EXCEPT !.covered = C, !.buffer = IF b THEN Append(@, u) ELSE @]
    BY DEF B, Subscribers
  <2> QED
    BY <2>3, <2>4
<1>5. ASSUME NEW n \in 1..Len(subs) PROVE SubGood(ss[n])
  <2>1. SubGood(subs[n]) /\ subs[n] \in Subscribers
    BY <1>1 DEF Goods
  <2>2. (Wants(subs[n], u) /\ ~subs[n].active) \in BOOLEAN
    OBVIOUS
  <2> QED
    BY <1>2, <1>4, <2>1, <2>2
<1> QED
  BY <1>3, <1>5 DEF Goods, ss

LEMMA ClosedGood ==
  ASSUME NEW s \in Subscribers
  PROVE  SubGood(Closed(s))
<1>1. Closed(s).snapshot = {} /\ Closed(s).buffer = <<>>
  BY DEF Closed, Subscribers
<1>2. <<>> \in Seq(Sent) /\ IsFiniteSet({})
  BY FS_EmptySet
<1> QED
  BY <1>1, <1>2 DEF SubGood

LEMMA CloseSubGood ==
  ASSUME SubsTyped, Goods(subs), NEW m \in 0..Len(subs)
  PROVE  Goods(CloseSub(subs, m))
<1>1. CASE m = 0
  BY <1>1 DEF CloseSub
<1>2. CASE m # 0
  <2>1. subs[m] \in Subscribers /\ m \in 1..Len(subs) /\ DOMAIN subs = 1..Len(subs)
    BY <1>2 DEF SubsTyped
  <2>2. CloseSub(subs, m) = [subs EXCEPT ![m] = Closed(subs[m])]
    BY <1>2 DEF CloseSub
  <2>3. Len(CloseSub(subs, m)) = Len(subs)
    BY <2>2 DEF SubsTyped
  <2>4. \A n \in 1..Len(subs) : SubGood(CloseSub(subs, m)[n])
    BY <2>1, <2>2, ClosedGood DEF Goods
  <2> QED
    BY <2>3, <2>4 DEF Goods
<1> QED
  BY <1>1, <1>2

LEMMA SlotSent ==
  ASSUME ProviderTyped, NEW k \in Slots, live[k] # 0
  PROVE  /\ Update("spawned", k, Value(k)) \in Sent
         /\ Farewell(k) \in Sent
<1>1. k \in Keys /\ live[k] \in 0..MaxLives
  BY ServiceAssumption DEF Slots, ProviderTyped
<1>2. Value(k) \in Vals /\ Value(k).life = live[k]
  BY <1>1, ValueIn DEF Value
<1>3. Gen(Value(k).life) = IF Keyed THEN live[k] ELSE 0
  BY <1>2 DEF Gen
<1>4. /\ Update("spawned", k, Value(k)) \in Updates /\ Update("closed", k, Value(k)) \in Updates
      /\ Update("unavailable", k, Value(k)) \in Updates
  BY <1>1, <1>2, UpdateIn
<1> QED
  BY <1>3, <1>4 DEF Sent, Farewell, Update

(* The farewells of dispose in their order.                                *)
LEMMA FarewellsSent ==
  ASSUME ProviderTyped
  PROVE  Farewells \in Seq(Sent)
<1> DEFINE S == {k \in Slots : live[k] # 0}
           n == Cardinality(S)
<1>1. S \subseteq Keys /\ IsFiniteSet(Keys)
  BY ServiceAssumption DEF Slots
<1>2. IsFiniteSet(S) /\ n \in Nat
  BY <1>1, FS_Subset, FS_CardinalityType
<1>3. SetToSeq(S) \in [1..n -> S]
  BY <1>2, ListingIs
<1>4. \A i \in 1..n : Farewell(SetToSeq(S)[i]) \in Sent
  BY <1>3, SlotSent
<1>5. Farewells \in [1..n -> Sent]
  BY <1>3, <1>4 DEF Farewells
<1> HIDE DEF n, S
<1> QED
  BY <1>2, <1>5

LEMMA EndedGood ==
  ASSUME ProviderTyped, NEW s \in Subscribers, SubGood(s)
  PROVE  SubGood(Ended(s))
<1>1. CASE ~s.listed \/ s.closed
  BY <1>1 DEF Ended
<1>2. CASE s.listed /\ ~s.closed /\ s.active
  BY <1>2, ClosedGood DEF Ended
<1>3. CASE s.listed /\ ~s.closed /\ ~s.active
  <2> DEFINE B == s.buffer \o Farewells
  <2>1. B \in Seq(Sent)
    BY FarewellsSent DEF SubGood
  <2>2. Ended(s) = [s EXCEPT !.terminated = TRUE, !.listed = FALSE, !.covered = {}, !.buffer = B]
    BY <1>3 DEF Ended, Subscribers
  <2> HIDE DEF B
  <2>3. Ended(s).buffer = B /\ Ended(s).snapshot = s.snapshot /\ Ended(s).closed = s.closed
    BY <2>2 DEF Subscribers
  <2> QED
    BY <1>3, <2>1, <2>3 DEF SubGood
<1> QED
  BY <1>1, <1>2, <1>3 DEF Subscribers

LEMMA NewGood ==
  ASSUME ProviderTyped, NEW rev
  PROVE  SubGood(Subscriber(rev))
<1> DEFINE S == {k \in Slots : live[k] # 0}
           f == [k \in S |-> Update("spawned", k, Value(k))]
           T == {Update("spawned", k, Value(k)) : k \in S}
<1>1. IsFiniteSet(S)
  BY ServiceAssumption, FS_Subset DEF Slots
<1>2. T = {f[k] : k \in S} /\ T \subseteq Sent
  BY SlotSent
<1>3. IsFiniteSet(T)
  <2> HIDE DEF S
  <2>1. f \in Surjection(S, T)
    BY DEF Surjection
  <2> HIDE DEF f, T
  <2> QED
    BY <1>1, <2>1, FS_Surjection
<1>4. <<>> \in Seq(Sent)
  OBVIOUS
<1>5. /\ Subscriber(rev).snapshot = T /\ Subscriber(rev).buffer = <<>>
  BY DEF Subscriber
<1> QED
  BY <1>2, <1>3, <1>4, <1>5 DEF SubGood

LEMMA StartGood ==
  ASSUME ProviderTyped, SubsTyped, Goods(subs), NEW rev, NEW others, Start(rev, others)
  PROVE  Goods(subs')
<1>1. CASE CanSubscribe
  <2> DEFINE s == Subscriber(rev)
  <2>1. SubGood(s) /\ subs' = Append(subs, s)
    BY <1>1, NewGood DEF Start
  <2> HIDE DEF s
  <2>2. /\ Len(subs') = Len(subs) + 1 /\ subs'[Len(subs) + 1] = s
        /\ \A i \in 1..Len(subs) : subs'[i] = subs[i]
        /\ Len(subs) \in Nat
    BY <2>1 DEF SubsTyped
  <2> QED
    BY <2>1, <2>2 DEF Goods
<1>2. CASE ~CanSubscribe
  BY <1>2 DEF Start
<1> QED
  BY <1>1, <1>2

-----------------------------------------------------------------------------
(* The state of deliveries: the world of the consumer is one, subscribers  *)
(* hold what was sent.                                                     *)
Sane == /\ Coherent /\ mode \in Modes /\ DirectoryInv
        /\ World \in Worlds /\ Goods(subs)

LEMMA WorldFields ==
  World.held = held /\ World.running = running /\ World.faults = faults
BY DEF World

LEMMA BecomesWorld ==
  ASSUME NEW w \in Worlds, Becomes(w)
  PROVE  World' = w
BY WorldIs DEF Becomes, World

(* A step that leaves the mode, the directory and the observers alone      *)
(* leaves the notions of the deliveries alone.                             *)
SameFrame == mode' = mode /\ binding'.ready = binding.ready /\ binding'.observers = binding.observers

LEMMA FrameKept ==
  ASSUME SameFrame
  PROVE  Worlds' = Worlds /\ (DirectoryInv => DirectoryInv')
<1>1. Keyed' = Keyed /\ UNCHANGED <<binding.ready, binding.observers>>
  BY DEF SameFrame, Keyed
<1>2. \A w : Filled(w)' <=> Filled(w)
  BY <1>1 DEF Filled
<1> QED
  BY <1>1 DEF Worlds, Follow, Filled, DirectoryInv

LEMMA SentKept ==
  ASSUME mode' = mode
  PROVE  Sent' = Sent /\ (Goods(subs') => Goods(subs)')
BY DEF Sent, Keyed, Goods, SubGood

LEMMA SaneFrame ==
  ASSUME Sane, Coherent', SameFrame, World' \in Worlds, Goods(subs')
  PROVE  Sane'
BY FrameKept, SentKept DEF Sane, SameFrame

(* The provider emits an update.                                           *)
LEMMA EmitSane ==
  ASSUME Sane, Coherent', NEW u \in Sent, Emit(u), UNCHANGED consumer
  PROVE  Sane'
<1>1. SameFrame
  BY DEF SameFrame, consumer
<1>2. World' \in Worlds
  BY HearWorld, BecomesWorld DEF Emit, Sane, Coherent, Typed
<1>3. Goods(subs')
  BY EmittedGood DEF Emit, Sane, Coherent, Typed
<1> QED
  BY <1>1, <1>2, <1>3, SaneFrame

LEMMA ReplaceSent ==
  ASSUME Typed, Replace
  PROVE  Update("replaced", Sole, [life |-> live'[Sole], seq |-> 0]) \in Sent
<1>1. Sole \in Keys /\ ~Keyed
  BY ServiceAssumption DEF Replace
<1>2. [life |-> live'[Sole], seq |-> 0] \in Vals
  BY <1>1, OpenTyped DEF Replace, Typed
<1> QED
  BY <1>1, <1>2, UpdateIn DEF Sent

LEMMA WithdrawSent ==
  ASSUME Typed, Withdraw
  PROVE  Update("unavailable", Sole, Cold) \in Sent
<1>1. Sole \in Keys /\ ~Keyed
  BY ServiceAssumption DEF Withdraw
<1> QED
  BY <1>1, ValueIn, UpdateIn DEF Sent, Typed

LEMMA SpawnSent ==
  ASSUME Typed, NEW k \in Keys, SpawnInstance(k)
  PROVE  /\ Update("spawned", k, [life |-> live'[k], seq |-> 0]) \in Sent
         /\ live'[k] = lives[k] + 1 /\ live'[k] # 0
<1>1. [life |-> live'[k], seq |-> 0] \in Vals
  BY OpenTyped DEF SpawnInstance, Typed
<1>2. Keyed /\ live'[k] = lives[k] + 1 /\ live'[k] # 0
  BY DEF SpawnInstance, Open, Typed, ProviderTyped
<1>3. Update("spawned", k, [life |-> live'[k], seq |-> 0]) \in Updates
  BY <1>1, UpdateIn
<1>4. /\ Update("spawned", k, [life |-> live'[k], seq |-> 0]).type = "spawned"
      /\ Update("spawned", k, [life |-> live'[k], seq |-> 0]).gen = live'[k]
  BY <1>2 DEF Update, Gen
<1> QED
  BY <1>2, <1>3, <1>4 DEF Sent

LEMMA CloseSent ==
  ASSUME Typed, NEW k \in Keys, CloseInstance(k)
  PROVE  Update("closed", k, Value(k)) \in Sent
<1>1. Keyed /\ live[k] # 0
  BY DEF CloseInstance
<1>2. Value(k) \in Vals /\ Value(k).life = live[k]
  BY <1>1, ValueIn DEF Typed, Value
<1>3. Update("closed", k, Value(k)) \in Updates
  BY <1>2, UpdateIn
<1>4. Update("closed", k, Value(k)).type = "closed" /\ Update("closed", k, Value(k)).gen = live[k]
  BY <1>1, <1>2 DEF Update, Gen
<1> QED
  BY <1>1, <1>3, <1>4 DEF Sent

LEMMA ChangeSent ==
  ASSUME Typed, NEW k \in Keys, Change(k)
  PROVE  Update("state", k, [life |-> live[k], seq |-> seq'[k]]) \in Sent
<1>1. live[k] # 0
  BY DEF Change
<1>2. [life |-> live[k], seq |-> seq'[k]] \in Vals
  BY ServiceAssumption DEF Change, Typed, ProviderTyped, Vals
<1>3. Update("state", k, [life |-> live[k], seq |-> seq'[k]]) \in Updates
  BY <1>2, UpdateIn
<1>4. /\ Update("state", k, [life |-> live[k], seq |-> seq'[k]]).type = "state"
      /\ Update("state", k, [life |-> live[k], seq |-> seq'[k]]).gen = IF Keyed THEN live[k] ELSE 0
  BY DEF Update, Gen
<1> QED
  BY <1>1, <1>3, <1>4 DEF Sent

LEMMA DisposeSane ==
  ASSUME Sane, Coherent', Dispose
  PROVE  Sane'
<1>1. SameFrame
  BY DEF Dispose, SameFrame, consumer
<1>2. BindingTyped /\ SubsTyped /\ ProviderTyped /\ DirectoryInv /\ World \in Worlds /\ Goods(subs)
  BY DEF Sane, Coherent, Typed
<1>3. Farewells \in Seq(Sent)
  BY <1>2, FarewellsSent
<1>4. World' \in Worlds
  <2>1. PICK c \in [0..Len(Farewells) -> Worlds] : c[Len(Farewells)] = FoldLeft(Hear, World, Farewells)
    BY <1>2, <1>3, FarewellChain
  <2> DEFINE w == FoldLeft(Hear, World, Farewells)
  <2>2. Becomes(w)
    BY DEF Dispose
  <2>3. c[Len(Farewells)] = w
    BY <2>1
  <2> HIDE DEF w
  <2>4. Len(Farewells) \in 0..Len(Farewells)
    BY <1>3
  <2>5. w \in Worlds
    BY <2>1, <2>3, <2>4
  <2> QED
    BY <2>2, <2>5, BecomesWorld
<1>5. Goods(subs')
  <2>1. DOMAIN subs = 1..Len(subs) /\ \A n \in 1..Len(subs) : subs[n] \in Subscribers
    BY <1>2 DEF SubsTyped
  <2>2. \A n \in 1..Len(subs) : subs'[n] = Ended(subs[n])
    BY <2>1 DEF Dispose
  <2>3. Len(subs') = Len(subs)
    BY DisposeEffect DEF Sane, Coherent
  <2> QED
    BY <1>2, <2>1, <2>2, <2>3, EndedGood DEF Goods
<1> QED
  BY <1>1, <1>4, <1>5, SaneFrame

(* The replicas are cleared and the handlers cancelled.                    *)
LEMMA ResetWorld ==
  ASSUME Sane, Reset, faults' = faults
  PROVE  (World \in Worlds)' /\ Goods(subs')
<1>1. /\ held' = [k \in Keys |-> NoEntry] /\ running' = {} /\ faults' = faults
      /\ faults \in SUBSET Errors
  BY WorldIs, WorldFields DEF Reset, Sane
<1>2. World' = [held |-> held', running |-> {}, faults |-> faults]
  BY <1>1 DEF World
<1>3. held' \in [Keys -> Entries] /\ \A k \in Keys : held'[k] = NoEntry
  BY <1>1, NoEntryIn
<1>4. Filled(World)' /\ Follow(World)'
  <2>1. World'.held = held' /\ World'.running = {}
    BY <1>2
  <2>2. \A k \in Keys : World'.held[k] = NoEntry
    BY <1>3, <2>1
  <2>3. Filled(World)'
    BY <2>2 DEF Filled
  <2>4. Follow(World)'
    BY <2>1, <2>2 DEF Follow, Runs
  <2> QED
    BY <2>3, <2>4
<1>5. (World \in Worlds)'
  <2>1. World' \in [held : [Keys -> Entries], running : SUBSET Runs, faults : SUBSET Errors]
    BY <1>1, <1>2, <1>3
  <2> QED
    BY <1>4, <2>1 DEF Worlds
<1>6. Goods(subs')
  <2>1. binding.sub \in 0..Len(subs) /\ SubsTyped /\ Goods(subs)
    BY DEF Sane, Coherent, Typed, BindingTyped, SubsTyped, OwnInv
  <2> QED
    BY <2>1, CloseSubGood DEF Reset
<1> QED
  BY <1>5, <1>6

LEMMA ClosesSane ==
  ASSUME Sane, Coherent', CloseBinding, faults' = faults, mode' = mode
  PROVE  Sane'
<1>1. (World \in Worlds)' /\ Goods(subs')
  BY ResetWorld DEF CloseBinding
<1>2. DirectoryInv'
  BY DEF CloseBinding, Shut, DirectoryInv
<1> QED
  BY <1>1, <1>2, SentKept DEF Sane

(* The consumer has not heard anything.                                    *)
LEMMA QuietSane ==
  ASSUME Sane, Coherent', SameFrame, UNCHANGED <<held, running, faults>>, Goods(subs')
  PROVE  Sane'
<1>1. World' = World
  BY DEF World
<1> QED
  BY <1>1, SaneFrame DEF Sane

LEMMA UseSane ==
  ASSUME Sane, Coherent', Use
  PROVE  Sane'
<1>1. SameFrame /\ UNCHANGED <<held, running, faults>>
  BY DEF Use, SameFrame, Sane, Coherent, Typed, BindingTyped
<1>2. Goods(subs')
  BY StartGood DEF Use, Sane, Coherent, Typed
<1> QED
  BY <1>1, <1>2, QuietSane

LEMMA ObserveSane ==
  ASSUME Sane, Coherent', NEW o \in Observers, Observe(o)
  PROVE  Sane'
<1>1. /\ mode' = mode /\ held' = held /\ faults' = faults /\ Keyed
      /\ binding'.ready = binding.ready /\ binding'.observers = binding.observers \cup {o}
  BY DEF Observe, Sane, Coherent, Typed, BindingTyped
<1>2. Goods(subs')
  BY StartGood DEF Observe, Sane, Coherent, Typed
<1>3. /\ held \in [Keys -> Entries] /\ running \subseteq Runs /\ faults \in SUBSET Errors
      /\ Follow(World) /\ Filled(World)
  BY WorldIs, WorldFields DEF Sane
<1> DEFINE K == {k \in Keys : binding.ready /\ held[k] # NoEntry}
           N == {[observer |-> o, key |-> k, gen |-> held[k].gen] : k \in K}
<1>4. running' = running \cup N
  BY DEF Observe
<1>5. \A h : h \in N <=> /\ h \in Runs /\ binding.ready /\ h.observer = o
                         /\ held[h.key] # NoEntry /\ h.gen = held[h.key].gen
  <2>1. \A k \in K : held[k].gen \in 1..MaxLives
    BY <1>1, <1>3, WorldFields DEF Filled, Entries
  <2>2. ASSUME NEW h \in N
        PROVE  /\ h \in Runs /\ binding.ready /\ h.observer = o
               /\ held[h.key] # NoEntry /\ h.gen = held[h.key].gen
    BY <2>1 DEF Runs
  <2>3. ASSUME NEW h \in Runs, binding.ready, h.observer = o, held[h.key] # NoEntry, h.gen = held[h.key].gen
        PROVE  h \in N
    <3>1. h.key \in K /\ h = [observer |-> o, key |-> h.key, gen |-> held[h.key].gen]
      BY <2>3 DEF Runs
    <3> QED
      BY <3>1
  <2> QED
    BY <2>2, <2>3
<1> HIDE DEF N
<1>6. World' = [held |-> held, running |-> running \cup N, faults |-> faults]
  BY <1>1, <1>4 DEF World
<1>7. N \subseteq Runs
  BY <1>5
<1>8. Follow(World)'
  <2>1. World'.held = held /\ World'.running = running \cup N
    BY <1>6
  <2>2. \A h : h \in running <=> /\ h \in Runs /\ binding.ready /\ h.observer \in binding.observers
                                 /\ held[h.key] # NoEntry /\ h.gen = held[h.key].gen
    BY <1>3, WorldFields DEF Follow
  <2> QED
    BY <1>1, <1>5, <2>1, <2>2 DEF Follow
<1>9. Filled(World)'
  <2>1. World'.held = held /\ Keyed'
    BY <1>1, <1>6 DEF Keyed
  <2> QED
    BY <1>1, <1>3, <2>1, WorldFields DEF Filled
<1>10. (World \in Worlds)'
  <2>1. World' \in [held : [Keys -> Entries], running : SUBSET Runs, faults : SUBSET Errors]
    BY <1>3, <1>6, <1>7
  <2> QED
    BY <1>8, <1>9, <2>1 DEF Worlds
<1>11. DirectoryInv'
  BY <1>1 DEF DirectoryInv, Keyed
<1> QED
  BY <1>1, <1>2, <1>10, <1>11, SentKept DEF Sane

LEMMA StopObservingSane ==
  ASSUME Sane, Coherent', NEW o \in Observers, StopObserving(o)
  PROVE  Sane'
<1>1. CASE binding.observers = {o}
  BY <1>1, ClosesSane DEF StopObserving
<1>2. CASE binding.observers # {o}
  <2>1. /\ mode' = mode /\ held' = held /\ faults' = faults /\ subs' = subs
        /\ binding'.ready = binding.ready /\ binding'.observers = binding.observers \ {o}
        /\ running' = {h \in running : h.observer # o}
    BY <1>2 DEF StopObserving, Sane, Coherent, Typed, BindingTyped
  <2>2. /\ held \in [Keys -> Entries] /\ running \subseteq Runs /\ faults \in SUBSET Errors
        /\ Follow(World) /\ Filled(World)
    BY WorldIs, WorldFields DEF Sane
  <2>3. World' = [held |-> held, running |-> running', faults |-> faults]
    BY <2>1 DEF World
  <2>4. World'.held = held /\ World'.running = running' /\ running' \subseteq Runs
    BY <2>1, <2>2, <2>3
  <2>5. Follow(World)'
    BY <2>1, <2>2, <2>4, WorldFields DEF Follow
  <2>6. Filled(World)'
    BY <2>1, <2>2, <2>4, WorldFields DEF Filled, Keyed
  <2>7. (World \in Worlds)'
    <3>1. World' \in [held : [Keys -> Entries], running : SUBSET Runs, faults : SUBSET Errors]
      BY <2>2, <2>3, <2>4
    <3> QED
      BY <2>5, <2>6, <3>1 DEF Worlds
  <2>8. DirectoryInv'
    BY <2>1 DEF DirectoryInv, Sane, Keyed
  <2> QED
    BY <2>1, <2>7, <2>8, SentKept DEF Sane
<1> QED
  BY <1>1, <1>2

LEMMA RebindSane ==
  ASSUME Sane, Coherent', NEW to \in BOOLEAN, Rebind(to)
  PROVE  Sane'
<1>1. CASE ~binding.open
  BY <1>1, QuietSane DEF Rebind, SameFrame, Sane
<1>2. CASE binding.open
  <2>1. Reset /\ faults' = faults /\ mode' = mode /\ ~binding'.ready
    BY <1>2 DEF Rebind, Sane, Coherent, Typed, BindingTyped
  <2>2. (World \in Worlds)' /\ Goods(subs')
    BY <2>1, ResetWorld
  <2> QED
    BY <2>1, <2>2, SentKept DEF Sane, DirectoryInv
<1> QED
  BY <1>1, <1>2

LEMMA RestartSane ==
  ASSUME Sane, Coherent', NEW t \in tasks, Restart(t)
  PROVE  Sane'
<1>1. SameFrame /\ UNCHANGED <<held, running, faults>>
  BY DEF Restart, SameFrame, Sane, Coherent, Typed, BindingTyped
<1>2. Goods(subs')
  BY StartGood DEF Restart, Sane, Coherent, Typed
<1> QED
  BY <1>1, <1>2, QuietSane

LEMMA LateSane ==
  ASSUME Sane, Coherent', NEW t \in tasks, Late(t)
  PROVE  Sane'
<1>1. SameFrame /\ UNCHANGED <<held, running, faults>>
  BY DEF Late, SameFrame
<1>2. t.sub \in 0..Len(subs)
  BY DEF Sane, Coherent, OwnInv, Typed, TasksTyped, Tasks, SubsTyped
<1>3. Goods(subs')
  BY <1>2, CloseSubGood DEF Late, Sane, Coherent, Typed
<1> QED
  BY <1>1, <1>3, QuietSane

LEMMA RefusedSane ==
  ASSUME Sane, Coherent', NEW t \in tasks, Refused(t)
  PROVE  Sane'
<1>1. SameFrame /\ UNCHANGED <<held, running, faults, subs>>
  BY DEF Refused, Fails, SameFrame, Sane, Coherent, Typed, BindingTyped
<1> QED
  BY <1>1, QuietSane DEF Sane

(* The world after a snapshot is installed, and after what was buffered.   *)
LEMMA InstalledWorld ==
  ASSUME Sane, NEW t \in tasks, t.sub # 0
  PROVE  /\ [World EXCEPT !.faults = {}] \in Worlds
         /\ Installed(t) \in Worlds /\ Caught(t) \in Worlds
         /\ SetToSeq(subs[t.sub].snapshot) \in Seq(Sent) /\ subs[t.sub].buffer \in Seq(Sent)
<1> DEFINE w == [World EXCEPT !.faults = {}]
           S == subs[t.sub].snapshot
           b == subs[t.sub].buffer
<1>1. t.sub \in 1..Len(subs)
  BY DEF Sane, Coherent, OwnInv, Typed, TasksTyped, Tasks, SubsTyped
<1>2. S \subseteq Sent /\ IsFiniteSet(S) /\ b \in Seq(Sent)
  BY <1>1 DEF Sane, Goods, SubGood
<1>3. w \in Worlds
  <2>1. w = [held |-> held, running |-> running, faults |-> {}]
    BY DEF World
  <2> HIDE DEF w
  <2>2. w.held = held /\ w.running = running
    BY <2>1
  <2>3. Follow(w) /\ Filled(w)
    BY <2>2, WorldIs, WorldFields DEF Sane, Follow, Filled
  <2> QED
    BY <2>1, <2>3, WorldIs, WorldFields DEF Sane, Worlds
<1>4. SetToSeq(S) \in Seq(Sent)
  <2> DEFINE n == Cardinality(S)
             q == SetToSeq(S)
  <2>1. n \in Nat /\ q \in [1..n -> S]
    BY <1>2, ListingIs
  <2> HIDE DEF n, q
  <2>2. q \in [1..n -> Sent]
    BY <1>2, <2>1
  <2>3. q \in Seq(Sent)
    BY <2>1, <2>2
  <2> QED
    BY <2>3 DEF q
<1> HIDE DEF w
<1>5. BindingTyped /\ DirectoryInv
  BY DEF Sane, Coherent, Typed
<1>6. Installed(t) \in Worlds
  <2> DEFINE q == SetToSeq(S)
  <2>1. Installed(t) = FoldLeft(Install, w, q)
    BY DEF Installed, w
  <2>2. q \in Seq(Sent)
    BY <1>4
  <2> HIDE DEF q
  <2>3. PICK c \in [0..Len(q) -> Worlds] : c[Len(q)] = FoldLeft(Install, w, q)
    BY <1>3, <1>5, <2>2, InstallChain
  <2>4. Len(q) \in 0..Len(q)
    BY <2>2
  <2>5. c[Len(q)] \in Worlds
    BY <2>4
  <2> QED
    BY <2>1, <2>3, <2>5
<1>7. Caught(t) \in Worlds
  <2> DEFINE v == Installed(t)
  <2>1. Caught(t) = CatchUp(v, t.rev, b)
    BY DEF Caught, CatchUp
  <2>2. v \in Worlds
    BY <1>6
  <2> HIDE DEF v, b
  <2>3. PICK c \in [0..Len(b) -> Worlds] : c[Len(b)] = CatchUp(v, t.rev, b)
    BY <1>2, <1>5, <2>2, CatchUpChain
  <2>4. Len(b) \in 0..Len(b)
    BY <1>2
  <2>5. c[Len(b)] \in Worlds
    BY <2>4
  <2> QED
    BY <2>1, <2>3, <2>5
<1> QED
  BY <1>2, <1>3, <1>4, <1>6, <1>7 DEF w

LEMMA RepeatsSane ==
  ASSUME Sane, Coherent', NEW t \in tasks, Subscribed(t), Installed(t).faults # {}
  PROVE  Sane'
<1>1. Repeats(t) /\ t.sub # 0 /\ mode' = mode
  BY DEF Subscribed
<1>2. SameFrame /\ subs' = subs
  BY <1>1 DEF Repeats, Fails, SameFrame, Sane, Coherent, Typed, BindingTyped
<1> DEFINE w == Installed(t)
<1>3. w \in Worlds
  BY <1>1, InstalledWorld
<1>4. held' = w.held /\ running' = w.running /\ faults' = faults \cup w.faults
  BY <1>1 DEF Repeats
<1> HIDE DEF w
<1>5. World' = [held |-> w.held, running |-> w.running, faults |-> faults']
  BY <1>4 DEF World
<1>6. faults' \in SUBSET Errors
  BY <1>3, <1>4, WorldIs, WorldFields DEF Sane
<1>7. World' \in Worlds
  <2> DEFINE x == [held |-> w.held, running |-> w.running, faults |-> faults']
  <2>1. x.held = w.held /\ x.running = w.running
    OBVIOUS
  <2>2. Follow(x) /\ Filled(x)
    BY <1>3, <2>1, WorldIs DEF Follow, Filled
  <2>3. x \in Worlds
    BY <1>3, <1>6, <2>2, WorldIs DEF Worlds
  <2> QED
    BY <1>5, <2>3
<1> QED
  BY <1>2, <1>7, SaneFrame DEF Sane

LEMMA ActivatesSane ==
  ASSUME Sane, Coherent', NEW t \in tasks, Subscribed(t), Installed(t).faults = {}
  PROVE  Sane'
<1>1. /\ Activates(t) /\ t.sub # 0 /\ mode' = mode
      /\ UNCHANGED <<bound, disposed>>
  BY DEF Subscribed
<1> DEFINE w == Caught(t)
           all == {k \in Keys : Keyed /\ w.held[k] # NoEntry}
           N == UNION {Handlers(k, w.held[k].gen) : k \in all}
<1>2. w \in Worlds
  BY <1>1, InstalledWorld
<1>3. held' = w.held /\ faults' = faults \cup w.faults /\ running' = w.running \cup N
  BY <1>1 DEF Activates
<1>4. binding'.ready = Keyed /\ binding'.observers = binding.observers
  BY <1>1 DEF Activates, Sane, Coherent, Typed, BindingTyped
<1> HIDE DEF w
<1>5. \A h : h \in N <=> /\ h \in Runs /\ Keyed /\ h.observer \in binding.observers
                         /\ w.held[h.key] # NoEntry /\ h.gen = w.held[h.key].gen
  <2>1. \A k \in all : w.held[k].gen \in 1..MaxLives
    BY <1>2, WorldIs DEF Filled, Entries
  <2>2. binding.observers \subseteq Observers
    BY DEF Sane, Coherent, Typed, BindingTyped
  <2>3. ASSUME NEW k \in all, NEW h \in Handlers(k, w.held[k].gen)
        PROVE  /\ h \in Runs /\ Keyed /\ h.observer \in binding.observers
               /\ w.held[h.key] # NoEntry /\ h.gen = w.held[h.key].gen
    BY <2>1, <2>2, <2>3 DEF Runs, Handlers
  <2>4. ASSUME NEW h \in Runs, Keyed, h.observer \in binding.observers,
               w.held[h.key] # NoEntry, h.gen = w.held[h.key].gen
        PROVE  h \in N
    <3>1. h.key \in all
      BY <2>4 DEF Runs
    <3>2. h \in Handlers(h.key, w.held[h.key].gen)
      BY <2>4 DEF Runs, Handlers
    <3> QED
      BY <3>1, <3>2
  <2> QED
    BY <2>3, <2>4
<1> HIDE DEF N, all
<1>6. World' = [held |-> w.held, running |-> w.running \cup N, faults |-> faults']
  BY <1>3 DEF World
<1>7. World'.held = w.held /\ World'.running = w.running \cup N /\ Keyed' = Keyed
  BY <1>1, <1>6 DEF Keyed
<1>8. Follow(World)'
  <2>1. \A h : h \in w.running <=> /\ h \in Runs /\ binding.ready /\ h.observer \in binding.observers
                                   /\ w.held[h.key] # NoEntry /\ h.gen = w.held[h.key].gen
    BY <1>2, WorldIs DEF Follow
  <2> QED
    BY <1>4, <1>5, <1>7, <2>1 DEF Follow, Sane, DirectoryInv
<1>9. Filled(World)'
  BY <1>2, <1>7, WorldIs DEF Filled
<1>10. (World \in Worlds)'
  <2>1. N \subseteq Runs
    BY <1>5
  <2>2. faults' \in SUBSET Errors
    BY <1>2, <1>3, WorldIs, WorldFields DEF Sane
  <2>3. World' \in [held : [Keys -> Entries], running : SUBSET Runs, faults : SUBSET Errors]
    BY <1>2, <1>6, <2>1, <2>2, WorldIs
  <2> QED
    BY <1>8, <1>9, <2>3 DEF Worlds
<1>11. DirectoryInv'
  BY <1>1, <1>4 DEF DirectoryInv, Keyed
<1>12. Goods(subs')
  <2>1. t.sub \in 1..Len(subs) /\ \A n \in 1..Len(subs) : subs[n] \in Subscribers
    BY <1>1 DEF Sane, Coherent, OwnInv, Typed, TasksTyped, Tasks, SubsTyped
  <2>2. /\ Len(subs') = Len(subs)
        /\ \A n \in 1..Len(subs) : n # t.sub => subs'[n] = subs[n]
    BY <1>1, ActivatesEffect DEF Sane, Coherent
  <2>3. subs'[t.sub] = Activate(subs[t.sub])
    BY <1>1, <2>1 DEF Activates, Sane, Coherent, Typed, SubsTyped
  <2>4. SubGood(Activate(subs[t.sub]))
    <3> DEFINE s == subs[t.sub]
    <3>1. s \in Subscribers
      BY <2>1
    <3> HIDE DEF s
    <3>2. Activate(s).snapshot = {} /\ Activate(s).buffer = <<>>
      BY <3>1 DEF Activate, Subscribers
    <3>3. SubGood(Activate(s))
      BY <3>2, FS_EmptySet DEF SubGood
    <3> QED
      BY <3>3 DEF s
  <2> QED
    BY <2>2, <2>3, <2>4 DEF Goods, Sane
<1> QED
  BY <1>1, <1>10, <1>11, <1>12, SentKept DEF Sane

LEMMA InitSane ==
  ASSUME Init
  PROVE  Sane
<1>1. /\ mode \in Modes /\ binding = Shut(0) /\ held = [k \in Keys |-> NoEntry]
      /\ running = {} /\ faults = {} /\ subs = <<>>
  BY DEF Init
<1>2. DirectoryInv /\ ~binding.ready
  BY <1>1 DEF DirectoryInv, Shut
<1>3. World.held = held /\ World.running = {} /\ World.faults = {} /\ World = [held |-> held, running |-> {}, faults |-> {}]
  BY <1>1 DEF World
<1>4. held \in [Keys -> Entries] /\ \A k \in Keys : held[k] = NoEntry
  BY <1>1, NoEntryIn
<1>5. Follow(World) /\ Filled(World)
  BY <1>2, <1>3, <1>4 DEF Follow, Filled
<1>6. World \in Worlds
  BY <1>3, <1>4, <1>5 DEF Worlds
<1>7. Goods(subs)
  BY <1>1 DEF Goods
<1> QED
  BY <1>1, <1>2, <1>6, <1>7, InitCoherent DEF Sane

LEMMA SaneStep ==
  ASSUME Sane, [Next]_vars
  PROVE  Sane'
<1>0. Coherent' /\ Typed
  BY CoherentStep DEF Sane, Coherent
<1>1. CASE Provide
  <2>1. SameFrame /\ UNCHANGED <<held, running, faults, subs>>
    BY <1>1 DEF Provide, SameFrame, consumer
  <2> QED
    BY <1>0, <2>1, QuietSane DEF Sane
<1>2. CASE Replace
  BY <1>0, <1>2, ReplaceSent, EmitSane DEF Replace
<1>3. CASE Withdraw
  BY <1>0, <1>3, WithdrawSent, EmitSane DEF Withdraw
<1>4. CASE Dispose \/ Use
  BY <1>0, <1>4, DisposeSane, UseSane
<1>5. CASE DisposeConsumer
  BY <1>0, <1>5, ClosesSane DEF DisposeConsumer
<1>6. CASE CallReady \/ ReadyWakes \/ UNCHANGED vars
  <2>1. SameFrame /\ UNCHANGED <<held, running, faults, subs>>
    BY <1>6 DEF CallReady, ReadyWakes, vars, SameFrame
  <2> QED
    BY <1>0, <2>1, QuietSane DEF Sane
<1>7. ASSUME NEW k \in Keys, SpawnInstance(k) PROVE Sane'
  BY <1>0, <1>7, SpawnSent, EmitSane DEF SpawnInstance
<1>8. ASSUME NEW k \in Keys, CloseInstance(k) PROVE Sane'
  BY <1>0, <1>8, CloseSent, EmitSane DEF CloseInstance
<1>9. ASSUME NEW k \in Keys, Change(k) PROVE Sane'
  BY <1>0, <1>9, ChangeSent, EmitSane DEF Change
<1>10. ASSUME NEW o \in Observers, Observe(o) \/ StopObserving(o) PROVE Sane'
  BY <1>0, <1>10, ObserveSane, StopObservingSane
<1>11. ASSUME NEW to \in BOOLEAN, Rebind(to) PROVE Sane'
  BY <1>0, <1>11, RebindSane
<1>12. ASSUME NEW t \in tasks, Continue(t) PROVE Sane'
  BY <1>0, <1>12, RestartSane, LateSane, RefusedSane, RepeatsSane, ActivatesSane DEF Continue
<1> QED
  BY <1>1, <1>2, <1>3, <1>4, <1>5, <1>6, <1>7, <1>8, <1>9, <1>10, <1>11, <1>12 DEF Next, Calls

LEMMA SaneAlways == Spec => []Sane
<1>1. Init => Sane
  BY InitSane
<1>2. Sane /\ [Next]_vars => Sane'
  BY SaneStep
<1> QED
  BY <1>1, <1>2, PTL DEF Spec

(* Every variable has its type, whatever is delivered in which order; a    *)
(* subscriber that is closed keeps no buffer (provider.ts:279).            *)
THEOREM TypeCorrect == Spec => []TypeOK
<1>1. Sane => TypeOK
  <2> SUFFICES ASSUME Sane PROVE TypeOK
    OBVIOUS
  <2>1. mode \in Modes /\ {stopped, bound, disposed} \subseteq BOOLEAN
    BY DEF Sane, Coherent, Typed, ProviderTyped, BindingTyped
  <2>2. /\ live \in [Keys -> 0..MaxLives] /\ lives \in [Keys -> 0..MaxLives] /\ seq \in [Keys -> 0..MaxSeq]
    BY DEF Sane, Coherent, Typed, ProviderTyped
  <2>3. /\ held \in [Keys -> [gen : 0..MaxLives, val : [life : 0..MaxLives, seq : 0..MaxSeq]]]
        /\ running \subseteq [observer : Observers, key : Keys, gen : 1..MaxLives]
    BY WorldIs, WorldFields DEF Sane, Entries, Vals, Runs
  <2>4. binding.observers \subseteq Observers /\ binding.sub \in 0..Len(subs)
    BY DEF Sane, Coherent, Typed, BindingTyped, SubsTyped, OwnInv
  <2>5. \A n \in DOMAIN subs : subs[n].closed => subs[n].buffer = <<>>
    BY DEF Sane, Goods, SubGood, Coherent, Typed, SubsTyped
  <2>6. \A t \in tasks : t.stage \in {"closing", "subscribing"} /\ t.sub \in 0..Len(subs)
    BY DEF Sane, Coherent, Typed, TasksTyped, Tasks, SubsTyped, OwnInv
  <2> QED
    BY <2>1, <2>2, <2>3, <2>4, <2>5, <2>6 DEF TypeOK
<1> QED
  BY <1>1, SaneAlways, PTL

(* An observer has exactly one handler running for each instance of a      *)
(* directory that is ready, for any number of keys, observers and          *)
(* generations, also after a start that failed half-way and when observe   *)
(* is called during a rebind (consumer.ts:277, instances.ts).              *)
THEOREM HandlersCorrect == Spec => []HandlersFollow
<1>1. Sane => HandlersFollow
  <2> SUFFICES ASSUME Sane PROVE HandlersFollow
    OBVIOUS
  <2> DEFINE all == {k \in Keys : binding.ready /\ held[k] # NoEntry}
  <2>1. /\ Follow(World) /\ Filled(World) /\ held \in [Keys -> Entries]
        /\ binding.observers \subseteq Observers
    BY WorldIs, WorldFields DEF Sane, Coherent, Typed, BindingTyped
  <2>2. \A k \in all : held[k].gen \in 1..MaxLives
    BY <2>1, WorldFields DEF Filled, Entries, Sane, DirectoryInv
  <2>3. ASSUME NEW h \in running
        PROVE  h \in UNION {Handlers(k, held[k].gen) : k \in all}
    <3>1. /\ h \in Runs /\ binding.ready /\ h.observer \in binding.observers
          /\ held[h.key] # NoEntry /\ h.gen = held[h.key].gen
      BY <2>1, <2>3, WorldFields DEF Follow
    <3>2. h.key \in all /\ h \in Handlers(h.key, held[h.key].gen)
      BY <3>1 DEF Runs, Handlers
    <3> QED
      BY <3>2
  <2>4. ASSUME NEW k \in all, NEW h \in Handlers(k, held[k].gen)
        PROVE  h \in running
    <3>1. /\ h \in Runs /\ binding.ready /\ h.observer \in binding.observers
          /\ held[h.key] # NoEntry /\ h.gen = held[h.key].gen
      BY <2>1, <2>2 DEF Runs, Handlers
    <3> QED
      BY <2>1, <3>1, WorldFields DEF Follow
  <2> QED
    BY <2>3, <2>4 DEF HandlersFollow
<1> QED
  BY <1>1, SaneAlways, PTL
=============================================================================
