-------------------------- MODULE AgentLoopProofs --------------------------
(***************************************************************************)
(* Proofs about AgentLoop, for any modes, hooks and bounds: what its five  *)
(* invariants say, and that every step of the loop is one of AgentRun's.   *)
(***************************************************************************)
EXTENDS AgentLoop, FiniteSetTheorems, WellFoundedInduction, TLAPS

(* The parts of TypeOK.                                                    *)
FlagsTyped ==
    /\ aborted \in BOOLEAN /\ skipPoll \in BOOLEAN /\ more \in BOOLEAN /\ explicit \in BOOLEAN
    /\ completed \in BOOLEAN /\ wanted \in BOOLEAN
QueuesTyped ==
    /\ steering \in Seq(Message) /\ followUps \in Seq(Message) /\ pending \in Seq(Message)
    /\ status \in Seq(Message) /\ outbox \in Seq(Message) /\ turn \in Seq(Message)
    /\ delivered \in Seq(Message) /\ accepted \subseteq Message /\ left \in Nat /\ asked \in Nat
CallsTyped ==
    /\ mode \in {"none", "truncated", "sequential", "parallel"}
    /\ calls \in Seq(CallStates) /\ terminate \subseteq DOMAIN calls
Typed == pc \in PCs /\ FlagsTyped /\ QueuesTyped /\ CallsTyped

(* Messages by their roles.                                                *)
Of(roles) == [role : roles, n : Nat]
Steers    == Of({"steer"})
FollowUps == Of({"followUp"})
Users     == Of({"steer", "followUp"})
Inputs    == Of({"prompt", "steer", "followUp", "system", "status"})
Results   == Of({"toolResult"})

(* What each queue holds, where the loop is: the loop emits the messages   *)
(* it has taken over before a request, and tool results in a batch.        *)
Batch     == {"tools", "running", "results"}
Opening   == {"started", "prompts"}
Emitting  == Opening \cup {"deliver"}
Asking    == {"stream", "refused"}
Broken    == {"idle", "failing"}
KindsInv ==
    /\ steering \in Seq(Steers) /\ followUps \in Seq(FollowUps)
    /\ pending \in Seq(Steers) \cup Seq(FollowUps) /\ status \in Seq(Of({"status"}))
OutboxInv ==
    /\ pc \in Emitting => outbox \in Seq(Inputs)
    /\ pc \in Batch => outbox \in Seq(Results)
    /\ pc \notin Emitting \cup Batch => outbox = <<>>
PendingInv == pc \notin {"contextStatus", "prepareNextTurn", "nextTurn"} => pending = <<>>
HeldInv == KindsInv /\ OutboxInv /\ PendingInv

(* A batch: its results follow the assistant message, and Front is the     *)
(* first call without one.                                                 *)
Front == Len(turn) + Len(outbox)
Answers(s, n) == s # <<>> /\ s[1] = Msg("assistant", n) /\ \A i \in 2..Len(s) : s[i] = Msg("toolResult", i - 1)
StartedTo(k) == \A i \in DOMAIN calls : calls[i] # "new" <=> i <= k
BatchInv ==
    pc \in Batch =>
       /\ Answers(turn, Len(calls))
       /\ \A i \in DOMAIN outbox : outbox[i] = Msg("toolResult", Len(turn) + i - 1)
       /\ Front <= Len(calls) + 1
TruncatedInv ==
    mode = "truncated" /\ pc \in Batch =>
       /\ pc = "tools"
       /\ \A i \in DOMAIN calls : calls[i] = IF i < Front THEN "final" ELSE "new"
SequentialInv ==
    mode = "sequential" /\ pc \in Batch =>
       /\ pc = "tools"
       /\ \A i \in DOMAIN calls :
             /\ i < Front => calls[i] \in {"immediate", "final"}
             /\ i = Front => calls[i] \in {"new", "started", "running"}
             /\ i > Front => calls[i] = "new"
             /\ calls[i] \in {"started", "running"} => outbox = <<>>
ParallelInv ==
    mode = "parallel" /\ pc \in Batch =>
       /\ pc # "results" => Front = 1
       /\ \E k \in 0..Len(calls) : StartedTo(k)
       /\ pc = "tools" => In({"running"}) = {}
       /\ pc # "tools" => In({"started", "prepared"}) = {}
       /\ pc = "results" => In({"running"}) = {} /\ StartedTo(Front - 1)
       /\ pc # "tools" /\ ~aborted => In({"new"}) = {}
ModeInv == pc \in Batch => mode # "none"
BatchesInv == BatchInv /\ TruncatedInv /\ SequentialInv /\ ParallelInv /\ ModeInv

(* Outside a batch: what is in the transcript since the last response.     *)
ResultsOK(s) ==
    \A i \in DOMAIN s : s[i].role = "toolResult" => s[1].role = "assistant" /\ s[i].n = i - 1 /\ s[i].n <= s[1].n
AllAnswered(s) ==
    s # <<>> /\ \A c \in 1..s[1].n : c + 1 \in DOMAIN s /\ s[c + 1] = Msg("toolResult", c)
TurnInv ==
    /\ ResultsOK(turn)
    /\ pc \notin Emitting \cup Asking \cup Broken => turn \in Seq(Of({"assistant", "toolResult"}))
    /\ pc \in Opening => ~completed
    /\ (~aborted /\ pc \in {"finishTurn", "pollSteering", "contextStatus", "pollFollowUps",
                            "prepareNextTurn", "nextTurn"}) => AllAnswered(turn)
    /\ (~aborted /\ completed /\ pc \in {"deliver", "stream"}) => AllAnswered(turn)

(* At most one message of a queue is on its way to the next request.       *)
NoneOf(s, r) == OfRole(s, r) = {}
OneOf(s, r)  == \A i, j \in OfRole(s, r) : i = j
NoneAfter(s, k, r) == \A i \in OfRole(s, r) : ~(i > k)
OneAfter(s, k, r)  == \A i, j \in OfRole(s, r) : i > k /\ j > k => i = j
Single(r) ==
    \/ NoneAfter(turn, left, r) /\ OneOf(outbox, r)
    \/ OneAfter(turn, left, r) /\ NoneOf(outbox, r)
SingleInv ==
    /\ pc = "idle" => NoneAfter(turn, left, "steer") /\ NoneAfter(turn, left, "followUp")
    /\ SteeringMode = "one-at-a-time" =>
          /\ Single("steer") /\ OneOf(pending, "steer")
          /\ pc \in Opening /\ ~skipPoll => NoneAfter(turn, left, "steer") /\ NoneOf(outbox, "steer")
    /\ FollowUpMode = "one-at-a-time" => Single("followUp") /\ OneOf(pending, "followUp")

(* What the next request is for.                                           *)
WorkLeft == ~(Decided \subseteq terminate)
HasUser(s) == OfRole(s, "steer") \cup OfRole(s, "followUp") # {}
ReasonInv ==
    /\ explicit => wanted
    /\ pc \in {"finishTurn", "pollSteering", "contextStatus"} /\ more => WorkLeft
    /\ pc \in {"prepareNextTurn", "nextTurn"} => WorkLeft \/ pending # <<>> \/ wanted
    /\ completed /\ pc = "deliver" => WorkLeft \/ HasUser(turn) \/ HasUser(outbox) \/ wanted
    /\ completed /\ pc \in Asking => WorkLeft \/ HasUser(turn) \/ wanted
    /\ pc = "refused" => aborted

(* The messages of a queue: in the transcript, with the loop, waiting.     *)
Msgs(s, r) == {s[i] : i \in OfRole(s, r)}
Below(S, T) == \A a \in S, b \in T : a.n < b.n
Ascending(s, r) == \A i, j \in OfRole(s, r) : i < j => s[i].n < s[j].n
Rows(D, O, P, Q, S) ==
    /\ Below(D, O) /\ Below(D, P) /\ Below(D, Q) /\ Below(O, P) /\ Below(O, Q) /\ Below(P, Q)
    /\ S = D \cup O \cup P \cup Q
Lined(d, o, p, q, r, A) ==
    /\ Ascending(d, r) /\ Ascending(o, r) /\ Ascending(p, r) /\ Ascending(q, r)
    /\ Rows(Msgs(d, r), Msgs(o, r), Msgs(p, r), Msgs(q, r), {m \in A : m.role = r})
Bounded == accepted \subseteq Users /\ \A m \in accepted : m.n <= asked
OrderInv ==
    /\ Bounded
    /\ Lined(delivered, outbox, pending, steering, "steer", accepted)
    /\ Lined(delivered, outbox, pending, followUps, "followUp", accepted)

-----------------------------------------------------------------------------
(* peek and drain split a queue.                                           *)
LEMMA PeekRest ==
  ASSUME NEW S, NEW q \in Seq(S), NEW m
  PROVE  /\ Peek(q, m) \in Seq(S) /\ Rest(q, m) \in Seq(S)
         /\ Len(Peek(q, m)) \in 0..Len(q) /\ Len(Rest(q, m)) = Len(q) - Len(Peek(q, m))
         /\ m # "all" => Len(Peek(q, m)) <= 1
         /\ q # <<>> => Peek(q, m) # <<>>
         /\ q = <<>> => Peek(q, m) = <<>> /\ Rest(q, m) = <<>>
         /\ \A i \in 1..Len(Peek(q, m)) : Peek(q, m)[i] = q[i]
         /\ \A i \in 1..Len(Rest(q, m)) : Rest(q, m)[i] = q[i + Len(Peek(q, m))]
<1>1. CASE m = "all" \/ q = <<>>
  <2>1. Peek(q, m) = q
    BY <1>1 DEF Peek
  <2>2. Rest(q, m) = SubSeq(q, Len(q) + 1, Len(q))
    BY <2>1 DEF Rest
  <2>3. Rest(q, m) = <<>>
    BY <2>2
  <2> QED
    BY <1>1, <2>1, <2>3
<1>2. CASE ~(m = "all" \/ q = <<>>)
  <2>1. Peek(q, m) = <<Head(q)>>
    BY <1>2 DEF Peek
  <2>2. Rest(q, m) = SubSeq(q, 2, Len(q))
    BY <2>1 DEF Rest
  <2>3. Len(q) \in Nat /\ Len(q) >= 1 /\ Head(q) = q[1] /\ Head(q) \in S
    BY <1>2
  <2>4. Peek(q, m) \in Seq(S) /\ Len(Peek(q, m)) = 1 /\ Peek(q, m)[1] = q[1]
    BY <2>1, <2>3
  <2>5. Rest(q, m) = Tail(q)
    BY <2>2, <2>3
  <2>6. /\ Rest(q, m) \in Seq(S) /\ Len(Rest(q, m)) = Len(q) - 1
        /\ \A i \in 1..Len(Rest(q, m)) : Rest(q, m)[i] = q[i + 1]
    BY <1>2, <2>3, <2>5
  <2> QED
    <3>1. \A i \in 1..Len(Peek(q, m)) : Peek(q, m)[i] = q[i]
      BY <2>4
    <3>2. Len(Peek(q, m)) \in 0..Len(q) /\ Len(Rest(q, m)) = Len(q) - Len(Peek(q, m))
      BY <2>3, <2>4, <2>6
    <3>3. \A i \in 1..Len(Rest(q, m)) : Rest(q, m)[i] = q[i + Len(Peek(q, m))]
      BY <2>4, <2>6
    <3>4. Peek(q, m) # <<>>
      BY <2>1
    <3> QED
      BY <1>2, <2>4, <2>6, <3>1, <3>2, <3>3, <3>4
<1> QED
  BY <1>1, <1>2

(* What a poll takes and what it leaves.                                   *)
LEMMA PeekRestMsgs ==
  ASSUME NEW q \in Seq(Message), NEW m, NEW r
  PROVE  /\ Msgs(q, r) = Msgs(Peek(q, m), r) \cup Msgs(Rest(q, m), r)
         /\ Ascending(q, r) => /\ Ascending(Peek(q, m), r) /\ Ascending(Rest(q, m), r)
                               /\ Below(Msgs(Peek(q, m), r), Msgs(Rest(q, m), r))
<1> DEFINE p == Peek(q, m)
           t == Rest(q, m)
<1>1. /\ p \in Seq(Message) /\ t \in Seq(Message) /\ Len(p) \in 0..Len(q) /\ Len(t) = Len(q) - Len(p)
      /\ \A i \in 1..Len(p) : p[i] = q[i]
      /\ \A i \in 1..Len(t) : t[i] = q[i + Len(p)]
  BY PeekRest
<1>2. Len(q) \in Nat /\ DOMAIN q = 1..Len(q) /\ DOMAIN p = 1..Len(p) /\ DOMAIN t = 1..Len(t)
  BY <1>1
<1> HIDE DEF p, t
<1>3. \A i \in DOMAIN p : i \in DOMAIN q /\ p[i] = q[i]
  BY <1>1, <1>2
<1>4. \A i \in DOMAIN t : i + Len(p) \in DOMAIN q /\ t[i] = q[i + Len(p)]
  BY <1>1, <1>2
<1>5. \A i \in DOMAIN q : i \in DOMAIN p \/ (i - Len(p) \in DOMAIN t /\ q[i] = t[i - Len(p)])
  BY <1>1, <1>2
<1>6. Msgs(q, r) = Msgs(p, r) \cup Msgs(t, r)
  <2>1. Msgs(p, r) \subseteq Msgs(q, r) /\ Msgs(t, r) \subseteq Msgs(q, r)
    BY <1>3, <1>4 DEF Msgs, OfRole
  <2>2. Msgs(q, r) \subseteq Msgs(p, r) \cup Msgs(t, r)
    BY <1>3, <1>5 DEF Msgs, OfRole
  <2> QED
    BY <2>1, <2>2
<1>7. ASSUME Ascending(q, r)
      PROVE  Ascending(p, r) /\ Ascending(t, r) /\ Below(Msgs(p, r), Msgs(t, r))
  <2>1. Ascending(p, r)
    BY <1>3, <1>7 DEF Ascending, OfRole
  <2>2. \A i, j \in DOMAIN t : i < j => i + Len(p) < j + Len(p)
    BY <1>1, <1>2
  <2>3. Ascending(t, r)
    BY <1>4, <1>7, <2>2 DEF Ascending, OfRole
  <2>4. \A i \in DOMAIN p, j \in DOMAIN t : i < j + Len(p)
    BY <1>1, <1>2
  <2>5. Below(Msgs(p, r), Msgs(t, r))
    BY <1>3, <1>4, <1>7, <2>4 DEF Below, Msgs, Ascending, OfRole
  <2> QED
    BY <2>1, <2>3, <2>5
<1> QED
  BY <1>6, <1>7 DEF p, t

(* Concatenation, and the empty sequence.                                  *)
LEMMA ConcatMsgs ==
  ASSUME NEW s \in Seq(Message), NEW t \in Seq(Message), NEW r
  PROVE  /\ s \o t \in Seq(Message)
         /\ Msgs(s \o t, r) = Msgs(s, r) \cup Msgs(t, r)
         /\ Ascending(s, r) /\ Ascending(t, r) /\ Below(Msgs(s, r), Msgs(t, r)) <=> Ascending(s \o t, r)
<1> DEFINE u == s \o t
<1>1. /\ u \in Seq(Message) /\ Len(u) = Len(s) + Len(t) /\ Len(s) \in Nat /\ Len(t) \in Nat
      /\ DOMAIN u = 1..Len(u) /\ DOMAIN s = 1..Len(s) /\ DOMAIN t = 1..Len(t)
  OBVIOUS
<1>2. \A i \in DOMAIN s : i \in DOMAIN u /\ u[i] = s[i]
  BY <1>1
<1>3. \A i \in DOMAIN t : i + Len(s) \in DOMAIN u /\ u[i + Len(s)] = t[i]
  BY <1>1
<1> HIDE DEF u
<1>4. \A i \in DOMAIN u : i \in DOMAIN s \/ (i - Len(s) \in DOMAIN t /\ i = (i - Len(s)) + Len(s))
  BY <1>1
<1>5. Msgs(u, r) = Msgs(s, r) \cup Msgs(t, r)
  <2>1. Msgs(s, r) \subseteq Msgs(u, r) /\ Msgs(t, r) \subseteq Msgs(u, r)
    BY <1>2, <1>3 DEF Msgs, OfRole
  <2>2. Msgs(u, r) \subseteq Msgs(s, r) \cup Msgs(t, r)
    BY <1>2, <1>3, <1>4 DEF Msgs, OfRole
  <2> QED
    BY <2>1, <2>2
<1>6. ASSUME Ascending(s, r), Ascending(t, r), Below(Msgs(s, r), Msgs(t, r)), NEW i \in OfRole(u, r),
             NEW j \in OfRole(u, r), i < j
      PROVE  u[i].n < u[j].n
  <2>1. CASE i \in DOMAIN s /\ j \in DOMAIN s
    BY <1>2, <1>6, <2>1 DEF Ascending, OfRole
  <2>2. CASE i \in DOMAIN s /\ j \notin DOMAIN s
    <3>1. i \in OfRole(s, r) /\ u[i] = s[i]
      BY <1>2, <1>6, <2>2 DEF OfRole
    <3>2. j - Len(s) \in OfRole(t, r) /\ u[j] = t[j - Len(s)]
      BY <1>3, <1>4, <1>6, <2>2 DEF OfRole
    <3> QED
      BY <1>6, <3>1, <3>2 DEF Below, Msgs
  <2>3. CASE i \notin DOMAIN s /\ j \notin DOMAIN s
    <3>1. /\ i - Len(s) \in OfRole(t, r) /\ j - Len(s) \in OfRole(t, r)
          /\ u[i] = t[i - Len(s)] /\ u[j] = t[j - Len(s)]
      BY <1>3, <1>4, <1>6, <2>3 DEF OfRole
    <3>2. i - Len(s) < j - Len(s)
      BY <1>1, <1>6 DEF OfRole
    <3> QED
      BY <1>6, <3>1, <3>2 DEF Ascending
  <2>4. CASE i \notin DOMAIN s /\ j \in DOMAIN s
    BY <1>1, <1>6, <2>4 DEF OfRole
  <2> QED
    BY <2>1, <2>2, <2>3, <2>4
<1>7. ASSUME Ascending(u, r)
      PROVE  Ascending(s, r) /\ Ascending(t, r) /\ Below(Msgs(s, r), Msgs(t, r))
  <2>1. Ascending(s, r)
    BY <1>2, <1>7 DEF Ascending, OfRole
  <2>2. \A i, j \in DOMAIN t : i < j => i + Len(s) < j + Len(s)
    BY <1>1
  <2>3. Ascending(t, r)
    BY <1>3, <1>7, <2>2 DEF Ascending, OfRole
  <2>4. \A i \in DOMAIN s, j \in DOMAIN t : i < j + Len(s)
    BY <1>1
  <2>5. Below(Msgs(s, r), Msgs(t, r))
    BY <1>2, <1>3, <1>7, <2>4 DEF Below, Msgs, Ascending, OfRole
  <2> QED
    BY <2>1, <2>3, <2>5
<1> QED
  BY <1>1, <1>5, <1>6, <1>7 DEF u, Ascending

(* The messages of an empty sequence and of a single message.              *)
LEMMA EmptyMsgs ==
  ASSUME NEW r
  PROVE  /\ Msgs(<<>>, r) = {} /\ Ascending(<<>>, r) /\ OfRole(<<>>, r) = {}
         /\ \A x \in Message : /\ Msgs(<<x>>, r) = (IF x.role = r THEN {x} ELSE {})
                               /\ Ascending(<<x>>, r) /\ <<x>> \in Seq(Message)
<1>1. DOMAIN <<>> = {}
  OBVIOUS
<1>2. Msgs(<<>>, r) = {} /\ Ascending(<<>>, r) /\ OfRole(<<>>, r) = {}
  BY <1>1 DEF Msgs, Ascending, OfRole
<1>3. ASSUME NEW x \in Message
      PROVE  /\ Msgs(<<x>>, r) = (IF x.role = r THEN {x} ELSE {})
             /\ Ascending(<<x>>, r) /\ <<x>> \in Seq(Message)
  <2>1. <<x>> \in Seq(Message) /\ DOMAIN <<x>> = {1} /\ <<x>>[1] = x
    OBVIOUS
  <2>2. OfRole(<<x>>, r) = IF x.role = r THEN {1} ELSE {}
    BY <2>1 DEF OfRole
  <2> QED
    BY <2>1, <2>2 DEF Msgs, Ascending
<1> QED
  BY <1>2, <1>3

-----------------------------------------------------------------------------
(* Messages of every role.                                                 *)
LEMMA MsgFacts ==
  ASSUME NEW n \in Nat
  PROVE  /\ \A r \in Roles : Msg(r, n) \in Message
         /\ \A r : Msg(r, n).role = r /\ Msg(r, n).n = n
         /\ Msg("steer", n) \in Steers /\ Msg("followUp", n) \in FollowUps
         /\ Msg("prompt", n) \in Inputs /\ Msg("status", n) \in Of({"status"})
         /\ Msg("toolResult", n) \in Results
         /\ Msg("assistant", n) \in Of({"assistant", "toolResult"})
         /\ Msg("toolResult", n) \in Of({"assistant", "toolResult"})
BY DEF Msg, Message, Steers, FollowUps, Inputs, Results, Of

(* Sequences of messages.                                                  *)
LEMMA SeqFacts ==
  /\ <<>> \in Seq(Message)
  /\ \A s \in Seq(Message), x \in Message : Append(s, x) \in Seq(Message) /\ <<x>> \in Seq(Message)
  /\ \A s \in Seq(Message), t \in Seq(Message) : s \o t \in Seq(Message)
  /\ \A s \in Seq(Message) : s # <<>> => Head(s) \in Message /\ Tail(s) \in Seq(Message)
  /\ \A s \in SystemUpdates : s \in Seq(Message)
<1>1. \A x \in Message : <<x>> \in Seq(Message)
  OBVIOUS
<1>2. Msg("system", 0) \in Message
  BY MsgFacts DEF Roles
<1>3. \A s \in SystemUpdates : s \in Seq(Message)
  <2>1. <<Msg("system", 0)>> \in Seq(Message)
    BY <1>1, <1>2
  <2>2. \A s \in SystemUpdates : s = <<>> \/ s = <<Msg("system", 0)>>
    BY DEF SystemUpdates
  <2>3. <<>> \in Seq(Message)
    OBVIOUS
  <2> QED
    BY <2>1, <2>2, <2>3, Zenon
<1> QED
  BY <1>1, <1>3

(* A set of numbers has a smallest one, so the next call to start is the   *)
(* first new one.                                                          *)
LEMMA Smallest ==
  ASSUME NEW S, S \subseteq Nat, S # {}
  PROVE  \E x \in S : \A y \in S : x <= y
<1> DEFINE R == {ss \in Nat \X Nat : ss[1] < ss[2]}
<1>1. IsWellFoundedOn(R, Nat)
  BY NatLessThanWellFounded DEF OpToRel
<1>2. \A x, y \in Nat : <<x, y>> \in R <=> x < y
  OBVIOUS
<1> HIDE DEF R
<1>3. PICK x \in S : \A y \in S : ~(<<y, x>> \in R)
  BY <1>1, WFMin
<1>4. \A y \in S : ~(y < x)
  BY <1>2, <1>3
<1> QED
  BY <1>4

(* The call that NextCall names is new and no new call is before it.       *)
LEMMA NextCallIn ==
  ASSUME CallsTyped, In({"new"}) # {}
  PROVE  /\ NextCall \in DOMAIN calls /\ calls[NextCall] = "new" /\ NextCall \in Nat
         /\ \A i \in DOMAIN calls : calls[i] = "new" => NextCall <= i
<1>1. In({"new"}) \subseteq Nat
  BY DEF In, CallsTyped
<1>2. \E x \in In({"new"}) : \A y \in In({"new"}) : x <= y
  BY <1>1, Smallest
<1>3. NextCall \in In({"new"}) /\ \A y \in In({"new"}) : NextCall <= y
  BY <1>2 DEF NextCall
<1> QED
  BY <1>1, <1>3 DEF In

(* There are finitely many decided calls.                                  *)
LEMMA DecidedFinite ==
  ASSUME CallsTyped
  PROVE  Cardinality(Decided) \in Nat
<1>1. Len(calls) \in Nat /\ DOMAIN calls = 1..Len(calls)
  BY DEF CallsTyped
<1>2. IsFiniteSet(1..Len(calls))
  BY <1>1, FS_Interval
<1>3. Decided \subseteq 1..Len(calls)
  BY <1>1 DEF Decided, In
<1> QED
  BY <1>2, <1>3, FS_Subset, FS_CardinalityType

-----------------------------------------------------------------------------
(* Every step keeps the types.                                             *)
LEMMA TypeStep ==
  ASSUME LoopAssumption, Typed, [Next]_vars
  PROVE  Typed'
<1> USE DEF loop, user
<1>1. ASSUME Prompt PROVE Typed'
  <2>1. pc' \in PCs
    BY <1>1 DEF Prompt, Start, PCs, Typed
  <2>2. FlagsTyped'
    BY <1>1 DEF Prompt, Start, FlagsTyped, Typed
  <2>3. QueuesTyped'
    <3>1. asked + 1 \in Nat /\ Msg("prompt", asked + 1) \in Message
      BY MsgFacts DEF Typed, QueuesTyped, Roles
    <3>2. <<Msg("prompt", asked + 1)>> \in Seq(Message)
      BY <3>1, SeqFacts
    <3> QED
      BY <1>1, <3>1, <3>2, SeqFacts DEF Prompt, Start, Typed, QueuesTyped
  <2>4. CallsTyped'
    BY <1>1 DEF Prompt, Start, CallsTyped, Typed
  <2> QED
    BY <2>1, <2>2, <2>3, <2>4 DEF Typed
<1>2. ASSUME Continue PROVE Typed'
  <2>1. pc' \in PCs
    BY <1>2 DEF Continue, Start, PCs, Typed
  <2>2. FlagsTyped'
    BY <1>2 DEF Continue, Start, FlagsTyped, Typed
  <2>3. QueuesTyped'
    <3>1. /\ Peek(steering, SteeringMode) \in Seq(Message) /\ Rest(steering, SteeringMode) \in Seq(Message)
          /\ Peek(followUps, FollowUpMode) \in Seq(Message) /\ Rest(followUps, FollowUpMode) \in Seq(Message)
      BY PeekRest DEF Typed, QueuesTyped
    <3> QED
      BY <1>2, <3>1, SeqFacts DEF Continue, Start, QueuesTyped, Typed
  <2>4. CallsTyped'
    BY <1>2 DEF Continue, Start, CallsTyped, Typed
  <2> QED
    BY <2>1, <2>2, <2>3, <2>4 DEF Typed
<1>3. ASSUME Steer PROVE Typed'
  <2>1. pc' \in PCs
    BY <1>3 DEF Steer, PCs, Typed
  <2>2. FlagsTyped'
    BY <1>3 DEF Steer, FlagsTyped, Typed
  <2>3. QueuesTyped'
    <3>1. asked + 1 \in Nat /\ Msg("steer", asked + 1) \in Message
      BY MsgFacts DEF Typed, QueuesTyped, Roles
    <3> QED
      BY <1>3, <3>1, SeqFacts DEF Steer, Typed, QueuesTyped
  <2>4. CallsTyped'
    BY <1>3 DEF Steer, CallsTyped, Typed
  <2> QED
    BY <2>1, <2>2, <2>3, <2>4 DEF Typed
<1>4. ASSUME FollowUp PROVE Typed'
  <2>1. pc' \in PCs
    BY <1>4 DEF FollowUp, PCs, Typed
  <2>2. FlagsTyped'
    BY <1>4 DEF FollowUp, FlagsTyped, Typed
  <2>3. QueuesTyped'
    <3>1. asked + 1 \in Nat /\ Msg("followUp", asked + 1) \in Message
      BY MsgFacts DEF Typed, QueuesTyped, Roles
    <3> QED
      BY <1>4, <3>1, SeqFacts DEF FollowUp, Typed, QueuesTyped
  <2>4. CallsTyped'
    BY <1>4 DEF FollowUp, CallsTyped, Typed
  <2> QED
    BY <2>1, <2>2, <2>3, <2>4 DEF Typed
<1>5. ASSUME ClearAllQueues PROVE Typed'
  <2>1. pc' \in PCs
    BY <1>5 DEF ClearAllQueues, Forget, PCs, Typed
  <2>2. FlagsTyped'
    BY <1>5 DEF ClearAllQueues, Forget, FlagsTyped, Typed
  <2>3. QueuesTyped'
    BY <1>5, SeqFacts DEF ClearAllQueues, Forget, QueuesTyped, Typed
  <2>4. CallsTyped'
    BY <1>5 DEF ClearAllQueues, Forget, CallsTyped, Typed
  <2> QED
    BY <2>1, <2>2, <2>3, <2>4 DEF Typed
<1>6. ASSUME Abort PROVE Typed'
  <2>1. pc' \in PCs
    BY <1>6 DEF Abort, PCs, Typed
  <2>2. FlagsTyped'
    BY <1>6 DEF Abort, FlagsTyped, Typed
  <2>3. QueuesTyped'
    BY <1>6 DEF Abort, QueuesTyped, Typed
  <2>4. CallsTyped'
    BY <1>6 DEF Abort, CallsTyped, Typed
  <2> QED
    BY <2>1, <2>2, <2>3, <2>4 DEF Typed
<1>7. ASSUME Reset PROVE Typed'
  <2>1. pc' \in PCs
    BY <1>7 DEF Reset, Forget, PCs, Typed
  <2>2. FlagsTyped'
    BY <1>7 DEF Reset, Forget, FlagsTyped, Typed
  <2>3. QueuesTyped'
    BY <1>7, SeqFacts DEF Reset, Forget, QueuesTyped, Typed
  <2>4. CallsTyped'
    BY <1>7 DEF Reset, Forget, CallsTyped, Typed
  <2> QED
    BY <2>1, <2>2, <2>3, <2>4 DEF Typed
<1>8. ASSUME TurnStart PROVE Typed'
  <2>1. pc' \in PCs
    BY <1>8 DEF TurnStart, PCs, Typed
  <2>2. FlagsTyped'
    BY <1>8 DEF TurnStart, FlagsTyped, Typed
  <2>3. QueuesTyped'
    <3>1. PICK s \in SystemUpdates : outbox' = IF outbox = <<>> THEN <<>> ELSE s \o outbox
      BY <1>8 DEF TurnStart
    <3>2. outbox' \in Seq(Message)
      BY <3>1, SeqFacts DEF Typed, QueuesTyped
    <3> QED
      BY <1>8, <3>2 DEF TurnStart, Typed, QueuesTyped
  <2>4. CallsTyped'
    BY <1>8 DEF TurnStart, CallsTyped, Typed
  <2> QED
    BY <2>1, <2>2, <2>3, <2>4 DEF Typed
<1>9. ASSUME EmitMessage PROVE Typed'
  <2>1. pc' \in PCs
    BY <1>9 DEF EmitMessage, PCs, Typed
  <2>2. FlagsTyped'
    BY <1>9 DEF EmitMessage, FlagsTyped, Typed
  <2>3. QueuesTyped'
    BY <1>9, SeqFacts DEF EmitMessage, QueuesTyped, Typed
  <2>4. CallsTyped'
    BY <1>9 DEF EmitMessage, CallsTyped, Typed
  <2> QED
    BY <2>1, <2>2, <2>3, <2>4 DEF Typed
<1>10. ASSUME InitialPoll PROVE Typed'
  <2>1. pc' \in PCs
    BY <1>10 DEF InitialPoll, PCs, Typed
  <2>2. FlagsTyped'
    BY <1>10 DEF InitialPoll, FlagsTyped, Typed
  <2>3. QueuesTyped'
    BY <1>10, PeekRest, SeqFacts DEF InitialPoll, QueuesTyped, Typed
  <2>4. CallsTyped'
    BY <1>10 DEF InitialPoll, CallsTyped, Typed
  <2> QED
    BY <2>1, <2>2, <2>3, <2>4 DEF Typed
<1>11. ASSUME PrepareNextTurn PROVE Typed'
  <2>1. pc' \in PCs
    BY <1>11 DEF PrepareNextTurn, PCs, Typed
  <2>2. FlagsTyped'
    BY <1>11 DEF PrepareNextTurn, FlagsTyped, Typed
  <2>3. QueuesTyped'
    BY <1>11 DEF PrepareNextTurn, QueuesTyped, Typed
  <2>4. CallsTyped'
    BY <1>11 DEF PrepareNextTurn, CallsTyped, Typed
  <2> QED
    BY <2>1, <2>2, <2>3, <2>4 DEF Typed
<1>12. ASSUME NextTurn PROVE Typed'
  <2>1. pc' \in PCs
    BY <1>12 DEF NextTurn, PCs, Typed
  <2>2. FlagsTyped'
    BY <1>12 DEF NextTurn, FlagsTyped, Typed
  <2>3. QueuesTyped'
    <3>1. Peek(steering, SteeringMode) \in Seq(Message) /\ Rest(steering, SteeringMode) \in Seq(Message)
      BY PeekRest DEF Typed, QueuesTyped
    <3>2. PICK s \in SystemUpdates, p \in Seq(Message) : outbox' = s \o p \o status
      BY <1>12, <3>1 DEF NextTurn, Typed, QueuesTyped
    <3>3. outbox' \in Seq(Message)
      BY <3>2, SeqFacts DEF Typed, QueuesTyped
    <3> QED
      BY <1>12, <3>1, <3>3, SeqFacts DEF NextTurn, Typed, QueuesTyped
  <2>4. CallsTyped'
    BY <1>12 DEF NextTurn, CallsTyped, Typed
  <2> QED
    BY <2>1, <2>2, <2>3, <2>4 DEF Typed
<1>13. ASSUME PrepareRequest PROVE Typed'
  <2>1. pc' \in PCs
    BY <1>13 DEF PrepareRequest, PCs, Typed
  <2>2. FlagsTyped'
    BY <1>13 DEF PrepareRequest, FlagsTyped, Typed
  <2>3. QueuesTyped'
    BY <1>13 DEF PrepareRequest, QueuesTyped, Typed
  <2>4. CallsTyped'
    BY <1>13 DEF PrepareRequest, CallsTyped, Typed
  <2> QED
    BY <2>1, <2>2, <2>3, <2>4 DEF Typed
<1>14. ASSUME FailTruncatedCall PROVE Typed'
  <2>1. pc' \in PCs
    BY <1>14 DEF FailTruncatedCall, Settled, PCs, Typed
  <2>2. FlagsTyped'
    BY <1>14 DEF FailTruncatedCall, Settled, FlagsTyped, Typed
  <2>3. QueuesTyped'
    <3>1. NextCall \in Nat
      BY <1>14, NextCallIn DEF FailTruncatedCall, Typed
    <3>2. Msg("toolResult", NextCall) \in Message
      BY <3>1, MsgFacts DEF Roles
    <3> QED
      BY <1>14, <3>2, SeqFacts DEF FailTruncatedCall, Typed, QueuesTyped
  <2>4. CallsTyped'
    <3>1. NextCall \in DOMAIN calls
      BY <1>14, NextCallIn DEF FailTruncatedCall, Typed
    <3> QED
      BY <1>14, <3>1 DEF FailTruncatedCall, Typed, CallsTyped, CallStates
  <2> QED
    BY <2>1, <2>2, <2>3, <2>4 DEF Typed
<1>15. ASSUME StartCall PROVE Typed'
  <2>1. pc' \in PCs
    BY <1>15 DEF StartCall, Settled, Cut, PCs, Typed
  <2>2. FlagsTyped'
    BY <1>15 DEF StartCall, Settled, Cut, FlagsTyped, Typed
  <2>3. QueuesTyped'
    BY <1>15 DEF StartCall, Settled, Cut, QueuesTyped, Typed
  <2>4. CallsTyped'
    <3>1. NextCall \in DOMAIN calls
      BY <1>15, NextCallIn DEF StartCall, Typed
    <3> QED
      BY <1>15, <3>1 DEF StartCall, Typed, CallsTyped, CallStates
  <2> QED
    BY <2>1, <2>2, <2>3, <2>4 DEF Typed
<1>16. ASSUME NEW i \in DOMAIN calls, PrepareCall(i) PROVE Typed'
  <2>1. pc' \in PCs
    BY <1>16 DEF PrepareCall, PCs, Typed
  <2>2. FlagsTyped'
    BY <1>16 DEF PrepareCall, FlagsTyped, Typed
  <2>3. QueuesTyped'
    BY <1>16 DEF PrepareCall, QueuesTyped, Typed
  <2>4. CallsTyped'
    BY <1>16 DEF PrepareCall, Typed, CallsTyped, CallStates
  <2> QED
    BY <2>1, <2>2, <2>3, <2>4 DEF Typed
<1>17. ASSUME LaunchCalls PROVE Typed'
  <2>1. pc' \in PCs
    BY <1>17 DEF LaunchCalls, Settled, Cut, PCs, Typed
  <2>2. FlagsTyped'
    BY <1>17 DEF LaunchCalls, Settled, Cut, FlagsTyped, Typed
  <2>3. QueuesTyped'
    BY <1>17 DEF LaunchCalls, Settled, Cut, QueuesTyped, Typed
  <2>4. CallsTyped'
    <3>1. calls' \in Seq(CallStates) /\ DOMAIN calls' = DOMAIN calls
      BY <1>17 DEF LaunchCalls, Typed, CallsTyped, CallStates
    <3> QED
      BY <1>17, <3>1 DEF LaunchCalls, Typed, CallsTyped
  <2> QED
    BY <2>1, <2>2, <2>3, <2>4 DEF Typed
<1>18. ASSUME CollectResults PROVE Typed'
  <2>1. pc' \in PCs
    BY <1>18 DEF CollectResults, PCs, Typed
  <2>2. FlagsTyped'
    BY <1>18 DEF CollectResults, FlagsTyped, Typed
  <2>3. QueuesTyped'
    <3>1. Cardinality(Decided) \in Nat
      BY DecidedFinite DEF Typed
    <3>2. \A i \in 1..Cardinality(Decided) : Msg("toolResult", i) \in Message
      BY <3>1, MsgFacts DEF Roles
    <3>3. outbox' \in Seq(Message)
      BY <1>18, <3>1, <3>2 DEF CollectResults
    <3> QED
      BY <1>18, <3>3 DEF CollectResults, Typed, QueuesTyped
  <2>4. CallsTyped'
    BY <1>18 DEF CollectResults, CallsTyped, Typed
  <2> QED
    BY <2>1, <2>2, <2>3, <2>4 DEF Typed
<1>19. ASSUME EndBatch PROVE Typed'
  <2>1. pc' \in PCs
    BY <1>19 DEF EndBatch, Settled, Cut, PCs, Typed
  <2>2. FlagsTyped'
    BY <1>19 DEF EndBatch, Settled, Cut, FlagsTyped, Typed
  <2>3. QueuesTyped'
    BY <1>19 DEF EndBatch, Settled, Cut, QueuesTyped, Typed
  <2>4. CallsTyped'
    BY <1>19 DEF EndBatch, Settled, Cut, CallsTyped, Typed
  <2> QED
    BY <2>1, <2>2, <2>3, <2>4 DEF Typed
<1>20. ASSUME NEW d \in {"none", "end", "continue"}, FinishTurn(d) PROVE Typed'
  <2>1. pc' \in PCs
    BY <1>20 DEF FinishTurn, PCs, Typed
  <2>2. FlagsTyped'
    BY <1>20 DEF FinishTurn, FlagsTyped, Typed
  <2>3. QueuesTyped'
    BY <1>20 DEF FinishTurn, QueuesTyped, Typed
  <2>4. CallsTyped'
    BY <1>20 DEF FinishTurn, CallsTyped, Typed
  <2> QED
    BY <2>1, <2>2, <2>3, <2>4 DEF Typed
<1>21. ASSUME PollSteering PROVE Typed'
  <2>1. pc' \in PCs
    BY <1>21 DEF PollSteering, PCs, Typed
  <2>2. FlagsTyped'
    BY <1>21 DEF PollSteering, FlagsTyped, Typed
  <2>3. QueuesTyped'
    BY <1>21, PeekRest DEF PollSteering, QueuesTyped, Typed
  <2>4. CallsTyped'
    BY <1>21 DEF PollSteering, CallsTyped, Typed
  <2> QED
    BY <2>1, <2>2, <2>3, <2>4 DEF Typed
<1>22. ASSUME ContextStatus PROVE Typed'
  <2>1. pc' \in PCs
    BY <1>22 DEF ContextStatus, PCs, Typed
  <2>2. FlagsTyped'
    BY <1>22 DEF ContextStatus, FlagsTyped, Typed
  <2>3. QueuesTyped'
    <3>1. Msg("status", 0) \in Message
      BY MsgFacts DEF Roles
    <3> QED
      BY <1>22, <3>1, SeqFacts DEF ContextStatus, Typed, QueuesTyped
  <2>4. CallsTyped'
    BY <1>22 DEF ContextStatus, CallsTyped, Typed
  <2> QED
    BY <2>1, <2>2, <2>3, <2>4 DEF Typed
<1>23. ASSUME PollFollowUps PROVE Typed'
  <2>1. pc' \in PCs
    BY <1>23 DEF PollFollowUps, PCs, Typed
  <2>2. FlagsTyped'
    BY <1>23 DEF PollFollowUps, FlagsTyped, Typed
  <2>3. QueuesTyped'
    BY <1>23, PeekRest DEF PollFollowUps, QueuesTyped, Typed
  <2>4. CallsTyped'
    BY <1>23 DEF PollFollowUps, CallsTyped, Typed
  <2> QED
    BY <2>1, <2>2, <2>3, <2>4 DEF Typed
<1>24. ASSUME AgentEnd PROVE Typed'
  <2>1. pc' \in PCs
    BY <1>24 DEF AgentEnd, PCs, Typed
  <2>2. FlagsTyped'
    BY <1>24 DEF AgentEnd, FlagsTyped, Typed
  <2>3. QueuesTyped'
    BY <1>24 DEF AgentEnd, QueuesTyped, Typed
  <2>4. CallsTyped'
    BY <1>24 DEF AgentEnd, CallsTyped, Typed
  <2> QED
    BY <2>1, <2>2, <2>3, <2>4 DEF Typed
<1>25. ASSUME FailureEnd PROVE Typed'
  <2>1. pc' \in PCs
    BY <1>25 DEF FailureEnd, PCs, Typed
  <2>2. FlagsTyped'
    BY <1>25 DEF FailureEnd, FlagsTyped, Typed
  <2>3. QueuesTyped'
    BY <1>25 DEF FailureEnd, QueuesTyped, Typed
  <2>4. CallsTyped'
    BY <1>25 DEF FailureEnd, CallsTyped, Typed
  <2> QED
    BY <2>1, <2>2, <2>3, <2>4 DEF Typed
<1>26. ASSUME FinishRun PROVE Typed'
  <2>1. pc' \in PCs
    BY <1>26 DEF FinishRun, PCs, Typed
  <2>2. FlagsTyped'
    BY <1>26 DEF FinishRun, FlagsTyped, Typed
  <2>3. QueuesTyped'
    BY <1>26 DEF FinishRun, QueuesTyped, Typed
  <2>4. CallsTyped'
    BY <1>26 DEF FinishRun, CallsTyped, Typed
  <2> QED
    BY <2>1, <2>2, <2>3, <2>4 DEF Typed
<1>27. ASSUME NEW stop \in {"stop", "length", "error", "aborted"}, NEW n \in 0..MaxCalls, Respond(stop, n)
      PROVE  Typed'
  <2>1. pc' \in PCs
    BY <1>27 DEF Respond, PCs, Typed
  <2>2. FlagsTyped'
    BY <1>27 DEF Respond, FlagsTyped, Typed
  <2>3. QueuesTyped'
    <3>1. Msg("assistant", n) \in Message
      BY MsgFacts DEF Roles
    <3> QED
      BY <1>27, <3>1, SeqFacts DEF Respond, Typed, QueuesTyped
  <2>4. CallsTyped'
    <3>1. calls' \in Seq(CallStates) /\ terminate' = {}
      BY <1>27 DEF Respond, CallStates
    <3>2. mode' \in {"none", "truncated", "sequential", "parallel"}
      BY <1>27 DEF Respond
    <3> QED
      BY <3>1, <3>2 DEF CallsTyped
  <2> QED
    BY <2>1, <2>2, <2>3, <2>4 DEF Typed
<1>28. ASSUME NEW i \in DOMAIN calls, FinalizeCall(i) PROVE Typed'
  <2>1. pc' \in PCs
    BY <1>28 DEF FinalizeCall, PCs, Typed
  <2>2. FlagsTyped'
    BY <1>28 DEF FinalizeCall, FlagsTyped, Typed
  <2>3. QueuesTyped'
    <3>1. Msg("toolResult", i) \in Message
      BY MsgFacts DEF Roles, Typed, CallsTyped
    <3> QED
      BY <1>28, <3>1, SeqFacts DEF FinalizeCall, Typed, QueuesTyped
  <2>4. CallsTyped'
    BY <1>28 DEF FinalizeCall, Typed, CallsTyped, CallStates
  <2> QED
    BY <2>1, <2>2, <2>3, <2>4 DEF Typed
<1>29. ASSUME Throw PROVE Typed'
  <2>1. pc' \in PCs
    BY <1>29 DEF Throw, Forget, PCs, Typed
  <2>2. FlagsTyped'
    BY <1>29 DEF Throw, Forget, FlagsTyped, Typed
  <2>3. QueuesTyped'
    BY <1>29, SeqFacts DEF Throw, Forget, Typed, QueuesTyped
  <2>4. CallsTyped'
    BY <1>29 DEF Throw, Forget, CallsTyped, Typed
  <2> QED
    BY <2>1, <2>2, <2>3, <2>4 DEF Typed
<1>30. ASSUME UNCHANGED vars PROVE Typed'
  <2>1. pc' \in PCs
    BY <1>30 DEF vars, PCs, Typed
  <2>2. FlagsTyped'
    BY <1>30 DEF vars, FlagsTyped, Typed
  <2>3. QueuesTyped'
    BY <1>30 DEF vars, QueuesTyped, Typed
  <2>4. CallsTyped'
    BY <1>30 DEF vars, CallsTyped, Typed
  <2> QED
    BY <2>1, <2>2, <2>3, <2>4 DEF Typed
<1>31. ASSUME FailureMessage PROVE Typed'
  <2>1. pc' \in PCs
    BY <1>31 DEF FailureMessage, PCs, Typed
  <2>2. FlagsTyped'
    BY <1>31 DEF FailureMessage, FlagsTyped, Typed
  <2>3. QueuesTyped'
    <3>1. Msg("assistant", 0) \in Message
      BY MsgFacts DEF Roles
    <3> QED
      BY <1>31, <3>1, SeqFacts DEF FailureMessage, Typed, QueuesTyped
  <2>4. CallsTyped'
    BY <1>31 DEF FailureMessage, CallsTyped, Typed
  <2> QED
    BY <2>1, <2>2, <2>3, <2>4 DEF Typed
<1>32. ASSUME FailReporting PROVE Typed'
  <2>1. pc' \in PCs
    BY <1>32 DEF FailReporting, PCs, Typed
  <2>2. FlagsTyped'
    BY <1>32 DEF FailReporting, FlagsTyped, Typed
  <2>3. QueuesTyped'
    BY <1>32 DEF FailReporting, QueuesTyped, Typed
  <2>4. CallsTyped'
    BY <1>32 DEF FailReporting, CallsTyped, Typed
  <2> QED
    BY <2>1, <2>2, <2>3, <2>4 DEF Typed
<1> QED
  BY <1>1, <1>2, <1>3, <1>4, <1>5, <1>6, <1>7, <1>8, <1>9, <1>10, <1>11, <1>12,
       <1>13, <1>14, <1>15, <1>16, <1>17, <1>18, <1>19, <1>20, <1>21, <1>22,
       <1>23, <1>24, <1>25, <1>26, <1>27, <1>28, <1>29, <1>30, <1>31, <1>32
     DEF Next, UserStep, LoopStep, ExternalStep

-----------------------------------------------------------------------------
(* Sequences over the kinds of messages.                                   *)
LEMMA SeqOf ==
  ASSUME NEW S
  PROVE  /\ <<>> \in Seq(S)
         /\ \A s \in Seq(S), x \in S : Append(s, x) \in Seq(S) /\ <<x>> \in Seq(S)
         /\ \A s \in Seq(S), t \in Seq(S) : s \o t \in Seq(S)
         /\ \A s \in Seq(S) : s # <<>> => Head(s) \in S /\ Tail(s) \in Seq(S)
OBVIOUS

(* The kinds are kinds of messages, and what is taken over is input.       *)
LEMMA Kinds ==
  /\ Steers \subseteq Inputs /\ FollowUps \subseteq Inputs /\ Of({"status"}) \subseteq Inputs
  /\ Steers \subseteq Message /\ FollowUps \subseteq Message /\ Inputs \subseteq Message
  /\ Results \subseteq Message
  /\ Seq(Steers) \subseteq Seq(Inputs) /\ Seq(FollowUps) \subseteq Seq(Inputs)
  /\ Seq(Of({"status"})) \subseteq Seq(Inputs)
  /\ SystemUpdates \subseteq Seq(Inputs)
<1>1. /\ Steers \subseteq Inputs /\ FollowUps \subseteq Inputs /\ Of({"status"}) \subseteq Inputs
      /\ Steers \subseteq Message /\ FollowUps \subseteq Message /\ Inputs \subseteq Message
      /\ Results \subseteq Message
  BY DEF Steers, FollowUps, Inputs, Results, Message, Roles, Of
<1>2. /\ Seq(Steers) \subseteq Seq(Inputs) /\ Seq(FollowUps) \subseteq Seq(Inputs)
      /\ Seq(Of({"status"})) \subseteq Seq(Inputs)
  BY <1>1
<1>3. Msg("system", 0) \in Inputs
  BY DEF Msg, Inputs, Of
<1>4. <<Msg("system", 0)>> \in Seq(Inputs) /\ <<>> \in Seq(Inputs)
  BY <1>3, SeqOf
<1>5. SystemUpdates \subseteq Seq(Inputs)
  BY <1>4 DEF SystemUpdates
<1> QED
  BY <1>1, <1>2, <1>5

(* Every step keeps what the queues hold.                                  *)
LEMMA HeldStep ==
  ASSUME LoopAssumption, Typed, HeldInv, [Next]_vars
  PROVE  HeldInv'
<1> USE DEF loop, user
<1>1. ASSUME Prompt PROVE HeldInv'
  <2>1. KindsInv'
    <3> QED
      BY <1>1, SeqOf DEF Prompt, Start, KindsInv, HeldInv
  <2>2. OutboxInv'
    <3>1. <<Msg("prompt", asked + 1)>> \in Seq(Inputs)
      BY MsgFacts, SeqOf DEF Typed, QueuesTyped
    <3> QED
      BY <1>1, <3>1 DEF Prompt, Start, OutboxInv, HeldInv, Emitting, Opening,
           Batch
  <2>3. PendingInv'
    BY <1>1 DEF Prompt, Start, PendingInv, HeldInv
  <2> QED
    BY <2>1, <2>2, <2>3 DEF HeldInv
<1>2. ASSUME Continue PROVE HeldInv'
  <2>1. KindsInv'
    <3>1. Peek(steering, SteeringMode) \in Seq(Steers) /\ Rest(steering, SteeringMode) \in Seq(Steers)
      BY PeekRest DEF HeldInv, KindsInv
    <3>2. Peek(followUps, FollowUpMode) \in Seq(FollowUps) /\ Rest(followUps, FollowUpMode) \in Seq(FollowUps)
      BY PeekRest DEF HeldInv, KindsInv
    <3> QED
      <4>1. /\ steering' \in {steering, Rest(steering, SteeringMode)}
            /\ followUps' \in {followUps, Rest(followUps, FollowUpMode)}
            /\ pending' = <<>> /\ status' = <<>>
        BY <1>2 DEF Continue, Start
      <4>2. <<>> \in Seq(Steers) /\ <<>> \in Seq(Of({"status"}))
        BY SeqOf
      <4> QED
        BY <4>1, <4>2, <3>1, <3>2 DEF KindsInv, HeldInv
  <2>2. OutboxInv'
    <3>1. Peek(steering, SteeringMode) \in Seq(Steers) /\ Rest(steering, SteeringMode) \in Seq(Steers)
      BY PeekRest DEF HeldInv, KindsInv
    <3>2. Peek(followUps, FollowUpMode) \in Seq(FollowUps) /\ Rest(followUps, FollowUpMode) \in Seq(FollowUps)
      BY PeekRest DEF HeldInv, KindsInv
    <3> QED
      <4>1. outbox' \in {<<>>, Peek(steering, SteeringMode), Peek(followUps, FollowUpMode)} /\ pc' = "started"
        BY <1>2 DEF Continue, Start
      <4>2. <<>> \in Seq(Inputs)
        OBVIOUS
      <4>3. outbox' \in Seq(Inputs)
        BY <4>1, <4>2, <3>1, <3>2, Kinds
      <4> QED
        BY <4>1, <4>3 DEF OutboxInv, Emitting, Opening, Batch
  <2>3. PendingInv'
    BY <1>2 DEF Continue, Start, PendingInv, HeldInv
  <2> QED
    BY <2>1, <2>2, <2>3 DEF HeldInv
<1>3. ASSUME Steer PROVE HeldInv'
  <2>1. KindsInv'
    <3>1. Msg("steer", asked + 1) \in Steers
      BY MsgFacts DEF Typed, QueuesTyped
    <3> QED
      BY <1>3, <3>1, SeqOf DEF Steer, KindsInv, HeldInv
  <2>2. OutboxInv'
    BY <1>3 DEF Steer, OutboxInv, HeldInv, Emitting, Opening, Batch
  <2>3. PendingInv'
    BY <1>3 DEF Steer, PendingInv, HeldInv
  <2> QED
    BY <2>1, <2>2, <2>3 DEF HeldInv
<1>4. ASSUME FollowUp PROVE HeldInv'
  <2>1. KindsInv'
    <3>1. Msg("followUp", asked + 1) \in FollowUps
      BY MsgFacts DEF Typed, QueuesTyped
    <3> QED
      BY <1>4, <3>1, SeqOf DEF FollowUp, KindsInv, HeldInv
  <2>2. OutboxInv'
    BY <1>4 DEF FollowUp, OutboxInv, HeldInv, Emitting, Opening, Batch
  <2>3. PendingInv'
    BY <1>4 DEF FollowUp, PendingInv, HeldInv
  <2> QED
    BY <2>1, <2>2, <2>3 DEF HeldInv
<1>5. ASSUME ClearAllQueues PROVE HeldInv'
  <2>1. KindsInv'
    <3> QED
      BY <1>5, SeqOf DEF ClearAllQueues, Forget, KindsInv, HeldInv
  <2>2. OutboxInv'
    BY <1>5 DEF ClearAllQueues, Forget, OutboxInv, HeldInv, Emitting, Opening,
         Batch
  <2>3. PendingInv'
    BY <1>5 DEF ClearAllQueues, Forget, PendingInv, HeldInv
  <2> QED
    BY <2>1, <2>2, <2>3 DEF HeldInv
<1>6. ASSUME Abort PROVE HeldInv'
  <2>1. KindsInv'
    BY <1>6 DEF Abort, KindsInv, HeldInv
  <2>2. OutboxInv'
    BY <1>6 DEF Abort, OutboxInv, HeldInv, Emitting, Opening, Batch
  <2>3. PendingInv'
    BY <1>6 DEF Abort, PendingInv, HeldInv
  <2> QED
    BY <2>1, <2>2, <2>3 DEF HeldInv
<1>7. ASSUME Reset PROVE HeldInv'
  <2>1. KindsInv'
    <3> QED
      BY <1>7, SeqOf DEF Reset, Forget, KindsInv, HeldInv
  <2>2. OutboxInv'
    BY <1>7 DEF Reset, Forget, OutboxInv, HeldInv, Emitting, Opening, Batch
  <2>3. PendingInv'
    BY <1>7 DEF Reset, Forget, PendingInv, HeldInv
  <2> QED
    BY <2>1, <2>2, <2>3 DEF HeldInv
<1>8. ASSUME TurnStart PROVE HeldInv'
  <2>1. KindsInv'
    BY <1>8 DEF TurnStart, KindsInv, HeldInv
  <2>2. OutboxInv'
    <3>1. PICK s \in SystemUpdates : outbox' = IF outbox = <<>> THEN <<>> ELSE s \o outbox
      BY <1>8 DEF TurnStart
    <3>2. s \in Seq(Inputs) /\ outbox \in Seq(Inputs)
      BY <1>8, Kinds DEF TurnStart, HeldInv, OutboxInv, Emitting, Opening
    <3>3. outbox' \in Seq(Inputs)
      BY <3>1, <3>2, SeqOf
    <3> QED
      BY <1>8, <3>3 DEF TurnStart, OutboxInv, HeldInv, Emitting, Opening, Batch
  <2>3. PendingInv'
    BY <1>8 DEF TurnStart, PendingInv, HeldInv
  <2> QED
    BY <2>1, <2>2, <2>3 DEF HeldInv
<1>9. ASSUME EmitMessage PROVE HeldInv'
  <2>1. KindsInv'
    BY <1>9 DEF EmitMessage, KindsInv, HeldInv
  <2>2. OutboxInv'
    <3> QED
      BY <1>9, SeqOf DEF EmitMessage, OutboxInv, HeldInv, Emitting, Opening, Batch
  <2>3. PendingInv'
    BY <1>9 DEF EmitMessage, PendingInv, HeldInv
  <2> QED
    BY <2>1, <2>2, <2>3 DEF HeldInv
<1>10. ASSUME InitialPoll PROVE HeldInv'
  <2>1. KindsInv'
    <3>1. Peek(steering, SteeringMode) \in Seq(Steers) /\ Rest(steering, SteeringMode) \in Seq(Steers)
      BY PeekRest DEF HeldInv, KindsInv
    <3> QED
      BY <1>10, <3>1 DEF InitialPoll, KindsInv, HeldInv
  <2>2. OutboxInv'
    <3>1. Peek(steering, SteeringMode) \in Seq(Steers) /\ Rest(steering, SteeringMode) \in Seq(Steers)
      BY PeekRest DEF HeldInv, KindsInv
    <3>2. PICK s \in SystemUpdates, p \in Seq(Steers) : outbox' = s \o p
      BY <1>10, <3>1, SeqOf DEF InitialPoll
    <3>3. outbox' \in Seq(Inputs)
      BY <3>2, SeqOf, Kinds
    <3> QED
      BY <1>10, <3>3 DEF InitialPoll, OutboxInv, HeldInv, Emitting, Opening, Batch
  <2>3. PendingInv'
    BY <1>10 DEF InitialPoll, PendingInv, HeldInv
  <2> QED
    BY <2>1, <2>2, <2>3 DEF HeldInv
<1>11. ASSUME PrepareNextTurn PROVE HeldInv'
  <2>1. KindsInv'
    BY <1>11 DEF PrepareNextTurn, KindsInv, HeldInv
  <2>2. OutboxInv'
    BY <1>11 DEF PrepareNextTurn, OutboxInv, HeldInv, Emitting, Opening, Batch
  <2>3. PendingInv'
    BY <1>11 DEF PrepareNextTurn, PendingInv, HeldInv
  <2> QED
    BY <2>1, <2>2, <2>3 DEF HeldInv
<1>12. ASSUME NextTurn PROVE HeldInv'
  <2>1. KindsInv'
    <3>1. Peek(steering, SteeringMode) \in Seq(Steers) /\ Rest(steering, SteeringMode) \in Seq(Steers)
      BY PeekRest DEF HeldInv, KindsInv
    <3> QED
      BY <1>12, <3>1, SeqOf DEF NextTurn, KindsInv, HeldInv
  <2>2. OutboxInv'
    <3>1. Peek(steering, SteeringMode) \in Seq(Steers) /\ Rest(steering, SteeringMode) \in Seq(Steers)
      BY PeekRest DEF HeldInv, KindsInv
    <3>2. PICK s \in SystemUpdates, p \in Seq(Steers) \cup Seq(FollowUps) : outbox' = s \o p \o status
      BY <1>12, <3>1, SeqOf DEF NextTurn, HeldInv, KindsInv
    <3>3. s \in Seq(Inputs) /\ p \in Seq(Inputs) /\ status \in Seq(Inputs)
      BY <3>2, Kinds DEF HeldInv, KindsInv
    <3>4. outbox' \in Seq(Inputs)
      BY <3>2, <3>3, SeqOf
    <3> QED
      BY <1>12, <3>4 DEF NextTurn, OutboxInv, HeldInv, Emitting, Opening, Batch
  <2>3. PendingInv'
    BY <1>12 DEF NextTurn, PendingInv, HeldInv
  <2> QED
    BY <2>1, <2>2, <2>3 DEF HeldInv
<1>13. ASSUME PrepareRequest PROVE HeldInv'
  <2>1. KindsInv'
    BY <1>13 DEF PrepareRequest, KindsInv, HeldInv
  <2>2. OutboxInv'
    BY <1>13 DEF PrepareRequest, OutboxInv, HeldInv, Emitting, Opening, Batch
  <2>3. PendingInv'
    BY <1>13 DEF PrepareRequest, PendingInv, HeldInv
  <2> QED
    BY <2>1, <2>2, <2>3 DEF HeldInv
<1>14. ASSUME FailTruncatedCall PROVE HeldInv'
  <2>1. KindsInv'
    BY <1>14 DEF FailTruncatedCall, Settled, KindsInv, HeldInv
  <2>2. OutboxInv'
    <3>1. NextCall \in Nat
      BY <1>14, NextCallIn DEF FailTruncatedCall, Typed
    <3>2. outbox' \in Seq(Results)
      BY <1>14, <3>1, MsgFacts, SeqOf DEF FailTruncatedCall
    <3> QED
      BY <1>14, <3>2 DEF FailTruncatedCall, Settled, OutboxInv, HeldInv, Emitting,
           Opening, Batch
  <2>3. PendingInv'
    BY <1>14 DEF FailTruncatedCall, Settled, PendingInv, HeldInv
  <2> QED
    BY <2>1, <2>2, <2>3 DEF HeldInv
<1>15. ASSUME StartCall PROVE HeldInv'
  <2>1. KindsInv'
    BY <1>15 DEF StartCall, Settled, Cut, KindsInv, HeldInv
  <2>2. OutboxInv'
    BY <1>15 DEF StartCall, Settled, Cut, OutboxInv, HeldInv, Emitting, Opening,
         Batch
  <2>3. PendingInv'
    BY <1>15 DEF StartCall, Settled, Cut, PendingInv, HeldInv
  <2> QED
    BY <2>1, <2>2, <2>3 DEF HeldInv
<1>16. ASSUME NEW i \in DOMAIN calls, PrepareCall(i) PROVE HeldInv'
  <2>1. KindsInv'
    BY <1>16 DEF PrepareCall, KindsInv, HeldInv
  <2>2. OutboxInv'
    BY <1>16 DEF PrepareCall, OutboxInv, HeldInv, Emitting, Opening, Batch
  <2>3. PendingInv'
    BY <1>16 DEF PrepareCall, PendingInv, HeldInv
  <2> QED
    BY <2>1, <2>2, <2>3 DEF HeldInv
<1>17. ASSUME LaunchCalls PROVE HeldInv'
  <2>1. KindsInv'
    BY <1>17 DEF LaunchCalls, Settled, Cut, KindsInv, HeldInv
  <2>2. OutboxInv'
    BY <1>17 DEF LaunchCalls, Settled, Cut, OutboxInv, HeldInv, Emitting, Opening,
         Batch
  <2>3. PendingInv'
    BY <1>17 DEF LaunchCalls, Settled, Cut, PendingInv, HeldInv
  <2> QED
    BY <2>1, <2>2, <2>3 DEF HeldInv
<1>18. ASSUME CollectResults PROVE HeldInv'
  <2>1. KindsInv'
    BY <1>18 DEF CollectResults, KindsInv, HeldInv
  <2>2. OutboxInv'
    <3>1. Cardinality(Decided) \in Nat
      BY DecidedFinite DEF Typed
    <3>2. \A i \in 1..Cardinality(Decided) : Msg("toolResult", i) \in Results
      BY <3>1, MsgFacts
    <3>3. outbox' \in Seq(Results)
      BY <1>18, <3>1, <3>2 DEF CollectResults
    <3> QED
      BY <1>18, <3>3 DEF CollectResults, OutboxInv, HeldInv, Emitting, Opening,
           Batch
  <2>3. PendingInv'
    BY <1>18 DEF CollectResults, PendingInv, HeldInv
  <2> QED
    BY <2>1, <2>2, <2>3 DEF HeldInv
<1>19. ASSUME EndBatch PROVE HeldInv'
  <2>1. KindsInv'
    BY <1>19 DEF EndBatch, Settled, Cut, KindsInv, HeldInv
  <2>2. OutboxInv'
    BY <1>19 DEF EndBatch, Settled, Cut, OutboxInv, HeldInv, Emitting, Opening,
         Batch
  <2>3. PendingInv'
    BY <1>19 DEF EndBatch, Settled, Cut, PendingInv, HeldInv
  <2> QED
    BY <2>1, <2>2, <2>3 DEF HeldInv
<1>20. ASSUME NEW d \in {"none", "end", "continue"}, FinishTurn(d) PROVE HeldInv'
  <2>1. KindsInv'
    BY <1>20 DEF FinishTurn, KindsInv, HeldInv
  <2>2. OutboxInv'
    BY <1>20 DEF FinishTurn, OutboxInv, HeldInv, Emitting, Opening, Batch
  <2>3. PendingInv'
    BY <1>20 DEF FinishTurn, PendingInv, HeldInv
  <2> QED
    BY <2>1, <2>2, <2>3 DEF HeldInv
<1>21. ASSUME PollSteering PROVE HeldInv'
  <2>1. KindsInv'
    <3>1. Peek(steering, SteeringMode) \in Seq(Steers) /\ Rest(steering, SteeringMode) \in Seq(Steers)
      BY PeekRest DEF HeldInv, KindsInv
    <3> QED
      BY <1>21, <3>1 DEF PollSteering, KindsInv, HeldInv
  <2>2. OutboxInv'
    BY <1>21 DEF PollSteering, OutboxInv, HeldInv, Emitting, Opening, Batch
  <2>3. PendingInv'
      BY <1>21, PeekRest, SeqOf DEF PollSteering, PendingInv, HeldInv, KindsInv
  <2> QED
    BY <2>1, <2>2, <2>3 DEF HeldInv
<1>22. ASSUME ContextStatus PROVE HeldInv'
  <2>1. KindsInv'
    <3>1. <<Msg("status", 0)>> \in Seq(Of({"status"}))
      BY MsgFacts, SeqOf
    <3> QED
      BY <1>22, <3>1 DEF ContextStatus, KindsInv, HeldInv
  <2>2. OutboxInv'
    BY <1>22 DEF ContextStatus, OutboxInv, HeldInv, Emitting, Opening, Batch
  <2>3. PendingInv'
    BY <1>22 DEF ContextStatus, PendingInv, HeldInv
  <2> QED
    BY <2>1, <2>2, <2>3 DEF HeldInv
<1>23. ASSUME PollFollowUps PROVE HeldInv'
  <2>1. KindsInv'
    <3>1. Peek(followUps, FollowUpMode) \in Seq(FollowUps) /\ Rest(followUps, FollowUpMode) \in Seq(FollowUps)
      BY PeekRest DEF HeldInv, KindsInv
    <3> QED
      BY <1>23, <3>1 DEF PollFollowUps, KindsInv, HeldInv
  <2>2. OutboxInv'
    BY <1>23 DEF PollFollowUps, OutboxInv, HeldInv, Emitting, Opening, Batch
  <2>3. PendingInv'
      BY <1>23, PeekRest, SeqOf DEF PollFollowUps, PendingInv, HeldInv, KindsInv
  <2> QED
    BY <2>1, <2>2, <2>3 DEF HeldInv
<1>24. ASSUME AgentEnd PROVE HeldInv'
  <2>1. KindsInv'
    BY <1>24 DEF AgentEnd, KindsInv, HeldInv
  <2>2. OutboxInv'
    BY <1>24 DEF AgentEnd, OutboxInv, HeldInv, Emitting, Opening, Batch
  <2>3. PendingInv'
    BY <1>24 DEF AgentEnd, PendingInv, HeldInv
  <2> QED
    BY <2>1, <2>2, <2>3 DEF HeldInv
<1>25. ASSUME FailureEnd PROVE HeldInv'
  <2>1. KindsInv'
    BY <1>25 DEF FailureEnd, KindsInv, HeldInv
  <2>2. OutboxInv'
    BY <1>25 DEF FailureEnd, OutboxInv, HeldInv, Emitting, Opening, Batch
  <2>3. PendingInv'
    BY <1>25 DEF FailureEnd, PendingInv, HeldInv
  <2> QED
    BY <2>1, <2>2, <2>3 DEF HeldInv
<1>26. ASSUME FinishRun PROVE HeldInv'
  <2>1. KindsInv'
    BY <1>26 DEF FinishRun, KindsInv, HeldInv
  <2>2. OutboxInv'
    BY <1>26 DEF FinishRun, OutboxInv, HeldInv, Emitting, Opening, Batch
  <2>3. PendingInv'
    BY <1>26 DEF FinishRun, PendingInv, HeldInv
  <2> QED
    BY <2>1, <2>2, <2>3 DEF HeldInv
<1>27. ASSUME NEW stop \in {"stop", "length", "error", "aborted"}, NEW n \in 0..MaxCalls, Respond(stop, n)
      PROVE  HeldInv'
  <2>1. KindsInv'
    BY <1>27 DEF Respond, KindsInv, HeldInv
  <2>2. OutboxInv'
    <3>1. outbox = <<>> /\ outbox' = outbox /\ pc' \in {"finishFailed", "finishTurn", "tools"}
      BY <1>27 DEF Respond, OutboxInv, HeldInv, Emitting, Opening, Batch
    <3>2. <<>> \in Seq(Results)
      OBVIOUS
    <3> QED
      BY <3>1, <3>2 DEF OutboxInv, Emitting, Opening, Batch
  <2>3. PendingInv'
    BY <1>27 DEF Respond, PendingInv, HeldInv
  <2> QED
    BY <2>1, <2>2, <2>3 DEF HeldInv
<1>28. ASSUME NEW i \in DOMAIN calls, FinalizeCall(i) PROVE HeldInv'
  <2>1. KindsInv'
    BY <1>28 DEF FinalizeCall, KindsInv, HeldInv
  <2>2. OutboxInv'
    <3>1. <<Msg("toolResult", i)>> \in Seq(Results)
      BY MsgFacts, SeqOf DEF Typed, CallsTyped
    <3> QED
      BY <1>28, <3>1 DEF FinalizeCall, OutboxInv, HeldInv, Emitting, Opening, Batch
  <2>3. PendingInv'
    BY <1>28 DEF FinalizeCall, PendingInv, HeldInv
  <2> QED
    BY <2>1, <2>2, <2>3 DEF HeldInv
<1>29. ASSUME Throw PROVE HeldInv'
  <2>1. KindsInv'
    <3> QED
      BY <1>29, SeqOf DEF Throw, Forget, KindsInv, HeldInv
  <2>2. OutboxInv'
    BY <1>29 DEF Throw, Forget, OutboxInv, HeldInv, Emitting, Opening, Batch
  <2>3. PendingInv'
    BY <1>29 DEF Throw, Forget, PendingInv, HeldInv
  <2> QED
    BY <2>1, <2>2, <2>3 DEF HeldInv
<1>30. ASSUME UNCHANGED vars PROVE HeldInv'
  <2>1. KindsInv'
    BY <1>30 DEF vars, KindsInv, HeldInv
  <2>2. OutboxInv'
    BY <1>30 DEF vars, OutboxInv, HeldInv, Emitting, Opening, Batch
  <2>3. PendingInv'
    BY <1>30 DEF vars, PendingInv, HeldInv
  <2> QED
    BY <2>1, <2>2, <2>3 DEF HeldInv
<1>31. ASSUME FailureMessage PROVE HeldInv'
  <2>1. KindsInv'
    BY <1>31 DEF FailureMessage, KindsInv, HeldInv
  <2>2. OutboxInv'
    BY <1>31 DEF FailureMessage, OutboxInv, HeldInv, Emitting, Opening, Batch
  <2>3. PendingInv'
    BY <1>31 DEF FailureMessage, PendingInv, HeldInv
  <2> QED
    BY <2>1, <2>2, <2>3 DEF HeldInv
<1>32. ASSUME FailReporting PROVE HeldInv'
  <2>1. KindsInv'
    BY <1>32 DEF FailReporting, KindsInv, HeldInv
  <2>2. OutboxInv'
    BY <1>32 DEF FailReporting, OutboxInv, HeldInv, Emitting, Opening, Batch
  <2>3. PendingInv'
    BY <1>32 DEF FailReporting, PendingInv, HeldInv
  <2> QED
    BY <2>1, <2>2, <2>3 DEF HeldInv
<1> QED
  BY <1>1, <1>2, <1>3, <1>4, <1>5, <1>6, <1>7, <1>8, <1>9, <1>10, <1>11, <1>12,
       <1>13, <1>14, <1>15, <1>16, <1>17, <1>18, <1>19, <1>20, <1>21, <1>22,
       <1>23, <1>24, <1>25, <1>26, <1>27, <1>28, <1>29, <1>30, <1>31, <1>32
     DEF Next, UserStep, LoopStep, ExternalStep

-----------------------------------------------------------------------------
(* A step that does not touch the batch.                                   *)
LEMMA SameBatch ==
  ASSUME BatchesInv, UNCHANGED <<pc, aborted, turn, outbox, mode, calls>>
  PROVE  BatchesInv'
<1>1. BatchInv'
  BY DEF BatchesInv, BatchInv, Front, Answers
<1>2. TruncatedInv' /\ SequentialInv' /\ ModeInv'
  BY DEF BatchesInv, TruncatedInv, SequentialInv, ModeInv, Front
<1>3. ParallelInv'
  BY DEF BatchesInv, ParallelInv, Front, StartedTo, In
<1> QED
  BY <1>1, <1>2, <1>3 DEF BatchesInv

(* Every step keeps the order of the calls and results of a batch.         *)
LEMMA BatchStep ==
  ASSUME LoopAssumption, Typed, Typed', HeldInv, BatchesInv, [Next]_vars
  PROVE  BatchesInv'
<1> USE DEF loop, user
<1>1. ASSUME Prompt PROVE BatchesInv'
  <2>1. pc' \notin Batch
    BY <1>1 DEF Prompt, Start, Batch
  <2> QED
    BY <2>1 DEF BatchInv, TruncatedInv, SequentialInv, ParallelInv, ModeInv,
         BatchesInv
<1>2. ASSUME Continue PROVE BatchesInv'
  <2>1. pc' \notin Batch
    BY <1>2 DEF Continue, Start, Batch
  <2> QED
    BY <2>1 DEF BatchInv, TruncatedInv, SequentialInv, ParallelInv, ModeInv,
         BatchesInv
<1>3. ASSUME Steer PROVE BatchesInv'
  <2>1. UNCHANGED <<pc, aborted, turn, outbox, mode, calls>>
    BY <1>3 DEF Steer
  <2> QED
    BY <2>1, SameBatch
<1>4. ASSUME FollowUp PROVE BatchesInv'
  <2>1. UNCHANGED <<pc, aborted, turn, outbox, mode, calls>>
    BY <1>4 DEF FollowUp
  <2> QED
    BY <2>1, SameBatch
<1>5. ASSUME ClearAllQueues PROVE BatchesInv'
  <2>1. UNCHANGED <<pc, aborted, turn, outbox, mode, calls>>
    BY <1>5 DEF ClearAllQueues, Forget
  <2> QED
    BY <2>1, SameBatch
<1>6. ASSUME Abort PROVE BatchesInv'
  BY <1>6 DEF Abort, In, Front, Answers, StartedTo, BatchInv, TruncatedInv,
       SequentialInv, ParallelInv, ModeInv, BatchesInv
<1>7. ASSUME Reset PROVE BatchesInv'
  <2>1. pc' \notin Batch
    BY <1>7 DEF Reset, Forget, Batch
  <2> QED
    BY <2>1 DEF BatchInv, TruncatedInv, SequentialInv, ParallelInv, ModeInv,
         BatchesInv
<1>8. ASSUME TurnStart PROVE BatchesInv'
  <2>1. pc' \notin Batch
    BY <1>8 DEF TurnStart, Batch
  <2> QED
    BY <2>1 DEF BatchInv, TruncatedInv, SequentialInv, ParallelInv, ModeInv,
         BatchesInv
<1>9. ASSUME EmitMessage PROVE BatchesInv'
  <2>1. CASE pc \notin Batch
    BY <1>9, <2>1 DEF EmitMessage, BatchInv, TruncatedInv, SequentialInv, ParallelInv, ModeInv, BatchesInv
  <2>2. CASE pc \in Batch
    <3>1. /\ outbox \in Seq(Message) /\ outbox # <<>> /\ turn \in Seq(Message) /\ Len(turn) >= 1
          /\ turn' = Append(turn, Head(outbox)) /\ outbox' = Tail(outbox)
      BY <1>9, <2>2 DEF EmitMessage, Typed, QueuesTyped, BatchesInv, BatchInv, Answers
    <3>2. /\ UNCHANGED <<pc, aborted, mode, calls>>
      BY <1>9 DEF EmitMessage
    <3>3. /\ Len(turn') = Len(turn) + 1 /\ Len(outbox') = Len(outbox) - 1 /\ Len(turn) \in Nat /\ Len(outbox) \in Nat
          /\ Len(outbox) >= 1
          /\ \A i \in 1..Len(turn) : turn'[i] = turn[i]
          /\ turn'[Len(turn) + 1] = outbox[1] /\ \A i \in 1..(Len(outbox) - 1) : outbox'[i] = outbox[i + 1]
          /\ DOMAIN outbox' = 1..(Len(outbox) - 1) /\ DOMAIN outbox = 1..Len(outbox)
      BY <3>1
    <3>4. Front' = Front /\ Front > 1 /\ Front \in Nat
      BY <3>1, <3>3 DEF Front
    <3>5. /\ Answers(turn, Len(calls)) /\ Front <= Len(calls) + 1
          /\ \A i \in DOMAIN outbox : outbox[i] = Msg("toolResult", Len(turn) + i - 1)
      BY <2>2 DEF BatchesInv, BatchInv
    <3>6. outbox[1] = Msg("toolResult", Len(turn))
      <4>1. 1 \in DOMAIN outbox /\ Len(turn) + 1 - 1 = Len(turn)
        BY <3>3
      <4> QED
        BY <4>1, <3>5
    <3>7. Answers(turn', Len(calls'))
      <4>1. turn' # <<>> /\ turn'[1] = turn[1] /\ turn[1] = Msg("assistant", Len(calls))
        BY <3>1, <3>3, <3>5 DEF Answers
      <4>2. ASSUME NEW i \in 2..Len(turn') PROVE turn'[i] = Msg("toolResult", i - 1)
        <5>1. CASE i = Len(turn) + 1
          <6>1. i - 1 = Len(turn) /\ turn'[i] = outbox[1]
            BY <3>3, <5>1
          <6> QED
            BY <6>1, <3>6
        <5>2. CASE i # Len(turn) + 1
          <6>1. i \in 2..Len(turn) /\ turn'[i] = turn[i]
            BY <3>3, <4>2, <5>2
          <6> QED
            BY <6>1, <3>5 DEF Answers
        <5> QED
          BY <5>1, <5>2
      <4> QED
        BY <3>2, <4>1, <4>2 DEF Answers
    <3>8. ASSUME NEW i \in DOMAIN outbox' PROVE outbox'[i] = Msg("toolResult", Len(turn') + i - 1)
      <4>1. i + 1 \in DOMAIN outbox /\ outbox'[i] = outbox[i + 1] /\ Len(turn) + (i + 1) - 1 = Len(turn') + i - 1
        BY <3>3
      <4> QED
        BY <4>1, <3>5
    <3>9. BatchInv'
      BY <3>2, <3>4, <3>5, <3>7, <3>8 DEF BatchInv
    <3>10. TruncatedInv'
      BY <3>2, <3>4 DEF BatchesInv, TruncatedInv
    <3>11. SequentialInv'
      BY <3>1, <3>2, <3>4 DEF BatchesInv, SequentialInv
    <3>12. ParallelInv'
      BY <2>2, <3>2, <3>4 DEF BatchesInv, ParallelInv, StartedTo, In
    <3>13. ModeInv'
      BY <3>2 DEF BatchesInv, ModeInv
    <3> QED
      BY <3>9, <3>10, <3>11, <3>12, <3>13 DEF BatchesInv
  <2> QED
    BY <2>1, <2>2
<1>10. ASSUME InitialPoll PROVE BatchesInv'
  <2>1. pc' \notin Batch
    BY <1>10 DEF InitialPoll, Batch
  <2> QED
    BY <2>1 DEF BatchInv, TruncatedInv, SequentialInv, ParallelInv, ModeInv,
         BatchesInv
<1>11. ASSUME PrepareNextTurn PROVE BatchesInv'
  <2>1. pc' \notin Batch
    BY <1>11 DEF PrepareNextTurn, Batch
  <2> QED
    BY <2>1 DEF BatchInv, TruncatedInv, SequentialInv, ParallelInv, ModeInv,
         BatchesInv
<1>12. ASSUME NextTurn PROVE BatchesInv'
  <2>1. pc' \notin Batch
    BY <1>12 DEF NextTurn, Batch
  <2> QED
    BY <2>1 DEF BatchInv, TruncatedInv, SequentialInv, ParallelInv, ModeInv,
         BatchesInv
<1>13. ASSUME PrepareRequest PROVE BatchesInv'
  <2>1. pc' \notin Batch
    BY <1>13 DEF PrepareRequest, Batch
  <2> QED
    BY <2>1 DEF BatchInv, TruncatedInv, SequentialInv, ParallelInv, ModeInv,
         BatchesInv
<1>14. ASSUME FailTruncatedCall PROVE BatchesInv'
  <2>1. /\ outbox = <<>> /\ pc = "tools" /\ pc \in Batch /\ In({"started"}) = {}
        /\ mode = "sequential" => In({"running"}) = {}
    BY <1>14 DEF FailTruncatedCall, Settled, Batch
  <2>2. /\ NextCall \in DOMAIN calls /\ calls[NextCall] = "new" /\ NextCall \in Nat
        /\ \A i \in DOMAIN calls : calls[i] = "new" => NextCall <= i
    BY <1>14, NextCallIn DEF FailTruncatedCall, Typed
  <2>3. /\ Len(calls) \in Nat /\ DOMAIN calls = 1..Len(calls) /\ Len(turn) \in Nat
        /\ Len(outbox) = 0 /\ Front = Len(turn) /\ Len(turn) >= 1
    <3>1. Len(calls) \in Nat /\ DOMAIN calls = 1..Len(calls)
      BY DEF Typed, CallsTyped
    <3>2. Len(turn) \in Nat /\ turn \in Seq(Message)
      BY DEF Typed, QueuesTyped
    <3>3. turn # <<>>
      BY <2>1 DEF BatchesInv, BatchInv, Answers
    <3>4. Len(outbox) = 0
      BY <2>1
    <3> QED
      BY <3>1, <3>2, <3>3, <3>4 DEF Front
  <2>4. /\ calls' = [calls EXCEPT ![NextCall] = "final"] /\ outbox' = <<Msg("toolResult", NextCall)>>
        /\ mode = "truncated" /\ UNCHANGED <<pc, mode, turn>>
    BY <1>14 DEF FailTruncatedCall
  <2>5. \A i \in DOMAIN calls : calls[i] = IF i < Front THEN "final" ELSE "new"
    BY <2>1, <2>4 DEF BatchesInv, TruncatedInv
  <2>6. NextCall = Len(turn) /\ Front <= Len(calls) + 1 /\ Answers(turn, Len(calls))
    BY <2>1, <2>2, <2>3, <2>5 DEF BatchesInv, BatchInv
  <2>7. DOMAIN calls' = DOMAIN calls /\ Len(calls') = Len(calls) /\ Front' = Front + 1
    BY <2>3, <2>4 DEF Typed, CallsTyped, Front
  <2>8. BatchInv'
    <3>1. DOMAIN outbox' = {1} /\ outbox'[1] = Msg("toolResult", Len(turn))
      BY <2>4, <2>6
    <3>2. Len(turn') + 1 - 1 = Len(turn) /\ Front' <= Len(calls') + 1
      BY <2>2, <2>3, <2>4, <2>6, <2>7
    <3> QED
      BY <2>4, <2>6, <2>7, <3>1, <3>2 DEF BatchInv
  <2>9. TruncatedInv'
    <3>1. \A i \in DOMAIN calls' : calls'[i] = IF i < Front' THEN "final" ELSE "new"
      BY <2>3, <2>4, <2>5, <2>6, <2>7
    <3> QED
      BY <2>1, <2>4, <3>1 DEF TruncatedInv
  <2> QED
    BY <2>4, <2>8, <2>9 DEF BatchesInv, SequentialInv, ParallelInv, ModeInv
<1>15. ASSUME StartCall PROVE BatchesInv'
  <2>1. /\ outbox = <<>> /\ pc = "tools" /\ pc \in Batch /\ In({"started"}) = {}
        /\ mode = "sequential" => In({"running"}) = {}
    BY <1>15 DEF StartCall, Settled, Batch
  <2>2. /\ NextCall \in DOMAIN calls /\ calls[NextCall] = "new" /\ NextCall \in Nat
        /\ \A i \in DOMAIN calls : calls[i] = "new" => NextCall <= i
    BY <1>15, NextCallIn DEF StartCall, Typed
  <2>3. /\ Len(calls) \in Nat /\ DOMAIN calls = 1..Len(calls) /\ Len(turn) \in Nat
        /\ Len(outbox) = 0 /\ Front = Len(turn) /\ Len(turn) >= 1
    <3>1. Len(calls) \in Nat /\ DOMAIN calls = 1..Len(calls)
      BY DEF Typed, CallsTyped
    <3>2. Len(turn) \in Nat /\ turn \in Seq(Message)
      BY DEF Typed, QueuesTyped
    <3>3. turn # <<>>
      BY <2>1 DEF BatchesInv, BatchInv, Answers
    <3>4. Len(outbox) = 0
      BY <2>1
    <3> QED
      BY <3>1, <3>2, <3>3, <3>4 DEF Front
  <2>4. /\ calls' = [calls EXCEPT ![NextCall] = "started"]
        /\ mode # "truncated" /\ UNCHANGED <<pc, mode, turn, outbox, aborted>>
    BY <1>15 DEF StartCall
  <2>5. /\ DOMAIN calls' = DOMAIN calls /\ Len(calls') = Len(calls) /\ Front' = Front
        /\ calls'[NextCall] = "started" /\ \A i \in DOMAIN calls : i # NextCall => calls'[i] = calls[i]
    BY <2>2, <2>3, <2>4 DEF Typed, CallsTyped, Front
  <2>6. BatchInv'
    BY <2>4, <2>5 DEF BatchesInv, BatchInv
  <2>7. SequentialInv'
    <3>1. SUFFICES ASSUME mode = "sequential" PROVE SequentialInv'
      BY <2>4 DEF SequentialInv
    <3>2. \A i \in DOMAIN calls : /\ i < Front => calls[i] \in {"immediate", "final"}
                                  /\ i = Front => calls[i] \in {"new", "started", "running"}
                                  /\ i > Front => calls[i] = "new"
      BY <2>1, <3>1 DEF BatchesInv, SequentialInv
    <3>3. Front \in DOMAIN calls /\ calls[Front] = "new"
      BY <2>1, <2>2, <2>3, <3>1, <3>2 DEF In
    <3>4. NextCall = Front
      BY <2>2, <2>3, <3>2, <3>3
    <3> QED
      BY <2>1, <2>4, <2>5, <3>2, <3>4 DEF SequentialInv
  <2>8. ParallelInv'
    <3>1. SUFFICES ASSUME mode = "parallel" PROVE ParallelInv'
      BY <2>4 DEF ParallelInv
    <3>2. PICK k \in 0..Len(calls) : StartedTo(k)
      BY <2>1, <3>1 DEF BatchesInv, ParallelInv
    <3>3. NextCall = k + 1 /\ k + 1 \in 0..Len(calls)
      <4>1. NextCall > k
        BY <2>2, <2>3, <3>2 DEF StartedTo
      <4>2. k + 1 \in DOMAIN calls /\ ~(k + 1 <= k)
        BY <2>2, <2>3, <3>2, <4>1
      <4>3. calls[k + 1] = "new"
        BY <3>2, <4>2 DEF StartedTo
      <4>4. NextCall <= k + 1
        BY <2>2, <4>2, <4>3
      <4> QED
        BY <2>2, <2>3, <3>2, <4>1, <4>2, <4>4
    <3>4. StartedTo(k + 1)'
      BY <2>2, <2>3, <2>5, <3>2, <3>3 DEF StartedTo
    <3>5. Front = 1 /\ In({"running"}) = {}
      BY <2>1, <3>1 DEF BatchesInv, ParallelInv
    <3>6. In({"running"})' = {}
      BY <2>5, <3>5 DEF In
    <3> QED
      BY <2>1, <2>4, <2>5, <3>3, <3>4, <3>5, <3>6 DEF ParallelInv
  <2> QED
    BY <2>4, <2>6, <2>7, <2>8 DEF BatchesInv, TruncatedInv, ModeInv
<1>16. ASSUME NEW i \in DOMAIN calls, PrepareCall(i) PROVE BatchesInv'
  <2>1. /\ pc = "tools" /\ pc \in Batch /\ calls[i] = "started" /\ UNCHANGED <<pc, mode, turn, outbox, aborted>>
        /\ calls' = [calls EXCEPT ![i] = IF mode = "sequential" THEN "running" ELSE "prepared"]
    BY <1>16 DEF PrepareCall, Batch
  <2>2. /\ Len(calls) \in Nat /\ DOMAIN calls = 1..Len(calls) /\ Front' = Front
        /\ DOMAIN calls' = DOMAIN calls /\ Len(calls') = Len(calls)
        /\ calls'[i] = (IF mode = "sequential" THEN "running" ELSE "prepared")
        /\ \A j \in DOMAIN calls : j # i => calls'[j] = calls[j]
    BY <2>1 DEF Typed, CallsTyped, Front
  <2>3. mode # "truncated"
    BY <2>1 DEF BatchesInv, TruncatedInv
  <2>4. BatchInv'
    BY <2>1, <2>2 DEF BatchesInv, BatchInv
  <2>5. SequentialInv'
    <3>1. SUFFICES ASSUME mode = "sequential" PROVE SequentialInv'
      BY <2>1 DEF SequentialInv
    <3>2. /\ \A j \in DOMAIN calls : /\ j < Front => calls[j] \in {"immediate", "final"}
                                     /\ j = Front => calls[j] \in {"new", "started", "running"}
                                     /\ j > Front => calls[j] = "new"
          /\ outbox = <<>>
      BY <2>1, <3>1 DEF BatchesInv, SequentialInv
    <3>3. Front \in Nat
      BY DEF Front, Typed, QueuesTyped
    <3>4. i = Front
      BY <2>1, <2>2, <3>2, <3>3
    <3> QED
      BY <2>1, <2>2, <3>1, <3>2, <3>4 DEF SequentialInv
  <2>6. ParallelInv'
    BY <2>1, <2>2 DEF BatchesInv, ParallelInv, StartedTo, In
  <2> QED
    BY <2>1, <2>3, <2>4, <2>5, <2>6 DEF BatchesInv, TruncatedInv, ModeInv
<1>17. ASSUME LaunchCalls PROVE BatchesInv'
  <2>1. /\ pc = "tools" /\ pc \in Batch /\ pc' = "running" /\ mode = "parallel" /\ outbox = <<>>
        /\ UNCHANGED <<mode, turn, aborted, outbox>>
        /\ calls' = [j \in DOMAIN calls |->
                        IF calls[j] = "prepared" THEN (IF aborted THEN "final" ELSE "running") ELSE calls[j]]
        /\ In({"started"}) = {} /\ (aborted \/ In({"new"}) = {})
    BY <1>17 DEF LaunchCalls, Settled, Cut, Batch
  <2>2. /\ Len(calls) \in Nat /\ DOMAIN calls = 1..Len(calls)
        /\ DOMAIN calls' = DOMAIN calls /\ Len(calls') = Len(calls) /\ Front' = Front
        /\ \A j \in DOMAIN calls :
              calls'[j] = IF calls[j] = "prepared" THEN (IF aborted THEN "final" ELSE "running") ELSE calls[j]
    BY <2>1, Typed' DEF Typed, CallsTyped, Front
  <2>3. BatchInv'
    BY <2>1, <2>2 DEF BatchesInv, BatchInv
  <2>4. ParallelInv'
    BY <2>1, <2>2 DEF BatchesInv, ParallelInv, StartedTo, In
  <2> QED
    BY <2>1, <2>3, <2>4 DEF BatchesInv, TruncatedInv, SequentialInv, ModeInv
<1>18. ASSUME CollectResults PROVE BatchesInv'
  <2>1. /\ pc = "running" /\ pc \in Batch /\ pc' = "results" /\ In({"running"}) = {}
        /\ UNCHANGED <<mode, turn, aborted, calls>>
    BY <1>18 DEF CollectResults, Batch
  <2>2. mode = "parallel"
    BY <2>1 DEF BatchesInv, TruncatedInv, SequentialInv, ModeInv, Typed, CallsTyped
  <2>3. PICK k \in 0..Len(calls) : StartedTo(k)
    BY <2>1, <2>2 DEF BatchesInv, ParallelInv
  <2>4. /\ Len(calls) \in Nat /\ DOMAIN calls = 1..Len(calls)
        /\ \A j \in DOMAIN calls : calls[j] \in CallStates
        /\ Len(turn) \in Nat /\ Len(outbox) \in Nat
    BY DEF Typed, CallsTyped, QueuesTyped
  <2>5. Front = 1 /\ In({"started", "prepared"}) = {} /\ Len(turn) = 1 /\ Answers(turn, Len(calls))
    <3>1. Front = 1 /\ In({"started", "prepared"}) = {}
      BY <2>1, <2>2 DEF BatchesInv, ParallelInv
    <3>2. Answers(turn, Len(calls))
      BY <2>1 DEF BatchesInv, BatchInv
    <3>3. Len(turn) # 0
      BY <3>2 DEF Answers, Typed, QueuesTyped
    <3>4. Len(turn) + Len(outbox) = 1
      BY <3>1 DEF Front
    <3>5. Len(turn) = 1
      <4> DEFINE a == Len(turn)
                 b == Len(outbox)
      <4>1. a \in Nat /\ b \in Nat /\ a # 0 /\ a + b = 1
        BY <2>4, <3>3, <3>4
      <4> HIDE DEF a, b
      <4>2. a = 1
        BY <4>1
      <4> QED
        BY <4>2 DEF a
    <3> QED
      BY <3>1, <3>2, <3>5
  <2>6. Decided = 1..k
    <3>1. \A j \in DOMAIN calls : calls[j] \in {"immediate", "final"} <=> calls[j] # "new"
      BY <2>1, <2>4, <2>5 DEF In, CallStates
    <3> QED
      BY <2>3, <2>4, <3>1 DEF Decided, In, StartedTo
  <2>7. Cardinality(Decided) = k
    BY <2>3, <2>4, <2>6, FS_Interval
  <2>8. /\ Len(outbox') = k /\ DOMAIN outbox' = 1..k /\ \A j \in 1..k : outbox'[j] = Msg("toolResult", j)
    <3>1. outbox' = [j \in 1..k |-> Msg("toolResult", j)]
      BY <1>18, <2>7 DEF CollectResults
    <3> QED
      BY <2>3, <2>4, <3>1
  <2>9. Front' = k + 1
    BY <2>1, <2>3, <2>4, <2>5, <2>8 DEF Front
  <2>10. BatchInv'
    <3>1. \A j \in 1..k : Len(turn) + j - 1 = j
      BY <2>3, <2>4, <2>5
    <3>2. Front' <= Len(calls') + 1
      BY <2>1, <2>3, <2>4, <2>9
    <3> QED
      BY <2>1, <2>5, <2>8, <3>1, <3>2 DEF BatchInv
  <2>11. ParallelInv'
    <3>1. Front' - 1 = k
      BY <2>3, <2>4, <2>9
    <3> QED
      BY <2>1, <2>2, <2>3, <2>5, <3>1 DEF BatchesInv, ParallelInv, StartedTo, In
  <2> QED
    BY <2>1, <2>2, <2>10, <2>11 DEF BatchesInv, TruncatedInv, SequentialInv, ModeInv
<1>19. ASSUME EndBatch PROVE BatchesInv'
  <2>1. pc' \notin Batch
    BY <1>19 DEF EndBatch, Settled, Cut, Batch
  <2> QED
    BY <2>1 DEF BatchInv, TruncatedInv, SequentialInv, ParallelInv, ModeInv,
         BatchesInv
<1>20. ASSUME NEW d \in {"none", "end", "continue"}, FinishTurn(d) PROVE BatchesInv'
  <2>1. pc' \notin Batch
    BY <1>20 DEF FinishTurn, Batch
  <2> QED
    BY <2>1 DEF BatchInv, TruncatedInv, SequentialInv, ParallelInv, ModeInv,
         BatchesInv
<1>21. ASSUME PollSteering PROVE BatchesInv'
  <2>1. pc' \notin Batch
    BY <1>21 DEF PollSteering, Batch
  <2> QED
    BY <2>1 DEF BatchInv, TruncatedInv, SequentialInv, ParallelInv, ModeInv,
         BatchesInv
<1>22. ASSUME ContextStatus PROVE BatchesInv'
  <2>1. pc' \notin Batch
    BY <1>22 DEF ContextStatus, Batch
  <2> QED
    BY <2>1 DEF BatchInv, TruncatedInv, SequentialInv, ParallelInv, ModeInv,
         BatchesInv
<1>23. ASSUME PollFollowUps PROVE BatchesInv'
  <2>1. pc' \notin Batch
    BY <1>23 DEF PollFollowUps, Batch
  <2> QED
    BY <2>1 DEF BatchInv, TruncatedInv, SequentialInv, ParallelInv, ModeInv,
         BatchesInv
<1>24. ASSUME AgentEnd PROVE BatchesInv'
  <2>1. pc' \notin Batch
    BY <1>24 DEF AgentEnd, Batch
  <2> QED
    BY <2>1 DEF BatchInv, TruncatedInv, SequentialInv, ParallelInv, ModeInv,
         BatchesInv
<1>25. ASSUME FailureEnd PROVE BatchesInv'
  <2>1. pc' \notin Batch
    BY <1>25 DEF FailureEnd, Batch
  <2> QED
    BY <2>1 DEF BatchInv, TruncatedInv, SequentialInv, ParallelInv, ModeInv,
         BatchesInv
<1>26. ASSUME FinishRun PROVE BatchesInv'
  <2>1. pc' \notin Batch
    BY <1>26 DEF FinishRun, Batch
  <2> QED
    BY <2>1 DEF BatchInv, TruncatedInv, SequentialInv, ParallelInv, ModeInv,
         BatchesInv
<1>27. ASSUME NEW stop \in {"stop", "length", "error", "aborted"}, NEW n \in 0..MaxCalls, Respond(stop, n)
      PROVE  BatchesInv'
  <2>1. CASE pc' # "tools"
    <3>1. pc' \notin Batch
      BY <1>27, <2>1 DEF Respond, Batch
    <3> QED
      BY <3>1 DEF BatchesInv, BatchInv, TruncatedInv, SequentialInv, ParallelInv, ModeInv
  <2>2. CASE pc' = "tools"
    <3>1. /\ n # 0 /\ turn' = <<Msg("assistant", n)>> /\ calls' = [j \in 1..n |-> "new"]
          /\ mode' \in {"truncated", "sequential", "parallel"} /\ outbox' = outbox
      BY <1>27, <2>2 DEF Respond, LoopAssumption
    <3>2. outbox = <<>> /\ n \in Nat
      BY <1>27 DEF Respond, HeldInv, OutboxInv, Emitting, Opening, Batch, LoopAssumption
    <3>3. /\ Len(calls') = n /\ DOMAIN calls' = 1..n /\ Len(turn') = 1 /\ turn'[1] = Msg("assistant", n)
          /\ DOMAIN outbox' = {} /\ Len(outbox') = 0 /\ Front' = 1
      BY <3>1, <3>2 DEF Front
    <3>4. \A j \in 1..n : calls'[j] = "new"
      BY <3>1, <3>2
    <3>5. BatchInv'
      <4>1. Answers(turn', n)
        BY <3>1, <3>2, <3>3 DEF Answers
      <4> QED
        BY <3>2, <3>3, <4>1 DEF BatchInv
    <3>6. TruncatedInv' /\ SequentialInv' /\ ModeInv'
      BY <2>2, <3>1, <3>2, <3>3, <3>4 DEF TruncatedInv, SequentialInv, ModeInv
    <3>7. StartedTo(0)' /\ 0 \in 0..Len(calls')
      BY <3>2, <3>3, <3>4 DEF StartedTo
    <3>8. In({"running"})' = {}
      BY <3>3, <3>4 DEF In
    <3>9. ParallelInv'
      BY <2>2, <3>3, <3>7, <3>8 DEF ParallelInv
    <3> QED
      BY <3>5, <3>6, <3>9 DEF BatchesInv
  <2> QED
    BY <2>1, <2>2
<1>28. ASSUME NEW i \in DOMAIN calls, FinalizeCall(i) PROVE BatchesInv'
  <2>1. /\ pc \in {"tools", "running"} /\ pc \in Batch /\ calls[i] \in {"started", "running"}
        /\ UNCHANGED <<pc, mode, turn, aborted>>
        /\ calls' = [calls EXCEPT ![i] = IF calls[i] = "started" THEN "immediate" ELSE "final"]
        /\ outbox' = IF mode = "sequential" THEN <<Msg("toolResult", i)>> ELSE outbox
    BY <1>28 DEF FinalizeCall, Batch
  <2>2. /\ Len(calls) \in Nat /\ DOMAIN calls = 1..Len(calls)
        /\ DOMAIN calls' = DOMAIN calls /\ Len(calls') = Len(calls)
        /\ calls'[i] \in {"immediate", "final"}
        /\ \A j \in DOMAIN calls : j # i => calls'[j] = calls[j]
    BY <2>1 DEF Typed, CallsTyped
  <2>3. mode # "truncated" /\ mode # "none"
    BY <2>1 DEF BatchesInv, TruncatedInv, ModeInv
  <2>4. CASE mode = "sequential"
    <3>1. /\ \A j \in DOMAIN calls : /\ j < Front => calls[j] \in {"immediate", "final"}
                                     /\ j = Front => calls[j] \in {"new", "started", "running"}
                                     /\ j > Front => calls[j] = "new"
          /\ outbox = <<>> /\ pc = "tools"
      BY <2>1, <2>4 DEF BatchesInv, SequentialInv
    <3>2. Front \in Nat /\ Front = Len(turn)
      BY <3>1 DEF Front, Typed, QueuesTyped
    <3>3. i = Front
      BY <2>1, <2>2, <3>1, <3>2
    <3>4. DOMAIN outbox' = {1} /\ outbox'[1] = Msg("toolResult", Len(turn)) /\ Len(outbox') = 1
      BY <2>1, <2>4, <3>2, <3>3
    <3>5. Front' = Front + 1
      BY <2>1, <3>2, <3>4 DEF Front, Typed, QueuesTyped
    <3>6. BatchInv'
      <4>1. Len(turn') + 1 - 1 = Len(turn) /\ Front' <= Len(calls') + 1
        BY <2>1, <2>2, <3>2, <3>3, <3>5
      <4> QED
        BY <2>1, <2>2, <3>4, <4>1 DEF BatchesInv, BatchInv
    <3>7. SequentialInv'
      <4>1. \A j \in DOMAIN calls : /\ j < Front + 1 => calls'[j] \in {"immediate", "final"}
                                    /\ j >= Front + 1 => calls'[j] = "new"
        BY <2>2, <3>1, <3>2, <3>3
      <4> QED
        BY <2>1, <2>2, <3>1, <3>2, <3>5, <4>1 DEF SequentialInv
    <3> QED
      BY <2>1, <2>4, <3>6, <3>7 DEF BatchesInv, TruncatedInv, ParallelInv, ModeInv
  <2>5. CASE mode = "parallel"
    <3>1. UNCHANGED outbox /\ Front' = Front
      BY <2>1, <2>5 DEF Front
    <3>2. BatchInv'
      BY <2>1, <2>2, <3>1 DEF BatchesInv, BatchInv
    <3>3. ParallelInv'
      BY <2>1, <2>2, <3>1 DEF BatchesInv, ParallelInv, StartedTo, In
    <3> QED
      BY <2>1, <2>5, <3>2, <3>3 DEF BatchesInv, TruncatedInv, SequentialInv, ModeInv
  <2> QED
    BY <2>3, <2>4, <2>5 DEF Typed, CallsTyped
<1>29. ASSUME Throw PROVE BatchesInv'
  <2>1. pc' \notin Batch
    BY <1>29 DEF Throw, Forget, Batch
  <2> QED
    BY <2>1 DEF BatchInv, TruncatedInv, SequentialInv, ParallelInv, ModeInv,
         BatchesInv
<1>30. ASSUME UNCHANGED vars PROVE BatchesInv'
  <2>1. UNCHANGED <<pc, aborted, turn, outbox, mode, calls>>
    BY <1>30 DEF vars
  <2> QED
    BY <2>1, SameBatch
<1>31. ASSUME FailureMessage PROVE BatchesInv'
  <2>1. pc' \notin Batch
    BY <1>31 DEF FailureMessage, Batch
  <2> QED
    BY <2>1 DEF BatchInv, TruncatedInv, SequentialInv, ParallelInv, ModeInv,
         BatchesInv
<1>32. ASSUME FailReporting PROVE BatchesInv'
  <2>1. pc' \notin Batch
    BY <1>32 DEF FailReporting, Batch
  <2> QED
    BY <2>1 DEF BatchInv, TruncatedInv, SequentialInv, ParallelInv, ModeInv,
         BatchesInv
<1> QED
  BY <1>1, <1>2, <1>3, <1>4, <1>5, <1>6, <1>7, <1>8, <1>9, <1>10, <1>11, <1>12,
       <1>13, <1>14, <1>15, <1>16, <1>17, <1>18, <1>19, <1>20, <1>21, <1>22,
       <1>23, <1>24, <1>25, <1>26, <1>27, <1>28, <1>29, <1>30, <1>31, <1>32
     DEF Next, UserStep, LoopStep, ExternalStep

-----------------------------------------------------------------------------
(* What the answers of a batch leave in the transcript.                    *)
LEMMA AnswersFacts ==
  ASSUME NEW s \in Seq(Message), NEW n \in Nat, Answers(s, n), Len(s) <= n + 1
  PROVE  /\ ResultsOK(s) /\ s \in Seq(Of({"assistant", "toolResult"}))
         /\ Len(s) = n + 1 => AllAnswered(s)
<1>1. Len(s) \in Nat /\ DOMAIN s = 1..Len(s) /\ Len(s) >= 1 /\ s[1] = Msg("assistant", n)
  BY DEF Answers
<1>2. \A i \in 2..Len(s) : s[i] = Msg("toolResult", i - 1)
  BY DEF Answers
<1>3. \A i \in 2..Len(s) : i - 1 \in Nat
  BY <1>1
<1>4. ResultsOK(s)
  <2>1. SUFFICES ASSUME NEW i \in DOMAIN s, s[i].role = "toolResult"
                 PROVE  s[1].role = "assistant" /\ s[i].n = i - 1 /\ s[i].n <= s[1].n
    BY DEF ResultsOK
  <2>2. s[1].role = "assistant" /\ s[1].n = n
    BY <1>1, MsgFacts
  <2>3. i \in 2..Len(s)
    BY <1>1, <2>1, <2>2
  <2>4. s[i].n = i - 1
    BY <1>2, <1>3, <2>3, MsgFacts
  <2> QED
    BY <1>1, <2>2, <2>3, <2>4
<1>5. \A i \in 1..Len(s) : s[i] \in Of({"assistant", "toolResult"})
  <2>1. s[1] \in Of({"assistant", "toolResult"})
    BY <1>1, MsgFacts
  <2>2. \A i \in 2..Len(s) : s[i] \in Of({"assistant", "toolResult"})
    BY <1>2, <1>3, MsgFacts
  <2> QED
    BY <1>1, <2>1, <2>2
<1>6. ASSUME Len(s) = n + 1 PROVE AllAnswered(s)
  <2>1. s # <<>> /\ s[1].n = n
    BY <1>1, MsgFacts
  <2>2. ASSUME NEW c \in 1..n PROVE c + 1 \in DOMAIN s /\ s[c + 1] = Msg("toolResult", c)
    <3>1. c + 1 \in 2..Len(s) /\ (c + 1) - 1 = c
      BY <1>6
    <3> QED
      BY <1>1, <1>2, <3>1
  <2> QED
    BY <2>1, <2>2 DEF AllAnswered
<1>7. s \in Seq(Of({"assistant", "toolResult"}))
  <2> DEFINE T == Of({"assistant", "toolResult"})
  <2>1. \A i \in 1..Len(s) : s[i] \in T
    BY <1>5
  <2> HIDE DEF T
  <2>2. s \in Seq(T)
    BY <2>1
  <2> QED
    BY <2>2 DEF T
<1> QED
  BY <1>4, <1>6, <1>7

(* Without an abort, every call of a finished batch has its result.        *)
LEMMA BatchAnswered ==
  ASSUME Typed, BatchesInv, EndBatch, ~aborted
  PROVE  Len(turn) = Len(calls) + 1
<1>1. /\ outbox = <<>> /\ pc \in Batch
      /\ \/ Settled /\ mode \in {"truncated", "sequential"} /\ In({"new"}) = {}
         \/ pc = "results"
  BY DEF EndBatch, Settled, Cut, Batch
<1>2. /\ Len(calls) \in Nat /\ DOMAIN calls = 1..Len(calls) /\ Len(turn) \in Nat
      /\ Front = Len(turn) /\ Len(turn) >= 1 /\ Front <= Len(calls) + 1
  BY <1>1 DEF Typed, CallsTyped, QueuesTyped, Front, BatchesInv, BatchInv, Answers
<1>3. ASSUME Front \in DOMAIN calls PROVE FALSE
  <2>1. CASE mode = "truncated"
    BY <1>1, <1>2, <1>3, <2>1 DEF BatchesInv, TruncatedInv, In
  <2>2. CASE mode = "sequential"
    BY <1>1, <1>2, <1>3, <2>2 DEF BatchesInv, SequentialInv, In, Settled
  <2>3. CASE mode = "parallel"
    <3>1. pc = "results" /\ In({"new"}) = {} /\ StartedTo(Front - 1)
      BY <1>1, <2>3 DEF BatchesInv, ParallelInv
    <3> QED
      BY <1>2, <1>3, <3>1 DEF StartedTo, In
  <2> QED
    BY <1>1, <2>1, <2>2, <2>3 DEF BatchesInv, ModeInv, Typed, CallsTyped
<1> QED
  BY <1>2, <1>3

(* Every step keeps results behind their calls, and every call of a turn   *)
(* that was not aborted answered.                                          *)
LEMMA TurnStep ==
  ASSUME LoopAssumption, Typed, Typed', HeldInv, BatchesInv, BatchesInv',
         TurnInv, [Next]_vars
  PROVE  TurnInv'
<1> USE DEF loop, user
<1>1. ASSUME Prompt PROVE TurnInv'
  BY <1>1 DEF Prompt, Start, Emitting, Opening, Asking, Broken, TurnInv
<1>2. ASSUME Continue PROVE TurnInv'
  BY <1>2 DEF Continue, Start, Emitting, Opening, Asking, Broken, TurnInv
<1>3. ASSUME Steer PROVE TurnInv'
  BY <1>3 DEF Steer, Emitting, Opening, Asking, Broken, TurnInv
<1>4. ASSUME FollowUp PROVE TurnInv'
  BY <1>4 DEF FollowUp, Emitting, Opening, Asking, Broken, TurnInv
<1>5. ASSUME ClearAllQueues PROVE TurnInv'
  BY <1>5 DEF ClearAllQueues, Forget, Emitting, Opening, Asking, Broken, TurnInv
<1>6. ASSUME Abort PROVE TurnInv'
  BY <1>6 DEF Abort, Emitting, Opening, Asking, Broken, TurnInv
<1>7. ASSUME Reset PROVE TurnInv'
  <2>1. turn' = <<>> /\ pc' = "idle" /\ DOMAIN turn' = {}
    BY <1>7 DEF Reset
  <2>2. ResultsOK(turn') /\ turn' \in Seq(Of({"assistant", "toolResult"}))
    BY <2>1, SeqOf DEF ResultsOK
  <2> QED
    BY <2>1, <2>2 DEF TurnInv, Opening, Broken
<1>8. ASSUME TurnStart PROVE TurnInv'
  BY <1>8 DEF TurnStart, Emitting, Opening, Asking, Broken, TurnInv
<1>9. ASSUME EmitMessage PROVE TurnInv'
  <2>1. /\ outbox \in Seq(Message) /\ outbox # <<>> /\ turn \in Seq(Message) /\ Len(turn) \in Nat
        /\ turn' = Append(turn, Head(outbox)) /\ UNCHANGED <<pc, aborted, completed>>
        /\ pc \in {"prompts", "deliver", "tools", "results"}
    BY <1>9 DEF EmitMessage, Typed, QueuesTyped
  <2>2. CASE pc \in Batch
    <3>1. turn' \in Seq(Message) /\ Len(calls') \in Nat
      BY Typed' DEF Typed, QueuesTyped, CallsTyped
    <3>2. Answers(turn', Len(calls')) /\ Front' <= Len(calls') + 1 /\ Len(turn') <= Front'
      <4>1. Answers(turn', Len(calls')) /\ Front' <= Len(calls') + 1
        BY <2>1, <2>2, BatchesInv' DEF BatchesInv, BatchInv
      <4>2. Len(turn') <= Front'
        BY Typed' DEF Front, Typed, QueuesTyped
      <4> QED
        BY <4>1, <4>2
    <3>3. Len(turn') <= Len(calls') + 1
      BY <3>1, <3>2, Typed' DEF Front, Typed, QueuesTyped
    <3>4. ResultsOK(turn') /\ turn' \in Seq(Of({"assistant", "toolResult"}))
      BY <3>1, <3>2, <3>3, AnswersFacts
    <3> QED
      BY <2>1, <2>2, <3>4 DEF TurnInv, Batch, Opening, Broken
  <2>3. CASE pc \in {"prompts", "deliver"}
    <3>1. Head(outbox) \in Inputs
      BY <2>1, <2>3 DEF HeldInv, OutboxInv, Emitting, Opening
    <3>2. Head(outbox).role # "toolResult"
      BY <3>1 DEF Inputs, Of
    <3>3. /\ DOMAIN turn' = 1..(Len(turn) + 1) /\ DOMAIN turn = 1..Len(turn)
          /\ \A i \in DOMAIN turn : turn'[i] = turn[i]
          /\ turn'[Len(turn) + 1] = Head(outbox)
      BY <2>1
    <3>4. ResultsOK(turn')
      <4>1. ResultsOK(turn)
        BY DEF TurnInv
      <4>2. \A i \in DOMAIN turn' : turn'[i].role = "toolResult" => i \in DOMAIN turn /\ 1 \in DOMAIN turn
        BY <2>1, <3>2, <3>3
      <4> QED
        BY <3>3, <4>1, <4>2 DEF ResultsOK
    <3>5. AllAnswered(turn) => AllAnswered(turn')
      <4>1. ASSUME AllAnswered(turn) PROVE AllAnswered(turn')
        <5>1. turn # <<>> /\ 1 \in DOMAIN turn /\ turn' # <<>>
          BY <2>1, <4>1 DEF AllAnswered
        <5>2. turn'[1] = turn[1] /\ \A c \in DOMAIN turn : c \in DOMAIN turn' /\ turn'[c] = turn[c]
          BY <2>1, <3>3, <5>1
        <5> QED
          BY <4>1, <5>1, <5>2 DEF AllAnswered
      <4> QED
        BY <4>1
    <3> QED
      BY <2>1, <2>3, <3>4, <3>5 DEF TurnInv, Emitting, Opening, Broken
  <2> QED
    BY <2>1, <2>2, <2>3 DEF Batch
<1>10. ASSUME InitialPoll PROVE TurnInv'
  BY <1>10 DEF InitialPoll, Emitting, Opening, Asking, Broken, TurnInv
<1>11. ASSUME PrepareNextTurn PROVE TurnInv'
  BY <1>11 DEF PrepareNextTurn, Emitting, Opening, Asking, Broken, TurnInv
<1>12. ASSUME NextTurn PROVE TurnInv'
  BY <1>12 DEF NextTurn, Emitting, Opening, Asking, Broken, TurnInv
<1>13. ASSUME PrepareRequest PROVE TurnInv'
  BY <1>13 DEF PrepareRequest, Emitting, Opening, Asking, Broken, TurnInv
<1>14. ASSUME FailTruncatedCall PROVE TurnInv'
  BY <1>14 DEF FailTruncatedCall, Settled, Emitting, Opening, Asking, Broken, TurnInv
<1>15. ASSUME StartCall PROVE TurnInv'
  BY <1>15 DEF StartCall, Settled, Cut, Emitting, Opening, Asking, Broken, TurnInv
<1>16. ASSUME NEW i \in DOMAIN calls, PrepareCall(i) PROVE TurnInv'
  BY <1>16 DEF PrepareCall, Emitting, Opening, Asking, Broken, TurnInv
<1>17. ASSUME LaunchCalls PROVE TurnInv'
  BY <1>17 DEF LaunchCalls, Settled, Cut, Emitting, Opening, Asking, Broken, TurnInv
<1>18. ASSUME CollectResults PROVE TurnInv'
  BY <1>18 DEF CollectResults, Emitting, Opening, Asking, Broken, TurnInv
<1>19. ASSUME EndBatch PROVE TurnInv'
  <2>1. UNCHANGED <<turn, aborted, completed>> /\ pc' = "finishTurn" /\ pc \in Batch
    BY <1>19 DEF EndBatch, Batch, Settled
  <2>2. ResultsOK(turn') /\ turn' \in Seq(Of({"assistant", "toolResult"}))
    BY <2>1 DEF TurnInv, Batch, Emitting, Opening, Asking, Broken
  <2>3. ASSUME ~aborted PROVE AllAnswered(turn)
    <3>1. Len(turn) = Len(calls) + 1
      BY <1>19, <2>3, BatchAnswered
    <3>2. turn \in Seq(Message) /\ Len(calls) \in Nat /\ Answers(turn, Len(calls))
      BY <2>1 DEF Typed, QueuesTyped, CallsTyped, BatchesInv, BatchInv
    <3>3. Len(turn) <= Len(calls) + 1
      BY <3>1, <3>2
    <3> QED
      BY <3>1, <3>2, <3>3, AnswersFacts
  <2> QED
    BY <2>1, <2>2, <2>3 DEF TurnInv, Opening, Broken
<1>20. ASSUME NEW d \in {"none", "end", "continue"}, FinishTurn(d) PROVE TurnInv'
  BY <1>20 DEF FinishTurn, Emitting, Opening, Asking, Broken, TurnInv
<1>21. ASSUME PollSteering PROVE TurnInv'
  BY <1>21 DEF PollSteering, Emitting, Opening, Asking, Broken, TurnInv
<1>22. ASSUME ContextStatus PROVE TurnInv'
  BY <1>22 DEF ContextStatus, Emitting, Opening, Asking, Broken, TurnInv
<1>23. ASSUME PollFollowUps PROVE TurnInv'
  BY <1>23 DEF PollFollowUps, Emitting, Opening, Asking, Broken, TurnInv
<1>24. ASSUME AgentEnd PROVE TurnInv'
  BY <1>24 DEF AgentEnd, Emitting, Opening, Asking, Broken, TurnInv
<1>25. ASSUME FailureEnd PROVE TurnInv'
  BY <1>25 DEF FailureEnd, Emitting, Opening, Asking, Broken, TurnInv
<1>26. ASSUME FinishRun PROVE TurnInv'
  BY <1>26 DEF FinishRun, Emitting, Opening, Asking, Broken, TurnInv
<1>27. ASSUME NEW stop \in {"stop", "length", "error", "aborted"}, NEW n \in 0..MaxCalls, Respond(stop, n)
      PROVE  TurnInv'
  <2>1. n \in Nat /\ Msg("assistant", n) \in Message
    BY MsgFacts DEF LoopAssumption, Roles
  <2>2. turn' = <<Msg("assistant", n)>>
    BY <1>27 DEF Respond
  <2>3. turn' \in Seq(Message) /\ Len(turn') = 1 /\ turn'[1] = Msg("assistant", n) /\ turn' # <<>>
    BY <2>1, <2>2
  <2>4. Answers(turn', n)
    BY <2>3 DEF Answers
  <2>5. ResultsOK(turn') /\ turn' \in Seq(Of({"assistant", "toolResult"})) /\ (n = 0 => AllAnswered(turn'))
    <3>1. Len(turn') <= n + 1 /\ (n = 0 => Len(turn') = n + 1)
      BY <2>1, <2>3
    <3> QED
      BY <2>1, <2>3, <2>4, <3>1, AnswersFacts
  <2>6. pc' \in {"finishFailed", "finishTurn", "tools"} /\ (pc' = "finishTurn" => n = 0)
    BY <1>27 DEF Respond
  <2> QED
    BY <2>5, <2>6 DEF TurnInv, Opening, Broken
<1>28. ASSUME NEW i \in DOMAIN calls, FinalizeCall(i) PROVE TurnInv'
  BY <1>28 DEF FinalizeCall, Emitting, Opening, Asking, Broken, TurnInv
<1>29. ASSUME Throw PROVE TurnInv'
  BY <1>29 DEF Throw, Emitting, Opening, Asking, Broken, TurnInv
<1>30. ASSUME UNCHANGED vars PROVE TurnInv'
  BY <1>30 DEF vars, Emitting, Opening, Asking, Broken, TurnInv
<1>31. ASSUME FailureMessage PROVE TurnInv'
  <2>1. Msg("assistant", 0) \in Message
    BY MsgFacts DEF Roles
  <2>2. turn' = <<Msg("assistant", 0)>>
    BY <1>31 DEF FailureMessage
  <2>3. turn' \in Seq(Message) /\ Len(turn') = 1 /\ turn'[1] = Msg("assistant", 0) /\ turn' # <<>>
    BY <2>1, <2>2
  <2>4. Answers(turn', 0)
    BY <2>3 DEF Answers
  <2>5. ResultsOK(turn') /\ turn' \in Seq(Of({"assistant", "toolResult"}))
    <3>1. Len(turn') <= 0 + 1
      BY <2>1, <2>3
    <3> QED
      BY <2>1, <2>3, <2>4, <3>1, AnswersFacts
  <2>6. pc' = "failed"
    BY <1>31 DEF FailureMessage
  <2> QED
    BY <2>5, <2>6 DEF TurnInv, Opening, Broken
<1>32. ASSUME FailReporting PROVE TurnInv'
  BY <1>32 DEF FailReporting, Emitting, Opening, Asking, Broken, TurnInv
<1> QED
  BY <1>1, <1>2, <1>3, <1>4, <1>5, <1>6, <1>7, <1>8, <1>9, <1>10, <1>11, <1>12,
       <1>13, <1>14, <1>15, <1>16, <1>17, <1>18, <1>19, <1>20, <1>21, <1>22,
       <1>23, <1>24, <1>25, <1>26, <1>27, <1>28, <1>29, <1>30, <1>31, <1>32
     DEF Next, UserStep, LoopStep, ExternalStep

-----------------------------------------------------------------------------
(* The messages of one role in a sequence.                                 *)
LEMMA RoleFacts ==
  ASSUME NEW s \in Seq(Message), NEW t \in Seq(Message), NEW r
  PROVE  /\ NoneOf(s \o t, r) <=> NoneOf(s, r) /\ NoneOf(t, r)
         /\ NoneOf(s, r) /\ OneOf(t, r) => OneOf(s \o t, r)
         /\ OneOf(s, r) /\ NoneOf(t, r) => OneOf(s \o t, r)
         /\ OneOf(s \o t, r) => OneOf(s, r) /\ OneOf(t, r) /\ (NoneOf(s, r) \/ NoneOf(t, r))
         /\ NoneOf(s, r) => OneOf(s, r)
         /\ Len(s) <= 1 => OneOf(s, r)
<1> DEFINE u == s \o t
<1>1. /\ Len(u) = Len(s) + Len(t) /\ Len(s) \in Nat /\ Len(t) \in Nat
      /\ DOMAIN u = 1..Len(u) /\ DOMAIN s = 1..Len(s) /\ DOMAIN t = 1..Len(t)
  OBVIOUS
<1>2. \A i \in DOMAIN s : i \in DOMAIN u /\ u[i] = s[i]
  BY <1>1
<1>3. \A i \in DOMAIN t : i + Len(s) \in DOMAIN u /\ u[i + Len(s)] = t[i] /\ i + Len(s) \notin DOMAIN s
  BY <1>1
<1>4. \A i \in DOMAIN u : i \in DOMAIN s \/ (i - Len(s) \in DOMAIN t /\ i = (i - Len(s)) + Len(s))
  BY <1>1
<1> HIDE DEF u
<1>5. \A i \in OfRole(s, r) : i \in OfRole(u, r)
  BY <1>2 DEF OfRole
<1>6. \A i \in OfRole(t, r) : i + Len(s) \in OfRole(u, r)
  BY <1>3 DEF OfRole
<1>7. \A i \in OfRole(u, r) : i \in OfRole(s, r) \/ (i - Len(s) \in OfRole(t, r) /\ i = (i - Len(s)) + Len(s))
  BY <1>2, <1>3, <1>4 DEF OfRole
<1>8. NoneOf(u, r) <=> NoneOf(s, r) /\ NoneOf(t, r)
  BY <1>5, <1>6, <1>7 DEF NoneOf
<1>9. NoneOf(s, r) /\ OneOf(t, r) => OneOf(u, r)
  <2>1. SUFFICES ASSUME NoneOf(s, r), OneOf(t, r), NEW i \in OfRole(u, r), NEW j \in OfRole(u, r) PROVE i = j
    BY DEF OneOf
  <2>2. /\ i - Len(s) \in OfRole(t, r) /\ i = (i - Len(s)) + Len(s)
        /\ j - Len(s) \in OfRole(t, r) /\ j = (j - Len(s)) + Len(s)
    BY <1>7, <2>1 DEF NoneOf
  <2>3. i - Len(s) = j - Len(s)
    BY <2>1, <2>2 DEF OneOf
  <2> QED
    BY <2>2, <2>3
<1>10. OneOf(s, r) /\ NoneOf(t, r) => OneOf(u, r)
  BY <1>7 DEF NoneOf, OneOf
<1>11. ASSUME OneOf(u, r) PROVE OneOf(s, r) /\ OneOf(t, r) /\ (NoneOf(s, r) \/ NoneOf(t, r))
  <2>1. OneOf(s, r)
    BY <1>5, <1>11 DEF OneOf
  <2>2. OneOf(t, r)
    <3>1. SUFFICES ASSUME NEW i \in OfRole(t, r), NEW j \in OfRole(t, r) PROVE i = j
      BY DEF OneOf
    <3>2. i + Len(s) = j + Len(s)
      BY <1>6, <1>11 DEF OneOf
    <3>3. i \in Nat /\ j \in Nat
      BY <1>1 DEF OfRole
    <3> QED
      BY <1>1, <3>2, <3>3
  <2>3. ASSUME NEW i \in OfRole(s, r), NEW j \in OfRole(t, r) PROVE FALSE
    <3>1. i = j + Len(s)
      BY <1>5, <1>6, <1>11 DEF OneOf
    <3>2. i \in DOMAIN s /\ j \in DOMAIN t
      BY DEF OfRole
    <3> QED
      BY <1>3, <3>1, <3>2
  <2> QED
    BY <2>1, <2>2, <2>3 DEF NoneOf
<1>12. NoneOf(s, r) => OneOf(s, r)
  BY DEF NoneOf, OneOf
<1>13. Len(s) <= 1 => OneOf(s, r)
  BY <1>1 DEF OneOf, OfRole
<1> QED
  BY <1>8, <1>9, <1>10, <1>11, <1>12, <1>13 DEF u

(* A sequence of one kind has no message of another role.                  *)
LEMMA NoneOfKind ==
  ASSUME NEW R, NEW s \in Seq(Of(R)), NEW r, r \notin R
  PROVE  NoneOf(s, r)
<1>1. \A i \in DOMAIN s : s[i] \in Of(R)
  OBVIOUS
<1>2. \A i \in DOMAIN s : s[i].role \in R
  BY <1>1 DEF Of
<1> QED
  BY <1>2 DEF NoneOf, OfRole

(* Where there are no messages of the queues.                              *)
LEMMA NoneOfRole ==
  /\ \A r : NoneOf(<<>>, r)
  /\ \A x \in Message, r \in Roles : (x.role # r => NoneOf(<<x>>, r)) /\ OneOf(<<x>>, r)
                                     /\ (NoneOf(<<x>>, r) => x.role # r)
  /\ \A s \in SystemUpdates : NoneOf(s, "steer") /\ NoneOf(s, "followUp")
  /\ \A s \in Seq(FollowUps) \cup Seq(Results) \cup Seq(Of({"status"})) \cup Seq(Of({"assistant", "toolResult"})) :
        NoneOf(s, "steer")
  /\ \A s \in Seq(Steers) \cup Seq(Results) \cup Seq(Of({"status"})) \cup Seq(Of({"assistant", "toolResult"})) :
        NoneOf(s, "followUp")
<1>1. \A r : NoneOf(<<>>, r)
  BY EmptyMsgs DEF NoneOf
<1>2. ASSUME NEW x \in Message, NEW r \in Roles
      PROVE  (x.role # r => NoneOf(<<x>>, r)) /\ OneOf(<<x>>, r) /\ (NoneOf(<<x>>, r) => x.role # r)
  <2>1. DOMAIN <<x>> = {1} /\ <<x>>[1] = x
    OBVIOUS
  <2> QED
    BY <2>1 DEF NoneOf, OneOf, OfRole
<1>3. \A s \in SystemUpdates : NoneOf(s, "steer") /\ NoneOf(s, "followUp")
  <2>1. Msg("system", 0) \in Message /\ Msg("system", 0).role = "system"
    BY MsgFacts DEF Roles
  <2>2. \A s \in SystemUpdates : s = <<>> \/ s = <<Msg("system", 0)>>
    BY DEF SystemUpdates
  <2>3. "steer" \in Roles /\ "followUp" \in Roles
    BY DEF Roles
  <2>4. NoneOf(<<Msg("system", 0)>>, "steer") /\ NoneOf(<<Msg("system", 0)>>, "followUp")
    BY <1>2, <2>1, <2>3
  <2> QED
    BY <1>1, <2>2, <2>4
<1>4. /\ \A s \in Seq(FollowUps) : NoneOf(s, "steer")
      /\ \A s \in Seq(Results) : NoneOf(s, "steer") /\ NoneOf(s, "followUp")
      /\ \A s \in Seq(Of({"status"})) : NoneOf(s, "steer") /\ NoneOf(s, "followUp")
      /\ \A s \in Seq(Of({"assistant", "toolResult"})) : NoneOf(s, "steer") /\ NoneOf(s, "followUp")
      /\ \A s \in Seq(Steers) : NoneOf(s, "followUp")
  BY NoneOfKind DEF FollowUps, Results, Steers
<1> QED
  BY <1>1, <1>2, <1>3, <1>4

(* The messages beyond a position.                                         *)
LEMMA AfterFacts ==
  /\ \A s, k, r : (NoneOf(s, r) => NoneAfter(s, k, r)) /\ (NoneAfter(s, k, r) => OneAfter(s, k, r))
  /\ \A s \in Seq(Message) : \A r : NoneAfter(s, Len(s), r)
  /\ \A s \in Seq(Message), x \in Message, k \in Nat : \A r :
        /\ NoneAfter(s, k, r) /\ NoneOf(<<x>>, r) => NoneAfter(s \o <<x>>, k, r)
        /\ OneAfter(s, k, r) /\ NoneOf(<<x>>, r) => OneAfter(s \o <<x>>, k, r)
        /\ NoneAfter(s, k, r) => OneAfter(s \o <<x>>, k, r)
<1>1. \A s, k, r : (NoneOf(s, r) => NoneAfter(s, k, r)) /\ (NoneAfter(s, k, r) => OneAfter(s, k, r))
  BY DEF NoneOf, NoneAfter, OneAfter
<1>2. \A s \in Seq(Message) : \A r : NoneAfter(s, Len(s), r)
  BY DEF NoneAfter, OfRole
<1>3. ASSUME NEW s \in Seq(Message), NEW x \in Message, NEW k \in Nat, NEW r
      PROVE  /\ NoneAfter(s, k, r) /\ NoneOf(<<x>>, r) => NoneAfter(s \o <<x>>, k, r)
             /\ OneAfter(s, k, r) /\ NoneOf(<<x>>, r) => OneAfter(s \o <<x>>, k, r)
             /\ NoneAfter(s, k, r) => OneAfter(s \o <<x>>, k, r)
  <2> DEFINE u == s \o <<x>>
  <2>1. /\ DOMAIN u = 1..(Len(s) + 1) /\ DOMAIN s = 1..Len(s) /\ Len(s) \in Nat
        /\ \A i \in DOMAIN s : u[i] = s[i]
        /\ u[Len(s) + 1] = x /\ DOMAIN <<x>> = {1} /\ <<x>>[1] = x
    OBVIOUS
  <2> HIDE DEF u
  <2>2. \A i \in OfRole(u, r) : i \in OfRole(s, r) \/ (i = Len(s) + 1 /\ x.role = r)
    BY <2>1 DEF OfRole
  <2>3. NoneOf(<<x>>, r) => x.role # r
    BY <2>1 DEF NoneOf, OfRole
  <2>4. NoneAfter(s, k, r) /\ NoneOf(<<x>>, r) => NoneAfter(u, k, r)
    BY <2>2, <2>3 DEF NoneAfter
  <2>5. OneAfter(s, k, r) /\ NoneOf(<<x>>, r) => OneAfter(u, k, r)
    BY <2>2, <2>3 DEF OneAfter
  <2>6. NoneAfter(s, k, r) => OneAfter(u, k, r)
    BY <2>2 DEF NoneAfter, OneAfter
  <2> QED
    BY <2>4, <2>5, <2>6 DEF u
<1> QED
  BY <1>1, <1>2, <1>3

(* Every step keeps at most one message of a one-at-a-time queue on its    *)
(* way to the next request.                                                *)
LEMMA SingleStep ==
  ASSUME LoopAssumption, Typed, HeldInv, HeldInv', TurnInv, SingleInv,
         [Next]_vars
  PROVE  SingleInv'
<1> USE DEF loop, user
<1>1. ASSUME Prompt PROVE SingleInv'
  <2>1. NoneAfter(turn, left, "steer") /\ NoneAfter(turn, left, "followUp")
    BY <1>1 DEF Prompt, Start, SingleInv
  <2>2. Msg("prompt", asked + 1) \in Message /\ Msg("prompt", asked + 1).role = "prompt"
    BY MsgFacts DEF Typed, QueuesTyped, Roles
  <2>3. NoneOf(<<Msg("prompt", asked + 1)>>, "steer") /\ NoneOf(<<Msg("prompt", asked + 1)>>, "followUp")
    BY <2>2, NoneOfRole DEF Roles
  <2>4. NoneOf(<<>>, "steer") /\ NoneOf(<<>>, "followUp")
    BY NoneOfRole
  <2>5. UNCHANGED <<turn, left>> /\ pc' = "started" /\ outbox' = <<Msg("prompt", asked + 1)>> /\ pending' = <<>>
    BY <1>1 DEF Prompt, Start
  <2> QED
    BY <2>1, <2>3, <2>4, <2>5 DEF SingleInv, Single, NoneOf, OneOf
<1>2. ASSUME Continue PROVE SingleInv'
  <2>1. NoneAfter(turn, left, "steer") /\ NoneAfter(turn, left, "followUp")
    BY <1>2 DEF Continue, Start, SingleInv
  <2>2. /\ NoneOf(<<>>, "steer") /\ NoneOf(<<>>, "followUp")
        /\ UNCHANGED <<turn, left>> /\ pc' = "started" /\ pending' = <<>>
    BY <1>2, NoneOfRole DEF Continue, Start
  <2>3. /\ Peek(steering, SteeringMode) \in Seq(Steers) /\ Peek(steering, SteeringMode) \in Seq(Message)
        /\ SteeringMode # "all" => Len(Peek(steering, SteeringMode)) <= 1
    BY PeekRest DEF HeldInv, KindsInv, Typed, QueuesTyped
  <2>4. /\ Peek(followUps, FollowUpMode) \in Seq(FollowUps) /\ Peek(followUps, FollowUpMode) \in Seq(Message)
        /\ FollowUpMode # "all" => Len(Peek(followUps, FollowUpMode)) <= 1
    BY PeekRest DEF HeldInv, KindsInv, Typed, QueuesTyped
  <2>5. /\ NoneOf(Peek(steering, SteeringMode), "followUp") /\ NoneOf(Peek(followUps, FollowUpMode), "steer")
        /\ SteeringMode # "all" => OneOf(Peek(steering, SteeringMode), "steer")
        /\ FollowUpMode # "all" => OneOf(Peek(followUps, FollowUpMode), "followUp")
    BY <2>3, <2>4, NoneOfRole, RoleFacts
  <2>6. \/ outbox' = Peek(steering, SteeringMode) /\ skipPoll' = TRUE
        \/ outbox' = Peek(followUps, FollowUpMode)
        \/ outbox' = <<>>
    BY <1>2 DEF Continue, Start
  <2>7. OneOf(<<>>, "steer") /\ OneOf(<<>>, "followUp")
    BY <2>2 DEF NoneOf, OneOf
  <2>8. SteeringMode = "one-at-a-time" => SteeringMode # "all"
    OBVIOUS
  <2>9. FollowUpMode = "one-at-a-time" => FollowUpMode # "all"
    OBVIOUS
  <2>10. OneOf(Peek(steering, SteeringMode), "followUp") /\ OneOf(Peek(followUps, FollowUpMode), "steer")
    BY <2>5 DEF NoneOf, OneOf
  <2> QED
    BY <2>1, <2>2, <2>5, <2>6, <2>7, <2>8, <2>9, <2>10 DEF SingleInv, Single
<1>3. ASSUME Steer PROVE SingleInv'
  BY <1>3 DEF Steer, Single, SingleInv, Opening
<1>4. ASSUME FollowUp PROVE SingleInv'
  BY <1>4 DEF FollowUp, Single, SingleInv, Opening
<1>5. ASSUME ClearAllQueues PROVE SingleInv'
  BY <1>5 DEF ClearAllQueues, Forget, Single, SingleInv, Opening
<1>6. ASSUME Abort PROVE SingleInv'
  BY <1>6 DEF Abort, Single, SingleInv, Opening
<1>7. ASSUME Reset PROVE SingleInv'
  <2>1. turn' = <<>> /\ left' = 0 /\ pc = "idle" /\ UNCHANGED <<pc, outbox, pending>>
    BY <1>7 DEF Reset
  <2>2. outbox = <<>>
    BY <2>1 DEF HeldInv, OutboxInv, Emitting, Opening, Batch
  <2>3. NoneOf(<<>>, "steer") /\ NoneOf(<<>>, "followUp")
        /\ NoneAfter(<<>>, 0, "steer") /\ NoneAfter(<<>>, 0, "followUp") /\ OneOf(<<>>, "steer") /\ OneOf(<<>>, "followUp")
    BY NoneOfRole DEF NoneOf, OneOf, NoneAfter
  <2> QED
    BY <2>1, <2>2, <2>3 DEF SingleInv, Single, Opening
<1>8. ASSUME TurnStart PROVE SingleInv'
  <2>1. PICK s \in SystemUpdates : outbox' = IF outbox = <<>> THEN <<>> ELSE s \o outbox
    BY <1>8 DEF TurnStart
  <2>2. /\ s \in Seq(Message) /\ outbox \in Seq(Message) /\ NoneOf(s, "steer") /\ NoneOf(s, "followUp")
        /\ UNCHANGED <<turn, left, pending, skipPoll>> /\ pc = "started" /\ pc' = "prompts"
    BY <1>8, NoneOfRole, SeqFacts DEF TurnStart, Typed, QueuesTyped
  <2>3. \A r \in {"steer", "followUp"} : /\ NoneOf(outbox, r) => NoneOf(outbox', r)
                                         /\ OneOf(outbox, r) => OneOf(outbox', r)
    BY <2>1, <2>2, RoleFacts
  <2> QED
    BY <2>2, <2>3 DEF SingleInv, Single, Opening
<1>9. ASSUME EmitMessage PROVE SingleInv'
  <2> DEFINE x == Head(outbox)
  <2>1. /\ outbox \in Seq(Message) /\ outbox # <<>> /\ turn \in Seq(Message)
        /\ turn' = Append(turn, Head(outbox)) /\ outbox' = Tail(outbox)
        /\ UNCHANGED <<pc, left, pending, skipPoll>> /\ pc # "idle" /\ left \in Nat
    BY <1>9 DEF EmitMessage, Typed, QueuesTyped
  <2>2. /\ x \in Message /\ <<x>> \in Seq(Message) /\ outbox' \in Seq(Message) /\ turn \in Seq(Message)
        /\ outbox = <<x>> \o outbox' /\ turn' = turn \o <<x>>
    BY <2>1
  <2> HIDE DEF x
  <2>3. ASSUME NEW r \in {"steer", "followUp"}
        PROVE  /\ NoneOf(outbox, r) => NoneOf(outbox', r) /\ (NoneAfter(turn, left, r) => NoneAfter(turn', left', r))
                                       /\ (OneAfter(turn, left, r) => OneAfter(turn', left', r))
               /\ OneOf(outbox, r) /\ NoneAfter(turn, left, r) =>
                     (NoneAfter(turn', left', r) /\ OneOf(outbox', r)) \/ (OneAfter(turn', left', r) /\ NoneOf(outbox', r))
    <3>1. OneOf(<<x>>, r)
      BY <2>2, NoneOfRole DEF Roles
    <3>2. NoneOf(outbox, r) <=> NoneOf(<<x>>, r) /\ NoneOf(outbox', r)
      BY <2>2, RoleFacts
    <3>3. OneOf(outbox, r) => OneOf(outbox', r) /\ (NoneOf(<<x>>, r) \/ NoneOf(outbox', r))
      BY <2>2, RoleFacts
    <3>4. /\ NoneAfter(turn, left, r) /\ NoneOf(<<x>>, r) => NoneAfter(turn', left', r)
          /\ OneAfter(turn, left, r) /\ NoneOf(<<x>>, r) => OneAfter(turn', left', r)
          /\ NoneAfter(turn, left, r) => OneAfter(turn', left', r)
      <4>1. turn' = turn \o <<x>> /\ left' = left /\ turn \in Seq(Message) /\ x \in Message /\ left \in Nat
        BY <2>1, <2>2
      <4> QED
        BY <4>1, AfterFacts
    <3> QED
      BY <3>2, <3>3, <3>4
  <2> QED
    BY <2>1, <2>3 DEF SingleInv, Single
<1>10. ASSUME InitialPoll PROVE SingleInv'
  <2> DEFINE p == IF skipPoll THEN <<>> ELSE Peek(steering, SteeringMode)
  <2>1. PICK s \in SystemUpdates : outbox' = s \o p
    BY <1>10 DEF InitialPoll
  <2>2. /\ p \in Seq(Steers) /\ p \in Seq(Message) /\ (SteeringMode # "all" => Len(p) <= 1)
        /\ skipPoll => p = <<>>
    <3>1. /\ Peek(steering, SteeringMode) \in Seq(Steers) /\ Peek(steering, SteeringMode) \in Seq(Message)
          /\ SteeringMode # "all" => Len(Peek(steering, SteeringMode)) <= 1
      BY PeekRest DEF HeldInv, KindsInv, Typed, QueuesTyped
    <3>2. <<>> \in Seq(Steers) /\ <<>> \in Seq(Message) /\ Len(<<>>) <= 1
      OBVIOUS
    <3> QED
      BY <3>1, <3>2
  <2> HIDE DEF p
  <2>3. s \in Seq(Message) /\ NoneOf(s, "steer") /\ NoneOf(s, "followUp")
    BY NoneOfRole, SeqFacts
  <2>4. /\ NoneOf(p, "followUp") /\ (SteeringMode # "all" => OneOf(p, "steer"))
        /\ skipPoll => NoneOf(p, "steer")
    BY <2>2, NoneOfRole, RoleFacts
  <2>5. /\ NoneOf(outbox', "followUp") /\ (SteeringMode # "all" => OneOf(outbox', "steer"))
        /\ skipPoll => NoneOf(outbox', "steer")
    BY <2>1, <2>2, <2>3, <2>4, RoleFacts
  <2>6. /\ UNCHANGED <<turn, left, pending>> /\ pc = "prompts" /\ pc' = "deliver" /\ outbox = <<>>
    BY <1>10 DEF InitialPoll
  <2>7. turn \in Seq(Message) /\ skipPoll \in BOOLEAN
    BY DEF Typed, QueuesTyped, FlagsTyped
  <2>8. NoneAfter(turn, left, "followUp") => OneAfter(turn, left, "followUp")
    BY AfterFacts
  <2>9. NoneAfter(turn, left, "steer") => OneAfter(turn, left, "steer")
    BY AfterFacts
  <2>10. FollowUpMode = "one-at-a-time" => Single("followUp")' /\ OneOf(pending', "followUp")
    BY <2>5, <2>6, <2>8 DEF SingleInv, Single
  <2>11. SteeringMode = "one-at-a-time" => Single("steer")' /\ OneOf(pending', "steer")
    <3>1. SUFFICES ASSUME SteeringMode = "one-at-a-time" PROVE Single("steer")' /\ OneOf(pending', "steer")
      OBVIOUS
    <3>2. SteeringMode # "all"
      BY <3>1
    <3>3. CASE skipPoll
      BY <2>5, <2>6, <2>9, <3>1, <3>3 DEF SingleInv, Single
    <3>4. CASE ~skipPoll
      BY <2>5, <2>6, <3>1, <3>2, <3>4 DEF SingleInv, Single, Opening
    <3> QED
      BY <3>3, <3>4
  <2> QED
    BY <2>6, <2>10, <2>11 DEF SingleInv, Opening
<1>11. ASSUME PrepareNextTurn PROVE SingleInv'
  BY <1>11 DEF PrepareNextTurn, Single, SingleInv, Opening
<1>12. ASSUME NextTurn PROVE SingleInv'
  <2>1. NoneAfter(turn, left, "steer") /\ NoneAfter(turn, left, "followUp")
    <3>1. turn \in Seq(Of({"assistant", "toolResult"}))
      BY <1>12 DEF NextTurn, TurnInv, Emitting, Opening, Asking, Broken
    <3> QED
      BY <3>1, NoneOfRole DEF NoneOf, NoneAfter
  <2> DEFINE p == IF pending = <<>> THEN Peek(steering, SteeringMode) ELSE pending
  <2>2. PICK s \in SystemUpdates : outbox' = s \o p \o status
    BY <1>12 DEF NextTurn
  <2>3. /\ p \in Seq(Message) /\ status \in Seq(Message) /\ s \in Seq(Message) /\ s \o p \in Seq(Message)
    <3>1. Peek(steering, SteeringMode) \in Seq(Message)
      BY PeekRest DEF Typed, QueuesTyped
    <3>2. p \in Seq(Message)
      BY <3>1 DEF Typed, QueuesTyped
    <3> QED
      BY <3>2, SeqFacts DEF Typed, QueuesTyped
  <2>4. /\ NoneOf(s, "steer") /\ NoneOf(s, "followUp")
        /\ NoneOf(status, "steer") /\ NoneOf(status, "followUp")
    BY NoneOfRole DEF HeldInv, KindsInv
  <2>5. SteeringMode = "one-at-a-time" => OneOf(p, "steer")
    <3>1. SteeringMode # "all" => OneOf(Peek(steering, SteeringMode), "steer")
      <4>1. Peek(steering, SteeringMode) \in Seq(Message) /\ (SteeringMode # "all" => Len(Peek(steering, SteeringMode)) <= 1)
        BY PeekRest DEF Typed, QueuesTyped
      <4> QED
        BY <4>1, RoleFacts
    <3>2. SteeringMode = "one-at-a-time" => SteeringMode # "all"
      OBVIOUS
    <3> QED
      BY <3>1, <3>2 DEF SingleInv
  <2>6. FollowUpMode = "one-at-a-time" => OneOf(p, "followUp")
    <3>1. NoneOf(Peek(steering, SteeringMode), "followUp")
      <4>1. Peek(steering, SteeringMode) \in Seq(Steers)
        BY PeekRest DEF HeldInv, KindsInv
      <4> QED
        BY <4>1, NoneOfRole
    <3>2. OneOf(Peek(steering, SteeringMode), "followUp")
      BY <3>1 DEF NoneOf, OneOf
    <3> QED
      BY <3>2 DEF SingleInv
  <2> HIDE DEF p
  <2>7. /\ OneOf(p, "steer") => OneOf(s \o p, "steer")
        /\ OneOf(p, "followUp") => OneOf(s \o p, "followUp")
    BY <2>3, <2>4, RoleFacts
  <2>8. /\ OneOf(p, "steer") => OneOf(outbox', "steer")
        /\ OneOf(p, "followUp") => OneOf(outbox', "followUp")
    BY <2>2, <2>3, <2>4, <2>7, RoleFacts
  <2>9. UNCHANGED <<turn, left>> /\ pending' = <<>> /\ pc' = "deliver"
    BY <1>12 DEF NextTurn
  <2>10. OneOf(<<>>, "steer") /\ OneOf(<<>>, "followUp")
    BY NoneOfRole DEF NoneOf, OneOf
  <2> QED
    BY <2>1, <2>5, <2>6, <2>8, <2>9, <2>10 DEF SingleInv, Single, Opening
<1>13. ASSUME PrepareRequest PROVE SingleInv'
  BY <1>13 DEF PrepareRequest, Single, SingleInv, Opening
<1>14. ASSUME FailTruncatedCall PROVE SingleInv'
  <2>2. NoneOf(outbox', "steer") /\ NoneOf(outbox', "followUp") /\ NoneOf(outbox, "steer") /\ NoneOf(outbox, "followUp")
    <3>1. pc \in Batch /\ pc' \in Batch
      BY <1>14 DEF FailTruncatedCall, Settled, Batch
    <3>2. outbox \in Seq(Results) /\ outbox' \in Seq(Results)
      BY <3>1, HeldInv' DEF HeldInv, OutboxInv
    <3> QED
      BY <3>2, NoneOfRole
  <2>3. UNCHANGED <<turn, left, pending>> /\ pc' \notin Opening \cup {"idle"}
    BY <1>14 DEF FailTruncatedCall, Settled, Opening
  <2>4. /\ NoneAfter(turn, left, "steer") => OneAfter(turn, left, "steer")
        /\ NoneAfter(turn, left, "followUp") => OneAfter(turn, left, "followUp")
    BY AfterFacts
  <2> QED
    BY <2>2, <2>3, <2>4 DEF SingleInv, Single
<1>15. ASSUME StartCall PROVE SingleInv'
  BY <1>15 DEF StartCall, Settled, Cut, Single, SingleInv, Opening
<1>16. ASSUME NEW i \in DOMAIN calls, PrepareCall(i) PROVE SingleInv'
  BY <1>16 DEF PrepareCall, Single, SingleInv, Opening
<1>17. ASSUME LaunchCalls PROVE SingleInv'
  BY <1>17 DEF LaunchCalls, Settled, Cut, Single, SingleInv, Opening
<1>18. ASSUME CollectResults PROVE SingleInv'
  <2>2. NoneOf(outbox', "steer") /\ NoneOf(outbox', "followUp") /\ NoneOf(outbox, "steer") /\ NoneOf(outbox, "followUp")
    <3>1. pc \in Batch /\ pc' \in Batch
      BY <1>18 DEF CollectResults, Settled, Batch
    <3>2. outbox \in Seq(Results) /\ outbox' \in Seq(Results)
      BY <3>1, HeldInv' DEF HeldInv, OutboxInv
    <3> QED
      BY <3>2, NoneOfRole
  <2>3. UNCHANGED <<turn, left, pending>> /\ pc' \notin Opening \cup {"idle"}
    BY <1>18 DEF CollectResults, Settled, Opening
  <2>4. /\ NoneAfter(turn, left, "steer") => OneAfter(turn, left, "steer")
        /\ NoneAfter(turn, left, "followUp") => OneAfter(turn, left, "followUp")
    BY AfterFacts
  <2> QED
    BY <2>2, <2>3, <2>4 DEF SingleInv, Single
<1>19. ASSUME EndBatch PROVE SingleInv'
  BY <1>19 DEF EndBatch, Settled, Cut, Single, SingleInv, Opening
<1>20. ASSUME NEW d \in {"none", "end", "continue"}, FinishTurn(d) PROVE SingleInv'
  BY <1>20 DEF FinishTurn, Single, SingleInv, Opening
<1>21. ASSUME PollSteering PROVE SingleInv'
  <2>1. /\ Peek(steering, SteeringMode) \in Seq(Steers) /\ Peek(steering, SteeringMode) \in Seq(Message)
        /\ SteeringMode # "all" => Len(Peek(steering, SteeringMode)) <= 1
    BY PeekRest DEF HeldInv, KindsInv, Typed, QueuesTyped
  <2>2. NoneOf(Peek(steering, SteeringMode), "followUp") /\ (SteeringMode # "all" => OneOf(Peek(steering, SteeringMode), "steer"))
    BY <2>1, NoneOfRole, RoleFacts
  <2>3. OneOf(Peek(steering, SteeringMode), "followUp") /\ (SteeringMode = "one-at-a-time" => SteeringMode # "all")
    BY <2>2 DEF NoneOf, OneOf
  <2>4. UNCHANGED <<turn, left, outbox>> /\ pending' = Peek(steering, SteeringMode) /\ pc' \notin Opening \cup {"idle"}
    BY <1>21 DEF PollSteering, Opening
  <2> QED
    BY <2>2, <2>3, <2>4 DEF SingleInv, Single
<1>22. ASSUME ContextStatus PROVE SingleInv'
  BY <1>22 DEF ContextStatus, Single, SingleInv, Opening
<1>23. ASSUME PollFollowUps PROVE SingleInv'
  <2>1. /\ Peek(followUps, FollowUpMode) \in Seq(FollowUps) /\ Peek(followUps, FollowUpMode) \in Seq(Message)
        /\ FollowUpMode # "all" => Len(Peek(followUps, FollowUpMode)) <= 1
    BY PeekRest DEF HeldInv, KindsInv, Typed, QueuesTyped
  <2>2. NoneOf(Peek(followUps, FollowUpMode), "steer") /\ (FollowUpMode # "all" => OneOf(Peek(followUps, FollowUpMode), "followUp"))
    BY <2>1, NoneOfRole, RoleFacts
  <2>3. OneOf(Peek(followUps, FollowUpMode), "steer") /\ (FollowUpMode = "one-at-a-time" => FollowUpMode # "all")
    BY <2>2 DEF NoneOf, OneOf
  <2>4. UNCHANGED <<turn, left, outbox>> /\ pending' = Peek(followUps, FollowUpMode) /\ pc' \notin Opening \cup {"idle"}
    BY <1>23 DEF PollFollowUps, Opening
  <2> QED
    BY <2>2, <2>3, <2>4 DEF SingleInv, Single
<1>24. ASSUME AgentEnd PROVE SingleInv'
  BY <1>24 DEF AgentEnd, Single, SingleInv, Opening
<1>25. ASSUME FailureEnd PROVE SingleInv'
  BY <1>25 DEF FailureEnd, Single, SingleInv, Opening
<1>26. ASSUME FinishRun PROVE SingleInv'
  <2>1. turn \in Seq(Of({"assistant", "toolResult"}))
    BY <1>26 DEF FinishRun, TurnInv, Emitting, Opening, Asking, Broken
  <2>2. NoneAfter(turn, left, "steer") /\ NoneAfter(turn, left, "followUp")
    BY <2>1, NoneOfRole DEF NoneOf, NoneAfter
  <2> QED
    BY <1>26, <2>2 DEF FinishRun, Single, SingleInv, Opening
<1>27. ASSUME NEW stop \in {"stop", "length", "error", "aborted"}, NEW n \in 0..MaxCalls, Respond(stop, n)
      PROVE  SingleInv'
  <2>1. Msg("assistant", n) \in Message /\ Msg("assistant", n).role = "assistant"
    BY MsgFacts DEF Roles, LoopAssumption
  <2>2. NoneAfter(turn', left', "steer") /\ NoneAfter(turn', left', "followUp")
    BY <1>27, <2>1, NoneOfRole DEF Respond, Roles, NoneOf, NoneAfter
  <2>3. UNCHANGED <<outbox, pending>> /\ pc' \notin Opening \cup {"idle"}
    BY <1>27 DEF Respond, Opening
  <2>4. outbox = <<>> /\ OneOf(<<>>, "steer") /\ OneOf(<<>>, "followUp")
    <3>1. outbox = <<>>
      BY <1>27 DEF Respond, HeldInv, OutboxInv, Emitting, Opening, Batch
    <3> QED
      BY <3>1, NoneOfRole DEF NoneOf, OneOf
  <2> QED
    BY <2>2, <2>3, <2>4 DEF SingleInv, Single
<1>28. ASSUME NEW i \in DOMAIN calls, FinalizeCall(i) PROVE SingleInv'
  <2>2. NoneOf(outbox', "steer") /\ NoneOf(outbox', "followUp") /\ NoneOf(outbox, "steer") /\ NoneOf(outbox, "followUp")
    <3>1. pc \in Batch /\ pc' \in Batch
      BY <1>28 DEF FinalizeCall, Settled, Batch
    <3>2. outbox \in Seq(Results) /\ outbox' \in Seq(Results)
      BY <3>1, HeldInv' DEF HeldInv, OutboxInv
    <3> QED
      BY <3>2, NoneOfRole
  <2>3. UNCHANGED <<turn, left, pending>> /\ pc' \notin Opening \cup {"idle"}
    BY <1>28 DEF FinalizeCall, Settled, Opening
  <2>4. /\ NoneAfter(turn, left, "steer") => OneAfter(turn, left, "steer")
        /\ NoneAfter(turn, left, "followUp") => OneAfter(turn, left, "followUp")
    BY AfterFacts
  <2> QED
    BY <2>2, <2>3, <2>4 DEF SingleInv, Single
<1>29. ASSUME Throw PROVE SingleInv'
  <2>1. UNCHANGED <<turn, left>> /\ outbox' = <<>> /\ pending' = <<>> /\ pc' = "failing"
    BY <1>29 DEF Throw
  <2>2. /\ NoneOf(<<>>, "steer") /\ NoneOf(<<>>, "followUp")
        /\ OneOf(<<>>, "steer") /\ OneOf(<<>>, "followUp")
    BY NoneOfRole DEF NoneOf, OneOf
  <2>3. \A r : NoneAfter(turn, left, r) => OneAfter(turn, left, r)
    BY AfterFacts
  <2> QED
    BY <2>1, <2>2, <2>3 DEF SingleInv, Single, Opening
<1>30. ASSUME UNCHANGED vars PROVE SingleInv'
  BY <1>30 DEF vars, Single, SingleInv, Opening
<1>31. ASSUME FailureMessage PROVE SingleInv'
  <2>1. Msg("assistant", 0) \in Message /\ Msg("assistant", 0).role = "assistant"
    BY MsgFacts DEF Roles, LoopAssumption
  <2>2. NoneAfter(turn', left', "steer") /\ NoneAfter(turn', left', "followUp")
    BY <1>31, <2>1, NoneOfRole DEF FailureMessage, Roles, NoneOf, NoneAfter
  <2>3. outbox' = <<>> /\ UNCHANGED pending /\ pc' = "failed"
    BY <1>31 DEF FailureMessage, HeldInv, OutboxInv, Emitting, Opening, Batch
  <2>4. OneOf(<<>>, "steer") /\ OneOf(<<>>, "followUp")
    BY NoneOfRole DEF NoneOf, OneOf
  <2> QED
    BY <2>2, <2>3, <2>4 DEF SingleInv, Single, Opening
<1>32. ASSUME FailReporting PROVE SingleInv'
  <2>1. UNCHANGED <<turn, outbox, pending>> /\ pc' = "idle" /\ turn \in Seq(Message)
    BY <1>32 DEF FailReporting, Typed, QueuesTyped
  <2>2. \A r \in {"steer", "followUp"} : NoneAfter(turn', left', r)
    <3>1. CASE pc = "failing"
      BY <1>32, <2>1, <3>1, AfterFacts DEF FailReporting
    <3>2. CASE pc = "failed"
      <4>1. turn \in Seq(Of({"assistant", "toolResult"}))
        BY <3>2 DEF TurnInv, Emitting, Opening, Asking, Broken
      <4>2. NoneOf(turn, "steer") /\ NoneOf(turn, "followUp")
        BY <4>1, NoneOfRole
      <4> QED
        BY <2>1, <4>2 DEF NoneOf, NoneAfter
    <3> QED
      BY <1>32, <3>1, <3>2 DEF FailReporting
  <2>3. outbox = <<>> /\ NoneOf(<<>>, "steer") /\ NoneOf(<<>>, "followUp")
        /\ OneOf(<<>>, "steer") /\ OneOf(<<>>, "followUp")
    BY <1>32, NoneOfRole DEF FailReporting, HeldInv, OutboxInv, Emitting, Opening, Batch, NoneOf, OneOf
  <2> QED
    BY <2>1, <2>2, <2>3 DEF SingleInv, Single, Opening
<1> QED
  BY <1>1, <1>2, <1>3, <1>4, <1>5, <1>6, <1>7, <1>8, <1>9, <1>10, <1>11, <1>12,
       <1>13, <1>14, <1>15, <1>16, <1>17, <1>18, <1>19, <1>20, <1>21, <1>22,
       <1>23, <1>24, <1>25, <1>26, <1>27, <1>28, <1>29, <1>30, <1>31, <1>32
     DEF Next, UserStep, LoopStep, ExternalStep

-----------------------------------------------------------------------------
(* Messages of the user in a sequence.                                     *)
LEMMA UserFacts ==
  /\ \A s \in Seq(Message), t \in Seq(Message) : HasUser(s \o t) <=> HasUser(s) \/ HasUser(t)
  /\ \A s \in Seq(Steers) \cup Seq(FollowUps) : s # <<>> => HasUser(s)
<1>1. \A s : HasUser(s) <=> ~NoneOf(s, "steer") \/ ~NoneOf(s, "followUp")
  BY DEF HasUser, NoneOf
<1>2. ASSUME NEW s \in Seq(Message), NEW t \in Seq(Message)
      PROVE  HasUser(s \o t) <=> HasUser(s) \/ HasUser(t)
  BY <1>1, RoleFacts
<1>3. ASSUME NEW s \in Seq(Steers), s # <<>> PROVE HasUser(s)
  <2>1. 1 \in DOMAIN s /\ s[1] \in Steers
    BY <1>3
  <2> QED
    BY <2>1 DEF HasUser, OfRole, Steers, Of
<1>4. ASSUME NEW s \in Seq(FollowUps), s # <<>> PROVE HasUser(s)
  <2>1. 1 \in DOMAIN s /\ s[1] \in FollowUps
    BY <1>4
  <2> QED
    BY <2>1 DEF HasUser, OfRole, FollowUps, Of
<1> QED
  BY <1>2, <1>3, <1>4

(* A step that leaves the calls alone leaves the work that goes on.        *)
LEMMA SameWork ==
  ASSUME UNCHANGED <<calls, terminate>>
  PROVE  WorkLeft' = WorkLeft
BY DEF WorkLeft, Decided, In

(* Every step keeps a reason for the next request.                        *)
LEMMA ReasonStep ==
  ASSUME LoopAssumption, Typed, HeldInv, TurnInv, ReasonInv, [Next]_vars
  PROVE  ReasonInv'
<1> USE DEF loop, user
<1>1. ASSUME Prompt PROVE ReasonInv'
  <2>1. UNCHANGED <<calls, terminate>>
    BY <1>1 DEF Prompt, Start
  <2>2. WorkLeft' = WorkLeft
    BY <2>1, SameWork
  <2> QED
    BY <1>1, <2>2 DEF Prompt, Start, Asking, ReasonInv
<1>2. ASSUME Continue PROVE ReasonInv'
  <2>1. UNCHANGED <<calls, terminate>>
    BY <1>2 DEF Continue, Start
  <2>2. WorkLeft' = WorkLeft
    BY <2>1, SameWork
  <2> QED
    BY <1>2, <2>2 DEF Continue, Start, Asking, ReasonInv
<1>3. ASSUME Steer PROVE ReasonInv'
  <2>1. UNCHANGED <<calls, terminate>>
    BY <1>3 DEF Steer
  <2>2. WorkLeft' = WorkLeft
    BY <2>1, SameWork
  <2> QED
    BY <1>3, <2>2 DEF Steer, Asking, ReasonInv
<1>4. ASSUME FollowUp PROVE ReasonInv'
  <2>1. UNCHANGED <<calls, terminate>>
    BY <1>4 DEF FollowUp
  <2>2. WorkLeft' = WorkLeft
    BY <2>1, SameWork
  <2> QED
    BY <1>4, <2>2 DEF FollowUp, Asking, ReasonInv
<1>5. ASSUME ClearAllQueues PROVE ReasonInv'
  <2>1. UNCHANGED <<calls, terminate>>
    BY <1>5 DEF ClearAllQueues, Forget
  <2>2. WorkLeft' = WorkLeft
    BY <2>1, SameWork
  <2> QED
    BY <1>5, <2>2 DEF ClearAllQueues, Forget, Asking, ReasonInv
<1>6. ASSUME Abort PROVE ReasonInv'
  <2>1. UNCHANGED <<calls, terminate>>
    BY <1>6 DEF Abort
  <2>2. WorkLeft' = WorkLeft
    BY <2>1, SameWork
  <2> QED
    BY <1>6, <2>2 DEF Abort, Asking, ReasonInv
<1>7. ASSUME Reset PROVE ReasonInv'
  <2>1. UNCHANGED <<calls, terminate>>
    BY <1>7 DEF Reset, Forget
  <2>2. WorkLeft' = WorkLeft
    BY <2>1, SameWork
  <2> QED
    BY <1>7, <2>2 DEF Reset, Forget, Asking, ReasonInv
<1>8. ASSUME TurnStart PROVE ReasonInv'
  <2>1. UNCHANGED <<calls, terminate>>
    BY <1>8 DEF TurnStart
  <2>2. WorkLeft' = WorkLeft
    BY <2>1, SameWork
  <2> QED
    BY <1>8, <2>2 DEF TurnStart, Asking, ReasonInv
<1>9. ASSUME EmitMessage PROVE ReasonInv'
  <2>1. UNCHANGED <<calls, terminate>>
    BY <1>9 DEF EmitMessage
  <2>2. WorkLeft' = WorkLeft
    BY <2>1, SameWork
  <2>3. /\ outbox \in Seq(Message) /\ outbox # <<>> /\ turn \in Seq(Message)
        /\ turn' = Append(turn, Head(outbox)) /\ outbox' = Tail(outbox)
        /\ UNCHANGED <<pc, pending, explicit, wanted, more, completed, aborted>>
        /\ pc \in {"prompts", "deliver", "tools", "results"}
    BY <1>9 DEF EmitMessage, Typed, QueuesTyped
  <2> DEFINE x == Head(outbox)
  <2>4. /\ <<x>> \in Seq(Message) /\ outbox' \in Seq(Message) /\ turn \in Seq(Message)
        /\ outbox = <<x>> \o outbox' /\ turn' = turn \o <<x>>
    BY <2>3
  <2> HIDE DEF x
  <2>5. /\ HasUser(outbox) <=> HasUser(<<x>>) \/ HasUser(outbox')
        /\ HasUser(turn') <=> HasUser(turn) \/ HasUser(<<x>>)
    BY <2>4, UserFacts
  <2> QED
    BY <2>2, <2>3, <2>5 DEF ReasonInv, Asking
<1>10. ASSUME InitialPoll PROVE ReasonInv'
  <2>1. ~completed /\ completed' = completed /\ pc' = "deliver" /\ UNCHANGED <<explicit, wanted>>
    BY <1>10 DEF InitialPoll, TurnInv, Opening
  <2> QED
    BY <2>1 DEF ReasonInv, Asking
<1>11. ASSUME PrepareNextTurn PROVE ReasonInv'
  <2>1. UNCHANGED <<calls, terminate>>
    BY <1>11 DEF PrepareNextTurn
  <2>2. WorkLeft' = WorkLeft
    BY <2>1, SameWork
  <2> QED
    BY <1>11, <2>2 DEF PrepareNextTurn, Asking, ReasonInv
<1>12. ASSUME NextTurn PROVE ReasonInv'
  <2>1. UNCHANGED <<calls, terminate>>
    BY <1>12 DEF NextTurn
  <2>2. WorkLeft' = WorkLeft
    BY <2>1, SameWork
  <2> DEFINE p == IF pending = <<>> THEN Peek(steering, SteeringMode) ELSE pending
  <2>3. PICK s \in SystemUpdates : outbox' = s \o p \o status
    BY <1>12 DEF NextTurn
  <2>4. s \in Seq(Message) /\ p \in Seq(Message) /\ s \o p \in Seq(Message) /\ status \in Seq(Message)
    <3>1. Peek(steering, SteeringMode) \in Seq(Message)
      BY PeekRest DEF Typed, QueuesTyped
    <3>2. p \in Seq(Message)
      BY <3>1 DEF Typed, QueuesTyped
    <3> QED
      BY <3>2, SeqFacts DEF Typed, QueuesTyped
  <2>5. pending # <<>> => HasUser(p)
    BY UserFacts DEF HeldInv, KindsInv
  <2> HIDE DEF p
  <2>6. HasUser(p) => HasUser(s \o p)
    BY <2>4, UserFacts
  <2>7. pending # <<>> => HasUser(outbox')
    BY <2>3, <2>4, <2>5, <2>6, UserFacts
  <2>8. /\ pc = "nextTurn" /\ pc' = "deliver" /\ UNCHANGED <<explicit, wanted, completed, turn>>
    BY <1>12 DEF NextTurn
  <2> QED
    BY <2>2, <2>7, <2>8 DEF ReasonInv, Asking
<1>13. ASSUME PrepareRequest PROVE ReasonInv'
  <2>1. UNCHANGED <<calls, terminate>>
    BY <1>13 DEF PrepareRequest
  <2>2. WorkLeft' = WorkLeft
    BY <2>1, SameWork
  <2>3. ~HasUser(outbox)
    BY <1>13, EmptyMsgs DEF PrepareRequest, HasUser
  <2> QED
    BY <1>13, <2>2, <2>3 DEF PrepareRequest, ReasonInv, Asking
<1>14. ASSUME FailTruncatedCall PROVE ReasonInv'
  BY <1>14 DEF FailTruncatedCall, Settled, Asking, ReasonInv
<1>15. ASSUME StartCall PROVE ReasonInv'
  BY <1>15 DEF StartCall, Settled, Cut, Asking, ReasonInv
<1>16. ASSUME NEW i \in DOMAIN calls, PrepareCall(i) PROVE ReasonInv'
  BY <1>16 DEF PrepareCall, Asking, ReasonInv
<1>17. ASSUME LaunchCalls PROVE ReasonInv'
  BY <1>17 DEF LaunchCalls, Settled, Cut, Asking, ReasonInv
<1>18. ASSUME CollectResults PROVE ReasonInv'
  <2>1. UNCHANGED <<calls, terminate>>
    BY <1>18 DEF CollectResults
  <2>2. WorkLeft' = WorkLeft
    BY <2>1, SameWork
  <2> QED
    BY <1>18, <2>2 DEF CollectResults, Asking, ReasonInv
<1>19. ASSUME EndBatch PROVE ReasonInv'
  <2>1. UNCHANGED <<calls, terminate>>
    BY <1>19 DEF EndBatch
  <2>2. WorkLeft' = WorkLeft
    BY <2>1, SameWork
  <2>3. more' = WorkLeft /\ pc' = "finishTurn" /\ UNCHANGED <<explicit, wanted>>
    BY <1>19 DEF EndBatch, WorkLeft
  <2> QED
    BY <2>2, <2>3 DEF ReasonInv, Asking
<1>20. ASSUME NEW d \in {"none", "end", "continue"}, FinishTurn(d) PROVE ReasonInv'
  <2>1. UNCHANGED <<calls, terminate>>
    BY <1>20 DEF FinishTurn
  <2>2. WorkLeft' = WorkLeft
    BY <2>1, SameWork
  <2> QED
    BY <1>20, <2>2 DEF FinishTurn, Asking, ReasonInv
<1>21. ASSUME PollSteering PROVE ReasonInv'
  <2>1. UNCHANGED <<calls, terminate>>
    BY <1>21 DEF PollSteering
  <2>2. WorkLeft' = WorkLeft
    BY <2>1, SameWork
  <2> QED
    BY <1>21, <2>2 DEF PollSteering, Asking, ReasonInv
<1>22. ASSUME ContextStatus PROVE ReasonInv'
  <2>1. UNCHANGED <<calls, terminate>>
    BY <1>22 DEF ContextStatus
  <2>2. WorkLeft' = WorkLeft
    BY <2>1, SameWork
  <2> QED
    BY <1>22, <2>2 DEF ContextStatus, Asking, ReasonInv
<1>23. ASSUME PollFollowUps PROVE ReasonInv'
  <2>1. UNCHANGED <<calls, terminate>>
    BY <1>23 DEF PollFollowUps
  <2>2. WorkLeft' = WorkLeft
    BY <2>1, SameWork
  <2>3. followUps # <<>> => Peek(followUps, FollowUpMode) # <<>>
    BY PeekRest DEF Typed, QueuesTyped
  <2> QED
    BY <1>23, <2>2, <2>3 DEF PollFollowUps, ReasonInv, Asking
<1>24. ASSUME AgentEnd PROVE ReasonInv'
  <2>1. UNCHANGED <<calls, terminate>>
    BY <1>24 DEF AgentEnd
  <2>2. WorkLeft' = WorkLeft
    BY <2>1, SameWork
  <2> QED
    BY <1>24, <2>2 DEF AgentEnd, Asking, ReasonInv
<1>25. ASSUME FailureEnd PROVE ReasonInv'
  <2>1. UNCHANGED <<calls, terminate>>
    BY <1>25 DEF FailureEnd
  <2>2. WorkLeft' = WorkLeft
    BY <2>1, SameWork
  <2> QED
    BY <1>25, <2>2 DEF FailureEnd, Asking, ReasonInv
<1>26. ASSUME FinishRun PROVE ReasonInv'
  <2>1. UNCHANGED <<calls, terminate>>
    BY <1>26 DEF FinishRun
  <2>2. WorkLeft' = WorkLeft
    BY <2>1, SameWork
  <2> QED
    BY <1>26, <2>2 DEF FinishRun, Asking, ReasonInv
<1>27. ASSUME NEW stop \in {"stop", "length", "error", "aborted"}, NEW n \in 0..MaxCalls, Respond(stop, n)
      PROVE  ReasonInv'
  BY <1>27 DEF Respond, Asking, ReasonInv
<1>28. ASSUME NEW i \in DOMAIN calls, FinalizeCall(i) PROVE ReasonInv'
  BY <1>28 DEF FinalizeCall, Asking, ReasonInv
<1>29. ASSUME Throw PROVE ReasonInv'
  BY <1>29 DEF Throw, Forget, Asking, ReasonInv
<1>30. ASSUME UNCHANGED vars PROVE ReasonInv'
  <2>1. UNCHANGED <<calls, terminate>>
    BY <1>30 DEF vars
  <2>2. WorkLeft' = WorkLeft
    BY <2>1, SameWork
  <2> QED
    BY <1>30, <2>2 DEF vars, Asking, ReasonInv
<1>31. ASSUME FailureMessage PROVE ReasonInv'
  <2>1. UNCHANGED <<calls, terminate>>
    BY <1>31 DEF FailureMessage
  <2>2. WorkLeft' = WorkLeft
    BY <2>1, SameWork
  <2> QED
    BY <1>31, <2>2 DEF FailureMessage, Asking, ReasonInv
<1>32. ASSUME FailReporting PROVE ReasonInv'
  <2>1. UNCHANGED <<calls, terminate>>
    BY <1>32 DEF FailReporting
  <2>2. WorkLeft' = WorkLeft
    BY <2>1, SameWork
  <2> QED
    BY <1>32, <2>2 DEF FailReporting, Asking, ReasonInv
<1> QED
  BY <1>1, <1>2, <1>3, <1>4, <1>5, <1>6, <1>7, <1>8, <1>9, <1>10, <1>11, <1>12,
       <1>13, <1>14, <1>15, <1>16, <1>17, <1>18, <1>19, <1>20, <1>21, <1>22,
       <1>23, <1>24, <1>25, <1>26, <1>27, <1>28, <1>29, <1>30, <1>31, <1>32
     DEF Next, UserStep, LoopStep, ExternalStep

-----------------------------------------------------------------------------
(* Messages of one role move along: from the queue to the loop, and from   *)
(* the loop to the transcript.                                             *)
LEMMA MsgsType ==
  ASSUME NEW s \in Seq(Message), NEW r
  PROVE  /\ Msgs(s, r) \subseteq Message /\ \A m \in Msgs(s, r) : m.role = r /\ m.n \in Nat
         /\ {m \in Range(s) : m.role = r} = Msgs(s, r)
         /\ NoneOf(s, r) => Msgs(s, r) = {} /\ Ascending(s, r)
<1>1. \A i \in DOMAIN s : s[i] \in Message
  OBVIOUS
<1>2. \A m \in Message : m.n \in Nat
  BY DEF Message
<1>3. Msgs(s, r) \subseteq Message /\ \A m \in Msgs(s, r) : m.role = r /\ m.n \in Nat
  BY <1>1, <1>2 DEF Msgs, OfRole
<1>4. {m \in Range(s) : m.role = r} = Msgs(s, r)
  BY DEF Range, Msgs, OfRole
<1>5. NoneOf(s, r) => Msgs(s, r) = {} /\ Ascending(s, r)
  BY DEF NoneOf, Msgs, Ascending
<1> QED
  BY <1>3, <1>4, <1>5

(* The parts of a row of messages: the head of one may join the part       *)
(* before it, new messages its end, and a part may be dropped.             *)
LEMMA RowMoves ==
  ASSUME NEW D, NEW O, NEW P, NEW Q, NEW S, Rows(D, O, P, Q, S)
  PROVE  /\ \A A, B : Q = A \cup B /\ Below(A, B) /\ P = {} =>
               Rows(D, O, A, B, S) /\ (O = {} => Rows(D, A, {}, B, S))
         /\ O = {} => Rows(D, P, {}, Q, S)
         /\ \A A, B : O = A \cup B /\ Below(A, B) => Rows(D \cup A, B, P, Q, S)
         /\ \A A : Below(S, A) => Rows(D, O, P, Q \cup A, S \cup A)
         /\ (\A m \in S : m.n \in Nat) => Rows(D, O, P, {}, S \ Q) /\ Rows(D, {}, {}, Q, S \ (O \cup P))
<1>1. ASSUME NEW A, NEW B, Q = A \cup B, Below(A, B), P = {}
      PROVE  Rows(D, O, A, B, S) /\ (O = {} => Rows(D, A, {}, B, S))
  BY <1>1 DEF Rows, Below
<1>2. O = {} => Rows(D, P, {}, Q, S)
  BY DEF Rows, Below
<1>3. ASSUME NEW A, NEW B, O = A \cup B, Below(A, B) PROVE Rows(D \cup A, B, P, Q, S)
  BY <1>3 DEF Rows, Below
<1>4. ASSUME NEW A, Below(S, A) PROVE Rows(D, O, P, Q \cup A, S \cup A)
  BY <1>4 DEF Rows, Below
<1>5. ASSUME \A m \in S : m.n \in Nat PROVE Rows(D, O, P, {}, S \ Q) /\ Rows(D, {}, {}, Q, S \ (O \cup P))
  <2>1. \A a \in S : ~(a.n < a.n)
    BY <1>5
  <2>2. /\ D \subseteq S /\ O \subseteq S /\ P \subseteq S /\ Q \subseteq S
        /\ \A a \in D, b \in O : a # b
        /\ \A a \in D, b \in P : a # b
        /\ \A a \in D, b \in Q : a # b
        /\ \A a \in O, b \in Q : a # b
        /\ \A a \in P, b \in Q : a # b
    BY <2>1 DEF Rows, Below
  <2>3. S \ Q = D \cup O \cup P /\ S \ (O \cup P) = D \cup Q
    BY <2>2 DEF Rows
  <2> QED
    BY <2>3 DEF Rows, Below
<1> QED
  BY <1>1, <1>2, <1>3, <1>4, <1>5

(* What the loop holds may change by messages of other roles.              *)
LEMMA LinedLike ==
  ASSUME NEW d, NEW o, NEW p, NEW q, NEW r, NEW A, Lined(d, o, p, q, r, A),
         NEW o2, NEW p2, Msgs(o2, r) = Msgs(o, r), Ascending(o2, r), Msgs(p2, r) = Msgs(p, r), Ascending(p2, r)
  PROVE  Lined(d, o2, p2, q, r, A)
BY DEF Lined

(* A poll moves the head of a queue to the loop, if it holds none.         *)
LEMMA LinedPoll ==
  ASSUME NEW d, NEW o, NEW p, NEW q \in Seq(Message), NEW r, NEW m, NEW A, Lined(d, o, p, q, r, A),
         Msgs(p, r) = {}, NEW s, Msgs(s, r) = Msgs(Peek(q, m), r), Ascending(s, r)
  PROVE  /\ Lined(d, o, s, Rest(q, m), r, A)
         /\ \A t : Msgs(o, r) = {} /\ Msgs(t, r) = {} /\ Ascending(t, r) => Lined(d, s, t, Rest(q, m), r, A)
<1> DEFINE a == Msgs(Peek(q, m), r)
           b == Msgs(Rest(q, m), r)
           w == {x \in A : x.role = r}
<1>1. Msgs(q, r) = a \cup b /\ Below(a, b) /\ Ascending(Rest(q, m), r)
  BY PeekRestMsgs DEF Lined
<1>2. Rows(Msgs(d, r), Msgs(o, r), Msgs(p, r), Msgs(q, r), w)
  BY DEF Lined
<1> HIDE DEF a, b, w
<1>3. Rows(Msgs(d, r), Msgs(o, r), a, b, w) /\ (Msgs(o, r) = {} => Rows(Msgs(d, r), a, {}, b, w))
  BY <1>1, <1>2, RowMoves
<1> QED
  BY <1>1, <1>3 DEF Lined, a, b, w

(* Pending messages are emitted next.                                      *)
LEMMA LinedMove ==
  ASSUME NEW d, NEW o, NEW p, NEW q, NEW r, NEW A, Lined(d, o, p, q, r, A), Msgs(o, r) = {},
         NEW s, Msgs(s, r) = Msgs(p, r), Ascending(s, r), NEW t, Msgs(t, r) = {}, Ascending(t, r)
  PROVE  Lined(d, s, t, q, r, A)
<1> DEFINE w == {x \in A : x.role = r}
<1>1. Rows(Msgs(d, r), Msgs(o, r), Msgs(p, r), Msgs(q, r), w)
  BY DEF Lined
<1> HIDE DEF w
<1>2. Rows(Msgs(d, r), Msgs(p, r), {}, Msgs(q, r), w)
  BY <1>1, RowMoves
<1> QED
  BY <1>2 DEF Lined, w

(* The first message to emit is delivered.                                 *)
LEMMA LinedEmit ==
  ASSUME NEW d \in Seq(Message), NEW x \in Message, NEW t \in Seq(Message), NEW p, NEW q, NEW r, NEW A,
         Lined(d, <<x>> \o t, p, q, r, A)
  PROVE  Lined(d \o <<x>>, t, p, q, r, A) /\ (x.role # r => Lined(d, t, p, q, r, A))
<1> DEFINE w == {y \in A : y.role = r}
           o == <<x>> \o t
<1>1. <<x>> \in Seq(Message) /\ Ascending(o, r) /\ Ascending(d, r)
  BY DEF Lined
<1>2. /\ Msgs(o, r) = Msgs(<<x>>, r) \cup Msgs(t, r) /\ Below(Msgs(<<x>>, r), Msgs(t, r))
      /\ Ascending(<<x>>, r) /\ Ascending(t, r)
  <2> DEFINE h == <<x>>
  <2>1. h \in Seq(Message) /\ Ascending(h \o t, r)
    BY <1>1
  <2> HIDE DEF h
  <2>2. /\ Msgs(h \o t, r) = Msgs(h, r) \cup Msgs(t, r) /\ Below(Msgs(h, r), Msgs(t, r))
        /\ Ascending(h, r) /\ Ascending(t, r)
    BY <2>1, ConcatMsgs
  <2> QED
    BY <2>2 DEF h
<1>3. Rows(Msgs(d, r), Msgs(o, r), Msgs(p, r), Msgs(q, r), w)
  BY DEF Lined
<1> HIDE DEF w, o
<1>4. Below(Msgs(d, r), Msgs(<<x>>, r))
  BY <1>2, <1>3 DEF Rows, Below
<1>5. Rows(Msgs(d, r) \cup Msgs(<<x>>, r), Msgs(t, r), Msgs(p, r), Msgs(q, r), w)
  BY <1>2, <1>3, RowMoves
<1>6. Msgs(d \o <<x>>, r) = Msgs(d, r) \cup Msgs(<<x>>, r) /\ Ascending(d \o <<x>>, r)
  BY <1>1, <1>2, <1>4, ConcatMsgs
<1>7. Ascending(p, r) /\ Ascending(q, r)
  BY DEF Lined
<1>8. x.role # r => Msgs(<<x>>, r) = {}
  BY EmptyMsgs
<1>9. Lined(d \o <<x>>, t, p, q, r, A)
  BY <1>2, <1>5, <1>6, <1>7 DEF Lined, w
<1>10. ASSUME x.role # r PROVE Lined(d, t, p, q, r, A)
  <2>1. Rows(Msgs(d, r), Msgs(t, r), Msgs(p, r), Msgs(q, r), w)
    <3>1. Msgs(d, r) \cup Msgs(<<x>>, r) = Msgs(d, r)
      BY <1>8, <1>10
    <3> QED
      BY <1>5, <3>1
  <2> QED
    BY <1>1, <1>2, <1>7, <2>1 DEF Lined, w
<1> QED
  BY <1>9, <1>10

(* A new message joins the end of its queue.                               *)
LEMMA LinedAdd ==
  ASSUME NEW d, NEW o, NEW p, NEW q \in Seq(Message), NEW r, NEW A, Lined(d, o, p, q, r, A),
         NEW x \in Message, \A m \in A : m.n < x.n
  PROVE  /\ x.role = r => Lined(d, o, p, Append(q, x), r, A \cup {x})
         /\ x.role # r => Lined(d, o, p, q, r, A \cup {x})
<1> DEFINE w == {y \in A : y.role = r}
<1>1. Rows(Msgs(d, r), Msgs(o, r), Msgs(p, r), Msgs(q, r), w) /\ Ascending(q, r)
  BY DEF Lined
<1>2. ASSUME x.role = r PROVE Lined(d, o, p, Append(q, x), r, A \cup {x})
  <2>1. <<x>> \in Seq(Message) /\ Append(q, x) = q \o <<x>>
    OBVIOUS
  <2>2. Msgs(<<x>>, r) = {x} /\ Ascending(<<x>>, r)
    BY <1>2, EmptyMsgs
  <2>3. Below(w, {x})
    BY DEF Below
  <2>4. {y \in A \cup {x} : y.role = r} = w \cup {x}
    BY <1>2
  <2> HIDE DEF w
  <2>5. Rows(Msgs(d, r), Msgs(o, r), Msgs(p, r), Msgs(q, r) \cup {x}, w \cup {x})
    BY <1>1, <2>3, RowMoves
  <2>6. Below(Msgs(q, r), {x})
    BY <1>1, <2>3 DEF Rows, Below
  <2>7. Msgs(Append(q, x), r) = Msgs(q, r) \cup {x} /\ Ascending(Append(q, x), r)
    <3> DEFINE h == <<x>>
    <3>1. h \in Seq(Message) /\ Msgs(h, r) = {x} /\ Ascending(h, r)
      BY <2>1, <2>2
    <3> HIDE DEF h
    <3>2. /\ Msgs(q \o h, r) = Msgs(q, r) \cup Msgs(h, r)
          /\ Ascending(q, r) /\ Ascending(h, r) /\ Below(Msgs(q, r), Msgs(h, r)) => Ascending(q \o h, r)
      BY <3>1, ConcatMsgs
    <3>3. Msgs(q \o h, r) = Msgs(q, r) \cup {x} /\ Ascending(q \o h, r)
      BY <1>1, <2>6, <3>1, <3>2
    <3> QED
      BY <2>1, <3>3 DEF h
  <2> QED
    BY <2>4, <2>5, <2>7 DEF Lined
<1>3. ASSUME x.role # r PROVE Lined(d, o, p, q, r, A \cup {x})
  <2>1. {y \in A \cup {x} : y.role = r} = w
    BY <1>3
  <2> QED
    BY <2>1 DEF Lined
<1> QED
  BY <1>2, <1>3

(* Cleared queues, or the messages a failing run holds, are forgotten.     *)
LEMMA LinedForget ==
  ASSUME NEW d, NEW o, NEW p, NEW q, NEW r, NEW A \in SUBSET Message, Lined(d, o, p, q, r, A),
         NEW s \in Seq(Message)
  PROVE  /\ Msgs(s, r) = Msgs(q, r) => Lined(d, o, p, <<>>, r, A \ Range(s))
         /\ Msgs(s, r) = Msgs(o, r) \cup Msgs(p, r) => Lined(d, <<>>, <<>>, q, r, A \ Range(s))
<1> DEFINE w == {y \in A : y.role = r}
<1>1. Rows(Msgs(d, r), Msgs(o, r), Msgs(p, r), Msgs(q, r), w)
  BY DEF Lined
<1>2. \A y \in w : y.n \in Nat
  BY DEF Message
<1>3. {y \in A \ Range(s) : y.role = r} = w \ {y \in Range(s) : y.role = r}
  OBVIOUS
<1>4. {y \in A \ Range(s) : y.role = r} = w \ Msgs(s, r)
  BY <1>3, MsgsType
<1> HIDE DEF w
<1>5. /\ Rows(Msgs(d, r), Msgs(o, r), Msgs(p, r), {}, w \ Msgs(q, r))
      /\ Rows(Msgs(d, r), {}, {}, Msgs(q, r), w \ (Msgs(o, r) \cup Msgs(p, r)))
  BY <1>1, <1>2, RowMoves
<1>6. Msgs(<<>>, r) = {} /\ Ascending(<<>>, r)
  BY EmptyMsgs
<1> QED
  BY <1>4, <1>5, <1>6 DEF Lined

(* The order in which the messages were sent.                              *)
LEMMA LinedInOrder ==
  ASSUME NEW q \in Seq(Message), NEW r, Typed, Lined(delivered, outbox, pending, q, r, accepted)
  PROVE  InOrder(delivered \o outbox \o pending \o q, r)
<1> DEFINE s == delivered \o outbox
           t == s \o pending
           u == t \o q
<1>1. delivered \in Seq(Message) /\ outbox \in Seq(Message) /\ pending \in Seq(Message)
  BY DEF Typed, QueuesTyped
<1>2. /\ s \in Seq(Message) /\ Msgs(s, r) = Msgs(delivered, r) \cup Msgs(outbox, r) /\ Ascending(s, r)
  BY <1>1, ConcatMsgs DEF Lined, Rows
<1> HIDE DEF s
<1>3. Below(Msgs(s, r), Msgs(pending, r)) /\ Below(Msgs(s, r), Msgs(q, r))
  BY <1>2 DEF Lined, Rows, Below
<1>4. /\ t \in Seq(Message) /\ Msgs(t, r) = Msgs(s, r) \cup Msgs(pending, r) /\ Ascending(t, r)
  <2>1. Ascending(pending, r)
    BY DEF Lined
  <2>0. s \in Seq(Message) /\ pending \in Seq(Message)
    BY <1>1, <1>2
  <2>2. /\ s \o pending \in Seq(Message) /\ Msgs(s \o pending, r) = Msgs(s, r) \cup Msgs(pending, r)
        /\ Ascending(s, r) /\ Ascending(pending, r) /\ Below(Msgs(s, r), Msgs(pending, r)) =>
              Ascending(s \o pending, r)
    BY <2>0, ConcatMsgs
  <2> QED
    BY <1>2, <1>3, <2>1, <2>2
<1> HIDE DEF t
<1>5. Below(Msgs(t, r), Msgs(q, r))
  BY <1>3, <1>4 DEF Lined, Rows, Below
<1>6. /\ Msgs(u, r) = Msgs(t, r) \cup Msgs(q, r) /\ Ascending(u, r)
  BY <1>4, <1>5, ConcatMsgs DEF Lined
<1>7. Msgs(u, r) = {m \in accepted : m.role = r}
  BY <1>2, <1>4, <1>6 DEF Lined, Rows
<1> HIDE DEF u
<1>8. InOrder(u, r)
  BY <1>6, <1>7 DEF InOrder, Msgs, Ascending
<1> QED
  BY <1>8 DEF u, t, s

(* A step that leaves the queues, and what the loop holds of them, alone.  *)
LEMMA NeutralOrder ==
  ASSUME OrderInv, UNCHANGED <<delivered, steering, followUps, accepted>>, asked \in Nat,
         asked' \in {asked, asked + 1},
         \A r \in {"steer", "followUp"} :
            /\ Msgs(outbox', r) = Msgs(outbox, r) /\ Ascending(outbox', r)
            /\ Msgs(pending', r) = Msgs(pending, r) /\ Ascending(pending', r)
  PROVE  OrderInv'
<1>1. Lined(delivered, outbox', pending', steering, "steer", accepted)
  BY LinedLike DEF OrderInv
<1>2. Lined(delivered, outbox', pending', followUps, "followUp", accepted)
  BY LinedLike DEF OrderInv
<1>3. Bounded'
  <2>1. \A m \in accepted : m.n \in Nat /\ m.n <= asked
    BY DEF OrderInv, Bounded, Users, Of
  <2>2. \A m \in accepted : m.n <= asked'
    BY <2>1
  <2> QED
    BY <2>2 DEF OrderInv, Bounded
<1> QED
  BY <1>1, <1>2, <1>3 DEF OrderInv

(* A step that touches no message of the queues.                           *)
LEMMA SameOrder ==
  ASSUME OrderInv, UNCHANGED <<delivered, steering, followUps, accepted, outbox, pending, asked>>
  PROVE  OrderInv'
BY DEF OrderInv, Bounded

(* System messages before and status notes after the messages of a queue   *)
(* do not change what there is of them.                                    *)
LEMMA Wrapped ==
  ASSUME NEW s \in SystemUpdates, NEW p \in Seq(Message), NEW t \in Seq(Of({"status"})),
         NEW r \in {"steer", "followUp"}, Ascending(p, r)
  PROVE  /\ Msgs(s \o p \o t, r) = Msgs(p, r) /\ Ascending(s \o p \o t, r)
         /\ Msgs(s \o p, r) = Msgs(p, r) /\ Ascending(s \o p, r)
<1>1. s \in Seq(Message) /\ t \in Seq(Message)
  <2>1. Of({"status"}) \subseteq Message
    BY DEF Of, Message, Roles
  <2> QED
    BY <2>1, SeqFacts
<1>2. NoneOf(s, r) /\ NoneOf(t, r)
  BY NoneOfRole
<1>3. Msgs(s, r) = {} /\ Ascending(s, r) /\ Msgs(t, r) = {} /\ Ascending(t, r)
  BY <1>1, <1>2, MsgsType
<1>4. \A S : Below({}, S) /\ Below(S, {})
  BY DEF Below
<1> DEFINE u == s \o p
<1>5. /\ u \in Seq(Message) /\ Msgs(u, r) = Msgs(s, r) \cup Msgs(p, r)
      /\ Ascending(s, r) /\ Ascending(p, r) /\ Below(Msgs(s, r), Msgs(p, r)) => Ascending(u, r)
  BY <1>1, ConcatMsgs
<1> HIDE DEF u
<1>6. u \in Seq(Message) /\ Msgs(u, r) = Msgs(p, r) /\ Ascending(u, r)
  BY <1>3, <1>4, <1>5
<1>7. /\ Msgs(u \o t, r) = Msgs(u, r) \cup Msgs(t, r)
      /\ Ascending(u, r) /\ Ascending(t, r) /\ Below(Msgs(u, r), Msgs(t, r)) => Ascending(u \o t, r)
  <2>1. u \in Seq(Message) /\ t \in Seq(Message)
    BY <1>1, <1>5
  <2> QED
    BY <2>1, ConcatMsgs
<1>8. Msgs(u \o t, r) = Msgs(p, r) /\ Ascending(u \o t, r)
  BY <1>3, <1>4, <1>6, <1>7
<1> QED
  BY <1>6, <1>8 DEF u

(* Every step keeps the queued messages in order, none lost or repeated.   *)
LEMMA OrderStep ==
  ASSUME LoopAssumption, Typed, Typed', HeldInv, HeldInv', OrderInv,
         [Next]_vars
  PROVE  OrderInv'
<1> USE DEF loop, user
<1>1. ASSUME Prompt PROVE OrderInv'
  <2>1. outbox = <<>> /\ pending = <<>>
    BY <1>1 DEF Prompt, Start, HeldInv, OutboxInv, PendingInv, Emitting, Opening, Batch
  <2>2. \A r \in {"steer", "followUp"} : Msgs(<<>>, r) = {} /\ Ascending(<<>>, r)
    BY EmptyMsgs
  <2>3. Msg("prompt", asked + 1) \in Message /\ Msg("prompt", asked + 1).role = "prompt"
    BY MsgFacts DEF Typed, QueuesTyped, Roles
  <2>4. \A r \in {"steer", "followUp"} :
           Msgs(<<Msg("prompt", asked + 1)>>, r) = {} /\ Ascending(<<Msg("prompt", asked + 1)>>, r)
    BY <2>3, EmptyMsgs
  <2>5. /\ UNCHANGED <<delivered, steering, followUps, accepted>> /\ asked' = asked + 1 /\ asked \in Nat
        /\ outbox' = <<Msg("prompt", asked + 1)>> /\ pending' = <<>>
    BY <1>1 DEF Prompt, Start, Typed, QueuesTyped
  <2> QED
    BY <2>1, <2>2, <2>4, <2>5, NeutralOrder
<1>2. ASSUME Continue PROVE OrderInv'
  <2>1. outbox = <<>> /\ pending = <<>>
    BY <1>2 DEF Continue, Start, HeldInv, OutboxInv, PendingInv, Emitting, Opening, Batch
  <2>2. \A r \in {"steer", "followUp"} : Msgs(<<>>, r) = {} /\ Ascending(<<>>, r)
    BY EmptyMsgs
  <2>3. /\ Peek(steering, SteeringMode) \in Seq(Steers) /\ Peek(steering, SteeringMode) \in Seq(Message)
        /\ steering \in Seq(Message) /\ NoneOf(Peek(steering, SteeringMode), "followUp")
    BY PeekRest, NoneOfRole DEF HeldInv, KindsInv, Typed, QueuesTyped
  <2>4. /\ Msgs(Peek(steering, SteeringMode), "followUp") = {} /\ Ascending(Peek(steering, SteeringMode), "followUp")
        /\ Ascending(Peek(steering, SteeringMode), "steer")
    BY <2>3, MsgsType, PeekRestMsgs DEF OrderInv, Lined
  <2>5. /\ Peek(followUps, FollowUpMode) \in Seq(FollowUps) /\ Peek(followUps, FollowUpMode) \in Seq(Message)
        /\ followUps \in Seq(Message) /\ NoneOf(Peek(followUps, FollowUpMode), "steer")
    BY PeekRest, NoneOfRole DEF HeldInv, KindsInv, Typed, QueuesTyped
  <2>6. /\ Msgs(Peek(followUps, FollowUpMode), "steer") = {} /\ Ascending(Peek(followUps, FollowUpMode), "steer")
        /\ Ascending(Peek(followUps, FollowUpMode), "followUp")
    BY <2>5, MsgsType, PeekRestMsgs DEF OrderInv, Lined
  <2>7. UNCHANGED <<delivered, accepted, asked>> /\ pending' = <<>>
    BY <1>2 DEF Continue, Start
  <2>8. Bounded'
    BY <2>7 DEF OrderInv, Bounded
  <2>9. CASE /\ outbox' = Peek(steering, SteeringMode) /\ steering' = Rest(steering, SteeringMode)
             /\ followUps' = followUps
    <3>1. Lined(delivered, outbox', <<>>, steering', "steer", accepted)
      BY <2>1, <2>2, <2>3, <2>4, <2>9, LinedPoll DEF OrderInv
    <3>2. Lined(delivered, outbox', <<>>, followUps, "followUp", accepted)
      BY <2>1, <2>2, <2>4, <2>9, LinedLike DEF OrderInv
    <3> QED
      BY <2>7, <2>8, <2>9, <3>1, <3>2 DEF OrderInv
  <2>10. CASE /\ outbox' = Peek(followUps, FollowUpMode) /\ followUps' = Rest(followUps, FollowUpMode)
              /\ steering' = steering
    <3>1. Lined(delivered, outbox', <<>>, followUps', "followUp", accepted)
      BY <2>1, <2>2, <2>5, <2>6, <2>10, LinedPoll DEF OrderInv
    <3>2. Lined(delivered, outbox', <<>>, steering, "steer", accepted)
      BY <2>1, <2>2, <2>6, <2>10, LinedLike DEF OrderInv
    <3> QED
      BY <2>7, <2>8, <2>10, <3>1, <3>2 DEF OrderInv
  <2>11. CASE outbox' = <<>> /\ UNCHANGED <<steering, followUps>>
    <3>1. UNCHANGED <<delivered, steering, followUps, accepted, outbox, pending, asked>>
      BY <2>1, <2>7, <2>11
    <3> QED
      BY <3>1, SameOrder
  <2>12. \/ outbox' = Peek(steering, SteeringMode) /\ steering' = Rest(steering, SteeringMode) /\ followUps' = followUps
         \/ outbox' = Peek(followUps, FollowUpMode) /\ followUps' = Rest(followUps, FollowUpMode) /\ steering' = steering
         \/ outbox' = <<>> /\ UNCHANGED <<steering, followUps>>
    BY <1>2 DEF Continue, Start
  <2> QED
    BY <2>9, <2>10, <2>11, <2>12
<1>3. ASSUME Steer PROVE OrderInv'
  <2> DEFINE x == Msg("steer", asked + 1)
  <2>1. asked \in Nat /\ asked + 1 \in Nat /\ steering \in Seq(Message) /\ followUps \in Seq(Message)
    BY DEF Typed, QueuesTyped
  <2>2. x \in Message /\ x.role = "steer" /\ x.n = asked + 1
    BY <2>1, MsgFacts DEF Roles
  <2>3. x \in Users
    BY <2>1 DEF Users, Of, Msg
  <2>4. /\ steering' = Append(steering, x) /\ accepted' = accepted \cup {x} /\ asked' = asked + 1
        /\ UNCHANGED <<followUps, delivered, outbox, pending>>
    BY <1>3 DEF Steer
  <2> HIDE DEF x
  <2>5. \A m \in accepted : m.n \in Nat /\ m.n <= asked
    BY DEF OrderInv, Bounded, Users, Of
  <2>6. \A m \in accepted : m.n < x.n
    BY <2>1, <2>2, <2>5
  <2>7. Bounded'
    BY <2>1, <2>2, <2>3, <2>4, <2>5 DEF OrderInv, Bounded
  <2>8. Lined(delivered, outbox, pending, Append(steering, x), "steer", accepted \cup {x})
    BY <2>1, <2>2, <2>6, LinedAdd DEF OrderInv
  <2>9. Lined(delivered, outbox, pending, followUps, "followUp", accepted \cup {x})
    BY <2>1, <2>2, <2>6, LinedAdd DEF OrderInv
  <2> QED
    BY <2>4, <2>7, <2>8, <2>9 DEF OrderInv
<1>4. ASSUME FollowUp PROVE OrderInv'
  <2> DEFINE x == Msg("followUp", asked + 1)
  <2>1. asked \in Nat /\ asked + 1 \in Nat /\ followUps \in Seq(Message) /\ steering \in Seq(Message)
    BY DEF Typed, QueuesTyped
  <2>2. x \in Message /\ x.role = "followUp" /\ x.n = asked + 1
    BY <2>1, MsgFacts DEF Roles
  <2>3. x \in Users
    BY <2>1 DEF Users, Of, Msg
  <2>4. /\ followUps' = Append(followUps, x) /\ accepted' = accepted \cup {x} /\ asked' = asked + 1
        /\ UNCHANGED <<steering, delivered, outbox, pending>>
    BY <1>4 DEF FollowUp
  <2> HIDE DEF x
  <2>5. \A m \in accepted : m.n \in Nat /\ m.n <= asked
    BY DEF OrderInv, Bounded, Users, Of
  <2>6. \A m \in accepted : m.n < x.n
    BY <2>1, <2>2, <2>5
  <2>7. Bounded'
    BY <2>1, <2>2, <2>3, <2>4, <2>5 DEF OrderInv, Bounded
  <2>8. Lined(delivered, outbox, pending, Append(followUps, x), "followUp", accepted \cup {x})
    BY <2>1, <2>2, <2>6, LinedAdd DEF OrderInv
  <2>9. Lined(delivered, outbox, pending, steering, "steer", accepted \cup {x})
    BY <2>1, <2>2, <2>6, LinedAdd DEF OrderInv
  <2> QED
    BY <2>4, <2>7, <2>8, <2>9 DEF OrderInv
<1>5. ASSUME ClearAllQueues PROVE OrderInv'
  <2> DEFINE s == steering \o followUps
  <2>1. /\ steering \in Seq(Message) /\ followUps \in Seq(Message) /\ accepted \in SUBSET Message
        /\ s \in Seq(Message)
    BY SeqFacts DEF Typed, QueuesTyped
  <2>2. /\ Msgs(s, "steer") = Msgs(steering, "steer") \cup Msgs(followUps, "steer")
        /\ Msgs(s, "followUp") = Msgs(steering, "followUp") \cup Msgs(followUps, "followUp")
    BY <2>1, ConcatMsgs
  <2>3. NoneOf(followUps, "steer") /\ NoneOf(steering, "followUp")
    BY NoneOfRole DEF HeldInv, KindsInv
  <2>4. Msgs(followUps, "steer") = {} /\ Msgs(steering, "followUp") = {}
    BY <2>1, <2>3, MsgsType
  <2>5. Msgs(s, "steer") = Msgs(steering, "steer") /\ Msgs(s, "followUp") = Msgs(followUps, "followUp")
    BY <2>2, <2>4
  <2>6. /\ steering' = <<>> /\ followUps' = <<>> /\ accepted' = accepted \ Range(s)
        /\ UNCHANGED <<delivered, outbox, pending, asked>>
    BY <1>5 DEF ClearAllQueues, loop, Forget
  <2> HIDE DEF s
  <2>7. Lined(delivered, outbox, pending, <<>>, "steer", accepted \ Range(s))
    BY <2>1, <2>5, LinedForget DEF OrderInv
  <2>8. Lined(delivered, outbox, pending, <<>>, "followUp", accepted \ Range(s))
    BY <2>1, <2>5, LinedForget DEF OrderInv
  <2>9. Bounded'
    BY <2>6 DEF OrderInv, Bounded
  <2> QED
    BY <2>6, <2>7, <2>8, <2>9 DEF OrderInv
<1>6. ASSUME Abort PROVE OrderInv'
  <2>1. UNCHANGED <<delivered, steering, followUps, accepted, outbox, pending, asked>>
    BY <1>6 DEF Abort
  <2> QED
    BY <2>1, SameOrder
<1>7. ASSUME Reset PROVE OrderInv'
  <2> DEFINE s == steering \o followUps
  <2>1. /\ steering \in Seq(Message) /\ followUps \in Seq(Message) /\ accepted \in SUBSET Message
        /\ s \in Seq(Message)
    BY SeqFacts DEF Typed, QueuesTyped
  <2>2. /\ Msgs(s, "steer") = Msgs(steering, "steer") \cup Msgs(followUps, "steer")
        /\ Msgs(s, "followUp") = Msgs(steering, "followUp") \cup Msgs(followUps, "followUp")
    BY <2>1, ConcatMsgs
  <2>3. NoneOf(followUps, "steer") /\ NoneOf(steering, "followUp")
    BY NoneOfRole DEF HeldInv, KindsInv
  <2>4. Msgs(followUps, "steer") = {} /\ Msgs(steering, "followUp") = {}
    BY <2>1, <2>3, MsgsType
  <2>5. Msgs(s, "steer") = Msgs(steering, "steer") /\ Msgs(s, "followUp") = Msgs(followUps, "followUp")
    BY <2>2, <2>4
  <2>6. /\ steering' = <<>> /\ followUps' = <<>> /\ accepted' = accepted \ Range(s)
        /\ UNCHANGED <<delivered, outbox, pending, asked>>
    BY <1>7 DEF Reset, loop, Forget
  <2> HIDE DEF s
  <2>7. Lined(delivered, outbox, pending, <<>>, "steer", accepted \ Range(s))
    BY <2>1, <2>5, LinedForget DEF OrderInv
  <2>8. Lined(delivered, outbox, pending, <<>>, "followUp", accepted \ Range(s))
    BY <2>1, <2>5, LinedForget DEF OrderInv
  <2>9. Bounded'
    BY <2>6 DEF OrderInv, Bounded
  <2> QED
    BY <2>6, <2>7, <2>8, <2>9 DEF OrderInv
<1>8. ASSUME TurnStart PROVE OrderInv'
  <2>1. PICK s \in SystemUpdates : outbox' = IF outbox = <<>> THEN <<>> ELSE s \o outbox
    BY <1>8 DEF TurnStart
  <2>2. s \in Seq(Message) /\ outbox \in Seq(Message) /\ NoneOf(s, "steer") /\ NoneOf(s, "followUp")
    BY NoneOfRole, SeqFacts DEF Typed, QueuesTyped
  <2>3. ASSUME NEW r \in {"steer", "followUp"}
        PROVE  /\ Msgs(outbox', r) = Msgs(outbox, r) /\ Ascending(outbox', r) /\ Ascending(pending, r)
    <3>1. Msgs(s, r) = {} /\ Ascending(s, r)
      BY <2>2, MsgsType
    <3>2. Ascending(outbox, r) /\ Ascending(pending, r)
      BY DEF OrderInv, Lined
    <3>3. Below(Msgs(s, r), Msgs(outbox, r))
      BY <3>1 DEF Below
    <3>4. /\ Msgs(s \o outbox, r) = Msgs(s, r) \cup Msgs(outbox, r)
          /\ Ascending(s, r) /\ Ascending(outbox, r) /\ Below(Msgs(s, r), Msgs(outbox, r)) => Ascending(s \o outbox, r)
      BY <2>2, ConcatMsgs
    <3>5. Msgs(s \o outbox, r) = Msgs(outbox, r) /\ Ascending(s \o outbox, r)
      BY <3>1, <3>2, <3>3, <3>4
    <3> QED
      BY <2>1, <3>2, <3>5
  <2>4. UNCHANGED <<delivered, steering, followUps, accepted, asked, pending>> /\ asked \in Nat
    BY <1>8 DEF TurnStart, Typed, QueuesTyped
  <2> QED
    BY <2>3, <2>4, NeutralOrder
<1>9. ASSUME EmitMessage PROVE OrderInv'
  <2> DEFINE x == Head(outbox)
  <2>1. /\ outbox \in Seq(Message) /\ outbox # <<>> /\ delivered \in Seq(Message)
        /\ outbox' = Tail(outbox) /\ UNCHANGED <<steering, followUps, pending, accepted, asked>>
        /\ delivered' = IF x.role \in {"steer", "followUp"} THEN Append(delivered, x) ELSE delivered
    BY <1>9 DEF EmitMessage, Typed, QueuesTyped
  <2>2. /\ x \in Message /\ outbox' \in Seq(Message) /\ outbox = <<x>> \o outbox'
        /\ Append(delivered, x) = delivered \o <<x>>
    BY <2>1
  <2> HIDE DEF x
  <2>3. ASSUME NEW q, NEW r \in {"steer", "followUp"}, Lined(delivered, outbox, pending, q, r, accepted)
        PROVE  Lined(delivered', outbox', pending, q, r, accepted)
    <3>1. Lined(delivered, <<x>> \o outbox', pending, q, r, accepted)
      BY <2>2, <2>3
    <3>2. /\ Lined(delivered \o <<x>>, outbox', pending, q, r, accepted)
          /\ x.role # r => Lined(delivered, outbox', pending, q, r, accepted)
      BY <2>1, <2>2, <3>1, LinedEmit
    <3>3. CASE x.role \in {"steer", "followUp"}
      <4>1. delivered' = delivered \o <<x>>
        BY <2>1, <2>2, <3>3
      <4> QED
        BY <3>2, <4>1
    <3>4. CASE x.role \notin {"steer", "followUp"}
      <4>1. delivered' = delivered /\ x.role # r
        BY <2>1, <3>4
      <4> QED
        BY <3>2, <4>1
    <3> QED
      BY <3>3, <3>4
  <2>4. Bounded'
    BY <2>1 DEF OrderInv, Bounded
  <2> QED
    BY <2>1, <2>3, <2>4 DEF OrderInv
<1>10. ASSUME InitialPoll PROVE OrderInv'
  <2>1. outbox = <<>> /\ pending = <<>>
    BY <1>10 DEF InitialPoll, HeldInv, OutboxInv, PendingInv, Emitting, Opening, Batch
  <2>2. \A r \in {"steer", "followUp"} : Msgs(<<>>, r) = {} /\ Ascending(<<>>, r)
    BY EmptyMsgs
  <2>3. /\ Peek(steering, SteeringMode) \in Seq(Steers) /\ Peek(steering, SteeringMode) \in Seq(Message)
        /\ steering \in Seq(Message) /\ NoneOf(Peek(steering, SteeringMode), "followUp")
    BY PeekRest, NoneOfRole DEF HeldInv, KindsInv, Typed, QueuesTyped
  <2>4. /\ Msgs(Peek(steering, SteeringMode), "followUp") = {} /\ Ascending(Peek(steering, SteeringMode), "followUp")
        /\ Ascending(Peek(steering, SteeringMode), "steer")
    BY <2>3, MsgsType, PeekRestMsgs DEF OrderInv, Lined
  <2>5. /\ UNCHANGED <<delivered, accepted, asked, followUps, pending>>
        /\ steering' = IF skipPoll THEN steering ELSE Rest(steering, SteeringMode)
    BY <1>10 DEF InitialPoll
  <2>6. Bounded'
    BY <2>5 DEF OrderInv, Bounded
  <2> DEFINE p == IF skipPoll THEN <<>> ELSE Peek(steering, SteeringMode)
  <2>7. PICK s \in SystemUpdates : outbox' = s \o p
    BY <1>10 DEF InitialPoll
  <2>8. /\ p \in Seq(Message) /\ <<>> \in Seq(Of({"status"}))
        /\ \A r \in {"steer", "followUp"} : Ascending(p, r)
        /\ Msgs(p, "followUp") = {} /\ (skipPoll => Msgs(p, "steer") = {})
        /\ ~skipPoll => Msgs(p, "steer") = Msgs(Peek(steering, SteeringMode), "steer")
    <3>1. CASE skipPoll
      <4>1. p = <<>> /\ <<>> \in Seq(Message) /\ <<>> \in Seq(Of({"status"}))
        BY <3>1, SeqOf
      <4> QED
        BY <2>2, <3>1, <4>1
    <3>2. CASE ~skipPoll
      <4>1. p = Peek(steering, SteeringMode) /\ <<>> \in Seq(Of({"status"}))
        BY <3>2, SeqOf
      <4> QED
        BY <2>3, <2>4, <3>2, <4>1
    <3> QED
      BY <3>1, <3>2
  <2> HIDE DEF p
  <2>9. \A r \in {"steer", "followUp"} : Msgs(outbox', r) = Msgs(p, r) /\ Ascending(outbox', r)
    BY <2>7, <2>8, Wrapped
  <2>10. Lined(delivered, outbox', <<>>, followUps, "followUp", accepted)
    BY <2>1, <2>2, <2>8, <2>9, LinedLike DEF OrderInv
  <2>11. Lined(delivered, outbox', <<>>, steering', "steer", accepted)
    <3>1. CASE skipPoll
      <4>1. Lined(delivered, outbox', <<>>, steering, "steer", accepted)
        BY <2>1, <2>2, <2>8, <2>9, <3>1, LinedLike DEF OrderInv
      <4> QED
        BY <2>5, <3>1, <4>1
    <3>2. CASE ~skipPoll
      <4>1. Msgs(outbox', "steer") = Msgs(Peek(steering, SteeringMode), "steer") /\ Ascending(outbox', "steer")
        BY <2>8, <2>9, <3>2
      <4>2. Lined(delivered, outbox', <<>>, Rest(steering, SteeringMode), "steer", accepted)
        BY <2>1, <2>2, <2>3, <4>1, LinedPoll DEF OrderInv
      <4> QED
        BY <2>5, <3>2, <4>2
    <3> QED
      BY <3>1, <3>2
  <2> QED
    BY <2>1, <2>5, <2>6, <2>10, <2>11 DEF OrderInv
<1>11. ASSUME PrepareNextTurn PROVE OrderInv'
  <2>1. UNCHANGED <<delivered, steering, followUps, accepted, outbox, pending, asked>>
    BY <1>11 DEF PrepareNextTurn
  <2> QED
    BY <2>1, SameOrder
<1>12. ASSUME NextTurn PROVE OrderInv'
  <2>1. outbox = <<>>
    BY <1>12 DEF NextTurn, HeldInv, OutboxInv, Emitting, Opening, Batch
  <2>2. \A r \in {"steer", "followUp"} : Msgs(<<>>, r) = {} /\ Ascending(<<>>, r)
    BY EmptyMsgs
  <2>3. /\ Peek(steering, SteeringMode) \in Seq(Steers) /\ Peek(steering, SteeringMode) \in Seq(Message)
        /\ steering \in Seq(Message) /\ NoneOf(Peek(steering, SteeringMode), "followUp")
    BY PeekRest, NoneOfRole DEF HeldInv, KindsInv, Typed, QueuesTyped
  <2>4. /\ Msgs(Peek(steering, SteeringMode), "followUp") = {} /\ Ascending(Peek(steering, SteeringMode), "followUp")
        /\ Ascending(Peek(steering, SteeringMode), "steer")
    BY <2>3, MsgsType, PeekRestMsgs DEF OrderInv, Lined
  <2>5. /\ UNCHANGED <<delivered, accepted, asked, followUps>> /\ pending' = <<>>
        /\ steering' = IF pending = <<>> THEN Rest(steering, SteeringMode) ELSE steering
    BY <1>12 DEF NextTurn
  <2>6. Bounded'
    BY <2>5 DEF OrderInv, Bounded
  <2> DEFINE p == IF pending = <<>> THEN Peek(steering, SteeringMode) ELSE pending
  <2>7. PICK s \in SystemUpdates : outbox' = s \o p \o status
    BY <1>12 DEF NextTurn
  <2>8. /\ p \in Seq(Message) /\ status \in Seq(Of({"status"}))
        /\ \A r \in {"steer", "followUp"} : Ascending(p, r)
    <3>1. pending \in Seq(Message) /\ status \in Seq(Of({"status"}))
      BY DEF HeldInv, KindsInv, Typed, QueuesTyped
    <3>2. \A r \in {"steer", "followUp"} : Ascending(pending, r)
      BY DEF OrderInv, Lined
    <3> QED
      BY <2>3, <2>4, <3>1, <3>2
  <2>9. /\ pending = <<>> => p = Peek(steering, SteeringMode)
        /\ pending # <<>> => p = pending
    OBVIOUS
  <2> HIDE DEF p
  <2>10. \A r \in {"steer", "followUp"} : Msgs(outbox', r) = Msgs(p, r) /\ Ascending(outbox', r)
    BY <2>7, <2>8, Wrapped
  <2>11. CASE pending = <<>>
    <3>1. /\ Msgs(outbox', "steer") = Msgs(Peek(steering, SteeringMode), "steer") /\ Ascending(outbox', "steer")
          /\ Msgs(outbox', "followUp") = {} /\ Ascending(outbox', "followUp")
      BY <2>4, <2>9, <2>10, <2>11
    <3>2. Lined(delivered, outbox', <<>>, Rest(steering, SteeringMode), "steer", accepted)
      BY <2>1, <2>2, <2>3, <2>11, <3>1, LinedPoll DEF OrderInv
    <3>3. Lined(delivered, outbox', <<>>, followUps, "followUp", accepted)
      BY <2>1, <2>2, <2>11, <3>1, LinedLike DEF OrderInv
    <3> QED
      BY <2>5, <2>6, <2>11, <3>2, <3>3 DEF OrderInv
  <2>12. CASE pending # <<>>
    <3>1. \A r \in {"steer", "followUp"} : Msgs(outbox', r) = Msgs(pending, r) /\ Ascending(outbox', r)
      BY <2>9, <2>10, <2>12
    <3>2. Lined(delivered, outbox', <<>>, steering, "steer", accepted)
      BY <2>1, <2>2, <3>1, LinedMove DEF OrderInv
    <3>3. Lined(delivered, outbox', <<>>, followUps, "followUp", accepted)
      BY <2>1, <2>2, <3>1, LinedMove DEF OrderInv
    <3> QED
      BY <2>5, <2>6, <2>12, <3>2, <3>3 DEF OrderInv
  <2> QED
    BY <2>11, <2>12
<1>13. ASSUME PrepareRequest PROVE OrderInv'
  <2>1. UNCHANGED <<delivered, steering, followUps, accepted, outbox, pending, asked>>
    BY <1>13 DEF PrepareRequest
  <2> QED
    BY <2>1, SameOrder
<1>14. ASSUME FailTruncatedCall PROVE OrderInv'
  <2>1. pc \in Batch /\ pc' \in Batch
    BY <1>14 DEF FailTruncatedCall, Settled, Batch
  <2>2. outbox \in Seq(Results) /\ outbox' \in Seq(Results)
    BY <2>1, HeldInv' DEF HeldInv, OutboxInv
  <2>3. outbox \in Seq(Message) /\ outbox' \in Seq(Message)
    BY Typed' DEF Typed, QueuesTyped
  <2>4. \A r \in {"steer", "followUp"} : NoneOf(outbox, r) /\ NoneOf(outbox', r)
    BY <2>2, NoneOfRole
  <2>5. \A r \in {"steer", "followUp"} : Msgs(outbox', r) = Msgs(outbox, r) /\ Ascending(outbox', r)
    BY <2>3, <2>4, MsgsType
  <2>6. \A r \in {"steer", "followUp"} : Ascending(pending, r)
    BY DEF OrderInv, Lined
  <2>7. UNCHANGED <<delivered, steering, followUps, accepted, asked, pending>> /\ asked \in Nat
    BY <1>14 DEF FailTruncatedCall, Typed, QueuesTyped
  <2> QED
    BY <2>5, <2>6, <2>7, NeutralOrder
<1>15. ASSUME StartCall PROVE OrderInv'
  <2>1. UNCHANGED <<delivered, steering, followUps, accepted, outbox, pending, asked>>
    BY <1>15 DEF StartCall, Settled, Cut
  <2> QED
    BY <2>1, SameOrder
<1>16. ASSUME NEW i \in DOMAIN calls, PrepareCall(i) PROVE OrderInv'
  <2>1. UNCHANGED <<delivered, steering, followUps, accepted, outbox, pending, asked>>
    BY <1>16 DEF PrepareCall
  <2> QED
    BY <2>1, SameOrder
<1>17. ASSUME LaunchCalls PROVE OrderInv'
  <2>1. UNCHANGED <<delivered, steering, followUps, accepted, outbox, pending, asked>>
    BY <1>17 DEF LaunchCalls, Settled, Cut
  <2> QED
    BY <2>1, SameOrder
<1>18. ASSUME CollectResults PROVE OrderInv'
  <2>1. pc \in Batch /\ pc' \in Batch
    BY <1>18 DEF CollectResults, Settled, Batch
  <2>2. outbox \in Seq(Results) /\ outbox' \in Seq(Results)
    BY <2>1, HeldInv' DEF HeldInv, OutboxInv
  <2>3. outbox \in Seq(Message) /\ outbox' \in Seq(Message)
    BY Typed' DEF Typed, QueuesTyped
  <2>4. \A r \in {"steer", "followUp"} : NoneOf(outbox, r) /\ NoneOf(outbox', r)
    BY <2>2, NoneOfRole
  <2>5. \A r \in {"steer", "followUp"} : Msgs(outbox', r) = Msgs(outbox, r) /\ Ascending(outbox', r)
    BY <2>3, <2>4, MsgsType
  <2>6. \A r \in {"steer", "followUp"} : Ascending(pending, r)
    BY DEF OrderInv, Lined
  <2>7. UNCHANGED <<delivered, steering, followUps, accepted, asked, pending>> /\ asked \in Nat
    BY <1>18 DEF CollectResults, Typed, QueuesTyped
  <2> QED
    BY <2>5, <2>6, <2>7, NeutralOrder
<1>19. ASSUME EndBatch PROVE OrderInv'
  <2>1. UNCHANGED <<delivered, steering, followUps, accepted, outbox, pending, asked>>
    BY <1>19 DEF EndBatch, Settled, Cut
  <2> QED
    BY <2>1, SameOrder
<1>20. ASSUME NEW d \in {"none", "end", "continue"}, FinishTurn(d) PROVE OrderInv'
  <2>1. UNCHANGED <<delivered, steering, followUps, accepted, outbox, pending, asked>>
    BY <1>20 DEF FinishTurn
  <2> QED
    BY <2>1, SameOrder
<1>21. ASSUME PollSteering PROVE OrderInv'
  <2>1. outbox = <<>> /\ pending = <<>>
    BY <1>21 DEF PollSteering, HeldInv, OutboxInv, PendingInv, Emitting, Opening, Batch
  <2>2. \A r \in {"steer", "followUp"} : Msgs(<<>>, r) = {} /\ Ascending(<<>>, r)
    BY EmptyMsgs
  <2>3. /\ Peek(steering, SteeringMode) \in Seq(Steers) /\ Peek(steering, SteeringMode) \in Seq(Message)
        /\ steering \in Seq(Message) /\ NoneOf(Peek(steering, SteeringMode), "followUp")
    BY PeekRest, NoneOfRole DEF HeldInv, KindsInv, Typed, QueuesTyped
  <2>4. /\ Msgs(Peek(steering, SteeringMode), "followUp") = {} /\ Ascending(Peek(steering, SteeringMode), "followUp")
        /\ Ascending(Peek(steering, SteeringMode), "steer")
    BY <2>3, MsgsType, PeekRestMsgs DEF OrderInv, Lined
  <2>5. /\ pending' = Peek(steering, SteeringMode) /\ steering' = Rest(steering, SteeringMode)
        /\ UNCHANGED <<delivered, outbox, followUps, accepted, asked>>
    BY <1>21 DEF PollSteering
  <2>6. Lined(delivered, outbox, pending', steering', "steer", accepted)
    BY <2>1, <2>2, <2>3, <2>4, <2>5, LinedPoll DEF OrderInv
  <2>7. Lined(delivered, outbox, pending', followUps, "followUp", accepted)
    BY <2>1, <2>2, <2>4, <2>5, LinedLike DEF OrderInv
  <2>8. Bounded'
    BY <2>5 DEF OrderInv, Bounded
  <2> QED
    BY <2>5, <2>6, <2>7, <2>8 DEF OrderInv
<1>22. ASSUME ContextStatus PROVE OrderInv'
  <2>1. UNCHANGED <<delivered, steering, followUps, accepted, outbox, pending, asked>>
    BY <1>22 DEF ContextStatus
  <2> QED
    BY <2>1, SameOrder
<1>23. ASSUME PollFollowUps PROVE OrderInv'
  <2>1. outbox = <<>> /\ pending = <<>>
    BY <1>23 DEF PollFollowUps, HeldInv, OutboxInv, PendingInv, Emitting, Opening, Batch
  <2>2. \A r \in {"steer", "followUp"} : Msgs(<<>>, r) = {} /\ Ascending(<<>>, r)
    BY EmptyMsgs
  <2>3. /\ Peek(followUps, FollowUpMode) \in Seq(FollowUps) /\ Peek(followUps, FollowUpMode) \in Seq(Message)
        /\ followUps \in Seq(Message) /\ NoneOf(Peek(followUps, FollowUpMode), "steer")
    BY PeekRest, NoneOfRole DEF HeldInv, KindsInv, Typed, QueuesTyped
  <2>4. /\ Msgs(Peek(followUps, FollowUpMode), "steer") = {} /\ Ascending(Peek(followUps, FollowUpMode), "steer")
        /\ Ascending(Peek(followUps, FollowUpMode), "followUp")
    BY <2>3, MsgsType, PeekRestMsgs DEF OrderInv, Lined
  <2>5. /\ pending' = Peek(followUps, FollowUpMode) /\ followUps' = Rest(followUps, FollowUpMode)
        /\ UNCHANGED <<delivered, outbox, steering, accepted, asked>>
    BY <1>23 DEF PollFollowUps
  <2>6. Lined(delivered, outbox, pending', followUps', "followUp", accepted)
    BY <2>1, <2>2, <2>3, <2>4, <2>5, LinedPoll DEF OrderInv
  <2>7. Lined(delivered, outbox, pending', steering, "steer", accepted)
    BY <2>1, <2>2, <2>4, <2>5, LinedLike DEF OrderInv
  <2>8. Bounded'
    BY <2>5 DEF OrderInv, Bounded
  <2> QED
    BY <2>5, <2>6, <2>7, <2>8 DEF OrderInv
<1>24. ASSUME AgentEnd PROVE OrderInv'
  <2>1. UNCHANGED <<delivered, steering, followUps, accepted, outbox, pending, asked>>
    BY <1>24 DEF AgentEnd
  <2> QED
    BY <2>1, SameOrder
<1>25. ASSUME FailureEnd PROVE OrderInv'
  <2>1. UNCHANGED <<delivered, steering, followUps, accepted, outbox, pending, asked>>
    BY <1>25 DEF FailureEnd
  <2> QED
    BY <2>1, SameOrder
<1>26. ASSUME FinishRun PROVE OrderInv'
  <2>1. UNCHANGED <<delivered, steering, followUps, accepted, outbox, pending, asked>>
    BY <1>26 DEF FinishRun
  <2> QED
    BY <2>1, SameOrder
<1>27. ASSUME NEW stop \in {"stop", "length", "error", "aborted"}, NEW n \in 0..MaxCalls, Respond(stop, n)
      PROVE  OrderInv'
  <2>1. UNCHANGED <<delivered, steering, followUps, accepted, outbox, pending, asked>>
    BY <1>27 DEF Respond
  <2> QED
    BY <2>1, SameOrder
<1>28. ASSUME NEW i \in DOMAIN calls, FinalizeCall(i) PROVE OrderInv'
  <2>1. pc \in Batch /\ pc' \in Batch
    BY <1>28 DEF FinalizeCall, Settled, Batch
  <2>2. outbox \in Seq(Results) /\ outbox' \in Seq(Results)
    BY <2>1, HeldInv' DEF HeldInv, OutboxInv
  <2>3. outbox \in Seq(Message) /\ outbox' \in Seq(Message)
    BY Typed' DEF Typed, QueuesTyped
  <2>4. \A r \in {"steer", "followUp"} : NoneOf(outbox, r) /\ NoneOf(outbox', r)
    BY <2>2, NoneOfRole
  <2>5. \A r \in {"steer", "followUp"} : Msgs(outbox', r) = Msgs(outbox, r) /\ Ascending(outbox', r)
    BY <2>3, <2>4, MsgsType
  <2>6. \A r \in {"steer", "followUp"} : Ascending(pending, r)
    BY DEF OrderInv, Lined
  <2>7. UNCHANGED <<delivered, steering, followUps, accepted, asked, pending>> /\ asked \in Nat
    BY <1>28 DEF FinalizeCall, Typed, QueuesTyped
  <2> QED
    BY <2>5, <2>6, <2>7, NeutralOrder
<1>29. ASSUME Throw PROVE OrderInv'
  <2> DEFINE s == outbox \o pending
  <2>1. /\ outbox \in Seq(Message) /\ pending \in Seq(Message) /\ accepted \in SUBSET Message
        /\ s \in Seq(Message)
    BY SeqFacts DEF Typed, QueuesTyped
  <2>2. /\ Msgs(s, "steer") = Msgs(outbox, "steer") \cup Msgs(pending, "steer")
        /\ Msgs(s, "followUp") = Msgs(outbox, "followUp") \cup Msgs(pending, "followUp")
    BY <2>1, ConcatMsgs
  <2>3. /\ outbox' = <<>> /\ pending' = <<>> /\ accepted' = accepted \ Range(s)
        /\ UNCHANGED <<delivered, steering, followUps, asked>>
    BY <1>29 DEF Throw, Forget
  <2> HIDE DEF s
  <2>4. Lined(delivered, <<>>, <<>>, steering, "steer", accepted \ Range(s))
    BY <2>1, <2>2, LinedForget DEF OrderInv
  <2>5. Lined(delivered, <<>>, <<>>, followUps, "followUp", accepted \ Range(s))
    BY <2>1, <2>2, LinedForget DEF OrderInv
  <2>6. Bounded'
    BY <2>3 DEF OrderInv, Bounded
  <2> QED
    BY <2>3, <2>4, <2>5, <2>6 DEF OrderInv
<1>30. ASSUME UNCHANGED vars PROVE OrderInv'
  <2>1. UNCHANGED <<delivered, steering, followUps, accepted, outbox, pending, asked>>
    BY <1>30 DEF vars
  <2> QED
    BY <2>1, SameOrder
<1>31. ASSUME FailureMessage PROVE OrderInv'
  <2>1. UNCHANGED <<delivered, steering, followUps, accepted, outbox, pending, asked>>
    BY <1>31 DEF FailureMessage
  <2> QED
    BY <2>1, SameOrder
<1>32. ASSUME FailReporting PROVE OrderInv'
  <2>1. UNCHANGED <<delivered, steering, followUps, accepted, outbox, pending, asked>>
    BY <1>32 DEF FailReporting
  <2> QED
    BY <2>1, SameOrder
<1> QED
  BY <1>1, <1>2, <1>3, <1>4, <1>5, <1>6, <1>7, <1>8, <1>9, <1>10, <1>11, <1>12,
       <1>13, <1>14, <1>15, <1>16, <1>17, <1>18, <1>19, <1>20, <1>21, <1>22,
       <1>23, <1>24, <1>25, <1>26, <1>27, <1>28, <1>29, <1>30, <1>31, <1>32
     DEF Next, UserStep, LoopStep, ExternalStep

-----------------------------------------------------------------------------
(* The phase of AgentRun, by where the loop is.                            *)
LEMMA PhaseTable ==
  /\ pc \in {"idle"} => PhaseOf = "idle"
  /\ pc \in {"started", "prompts", "prepareNextTurn", "nextTurn", "deliver", "refused"} => PhaseOf = "turn"
  /\ pc \in {"stream"} => PhaseOf = "stream"
  /\ pc \in {"tools", "running", "results"} => PhaseOf = "tools"
  /\ pc \in {"finishTurn"} => PhaseOf = "finishing"
  /\ pc \in {"finishFailed"} => PhaseOf = "failed"
  /\ pc \in {"pollSteering", "contextStatus", "pollFollowUps"} => PhaseOf = "turnEnd"
  /\ pc \in {"agentEnd", "settling", "failing", "failed", "failureEnd"} => PhaseOf = "ending"
BY DEF PhaseOf

(* The same, after a step.                                                 *)
LEMMA PhaseNext ==
  /\ pc' \in {"idle"} => PhaseOf' = "idle"
  /\ pc' \in {"started", "prompts", "prepareNextTurn", "nextTurn", "deliver", "refused"} => PhaseOf' = "turn"
  /\ pc' \in {"stream"} => PhaseOf' = "stream"
  /\ pc' \in {"tools", "running", "results"} => PhaseOf' = "tools"
  /\ pc' \in {"finishTurn"} => PhaseOf' = "finishing"
  /\ pc' \in {"finishFailed"} => PhaseOf' = "failed"
  /\ pc' \in {"pollSteering", "contextStatus", "pollFollowUps"} => PhaseOf' = "turnEnd"
  /\ pc' \in {"agentEnd", "settling", "failing", "failed", "failureEnd"} => PhaseOf' = "ending"
BY DEF PhaseOf

(* A run that is not idle has a phase.                                     *)
LEMMA PhaseBusy ==
  ASSUME pc \in PCs, pc # "idle"
  PROVE  PhaseOf \in Run!Phases \ {"idle"}
<1>1. PhaseOf # "idle"
  BY PhaseTable DEF PCs
<1>2. PhaseOf \in Run!Phases
  BY PhaseTable DEF PCs, Run!Phases
<1> QED
  BY <1>1, <1>2

(* The number of queued messages.                                          *)
LEMMA QueuedFacts ==
  ASSUME Typed, Typed'
  PROVE  /\ Len(steering) \in Nat /\ Len(followUps) \in Nat
         /\ Len(steering') \in Nat /\ Len(followUps') \in Nat
         /\ Len(Rest(steering, SteeringMode)) \in 0..Len(steering)
         /\ Len(Rest(followUps, FollowUpMode)) \in 0..Len(followUps)
<1>1. steering \in Seq(Message) /\ followUps \in Seq(Message)
  BY DEF Typed, QueuesTyped
<1>2. steering' \in Seq(Message) /\ followUps' \in Seq(Message)
  BY DEF Typed, QueuesTyped
<1>3. Len(Rest(steering, SteeringMode)) \in 0..Len(steering)
  <2>1. /\ Len(Peek(steering, SteeringMode)) \in 0..Len(steering) /\ Len(steering) \in Nat
        /\ Len(Rest(steering, SteeringMode)) = Len(steering) - Len(Peek(steering, SteeringMode))
    BY <1>1, PeekRest
  <2> QED
    BY <2>1
<1>4. Len(Rest(followUps, FollowUpMode)) \in 0..Len(followUps)
  <2>1. /\ Len(Peek(followUps, FollowUpMode)) \in 0..Len(followUps) /\ Len(followUps) \in Nat
        /\ Len(Rest(followUps, FollowUpMode)) = Len(followUps) - Len(Peek(followUps, FollowUpMode))
    BY <1>1, PeekRest
  <2> QED
    BY <2>1
<1> QED
  BY <1>1, <1>2, <1>3, <1>4

(* Steps of the loop that move AgentRun from one phase to another, taking  *)
(* some of the queued messages.                                            *)
Held == Len(steering) + Len(followUps)

(* What a Move of AgentRun is for the loop.                                *)
LEMMA RunMove ==
  ASSUME NEW from, NEW to, NEW n, Held \in Nat, n \in 0..Held, Held' = Held - n, PhaseOf \in from, PhaseOf' = to,
         UNCHANGED aborted
  PROVE  Run!Move(from, to, n)
BY DEF Run!Move, Held

(* A step of the loop that AgentRun does not see.                          *)
LEMMA RunSame ==
  ASSUME PhaseOf' = PhaseOf, UNCHANGED <<aborted, steering, followUps>>
  PROVE  [Run!Next]_(Run!vars)
BY DEF Run!vars

(* A step of the loop that takes queued messages, or finds none.           *)
LEMMA RunTake ==
  ASSUME Held \in Nat, Held' \in 0..Held, PhaseOf \in {"turn", "turnEnd"}, PhaseOf' = PhaseOf, UNCHANGED aborted
  PROVE  [Run!Next]_(Run!vars)
<1>1. CASE Held' = Held
  BY <1>1 DEF Run!vars, Held
<1>2. CASE Held' # Held
  <2>1. Held - Held' \in 1..Held /\ Held' = Held - (Held - Held') /\ Held - Held' \in 0..Held
    <3> DEFINE h == Held
               k == Held'
    <3>1. h \in Nat /\ k \in 0..h /\ k # h
      BY <1>2
    <3> HIDE DEF h, k
    <3>2. h - k \in 1..h /\ k = h - (h - k) /\ h - k \in 0..h
      BY <3>1
    <3> QED
      BY <3>2 DEF h, k
  <2>2. Run!Move({PhaseOf}, PhaseOf, Held - Held')
    BY <2>1, RunMove
  <2>3. Run!Take(Held - Held')
    BY <2>2 DEF Run!Take
  <2> QED
    BY <2>1, <2>3 DEF Run!Next, Held
<1> QED
  BY <1>1, <1>2

(* Every step of the loop is a step of AgentRun, or leaves it where it is. *)
LEMMA RunStep ==
  ASSUME LoopAssumption, Typed, Typed', ReasonInv, [Next]_vars
  PROVE  [Run!Next]_(Run!vars)
<1> USE DEF loop, user
<1>1. ASSUME Prompt PROVE [Run!Next]_(Run!vars)
  <2>1. PhaseOf \in {"idle"} /\ PhaseOf' = "turn" /\ UNCHANGED aborted
    BY <1>1, PhaseTable, PhaseNext DEF Prompt, Start
  <2>2. Held \in Nat /\ 0 \in 0..Held /\ Held' = Held - 0
    BY <1>1, QueuedFacts DEF Held, Prompt, Start
  <2>3. Run!Move({"idle"}, "turn", 0)
    BY <2>1, <2>2, RunMove
  <2> QED
    BY <2>1, <2>2, <2>3 DEF Run!Next, Run!Driver, Run!Prompt, Held
<1>2. ASSUME Continue PROVE [Run!Next]_(Run!vars)
  <2>1. PhaseOf \in {"idle"} /\ PhaseOf' = "turn" /\ UNCHANGED aborted
    BY <1>2, PhaseTable, PhaseNext DEF Continue, Start
  <2>2. /\ steering' = steering \/ steering' = Rest(steering, SteeringMode)
        /\ followUps' = followUps \/ followUps' = Rest(followUps, FollowUpMode)
    BY <1>2 DEF Continue
  <2>3. Held \in Nat /\ Held - Held' \in 0..Held /\ Held' = Held - (Held - Held')
    BY <2>2, QueuedFacts DEF Held
  <2>4. Run!Move({"idle"}, "turn", Held - Held')
    BY <2>1, <2>3, RunMove
  <2> QED
    BY <2>3, <2>4 DEF Run!Next, Run!Driver, Run!Continue, Held
<1>3. ASSUME Steer PROVE [Run!Next]_(Run!vars)
  <2>1. PhaseOf' = PhaseOf /\ UNCHANGED <<aborted, followUps>>
    BY <1>3 DEF Steer, PhaseOf
  <2>2. Len(steering') = Len(steering) + 1
    BY <1>3 DEF Steer, Typed, QueuesTyped
  <2>3. Run!Enqueue
    BY <2>1, <2>2, QueuedFacts DEF Run!Enqueue
  <2> QED
    BY <2>3 DEF Run!Next, Run!Driver
<1>4. ASSUME FollowUp PROVE [Run!Next]_(Run!vars)
  <2>1. PhaseOf' = PhaseOf /\ UNCHANGED <<aborted, steering>>
    BY <1>4 DEF FollowUp, PhaseOf
  <2>2. Len(followUps') = Len(followUps) + 1
    BY <1>4 DEF FollowUp, Typed, QueuesTyped
  <2>3. Run!Enqueue
    BY <2>1, <2>2, QueuedFacts DEF Run!Enqueue
  <2> QED
    BY <2>3 DEF Run!Next, Run!Driver
<1>5. ASSUME ClearAllQueues PROVE [Run!Next]_(Run!vars)
  <2>1. PhaseOf' = PhaseOf /\ UNCHANGED aborted
    BY <1>5 DEF ClearAllQueues, PhaseOf
  <2>2. Len(steering') = 0 /\ Len(followUps') = 0
    BY <1>5 DEF ClearAllQueues
  <2>3. Run!Clear
    BY <2>1, <2>2 DEF Run!Clear
  <2> QED
    BY <2>3 DEF Run!Next, Run!Driver
<1>6. ASSUME Abort PROVE [Run!Next]_(Run!vars)
  <2>1. PhaseOf' = PhaseOf /\ aborted' = TRUE /\ UNCHANGED <<steering, followUps>>
    BY <1>6 DEF Abort, PhaseOf
  <2>2. PhaseOf # "idle"
    BY <1>6, PhaseBusy DEF Abort, Typed
  <2>3. Run!Abort
    BY <2>1, <2>2 DEF Run!Abort
  <2> QED
    BY <2>3 DEF Run!Next, Run!Driver
<1>7. ASSUME Reset PROVE [Run!Next]_(Run!vars)
  <2>1. PhaseOf' = PhaseOf /\ UNCHANGED aborted
    BY <1>7 DEF Reset, PhaseOf
  <2>2. Len(steering') = 0 /\ Len(followUps') = 0
    BY <1>7 DEF Reset
  <2>3. Run!Clear
    BY <2>1, <2>2 DEF Run!Clear
  <2> QED
    BY <2>3 DEF Run!Next, Run!Driver
<1>8. ASSUME TurnStart PROVE [Run!Next]_(Run!vars)
  <2>1. UNCHANGED <<aborted, steering, followUps>>
    BY <1>8 DEF TurnStart
  <2>2. PhaseOf = "turn" /\ PhaseOf' = "turn"
    BY <1>8, PhaseTable, PhaseNext DEF TurnStart
  <2> QED
    BY <2>1, <2>2, RunSame
<1>9. ASSUME EmitMessage PROVE [Run!Next]_(Run!vars)
  <2>1. UNCHANGED <<aborted, steering, followUps, pc>>
    BY <1>9 DEF EmitMessage
  <2> QED
    BY <2>1, RunSame DEF PhaseOf
<1>10. ASSUME InitialPoll PROVE [Run!Next]_(Run!vars)
  <2>1. PhaseOf = "turn" /\ PhaseOf' = "turn" /\ UNCHANGED <<aborted, followUps>>
    BY <1>10, PhaseTable, PhaseNext DEF InitialPoll
  <2>2. steering' = steering \/ steering' = Rest(steering, SteeringMode)
    BY <1>10 DEF InitialPoll
  <2>3. Held \in Nat /\ Held' \in 0..Held
    BY <2>1, <2>2, QueuedFacts DEF Held
  <2> QED
    BY <2>1, <2>3, RunTake
<1>11. ASSUME PrepareNextTurn PROVE [Run!Next]_(Run!vars)
  <2>1. UNCHANGED <<aborted, steering, followUps>>
    BY <1>11 DEF PrepareNextTurn
  <2>2. PhaseOf = "turn" /\ PhaseOf' = "turn"
    BY <1>11, PhaseTable, PhaseNext DEF PrepareNextTurn
  <2> QED
    BY <2>1, <2>2, RunSame
<1>12. ASSUME NextTurn PROVE [Run!Next]_(Run!vars)
  <2>1. PhaseOf = "turn" /\ PhaseOf' = "turn" /\ UNCHANGED <<aborted, followUps>>
    BY <1>12, PhaseTable, PhaseNext DEF NextTurn
  <2>2. steering' = steering \/ steering' = Rest(steering, SteeringMode)
    BY <1>12 DEF NextTurn
  <2>3. Held \in Nat /\ Held' \in 0..Held
    BY <2>1, <2>2, QueuedFacts DEF Held
  <2> QED
    BY <2>1, <2>3, RunTake
<1>13. ASSUME PrepareRequest PROVE [Run!Next]_(Run!vars)
  <2>1. PhaseOf = "turn" /\ UNCHANGED <<aborted, steering, followUps>>
    BY <1>13, PhaseTable DEF PrepareRequest
  <2>2. CASE aborted
    <3>1. PhaseOf' = "turn"
      BY <1>13, <2>2, PhaseNext DEF PrepareRequest
    <3> QED
      BY <2>1, <3>1, RunSame
  <2>3. CASE ~aborted
    <3>1. PhaseOf' = "stream"
      BY <1>13, <2>3, PhaseNext DEF PrepareRequest
    <3>2. Held \in Nat /\ 0 \in 0..Held /\ Held' = Held - 0
      BY <2>1, QueuedFacts DEF Held
    <3>3. Run!Move({"turn"}, "stream", 0)
      BY <2>1, <3>1, <3>2, RunMove
    <3> QED
      BY <2>3, <3>3 DEF Run!Next, Run!Proceed, Run!Request
  <2> QED
    BY <2>2, <2>3
<1>14. ASSUME FailTruncatedCall PROVE [Run!Next]_(Run!vars)
  <2>1. UNCHANGED <<aborted, steering, followUps>>
    BY <1>14 DEF FailTruncatedCall, Settled
  <2>2. PhaseOf = "tools" /\ PhaseOf' = "tools"
    BY <1>14, PhaseTable, PhaseNext DEF FailTruncatedCall, Settled
  <2> QED
    BY <2>1, <2>2, RunSame
<1>15. ASSUME StartCall PROVE [Run!Next]_(Run!vars)
  <2>1. UNCHANGED <<aborted, steering, followUps>>
    BY <1>15 DEF StartCall, Settled, Cut
  <2>2. PhaseOf = "tools" /\ PhaseOf' = "tools"
    BY <1>15, PhaseTable, PhaseNext DEF StartCall, Settled, Cut
  <2> QED
    BY <2>1, <2>2, RunSame
<1>16. ASSUME NEW i \in DOMAIN calls, PrepareCall(i) PROVE [Run!Next]_(Run!vars)
  <2>1. UNCHANGED <<aborted, steering, followUps>>
    BY <1>16 DEF PrepareCall
  <2>2. PhaseOf = "tools" /\ PhaseOf' = "tools"
    BY <1>16, PhaseTable, PhaseNext DEF PrepareCall
  <2> QED
    BY <2>1, <2>2, RunSame
<1>17. ASSUME LaunchCalls PROVE [Run!Next]_(Run!vars)
  <2>1. UNCHANGED <<aborted, steering, followUps>>
    BY <1>17 DEF LaunchCalls, Settled, Cut
  <2>2. PhaseOf = "tools" /\ PhaseOf' = "tools"
    BY <1>17, PhaseTable, PhaseNext DEF LaunchCalls, Settled, Cut
  <2> QED
    BY <2>1, <2>2, RunSame
<1>18. ASSUME CollectResults PROVE [Run!Next]_(Run!vars)
  <2>1. UNCHANGED <<aborted, steering, followUps>>
    BY <1>18 DEF CollectResults
  <2>2. PhaseOf = "tools" /\ PhaseOf' = "tools"
    BY <1>18, PhaseTable, PhaseNext DEF CollectResults
  <2> QED
    BY <2>1, <2>2, RunSame
<1>19. ASSUME EndBatch PROVE [Run!Next]_(Run!vars)
  <2>1. PhaseOf \in {"tools"} /\ PhaseOf' = "finishing" /\ UNCHANGED <<aborted, steering, followUps>>
    BY <1>19, PhaseTable, PhaseNext DEF EndBatch, Settled
  <2>2. Held \in Nat /\ 0 \in 0..Held /\ Held' = Held - 0
    BY <2>1, QueuedFacts DEF Held
  <2>3. Run!Move({"tools"}, "finishing", 0)
    BY <2>1, <2>2, RunMove
  <2> QED
    BY <2>3 DEF Run!Next, Run!Answer, Run!Results
<1>20. ASSUME NEW d \in {"none", "end", "continue"}, FinishTurn(d) PROVE [Run!Next]_(Run!vars)
  <2>1. UNCHANGED <<aborted, steering, followUps>>
    BY <1>20 DEF FinishTurn
  <2>2. Held \in Nat /\ 0 \in 0..Held /\ Held' = Held - 0
    BY <2>1, QueuedFacts DEF Held
  <2>3. CASE pc = "finishTurn" /\ pc' = "pollSteering"
    <3>1. PhaseOf \in {"finishing"} /\ PhaseOf' = "turnEnd"
      BY <2>3, PhaseTable, PhaseNext
    <3>2. Run!Move({"finishing"}, "turnEnd", 0)
      BY <2>1, <2>2, <3>1, RunMove
    <3> QED
      BY <3>2 DEF Run!Next, Run!Proceed, Run!TurnEnd
  <2>4. CASE pc \in {"finishTurn", "finishFailed"} /\ pc' = "agentEnd"
    <3>1. PhaseOf \in {"finishing", "turnEnd", "failed"} /\ PhaseOf' = "ending"
      BY <2>4, PhaseTable, PhaseNext
    <3>2. Run!Move({"finishing", "turnEnd", "failed"}, "ending", 0)
      BY <2>1, <2>2, <3>1, RunMove
    <3> QED
      BY <3>2 DEF Run!Next, Run!Proceed, Run!EndRun
  <2> QED
    BY <1>20, <2>3, <2>4 DEF FinishTurn
<1>21. ASSUME PollSteering PROVE [Run!Next]_(Run!vars)
  <2>1. PhaseOf = "turnEnd" /\ PhaseOf' = "turnEnd" /\ UNCHANGED <<aborted, followUps>>
    BY <1>21, PhaseTable, PhaseNext DEF PollSteering
  <2>2. steering' = steering \/ steering' = Rest(steering, SteeringMode)
    BY <1>21 DEF PollSteering
  <2>3. Held \in Nat /\ Held' \in 0..Held
    BY <2>1, <2>2, QueuedFacts DEF Held
  <2> QED
    BY <2>1, <2>3, RunTake
<1>22. ASSUME ContextStatus PROVE [Run!Next]_(Run!vars)
  <2>1. PhaseOf \in {"turnEnd"} /\ UNCHANGED <<aborted, steering, followUps>>
    BY <1>22, PhaseTable DEF ContextStatus
  <2>2. CASE pc' = "pollFollowUps"
    <3>1. PhaseOf' = PhaseOf
      BY <2>1, <2>2, PhaseNext
    <3> QED
      BY <2>1, <3>1, RunSame
  <2>3. CASE pc' = "prepareNextTurn"
    <3>1. PhaseOf' = "turn"
      BY <2>3, PhaseNext
    <3>2. Held \in Nat /\ 0 \in 0..Held /\ Held' = Held - 0
      BY <2>1, QueuedFacts DEF Held
    <3>3. Run!Move({"turnEnd"}, "turn", 0)
      BY <2>1, <3>1, <3>2, RunMove
    <3> QED
      BY <3>2, <3>3 DEF Run!Next, Run!Proceed, Run!NextTurn, Held
  <2> QED
    BY <1>22, <2>2, <2>3 DEF ContextStatus
<1>23. ASSUME PollFollowUps PROVE [Run!Next]_(Run!vars)
  <2>1. /\ PhaseOf = "turnEnd" /\ UNCHANGED <<aborted, steering>>
        /\ followUps' = Rest(followUps, FollowUpMode)
    BY <1>23, PhaseTable DEF PollFollowUps
  <2>2. CASE pc' = "prepareNextTurn"
    <3>1. PhaseOf \in {"turnEnd"} /\ PhaseOf' = "turn"
      BY <2>1, <2>2, PhaseNext
    <3>2. Held \in Nat /\ Held - Held' \in 0..Held /\ Held' = Held - (Held - Held')
      BY <2>1, QueuedFacts DEF Held
    <3>3. Run!Move({"turnEnd"}, "turn", Held - Held')
      BY <2>1, <3>1, <3>2, RunMove
    <3> QED
      BY <3>2, <3>3 DEF Run!Next, Run!Proceed, Run!NextTurn, Held
  <2>3. CASE followUps = <<>> /\ pc' = "agentEnd"
    <3>1. PhaseOf \in {"finishing", "turnEnd", "failed"} /\ PhaseOf' = "ending"
      BY <2>1, <2>3, PhaseNext
    <3>2. followUps' = followUps
      BY <2>1, <2>3, PeekRest DEF Typed, QueuesTyped
    <3>3. Held \in Nat /\ 0 \in 0..Held /\ Held' = Held - 0
      BY <2>1, <3>2, QueuedFacts DEF Held
    <3>4. Run!Move({"finishing", "turnEnd", "failed"}, "ending", 0)
      BY <2>1, <3>1, <3>3, RunMove
    <3> QED
      BY <3>4 DEF Run!Next, Run!Proceed, Run!EndRun
  <2> QED
    BY <1>23, <2>2, <2>3 DEF PollFollowUps
<1>24. ASSUME AgentEnd PROVE [Run!Next]_(Run!vars)
  <2>1. UNCHANGED <<aborted, steering, followUps>>
    BY <1>24 DEF AgentEnd
  <2>2. PhaseOf = "ending" /\ PhaseOf' = "ending"
    BY <1>24, PhaseTable, PhaseNext DEF AgentEnd
  <2> QED
    BY <2>1, <2>2, RunSame
<1>25. ASSUME FailureEnd PROVE [Run!Next]_(Run!vars)
  <2>1. UNCHANGED <<aborted, steering, followUps>>
    BY <1>25 DEF FailureEnd
  <2>2. PhaseOf = "ending" /\ PhaseOf' = "ending"
    BY <1>25, PhaseTable, PhaseNext DEF FailureEnd
  <2> QED
    BY <2>1, <2>2, RunSame
<1>26. ASSUME FinishRun PROVE [Run!Next]_(Run!vars)
  <2>1. PhaseOf = "ending" /\ PhaseOf' = "idle" /\ aborted' = FALSE /\ UNCHANGED <<steering, followUps>>
    BY <1>26, PhaseTable, PhaseNext DEF FinishRun
  <2>2. Run!Finish
    BY <2>1 DEF Run!Finish
  <2> QED
    BY <2>2 DEF Run!Next, Run!Proceed
<1>27. ASSUME NEW stop \in {"stop", "length", "error", "aborted"}, NEW n \in 0..MaxCalls, Respond(stop, n)
      PROVE  [Run!Next]_(Run!vars)
  <2>1. UNCHANGED <<aborted, steering, followUps>>
    BY <1>27 DEF Respond
  <2>2. Held \in Nat /\ 0 \in 0..Held /\ Held' = Held - 0
    BY <2>1, QueuedFacts DEF Held
  <2>3. CASE pc = "refused"
    <3>1. aborted /\ PhaseOf \in {"turn"} /\ PhaseOf' = "failed"
      BY <1>27, <2>3, PhaseTable, PhaseNext DEF Respond, ReasonInv
    <3>2. Run!Move({"turn"}, "failed", 0)
      BY <2>1, <2>2, <3>1, RunMove
    <3> QED
      BY <3>1, <3>2 DEF Run!Next, Run!Answer, Run!Refuse
  <2>4. CASE pc = "stream" /\ pc' = "finishFailed"
    <3>1. PhaseOf \in {"stream"} /\ PhaseOf' = "failed"
      BY <2>4, PhaseTable, PhaseNext
    <3>2. Run!Move({"stream"}, "failed", 0)
      BY <2>1, <2>2, <3>1, RunMove
    <3> QED
      BY <3>2 DEF Run!Next, Run!Answer, Run!FailResponse
  <2>5. CASE pc = "stream" /\ pc' = "finishTurn"
    <3>1. PhaseOf \in {"stream"} /\ PhaseOf' = "finishing"
      BY <2>5, PhaseTable, PhaseNext
    <3>2. Run!Move({"stream"}, "finishing", 0)
      BY <2>1, <2>2, <3>1, RunMove
    <3>3. Run!Respond(FALSE)
      BY <3>2 DEF Run!Respond
    <3> QED
      BY <3>3 DEF Run!Next, Run!Answer
  <2>6. CASE pc = "stream" /\ pc' = "tools"
    <3>1. PhaseOf \in {"stream"} /\ PhaseOf' = "tools"
      BY <2>6, PhaseTable, PhaseNext
    <3>2. Run!Move({"stream"}, "tools", 0)
      BY <2>1, <2>2, <3>1, RunMove
    <3>3. Run!Respond(TRUE)
      BY <3>2 DEF Run!Respond
    <3> QED
      BY <3>3 DEF Run!Next, Run!Answer
  <2>7. pc \in {"stream", "refused"} /\ pc' \in {"finishFailed", "finishTurn", "tools"}
    BY <1>27 DEF Respond
  <2> QED
    BY <2>3, <2>4, <2>5, <2>6, <2>7
<1>28. ASSUME NEW i \in DOMAIN calls, FinalizeCall(i) PROVE [Run!Next]_(Run!vars)
  <2>1. UNCHANGED <<aborted, steering, followUps>>
    BY <1>28 DEF FinalizeCall
  <2>2. PhaseOf = "tools" /\ PhaseOf' = "tools"
    BY <1>28, PhaseTable, PhaseNext DEF FinalizeCall
  <2> QED
    BY <2>1, <2>2, RunSame
<1>29. ASSUME Throw PROVE [Run!Next]_(Run!vars)
  <2>1. PhaseOf \in Run!Phases \ {"idle"} /\ PhaseOf' = "ending"
    <3>1. pc # "idle" /\ pc' = "failing"
      BY <1>29 DEF Throw
    <3> QED
      BY <3>1, PhaseBusy, PhaseNext DEF Typed
  <2>2. UNCHANGED <<aborted, steering, followUps>>
    BY <1>29 DEF Throw
  <2>3. Held \in Nat /\ 0 \in 0..Held /\ Held' = Held - 0
    BY <2>2, QueuedFacts DEF Held
  <2>4. Run!Move(Run!Phases \ {"idle"}, "ending", 0)
    BY <2>1, <2>2, <2>3, RunMove
  <2> QED
    BY <2>4 DEF Run!Next, Run!Throw
<1>30. ASSUME UNCHANGED vars PROVE [Run!Next]_(Run!vars)
  <2>1. UNCHANGED <<aborted, steering, followUps, pc>>
    BY <1>30 DEF vars
  <2> QED
    BY <2>1, RunSame DEF PhaseOf
<1>31. ASSUME FailureMessage PROVE [Run!Next]_(Run!vars)
  <2>1. UNCHANGED <<aborted, steering, followUps>>
    BY <1>31 DEF FailureMessage
  <2>2. PhaseOf = "ending" /\ PhaseOf' = "ending"
    BY <1>31, PhaseTable, PhaseNext DEF FailureMessage
  <2> QED
    BY <2>1, <2>2, RunSame
<1>32. ASSUME FailReporting PROVE [Run!Next]_(Run!vars)
  <2>1. PhaseOf = "ending" /\ PhaseOf' = "idle" /\ aborted' = FALSE /\ UNCHANGED <<steering, followUps>>
    BY <1>32, PhaseTable, PhaseNext DEF FailReporting
  <2>2. Run!Finish
    BY <2>1 DEF Run!Finish
  <2> QED
    BY <2>2 DEF Run!Next, Run!Proceed
<1> QED
  BY <1>1, <1>2, <1>3, <1>4, <1>5, <1>6, <1>7, <1>8, <1>9, <1>10, <1>11, <1>12,
       <1>13, <1>14, <1>15, <1>16, <1>17, <1>18, <1>19, <1>20, <1>21, <1>22,
       <1>23, <1>24, <1>25, <1>26, <1>27, <1>28, <1>29, <1>30, <1>31, <1>32
     DEF Next, UserStep, LoopStep, ExternalStep

-----------------------------------------------------------------------------
(* The inductive invariant.                                                *)
Coherent == Typed /\ HeldInv /\ BatchesInv /\ TurnInv /\ SingleInv /\ ReasonInv /\ OrderInv

(* It holds at first.                                                      *)
LEMMA InitCoherent ==
  ASSUME Init
  PROVE  Coherent
<1>1. Typed
  <2>1. FlagsTyped /\ pc \in PCs
    BY DEF Init, FlagsTyped, PCs
  <2>2. QueuesTyped
    BY SeqFacts DEF Init, QueuesTyped
  <2>3. CallsTyped
    <3>1. <<>> \in Seq(CallStates)
      BY SeqOf
    <3> QED
      BY <3>1 DEF Init, CallsTyped
  <2> QED
    BY <2>1, <2>2, <2>3 DEF Typed
<1>2. HeldInv
  BY SeqOf DEF Init, HeldInv, KindsInv, OutboxInv, PendingInv, Emitting, Opening, Batch
<1>3. BatchesInv
  BY DEF Init, BatchesInv, BatchInv, TruncatedInv, SequentialInv, ParallelInv, ModeInv, Batch
<1>4. DOMAIN turn = {} /\ turn \in Seq(Of({"assistant", "toolResult"}))
  BY SeqOf DEF Init
<1>5. TurnInv
  BY <1>4 DEF Init, TurnInv, ResultsOK, Opening
<1>6. \A r \in {"steer", "followUp"} : /\ NoneOf(<<>>, r) /\ OneOf(<<>>, r)
                                       /\ Msgs(<<>>, r) = {} /\ Ascending(<<>>, r)
  BY EmptyMsgs, NoneOfRole DEF NoneOf, OneOf
<1>7. SingleInv
  BY <1>6, AfterFacts DEF Init, SingleInv, Single
<1>8. ReasonInv
  BY DEF Init, ReasonInv, Asking
<1>9. OrderInv
  <2>1. \A S : Below({}, S) /\ Below(S, {})
    BY DEF Below
  <2>2. \A r \in {"steer", "followUp"} : Lined(<<>>, <<>>, <<>>, <<>>, r, {})
    BY <1>6, <2>1 DEF Lined, Rows
  <2>3. /\ delivered = <<>> /\ outbox = <<>> /\ pending = <<>> /\ steering = <<>> /\ followUps = <<>>
        /\ accepted = {}
    BY DEF Init
  <2> QED
    BY <2>2, <2>3 DEF OrderInv, Bounded
<1> QED
  BY <1>1, <1>2, <1>3, <1>5, <1>7, <1>8, <1>9 DEF Coherent

(* Every step keeps it.                                                    *)
LEMMA CoherentStep ==
  ASSUME LoopAssumption, Coherent, [Next]_vars
  PROVE  Coherent'
<1> USE DEF Coherent
<1>1. Typed'
  BY TypeStep
<1>2. HeldInv'
  BY HeldStep
<1>3. BatchesInv'
  BY <1>1, BatchStep
<1>4. TurnInv'
  BY <1>1, <1>3, TurnStep
<1>5. SingleInv'
  BY <1>2, SingleStep
<1>6. ReasonInv'
  BY ReasonStep
<1>7. OrderInv'
  BY <1>1, <1>2, OrderStep
<1> QED
  BY <1>1, <1>2, <1>3, <1>4, <1>5, <1>6, <1>7

(* So it always holds.                                                     *)
LEMMA CoherentAlways == Spec => []Coherent
<1>1. Init => Coherent
  BY InitCoherent
<1>2. Coherent /\ [Next]_vars => Coherent'
  BY LoopAssumption, CoherentStep
<1> QED
  BY <1>1, <1>2, PTL DEF Spec

(* TypeOK holds in every reachable state, for any modes, hooks and bounds; *)
(* and while a batch is executed, what is in the transcript, the results   *)
(* to emit and the states of the calls fit the loop's place in it and the  *)
(* way it is executed: one call after the other, or all prepared in order, *)
(* launched together and collected when none runs (agent-loop.ts:664).     *)
THEOREM TypeCorrect == Spec => [](TypeOK /\ BatchesInv)
<1>1. Coherent => TypeOK /\ BatchesInv
  BY DEF Coherent, Typed, FlagsTyped, QueuesTyped, CallsTyped, TypeOK
<1> QED
  BY <1>1, CoherentAlways, PTL

(* A queued message reaches the transcript once and in the order in which  *)
(* it was sent, through both polls of a turn, continue and the prompts     *)
(* (agent.ts:165, agent-loop.ts:207): what was delivered, what the loop    *)
(* holds and what waits is what was accepted, each part below the next.    *)
THEOREM DeliveredCorrect == Spec => []DeliveredOnceInOrder
<1>1. Coherent => DeliveredOnceInOrder
  <2> SUFFICES ASSUME Coherent PROVE DeliveredOnceInOrder
    OBVIOUS
  <2>1. Typed /\ steering \in Seq(Message) /\ followUps \in Seq(Message)
    BY DEF Coherent, Typed, QueuesTyped
  <2>2. InOrder(delivered \o outbox \o pending \o steering, "steer")
    BY <2>1, LinedInOrder DEF Coherent, OrderInv
  <2>3. InOrder(delivered \o outbox \o pending \o followUps, "followUp")
    BY <2>1, LinedInOrder DEF Coherent, OrderInv
  <2> QED
    BY <2>2, <2>3 DEF DeliveredOnceInOrder
<1> QED
  BY <1>1, CoherentAlways, PTL

(* In one-at-a-time mode at most one steering message and at most one      *)
(* follow-up reach the model between two responses, although a queue is    *)
(* polled up to three times between them and whatever runs end meanwhile;  *)
(* only past a run that ended with neither a response nor a failure        *)
(* message the count starts again (agent-loop.ts:206, agent.ts:544).       *)
THEOREM OneAtATimeCorrect == Spec => []OneAtATime
<1>1. Coherent => OneAtATime
  <2> SUFFICES ASSUME Coherent PROVE OneAtATime
    OBVIOUS
  <2>1. \A r \in {"steer", "followUp"} : Single(r) => OneAfter(turn, left, r)
    BY AfterFacts DEF Single
  <2>2. \A r : OneAfter(turn, left, r) => \A i, j \in Unanswered(r) : i = j
    BY DEF OneAfter, Unanswered
  <2> QED
    BY <2>1, <2>2 DEF Coherent, SingleInv, OneAtATime
<1> QED
  BY <1>1, CoherentAlways, PTL

(* Tool results follow the message of their calls, in the order of the     *)
(* calls, in truncated, sequential and parallel batches of any size, and   *)
(* the next request of a run that was not aborted has every call answered  *)
(* (agent-loop.ts:664).                                                    *)
THEOREM ResultsCorrect == Spec => []ResultsFollowTheirCalls
<1>1. Coherent => ResultsFollowTheirCalls
  BY DEF Coherent, TurnInv, ResultsOK, AllAnswered, ResultsFollowTheirCalls
<1> QED
  BY <1>1, CoherentAlways, PTL

(* The model is asked again only for tool work that goes on, a queued      *)
(* message or a decision of finishTurn (agent-loop.ts:176, 307).           *)
THEOREM NoUnrequestedCorrect == Spec => []NoUnrequestedTurn
<1>1. Coherent => NoUnrequestedTurn
  <2> SUFFICES ASSUME Coherent PROVE NoUnrequestedTurn
    OBVIOUS
  <2>1. WorkLeft => calls # <<>>
    <3> SUFFICES ASSUME calls = <<>> PROVE Decided = {}
      BY DEF WorkLeft
    <3>1. DOMAIN calls = {}
      OBVIOUS
    <3> QED
      BY <3>1 DEF Decided, In
  <2> QED
    BY <2>1 DEF Coherent, ReasonInv, Asking, WorkLeft, HasUser, NoUnrequestedTurn
<1> QED
  BY <1>1, CoherentAlways, PTL

(* The safety part of ImplementsRun: the loop starts where AgentRun does,  *)
(* and every step is one of AgentRun's - results only between a response   *)
(* and the end of its turn, no turn after a failure, no request after an   *)
(* abort (agent.ts:263, 341, agent-loop.ts:162).                           *)
THEOREM RunSafety == Spec => Run!Init /\ [][Run!Next]_(Run!vars)
<1>1. Init => Run!Init
  <2> SUFFICES ASSUME Init PROVE Run!Init
    OBVIOUS
  <2>1. PhaseOf = "idle"
    BY PhaseTable DEF Init
  <2>2. Len(steering) + Len(followUps) = 0
    BY DEF Init
  <2> QED
    BY <2>1, <2>2 DEF Init, Run!Init
<1>2. Coherent /\ Coherent' /\ [Next]_vars => [Run!Next]_(Run!vars)
  BY LoopAssumption, RunStep DEF Coherent
<1> QED
  BY <1>1, <1>2, CoherentAlways, PTL DEF Spec
=============================================================================
