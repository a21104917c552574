------------------------ MODULE SessionManagerProofs ------------------------
(***************************************************************************)
(* Proofs about SessionManager, for every initial log, every bound and     *)
(* every choice of operations and failures.                                *)
(*                                                                         *)
(* The walk along parents is a recursive function.  PathStep shows that    *)
(* the equation that defines it has a solution, the ancestries, and TopOf  *)
(* stands for induction along the tree: no entry precedes its parent.      *)
(***************************************************************************)
EXTENDS SessionManager, TLAPS, FiniteSetTheorems, WellFoundedInduction

(* The logs that the session manager and its file hold when n entries have *)
(* been created.                                                           *)
LogOK(E, n) ==
    /\ IsLog(E) /\ ParentsEarlier(E)
    /\ \A x \in DOMAIN E : x <= n /\ E[x].at <= n /\ E[x].parent <= n

FileOK(f, n) ==
    /\ f = File(f.state, f.lines, f.tail)
    /\ f.state \in FileStates /\ f.tail \in Tails /\ LogOK(f.lines, n)
    /\ f.state # "session" => f.lines = EmptyLog
    /\ f.state = "absent" => f.tail = "none"

-----------------------------------------------------------------------------
(* A set of natural numbers that is not empty has a least element.         *)
LEMMA LeastBound ==
    ASSUME NEW T \in SUBSET Nat, T # {}
    PROVE  \E m \in T : \A k \in T : m <= k
  <1>1. \E m \in T : \A k \in T : ~(<<k, m>> \in OpToRel(<, Nat))
    BY NatLessThanWellFounded, WFMin
  <1>2. PICK m \in T : \A k \in T : ~(<<k, m>> \in OpToRel(<, Nat))
    BY <1>1
  <1>3. \A k \in T : ~(k < m)
    BY <1>2, Zenon DEF OpToRel
  <1> QED
    BY <1>3

(* Latest finds a last entry of a set whose positions are bounded.         *)
LEMMA LatestExists ==
    ASSUME NEW E, NEW S, S # {}, NEW n \in Nat,
           \A x \in S : E[x].at \in Nat /\ E[x].at <= n
    PROVE  /\ Latest(E, S) \in S
           /\ \A y \in S : E[y].at <= E[Latest(E, S)].at
  <1> DEFINE T == {m \in Nat : \A x \in S : E[x].at <= m}
  <1>1. T \in SUBSET Nat /\ n \in T
    OBVIOUS
  <1>2. PICK m \in T : \A k \in T : m <= k
    BY <1>1, LeastBound
  <1>3. \E x \in S : E[x].at = m
    <2>1. SUFFICES ASSUME \A x \in S : E[x].at # m PROVE FALSE
      OBVIOUS
    <2>2. m \in Nat /\ \A x \in S : E[x].at < m
      BY <2>1
    <2>3. PICK x \in S : TRUE
      OBVIOUS
    <2>4. m - 1 \in T
      BY <2>2, <2>3
    <2> QED
      BY <1>2, <2>2, <2>4
  <1>4. \E x \in S : \A y \in S : E[y].at <= E[x].at
    BY <1>3
  <1> QED
    BY <1>4 DEF Latest

-----------------------------------------------------------------------------
(* The empty log of a new session is a log.                                *)
LEMMA EmptyLogOK ==
    ASSUME NEW n \in Nat
    PROVE  LogOK(EmptyLog, n) /\ ParentsPresent(EmptyLog) /\ DOMAIN EmptyLog = {}
  BY FS_EmptySet DEF LogOK, IsLog, EmptyLog, ParentsEarlier, ParentsPresent

(* A log stays one when more entries have been created elsewhere.          *)
LEMMA LogGrows ==
    ASSUME NEW E, NEW n \in Nat, NEW m \in Nat, n <= m, LogOK(E, n)
    PROVE  LogOK(E, m)
  BY DEF LogOK, IsLog, Entry, Id

(* Appending the next entry, as a child of an entry of the log.            *)
LEMMA AppendOK ==
    ASSUME NEW E, NEW n \in Nat, LogOK(E, n),
           NEW e \in Entry, e.at = n + 1, e.parent <= n
    PROVE  /\ LogOK(With(E, n + 1, e), n + 1)
           /\ DOMAIN With(E, n + 1, e) = DOMAIN E \cup {n + 1}
           /\ (ParentsPresent(E) /\ e.parent \in DOMAIN E \cup {NullId})
                => ParentsPresent(With(E, n + 1, e))
  <1> DEFINE W == With(E, n + 1, e)
  <1>1. DOMAIN W = DOMAIN E \cup {n + 1} /\ n + 1 \notin DOMAIN E
    BY DEF With, LogOK, IsLog, Id
  <1>2. W[n + 1] = e /\ \A x \in DOMAIN E : W[x] = E[x]
    BY <1>1 DEF With
  <1>3. IsFiniteSet(DOMAIN W) /\ DOMAIN W \subseteq Id
    BY <1>1, FS_AddElement DEF LogOK, IsLog, Id
  <1>4. W \in [DOMAIN W -> Entry]
    BY <1>1, <1>2 DEF LogOK, IsLog, With
  <1>5. ParentsEarlier(W)
    BY <1>1, <1>2 DEF LogOK, IsLog, ParentsEarlier, Entry, Id
  <1>6. \A x \in DOMAIN W : x <= n + 1 /\ W[x].at <= n + 1 /\ W[x].parent <= n + 1
    BY <1>1, <1>2 DEF LogOK, IsLog, Entry, Id
  <1>7. (ParentsPresent(E) /\ e.parent \in DOMAIN E \cup {NullId}) => ParentsPresent(W)
    BY <1>1, <1>2 DEF ParentsPresent
  <1> QED
    BY <1>1, <1>3, <1>4, <1>5, <1>6, <1>7 DEF LogOK, IsLog

(* The part of a log up to a position, and a log without its last entry.   *)
LEMMA UpToOK ==
    ASSUME NEW E, NEW n \in Nat, LogOK(E, n), NEW a \in Nat
    PROVE  /\ LogOK(UpTo(E, a), n)
           /\ ParentsPresent(E) => ParentsPresent(UpTo(E, a))
  <1> DEFINE U == UpTo(E, a)
  <1>1. DOMAIN U \subseteq DOMAIN E /\ \A x \in DOMAIN U : U[x] = E[x]
    BY DEF UpTo
  <1>2. IsFiniteSet(DOMAIN U) /\ DOMAIN U \subseteq Id
    BY <1>1, FS_Subset DEF LogOK, IsLog
  <1>3. U \in [DOMAIN U -> Entry]
    BY <1>1 DEF LogOK, IsLog, UpTo
  <1>4. ParentsEarlier(U)
    BY <1>1 DEF LogOK, ParentsEarlier
  <1>5. ParentsPresent(E) => ParentsPresent(U)
    <2>1. SUFFICES ASSUME ParentsPresent(E), NEW x \in DOMAIN U, E[x].parent # NullId
                   PROVE  E[x].parent \in DOMAIN U
      BY <1>1 DEF ParentsPresent
    <2>2. E[x].parent \in DOMAIN E /\ E[E[x].parent].at < E[x].at
      BY <1>1, <2>1 DEF ParentsPresent, ParentsEarlier, LogOK
    <2>3. E[x].at <= a /\ E[x].at \in Nat /\ E[E[x].parent].at \in Nat
      BY <1>1, <2>2 DEF UpTo, LogOK, IsLog, Entry
    <2> QED
      BY <2>2, <2>3 DEF UpTo
  <1> QED
    BY <1>1, <1>2, <1>3, <1>4, <1>5 DEF LogOK, IsLog

(* A log without one of its entries keeps its parents earlier.             *)
LEMMA WithoutOK ==
    ASSUME NEW E, NEW n \in Nat, LogOK(E, n), NEW m
    PROVE  LogOK(Without(E, m), n)
  <1> DEFINE U == Without(E, m)
  <1>1. DOMAIN U \subseteq DOMAIN E /\ \A x \in DOMAIN U : U[x] = E[x]
    BY DEF Without
  <1>2. IsFiniteSet(DOMAIN U) /\ DOMAIN U \subseteq Id
    BY <1>1, FS_Subset DEF LogOK, IsLog
  <1>3. U \in [DOMAIN U -> Entry]
    BY <1>1 DEF LogOK, IsLog, Without
  <1>4. ParentsEarlier(U)
    BY <1>1 DEF LogOK, ParentsEarlier
  <1> QED
    BY <1>1, <1>2, <1>3, <1>4 DEF LogOK, IsLog

(* The last entry of a log, the label index and the legacy prune records.  *)
LEMMA LastEntryOK ==
    ASSUME NEW E, NEW n \in Nat, LogOK(E, n)
    PROVE  /\ LastEntry(E) \in DOMAIN E \cup {NullId}
           /\ LastEntry(E) = NullId <=> DOMAIN E = {}
           /\ \A x \in DOMAIN E : E[x].at <= E[LastEntry(E)].at
  <1>1. \A x \in DOMAIN E : E[x].at \in Nat /\ E[x].at <= n
    BY DEF LogOK, IsLog, Entry
  <1>2. DOMAIN E # {} => /\ Latest(E, DOMAIN E) \in DOMAIN E
                         /\ \A x \in DOMAIN E : E[x].at <= E[Latest(E, DOMAIN E)].at
    BY <1>1, LatestExists
  <1> QED
    BY <1>2 DEF LastEntry, LogOK, IsLog, Id, NullId

(* The indexes that _buildIndex computes have their types.                 *)
LEMMA IndexesOK ==
    ASSUME NEW E, NEW n \in Nat, LogOK(E, n)
    PROVE  /\ LabelIndex(E) \subseteq Nat
           /\ DOMAIN LegacyPrunes(E) \subseteq Nat
           /\ LegacyPrunes(E) \in [DOMAIN LegacyPrunes(E) -> DOMAIN E]
  <1> DEFINE P == {x \in DOMAIN E : E[x].kind = "prune"}
             Of(t) == {x \in P : E[x].target = t}
             ts == {E[x].target : x \in P}
  <1>1. \A x \in DOMAIN E : E[x].at \in Nat /\ E[x].at <= n /\ E[x].target \in Nat
    BY DEF LogOK, IsLog, Entry
  <1>2. LabelIndex(E) \subseteq Nat
    BY <1>1 DEF LabelIndex
  <1>3. ts \subseteq Nat
    BY <1>1
  <1>4. ASSUME NEW t \in ts PROVE Latest(E, Of(t)) \in DOMAIN E
    <2>1. Of(t) # {} /\ \A x \in Of(t) : E[x].at \in Nat /\ E[x].at <= n
      BY <1>1
    <2>2. Latest(E, Of(t)) \in Of(t)
      BY <2>1, LatestExists
    <2> QED
      BY <2>2
  <1>5. LegacyPrunes(E) = [t \in ts |-> Latest(E, Of(t))]
    BY DEF LegacyPrunes
  <1> QED
    BY <1>2, <1>3, <1>4, <1>5

-----------------------------------------------------------------------------
(* Every outcome of a write leaves a file whose lines form a log.          *)
LEMMA CutShortOK ==
    ASSUME NEW E, NEW n \in Nat, LogOK(E, n), NEW f \in CutShort(E)
    PROVE  /\ FileOK(f, n)
           /\ ParentsPresent(E) => ParentsPresent(f.lines)
  <1>1. CASE f \in {NoFile, File("empty", EmptyLog, "none"), File("invalid", EmptyLog, "none")}
    BY <1>1, EmptyLogOK DEF FileOK, NoFile, File, FileStates, Tails
  <1>2. ASSUME NEW a \in {0} \cup {E[x].at : x \in DOMAIN E}, NEW t \in Tails,
               f = File("session", UpTo(E, a), t)
        PROVE  FileOK(f, n) /\ (ParentsPresent(E) => ParentsPresent(f.lines))
    <2>1. a \in Nat
      BY DEF LogOK, IsLog, Entry
    <2> QED
      BY <1>2, <2>1, UpToOK DEF FileOK, File, FileStates
  <1> QED
    BY <1>1, <1>2 DEF CutShort

(* Bytes that run into an unterminated line leave a file of whole lines.   *)
LEMMA RunIntoOK ==
    ASSUME NEW f, NEW n \in Nat, FileOK(f, n)
    PROVE  /\ FileOK(RunInto(f), n)
           /\ f.tail = "none" => RunInto(f) = f
           /\ RunInto(f).state = "session" => f.state = "session"
  <1>1. CASE f.tail # "whole"
    BY <1>1 DEF RunInto
  <1>2. CASE f.tail = "whole" /\ DOMAIN f.lines = {}
    BY <1>2, EmptyLogOK DEF RunInto, FileOK, File, FileStates, Tails
  <1>3. CASE f.tail = "whole" /\ DOMAIN f.lines # {}
    <2> DEFINE W == Without(f.lines, LastEntry(f.lines))
    <2>1. RunInto(f) = File(f.state, W, f.tail)
      BY <1>3 DEF RunInto, FileOK, File
    <2>2. LogOK(W, n)
      BY WithoutOK DEF FileOK
    <2>3. f.state = "session"
      BY <1>3, EmptyLogOK DEF FileOK
    <2> QED
      BY <1>3, <2>1, <2>2, <2>3 DEF FileOK, File
  <1> QED
    BY <1>1, <1>2, <1>3

(* A line or a fragment appended to a file.                                *)
LEMMA AppendFragmentOK ==
    ASSUME NEW f, NEW n \in Nat, FileOK(f, n)
    PROVE  /\ FileOK(AppendFragment(f), n)
           /\ (f.state = "session" /\ f.tail = "none") =>
                 AppendFragment(f) = File("session", f.lines, "partial")
  <1>1. CASE f.state # "session"
    BY <1>1, EmptyLogOK DEF AppendFragment, FileOK, File, FileStates, Tails
  <1>2. CASE f.state = "session"
    <2> DEFINE g == RunInto(f)
    <2>1. FileOK(g, n) /\ (f.tail = "none" => g = f)
      BY RunIntoOK
    <2>2. AppendFragment(f) = [g EXCEPT !.tail = "partial"]
      BY <1>2 DEF AppendFragment
    <2>3. AppendFragment(f) = File(g.state, g.lines, "partial")
      BY <2>1, <2>2 DEF FileOK, File
    <2>4. g.state # "absent"
      BY <1>2 DEF RunInto, FileOK, File
    <2> QED
      BY <1>2, <2>1, <2>3, <2>4 DEF FileOK, File, Tails
  <1> QED
    BY <1>1, <1>2

(* A line appended to a file, terminated or not, extends its log.          *)
LEMMA AppendLineOK ==
    ASSUME NEW f, NEW n \in Nat, FileOK(f, n),
           NEW e \in Entry, e.at = n + 1, e.parent <= n
    PROVE  /\ FileOK(AppendLine(f, n + 1, e), n + 1)
           /\ FileOK(AppendUnterminated(f, n + 1, e), n + 1)
           /\ (f.state = "session" /\ f.tail = "none") =>
                 /\ AppendLine(f, n + 1, e) = WholeFile(With(f.lines, n + 1, e))
                 /\ AppendUnterminated(f, n + 1, e)
                       = File("session", With(f.lines, n + 1, e), "whole")
  <1> DEFINE W == With(f.lines, n + 1, e)
  <1>1. LogOK(W, n + 1)
    BY AppendOK DEF FileOK
  <1>2. FileOK(RunInto(f), n) /\ FileOK(AppendFragment(f), n)
    BY RunIntoOK, AppendFragmentOK
  <1>3. \A g : FileOK(g, n) => FileOK(g, n + 1)
    BY LogGrows DEF FileOK
  <1>4. (f.state = "session" /\ f.tail = "none") =>
           AppendLine(f, n + 1, e) = WholeFile(W)
    BY DEF AppendLine, FileOK, File, WholeFile
  <1>5. (f.state = "session" /\ f.tail = "none") =>
           AppendUnterminated(f, n + 1, e) = File("session", W, "whole")
    BY DEF AppendUnterminated
  <1>6. FileOK(WholeFile(W), n + 1) /\ FileOK(File("session", W, "whole"), n + 1)
    BY <1>1 DEF FileOK, File, WholeFile, FileStates, Tails
  <1>7. FileOK(AppendLine(f, n + 1, e), n + 1)
    <2>1. CASE f.state # "session"
      <3>1. AppendLine(f, n + 1, e) = File("invalid", EmptyLog, "none")
        BY <2>1 DEF AppendLine
      <3> QED
        BY <3>1, EmptyLogOK DEF FileOK, File, FileStates, Tails
    <2>2. CASE f.state = "session" /\ f.tail # "none"
      <3> DEFINE g == RunInto(f)
      <3>1. AppendLine(f, n + 1, e) = [g EXCEPT !.tail = "none"]
        BY <2>2 DEF AppendLine
      <3>2. AppendLine(f, n + 1, e) = File(g.state, g.lines, "none")
        BY <1>2, <3>1 DEF FileOK, File
      <3>3. FileOK(g, n + 1)
        BY <1>2, <1>3
      <3> QED
        BY <3>2, <3>3 DEF FileOK, File, Tails
    <2> QED
      BY <1>4, <1>6, <2>1, <2>2
  <1>8. FileOK(AppendUnterminated(f, n + 1, e), n + 1)
    BY <1>2, <1>3, <1>5, <1>6 DEF AppendUnterminated
  <1> QED
    BY <1>4, <1>5, <1>7, <1>8

-----------------------------------------------------------------------------
(* Paths and contexts are made of entries of the log.                      *)
LEMMA PathInLog ==
    ASSUME NEW E, NEW id
    PROVE  SessionPath(E, id) \subseteq DOMAIN E
  BY DEF SessionPath

(* The context of a path is made of entries of the log.                    *)
LEMMA ContextInLog ==
    ASSUME NEW E, NEW n \in Nat, LogOK(E, n), NEW path \in SUBSET DOMAIN E
    PROVE  ContextEntries(E, path) \subseteq DOMAIN E
  <1> DEFINE C == {x \in path : E[x].kind = "compaction"}
  <1>1. \A x \in C : E[x].at \in Nat /\ E[x].at <= n
    BY DEF LogOK, IsLog, Entry
  <1>2. C # {} => Latest(E, C) \in C
    BY <1>1, LatestExists
  <1>3. LatestCompaction(E, path) # NullId => LatestCompaction(E, path) \in DOMAIN E
    BY <1>2 DEF LatestCompaction
  <1> QED
    BY <1>3 DEF ContextEntries

(* A block of entries is a finite set of entries of the log.               *)
LEMMA BlockInLog ==
    ASSUME NEW E, NEW n \in Nat, LogOK(E, n), NEW path, NEW S \in SUBSET DOMAIN E,
           NEW b \in PruneBlocks(E, path, S)
    PROVE  b \subseteq DOMAIN E /\ IsFiniteSet(b)
  <1>1. PICK x \in S : b = PruneBlock(E, path, S, x)
    BY DEF PruneBlocks
  <1>2. b \subseteq DOMAIN E
    BY <1>1 DEF PruneBlock
  <1> QED
    BY <1>2, FS_Subset DEF LogOK, IsLog

Change == [kind : EditKinds, target : Nat, value : EntryValues]

(* The blocks that the user or the agent may curate are finite.            *)
LEMMA CuratableBlocks ==
    ASSUME NEW E, NEW n \in Nat, LogOK(E, n), NEW id, NEW leg,
           NEW b \in HumanBlocks(E, id) \cup AgentBlocks(E, id, leg)
    PROVE  IsFiniteSet(b)
  <1> DEFINE path == SessionPath(E, id)
             V == Visible(Projection(E, id, leg))
  <1>1. path \in SUBSET DOMAIN E
    BY PathInLog
  <1>2. ContextEntries(E, path) \subseteq DOMAIN E
    BY <1>1, ContextInLog
  <1>3. V \subseteq DOMAIN E
    BY <1>2 DEF Visible, Projection
  <1>4. b \in HumanBlocks(E, id) => b \in PruneBlocks(E, path, ContextEntries(E, path))
    BY DEF HumanBlocks
  <1>5. b \in AgentBlocks(E, id, leg) => b \in PruneBlocks(E, path, V)
    BY DEF AgentBlocks
  <1> QED
    BY <1>2, <1>3, <1>4, <1>5, BlockInLog

-----------------------------------------------------------------------------
(* Extraction of a path: createBranchedSession writes a log.               *)
LEMMA FirstExists ==
    ASSUME NEW E, NEW S, S # {}, \A x \in S : E[x].at \in Nat
    PROVE  LET first == CHOOSE y \in S : \A z \in S : E[y].at <= E[z].at
           IN  first \in S /\ \A z \in S : E[first].at <= E[z].at
  <1> DEFINE T == {E[x].at : x \in S}
  <1>1. T \in SUBSET Nat /\ T # {}
    OBVIOUS
  <1>2. PICK m \in T : \A k \in T : m <= k
    BY <1>1, LeastBound
  <1>3. \E y \in S : \A z \in S : E[y].at <= E[z].at
    BY <1>2
  <1> QED
    BY <1>3

(* The path that createBranchedSession chains anew is a log without holes. *)
LEMMA RechainOK ==
    ASSUME NEW E, NEW n \in Nat, LogOK(E, n), NEW id
    PROVE  LET R == Rechain(E, id) IN
           /\ DOMAIN R = Retained(E, id) /\ DOMAIN R \subseteq DOMAIN E
           /\ LogOK(R, n) /\ ParentsPresent(R)
  <1> DEFINE path == SessionPath(E, id)
             S == Retained(E, id)
             R == Rechain(E, id)
             Earlier(x) == {y \in S : E[y].at < E[x].at}
             Later(x) == {y \in S : E[x].at < E[y].at}
             remap(t) == IF t \in path \ S /\ Later(t) # {}
                         THEN CHOOSE y \in Later(t) : \A z \in Later(t) : E[y].at <= E[z].at
                         ELSE t
             parent(x) == IF Earlier(x) = {} THEN NullId ELSE Latest(E, Earlier(x))
             target(x) == IF E[x].kind = "compaction" THEN remap(E[x].target) ELSE E[x].target
  <1>1. S \subseteq DOMAIN E
    BY PathInLog DEF Retained
  <1>2. \A x \in DOMAIN E : /\ E[x] \in Entry /\ E[x].at \in Nat /\ E[x].at <= n
                            /\ E[x].target \in Nat /\ x \in Nat /\ x # NullId /\ x <= n
    BY DEF LogOK, IsLog, Entry, Id, NullId
  <1>3. ASSUME NEW x \in S
        PROVE  /\ parent(x) \in S \cup {NullId}
               /\ parent(x) # NullId => parent(x) \in S /\ E[parent(x)].at < E[x].at
    <2>1. Earlier(x) # {} => Latest(E, Earlier(x)) \in Earlier(x)
      BY <1>1, <1>2, LatestExists
    <2> QED
      BY <2>1, <1>1, <1>2
  <1>4. ASSUME NEW x \in S PROVE target(x) \in Nat
    <2>1. \A t : Later(t) # {} => (CHOOSE y \in Later(t) : \A z \in Later(t) : E[y].at <= E[z].at) \in Later(t)
      BY <1>1, <1>2, FirstExists
    <2>2. \A t \in Nat : remap(t) \in Nat
      BY <2>1, <1>1, <1>2
    <2> QED
      BY <2>2, <1>1, <1>2
  <1>5. R = [x \in S |-> [E[x] EXCEPT !.parent = parent(x), !.target = target(x)]]
    BY DEF Rechain
  <1>6. ASSUME NEW x \in S
        PROVE  /\ R[x] \in Entry /\ R[x].parent = parent(x) /\ R[x].at = E[x].at
               /\ parent(x) \in Nat
    <2> HIDE DEF parent, target, R, S
    <2>1. parent(x) \in Nat /\ target(x) \in Nat
      BY <1>1, <1>2, <1>3, <1>4 DEF NullId
    <2>2. R[x] = [E[x] EXCEPT !.parent = parent(x), !.target = target(x)]
      BY <1>5
    <2> QED
      BY <1>1, <1>2, <2>1, <2>2 DEF Entry
  <1>7. DOMAIN R = S /\ R \in [S -> Entry]
    BY <1>5, <1>6
  <1> HIDE DEF R, parent
  <1>8. IsFiniteSet(S) /\ S \subseteq Id
    BY <1>1, FS_Subset DEF LogOK, IsLog
  <1>9. ParentsEarlier(R) /\ ParentsPresent(R)
    BY <1>1, <1>2, <1>3, <1>6, <1>7 DEF ParentsEarlier, ParentsPresent
  <1>10. \A x \in DOMAIN R : x <= n /\ R[x].at <= n /\ R[x].parent <= n
    BY <1>1, <1>2, <1>3, <1>6, <1>7 DEF NullId
  <1> QED
    BY <1>1, <1>7, <1>8, <1>9, <1>10 DEF LogOK, IsLog, R

(* A finite set can be put in an order without repetition.                 *)
LEMMA SomeOrder ==
    ASSUME NEW S, IsFiniteSet(S)
    PROVE  /\ Cardinality(S) \in Nat
           /\ InSomeOrder(S) \in [1..Cardinality(S) -> S]
           /\ \A i, j \in 1..Cardinality(S) : InSomeOrder(S)[i] = InSomeOrder(S)[j] => i = j
           /\ \A x \in S : \E i \in 1..Cardinality(S) : InSomeOrder(S)[i] = x
  <1>1. Cardinality(S) \in Nat /\ ExistsBijection(1..Cardinality(S), S)
    BY FS_CardinalityType
  <1>2. InSomeOrder(S) \in Bijection(1..Cardinality(S), S)
    BY <1>1 DEF InSomeOrder, ExistsBijection
  <1> QED
    BY <1>1, <1>2 DEF Bijection, Injection, IsInjective, Surjection

(* The entries of an extracted session: the chained path, then labels and  *)
(* copied legacy records at new positions.                                 *)
ExtractedShape(X, E, id, lbls, leg, n) ==
    LET S == Retained(E, id)
        R == Rechain(E, id)
        P == CopiedPrunes(E, id, leg)
        nl == Cardinality(CopiedLabels(E, id, lbls))
        np == Cardinality(P)
        prune == InSomeOrder(P)
        last(i) == IF i = 0 THEN LastEntry(R) ELSE n + i
    IN  /\ DOMAIN X = S \cup {n + i : i \in 1..nl} \cup P
        /\ \A x \in S : X[x] = R[x]
        /\ \A x \in DOMAIN X \ S : /\ X[x].at > n
                                   /\ x \in P => X[x].kind = E[x].kind
                                   /\ x \notin P => X[x].kind = "label"
        /\ \A i \in 1..nl : \E t :
              X[n + i] = [kind |-> "label", parent |-> last(i - 1), at |-> n + i,
                          target |-> t, value |-> "set"]
        /\ \A x \in P \ S : \E j \in 1..np :
              /\ prune[j] = x
              /\ X[x] = [E[x] EXCEPT !.at = n + nl + j,
                                     !.parent = IF j = 1 THEN last(nl) ELSE prune[j - 1]]

(* The extracted session, with its labels and prune records, is a log      *)
(* whose parents are all present.                                          *)
LEMMA ExtractedLogOK ==
    ASSUME NEW E, NEW n \in Nat, LogOK(E, n), NEW id, NEW lbls \in SUBSET Nat,
           NEW leg, leg \in [DOMAIN leg -> DOMAIN E]
    PROVE  LET X == ExtractedLog(E, id, lbls, leg, n)
               nl == Cardinality(CopiedLabels(E, id, lbls))
               np == Cardinality(CopiedPrunes(E, id, leg))
           IN  /\ nl \in Nat /\ np \in Nat
               /\ LogOK(X, n + (nl + np)) /\ ParentsPresent(X)
               /\ ExtractedShape(X, E, id, lbls, leg, n)
  <1> DEFINE R == Rechain(E, id)
             L == CopiedLabels(E, id, lbls)
             P == CopiedPrunes(E, id, leg)
             nl == Cardinality(L)
             np == Cardinality(P)
             label == InSomeOrder(L)
             prune == InSomeOrder(P)
             last(i) == IF i = 0 THEN LastEntry(R) ELSE n + i
             X == ExtractedLog(E, id, lbls, leg, n)
             New == {n + i : i \in 1..nl}
             D == DOMAIN R \cup New \cup P
             place(x) == CHOOSE j \in 1..np : prune[j] = x
             before(j) == IF j = 1 THEN last(nl) ELSE prune[j - 1]
  <1>1. /\ DOMAIN R = Retained(E, id) /\ DOMAIN R \subseteq DOMAIN E
        /\ LogOK(R, n) /\ ParentsPresent(R)
    BY RechainOK
  <1>2. L \subseteq DOMAIN E /\ L \subseteq Nat /\ P \subseteq DOMAIN E
    BY <1>1 DEF CopiedLabels, CopiedPrunes
  <1>3. IsFiniteSet(DOMAIN E) /\ DOMAIN E \subseteq Id /\ E \in [DOMAIN E -> Entry]
        /\ \A x \in DOMAIN E : x <= n
    BY DEF LogOK, IsLog
  <1>4. IsFiniteSet(L) /\ IsFiniteSet(P)
    BY <1>2, <1>3, FS_Subset
  <1>5. /\ nl \in Nat /\ label \in [1..nl -> L]
        /\ np \in Nat /\ prune \in [1..np -> P]
        /\ \A i, j \in 1..np : prune[i] = prune[j] => i = j
        /\ \A x \in P : \E i \in 1..np : prune[i] = x
    BY <1>4, SomeOrder
  <1>6. LastEntry(R) \in DOMAIN R \cup {NullId}
    BY <1>1, LastEntryOK
  <1>7. X = [x \in D |->
              IF x \in DOMAIN R THEN R[x]
              ELSE IF x \in P
              THEN [E[x] EXCEPT !.at = n + nl + place(x), !.parent = before(place(x))]
              ELSE [kind |-> "label", parent |-> last(x - n - 1), at |-> x,
                    target |-> label[x - n], value |-> "set"]]
    BY DEF ExtractedLog
  <1> HIDE DEF R, L, P, nl, np, label, prune, X
  <1>8. IsFiniteSet(D) /\ D \subseteq Id
    <2>1. IsFiniteSet(DOMAIN R)
      BY <1>1 DEF LogOK, IsLog
    <2>2. D \subseteq Nat /\ \A x \in D : x <= n + nl
      BY <1>1, <1>2, <1>3, <1>5 DEF Id
    <2>3. n + nl \in Nat
      BY <1>5
    <2>4. IsFiniteSet(D)
      BY <2>2, <2>3, FS_BoundedSetOfNaturals
    <2>5. D \subseteq Id
      BY <1>1, <1>2, <1>3, <1>5 DEF Id
    <2> QED
      BY <2>4, <2>5
  <1>9. DOMAIN X = D
    BY <1>7
  <1> HIDE DEF D, New, place, before, last
  (* The three kinds of entries of the new log. *)
  <1>10. \A x \in DOMAIN R : x \in D /\ X[x] = R[x]
    BY <1>7 DEF D
  <1>11. ASSUME NEW x \in P, x \notin DOMAIN R
         PROVE  \E j \in 1..np :
                   /\ prune[j] = x
                   /\ X[x] = [E[x] EXCEPT !.at = n + nl + j, !.parent = before(j)]
    <2>1. place(x) \in 1..np /\ prune[place(x)] = x
      BY <1>5 DEF place
    <2>2. x \in D
      BY DEF D
    <2>3. X[x] = [E[x] EXCEPT !.at = n + nl + place(x), !.parent = before(place(x))]
      BY <1>7, <1>11, <2>2
    <2> QED
      BY <2>1, <2>3
  <1>12. \A i \in 1..nl : \A x : x = n + i =>
            /\ x \in D /\ X[x].at = x
            /\ X[x] = [kind |-> "label", parent |-> last(i - 1), at |-> x,
                       target |-> label[i], value |-> "set"]
    <2>1. SUFFICES ASSUME NEW i \in 1..nl, NEW x, x = n + i
                   PROVE  /\ x \in D /\ X[x].at = x
                          /\ X[x] = [kind |-> "label", parent |-> last(i - 1), at |-> x,
                                     target |-> label[i], value |-> "set"]
      OBVIOUS
    <2>2. x \in D /\ x \notin DOMAIN R /\ x \notin P
      BY <2>1, <1>1, <1>2, <1>3, <1>5 DEF Id, D, New
    <2>3. x - n = i /\ x - n - 1 = i - 1
      BY <2>1, <1>5
    <2>4. X[x] = [kind |-> "label", parent |-> last(x - n - 1), at |-> x,
                  target |-> label[x - n], value |-> "set"]
      BY <1>7, <2>2
    <2> QED
      BY <2>2, <2>3, <2>4
  <1>13. ASSUME NEW i \in 0..nl
         PROVE  /\ last(i) \in D \cup {NullId} /\ last(i) \in Nat /\ last(i) <= n + i
                /\ last(i) # NullId => X[last(i)].at <= n + i
    <2>1. CASE i = 0
      <3>1. \A x \in DOMAIN R : R[x].at <= n /\ x <= n /\ x \in Nat
        BY <1>1 DEF LogOK, IsLog, Id
      <3> QED
        BY <1>6, <1>10, <2>1, <3>1 DEF NullId, last
    <2>2. CASE i # 0
      <3>1. i \in 1..nl /\ last(i) = n + i /\ n + i \in Nat
        BY <1>5, <2>2 DEF last
      <3>2. PICK y : y = n + i
        OBVIOUS
      <3>3. y \in D /\ X[y].at = y
        BY <1>12, <3>1, <3>2, Zenon
      <3> QED
        BY <3>1, <3>2, <3>3
    <2> QED
      BY <2>1, <2>2
  <1>14. ASSUME NEW x \in DOMAIN R
         PROVE  /\ X[x] \in Entry /\ X[x].at <= n /\ X[x].parent <= n
                /\ X[x].parent \in D \cup {NullId}
                /\ X[x].parent # NullId => X[X[x].parent].at < X[x].at
    BY <1>1, <1>10 DEF LogOK, IsLog, ParentsPresent, ParentsEarlier
  <1>15. ASSUME NEW i \in 1..nl
         PROVE  /\ X[n + i] \in Entry /\ X[n + i].at = n + i /\ X[n + i].parent <= n + i
                /\ X[n + i].parent \in D \cup {NullId}
                /\ X[n + i].parent # NullId => X[X[n + i].parent].at < X[n + i].at
    <2>1. i - 1 \in 0..nl /\ n + (i - 1) < n + i
      BY <1>5
    <2>2. /\ last(i - 1) \in D \cup {NullId} /\ last(i - 1) \in Nat /\ last(i - 1) <= n + (i - 1)
          /\ last(i - 1) # NullId => X[last(i - 1)].at <= n + (i - 1)
      BY <1>13, <2>1
    <2>3. label[i] \in Nat
      BY <1>2, <1>5
    <2>4. /\ X[n + i].parent = last(i - 1) /\ X[n + i].at = n + i
          /\ X[n + i] \in Entry
      <3>1. X[n + i] = [kind |-> "label", parent |-> last(i - 1), at |-> n + i,
                        target |-> label[i], value |-> "set"]
        BY <1>12
      <3>2. "label" \in EntryKinds /\ "set" \in EntryValues /\ n + i \in Nat
        BY <1>5 DEF EntryKinds, EntryValues
      <3> QED
        BY <2>2, <2>3, <3>1, <3>2 DEF Entry
    <2>5. last(i - 1) # NullId => X[last(i - 1)].at \in Nat
      <3>1. CASE i = 1
        BY <1>6, <1>14, <3>1 DEF Entry, NullId, last
      <3>2. CASE i # 1
        <4>1. i - 1 \in 1..nl /\ last(i - 1) = n + (i - 1)
          BY <1>5, <3>2 DEF last
        <4>2. PICK k \in 1..nl : k = i - 1
          BY <4>1
        <4>3. PICK y : y = n + k
          OBVIOUS
        <4>4. X[y].at = y
          BY <1>12, <4>3, Zenon
        <4> QED
          BY <4>1, <4>2, <4>3, <4>4, <1>5
      <3> QED
        BY <3>1, <3>2
    <2> QED
      BY <2>1, <2>2, <2>4, <2>5, <1>5
  <1>16. ASSUME NEW x \in P, x \notin DOMAIN R
         PROVE  /\ X[x] \in Entry /\ X[x].at <= n + (nl + np) /\ X[x].parent <= n + (nl + np)
                /\ X[x].parent \in D \cup {NullId}
                /\ X[x].parent # NullId => X[X[x].parent].at < X[x].at
    <2>1. PICK j \in 1..np :
             /\ prune[j] = x
             /\ X[x] = [E[x] EXCEPT !.at = n + nl + j, !.parent = before(j)]
      BY <1>11, <1>16
    <2>2. E[x] \in Entry
      BY <1>2, <1>3
    <2>3. /\ before(j) \in D \cup {NullId} /\ before(j) \in Nat /\ before(j) <= n + nl
          /\ before(j) # NullId => X[before(j)].at \in Nat /\ X[before(j)].at < n + nl + j
      <3>1. CASE j = 1
        <4>1. /\ last(nl) \in D \cup {NullId} /\ last(nl) \in Nat /\ last(nl) <= n + nl
              /\ last(nl) # NullId => X[last(nl)].at <= n + nl
          BY <1>13, <1>5
        <4>2. last(nl) # NullId => X[last(nl)].at \in Nat
          <5>1. CASE nl = 0
            BY <1>6, <1>14, <5>1 DEF Entry, NullId, last
          <5>2. CASE nl # 0
            BY <1>5, <1>15, <5>2 DEF Entry, last
          <5> QED
            BY <5>1, <5>2
        <4> QED
          BY <3>1, <4>1, <4>2, <1>5 DEF before
      <3>2. CASE j # 1
        <4> DEFINE y == prune[j - 1]
        <4>1. j - 1 \in 1..np /\ before(j) = y /\ y \in P
          BY <1>5, <2>1, <3>2 DEF before
        <4>2. y \in Nat /\ y <= n
          BY <4>1, <1>2, <1>3 DEF Id
        <4> HIDE DEF y
        <4>3. CASE y \in DOMAIN R
          <5>1. y \in D /\ X[y].at \in Nat /\ X[y].at <= n
            BY <4>3, <1>10, <1>14 DEF Entry
          <5> QED
            BY <4>1, <4>2, <5>1, <2>1, <1>5
        <4>4. CASE y \notin DOMAIN R
          <5>1. PICK k \in 1..np :
                   /\ prune[k] = y
                   /\ X[y] = [E[y] EXCEPT !.at = n + nl + k, !.parent = before(k)]
            BY <1>11, <4>1, <4>4
          <5>2. E[y] \in Entry
            BY <4>1, <1>2, <1>3
          <5>3. k = j - 1
            BY <4>1, <5>1, <1>5 DEF y
          <5>4. X[y].at = n + nl + (j - 1)
            BY <5>1, <5>2, <5>3 DEF Entry
          <5> QED
            BY <4>1, <4>2, <5>4, <2>1, <1>5 DEF D
        <4> QED
          BY <4>3, <4>4
      <3> QED
        BY <3>1, <3>2
    <2>4. X[x].parent = before(j) /\ X[x].at = n + nl + j /\ X[x] \in Entry
      <3>1. PICK p : p = before(j)
        OBVIOUS
      <3>2. PICK a \in Nat : a = n + nl + j
        BY <1>5
      <3>3. X[x] = [E[x] EXCEPT !.at = a, !.parent = p] /\ p \in Nat
        BY <2>1, <2>3, <3>1, <3>2
      <3>4. X[x].parent = p /\ X[x].at = a /\ X[x] \in Entry
        BY <2>2, <3>3 DEF Entry
      <3> QED
        BY <3>1, <3>2, <3>4
    <2>5. n + nl + j <= n + (nl + np) /\ n + nl <= n + (nl + np)
      BY <2>1, <1>5
    <2> QED
      BY <2>1, <2>3, <2>4, <2>5, <1>5
  <1>17. ASSUME NEW x \in D
         PROVE  /\ X[x] \in Entry /\ x <= n + (nl + np)
                /\ X[x].at <= n + (nl + np) /\ X[x].parent <= n + (nl + np)
                /\ X[x].parent \in D \cup {NullId}
                /\ X[x].parent # NullId => X[X[x].parent].at < X[x].at
    <2>1. CASE x \in DOMAIN R
      BY <2>1, <1>14, <1>1, <1>3, <1>5 DEF Entry, Id
    <2>2. CASE x \in P /\ x \notin DOMAIN R
      BY <2>2, <1>16, <1>2, <1>3, <1>5 DEF Id
    <2>3. CASE x \in New
      <3>1. PICK i \in 1..nl : x = n + i
        BY <2>3 DEF New
      <3>2. n + i <= n + (nl + np) /\ n + i \in Nat
        BY <1>5
      <3>3. X[x] \in Entry /\ X[x].at = n + i /\ X[x].parent <= n + i
        BY <1>15, <3>1
      <3>4. X[x].parent <= n + (nl + np)
        BY <3>2, <3>3, <1>5 DEF Entry
      <3> QED
        BY <1>15, <3>1, <3>2, <3>3, <3>4
    <2> QED
      BY <2>1, <2>2, <2>3 DEF D
  <1>18. X \in [D -> Entry]
    BY <1>7, <1>9, <1>17
  <1>19. ParentsEarlier(X) /\ ParentsPresent(X)
    BY <1>3, <1>8, <1>9, <1>17 DEF ParentsEarlier, ParentsPresent, NullId, Id
  <1>20. ASSUME NEW x \in D \ DOMAIN R
         PROVE  /\ X[x].at > n
                /\ x \in P => X[x].kind = E[x].kind
                /\ x \notin P => X[x].kind = "label"
    <2>1. CASE x \in P
      <3>1. PICK j \in 1..np : X[x] = [E[x] EXCEPT !.at = n + nl + j, !.parent = before(j)]
        BY <2>1, <1>11
      <3>2. PICK a \in Nat : a = n + nl + j
        BY <1>5
      <3>3. E[x] \in Entry /\ a > n
        BY <2>1, <3>2, <1>2, <1>3, <1>5
      <3>4. PICK p : X[x] = [E[x] EXCEPT !.at = a, !.parent = p]
        BY <3>1, <3>2
      <3>5. X[x].at = a /\ X[x].kind = E[x].kind
        BY <3>3, <3>4 DEF Entry
      <3> QED
        BY <2>1, <3>3, <3>5
    <2>2. CASE x \notin P
      <3>1. PICK i \in 1..nl : x = n + i
        BY <2>2 DEF D, New
      <3>2. X[x].at = x /\ X[x] = [kind |-> "label", parent |-> last(i - 1), at |-> x,
                                   target |-> label[i], value |-> "set"]
        BY <1>12, <3>1, Zenon
      <3> QED
        BY <2>2, <3>1, <3>2, <1>5
    <2> QED
      BY <2>1, <2>2
  <1>21. /\ D = Retained(E, id) \cup {n + i : i \in 1..nl} \cup P
         /\ DOMAIN R = Retained(E, id)
    BY <1>1 DEF D, New
  <1>22. LogOK(X, n + (nl + np)) /\ ParentsPresent(X)
    BY <1>8, <1>9, <1>17, <1>18, <1>19 DEF LogOK, IsLog
  <1>23. \A i \in 1..nl : \E t :
            X[n + i] = [kind |-> "label", parent |-> last(i - 1), at |-> n + i,
                        target |-> t, value |-> "set"]
    BY <1>12
  <1>24. \A x \in P \ DOMAIN R : \E j \in 1..np :
            /\ prune[j] = x
            /\ X[x] = [E[x] EXCEPT !.at = n + nl + j, !.parent = before(j)]
    BY <1>11
  <1>25. ExtractedShape(X, E, id, lbls, leg, n)
    BY <1>9, <1>10, <1>20, <1>21, <1>23, <1>24, Zenon
       DEF ExtractedShape, nl, np, L, P, R, last, before, prune
  <1> QED
    BY <1>5, <1>22, <1>25 DEF X, nl, np, L, P

-----------------------------------------------------------------------------
(* The inductive invariant.  MemoryOK types what the process holds; the    *)
(* log and the file stay within the ids given out, so a new id is new in   *)
(* both.  DurableOK relates the file to the log as long as no write has    *)
(* failed: it is the log once the session is flushed, absent before.       *)
(* CacheOK says that the log never shrinks under a cached result.          *)
MemoryOK ==
    /\ clock \in Nat /\ LogOK(entries, clock)
    /\ leaf \in DOMAIN entries \cup {NullId}
    /\ labels \subseteq Nat
    /\ DOMAIN legacy \subseteq Nat /\ legacy \in [DOMAIN legacy -> DOMAIN entries]
    /\ todo \in Seq(Change)
    /\ flushed \in BOOLEAN /\ up \in BOOLEAN /\ failed \in BOOLEAN
    /\ acked \subseteq Nat

DurableOK ==
    /\ ~Persist => up /\ ~flushed
    /\ ~failed =>
         /\ ParentsPresent(entries) /\ ParentsPresent(file.lines)
         /\ acked \subseteq DOMAIN file.lines
         /\ up /\ flushed => file = WholeFile(entries)
         /\ up /\ ~flushed => file = NoFile

CacheOK ==
    /\ cache.count \in Nat /\ cache.leaf \in Nat /\ cache.count <= EntryCount
    /\ cache.count = EntryCount =>
         cache.changes = ContextChanges(entries, SessionPath(entries, cache.leaf), legacy)

IInv == MemoryOK /\ FileOK(file, clock) /\ DurableOK /\ CacheOK

(* A cache that was dropped says nothing.                                  *)
LEMMA NoCacheOK ==
    ASSUME NEW E, NEW n \in Nat, LogOK(E, n)
    PROVE  /\ Cardinality(DOMAIN E) \in Nat
           /\ NoCache.count = 0 /\ NoCache.leaf = 0
  <1>1. IsFiniteSet(DOMAIN E)
    BY DEF LogOK, IsLog
  <1> QED
    BY <1>1, FS_CardinalityType DEF NoCache, NullId

(* With the cache dropped, CacheOK holds of any log.                       *)
LEMMA DroppedCache ==
    ASSUME MemoryOK', cache' = NoCache
    PROVE  CacheOK'
  <1>1. clock' \in Nat /\ LogOK(entries', clock')
    BY DEF MemoryOK
  <1>2. Cardinality(DOMAIN entries') \in Nat /\ NoCache.count = 0 /\ NoCache.leaf = 0
    BY <1>1, NoCacheOK
  <1> QED
    BY <1>2 DEF CacheOK, EntryCount

(* A file that was never written, or written to its end.                   *)
LEMMA FilesOK ==
    ASSUME NEW n \in Nat
    PROVE  /\ FileOK(NoFile, n) /\ NoFile.lines = EmptyLog
           /\ \A E : /\ WholeFile(E).lines = E
                     /\ LogOK(E, n) => FileOK(WholeFile(E), n)
  <1>1. FileOK(NoFile, n) /\ NoFile.lines = EmptyLog
    BY EmptyLogOK DEF FileOK, NoFile, File, FileStates, Tails
  <1>2. ASSUME NEW E, LogOK(E, n) PROVE FileOK(WholeFile(E), n)
    BY <1>2 DEF FileOK, WholeFile, File, FileStates, Tails
  <1>3. \A E : WholeFile(E).lines = E
    BY DEF WholeFile, File
  <1> QED
    BY <1>1, <1>2, <1>3

(* What is left in memory after a crash.                                   *)
LEMMA MemoryLostOK ==
    ASSUME MemoryLost, Persist, clock' \in Nat, failed' \in BOOLEAN, acked' \subseteq Nat,
           FileOK(file', clock'),
           ~failed' => ParentsPresent(file'.lines) /\ acked' \subseteq DOMAIN file'.lines
    PROVE  IInv'
  <1>1. LogOK(entries', clock') /\ ParentsPresent(entries') /\ DOMAIN entries' = {}
    BY EmptyLogOK DEF MemoryLost
  <1>2. legacy' \in [DOMAIN legacy' -> DOMAIN entries'] /\ DOMAIN legacy' = {}
    BY DEF MemoryLost, EmptyLog
  <1>3. MemoryOK'
    <2>1. leaf' \in DOMAIN entries' \cup {NullId} /\ labels' \subseteq Nat
      BY DEF MemoryLost
    <2>2. flushed' \in BOOLEAN /\ up' \in BOOLEAN
      BY DEF MemoryLost
    <2>3. todo' \in Seq(Change)
      BY DEF MemoryLost
    <2> QED
      BY <1>1, <1>2, <2>1, <2>2, <2>3 DEF MemoryOK
  <1>4. CacheOK'
    BY <1>3, DroppedCache DEF MemoryLost
  <1>5. DurableOK'
    BY <1>1 DEF DurableOK, MemoryLost
  <1> QED
    BY <1>3, <1>4, <1>5 DEF IInv

-----------------------------------------------------------------------------
(* _appendEntry with any outcome of the write preserves the invariant.     *)
LEMMA PushEntryOK ==
    ASSUME IInv, NEW e \in Entry, e.at = clock + 1, e.parent \in DOMAIN entries \cup {NullId},
           NEW newLabels \in SUBSET Nat, NEW rest \in Seq(Change), NEW o,
           PushEntry(e, newLabels, rest, o)
    PROVE  IInv'
  <1> DEFINE n == clock + 1
             E == With(entries, n, e)
             mode == PersistMode(E)
             exists == file.state # "absent"
  <1>1. clock \in Nat /\ LogOK(entries, clock) /\ FileOK(file, clock) /\ MemoryOK /\ DurableOK
    BY DEF IInv, MemoryOK
  <1>2. e.parent <= clock
    BY <1>1 DEF LogOK, IsLog, Id, NullId
  <1>3. /\ LogOK(E, n) /\ DOMAIN E = DOMAIN entries \cup {n} /\ n \notin DOMAIN entries
        /\ ParentsPresent(entries) => ParentsPresent(E)
    <2>1. n \notin DOMAIN entries
      BY <1>1 DEF LogOK, IsLog, Id
    <2> QED
      BY <1>1, <1>2, <2>1, AppendOK
  <1>4. clock' = n /\ n \in Nat /\ up
    BY <1>1 DEF PushEntry
  <1>5. FileOK(file, n)
    BY <1>1, <1>4, LogGrows DEF FileOK
  <1>6. /\ mode \in {"skip", "append", "create"}
        /\ mode = "append" <=> Persist /\ flushed
        /\ mode = "create" => Persist /\ ~flushed
        /\ mode = "skip" => ~(Persist /\ flushed)
    BY DEF PersistMode
  <1>7. /\ FileOK(AppendLine(file, n, e), n)
        /\ FileOK(AppendUnterminated(file, n, e), n)
        /\ FileOK(AppendFragment(file), n)
    <2>1. FileOK(AppendFragment(file), clock)
      BY <1>1, AppendFragmentOK
    <2>2. FileOK(AppendFragment(file), n)
      BY <1>1, <1>4, <2>1, LogGrows DEF FileOK
    <2> QED
      BY <1>1, <1>2, <2>2, AppendLineOK
  <1>8. \A f \in CutShort(E) : FileOK(f, n) /\ (ParentsPresent(E) => ParentsPresent(f.lines))
    BY <1>3, <1>4, CutShortOK
  <1>9. FileOK(WholeFile(E), n) /\ WholeFile(E).lines = E /\ NoFile.lines = EmptyLog
        /\ WholeFile(entries).lines = entries
    BY <1>3, <1>4, FilesOK
  <1>10. (mode = "append" /\ ~failed) =>
            /\ AppendLine(file, n, e) = WholeFile(E)
            /\ AppendFragment(file).lines = entries
            /\ AppendUnterminated(file, n, e).lines = E
    <2>1. SUFFICES ASSUME mode = "append", ~failed
                   PROVE  /\ AppendLine(file, n, e) = WholeFile(E)
                          /\ AppendFragment(file).lines = entries
                          /\ AppendUnterminated(file, n, e).lines = E
      OBVIOUS
    <2>2. file = WholeFile(entries)
      BY <2>1, <1>1, <1>4, <1>6 DEF DurableOK
    <2>3. file.state = "session" /\ file.tail = "none" /\ file.lines = entries
      BY <2>2 DEF WholeFile, File
    <2>4. /\ AppendLine(file, n, e) = WholeFile(E)
          /\ AppendUnterminated(file, n, e) = File("session", E, "whole")
      BY <1>1, <1>2, <2>3, AppendLineOK
    <2>5. AppendFragment(file) = File("session", entries, "partial")
      BY <1>1, <2>3, AppendFragmentOK
    <2> QED
      BY <2>4, <2>5 DEF File
  <1>11. (~failed /\ ~flushed) => file = NoFile /\ acked = {}
    BY <1>1, <1>4, <1>9, EmptyLogOK DEF DurableOK
  <1>12. ASSUME entries' = E, cache' = cache, legacy' = legacy PROVE CacheOK'
    <2>1. IsFiniteSet(DOMAIN entries) /\ Cardinality(DOMAIN entries) \in Nat
      BY <1>1, FS_CardinalityType DEF LogOK, IsLog
    <2>2. Cardinality(DOMAIN E) = Cardinality(DOMAIN entries) + 1
      BY <2>1, <1>3, FS_AddElement
    <2> QED
      BY <1>12, <2>1, <2>2 DEF IInv, CacheOK, EntryCount
  <1>13. ASSUME entries' = E, leaf' = n, legacy' = legacy, up' = up,
                labels' \subseteq Nat, todo' \in Seq(Change), flushed' \in BOOLEAN,
                failed' \in BOOLEAN, acked' \subseteq Nat
         PROVE  MemoryOK'
    <2>1. legacy' \in [DOMAIN legacy' -> DOMAIN entries'] /\ DOMAIN legacy' \subseteq Nat
      BY <1>1, <1>3, <1>13 DEF MemoryOK
    <2> QED
      BY <1>1, <1>3, <1>4, <1>13, <2>1 DEF MemoryOK
  <1> HIDE DEF E, mode, n, exists
  <1>14. CASE o = "ok"
    <2>1. /\ ~(mode = "create" /\ exists)
          /\ entries' = E /\ leaf' = n /\ labels' = newLabels /\ todo' = rest
          /\ file' = CASE mode = "skip"   -> file
                       [] mode = "append" -> AppendLine(file, n, e)
                       [] mode = "create" -> WholeFile(E)
          /\ flushed' = (flushed \/ mode = "create")
          /\ acked' = CASE mode = "skip"   -> acked
                        [] mode = "append" -> acked \cup {n}
                        [] mode = "create" -> DOMAIN E
          /\ UNCHANGED <<legacy, cache, up, failed>>
      BY <1>14 DEF PushEntry, E, mode, n, exists
    <2>2. FileOK(file', clock')
      BY <2>1, <1>4, <1>5, <1>6, <1>7, <1>9
    <2>3. flushed' \in BOOLEAN /\ failed' \in BOOLEAN
      BY <1>1, <2>1 DEF MemoryOK
    <2>4. acked' \subseteq Nat
      BY <1>1, <1>3, <1>4, <1>6, <2>1 DEF MemoryOK, LogOK, IsLog, Id
    <2>5. MemoryOK'
      BY <1>13, <2>1, <2>3, <2>4
    <2>6. DurableOK'
      <3>1. CASE mode = "skip"
        <4>1. file' = file /\ acked' = acked /\ flushed' = flushed
          BY <2>1, <3>1, <1>1 DEF MemoryOK
        <4>2. ~failed => ~flushed
          BY <1>1, <1>6, <3>1 DEF DurableOK
        <4>3. ~failed => /\ file' = NoFile /\ acked' = {} /\ ~flushed'
                         /\ ParentsPresent(file'.lines) /\ ParentsPresent(entries')
          BY <1>1, <1>3, <1>11, <2>1, <4>1, <4>2 DEF DurableOK
        <4>4. ~Persist => up' /\ ~flushed'
          BY <1>1, <2>1, <4>1 DEF DurableOK
        <4> QED
          BY <2>1, <4>3, <4>4 DEF DurableOK
      <3>2. CASE mode = "append"
        <4>1. file' = AppendLine(file, n, e) /\ acked' = acked \cup {n} /\ flushed'
          BY <2>1, <3>2, <1>6
        <4>2. ~failed => file' = WholeFile(E) /\ file.lines = entries
          BY <4>1, <3>2, <1>1, <1>4, <1>6, <1>9, <1>10 DEF DurableOK
        <4> QED
          BY <1>1, <1>3, <1>6, <1>9, <2>1, <3>2, <4>1, <4>2 DEF DurableOK
      <3>3. CASE mode = "create"
        <4>1. file' = WholeFile(E) /\ acked' = DOMAIN E /\ flushed'
          BY <2>1, <3>3
        <4> QED
          BY <1>1, <1>3, <1>6, <1>9, <2>1, <3>3, <4>1 DEF DurableOK
      <3> QED
        BY <1>6, <3>1, <3>2, <3>3
    <2> QED
      BY <1>12, <2>1, <2>2, <2>5, <2>6 DEF IInv
  <1>15. CASE o = "throw"
    <2>1. /\ mode # "skip"
          /\ entries' = E /\ leaf' = n /\ todo' = <<>>
          /\ file' \in CASE mode = "append" -> {file, AppendFragment(file)}
                         [] mode = "create" -> IF exists THEN {file} ELSE CutShort(E)
          /\ failed' = TRUE
          /\ UNCHANGED <<labels, legacy, cache, flushed, up, acked>>
      BY <1>15 DEF PushEntry, E, mode, n, exists
    <2>2. FileOK(file', clock')
      BY <2>1, <1>4, <1>5, <1>6, <1>7, <1>8
    <2>3. todo' \in Seq(Change)
      BY <2>1
    <2>4. MemoryOK'
      BY <1>1, <1>13, <2>1, <2>3 DEF MemoryOK
    <2>5. DurableOK'
      BY <1>1, <2>1 DEF DurableOK
    <2> QED
      BY <1>12, <2>1, <2>2, <2>4, <2>5 DEF IInv
  <1>16. CASE o = "crash"
    <2>1. /\ mode # "skip" /\ ~(mode = "create" /\ exists)
          /\ MemoryLost
          /\ file' \in CASE mode = "append" -> {AppendFragment(file), AppendUnterminated(file, n, e)}
                         [] mode = "create" -> CutShort(E)
          /\ UNCHANGED <<failed, acked>>
      BY <1>16 DEF PushEntry, E, mode, n, exists
    <2>2. FileOK(file', clock')
      BY <2>1, <1>4, <1>6, <1>7, <1>8
    <2>3. ASSUME ~failed' PROVE ParentsPresent(file'.lines) /\ acked' \subseteq DOMAIN file'.lines
      <3>1. ~failed
        BY <2>1, <2>3
      <3>2. CASE mode = "append"
        <4>1. file.lines = entries
          BY <3>1, <3>2, <1>1, <1>4, <1>6, <1>9 DEF DurableOK
        <4>2. file'.lines \in {entries, E}
          BY <2>1, <3>1, <3>2, <1>10
        <4> QED
          BY <2>1, <3>1, <4>1, <4>2, <1>1, <1>3 DEF DurableOK
      <3>3. CASE mode = "create"
        BY <2>1, <3>1, <3>3, <1>1, <1>3, <1>6, <1>8, <1>11 DEF DurableOK
      <3> QED
        BY <2>1, <1>6, <3>2, <3>3
    <2>4. Persist /\ clock' \in Nat /\ failed' \in BOOLEAN /\ acked' \subseteq Nat
      BY <1>1, <1>4, <1>6, <2>1 DEF MemoryOK
    <2> QED
      BY <2>1, <2>2, <2>3, <2>4, MemoryLostOK
  <1>17. o \in {"ok", "throw", "crash"}
    BY DEF PushEntry
  <1> QED
    BY <1>14, <1>15, <1>16, <1>17

-----------------------------------------------------------------------------
(* The entry of every append has its type and is a child of the leaf or of *)
(* an entry of the log.                                                    *)
LEMMA NewEntryOK ==
    ASSUME IInv, NEW kind \in EntryKinds, NEW parent \in DOMAIN entries \cup {NullId},
           NEW target \in Nat, NEW value \in EntryValues
    PROVE  /\ NewEntry(kind, parent, target, value) \in Entry
           /\ NewEntry(kind, parent, target, value).at = clock + 1
           /\ NewEntry(kind, parent, target, value).parent \in DOMAIN entries \cup {NullId}
  <1>1. clock + 1 \in Nat /\ parent \in Nat
    BY DEF IInv, MemoryOK, LogOK, IsLog, Id, NullId
  <1> QED
    BY <1>1 DEF NewEntry, Entry

(* Appending such an entry, whatever becomes of the write, is safe.        *)
LEMMA AppendedOK ==
    ASSUME IInv, NEW kind \in EntryKinds, NEW parent \in DOMAIN entries \cup {NullId},
           NEW target \in Nat, NEW value \in EntryValues,
           NEW newLabels \in SUBSET Nat, NEW rest \in Seq(Change), NEW o,
           PushEntry(NewEntry(kind, parent, target, value), newLabels, rest, o)
    PROVE  IInv'
  BY NewEntryOK, PushEntryOK

(* What a compaction keeps from is an entry of the log.                    *)
LEMMA CutsInLog ==
    ASSUME NEW E, NEW n \in Nat, LogOK(E, n), NEW id, NEW leg
    PROVE  CompactionCuts(E, id, leg) \subseteq DOMAIN E
  <1>1. ContextEntries(E, SessionPath(E, id)) \subseteq DOMAIN E
    BY PathInLog, ContextInLog
  <1>2. DOMAIN Projection(E, id, leg) = ContextEntries(E, SessionPath(E, id))
    BY DEF Projection
  <1>3. CompactionCuts(E, id, leg) \subseteq DOMAIN Projection(E, id, leg)
    BY DEF CompactionCuts
  <1> QED
    BY <1>1, <1>2, <1>3

(* Every append method of SessionManager preserves the invariant.          *)
LEMMA AppendsOK ==
    ASSUME IInv, NEW o,
           \/ \E k \in Kinds : AppendEntry(k, o)
           \/ \E f \in CompactionCuts(entries, leaf, legacy) \cup {NullId} : AppendCompaction(f, o)
           \/ \E t \in DOMAIN entries, v \in {"set", "cleared"} : AppendLabelChange(t, v, o)
           \/ \E t \in DOMAIN entries, v \in {"omit", "replace"} : AppendContextEdit(t, v, o)
           \/ \E t \in DOMAIN entries : AppendContextEditCancel(t, o)
           \/ AppendNextContextChange(o)
           \/ \E id \in NavigationTargets(entries) \cup {NullId} : BranchWithSummary(id, o)
    PROVE  IInv'
  <1>1. /\ leaf \in DOMAIN entries \cup {NullId} /\ labels \in SUBSET Nat
        /\ DOMAIN entries \subseteq Nat /\ clock \in Nat /\ LogOK(entries, clock)
        /\ todo \in Seq(Change)
    BY DEF IInv, MemoryOK, LogOK, IsLog, Id
  <1>2. <<>> \in Seq(Change) /\ NullId \in Nat
    BY DEF NullId
  <1>3. /\ {"none", "checkpoint", "set", "cleared", "omit", "replace"} \subseteq EntryValues
        /\ {"compaction", "label", "context_edit", "context_edit_cancel", "branch_summary"}
              \subseteq EntryKinds
        /\ EditKinds \subseteq EntryKinds /\ Kinds \subseteq EntryKinds
    BY SessionAssumption
       DEF EntryValues, EditValues, EntryKinds, EditKinds, SettingKinds, MessageKinds
  <1>4. ASSUME NEW k \in Kinds, AppendEntry(k, o) PROVE IInv'
    <2>1. PushEntry(NewEntry(k, leaf, NullId, "none"), labels, <<>>, o)
      BY <1>4 DEF AppendEntry
    <2> QED
      BY <1>1, <1>2, <1>3, <2>1, AppendedOK
  <1>5. ASSUME NEW f \in CompactionCuts(entries, leaf, legacy) \cup {NullId}, AppendCompaction(f, o)
        PROVE  IInv'
    <2>1. f \in Nat
      BY <1>1, <1>2, CutsInLog
    <2>2. PICK t \in Nat, v \in {"checkpoint", "none"} :
             PushEntry(NewEntry("compaction", leaf, t, v), labels, <<>>, o)
      BY <1>1, <1>5, <2>1 DEF AppendCompaction
    <2> QED
      BY <1>1, <1>2, <1>3, <2>2, AppendedOK
  <1>6. ASSUME NEW t \in DOMAIN entries, NEW v \in {"set", "cleared"}, AppendLabelChange(t, v, o)
        PROVE  IInv'
    <2>1. PICK L \in SUBSET Nat : PushEntry(NewEntry("label", leaf, t, v), L, <<>>, o)
      BY <1>1, <1>6 DEF AppendLabelChange
    <2> QED
      BY <1>1, <1>2, <1>3, <2>1, AppendedOK
  <1>7. ASSUME NEW t \in DOMAIN entries, NEW v \in {"omit", "replace"}, AppendContextEdit(t, v, o)
        PROVE  IInv'
    <2>1. PushEntry(NewEntry("context_edit", leaf, t, v), labels, <<>>, o)
      BY <1>7 DEF AppendContextEdit
    <2> QED
      BY <1>1, <1>2, <1>3, <2>1, AppendedOK
  <1>8. ASSUME NEW t \in DOMAIN entries, AppendContextEditCancel(t, o) PROVE IInv'
    <2>1. PushEntry(NewEntry("context_edit_cancel", leaf, t, "none"), labels, <<>>, o)
      BY <1>8 DEF AppendContextEditCancel
    <2> QED
      BY <1>1, <1>2, <1>3, <2>1, AppendedOK
  <1>9. ASSUME AppendNextContextChange(o) PROVE IInv'
    <2>1. /\ todo # <<>>
          /\ PushEntry(NewEntry(Head(todo).kind, leaf, Head(todo).target, Head(todo).value),
                       labels, Tail(todo), o)
      BY <1>9 DEF AppendNextContextChange
    <2>2. Head(todo) \in Change /\ Tail(todo) \in Seq(Change)
      BY <1>1, <2>1
    <2>3. /\ Head(todo).kind \in EntryKinds /\ Head(todo).target \in Nat
          /\ Head(todo).value \in EntryValues
      BY <1>3, <2>2 DEF Change
    <2> QED
      BY <1>1, <2>1, <2>2, <2>3, AppendedOK
  <1>10. ASSUME NEW id, BranchWithSummary(id, o) PROVE IInv'
    <2>1. /\ id \in DOMAIN entries \cup {NullId}
          /\ PushEntry(NewEntry("branch_summary", id, NullId, "none"), labels, <<>>, o)
      BY <1>10 DEF BranchWithSummary
    <2> QED
      BY <1>1, <1>2, <1>3, <2>1, AppendedOK
  <1> QED
    BY <1>4, <1>5, <1>6, <1>7, <1>8, <1>9, <1>10

-----------------------------------------------------------------------------
(* A validated batch of context changes is well formed.                    *)
LEMMA BatchOK ==
    ASSUME IInv, NEW s \in {"included", "excluded", "summarized"},
           NEW b \in HumanBlocks(entries, leaf) \cup AgentBlocks(entries, leaf, legacy),
           BeginContextChanges(BlockChanges(entries, b, s))
    PROVE  IInv'
  <1> DEFINE changes == BlockChanges(entries, b, s)
             path == SessionPath(entries, leaf)
  <1>1. clock \in Nat /\ LogOK(entries, clock) /\ DOMAIN entries \subseteq Nat
    BY DEF IInv, MemoryOK, LogOK, IsLog, Id
  <1>2. Cardinality(b) \in Nat
    BY <1>1, CuratableBlocks, FS_CardinalityType
  <1>3. PICK m \in Nat : m = Cardinality(b)
    BY <1>2
  <1>4. /\ DOMAIN changes = 1..m
        /\ \A i \in 1..m : \E t, v : /\ v \in {"none", "omit", "summary", "omitSummary"}
                                     /\ changes[i] = [kind |-> IF s = "included" THEN "context_edit_cancel"
                                                               ELSE "context_edit",
                                                      target |-> t, value |-> v]
        /\ changes = [i \in 1..m |-> changes[i]]
    BY <1>3 DEF BlockChanges
  <1> HIDE DEF changes
  <1>5. \A i \in 1..m : changes[i].target \in Nat
    <2>1. \A i \in DOMAIN changes :
             IF changes[i].kind = "context_edit"
             THEN ValidContextEdit(entries, path, changes[i].target, changes[i].value)
             ELSE EditableTarget(entries, path, changes[i].target)
      BY DEF BeginContextChanges, changes
    <2>2. path \subseteq Nat
      BY <1>1, PathInLog
    <2> QED
      BY <1>4, <2>1, <2>2 DEF ValidContextEdit, EditableTarget
  <1>6. \A i \in 1..m : changes[i] \in Change
    <2>1. {"none", "omit", "summary", "omitSummary"} \subseteq EntryValues
      BY DEF EntryValues, EditValues
    <2>2. {"context_edit_cancel", "context_edit"} \subseteq EditKinds
      BY DEF EditKinds
    <2> QED
      BY <1>4, <1>5, <2>1, <2>2 DEF Change
  <1>7. changes \in Seq(Change)
    BY <1>3, <1>4, <1>6
  <1>8. /\ todo' = changes
        /\ UNCHANGED <<entries, leaf, labels, legacy, cache, flushed, file, up, clock, failed, acked>>
    BY DEF BeginContextChanges, changes
  <1> QED
    BY <1>7, <1>8 DEF IInv, MemoryOK, DurableOK, CacheOK, EntryCount

-----------------------------------------------------------------------------
(* Moving the leaf and reading through the cache.                          *)
LEMMA MoveLeafOK ==
    ASSUME IInv, NEW id \in DOMAIN entries \cup {NullId}, MoveLeaf(id)
    PROVE  IInv'
  BY DEF IInv, MoveLeaf, MemoryOK, DurableOK, CacheOK, EntryCount

(* A read that misses stores what the log and the leaf determine.          *)
LEMMA ReadOK ==
    ASSUME IInv, ReadContextChanges
    PROVE  IInv'
  <1>1. UNCHANGED <<entries, leaf, labels, legacy, todo, flushed, file, up, clock, failed, acked>>
    BY DEF ReadContextChanges
  <1>2. /\ cache'.count = EntryCount /\ cache'.leaf = leaf
        /\ cache'.changes = ContextChanges(entries, SessionPath(entries, leaf), legacy)
    BY DEF ReadContextChanges
  <1>3. EntryCount \in Nat /\ leaf \in Nat
    <2>1. IsFiniteSet(DOMAIN entries) /\ leaf \in Nat
      BY DEF IInv, MemoryOK, LogOK, IsLog, Id, NullId
    <2> QED
      BY <2>1, FS_CardinalityType DEF EntryCount
  <1>4. CacheOK'
    BY <1>1, <1>2, <1>3 DEF CacheOK, EntryCount
  <1> QED
    BY <1>1, <1>4 DEF IInv, MemoryOK, DurableOK

(* A session whose log, leaf and indexes were built anew from E.           *)
LEMMA RebuiltOK ==
    ASSUME NEW E, clock' \in Nat, LogOK(E, clock'), FileOK(file', clock'),
           entries' = E, leaf' = LastEntry(E), labels' = LabelIndex(E),
           legacy' = LegacyPrunes(E), cache' = NoCache,
           todo' \in Seq(Change), flushed' \in BOOLEAN, up' = TRUE, failed' \in BOOLEAN,
           acked' \subseteq Nat, DurableOK'
    PROVE  IInv'
  <1>1. LastEntry(E) \in DOMAIN E \cup {NullId}
    BY LastEntryOK
  <1>2. /\ LabelIndex(E) \subseteq Nat
        /\ DOMAIN LegacyPrunes(E) \subseteq Nat
        /\ LegacyPrunes(E) \in [DOMAIN LegacyPrunes(E) -> DOMAIN E]
    BY IndexesOK
  <1>3. MemoryOK'
    BY <1>1, <1>2 DEF MemoryOK
  <1> QED
    BY <1>3, DroppedCache DEF IInv

(* createBranchedSession, with any outcome, preserves the invariant.       *)
LEMMA CreateBranchedSessionOK ==
    ASSUME IInv, NEW id, NEW o, CreateBranchedSession(id, o)
    PROVE  IInv'
  <1> DEFINE E == ExtractedLog(entries, id, labels, legacy, clock)
             nl == Cardinality(CopiedLabels(entries, id, labels))
             np == Cardinality(CopiedPrunes(entries, id, legacy))
             written == Persist /\ HasAssistant(E)
  <1>1. /\ clock \in Nat /\ LogOK(entries, clock) /\ labels \in SUBSET Nat
        /\ legacy \in [DOMAIN legacy -> DOMAIN entries]
    BY DEF IInv, MemoryOK
  <1>2. /\ nl \in Nat /\ np \in Nat
        /\ LogOK(E, clock + (nl + np)) /\ ParentsPresent(E)
    BY <1>1, ExtractedLogOK
  <1>3. clock' = clock + (nl + np)
    BY DEF CreateBranchedSession
  <1>4. clock' \in Nat /\ LogOK(E, clock') /\ DOMAIN E \subseteq Nat
    BY <1>1, <1>2, <1>3 DEF LogOK, IsLog, Id
  <1>5. /\ FileOK(NoFile, clock') /\ FileOK(WholeFile(E), clock')
        /\ WholeFile(E).lines = E /\ NoFile.lines = EmptyLog
    BY <1>4, FilesOK
  <1>6. \A f \in CutShort(E) : FileOK(f, clock') /\ ParentsPresent(f.lines)
    BY <1>2, <1>4, CutShortOK
  <1>7. ParentsPresent(EmptyLog)
    BY <1>1, EmptyLogOK
  <1>8. todo = <<>> /\ up
    BY DEF CreateBranchedSession, Idle
  <1>9. written \in BOOLEAN /\ (written => Persist)
    OBVIOUS
  <1> HIDE DEF E, written
  <1>10. CASE o \in {"ok", "throw"}
    <2>1. /\ o = "throw" => written
          /\ entries' = E /\ leaf' = LastEntry(E)
          /\ labels' = LabelIndex(E) /\ legacy' = LegacyPrunes(E)
          /\ cache' = NoCache
          /\ flushed' = IF o = "ok" THEN written ELSE flushed
          /\ file' \in IF ~written THEN {NoFile}
                       ELSE IF o = "ok" THEN {WholeFile(E)} ELSE CutShort(E)
          /\ acked' = IF o = "ok" /\ written THEN DOMAIN E ELSE {}
          /\ failed' = (failed \/ o = "throw")
          /\ UNCHANGED <<todo, up>>
      BY <1>10 DEF CreateBranchedSession, E, written
    <2>2. FileOK(file', clock')
      BY <1>5, <1>6, <2>1
    <2>3. flushed' \in BOOLEAN /\ failed' \in BOOLEAN
      BY <1>9, <2>1 DEF IInv, MemoryOK
    <2>4. todo' \in Seq(Change) /\ up' = TRUE /\ acked' \subseteq Nat
      <3>1. up = TRUE
        BY <1>8 DEF IInv, MemoryOK
      <3>2. todo' = <<>>
        BY <1>8, <2>1
      <3>3. acked' \subseteq Nat
        BY <1>4, <2>1
      <3> QED
        BY <2>1, <3>1, <3>2, <3>3
    <2>5. DurableOK'
      <3>1. ~Persist => up' /\ ~flushed'
        <4>1. ~Persist => ~flushed
          BY DEF IInv, DurableOK
        <4> QED
          BY <1>9, <2>1, <2>4, <4>1
      <3>2. ASSUME ~failed'
            PROVE  /\ ParentsPresent(entries') /\ ParentsPresent(file'.lines)
                   /\ acked' \subseteq DOMAIN file'.lines
                   /\ up' /\ flushed' => file' = WholeFile(entries')
                   /\ up' /\ ~flushed' => file' = NoFile
        <4>1. o = "ok" /\ (flushed' <=> written)
          BY <1>10, <2>1, <3>2
        <4>2. /\ written => file' = WholeFile(E) /\ acked' = DOMAIN E
              /\ ~written => file' = NoFile /\ acked' = {}
          BY <2>1, <4>1
        <4> QED
          BY <1>2, <1>5, <1>7, <2>1, <4>1, <4>2
      <3> QED
        BY <3>1, <3>2 DEF DurableOK
    <2> QED
      BY <1>4, <2>1, <2>2, <2>3, <2>4, <2>5, RebuiltOK
  <1>11. CASE o = "crash"
    <2>1. /\ written /\ MemoryLost
          /\ file' \in CutShort(E) /\ acked' = {}
          /\ UNCHANGED failed
      BY <1>11 DEF CreateBranchedSession, E, written
    <2>2. FileOK(file', clock') /\ ParentsPresent(file'.lines)
      BY <1>6, <2>1
    <2>3. Persist /\ failed' \in BOOLEAN /\ acked' \subseteq Nat
      BY <1>9, <2>1 DEF IInv, MemoryOK
    <2> QED
      BY <1>4, <2>1, <2>2, <2>3, MemoryLostOK
  <1> QED
    BY <1>10, <1>11 DEF CreateBranchedSession

(* newSession preserves the invariant.                                     *)
LEMMA NewSessionOK ==
    ASSUME IInv, NewSession
    PROVE  IInv'
  <1>1. clock' \in Nat /\ failed' \in BOOLEAN /\ todo' \in Seq(Change)
    BY DEF IInv, MemoryOK, NewSession
  <1>2. LogOK(EmptyLog, clock') /\ ParentsPresent(EmptyLog) /\ DOMAIN EmptyLog = {}
    BY <1>1, EmptyLogOK
  <1>3. FileOK(NoFile, clock') /\ NoFile.lines = EmptyLog
    BY <1>1, FilesOK
  <1>4. legacy' \in [DOMAIN legacy' -> DOMAIN entries'] /\ DOMAIN legacy' = {}
    BY DEF NewSession, EmptyLog
  <1>5. MemoryOK'
    <2>1. flushed' \in BOOLEAN /\ up' \in BOOLEAN
      BY DEF NewSession
    <2>2. entries' = EmptyLog /\ leaf' = NullId /\ labels' = {} /\ acked' = {}
      BY DEF NewSession
    <2> QED
      BY <1>1, <1>2, <1>4, <2>1, <2>2 DEF MemoryOK
  <1>6. DurableOK'
    BY <1>2, <1>3 DEF DurableOK, NewSession
  <1> QED
    BY <1>3, <1>5, <1>6, DroppedCache DEF IInv, NewSession

-----------------------------------------------------------------------------
(* Opening a session after a crash, and forking one.                       *)
LEMMA OpenOK ==
    ASSUME IInv, Open
    PROVE  IInv'
  <1>1. /\ clock' = clock /\ clock \in Nat /\ todo' \in Seq(Change) /\ failed' = failed
        /\ failed' \in BOOLEAN /\ acked' = acked /\ acked' \subseteq Nat /\ up' = TRUE /\ ~up
        /\ FileOK(file, clock) /\ Persist
    BY DEF IInv, MemoryOK, DurableOK, Open
  <1>2. LogOK(EmptyLog, clock') /\ ParentsPresent(EmptyLog) /\ DOMAIN EmptyLog = {}
    BY <1>1, EmptyLogOK
  <1>3. /\ FileOK(WholeFile(EmptyLog), clock') /\ WholeFile(EmptyLog).lines = EmptyLog
        /\ NoFile.lines = EmptyLog
        /\ FileOK(WholeFile(file.lines), clock') /\ WholeFile(file.lines).lines = file.lines
    BY <1>1, <1>2, FilesOK DEF FileOK
  <1>4. ~failed => ParentsPresent(file.lines) /\ acked \subseteq DOMAIN file.lines
    BY DEF IInv, DurableOK
  <1>5. CASE file.state = "absent"
    <2>1. Load(EmptyLog) /\ flushed' = FALSE /\ file' = file
      BY <1>5 DEF Open
    <2>2. file = NoFile
      BY <1>1, <1>5 DEF FileOK, NoFile
    <2>3. DurableOK'
      BY <1>1, <1>2, <1>3, <1>4, <2>1, <2>2 DEF DurableOK, Load
    <2> QED
      BY <1>1, <1>2, <2>1, <2>3, RebuiltOK DEF Load
  <1>6. CASE file.state = "empty"
    <2>1. Load(EmptyLog) /\ flushed' = TRUE /\ file' = WholeFile(EmptyLog)
      BY <1>6 DEF Open
    <2>2. file.lines = EmptyLog
      BY <1>1, <1>6 DEF FileOK
    <2>3. DurableOK'
      BY <1>1, <1>2, <1>3, <1>4, <2>1, <2>2 DEF DurableOK, Load
    <2> QED
      BY <1>1, <1>2, <1>3, <2>1, <2>3, RebuiltOK DEF Load
  <1>7. CASE file.state = "session"
    <2>1. Load(file.lines) /\ flushed' = TRUE /\ file' = Repaired(file)
      BY <1>7 DEF Open
    <2>2. file' = WholeFile(file.lines)
      BY <1>1, <1>7, <2>1 DEF Repaired, FileOK, WholeFile, File
    <2>3. DurableOK'
      BY <1>1, <1>3, <1>4, <2>1, <2>2 DEF DurableOK, Load
    <2>4. LogOK(file.lines, clock')
      BY <1>1 DEF FileOK
    <2> QED
      BY <1>1, <1>3, <2>1, <2>2, <2>3, <2>4, RebuiltOK DEF Load
  <1> QED
    BY <1>5, <1>6, <1>7 DEF Open

(* forkFrom, complete or cut short, preserves the invariant.               *)
LEMMA ForkFromOK ==
    ASSUME IInv, NEW o, ForkFrom(o)
    PROVE  IInv'
  <1>1. /\ clock' = clock /\ clock \in Nat /\ todo' = todo /\ todo' \in Seq(Change)
        /\ failed' = failed /\ failed' \in BOOLEAN /\ ~up /\ FileOK(file, clock) /\ Persist
    BY DEF IInv, MemoryOK, DurableOK, ForkFrom
  <1>2. LogOK(file.lines, clock') /\ DOMAIN file.lines \subseteq Nat
    BY <1>1 DEF FileOK, LogOK, IsLog, Id
  <1>3. FileOK(WholeFile(file.lines), clock') /\ WholeFile(file.lines).lines = file.lines
    BY <1>1, <1>2, FilesOK
  <1>4. ~failed => ParentsPresent(file.lines)
    BY DEF IInv, DurableOK
  <1>5. CASE o = "ok"
    <2>1. /\ up' = TRUE /\ Load(file.lines) /\ flushed' = TRUE
          /\ file' = WholeFile(file.lines) /\ acked' = DOMAIN file.lines
      BY <1>5 DEF ForkFrom
    <2>2. DurableOK'
      BY <1>1, <1>3, <1>4, <2>1 DEF DurableOK, Load
    <2> QED
      BY <1>1, <1>2, <1>3, <2>1, <2>2, RebuiltOK DEF Load
  <1>6. CASE o \in {"throw", "crash"}
    <2>1. /\ file' \in CutShort(file.lines) /\ acked' = {}
          /\ UNCHANGED <<up, entries, leaf, labels, legacy, cache, flushed, todo, clock, failed>>
      BY <1>6 DEF ForkFrom
    <2>2. FileOK(file', clock') /\ (~failed => ParentsPresent(file'.lines))
      BY <1>2, <1>1, <1>4, <2>1, CutShortOK
    <2>3. DurableOK'
      BY <1>1, <2>1, <2>2 DEF IInv, DurableOK
    <2> QED
      BY <2>1, <2>2, <2>3 DEF IInv, MemoryOK, CacheOK, EntryCount
  <1> QED
    BY <1>5, <1>6 DEF ForkFrom

(* The process may end between two operations or die at any moment.        *)
LEMMA CrashOK ==
    ASSUME IInv, Exit \/ Crash
    PROVE  IInv'
  <1>1. MemoryLost /\ Persist /\ UNCHANGED <<file, clock, failed, acked>>
    BY DEF Exit, Crash
  <1>2. /\ clock' \in Nat /\ failed' \in BOOLEAN /\ acked' \subseteq Nat
        /\ FileOK(file', clock')
        /\ ~failed' => ParentsPresent(file'.lines) /\ acked' \subseteq DOMAIN file'.lines
    BY <1>1 DEF IInv, MemoryOK, DurableOK
  <1> QED
    BY <1>1, <1>2, MemoryLostOK

-----------------------------------------------------------------------------
(* A finite set of numbers is bounded: a smallest unbounded subset would   *)
(* stay unbounded without one of its elements.                             *)
LEMMA FiniteBounded ==
    ASSUME NEW S \in SUBSET Nat, IsFiniteSet(S)
    PROVE  \E m \in Nat : \A x \in S : x <= m
  <1> DEFINE Bounded(A) == \E m \in Nat : \A x \in A : x <= m
             T == {k \in Nat : \E A \in SUBSET S : Cardinality(A) = k /\ ~Bounded(A)}
  <1>1. SUFFICES ASSUME ~Bounded(S) PROVE FALSE
    OBVIOUS
  <1>2. Cardinality(S) \in T
    BY <1>1, FS_CardinalityType
  <1>3. T \in SUBSET Nat /\ T # {}
    BY <1>2
  <1> HIDE DEF T
  <1>4. PICK k \in T : \A j \in T : k <= j
    BY <1>3, LeastBound
  <1>5. PICK A \in SUBSET S : Cardinality(A) = k /\ ~Bounded(A)
    BY <1>4 DEF T
  <1>6. IsFiniteSet(A)
    BY FS_Subset
  <1>7. A # {}
    <2>1. A = {} => Bounded(A)
      BY 0 \in Nat
    <2> QED
      BY <2>1, <1>5
  <1>8. PICK x \in A : TRUE
    BY <1>7
  <1> DEFINE B == A \ {x}
  <1>9. IsFiniteSet(B) /\ Cardinality(B) = k - 1
    BY <1>5, <1>6, FS_RemoveElement
  <1>10. Cardinality(B) \in Nat /\ B \in SUBSET S
    BY <1>9, FS_CardinalityType
  <1>11. Bounded(B)
    <2>1. ~Bounded(B) => Cardinality(B) \in T
      BY <1>10 DEF T
    <2>2. k \in Nat
      BY <1>4 DEF T
    <2> QED
      BY <2>1, <2>2, <1>4, <1>9
  <1>12. PICK m \in Nat : \A y \in B : y <= m
    BY <1>11
  <1>13. x \in Nat /\ m + x \in Nat /\ \A y \in A : y <= m + x
    BY <1>12
  <1> QED
    BY <1>13, <1>5

(* Every session to start from satisfies the invariant.                    *)
LEMMA InitOK == Init => IInv
  <1> SUFFICES ASSUME Init PROVE IInv
    OBVIOUS
  <1> DEFINE E == entries
  <1>1. /\ IsLog(E) /\ ParentsEarlier(E) /\ ParentsPresent(E)
        /\ \A x \in DOMAIN E : E[x].at = x
    BY SessionAssumption DEF Init
  <1>2. DOMAIN E \subseteq Nat \ {0} /\ \A x \in DOMAIN E : E[x].parent \in DOMAIN E \cup {NullId}
    BY <1>1 DEF IsLog, Id, ParentsPresent
  (* The ids of a finite log are bounded, so it is a log of some length. *)
  <1>3. PICK m \in Nat : \A x \in DOMAIN E : x <= m
    BY <1>1, <1>2, FiniteBounded DEF IsLog
  <1>4. LogOK(E, m)
    BY <1>1, <1>2, <1>3 DEF LogOK, NullId
  <1>5. /\ LastEntry(E) \in DOMAIN E \cup {NullId}
        /\ LastEntry(E) = NullId <=> DOMAIN E = {}
        /\ \A x \in DOMAIN E : E[x].at <= E[LastEntry(E)].at
    BY <1>4, LastEntryOK
  <1>6. clock \in Nat /\ \A x \in DOMAIN E : x <= clock
    <2>1. CASE DOMAIN E = {}
      BY <2>1 DEF Init
    <2>2. CASE DOMAIN E # {}
      BY <2>2, <1>1, <1>2, <1>5 DEF Init
    <2> QED
      BY <2>1, <2>2
  <1>7. LogOK(entries, clock)
    BY <1>1, <1>2, <1>6 DEF LogOK, NullId
  <1>8. /\ LabelIndex(E) \subseteq Nat
        /\ DOMAIN LegacyPrunes(E) \subseteq Nat
        /\ LegacyPrunes(E) \in [DOMAIN LegacyPrunes(E) -> DOMAIN E]
    BY <1>6, <1>7, IndexesOK
  <1>9. flushed \in BOOLEAN /\ up \in BOOLEAN /\ failed \in BOOLEAN /\ todo \in Seq(Change)
    <2>1. up \in BOOLEAN /\ failed \in BOOLEAN
      BY DEF Init
    <2>2. flushed \in BOOLEAN
      BY DEF Init
    <2>3. todo \in Seq(Change)
      BY DEF Init
    <2> QED
      BY <2>1, <2>2, <2>3
  <1>10. acked \subseteq Nat
    BY <1>2 DEF Init
  <1>11. MemoryOK
    <2>1. leaf = LastEntry(E) /\ labels = LabelIndex(E) /\ legacy = LegacyPrunes(E)
      BY DEF Init
    <2> QED
      BY <1>5, <1>6, <1>7, <1>8, <1>9, <1>10, <2>1 DEF MemoryOK
  <1>12. /\ FileOK(NoFile, clock) /\ NoFile.lines = EmptyLog
         /\ FileOK(WholeFile(entries), clock) /\ WholeFile(entries).lines = entries
    BY <1>6, <1>7, FilesOK
  <1>13. FileOK(file, clock)
    BY <1>12 DEF Init
  <1>14. DurableOK
    <2>1. ParentsPresent(EmptyLog)
      BY <1>6, EmptyLogOK
    <2>2. (~Persist => up /\ ~flushed) /\ ParentsPresent(entries)
      BY <1>1 DEF Init
    <2>3. /\ flushed => file = WholeFile(entries) /\ acked = DOMAIN entries
          /\ ~flushed => file = NoFile /\ acked = {}
      BY DEF Init
    <2> QED
      BY <1>12, <2>1, <2>2, <2>3 DEF DurableOK
  <1>15. CacheOK
    <2>1. Cardinality(DOMAIN entries) \in Nat /\ NoCache.count = 0 /\ NoCache.leaf = 0
      BY <1>6, <1>7, NoCacheOK
    <2>2. cache = NoCache
      BY DEF Init
    <2> QED
      BY <2>1, <2>2 DEF CacheOK, EntryCount
  <1> QED
    BY <1>11, <1>13, <1>14, <1>15 DEF IInv

(* Every step of the session manager preserves the inductive invariant.    *)
LEMMA NextOK == IInv /\ [Next]_vars => IInv'
  <1> SUFFICES ASSUME IInv, [Next]_vars PROVE IInv'
    OBVIOUS
  <1>1. leaf \in DOMAIN entries \cup {NullId}
    BY DEF IInv, MemoryOK
  <1>2. CASE UNCHANGED vars
    BY <1>2 DEF vars, IInv, MemoryOK, DurableOK, CacheOK, EntryCount
  <1>3. ASSUME NEW o \in Outcomes,
               \/ \E k \in Kinds : AppendEntry(k, o)
               \/ \E f \in CompactionCuts(entries, leaf, legacy) \cup {NullId} : AppendCompaction(f, o)
               \/ \E t \in DOMAIN entries, v \in {"set", "cleared"} : AppendLabelChange(t, v, o)
               \/ \E t \in DOMAIN entries, v \in {"omit", "replace"} : AppendContextEdit(t, v, o)
               \/ \E t \in DOMAIN entries : AppendContextEditCancel(t, o)
               \/ AppendNextContextChange(o)
               \/ \E id \in NavigationTargets(entries) \cup {NullId} : BranchWithSummary(id, o)
        PROVE  IInv'
    BY <1>3, AppendsOK
  <1>4. ASSUME NEW o \in Outcomes, \E id \in NavigationTargets(entries) : CreateBranchedSession(id, o)
        PROVE  IInv'
    BY <1>4, CreateBranchedSessionOK
  <1>5. ASSUME NEW o \in Outcomes, ForkFrom(o) PROVE IInv'
    BY <1>5, ForkFromOK
  <1>6. ASSUME NEW b \in AgentBlocks(entries, leaf, legacy), NEW s \in {"excluded", "summarized"},
               AgentCurates(b, s)
        PROVE  IInv'
    BY <1>6, BatchOK DEF AgentCurates
  <1>7. ASSUME NEW b \in HumanBlocks(entries, leaf), NEW s \in {"included", "excluded"},
               UserCurates(b, s)
        PROVE  IInv'
    BY <1>7, BatchOK DEF UserCurates
  <1>8. CASE ResetLeaf \/ \E id \in NavigationTargets(entries) : Branch(id)
    BY <1>8, MoveLeafOK DEF ResetLeaf, Branch
  <1>9. CASE ReadContextChanges
    BY <1>9, ReadOK
  <1>10. CASE NewSession
    BY <1>10, NewSessionOK
  <1>11. CASE Open
    BY <1>11, OpenOK
  <1>12. CASE Exit \/ Crash
    BY <1>12, CrashOK
  <1>13. CASE Next
    BY <1>3, <1>4, <1>5, <1>6, <1>7, <1>8, <1>9, <1>10, <1>11, <1>12, <1>13 DEF Next
  <1> QED
    BY <1>2, <1>13

(* The invariant holds in every reachable state.                           *)
LEMMA Inductive == Spec => []IInv
  BY InitOK, NextOK, PTL DEF Spec

-----------------------------------------------------------------------------
(* The last entry of a set depends on the positions of its entries alone.  *)
LEMMA LatestSame ==
    ASSUME NEW E, NEW W, NEW S, \A x \in S : W[x].at = E[x].at
    PROVE  Latest(W, S) = Latest(E, S)
  BY SMT DEF Latest

(* A position beyond all others of a set is its last.                      *)
LEMMA LatestOfNew ==
    ASSUME NEW E, NEW n \in Nat, NEW S, NEW x \in S, E[x].at = n + 1,
           \A y \in S \ {x} : E[y].at \in Nat /\ E[y].at <= n
    PROVE  Latest(E, S) = x
  <1>1. \A y \in S : E[y].at <= E[x].at
    OBVIOUS
  <1>2. \A y \in S : (\A z \in S : E[z].at <= E[y].at) => y = x
    OBVIOUS
  <1> QED
    BY <1>1, <1>2 DEF Latest

(* Appending an entry that is not a legacy record leaves the legacy index, *)
(* and updates the label index as appendLabelChange does.                  *)
LEMMA AppendIndexes ==
    ASSUME NEW E, NEW n \in Nat, LogOK(E, n),
           NEW e \in Entry, e.at = n + 1, e.kind # "prune"
    PROVE  LET W == With(E, n + 1, e) IN
           /\ LegacyPrunes(W) = LegacyPrunes(E)
           /\ e.kind # "label" => LabelIndex(W) = LabelIndex(E)
           /\ e.kind = "label" =>
                LabelIndex(W) = IF e.value = "set" THEN LabelIndex(E) \cup {e.target}
                                ELSE LabelIndex(E) \ {e.target}
  <1> DEFINE W == With(E, n + 1, e)
             P(F) == {x \in DOMAIN F : F[x].kind = "prune"}
             L(F) == {x \in DOMAIN F : F[x].kind = "label"}
             LOf(F, t) == {x \in L(F) : F[x].target = t}
  <1>1. /\ DOMAIN W = DOMAIN E \cup {n + 1} /\ n + 1 \notin DOMAIN E
        /\ W[n + 1] = e /\ \A x \in DOMAIN E : W[x] = E[x]
    BY DEF With, LogOK, IsLog, Id
  <1>2. \A x \in DOMAIN E : E[x].at \in Nat /\ E[x].at <= n
    BY DEF LogOK, IsLog, Entry
  <1> HIDE DEF W
  <1>3. LegacyPrunes(W) = LegacyPrunes(E)
    <2>1. P(W) = P(E) /\ \A x \in P(E) : W[x] = E[x]
      BY <1>1
    <2>2. {W[x].target : x \in P(W)} = {E[x].target : x \in P(E)}
      BY <2>1
    <2>3. ASSUME NEW t
          PROVE  Latest(W, {x \in P(W) : W[x].target = t}) = Latest(E, {x \in P(E) : E[x].target = t})
      <3> DEFINE Q == {x \in P(E) : E[x].target = t}
      <3>1. {x \in P(W) : W[x].target = t} = Q
        BY <2>1
      <3>2. \A x \in Q : W[x].at = E[x].at
        BY <2>1
      <3> HIDE DEF Q
      <3>3. Latest(W, Q) = Latest(E, Q)
        BY <3>2, LatestSame
      <3> QED
        BY <3>1, <3>3 DEF Q
    <2> QED
      BY <2>2, <2>3 DEF LegacyPrunes
  (* The label of a target other than e's is decided as before. *)
  <1>4. ASSUME NEW t, e.kind = "label" => t # e.target
        PROVE  t \in LabelIndex(W) <=> t \in LabelIndex(E)
    <2>1. LOf(W, t) = LOf(E, t)
      BY <1>1, <1>4
    <2>2. \A x \in LOf(E, t) : W[x] = E[x]
      BY <1>1
    <2>3. Latest(W, LOf(W, t)) = Latest(E, LOf(E, t))
      <3>1. Latest(W, LOf(E, t)) = Latest(E, LOf(E, t))
        BY <2>2, LatestSame
      <3> QED
        BY <2>1, <3>1
    <2>4. t \in {W[x].target : x \in L(W)} <=> t \in {E[x].target : x \in L(E)}
      BY <1>1, <1>4
    <2>5. t \in {E[x].target : x \in L(E)} => Latest(E, LOf(E, t)) \in LOf(E, t)
      <3>1. \A x \in LOf(E, t) : E[x].at \in Nat /\ E[x].at <= n
        BY <1>2
      <3>2. LOf(E, t) # {} => Latest(E, LOf(E, t)) \in LOf(E, t)
        BY <3>1, LatestExists
      <3> QED
        BY <3>2
    <2>6. t \in {E[x].target : x \in L(E)} =>
            W[Latest(W, LOf(W, t))].value = E[Latest(E, LOf(E, t))].value
      BY <2>2, <2>3, <2>5
    <2> QED
      BY <2>4, <2>6 DEF LabelIndex
  (* The label of e's target is what e says. *)
  <1>5. ASSUME e.kind = "label"
        PROVE  e.target \in LabelIndex(W) <=> e.value = "set"
    <2>1. n + 1 \in LOf(W, e.target) /\ e.target \in {W[x].target : x \in L(W)}
      BY <1>1, <1>5
    <2>2. \A y \in LOf(W, e.target) \ {n + 1} : W[y].at \in Nat /\ W[y].at <= n
      BY <1>1, <1>2
    <2>3. W[n + 1].at = n + 1
      BY <1>1
    <2>4. Latest(W, LOf(W, e.target)) = n + 1
      BY <2>1, <2>2, <2>3, LatestOfNew
    <2> QED
      BY <1>1, <2>1, <2>4 DEF LabelIndex
  <1>6. e.kind # "label" => LabelIndex(W) = LabelIndex(E)
    BY <1>4
  <1>7. e.kind = "label" =>
          LabelIndex(W) = IF e.value = "set" THEN LabelIndex(E) \cup {e.target}
                          ELSE LabelIndex(E) \ {e.target}
    BY <1>4, <1>5
  <1> QED
    BY <1>3, <1>6, <1>7 DEF W

(* A new session has no labels and no legacy records.                      *)
LEMMA EmptyIndexes == LabelIndex(EmptyLog) = {} /\ LegacyPrunes(EmptyLog) = EmptyLog
  BY DEF LabelIndex, LegacyPrunes, EmptyLog

(* The indexes of memory are those of the log.  The legacy records are so  *)
(* even after a failed write, which never appends one.                     *)
IndexOK ==
    /\ legacy = LegacyPrunes(entries)
    /\ ~failed => labels = LabelIndex(entries)

(* _appendEntry keeps them if the new labels are right for the new log.    *)
LEMMA PushEntryIndexes ==
    ASSUME IInv, IndexOK, NEW e \in Entry, e.at = clock + 1, e.kind # "prune",
           NEW newLabels, NEW rest, NEW o, PushEntry(e, newLabels, rest, o),
           newLabels = IF e.kind # "label" THEN labels
                       ELSE IF e.value = "set" THEN labels \cup {e.target}
                       ELSE labels \ {e.target}
    PROVE  IndexOK'
  <1> DEFINE E == With(entries, clock + 1, e)
  <1>1. clock \in Nat /\ LogOK(entries, clock)
    BY DEF IInv, MemoryOK
  <1>2. /\ LegacyPrunes(E) = LegacyPrunes(entries)
        /\ e.kind # "label" => LabelIndex(E) = LabelIndex(entries)
        /\ e.kind = "label" =>
             LabelIndex(E) = IF e.value = "set" THEN LabelIndex(entries) \cup {e.target}
                             ELSE LabelIndex(entries) \ {e.target}
    BY <1>1, AppendIndexes
  <1> HIDE DEF E
  <1>3. \/ entries' = E /\ legacy' = legacy /\ failed' = failed /\ labels' = newLabels
        \/ entries' = E /\ legacy' = legacy /\ failed'
        \/ MemoryLost
    BY DEF PushEntry, E
  <1> QED
    BY <1>2, <1>3, EmptyIndexes DEF IndexOK, MemoryLost

(* Every step keeps the indexes in line with the log.                      *)
LEMMA IndexStep == IInv /\ IndexOK /\ [Next]_vars => IndexOK'
  <1> SUFFICES ASSUME IInv, IndexOK, [Next]_vars PROVE IndexOK'
    OBVIOUS
  <1>1. /\ leaf \in DOMAIN entries \cup {NullId} /\ labels \in SUBSET Nat
        /\ DOMAIN entries \subseteq Nat /\ clock \in Nat /\ LogOK(entries, clock)
        /\ todo \in Seq(Change) /\ NullId \in Nat
    BY DEF IInv, MemoryOK, LogOK, IsLog, Id, NullId
  <1>2. /\ {"none", "checkpoint", "set", "cleared", "omit", "replace"} \subseteq EntryValues
        /\ {"compaction", "label", "context_edit", "context_edit_cancel", "branch_summary"}
              \subseteq EntryKinds
        /\ EditKinds \subseteq EntryKinds /\ Kinds \subseteq EntryKinds
        /\ \A k \in EditKinds \cup Kinds : k \notin {"prune", "label"}
    BY SessionAssumption
       DEF EntryValues, EditValues, EntryKinds, EditKinds, SettingKinds, MessageKinds, AssistantKinds
  (* An append of anything but a label or a legacy record. *)
  <1>3. ASSUME NEW k \in EntryKinds, k \notin {"prune", "label"},
               NEW p \in DOMAIN entries \cup {NullId}, NEW t \in Nat, NEW v \in EntryValues,
               NEW rest, NEW o, PushEntry(NewEntry(k, p, t, v), labels, rest, o)
        PROVE  IndexOK'
    <2>1. NewEntry(k, p, t, v) \in Entry /\ NewEntry(k, p, t, v).at = clock + 1
      BY NewEntryOK
    <2>2. NewEntry(k, p, t, v).kind = k
      BY DEF NewEntry
    <2> QED
      BY <1>3, <2>1, <2>2, PushEntryIndexes
  <1>4. ASSUME NEW o, NEW k \in Kinds, AppendEntry(k, o) PROVE IndexOK'
    BY <1>1, <1>2, <1>3, <1>4 DEF AppendEntry
  <1>5. ASSUME NEW o, NEW f \in CompactionCuts(entries, leaf, legacy) \cup {NullId},
               AppendCompaction(f, o)
        PROVE  IndexOK'
    <2>1. f \in Nat
      BY <1>1, CutsInLog
    <2>2. PICK t \in Nat, v \in {"checkpoint", "none"} :
             PushEntry(NewEntry("compaction", leaf, t, v), labels, <<>>, o)
      BY <1>1, <1>5, <2>1 DEF AppendCompaction
    <2> QED
      BY <1>1, <1>2, <1>3, <2>2
  <1>6. ASSUME NEW o, NEW t \in DOMAIN entries, NEW v \in {"set", "cleared"},
               AppendLabelChange(t, v, o)
        PROVE  IndexOK'
    <2> DEFINE e == NewEntry("label", leaf, t, v)
               newLabels == IF v = "set" THEN labels \cup {t} ELSE labels \ {t}
    <2>1. PushEntry(e, newLabels, <<>>, o)
      BY <1>6 DEF AppendLabelChange
    <2>2. e \in Entry /\ e.at = clock + 1
      BY <1>1, <1>2, NewEntryOK
    <2>3. e.kind = "label" /\ e.target = t /\ e.value = v
      BY DEF NewEntry
    <2> HIDE DEF e
    <2> QED
      BY <2>1, <2>2, <2>3, PushEntryIndexes
  <1>7. ASSUME NEW o, NEW t \in DOMAIN entries, NEW v \in {"omit", "replace"},
               AppendContextEdit(t, v, o)
        PROVE  IndexOK'
    BY <1>1, <1>2, <1>3, <1>7 DEF AppendContextEdit
  <1>8. ASSUME NEW o, NEW t \in DOMAIN entries, AppendContextEditCancel(t, o) PROVE IndexOK'
    BY <1>1, <1>2, <1>3, <1>8 DEF AppendContextEditCancel
  <1>9. ASSUME NEW o, AppendNextContextChange(o) PROVE IndexOK'
    <2>1. /\ todo # <<>>
          /\ PushEntry(NewEntry(Head(todo).kind, leaf, Head(todo).target, Head(todo).value),
                       labels, Tail(todo), o)
      BY <1>9 DEF AppendNextContextChange
    <2>2. Head(todo) \in Change
      BY <1>1, <2>1
    <2>3. /\ Head(todo).kind \in EntryKinds /\ Head(todo).kind \notin {"prune", "label"}
          /\ Head(todo).target \in Nat /\ Head(todo).value \in EntryValues
      BY <1>2, <2>2 DEF Change
    <2> QED
      BY <1>1, <1>3, <2>1, <2>3
  <1>10. ASSUME NEW o, NEW id, BranchWithSummary(id, o) PROVE IndexOK'
    BY <1>1, <1>2, <1>3, <1>10 DEF BranchWithSummary
  (* A log that is loaded or extracted is indexed anew. *)
  <1>11. ASSUME NEW o, NEW id, CreateBranchedSession(id, o) PROVE IndexOK'
    <2>1. \/ labels' = LabelIndex(entries') /\ legacy' = LegacyPrunes(entries')
          \/ MemoryLost
      BY <1>11 DEF CreateBranchedSession
    <2> QED
      BY <2>1, EmptyIndexes DEF IndexOK, MemoryLost
  <1>12. ASSUME NEW o, ForkFrom(o) PROVE IndexOK'
    BY <1>12 DEF ForkFrom, Load, IndexOK
  <1>13. CASE Open
    BY <1>13 DEF Open, Load, IndexOK
  <1>14. CASE NewSession
    BY <1>14, EmptyIndexes DEF NewSession, IndexOK
  <1>15. CASE Exit \/ Crash
    BY <1>15, EmptyIndexes DEF Exit, Crash, MemoryLost, IndexOK
  (* The other steps touch neither the log nor its indexes. *)
  <1>16. ASSUME NEW c, BeginContextChanges(c) PROVE IndexOK'
    BY <1>16 DEF BeginContextChanges, IndexOK
  <1>17. CASE ResetLeaf \/ \E id \in NavigationTargets(entries) : Branch(id)
    BY <1>17 DEF ResetLeaf, Branch, MoveLeaf, IndexOK
  <1>18. CASE ReadContextChanges
    BY <1>18 DEF ReadContextChanges, IndexOK
  <1>19. CASE UNCHANGED vars
    BY <1>19 DEF vars, IndexOK
  <1>20. CASE Next
    BY <1>4, <1>5, <1>6, <1>7, <1>8, <1>9, <1>10, <1>11, <1>12, <1>13, <1>14, <1>15, <1>16,
       <1>17, <1>18, <1>20 DEF Next, AgentCurates, UserCurates
  <1> QED
    BY <1>19, <1>20

-----------------------------------------------------------------------------
(* The walk along parents.  A set of entries has one whose parent is not   *)
(* in it, because parents come earlier: induction along the tree.          *)
LEMMA TopOf ==
    ASSUME NEW E, NEW n \in Nat, LogOK(E, n), NEW S \in SUBSET DOMAIN E, S # {}
    PROVE  \E x \in S : E[x].parent \notin S
  <1> DEFINE T == {E[x].at : x \in S}
  <1>1. \A x \in S : E[x].at \in Nat
    BY DEF LogOK, IsLog, Entry
  <1>2. \E m \in T : \A k \in T : m <= k
    <2>1. T \in SUBSET Nat /\ T # {}
      BY <1>1
    <2> QED
      BY <2>1, LeastBound
  <1>3. PICK x \in S : \A y \in S : E[x].at <= E[y].at
    BY <1>2
  <1>4. E[x].parent \in S => E[E[x].parent].at < E[x].at
    BY DEF LogOK, ParentsEarlier
  <1> QED
    BY <1>1, <1>3, <1>4

(* What every set that contains x and is closed under parents contains.    *)
Closed(E, S) == \A y \in S : E[y].parent \in DOMAIN E => E[y].parent \in S
Ancestry(E, x) == {y \in DOMAIN E : \A S \in SUBSET DOMAIN E : x \in S /\ Closed(E, S) => y \in S}

(* The ancestry of an entry is the entry and the ancestry of its parent.   *)
LEMMA AncestryStep ==
    ASSUME NEW E, NEW x \in DOMAIN E
    PROVE  Ancestry(E, x) =
             {x} \cup (IF E[x].parent \in DOMAIN E THEN Ancestry(E, E[x].parent) ELSE {})
  <1> DEFINE p == E[x].parent
             A == {x} \cup (IF p \in DOMAIN E THEN Ancestry(E, p) ELSE {})
  <1>1. A \subseteq Ancestry(E, x)
    BY DEF Ancestry, Closed
  <1>2. A \in SUBSET DOMAIN E /\ x \in A
    BY DEF Ancestry
  <1>3. Closed(E, A)
    <2>1. p \in DOMAIN E => p \in Ancestry(E, p) /\ Closed(E, Ancestry(E, p))
      BY DEF Ancestry, Closed
    <2> QED
      BY <2>1 DEF Closed
  <1>4. Ancestry(E, x) \subseteq A
    BY <1>2, <1>3 DEF Ancestry
  <1> QED
    BY <1>1, <1>4

(* A path is its last entry and the path of that entry's parent: the       *)
(* ancestries solve the equation that defines the walk.                    *)
LEMMA PathStep ==
    ASSUME NEW E, NEW x \in DOMAIN E
    PROVE  SessionPath(E, x) = {x} \cup SessionPath(E, E[x].parent)
  <1> DEFINE step(f) == [y \in DOMAIN E |->
                           {y} \cup (IF E[y].parent \in DOMAIN E THEN f[E[y].parent] ELSE {})]
             ancestry == [y \in DOMAIN E |-> Ancestry(E, y)]
             walk == CHOOSE f : f = step(f)
  <1>1. ancestry = step(ancestry)
    BY AncestryStep
  <1>2. walk = step(walk)
    BY <1>1
  <1>3. \A y : SessionPath(E, y) = IF y \in DOMAIN E THEN DOMAIN E \cap walk[y] ELSE {}
    BY DEF SessionPath
  <1> HIDE DEF walk
  <1>4. walk[x] = {x} \cup (IF E[x].parent \in DOMAIN E THEN walk[E[x].parent] ELSE {})
    BY <1>2
  <1> QED
    BY <1>3, <1>4

(* W continues E: it has the entries of E, and no parent that E misses.    *)
Continues(W, E) ==
    \A x \in DOMAIN E : /\ x \in DOMAIN W /\ W[x] = E[x]
                        /\ E[x].parent \in DOMAIN W => E[x].parent \in DOMAIN E

(* The paths of old entries stay when a log is continued.                  *)
LEMMA PathStable ==
    ASSUME NEW E, NEW W, NEW n \in Nat, LogOK(E, n), Continues(W, E), NEW x \in DOMAIN E
    PROVE  SessionPath(W, x) = SessionPath(E, x)
  <1> DEFINE Bad == {y \in DOMAIN E : SessionPath(W, y) # SessionPath(E, y)}
  <1>1. SUFFICES ASSUME Bad # {} PROVE FALSE
    OBVIOUS
  <1>2. PICK y \in Bad : E[y].parent \notin Bad
    BY <1>1, TopOf
  <1>3. y \in DOMAIN W /\ W[y].parent = E[y].parent
    BY DEF Continues
  <1>4. SessionPath(W, E[y].parent) = SessionPath(E, E[y].parent)
    <2>1. CASE E[y].parent \in DOMAIN E
      BY <1>2, <2>1
    <2>2. CASE E[y].parent \notin DOMAIN E
      BY <2>2 DEF Continues, SessionPath
    <2> QED
      BY <2>1, <2>2
  <1> QED
    BY <1>2, <1>3, <1>4, PathStep

(* What the model sees at an entry depends on its path and on the legacy   *)
(* records alone.                                                          *)
LEMMA ProjectionStable ==
    ASSUME NEW E, NEW W, NEW n \in Nat, LogOK(E, n), Continues(W, E), NEW x \in DOMAIN E,
           NEW leg, leg \in [DOMAIN leg -> DOMAIN E]
    PROVE  Projection(W, x, leg) = Projection(E, x, leg)
  <1> DEFINE path == SessionPath(E, x)
             C == {y \in path : E[y].kind = "compaction"}
             Ops(t) == {y \in path : E[y].kind \in EditKinds /\ E[y].target = t}
             changes == ContextChanges(E, path, leg)
  <1>1. SessionPath(W, x) = path /\ path \subseteq DOMAIN E
    BY PathStable, PathInLog
  <1>2. /\ \A y \in DOMAIN E : W[y] = E[y]
        /\ \A y \in DOMAIN E : E[y].at \in Nat /\ E[y].at <= n
        /\ NullId \notin DOMAIN E
    BY DEF Continues, LogOK, IsLog, Entry, Id, NullId
  <1> HIDE DEF path
  <1>3. /\ LatestCompaction(W, path) = LatestCompaction(E, path)
        /\ LatestCompaction(E, path) # NullId => LatestCompaction(E, path) \in path
    <2>1. {y \in path : W[y].kind = "compaction"} = C
      BY <1>1, <1>2
    <2>2. \A y \in C : W[y] = E[y] /\ E[y].at \in Nat /\ E[y].at <= n
      BY <1>1, <1>2
    <2>3. Latest(W, C) = Latest(E, C) /\ (C # {} => Latest(E, C) \in C)
      BY <2>2, LatestSame, LatestExists
    <2> QED
      BY <2>1, <2>3 DEF LatestCompaction
  <1>4. ContextEntries(W, path) = ContextEntries(E, path) /\ ContextEntries(E, path) \subseteq path
    BY <1>1, <1>2, <1>3 DEF ContextEntries
  <1>5. /\ ContextChanges(W, path, leg) = changes
        /\ \A t \in DOMAIN changes : changes[t] \in DOMAIN E
    <2>1. \A t : {y \in path : W[y].kind \in EditKinds /\ W[y].target = t} = Ops(t)
      BY <1>1, <1>2
    <2>2. ASSUME NEW t PROVE Latest(W, Ops(t)) = Latest(E, Ops(t))
      <3>1. \A y \in Ops(t) : W[y] = E[y]
        BY <1>1, <1>2
      <3> QED
        BY <3>1, LatestSame
    <2>3. ASSUME NEW t, Ops(t) # {} PROVE Latest(E, Ops(t)) \in DOMAIN E
      <3>1. \A y \in Ops(t) : E[y].at \in Nat /\ E[y].at <= n
        BY <1>1, <1>2
      <3>2. Latest(E, Ops(t)) \in Ops(t)
        BY <2>3, <3>1, LatestExists
      <3> QED
        BY <1>1, <3>2
    <2>4. {W[y].target : y \in path} = {E[y].target : y \in path}
      BY <1>1, <1>2
    <2> DEFINE Edited(F) == {t \in {F[y].target : y \in path} :
                               Ops(t) # {} /\ F[Latest(F, Ops(t))].kind = "context_edit"}
               Baseline == {t \in DOMAIN leg : Ops(t) = {}}
    <2>5. Edited(W) = Edited(E)
      BY <1>2, <2>2, <2>3, <2>4
    <2>6. changes = [t \in Edited(E) \cup Baseline |->
                       IF t \in Edited(E) THEN Latest(E, Ops(t)) ELSE leg[t]]
      BY DEF ContextChanges
    <2>7. ContextChanges(W, path, leg) =
             [t \in Edited(W) \cup Baseline |->
                IF t \in Edited(W) THEN Latest(W, Ops(t)) ELSE leg[t]]
      BY <2>1 DEF ContextChanges
    <2>8. \A t \in Edited(E) : Ops(t) # {}
      OBVIOUS
    <2> HIDE DEF Ops, Edited, changes
    <2>9. ContextChanges(W, path, leg) = changes
      BY <2>2, <2>5, <2>6, <2>7
    <2> QED
      BY <2>3, <2>6, <2>8, <2>9
  <1> HIDE DEF changes
  <1>6. \A y \in ContextEntries(E, path) :
           /\ W[y] = E[y]
           /\ y \in DOMAIN changes => W[changes[y]] = E[changes[y]]
    BY <1>1, <1>2, <1>4, <1>5
  <1> QED
    BY <1>1, <1>3, <1>4, <1>5, <1>6 DEF Projection, changes, path

-----------------------------------------------------------------------------
(* Appending continues the log: no entry waits for the new id as a parent. *)
LEMMA AppendContinues ==
    ASSUME NEW E, NEW n \in Nat, LogOK(E, n), NEW e
    PROVE  Continues(With(E, n + 1, e), E)
  BY DEF Continues, With, LogOK, IsLog, Id, Entry

(* What an append method does to the log and to the legacy records.        *)
LEMMA AppendsPush ==
    ASSUME NEW o,
           \/ \E k \in Kinds : AppendEntry(k, o)
           \/ \E f \in CompactionCuts(entries, leaf, legacy) \cup {NullId} : AppendCompaction(f, o)
           \/ \E t \in DOMAIN entries, v \in {"set", "cleared"} : AppendLabelChange(t, v, o)
           \/ \E t \in DOMAIN entries, v \in {"omit", "replace"} : AppendContextEdit(t, v, o)
           \/ \E t \in DOMAIN entries : AppendContextEditCancel(t, o)
           \/ AppendNextContextChange(o)
           \/ \E id \in NavigationTargets(entries) \cup {NullId} : BranchWithSummary(id, o)
    PROVE  \/ \E e : entries' = With(entries, clock + 1, e) /\ legacy' = legacy
           \/ MemoryLost
  <1>1. \E e, l, r : PushEntry(e, l, r, o)
    BY DEF AppendEntry, AppendCompaction, AppendLabelChange, AppendContextEdit,
           AppendContextEditCancel, AppendNextContextChange, BranchWithSummary
  <1> QED
    BY <1>1 DEF PushEntry

(* If an extraction leaves every entry in place, it adds labels only, and  *)
(* there are no legacy records.                                            *)
LEMMA ExtractionInPlace ==
    ASSUME IInv, IndexOK, NEW id,
           NEW X, X = ExtractedLog(entries, id, labels, legacy, clock),
           \A x \in DOMAIN entries : x \in DOMAIN X /\ X[x] = entries[x]
    PROVE  Continues(X, entries) /\ LegacyPrunes(X) = legacy
  <1> DEFINE S == Retained(entries, id)
             P == CopiedPrunes(entries, id, legacy)
             nl == Cardinality(CopiedLabels(entries, id, labels))
  <1>1. /\ clock \in Nat /\ LogOK(entries, clock) /\ labels \in SUBSET Nat
        /\ legacy \in [DOMAIN legacy -> DOMAIN entries]
    BY DEF IInv, MemoryOK
  <1>2. /\ nl \in Nat
        /\ DOMAIN X = S \cup {clock + i : i \in 1..nl} \cup P
        /\ \A x \in DOMAIN X \ S : /\ X[x].at > clock
                                   /\ x \in P => X[x].kind = entries[x].kind
                                   /\ x \notin P => X[x].kind = "label"
    <2>1. nl \in Nat /\ ExtractedShape(X, entries, id, labels, legacy, clock)
      BY <1>1, ExtractedLogOK
    <2> QED
      BY <2>1 DEF ExtractedShape
  <1>3. /\ \A x \in DOMAIN entries : x \in Nat /\ x <= clock /\ entries[x].at \in Nat
                                     /\ entries[x].at <= clock /\ entries[x].parent \in Nat
                                     /\ entries[x].parent <= clock
        /\ S \subseteq DOMAIN entries /\ P \subseteq DOMAIN entries
        /\ \A x \in S : entries[x].kind # "prune"
    BY <1>1, PathInLog DEF LogOK, IsLog, Entry, Id, Retained, CopiedPrunes
  <1> HIDE DEF S, P, nl
  <1>4. DOMAIN entries \subseteq S
    BY <1>1, <1>2, <1>3
  <1>5. \A x \in DOMAIN X : X[x].kind # "prune"
    BY <1>2, <1>3, <1>4
  <1>6. LegacyPrunes(X) = legacy
    <2>1. LegacyPrunes(X) = [t \in {} |-> t]
      BY <1>5 DEF LegacyPrunes
    <2>2. LegacyPrunes(entries) = [t \in {} |-> t]
      BY <1>3, <1>4 DEF LegacyPrunes
    <2> QED
      BY <2>1, <2>2 DEF IndexOK
  <1>7. Continues(X, entries)
    BY <1>1, <1>2, <1>3 DEF Continues
  <1> QED
    BY <1>6, <1>7

(* A step of a running session that leaves every entry in place leaves     *)
(* what the model sees at each of them.                                    *)
LEMMA PastStep ==
    ASSUME IInv, IndexOK, [Next]_vars, up,
           \A x \in DOMAIN entries : x \in DOMAIN entries' /\ entries'[x] = entries[x],
           NEW x \in DOMAIN entries
    PROVE  Projection(entries', x, legacy') = Projection(entries, x, legacy)
  <1>1. /\ clock \in Nat /\ LogOK(entries, clock)
        /\ legacy \in [DOMAIN legacy -> DOMAIN entries]
    BY DEF IInv, MemoryOK
  <1>2. ASSUME Continues(entries', entries), legacy' = legacy
        PROVE  Projection(entries', x, legacy') = Projection(entries, x, legacy)
    BY <1>1, <1>2, ProjectionStable
  (* A step that empties the log leaves an entry in place only vacuously. *)
  <1>3. ~MemoryLost /\ ~NewSession /\ ~Exit /\ ~Crash
    BY DEF MemoryLost, NewSession, Exit, Crash, EmptyLog
  <1>4. ASSUME NEW o \in Outcomes,
               \/ \E k \in Kinds : AppendEntry(k, o)
               \/ \E f \in CompactionCuts(entries, leaf, legacy) \cup {NullId} : AppendCompaction(f, o)
               \/ \E t \in DOMAIN entries, v \in {"set", "cleared"} : AppendLabelChange(t, v, o)
               \/ \E t \in DOMAIN entries, v \in {"omit", "replace"} : AppendContextEdit(t, v, o)
               \/ \E t \in DOMAIN entries : AppendContextEditCancel(t, o)
               \/ AppendNextContextChange(o)
               \/ \E id \in NavigationTargets(entries) \cup {NullId} : BranchWithSummary(id, o)
        PROVE  Projection(entries', x, legacy') = Projection(entries, x, legacy)
    <2>1. PICK e : entries' = With(entries, clock + 1, e) /\ legacy' = legacy
      BY <1>3, <1>4, AppendsPush
    <2> QED
      BY <1>1, <1>2, <2>1, AppendContinues
  <1>5. ASSUME NEW o, NEW id, CreateBranchedSession(id, o)
        PROVE  Projection(entries', x, legacy') = Projection(entries, x, legacy)
    <2>1. /\ entries' = ExtractedLog(entries, id, labels, legacy, clock)
          /\ legacy' = LegacyPrunes(entries')
      BY <1>3, <1>5 DEF CreateBranchedSession
    <2> QED
      BY <1>2, <2>1, ExtractionInPlace
  <1>6. ASSUME UNCHANGED <<entries, legacy>>
        PROVE  Projection(entries', x, legacy') = Projection(entries, x, legacy)
    BY <1>6
  <1>7. \A o : ~ForkFrom(o) /\ ~Open
    BY DEF ForkFrom, Open
  <1>8. ASSUME NEW c, BeginContextChanges(c) PROVE UNCHANGED <<entries, legacy>>
    BY <1>8 DEF BeginContextChanges
  <1>9. ASSUME ResetLeaf \/ (\E id \in NavigationTargets(entries) : Branch(id))
               \/ ReadContextChanges \/ UNCHANGED vars
        PROVE  UNCHANGED <<entries, legacy>>
    BY <1>9 DEF ResetLeaf, Branch, MoveLeaf, ReadContextChanges, vars
  <1>10. CASE Next
    BY <1>3, <1>4, <1>5, <1>6, <1>7, <1>8, <1>9, <1>10 DEF Next, AgentCurates, UserCurates
  <1> QED
    BY <1>6, <1>9, <1>10

-----------------------------------------------------------------------------
(* A path is a chain: it contains the path of each of its entries, whose   *)
(* other entries come earlier.                                             *)
LEMMA PathOrder ==
    ASSUME NEW E, NEW n \in Nat, LogOK(E, n), NEW z \in DOMAIN E
    PROVE  \A x \in SessionPath(E, z) :
             /\ SessionPath(E, x) \subseteq SessionPath(E, z)
             /\ x # z => E[x].at < E[z].at
             /\ \A y \in SessionPath(E, z) : y \in SessionPath(E, x) \/ x \in SessionPath(E, y)
  <1> DEFINE Good(w) == \A x \in SessionPath(E, w) :
                          /\ SessionPath(E, x) \subseteq SessionPath(E, w)
                          /\ x # w => E[x].at < E[w].at
                          /\ \A y \in SessionPath(E, w) :
                                y \in SessionPath(E, x) \/ x \in SessionPath(E, y)
             Bad == {w \in DOMAIN E : ~Good(w)}
  <1>1. SUFFICES ASSUME Bad # {} PROVE FALSE
    OBVIOUS
  <1>2. PICK w \in Bad : E[w].parent \notin Bad
    BY <1>1, TopOf
  <1> DEFINE p == E[w].parent
  <1>3. SessionPath(E, w) = {w} \cup SessionPath(E, p)
    BY PathStep
  <1>4. CASE p \in DOMAIN E
    <2>1. Good(p) /\ p \in SessionPath(E, p)
      BY <1>2, <1>4, PathStep
    <2>2. E[p].at < E[w].at /\ \A x \in DOMAIN E : E[x].at \in Nat
      BY <1>4 DEF LogOK, ParentsEarlier, IsLog, Entry
    <2>3. SessionPath(E, p) \subseteq DOMAIN E
      BY PathInLog
    <2>4. \A x \in SessionPath(E, p) : E[x].at < E[w].at
      BY <1>4, <2>1, <2>2, <2>3
    <2>5. Good(w)
      BY <1>3, <2>1, <2>4
    <2> QED
      BY <1>2, <2>5
  <1>5. CASE p \notin DOMAIN E
    <2>1. SessionPath(E, w) = {w}
      BY <1>3, <1>5 DEF SessionPath
    <2>2. Good(w)
      BY <2>1
    <2> QED
      BY <1>2, <2>2
  <1> QED
    BY <1>4, <1>5

(* The chain of an extracted path keeps its order: what preceded an entry  *)
(* on the old path, and was retained, is on its new path.                  *)
LEMMA RechainedPath ==
    ASSUME NEW E, NEW n \in Nat, LogOK(E, n), NEW id \in DOMAIN E,
           NEW x \in Retained(E, id), NEW y \in Retained(E, id), y \in SessionPath(E, x)
    PROVE  y \in SessionPath(Rechain(E, id), x)
  <1> DEFINE S == Retained(E, id)
             R == Rechain(E, id)
             Earlier(w) == {v \in S : E[v].at < E[w].at}
             Bad == {w \in S : \E v \in S : v \in SessionPath(E, w) /\ v \notin SessionPath(R, w)}
  <1>1. DOMAIN R = S /\ S \subseteq DOMAIN E /\ LogOK(R, n)
    BY RechainOK
  <1>2. \A w \in S : R[w].parent = IF Earlier(w) = {} THEN NullId ELSE Latest(E, Earlier(w))
    <2>1. \A w \in S : E[w] \in Entry
      BY <1>1 DEF LogOK, IsLog
    <2>2. \A w \in S : \E t : R[w] = [E[w] EXCEPT
             !.parent = IF Earlier(w) = {} THEN NullId ELSE Latest(E, Earlier(w)), !.target = t]
      BY DEF Rechain
    <2> HIDE DEF R, Earlier
    <2> QED
      BY <2>1, <2>2 DEF Entry
  <1>3. \A w \in DOMAIN E : E[w].at \in Nat /\ E[w].at <= n
    BY DEF LogOK, IsLog, Entry
  <1>4. S \subseteq SessionPath(E, id)
    BY DEF Retained
  <1> HIDE DEF R, S
  <1>5. SUFFICES ASSUME Bad # {} PROVE FALSE
    BY DEF S, R
  <1>6. PICK w \in Bad : R[w].parent \notin Bad
    BY <1>1, <1>5, TopOf
  <1>7. PICK v \in S : v \in SessionPath(E, w) /\ v \notin SessionPath(R, w)
    BY <1>6
  <1> DEFINE p == R[w].parent
  <1>8. SessionPath(R, w) = {w} \cup SessionPath(R, p)
    BY <1>1, PathStep
  <1>9. E[v].at < E[w].at
    <2>1. w \in DOMAIN E /\ v # w
      BY <1>1, <1>7, <1>8
    <2> QED
      BY <2>1, <1>7, PathOrder
  <1>10. p \in S /\ E[p].at < E[w].at /\ E[v].at <= E[p].at
    <2>1. v \in Earlier(w)
      BY <1>9
    <2>2. \A u \in Earlier(w) : E[u].at \in Nat /\ E[u].at <= n
      BY <1>1, <1>3
    <2>3. /\ Latest(E, Earlier(w)) \in Earlier(w)
          /\ \A u \in Earlier(w) : E[u].at <= E[Latest(E, Earlier(w))].at
      BY <2>1, <2>2, LatestExists
    <2>4. p = Latest(E, Earlier(w))
      BY <1>2, <2>1
    <2> QED
      BY <2>1, <2>3, <2>4
  <1>11. v \in SessionPath(E, p)
    <2>1. v \in SessionPath(E, p) \/ p \in SessionPath(E, v)
      BY <1>4, <1>10, PathOrder
    <2>2. v \in DOMAIN E /\ p \in DOMAIN E /\ v \in SessionPath(E, v)
      BY <1>1, <1>10, PathStep
    <2>3. p \in SessionPath(E, v) /\ p # v => E[p].at < E[v].at
      BY <2>2, PathOrder
    <2> QED
      BY <1>3, <1>10, <2>1, <2>2, <2>3
  <1>12. v \in SessionPath(R, p)
    BY <1>6, <1>10, <1>11
  <1> QED
    BY <1>7, <1>8, <1>12

-----------------------------------------------------------------------------
(* Every edit and cancel of a log names a contributing entry of its path.  *)
Curates(E, id, target) == target \in SessionPath(E, id) /\ Contributes(E[target])
Curated(E) == \A x \in DOMAIN E : E[x].kind \in EditKinds => Curates(E, x, E[x].target)

(* Continuing a log, or keeping the part of it that its paths need, leaves *)
(* what its entries curate.                                                *)
LEMMA CuratesStable ==
    ASSUME NEW E, NEW W, NEW n \in Nat, LogOK(E, n), Continues(W, E), NEW x \in DOMAIN E, NEW t
    PROVE  Curates(W, x, t) <=> Curates(E, x, t)
  <1>1. SessionPath(W, x) = SessionPath(E, x) /\ SessionPath(E, x) \subseteq DOMAIN E
    BY PathStable, PathInLog
  <1>2. \A y \in DOMAIN E : W[y] = E[y]
    BY DEF Continues
  <1> QED
    BY <1>1, <1>2 DEF Curates

(* The empty log is curated.                                               *)
LEMMA EmptyCurated == Curated(EmptyLog)
  BY DEF Curated, EmptyLog

(* So is every part of a curated log that a cut leaves.                    *)
LEMMA CutCurated ==
    ASSUME NEW E, NEW n \in Nat, LogOK(E, n), Curated(E), NEW f \in CutShort(E)
    PROVE  Curated(f.lines)
  <1>1. ASSUME NEW a \in Nat PROVE Curated(UpTo(E, a))
    <2> DEFINE U == UpTo(E, a)
    <2>1. LogOK(U, n)
      BY UpToOK
    <2>2. /\ DOMAIN U = {x \in DOMAIN E : E[x].at <= a} /\ \A x \in DOMAIN U : U[x] = E[x]
          /\ \A x \in DOMAIN E : E[x].at \in Nat
          /\ \A x \in DOMAIN E : E[x].parent \in DOMAIN E => E[E[x].parent].at < E[x].at
      BY DEF UpTo, LogOK, IsLog, Entry, ParentsEarlier
    <2> HIDE DEF U
    <2>3. Continues(E, U)
      BY <2>2 DEF Continues
    <2>4. ASSUME NEW x \in DOMAIN U, U[x].kind \in EditKinds PROVE Curates(U, x, U[x].target)
      <3>1. Curates(E, x, U[x].target)
        BY <2>2, <2>4 DEF Curated
      <3> QED
        BY <2>1, <2>3, <3>1, CuratesStable
    <2> QED
      BY <2>4 DEF Curated, U
  <1>2. \A x \in DOMAIN E : E[x].at \in Nat
    BY DEF LogOK, IsLog, Entry
  <1>3. f.lines = EmptyLog \/ \E a \in Nat : f.lines = UpTo(E, a)
    BY <1>2 DEF CutShort, File, NoFile
  <1> QED
    BY <1>1, <1>3, EmptyCurated

(* Appending to a curated log.                                             *)
LEMMA AppendCurated ==
    ASSUME NEW E, NEW n \in Nat, LogOK(E, n), Curated(E), NEW e \in Entry,
           e.at = n + 1, e.parent \in DOMAIN E \cup {NullId},
           e.kind \in EditKinds => Curates(E, e.parent, e.target)
    PROVE  LET W == With(E, n + 1, e) IN
           /\ Curated(W)
           /\ \A t : Curates(E, e.parent, t) => Curates(W, n + 1, t)
  <1> DEFINE W == With(E, n + 1, e)
  <1>1. /\ DOMAIN W = DOMAIN E \cup {n + 1} /\ W[n + 1] = e
        /\ \A x \in DOMAIN E : W[x] = E[x]
    BY DEF With, LogOK, IsLog, Id
  <1>2. Continues(W, E)
    BY AppendContinues
  <1> HIDE DEF W
  <1>3. ASSUME NEW t, Curates(E, e.parent, t) PROVE Curates(W, n + 1, t)
    <2>1. e.parent \in DOMAIN E
      BY <1>3 DEF Curates, SessionPath
    <2>2. Curates(W, e.parent, t)
      BY <1>2, <1>3, <2>1, CuratesStable
    <2>3. SessionPath(W, n + 1) = {n + 1} \cup SessionPath(W, e.parent)
      BY <1>1, PathStep
    <2> QED
      BY <2>2, <2>3 DEF Curates
  <1>4. Curated(W)
    <2>1. SUFFICES ASSUME NEW x \in DOMAIN W, W[x].kind \in EditKinds
                   PROVE  Curates(W, x, W[x].target)
      BY DEF Curated
    <2>2. CASE x \in DOMAIN E
      BY <1>1, <1>2, <2>1, <2>2, CuratesStable DEF Curated
    <2>3. CASE x = n + 1
      BY <1>1, <1>3, <2>1, <2>3
    <2> QED
      BY <1>1, <2>2, <2>3
  <1> QED
    BY <1>3, <1>4 DEF W

(* Extracting a path of a curated log: an edit on the path keeps its       *)
(* target, and stands after it.                                            *)
LEMMA ExtractedCurated ==
    ASSUME IInv, IndexOK, Curated(entries), NEW id \in DOMAIN entries
    PROVE  Curated(ExtractedLog(entries, id, labels, legacy, clock))
  <1> DEFINE X == ExtractedLog(entries, id, labels, legacy, clock)
             S == Retained(entries, id)
             R == Rechain(entries, id)
             P == CopiedPrunes(entries, id, legacy)
  <1>1. /\ clock \in Nat /\ LogOK(entries, clock) /\ labels \in SUBSET Nat
        /\ legacy \in [DOMAIN legacy -> DOMAIN entries]
    BY DEF IInv, MemoryOK
  <1>2. ExtractedShape(X, entries, id, labels, legacy, clock)
    BY <1>1, ExtractedLogOK
  <1>9. NullId \notin DOMAIN X
    BY <1>1, ExtractedLogOK DEF LogOK, IsLog, Id, NullId
  <1>3. DOMAIN R = S /\ S \subseteq DOMAIN entries /\ LogOK(R, clock) /\ ParentsPresent(R)
    BY <1>1, RechainOK
  <1>4. /\ \A x \in S : x \in DOMAIN X /\ X[x] = R[x]
        /\ \A x \in DOMAIN X \ S : /\ x \in P => X[x].kind = entries[x].kind
                                   /\ x \notin P => X[x].kind = "label"
    BY <1>2 DEF ExtractedShape
  <1> HIDE DEF X
  <1>5. ASSUME NEW x \in S
        PROVE  /\ R[x].kind = entries[x].kind /\ R[x].value = entries[x].value
               /\ entries[x].kind # "compaction" => R[x].target = entries[x].target
    <2>1. entries[x] \in Entry
      BY <1>1, <1>3 DEF LogOK, IsLog
    <2>2. PICK p, t : /\ R[x] = [entries[x] EXCEPT !.parent = p, !.target = t]
                      /\ entries[x].kind # "compaction" => t = entries[x].target
      BY DEF Rechain
    <2> HIDE DEF R
    <2> QED
      BY <2>1, <2>2 DEF Entry
  (* The legacy records are of the kind prune. *)
  <1>6. \A x \in P : entries[x].kind = "prune"
    <2>1. \A x \in DOMAIN entries : entries[x].at \in Nat /\ entries[x].at <= clock
      BY <1>1 DEF LogOK, IsLog, Entry
    <2>2. ASSUME NEW t \in DOMAIN legacy PROVE entries[legacy[t]].kind = "prune"
      <3> DEFINE Q == {x \in DOMAIN entries : entries[x].kind = "prune"}
      <3>1. legacy = [u \in {entries[x].target : x \in Q} |->
                        Latest(entries, {x \in Q : entries[x].target = u})]
        BY DEF IndexOK, LegacyPrunes
      <3>2. {x \in Q : entries[x].target = t} # {}
        BY <2>2, <3>1
      <3>3. Latest(entries, {x \in Q : entries[x].target = t}) \in {x \in Q : entries[x].target = t}
        <4>1. \A x \in {x \in Q : entries[x].target = t} :
                 entries[x].at \in Nat /\ entries[x].at <= clock
          BY <2>1
        <4> QED
          BY <1>1, <3>2, <4>1, LatestExists
      <3>4. legacy[t] = Latest(entries, {x \in Q : entries[x].target = t})
        BY <2>2, <3>1
      <3> QED
        BY <3>3, <3>4
    <2> QED
      BY <2>2 DEF CopiedPrunes
  <1>7. Continues(X, R)
    BY <1>9, <1>3, <1>4 DEF Continues, ParentsPresent
  <1>8. ASSUME NEW x \in DOMAIN X, X[x].kind \in EditKinds PROVE Curates(X, x, X[x].target)
    <2>1. x \in S /\ X[x] = R[x]
      BY <1>4, <1>6, <1>8 DEF EditKinds
    <2>2. entries[x].kind \in EditKinds /\ X[x].target = entries[x].target
      BY <1>5, <1>8, <2>1 DEF EditKinds
    <2> DEFINE t == entries[x].target
    <2>3. t \in SessionPath(entries, x) /\ Contributes(entries[t])
      BY <1>3, <2>1, <2>2 DEF Curated, Curates
    <2>4. t \in S
      <3>1. x \in SessionPath(entries, id)
        BY <2>1 DEF Retained
      <3>2. SessionPath(entries, x) \subseteq SessionPath(entries, id)
        BY <1>1, <3>1, PathOrder
      <3>3. entries[t].kind \notin {"label", "prune"}
        BY <2>3 DEF Contributes, ContextMessages, MessageKinds, AssistantKinds
      <3> QED
        BY <2>3, <3>2, <3>3 DEF Retained
    <2>5. t \in SessionPath(R, x)
      BY <1>1, <2>1, <2>3, <2>4, RechainedPath
    <2>6. Contributes(R[t])
      BY <1>5, <2>3, <2>4 DEF Contributes, ContextMessages
    <2>7. Curates(R, x, t)
      BY <2>5, <2>6 DEF Curates
    <2> QED
      BY <1>1, <1>3, <1>7, <2>1, <2>2, <2>7, CuratesStable
  <1> QED
    BY <1>8 DEF Curated, X

-----------------------------------------------------------------------------
(* The log and the file are curated, and the batch being appended names    *)
(* contributing entries of the path it is appended to.                     *)
CurationOK ==
    /\ ~up => todo = <<>>
    /\ ~failed => /\ Curated(entries) /\ Curated(file.lines)
                  /\ \A i \in DOMAIN todo : Curates(entries, leaf, todo[i].target)

(* While the process runs and no write has failed the file is the log, or  *)
(* there is none.                                                          *)
LEMMA FileCurated ==
    ASSUME IInv, up, ~failed, Curated(entries)
    PROVE  Curated(file.lines)
  <1>1. file = WholeFile(entries) \/ file = NoFile
    BY DEF IInv, DurableOK
  <1> QED
    BY <1>1, EmptyCurated DEF WholeFile, NoFile, File

(* A crash forgets the log and keeps a curated file.                       *)
LEMMA LostCurated ==
    ASSUME MemoryLost, ~failed' => Curated(file'.lines)
    PROVE  CurationOK'
  BY EmptyCurated DEF MemoryLost, CurationOK

(* _appendEntry keeps the log and the file curated.                        *)
LEMMA PushEntryCurated ==
    ASSUME IInv, IInv', CurationOK, NEW e \in Entry, e.at = clock + 1,
           e.parent \in DOMAIN entries \cup {NullId},
           (~failed /\ e.kind \in EditKinds) => Curates(entries, e.parent, e.target),
           NEW rest \in Seq(Change),
           \A i \in DOMAIN rest : e.parent = leaf /\ i + 1 \in DOMAIN todo /\ rest[i] = todo[i + 1],
           NEW newLabels, NEW o, PushEntry(e, newLabels, rest, o)
    PROVE  CurationOK'
  <1> DEFINE n == clock + 1
             E == With(entries, n, e)
  <1>1. clock \in Nat /\ LogOK(entries, clock) /\ n \in Nat /\ up
    BY DEF IInv, MemoryOK, PushEntry
  <1>2. ASSUME ~failed
        PROVE  /\ Curated(E)
               /\ \A t : Curates(entries, e.parent, t) => Curates(E, n, t)
    BY <1>1, <1>2, AppendCurated DEF CurationOK
  <1>3. LogOK(E, n)
    <2>1. e.parent <= clock
      BY <1>1 DEF LogOK, IsLog, Id, NullId
    <2> QED
      BY <1>1, <2>1, AppendOK
  <1>4. CASE o = "ok"
    <2>1. entries' = E /\ leaf' = n /\ todo' = rest /\ up' = up /\ failed' = failed
      BY <1>4 DEF PushEntry
    <2>2. ASSUME ~failed PROVE \A i \in DOMAIN rest : Curates(E, n, rest[i].target)
      BY <1>2, <2>2 DEF CurationOK
    <2>3. ~failed' => Curated(entries') /\ Curated(file'.lines)
      <3>1. ASSUME IInv', up', ~failed', Curated(entries') PROVE Curated(file'.lines)
        BY <3>1, EmptyCurated DEF IInv, DurableOK, WholeFile, NoFile, File
      <3> HIDE DEF E
      <3> QED
        BY <1>1, <1>2, <2>1, <3>1
    <2> HIDE DEF E, n
    <2> QED
      BY <1>1, <2>1, <2>2, <2>3 DEF CurationOK
  <1>5. CASE o = "throw"
    BY <1>1, <1>5 DEF PushEntry, CurationOK
  <1>6. CASE o = "crash"
    <2>1. /\ MemoryLost /\ failed' = failed
          /\ \/ /\ Persist /\ flushed
                /\ file' \in {AppendFragment(file), AppendUnterminated(file, n, e)}
             \/ file' \in CutShort(E)
      BY <1>6 DEF PushEntry, PersistMode
    <2>2. ASSUME ~failed, flushed,
                 file' \in {AppendFragment(file), AppendUnterminated(file, n, e)}
          PROVE  Curated(file'.lines)
      <3>1. file = WholeFile(entries) /\ FileOK(file, clock)
        BY <1>1, <2>2 DEF IInv, DurableOK
      <3>2. file.state = "session" /\ file.tail = "none" /\ file.lines = entries
        BY <3>1 DEF WholeFile, File
      <3>3. AppendUnterminated(file, n, e) = File("session", E, "whole")
        BY <3>2 DEF AppendUnterminated
      <3>4. AppendFragment(file) = File("session", entries, "partial")
        BY <1>1, <3>1, <3>2, AppendFragmentOK
      <3>5. file'.lines \in {entries, E}
        BY <2>2, <3>3, <3>4 DEF File
      <3> QED
        BY <1>2, <2>2, <3>5 DEF CurationOK
    <2>3. ASSUME ~failed, file' \in CutShort(E) PROVE Curated(file'.lines)
      BY <1>1, <1>2, <1>3, <2>3, CutCurated
    <2> QED
      BY <2>1, <2>2, <2>3, LostCurated
  <1> QED
    BY <1>4, <1>5, <1>6 DEF PushEntry

(* A validated batch names contributing entries of the active path.        *)
LEMMA BatchCurated ==
    ASSUME CurationOK, NEW c, BeginContextChanges(c)
    PROVE  CurationOK'
  <1>1. /\ up /\ todo' = c
        /\ UNCHANGED <<entries, leaf, file, up, failed>>
        /\ \A i \in DOMAIN c : c[i].target \in SessionPath(entries, leaf)
                               /\ Contributes(entries[c[i].target])
    BY DEF BeginContextChanges, Idle, ValidContextEdit, EditableTarget
  <1> QED
    BY <1>1 DEF CurationOK, Curates

(* Every step keeps the log, the file and the batch curated.               *)
LEMMA CurationStep == IInv /\ IInv' /\ IndexOK /\ CurationOK /\ [Next]_vars => CurationOK'
  <1> SUFFICES ASSUME IInv, IInv', IndexOK, CurationOK, [Next]_vars PROVE CurationOK'
    OBVIOUS
  <1>1. /\ leaf \in DOMAIN entries \cup {NullId}
        /\ DOMAIN entries \subseteq Nat /\ clock \in Nat /\ LogOK(entries, clock)
        /\ todo \in Seq(Change) /\ NullId \in Nat /\ <<>> \in Seq(Change)
    BY DEF IInv, MemoryOK, LogOK, IsLog, Id, NullId
  <1>2. /\ {"none", "checkpoint", "set", "cleared", "omit", "replace"} \subseteq EntryValues
        /\ {"compaction", "label", "context_edit", "context_edit_cancel", "branch_summary"}
              \subseteq EntryKinds
        /\ EditKinds \subseteq EntryKinds /\ Kinds \subseteq EntryKinds
        /\ \A k \in Kinds \cup {"compaction", "label", "branch_summary"} : k \notin EditKinds
    BY SessionAssumption
       DEF EntryValues, EditValues, EntryKinds, EditKinds, SettingKinds, MessageKinds, AssistantKinds
  (* An append outside a batch. *)
  <1>3. ASSUME NEW k \in EntryKinds, NEW p \in DOMAIN entries \cup {NullId}, NEW t \in Nat,
               NEW v \in EntryValues, NEW l, NEW o, PushEntry(NewEntry(k, p, t, v), l, <<>>, o),
               k \in EditKinds => Curates(entries, p, t)
        PROVE  CurationOK'
    <2> DEFINE e == NewEntry(k, p, t, v)
    <2>1. e \in Entry /\ e.at = clock + 1
      BY NewEntryOK
    <2>2. e.kind = k /\ e.parent = p /\ e.target = t
      BY DEF NewEntry
    <2> HIDE DEF e
    <2>3. PushEntry(e, l, <<>>, o)
      BY <1>3 DEF e
    <2>4. PICK rest \in Seq(Change) : rest = <<>> /\ \A i \in DOMAIN rest : FALSE
      <3>1. \A i \in DOMAIN <<>> : FALSE
        OBVIOUS
      <3> QED
        BY <1>1, <3>1, Zenon
    <2>5. \A i \in DOMAIN rest : e.parent = leaf /\ i + 1 \in DOMAIN todo /\ rest[i] = todo[i + 1]
      BY <2>4
    <2>6. (~failed /\ e.kind \in EditKinds) => Curates(entries, e.parent, e.target)
      BY <1>3, <2>2
    <2>7. PushEntry(e, l, rest, o)
      BY <2>3, <2>4
    <2> QED
      BY <2>1, <2>2, <2>5, <2>6, <2>7, PushEntryCurated
  <1>4. ASSUME NEW o, NEW k \in Kinds, AppendEntry(k, o) PROVE CurationOK'
    BY <1>1, <1>2, <1>3, <1>4 DEF AppendEntry
  <1>5. ASSUME NEW o, NEW f \in CompactionCuts(entries, leaf, legacy) \cup {NullId},
               AppendCompaction(f, o)
        PROVE  CurationOK'
    <2>1. f \in Nat
      BY <1>1, CutsInLog
    <2>2. PICK t \in Nat, v \in {"checkpoint", "none"} :
             PushEntry(NewEntry("compaction", leaf, t, v), labels, <<>>, o)
      BY <1>1, <1>5, <2>1 DEF AppendCompaction
    <2> QED
      BY <1>1, <1>2, <1>3, <2>2
  <1>6. ASSUME NEW o, NEW t \in DOMAIN entries, NEW v \in {"set", "cleared"},
               AppendLabelChange(t, v, o)
        PROVE  CurationOK'
    <2>1. PICK l : PushEntry(NewEntry("label", leaf, t, v), l, <<>>, o)
      BY <1>6 DEF AppendLabelChange
    <2> QED
      BY <1>1, <1>2, <1>3, <2>1
  <1>7. ASSUME NEW o, NEW t \in DOMAIN entries, NEW v \in {"omit", "replace"},
               AppendContextEdit(t, v, o)
        PROVE  CurationOK'
    <2>1. /\ PushEntry(NewEntry("context_edit", leaf, t, v), labels, <<>>, o)
          /\ Curates(entries, leaf, t)
      BY <1>7 DEF AppendContextEdit, ValidContextEdit, EditableTarget, Curates
    <2> QED
      BY <1>1, <1>2, <1>3, <2>1
  <1>8. ASSUME NEW o, NEW t \in DOMAIN entries, AppendContextEditCancel(t, o) PROVE CurationOK'
    <2>1. /\ PushEntry(NewEntry("context_edit_cancel", leaf, t, "none"), labels, <<>>, o)
          /\ Curates(entries, leaf, t)
      BY <1>8 DEF AppendContextEditCancel, EditableTarget, Curates
    <2> QED
      BY <1>1, <1>2, <1>3, <2>1
  <1>9. ASSUME NEW o, AppendNextContextChange(o) PROVE CurationOK'
    <2> DEFINE e == NewEntry(Head(todo).kind, leaf, Head(todo).target, Head(todo).value)
    <2>1. todo # <<>> /\ PushEntry(e, labels, Tail(todo), o)
      BY <1>9 DEF AppendNextContextChange
    <2>2. Head(todo) \in Change /\ Tail(todo) \in Seq(Change)
      BY <1>1, <2>1
    <2>3. /\ Head(todo).kind \in EntryKinds /\ Head(todo).target \in Nat
          /\ Head(todo).value \in EntryValues
      BY <1>2, <2>2 DEF Change
    <2>4. e \in Entry /\ e.at = clock + 1
      BY <1>1, <2>3, NewEntryOK
    <2>5. e.parent = leaf /\ e.target = todo[1].target /\ 1 \in DOMAIN todo
      BY <1>1, <2>1 DEF NewEntry
    <2>6. \A i \in DOMAIN Tail(todo) : i + 1 \in DOMAIN todo /\ Tail(todo)[i] = todo[i + 1]
      BY <1>1, <2>1
    <2>7. ~failed => Curates(entries, e.parent, e.target)
      BY <2>5 DEF CurationOK
    <2> HIDE DEF e
    <2> QED
      BY <1>1, <2>1, <2>2, <2>4, <2>5, <2>6, <2>7, PushEntryCurated
  <1>10. ASSUME NEW o, NEW id, BranchWithSummary(id, o) PROVE CurationOK'
    BY <1>1, <1>2, <1>3, <1>10 DEF BranchWithSummary
  <1>11. ASSUME NEW o, NEW id, CreateBranchedSession(id, o) PROVE CurationOK'
    <2> DEFINE X == ExtractedLog(entries, id, labels, legacy, clock)
               nl == Cardinality(CopiedLabels(entries, id, labels))
               np == Cardinality(CopiedPrunes(entries, id, legacy))
    <2>1. ~failed => Curated(X)
      BY <1>11, ExtractedCurated DEF CreateBranchedSession, CurationOK
    <2>2. nl \in Nat /\ np \in Nat /\ LogOK(X, clock + (nl + np))
      BY <1>1, ExtractedLogOK DEF IInv, MemoryOK
    <2>3. clock + (nl + np) \in Nat
      BY <1>1, <2>2
    <2> HIDE DEF X
    <2>4. ~failed => \A f \in CutShort(X) : Curated(f.lines)
      BY <2>1, <2>2, <2>3, CutCurated
    <2>5. \/ /\ entries' = X /\ todo = <<>> /\ todo' = todo /\ up /\ up' = up
             /\ failed' = (failed \/ o = "throw")
          \/ MemoryLost /\ file' \in CutShort(X) /\ failed' = failed
      BY <1>11 DEF CreateBranchedSession, Idle, X
    <2>6. CASE entries' = X /\ todo' = <<>> /\ up' /\ (failed => failed')
      <3>1. ASSUME IInv', up', ~failed', Curated(entries') PROVE Curated(file'.lines)
        BY <3>1, EmptyCurated DEF IInv, DurableOK, WholeFile, NoFile, File
      <3> QED
        BY <2>1, <2>6, <3>1 DEF CurationOK
    <2>7. CASE MemoryLost /\ file' \in CutShort(X) /\ failed' = failed
      BY <2>4, <2>7, LostCurated
    <2> QED
      BY <2>5, <2>6, <2>7 DEF IInv, MemoryOK
  <1>12. ASSUME NEW o, ForkFrom(o) PROVE CurationOK'
    <2>1. todo = <<>> /\ todo' = todo /\ failed' = failed
      BY <1>12 DEF ForkFrom, CurationOK
    <2>2. CASE o = "ok"
      BY <1>12, <2>1, <2>2 DEF ForkFrom, Load, CurationOK, WholeFile, File
    <2>3. CASE o \in {"throw", "crash"}
      <3>1. file' \in CutShort(file.lines) /\ UNCHANGED <<up, entries, leaf>>
        BY <1>12, <2>3 DEF ForkFrom
      <3>2. LogOK(file.lines, clock)
        BY DEF IInv, FileOK
      <3>3. ~failed => Curated(file'.lines)
        BY <1>1, <3>1, <3>2, CutCurated DEF CurationOK
      <3> QED
        BY <2>1, <3>1, <3>3 DEF CurationOK
    <2> QED
      BY <1>12, <2>2, <2>3 DEF ForkFrom
  <1>13. CASE Open
    <2>1. todo = <<>> /\ todo' = todo /\ failed' = failed /\ up'
      BY <1>13 DEF Open, CurationOK
    <2>2. \/ entries' = EmptyLog /\ file' \in {file, WholeFile(EmptyLog)}
          \/ entries' = file.lines /\ file' = Repaired(file)
      BY <1>13 DEF Open, Load
    <2>3. FileOK(file, clock)
      BY DEF IInv
    <2>4. WholeFile(EmptyLog).lines = EmptyLog /\ Repaired(file).lines = file.lines
      BY <2>3 DEF WholeFile, File, Repaired, FileOK
    <2> QED
      BY <2>1, <2>2, <2>4, EmptyCurated DEF CurationOK
  <1>14. CASE NewSession
    BY <1>14, EmptyCurated DEF NewSession, CurationOK, NoFile, File
  <1>15. CASE Exit \/ Crash
    BY <1>15, LostCurated DEF Exit, Crash, CurationOK
  <1>16. ASSUME NEW c, BeginContextChanges(c) PROVE CurationOK'
    BY <1>16, BatchCurated
  <1>17. CASE ResetLeaf \/ \E id \in NavigationTargets(entries) : Branch(id)
    BY <1>17 DEF ResetLeaf, Branch, MoveLeaf, Idle, CurationOK
  <1>18. CASE ReadContextChanges
    BY <1>18 DEF ReadContextChanges, CurationOK
  <1>19. CASE UNCHANGED vars
    BY <1>19 DEF vars, CurationOK
  <1>20. CASE Next
    BY <1>4, <1>5, <1>6, <1>7, <1>8, <1>9, <1>10, <1>11, <1>12, <1>13, <1>14, <1>15, <1>16,
       <1>17, <1>18, <1>20 DEF Next, AgentCurates, UserCurates
  <1> QED
    BY <1>19, <1>20

-----------------------------------------------------------------------------
(* A log in which every entry that has an earlier one is chained to the    *)
(* one before it.                                                          *)
Chained(X) ==
    /\ \A x, y \in DOMAIN X : X[x].at = X[y].at => x = y
    /\ \A x, y \in DOMAIN X : X[y].at < X[x].at =>
          X[x].parent \in DOMAIN X /\ X[y].at <= X[X[x].parent].at

(* In such a log the path of the last entry is the whole log.              *)
LEMMA ChainedPath ==
    ASSUME NEW X, NEW m \in Nat, LogOK(X, m), Chained(X)
    PROVE  SessionPath(X, LastEntry(X)) = DOMAIN X
  <1> DEFINE Bad == {x \in DOMAIN X : \E y \in DOMAIN X : X[y].at <= X[x].at /\ y \notin SessionPath(X, x)}
  <1>1. \A x \in DOMAIN X : X[x].at \in Nat
    BY DEF LogOK, IsLog, Entry
  <1>2. Bad = {}
    <2>1. SUFFICES ASSUME Bad # {} PROVE FALSE
      OBVIOUS
    <2>2. PICK x \in Bad : X[x].parent \notin Bad
      BY <2>1, TopOf
    <2>3. PICK y \in DOMAIN X : X[y].at <= X[x].at /\ y \notin SessionPath(X, x)
      BY <2>2
    <2>4. SessionPath(X, x) = {x} \cup SessionPath(X, X[x].parent)
      BY PathStep
    <2>5. X[y].at < X[x].at
      BY <1>1, <2>3, <2>4 DEF Chained
    <2>6. X[x].parent \in DOMAIN X /\ X[y].at <= X[X[x].parent].at
      BY <2>5 DEF Chained
    <2> QED
      BY <2>2, <2>3, <2>4, <2>6
  <1>3. LastEntry(X) \in DOMAIN X => \A y \in DOMAIN X : y \in SessionPath(X, LastEntry(X))
    BY <1>2, LastEntryOK
  <1>4. SessionPath(X, LastEntry(X)) \subseteq DOMAIN X
    BY PathInLog
  <1>5. DOMAIN X = {} \/ LastEntry(X) \in DOMAIN X
    BY LastEntryOK
  <1> QED
    BY <1>3, <1>4, <1>5

(* The entries of a path have different positions.                         *)
LEMMA PathInjective ==
    ASSUME NEW E, NEW n \in Nat, LogOK(E, n), NEW id \in DOMAIN E,
           NEW x \in SessionPath(E, id), NEW y \in SessionPath(E, id), E[x].at = E[y].at
    PROVE  x = y
  <1>1. x \in DOMAIN E /\ y \in DOMAIN E
    BY PathInLog
  <1>2. E[x].at \in Nat /\ E[y].at \in Nat
    BY <1>1 DEF LogOK, IsLog, Entry
  <1>3. y \in SessionPath(E, x) \/ x \in SessionPath(E, y)
    BY PathOrder
  <1>4. /\ y \in SessionPath(E, x) /\ y # x => E[y].at < E[x].at
        /\ x \in SessionPath(E, y) /\ x # y => E[x].at < E[y].at
    BY <1>1, PathOrder
  <1> QED
    BY <1>2, <1>3, <1>4

(* The extracted session is one chain: the retained path, then the labels, *)
(* then the legacy records.                                                *)
LEMMA ExtractedChain ==
    ASSUME NEW E, NEW n \in Nat, LogOK(E, n), NEW id \in DOMAIN E, NEW lbls \in SUBSET Nat,
           NEW leg, leg \in [DOMAIN leg -> DOMAIN E],
           \A x \in CopiedPrunes(E, id, leg) : E[x].kind = "prune",
           NEW X, X = ExtractedLog(E, id, lbls, leg, n)
    PROVE  /\ Chained(X)
           /\ \A x \in CopiedPrunes(E, id, leg) :
                X[x].target = E[x].target /\ X[x].value = E[x].value
  <1> DEFINE S == Retained(E, id)
             R == Rechain(E, id)
             P == CopiedPrunes(E, id, leg)
             nl == Cardinality(CopiedLabels(E, id, lbls))
             np == Cardinality(P)
             prune == InSomeOrder(P)
             last(i) == IF i = 0 THEN LastEntry(R) ELSE n + i
             Earlier(w) == {v \in S : E[v].at < E[w].at}
  <1>1. /\ nl \in Nat /\ np \in Nat /\ ExtractedShape(X, E, id, lbls, leg, n)
        /\ LogOK(X, n + (nl + np))
    BY ExtractedLogOK
  <1>2. /\ DOMAIN R = S /\ S \subseteq DOMAIN E /\ LogOK(R, n)
        /\ \A w \in S : R[w].at = E[w].at
        /\ \A w \in S : R[w].parent = IF Earlier(w) = {} THEN NullId ELSE Latest(E, Earlier(w))
    <2>1. DOMAIN R = S /\ S \subseteq DOMAIN E /\ LogOK(R, n)
      BY RechainOK
    <2>2. \A w \in S : E[w] \in Entry
      BY <2>1 DEF LogOK, IsLog
    <2>3. \A w \in S : \E t : R[w] = [E[w] EXCEPT
             !.parent = IF Earlier(w) = {} THEN NullId ELSE Latest(E, Earlier(w)), !.target = t]
      BY DEF Rechain
    <2> HIDE DEF R, Earlier
    <2>4. \A w \in S : /\ R[w].at = E[w].at
                       /\ R[w].parent = IF Earlier(w) = {} THEN NullId ELSE Latest(E, Earlier(w))
      BY <2>2, <2>3 DEF Entry
    <2> QED
      BY <2>1, <2>4
  <1>3. /\ \A w \in DOMAIN E : E[w].at \in Nat /\ E[w].at <= n /\ E[w] \in Entry
        /\ P \subseteq DOMAIN E /\ \A w \in P : w \notin S
        /\ S \subseteq SessionPath(E, id)
    BY DEF LogOK, IsLog, Entry, CopiedPrunes, Retained
  <1>4. /\ DOMAIN X = S \cup {n + i : i \in 1..nl} \cup P
        /\ \A x \in S : X[x] = R[x]
        /\ \A i \in 1..nl : \E t :
              X[n + i] = [kind |-> "label", parent |-> last(i - 1), at |-> n + i,
                          target |-> t, value |-> "set"]
        /\ \A x \in P \ S : \E j \in 1..np :
              /\ prune[j] = x
              /\ X[x] = [E[x] EXCEPT !.at = n + nl + j,
                                     !.parent = IF j = 1 THEN last(nl) ELSE prune[j - 1]]
    BY <1>1 DEF ExtractedShape
  <1>5. prune \in [1..np -> P] /\ \A i, j \in 1..np : prune[i] = prune[j] => i = j
    <2>1. IsFiniteSet(P)
      BY <1>3, FS_Subset DEF LogOK, IsLog
    <2> QED
      BY <2>1, SomeOrder
  <1> HIDE DEF S, R, P, nl, np, prune
  (* The entries that are not of the path, by position. *)
  <1>6. ASSUME NEW i \in 1..nl
        PROVE  \A x : x = n + i =>
                  /\ x \in DOMAIN X \ S /\ x \notin P /\ X[x].at = n + i
                  /\ X[x].parent = last(i - 1)
    <2>1. SUFFICES ASSUME NEW x, x = n + i
                   PROVE  /\ x \in DOMAIN X \ S /\ x \notin P /\ X[x].at = n + i
                          /\ X[x].parent = last(i - 1)
      OBVIOUS
    <2>2. \A w \in DOMAIN E : w <= n /\ w \in Nat
      BY DEF LogOK, IsLog, Id
    <2>3. x \in DOMAIN X
      BY <1>4, <2>1
    <2>5. x \notin DOMAIN E
      BY <1>1, <2>1, <2>2
    <2>6. x \notin S /\ x \notin P
      BY <1>2, <1>3, <2>5
    <2>4. PICK t : X[x] = [kind |-> "label", parent |-> last(i - 1), at |-> n + i,
                           target |-> t, value |-> "set"]
      BY <1>4, <2>1
    <2> QED
      BY <2>3, <2>6, <2>4
  <1>7. ASSUME NEW x \in P
        PROVE  /\ X[x].target = E[x].target /\ X[x].value = E[x].value
               /\ \E j \in 1..np : /\ prune[j] = x /\ X[x].at = n + nl + j
                                   /\ X[x].parent = IF j = 1 THEN last(nl) ELSE prune[j - 1]
    <2>1. PICK j \in 1..np :
             /\ prune[j] = x
             /\ X[x] = [E[x] EXCEPT !.at = n + nl + j,
                                    !.parent = IF j = 1 THEN last(nl) ELSE prune[j - 1]]
      BY <1>3, <1>4
    <2>2. PICK a, p : a = n + nl + j /\ p = IF j = 1 THEN last(nl) ELSE prune[j - 1]
      OBVIOUS
    <2>3. X[x] = [E[x] EXCEPT !.at = a, !.parent = p]
      BY <2>1, <2>2
    <2>4. E[x] \in Entry
      BY <1>3
    <2>5. X[x].target = E[x].target /\ X[x].value = E[x].value /\ X[x].at = a /\ X[x].parent = p
      BY <2>3, <2>4 DEF Entry
    <2> QED
      BY <2>1, <2>2, <2>5
  <1> DEFINE Added == DOMAIN X \ S
  <1>8. \A x \in Added : x \in P \/ \E i \in 1..nl : x = n + i
    BY <1>4
  <1>9. ASSUME NEW x \in Added
        PROVE  /\ X[x].at \in Nat /\ X[x].at > n
               /\ X[x].at = n + 1 => X[x].parent = LastEntry(R)
               /\ X[x].at # n + 1 => X[x].parent \in Added /\ X[X[x].parent].at = X[x].at - 1
    <2>1. CASE x \in P
      <3>1. PICK j \in 1..np : /\ prune[j] = x /\ X[x].at = n + nl + j
                               /\ X[x].parent = IF j = 1 THEN last(nl) ELSE prune[j - 1]
        BY <1>7, <2>1
      <3>2. CASE j # 1
        <4>1. j - 1 \in 1..np /\ X[x].parent = prune[j - 1] /\ prune[j - 1] \in P
          BY <1>1, <1>5, <3>1, <3>2
        <4>2. PICK k \in 1..np : prune[k] = prune[j - 1] /\ X[prune[j - 1]].at = n + nl + k
          BY <1>7, <4>1
        <4>3. k = j - 1
          BY <1>5, <4>1, <4>2
        <4>4. prune[j - 1] \in Added
          BY <1>3, <1>4, <4>1
        <4> QED
          BY <1>1, <3>1, <4>1, <4>2, <4>3, <4>4
      <3>3. CASE j = 1 /\ nl = 0
        BY <1>1, <3>1, <3>3
      <3>4. CASE j = 1 /\ nl # 0
        <4>1. nl \in 1..nl /\ X[x].parent = n + nl
          BY <1>1, <3>1, <3>4
        <4>2. PICK q : q = n + nl
          OBVIOUS
        <4>3. q \in Added /\ X[q].at = n + nl
          BY <1>6, <4>1, <4>2
        <4> QED
          BY <1>1, <3>1, <3>4, <4>1, <4>2, <4>3
      <3> QED
        BY <3>2, <3>3, <3>4
    <2>2. CASE x \notin P
      <3>1. PICK i \in 1..nl : x = n + i
        BY <1>8, <2>2
      <3>2. X[x].at = n + i /\ X[x].parent = last(i - 1)
        BY <1>6, <3>1
      <3>3. CASE i = 1
        BY <3>2, <3>3
      <3>4. CASE i # 1
        <4>1. i - 1 \in 1..nl /\ X[x].parent = n + (i - 1)
          BY <1>1, <3>2, <3>4
        <4>2. PICK q : q = n + (i - 1)
          OBVIOUS
        <4>3. q \in Added /\ X[q].at = n + (i - 1)
          BY <1>6, <4>1, <4>2
        <4> QED
          BY <1>1, <3>2, <3>4, <4>1, <4>2, <4>3
      <3> QED
        BY <3>3, <3>4
    <2> QED
      BY <2>1, <2>2
  <1>10. ASSUME NEW x \in Added, NEW y \in Added, X[x].at = X[y].at PROVE x = y
    <2>1. ASSUME NEW z \in Added
          PROVE  \/ \E i \in 1..nl : z = n + i /\ X[z].at = n + i
                 \/ \E j \in 1..np : z = prune[j] /\ X[z].at = n + nl + j
      BY <1>6, <1>7, <1>8
    <2> QED
      BY <1>1, <1>10, <2>1
  (* The entries of the path. *)
  <1>11. \A x \in S : x \in DOMAIN X /\ X[x].at = E[x].at /\ X[x].at \in Nat /\ X[x].at <= n
    BY <1>2, <1>3, <1>4
  <1>12. ASSUME NEW x \in DOMAIN X, NEW y \in DOMAIN X, X[x].at = X[y].at PROVE x = y
    <2>1. CASE x \in S /\ y \in S
      <3>1. E[x].at = E[y].at /\ x \in SessionPath(E, id) /\ y \in SessionPath(E, id)
        BY <1>3, <1>11, <1>12, <2>1
      <3> QED
        BY <3>1, PathInjective
    <2>2. CASE (x \in S /\ y \notin S) \/ (x \notin S /\ y \in S)
      BY <1>9, <1>11, <1>12, <2>2
    <2>3. CASE x \notin S /\ y \notin S
      BY <1>10, <1>12, <2>3
    <2> QED
      BY <2>1, <2>2, <2>3
  <1>13. ASSUME NEW x \in DOMAIN X, NEW y \in DOMAIN X, X[y].at < X[x].at
         PROVE  X[x].parent \in DOMAIN X /\ X[y].at <= X[X[x].parent].at
    <2>1. CASE x \in S
      <3>1. y \in S
        BY <1>9, <1>11, <1>13, <2>1
      <3>2. y \in Earlier(x)
        BY <1>11, <1>13, <2>1, <3>1
      <3>3. \A u \in Earlier(x) : E[u].at \in Nat /\ E[u].at <= n
        BY <1>2, <1>3
      <3>4. /\ Latest(E, Earlier(x)) \in Earlier(x)
            /\ E[y].at <= E[Latest(E, Earlier(x))].at
        BY <3>2, <3>3, LatestExists
      <3>5. X[x].parent = Latest(E, Earlier(x))
        <4>1. R[x].parent = IF Earlier(x) = {} THEN NullId ELSE Latest(E, Earlier(x))
          BY <1>2, <2>1
        <4>2. X[x] = R[x]
          BY <1>4, <2>1
        <4> HIDE DEF Earlier
        <4> QED
          BY <3>2, <4>1, <4>2
      <3> QED
        BY <1>11, <3>1, <3>4, <3>5
    <2>2. CASE x \notin S /\ X[x].at = n + 1
      <3>1. X[x].parent = LastEntry(R) /\ y \in S
        BY <1>9, <1>13, <2>2
      <3>2. LastEntry(R) \in S /\ R[y].at <= R[LastEntry(R)].at
        BY <1>2, <3>1, LastEntryOK
      <3>3. X[y] = R[y] /\ X[LastEntry(R)] = R[LastEntry(R)] /\ LastEntry(R) \in DOMAIN X
        BY <1>4, <3>1, <3>2
      <3> QED
        BY <3>1, <3>2, <3>3
    <2>3. CASE x \notin S /\ X[x].at # n + 1
      <3>1. /\ X[x].at \in Nat /\ X[x].parent \in DOMAIN X
            /\ X[X[x].parent].at = X[x].at - 1
        BY <1>9, <2>3
      <3>2. X[y].at \in Nat
        BY <1>9, <1>11
      <3> QED
        BY <1>13, <3>1, <3>2
    <2> QED
      BY <2>1, <2>2, <2>3
  <1> QED
    BY <1>7, <1>12, <1>13 DEF Chained, P

-----------------------------------------------------------------------------
(* The change that decides about an entry: the last edit or cancel of its  *)
(* path that names it, or else the legacy record.                          *)
EditsOf(E, path, t) == {x \in path : E[x].kind \in EditKinds /\ E[x].target = t}

Decides(E, leg, x, edits, changes) ==
    /\ edits # {} => /\ Latest(E, edits) \in edits
                     /\ x \in DOMAIN changes <=> E[Latest(E, edits)].kind = "context_edit"
                     /\ x \in DOMAIN changes => changes[x] = Latest(E, edits)
    /\ edits = {} => /\ x \in DOMAIN changes <=> x \in DOMAIN leg
                     /\ x \in DOMAIN changes => changes[x] = leg[x]

(* ContextChanges picks, for every entry, what Decides says.               *)
LEMMA ChangeOf ==
    ASSUME NEW E, NEW n \in Nat, LogOK(E, n), NEW path \in SUBSET DOMAIN E, NEW leg, NEW x
    PROVE  Decides(E, leg, x, EditsOf(E, path, x), ContextChanges(E, path, leg))
  <1> DEFINE Ops(t) == {y \in path : E[y].kind \in EditKinds /\ E[y].target = t}
             Edited == {t \in {E[y].target : y \in path} :
                          Ops(t) # {} /\ E[Latest(E, Ops(t))].kind = "context_edit"}
             Baseline == {t \in DOMAIN leg : Ops(t) = {}}
             changes == ContextChanges(E, path, leg)
  <1>1. changes = [t \in Edited \cup Baseline |-> IF t \in Edited THEN Latest(E, Ops(t)) ELSE leg[t]]
    BY DEF ContextChanges
  <1>2. EditsOf(E, path, x) = Ops(x)
    BY DEF EditsOf
  <1>3. Ops(x) # {} => Latest(E, Ops(x)) \in Ops(x) /\ x \in {E[y].target : y \in path}
    <2>1. \A y \in Ops(x) : E[y].at \in Nat /\ E[y].at <= n
      BY DEF LogOK, IsLog, Entry
    <2> QED
      BY <2>1, LatestExists
  <1>4. /\ x \in Edited <=> Ops(x) # {} /\ E[Latest(E, Ops(x))].kind = "context_edit"
        /\ x \in Baseline <=> x \in DOMAIN leg /\ Ops(x) = {}
    BY <1>3
  <1> HIDE DEF changes, Ops, Edited, Baseline
  <1>5. /\ x \in DOMAIN changes <=> x \in Edited \/ x \in Baseline
        /\ x \in Edited => changes[x] = Latest(E, Ops(x))
        /\ x \in Baseline /\ x \notin Edited => changes[x] = leg[x]
    BY <1>1
  <1> QED
    BY <1>2, <1>3, <1>4, <1>5 DEF Decides, changes

(* What an entry is projected to depends on its kind and value, and on the *)
(* kind and value of its change.                                           *)
LEMMA ProjectSame ==
    ASSUME NEW e, NEW f, e.kind = f.kind, e.value = f.value, NEW has \in BOOLEAN, NEW c, NEW d,
           has => c.kind = d.kind /\ c.value = d.value
    PROVE  ProjectEntry(e, has, c) = ProjectEntry(f, has, d)
  <1>1. ContextMessages(e) = ContextMessages(f) /\ ReplacedRole(e) = ReplacedRole(f)
    BY DEF ContextMessages, ReplacedRole
  <1>2. CASE ~has
    BY <1>1, <1>2 DEF ProjectEntry
  <1>3. CASE has
    <2> DEFINE checkpoint(u) == IF u.kind = "compaction" /\ u.value = "checkpoint"
                                THEN <<Message("system", "raw")>> ELSE <<>>
               recorded(u, w) == CASE w.value = "included"   -> ContextMessages(u)
                                   [] w.value = "excluded"   -> <<>>
                                   [] w.value = "summarized" -> checkpoint(u) \o <<Message("note", "summary")>>
    <2>1. c.kind = d.kind /\ c.value = d.value /\ checkpoint(e) = checkpoint(f)
      BY <1>3
    <2> HIDE DEF checkpoint
    <2>2. recorded(e, c) = recorded(f, d)
      BY <1>1, <2>1, Zenon
    <2> HIDE DEF recorded
    <2>3. \A u, w : ProjectEntry(u, has, w) =
             IF w.kind = "prune" THEN recorded(u, w)
             ELSE IF w.value \in {"omit", "omitSummary"} THEN <<>>
             ELSE IF ContextMessages(u) = <<>> \/ (u.kind = "system" /\ w.value = "replace")
             THEN ContextMessages(u)
             ELSE checkpoint(u) \o <<Message(ReplacedRole(u),
                                             IF w.value = "replace" THEN "edited" ELSE "summary")>>
      BY <1>3, Zenon DEF ProjectEntry, recorded, checkpoint
    <2> QED
      BY <1>1, <2>1, <2>2, <2>3
  <1> QED
    BY <1>2, <1>3

(* An entry without messages shows nothing, edited or not.                 *)
LEMMA ProjectNothing ==
    ASSUME NEW e, ContextMessages(e) = <<>>, NEW has \in BOOLEAN, NEW c, has => c.kind # "prune"
    PROVE  ProjectEntry(e, has, c) = <<>>
  BY DEF ProjectEntry

(* The legacy records of a log, each with its target.                      *)
LEMMA LegacyOf ==
    ASSUME NEW E, NEW n \in Nat, LogOK(E, n), NEW t \in DOMAIN LegacyPrunes(E)
    PROVE  /\ LegacyPrunes(E)[t] \in DOMAIN E
           /\ E[LegacyPrunes(E)[t]].kind = "prune" /\ E[LegacyPrunes(E)[t]].target = t
  <1> DEFINE P == {x \in DOMAIN E : E[x].kind = "prune"}
             Of == {x \in P : E[x].target = t}
  <1>1. LegacyPrunes(E) = [u \in {E[x].target : x \in P} |-> Latest(E, {x \in P : E[x].target = u})]
    BY DEF LegacyPrunes
  <1>2. Of # {} /\ LegacyPrunes(E)[t] = Latest(E, Of)
    BY <1>1
  <1>3. \A x \in Of : E[x].at \in Nat /\ E[x].at <= n
    BY DEF LogOK, IsLog, Entry
  <1>4. Latest(E, Of) \in Of
    BY <1>2, <1>3, LatestExists
  <1> QED
    BY <1>2, <1>4

-----------------------------------------------------------------------------
(* Every legacy record names an earlier entry, one that contributes to the *)
(* context unless the log has lost it.                                     *)
LegacyTargets(E) ==
    \A x \in DOMAIN E : E[x].kind = "prune" =>
        /\ E[x].target < x
        /\ E[x].target \in DOMAIN E => Contributes(E[E[x].target])

(* An entry that is not retained by an extraction.                         *)
Dropped == {"label", "prune"}

(* The retained entries keep kind, value and position, and what they name, *)
(* but for the first kept entry of a compaction; only these entries and    *)
(* entries that show nothing are on the two paths.                         *)
SameEntries(E, X, S, path) ==
    /\ S \subseteq path /\ S \subseteq DOMAIN X /\ path \subseteq DOMAIN E
    /\ \A x \in path : E[x].kind \in Dropped <=> x \notin S
    /\ \A x \in DOMAIN X : X[x].kind \in Dropped <=> x \notin S
    /\ \A x \in S : /\ X[x].kind = E[x].kind /\ X[x].value = E[x].value /\ X[x].at = E[x].at
                    /\ E[x].kind # "compaction" => X[x].target = E[x].target

(* Among the retained entries the newest compaction is the same.           *)
LEMMA SameCompaction ==
    ASSUME NEW E, NEW X, NEW n \in Nat, NEW m \in Nat, LogOK(E, n), LogOK(X, m),
           NEW S, NEW path, SameEntries(E, X, S, path)
    PROVE  /\ LatestCompaction(X, DOMAIN X) = LatestCompaction(E, path)
           /\ LatestCompaction(E, path) # NullId =>
                LatestCompaction(E, path) \in S /\ E[LatestCompaction(E, path)].kind = "compaction"
  <1> DEFINE C == {x \in path : E[x].kind = "compaction"}
  <1>1. {x \in DOMAIN X : X[x].kind = "compaction"} = C /\ C \subseteq S
    BY DEF SameEntries, Dropped
  <1>2. \A x \in C : X[x].at = E[x].at /\ E[x].at \in Nat /\ E[x].at <= n
    BY <1>1 DEF SameEntries, LogOK, IsLog, Entry
  <1>3. C # {} => Latest(E, C) \in C
    BY <1>2, LatestExists
  <1>4. Latest(X, C) = Latest(E, C)
    BY <1>2, LatestSame
  <1> QED
    BY <1>1, <1>3, <1>4 DEF LatestCompaction

(* The settings of the two paths are decided by the same entries.          *)
LEMMA SameSettings ==
    ASSUME NEW E, NEW X, NEW n \in Nat, LogOK(E, n),
           NEW S, NEW path, SameEntries(E, X, S, path)
    PROVE  ContextSettings(X, DOMAIN X) = ContextSettings(E, path)
  <1> DEFINE Of(kinds) == {x \in path : E[x].kind \in kinds}
             LastOf(kinds) == IF Of(kinds) = {} THEN NullId ELSE Latest(E, Of(kinds))
             NewOf(kinds) == {x \in DOMAIN X : X[x].kind \in kinds}
             NewLast(kinds) == IF NewOf(kinds) = {} THEN NullId ELSE Latest(X, NewOf(kinds))
  <1>1. ASSUME NEW kinds, kinds \cap Dropped = {} PROVE NewLast(kinds) = LastOf(kinds)
    <2>1. NewOf(kinds) = Of(kinds) /\ \A x \in Of(kinds) : X[x].at = E[x].at
      BY <1>1 DEF SameEntries
    <2> HIDE DEF Of, NewOf
    <2>2. Latest(X, Of(kinds)) = Latest(E, Of(kinds))
      BY <2>1, LatestSame
    <2> QED
      BY <2>1, <2>2
  <1>2. /\ {"thinking_level_change"} \cap Dropped = {}
        /\ ({"model_change"} \cup AssistantKinds) \cap Dropped = {}
    BY DEF Dropped, AssistantKinds
  <1>3. /\ NewLast({"thinking_level_change"}) = LastOf({"thinking_level_change"})
        /\ NewLast({"model_change"} \cup AssistantKinds) = LastOf({"model_change"} \cup AssistantKinds)
    BY <1>1, <1>2
  <1>4. ContextSettings(X, DOMAIN X) =
           [thinkingLevel |-> NewLast({"thinking_level_change"}),
            model |-> NewLast({"model_change"} \cup AssistantKinds)]
    BY DEF ContextSettings
  <1>5. ContextSettings(E, path) =
           [thinkingLevel |-> LastOf({"thinking_level_change"}),
            model |-> LastOf({"model_change"} \cup AssistantKinds)]
    BY DEF ContextSettings
  <1> HIDE DEF LastOf, NewLast
  <1> QED
    BY <1>3, <1>4, <1>5

(* A compaction that kept from a dropped entry keeps the same retained     *)
(* entries from the one that follows it.                                   *)
LEMMA SameKept ==
    ASSUME NEW E, NEW n \in Nat, LogOK(E, n), NEW id \in DOMAIN E,
           NEW X, NEW m \in Nat, LogOK(X, m),
           SameEntries(E, X, Retained(E, id), SessionPath(E, id)),
           \A x \in DOMAIN X \ Retained(E, id) : X[x].at > n,
           \A x \in Retained(E, id) : X[x] = Rechain(E, id)[x],
           NEW c \in Retained(E, id), E[c].kind = "compaction",
           NEW x \in Retained(E, id), E[x].at < E[c].at
    PROVE  LET f == E[c].target
               g == X[c].target
           IN  (f \in SessionPath(E, id) /\ E[f].at < E[c].at /\ E[f].at <= E[x].at)
               <=> (g \in DOMAIN X /\ X[g].at < X[c].at /\ X[g].at <= X[x].at)
  <1> DEFINE path == SessionPath(E, id)
             S == Retained(E, id)
             Later(t) == {y \in S : E[t].at < E[y].at}
             first(t) == CHOOSE y \in Later(t) : \A z \in Later(t) : E[y].at <= E[z].at
             f == E[c].target
             g == X[c].target
  <1>1. /\ S \subseteq path /\ path \subseteq DOMAIN E /\ S \subseteq DOMAIN X
        /\ \A y \in S : X[y].at = E[y].at
        /\ \A y \in DOMAIN E : E[y].at \in Nat /\ E[y].at <= n /\ E[y] \in Entry
        /\ \A y \in DOMAIN X : X[y].at \in Nat
    BY DEF SameEntries, LogOK, IsLog, Entry
  <1>2. g = IF f \in path \ S /\ Later(f) # {} THEN first(f) ELSE f
    <2>1. PICK p : Rechain(E, id)[c] = [E[c] EXCEPT !.parent = p, !.target =
                      IF f \in path \ S /\ Later(f) # {} THEN first(f) ELSE f]
      BY DEF Rechain
    <2>2. PICK t : t = IF f \in path \ S /\ Later(f) # {} THEN first(f) ELSE f
      OBVIOUS
    <2>3. X[c] = [E[c] EXCEPT !.parent = p, !.target = t] /\ E[c] \in Entry
      BY <1>1, <2>1, <2>2
    <2>4. X[c].target = t
      BY <2>3 DEF Entry
    <2> QED
      BY <2>2, <2>4
  <1>3. Later(f) # {} => first(f) \in Later(f) /\ \A z \in Later(f) : E[first(f)].at <= E[z].at
    <2>1. \A y \in Later(f) : E[y].at \in Nat
      BY <1>1
    <2> QED
      BY <2>1, FirstExists
  <1>4. \A y \in S : f \in path /\ y # f => E[y].at # E[f].at
    BY <1>1, PathInjective
  <1>5. c \in S /\ x \in S
    OBVIOUS
  <1>6. \A y \in DOMAIN X \ S : X[y].at > n
    OBVIOUS
  <1> HIDE DEF S, path, first, f, g
  <1>7. (g \in DOMAIN X /\ X[g].at < X[c].at /\ X[g].at <= X[x].at)
        <=> (g \in S /\ E[g].at < E[c].at /\ E[g].at <= E[x].at)
    BY <1>1, <1>5, <1>6
  <1>8. CASE f \in S
    BY <1>1, <1>2, <1>7, <1>8 DEF f, g, path
  <1>9. CASE f \in path \ S /\ Later(f) # {}
    <2>1. g \in S /\ E[f].at < E[g].at /\ \A z \in Later(f) : E[g].at <= E[z].at
      BY <1>2, <1>3, <1>9
    <2>2. E[f].at <= E[x].at => x \in Later(f)
      BY <1>1, <1>4, <1>5, <1>9
    <2>3. E[f].at < E[c].at => c \in Later(f)
      BY <1>5
    <2>4. /\ E[f].at \in Nat /\ E[g].at \in Nat /\ E[x].at \in Nat /\ E[c].at \in Nat
      BY <1>1, <1>5, <1>9, <2>1
    <2> QED
      BY <1>7, <1>9, <2>1, <2>2, <2>3, <2>4 DEF f, g, path
  <1>10. CASE f \in path \ S /\ Later(f) = {}
    <2>1. g = f /\ g \notin S
      BY <1>2, <1>10
    <2>2. ~(E[f].at <= E[x].at)
      BY <1>1, <1>4, <1>5, <1>10
    <2> QED
      BY <1>7, <2>1, <2>2 DEF f, g, path
  <1>11. CASE f \notin path
    BY <1>1, <1>2, <1>7, <1>11 DEF f, g, path
  <1> QED
    BY <1>8, <1>9, <1>10, <1>11

(* The context of the two paths is the same as far as retained entries go. *)
LEMMA SameContext ==
    ASSUME NEW E, NEW n \in Nat, LogOK(E, n), NEW id \in DOMAIN E,
           NEW X, NEW m \in Nat, LogOK(X, m),
           SameEntries(E, X, Retained(E, id), SessionPath(E, id)),
           \A x \in DOMAIN X \ Retained(E, id) : X[x].at > n,
           \A x \in Retained(E, id) : X[x] = Rechain(E, id)[x],
           NEW x \in Retained(E, id)
    PROVE  x \in ContextEntries(X, DOMAIN X) <=> x \in ContextEntries(E, SessionPath(E, id))
  <1> DEFINE path == SessionPath(E, id)
             S == Retained(E, id)
             c == LatestCompaction(E, path)
  <1>1. /\ S \subseteq path /\ S \subseteq DOMAIN X
        /\ \A y \in S : X[y].at = E[y].at /\ X[y].kind = E[y].kind
    BY DEF SameEntries
  <1>2. LatestCompaction(X, DOMAIN X) = c /\ (c # NullId => c \in S /\ E[c].kind = "compaction")
    BY SameCompaction
  <1>3. CASE c = NullId
    BY <1>1, <1>2, <1>3 DEF ContextEntries
  <1>4. CASE c # NullId
    <2>1. c \in S /\ E[c].kind = "compaction"
      BY <1>2, <1>4
    <2> DEFINE f == E[c].target
               g == X[c].target
    <2>2. E[x].at < E[c].at =>
             ((f \in path /\ E[f].at < E[c].at /\ E[f].at <= E[x].at)
              <=> (g \in DOMAIN X /\ X[g].at < X[c].at /\ X[g].at <= X[x].at))
      BY <2>1, SameKept
    <2> DEFINE left == f \in path /\ E[f].at < E[c].at /\ E[f].at <= E[x].at
               right == g \in DOMAIN X /\ X[g].at < X[c].at /\ X[g].at <= X[x].at
    <2>3. x \in S /\ X[x].at = E[x].at /\ X[c].at = E[c].at /\ X[x].kind = E[x].kind
      BY <1>1, <2>1
    <2> HIDE DEF c, S, path
    <2>4. x \in ContextEntries(E, path) <=>
             x = c \/ (left /\ E[x].at < E[c].at /\ E[x].kind # "system") \/ E[c].at < E[x].at
      BY <1>1, <1>4, <2>3 DEF ContextEntries, c
    <2>5. x \in ContextEntries(X, DOMAIN X) <=>
             x = c \/ (right /\ X[x].at < X[c].at /\ X[x].kind # "system") \/ X[c].at < X[x].at
      BY <1>1, <1>2, <1>4, <2>3 DEF ContextEntries
    <2> HIDE DEF left, right, f, g
    <2>6. E[x].at < E[c].at => (left <=> right)
      BY <2>2 DEF left, right
    <2>7. x \in ContextEntries(X, DOMAIN X) <=> x \in ContextEntries(E, path)
      BY <2>3, <2>4, <2>5, <2>6
    <2> QED
      BY <2>7 DEF path
  <1> QED
    BY <1>3, <1>4

(* The legacy index of the extracted session: the records of retained      *)
(* targets, still the same entries.                                        *)
LEMMA SameLegacy ==
    ASSUME NEW E, NEW n \in Nat, LogOK(E, n), NEW id \in DOMAIN E,
           NEW X, NEW m \in Nat, LogOK(X, m), NEW S, S = Retained(E, id),
           NEW P, P = CopiedPrunes(E, id, LegacyPrunes(E)),
           \A x \in P : x \in DOMAIN X /\ X[x].kind = "prune" /\ X[x].target = E[x].target,
           \A x \in DOMAIN X : X[x].kind = "prune" => x \in P
    PROVE  /\ DOMAIN LegacyPrunes(X) = DOMAIN LegacyPrunes(E) \cap S
           /\ \A t \in DOMAIN LegacyPrunes(X) : LegacyPrunes(X)[t] = LegacyPrunes(E)[t]
  <1> DEFINE leg == LegacyPrunes(E)
             T == DOMAIN leg \cap S
             Q == {x \in DOMAIN X : X[x].kind = "prune"}
  <1>1. Q = P
    OBVIOUS
  <1>2. LegacyPrunes(X) = [t \in {X[x].target : x \in Q} |-> Latest(X, {x \in Q : X[x].target = t})]
    BY DEF LegacyPrunes
  <1>3. \A t \in T : E[leg[t]].target = t
    BY LegacyOf
  <1> HIDE DEF leg, Q
  <1>4. P = {leg[t] : t \in T}
    BY DEF leg, CopiedPrunes
  <1>5. {X[x].target : x \in Q} = T
    BY <1>1, <1>3, <1>4
  <1>6. ASSUME NEW t \in T PROVE Latest(X, {x \in Q : X[x].target = t}) = leg[t]
    <2>1. {x \in Q : X[x].target = t} = {leg[t]}
      BY <1>1, <1>3, <1>4
    <2>2. \A x \in {leg[t]} : X[x].at \in Nat /\ X[x].at <= m
      BY <1>4 DEF LogOK, IsLog, Entry
    <2>3. Latest(X, {leg[t]}) \in {leg[t]}
      BY <2>2, LatestExists
    <2> QED
      BY <2>1, <2>3
  <1> QED
    BY <1>2, <1>5, <1>6 DEF leg

(* What keeps an extraction's retained entries is unchanged by chaining.   *)
LEMMA RechainSame ==
    ASSUME NEW E, NEW n \in Nat, LogOK(E, n), NEW id, NEW x \in Retained(E, id)
    PROVE  LET R == Rechain(E, id) IN
           /\ R[x].kind = E[x].kind /\ R[x].value = E[x].value /\ R[x].at = E[x].at
           /\ E[x].kind # "compaction" => R[x].target = E[x].target
  <1>1. E[x] \in Entry
    BY PathInLog DEF LogOK, IsLog, Retained
  <1>2. PICK p, t : /\ Rechain(E, id)[x] = [E[x] EXCEPT !.parent = p, !.target = t]
                    /\ E[x].kind # "compaction" => t = E[x].target
    BY DEF Rechain
  <1> QED
    BY <1>1, <1>2 DEF Entry

(* The legacy records of retained entries, copied.                         *)
SameRecords(E, X, S, leg, newleg) ==
    /\ DOMAIN newleg = DOMAIN leg \cap S
    /\ \A t \in DOMAIN newleg : /\ newleg[t] = leg[t]
                                /\ X[leg[t]].kind = E[leg[t]].kind
                                /\ X[leg[t]].value = E[leg[t]].value

(* The changes that decide about a retained entry are the same on both     *)
(* paths, or are copies of each other.                                     *)
LEMMA SameChange ==
    ASSUME NEW E, NEW n \in Nat, LogOK(E, n), NEW X, NEW m \in Nat, LogOK(X, m),
           NEW S, NEW path, SameEntries(E, X, S, path), NEW x \in S,
           NEW leg, NEW newleg, SameRecords(E, X, S, leg, newleg)
    PROVE  LET old == ContextChanges(E, path, leg)
               new == ContextChanges(X, DOMAIN X, newleg)
           IN  /\ x \in DOMAIN new <=> x \in DOMAIN old
               /\ x \in DOMAIN old => /\ X[new[x]].kind = E[old[x]].kind
                                      /\ X[new[x]].value = E[old[x]].value
  <1> DEFINE old == ContextChanges(E, path, leg)
             new == ContextChanges(X, DOMAIN X, newleg)
             edits == EditsOf(E, path, x)
             d == Latest(E, edits)
  <1>1. path \in SUBSET DOMAIN E /\ DOMAIN X \in SUBSET DOMAIN X
    BY DEF SameEntries
  <1>2. EditsOf(X, DOMAIN X, x) = edits /\ edits \subseteq S
    BY DEF EditsOf, SameEntries, Dropped, EditKinds
  <1>3. \A y \in S : X[y].kind = E[y].kind /\ X[y].value = E[y].value /\ X[y].at = E[y].at
    BY DEF SameEntries
  <1>4. Latest(X, edits) = d
    BY <1>2, <1>3, LatestSame
  <1> HIDE DEF old, new, edits, d
  <1>5. /\ edits # {} => /\ d \in edits
                         /\ x \in DOMAIN old <=> E[d].kind = "context_edit"
                         /\ x \in DOMAIN old => old[x] = d
        /\ edits = {} => /\ x \in DOMAIN old <=> x \in DOMAIN leg
                         /\ x \in DOMAIN old => old[x] = leg[x]
    <2>1. Decides(E, leg, x, edits, old)
      BY <1>1, ChangeOf DEF edits, old
    <2> QED
      BY <2>1 DEF Decides, d
  <1>6. /\ edits # {} => /\ x \in DOMAIN new <=> X[d].kind = "context_edit"
                         /\ x \in DOMAIN new => new[x] = d
        /\ edits = {} => /\ x \in DOMAIN new <=> x \in DOMAIN newleg
                         /\ x \in DOMAIN new => new[x] = newleg[x]
    <2>1. Decides(X, newleg, x, EditsOf(X, DOMAIN X, x), new)
      BY <1>1, ChangeOf DEF new
    <2>2. Decides(X, newleg, x, edits, new)
      BY <1>2, <2>1
    <2> QED
      BY <1>4, <2>2 DEF Decides
  <1>7. CASE edits = {}
    <2>1. x \in DOMAIN newleg <=> x \in DOMAIN leg
      BY DEF SameRecords
    <2> QED
      BY <1>5, <1>6, <1>7, <2>1 DEF SameRecords, old, new
  <1>8. CASE edits # {}
    <2>1. d \in S
      BY <1>2, <1>5, <1>8
    <2> QED
      BY <1>3, <1>5, <1>6, <1>8, <2>1 DEF old, new
  <1> QED
    BY <1>7, <1>8

(* An entry that an extraction drops shows nothing: no legacy record can   *)
(* name it.                                                                *)
LEMMA DroppedShowsNothing ==
    ASSUME NEW E, NEW n \in Nat, LogOK(E, n), LegacyTargets(E),
           NEW path \in SUBSET DOMAIN E, NEW x \in path, E[x].kind \in Dropped,
           NEW changes, changes = ContextChanges(E, path, LegacyPrunes(E))
    PROVE  ProjectEntry(E[x], x \in DOMAIN changes,
                        IF x \in DOMAIN changes THEN E[changes[x]] ELSE E[x]) = <<>>
  <1> DEFINE edits == EditsOf(E, path, x)
             d == Latest(E, edits)
             leg == LegacyPrunes(E)
  <1>1. ContextMessages(E[x]) = <<>>
    BY DEF Dropped, ContextMessages, MessageKinds, AssistantKinds
  <1>2. x \notin DOMAIN leg
    <2>1. ~Contributes(E[x])
      BY <1>1 DEF Contributes
    <2> QED
      BY <2>1, LegacyOf DEF LegacyTargets
  <1>3. /\ edits # {} => d \in edits /\ (x \in DOMAIN changes => changes[x] = d)
        /\ edits = {} => (x \in DOMAIN changes <=> x \in DOMAIN leg)
    <2>1. changes = ContextChanges(E, path, leg)
      OBVIOUS
    <2>2. path \in SUBSET DOMAIN E
      OBVIOUS
    <2> HIDE DEF leg
    <2>3. Decides(E, leg, x, edits, changes)
      BY <2>1, <2>2, ChangeOf DEF edits
    <2> QED
      BY <2>3 DEF Decides, d
  <1>4. \A y \in edits : E[y].kind # "prune"
    BY DEF EditsOf, EditKinds
  <1> HIDE DEF edits, d, leg
  <1>5. x \in DOMAIN changes => E[changes[x]].kind # "prune"
    BY <1>2, <1>3, <1>4
  <1> DEFINE has == x \in DOMAIN changes
             d2 == IF has THEN E[changes[x]] ELSE E[x]
  <1>6. has \in BOOLEAN /\ (has => d2.kind # "prune")
    BY <1>5
  <1> HIDE DEF has, d2
  <1>7. ProjectEntry(E[x], has, d2) = <<>>
    BY <1>1, <1>6, ProjectNothing
  <1> QED
    BY <1>7 DEF has, d2

(* The extracted session is a chain of copies.                             *)
Copies(E, X, id, n) ==
    LET S == Retained(E, id) IN
    /\ Chained(X)
    /\ SameEntries(E, X, S, SessionPath(E, id))
    /\ SameRecords(E, X, S, LegacyPrunes(E), LegacyPrunes(X))
    /\ \A x \in DOMAIN X \ S : X[x].at > n
    /\ \A x \in S : X[x] = Rechain(E, id)[x]
    /\ \A x \in DOMAIN X : X[x].kind = "prune" =>
          /\ x \in DOMAIN E /\ E[x].kind = "prune" /\ E[x].target \in S
          /\ X[x].target = E[x].target /\ X[x].value = E[x].value

(* createBranchedSession makes such a session.                             *)
LEMMA ExtractionCopies ==
    ASSUME NEW E, NEW n \in Nat, LogOK(E, n), NEW id \in DOMAIN E, NEW lbls \in SUBSET Nat,
           NEW X, X = ExtractedLog(E, id, lbls, LegacyPrunes(E), n)
    PROVE  Copies(E, X, id, n) /\ \E m \in Nat : LogOK(X, m)
  <1> DEFINE leg == LegacyPrunes(E)
             newleg == LegacyPrunes(X)
             path == SessionPath(E, id)
             S == Retained(E, id)
             P == CopiedPrunes(E, id, leg)
             nl == Cardinality(CopiedLabels(E, id, lbls))
             np == Cardinality(P)
             m == n + (nl + np)
  <1>1. /\ leg \in [DOMAIN leg -> DOMAIN E]
        /\ \A t \in DOMAIN leg : E[leg[t]].kind = "prune" /\ E[leg[t]].target = t
    BY IndexesOK, LegacyOf
  <1>2. \A x \in P : x \in DOMAIN E /\ E[x].kind = "prune" /\ E[x].target \in S
    BY <1>1 DEF CopiedPrunes
  <1>3. nl \in Nat /\ np \in Nat /\ m \in Nat /\ LogOK(X, m)
        /\ ExtractedShape(X, E, id, lbls, leg, n)
    BY <1>1, ExtractedLogOK
  <1>4. Chained(X) /\ \A x \in P : X[x].target = E[x].target /\ X[x].value = E[x].value
    <2>1. X = ExtractedLog(E, id, lbls, leg, n)
      OBVIOUS
    <2>2. \A x \in CopiedPrunes(E, id, leg) : E[x].kind = "prune"
      BY <1>2
    <2>3. leg \in [DOMAIN leg -> DOMAIN E]
      BY <1>1
    <2> HIDE DEF leg, P
    <2>4. Chained(X) /\ \A x \in CopiedPrunes(E, id, leg) :
             X[x].target = E[x].target /\ X[x].value = E[x].value
      BY <2>1, <2>2, <2>3, ExtractedChain
    <2> QED
      BY <2>4 DEF P
  <1>5. /\ S \subseteq DOMAIN X /\ P \subseteq DOMAIN X
        /\ \A x \in S : X[x] = Rechain(E, id)[x]
        /\ \A x \in DOMAIN X \ S : /\ X[x].at > n
                                   /\ x \in P => X[x].kind = E[x].kind
                                   /\ x \notin P => X[x].kind = "label"
    BY <1>3 DEF ExtractedShape
  <1>6. /\ path \in SUBSET DOMAIN E /\ S \subseteq path
        /\ \A x \in path : E[x].kind \in Dropped <=> x \notin S
    BY PathInLog DEF Retained, Dropped
  <1>7. \A x \in S : /\ X[x].kind = E[x].kind /\ X[x].value = E[x].value /\ X[x].at = E[x].at
                     /\ E[x].kind # "compaction" => X[x].target = E[x].target
    BY <1>5, RechainSame
  <1>8. \A x \in P : x \notin S
    BY <1>2, <1>6 DEF Dropped
  <1> HIDE DEF leg, newleg, path, S, P, nl, np
  <1>9. \A x \in DOMAIN X : X[x].kind \in Dropped <=> x \notin S
    BY <1>2, <1>5, <1>6, <1>7 DEF Dropped
  <1>10. SameEntries(E, X, S, path)
    BY <1>5, <1>6, <1>7, <1>9 DEF SameEntries
  <1>11. \A x \in DOMAIN X : X[x].kind = "prune" => x \in P
    BY <1>5, <1>9 DEF Dropped
  <1>12. DOMAIN newleg = DOMAIN leg \cap S /\ \A t \in DOMAIN newleg : newleg[t] = leg[t]
    <2>1. P = CopiedPrunes(E, id, LegacyPrunes(E)) /\ S = Retained(E, id)
      BY DEF P, leg, S
    <2>2. \A x \in P : x \in DOMAIN X /\ X[x].kind = "prune" /\ X[x].target = E[x].target
      BY <1>2, <1>4, <1>5, <1>8
    <2> HIDE DEF m
    <2>3. /\ DOMAIN LegacyPrunes(X) = DOMAIN LegacyPrunes(E) \cap S
          /\ \A t \in DOMAIN LegacyPrunes(X) : LegacyPrunes(X)[t] = LegacyPrunes(E)[t]
      BY <1>3, <1>11, <2>1, <2>2, SameLegacy
    <2> QED
      BY <2>3 DEF leg, newleg
  <1>13. SameRecords(E, X, S, leg, newleg)
    <2>1. \A t \in DOMAIN leg \cap S : leg[t] \in P
      BY DEF P, CopiedPrunes, S
    <2> QED
      BY <1>2, <1>4, <1>5, <1>8, <1>12, <2>1 DEF SameRecords
  <1>14. \A x \in DOMAIN X : X[x].kind = "prune" =>
            /\ x \in DOMAIN E /\ E[x].kind = "prune" /\ E[x].target \in S
            /\ X[x].target = E[x].target /\ X[x].value = E[x].value
    BY <1>2, <1>4, <1>11
  <1> QED
    BY <1>3, <1>4, <1>5, <1>10, <1>13, <1>14 DEF Copies, leg, newleg, path, S

(* The context of a path survives the extraction of the path.              *)
LEMMA ExtractionContext ==
    ASSUME NEW E, NEW n \in Nat, LogOK(E, n), LegacyTargets(E), NEW id \in DOMAIN E,
           NEW lbls \in SUBSET Nat,
           NEW X, X = ExtractedLog(E, id, lbls, LegacyPrunes(E), n)
    PROVE  /\ ContextOf(X, LastEntry(X), LegacyPrunes(X)) = ContextOf(E, id, LegacyPrunes(E))
           /\ LegacyTargets(X)
  <1> DEFINE leg == LegacyPrunes(E)
             newleg == LegacyPrunes(X)
             path == SessionPath(E, id)
             S == Retained(E, id)
             c == LatestCompaction(E, path)
             old == ContextChanges(E, path, leg)
             new == ContextChanges(X, DOMAIN X, newleg)
             shown(x) == IF E[x].kind = "compaction" /\ x # c THEN <<>>
                         ELSE ProjectEntry(E[x], x \in DOMAIN old,
                                           IF x \in DOMAIN old THEN E[old[x]] ELSE E[x])
             newShown(x) == IF X[x].kind = "compaction" /\ x # LatestCompaction(X, DOMAIN X) THEN <<>>
                            ELSE ProjectEntry(X[x], x \in DOMAIN new,
                                              IF x \in DOMAIN new THEN X[new[x]] ELSE X[x])
             proj == Projection(E, id, leg)
             newProj == Projection(X, LastEntry(X), newleg)
  <1>1. Copies(E, X, id, n) /\ \E m \in Nat : LogOK(X, m)
    BY ExtractionCopies
  <1>2. PICK m \in Nat : LogOK(X, m)
    BY <1>1
  <1>3. /\ Chained(X) /\ SameEntries(E, X, S, path) /\ SameRecords(E, X, S, leg, newleg)
        /\ \A x \in DOMAIN X \ S : X[x].at > n
        /\ \A x \in S : X[x] = Rechain(E, id)[x]
        /\ \A x \in DOMAIN X : X[x].kind = "prune" =>
              x \in DOMAIN E /\ E[x].kind = "prune" /\ E[x].target \in S /\ X[x].target = E[x].target
    BY <1>1 DEF Copies
  <1>4. SessionPath(X, LastEntry(X)) = DOMAIN X
    BY <1>2, <1>3, ChainedPath
  <1> HIDE DEF leg, newleg, path, S, c, old, new
  <1>5. /\ path \in SUBSET DOMAIN E /\ S \subseteq path /\ S \subseteq DOMAIN X
        /\ \A x \in path : E[x].kind \in Dropped <=> x \notin S
        /\ \A x \in DOMAIN X : X[x].kind \in Dropped <=> x \notin S
    BY <1>3 DEF SameEntries
  <1>6. \A x \in S : /\ X[x].kind = E[x].kind /\ X[x].value = E[x].value /\ X[x].at = E[x].at
                     /\ E[x].kind # "compaction" => X[x].target = E[x].target
    BY <1>3 DEF SameEntries
  <1>7. LatestCompaction(X, DOMAIN X) = c /\ (c # NullId => c \in S)
    BY <1>2, <1>3, SameCompaction DEF c
  <1>8. ASSUME NEW x \in S
         PROVE  x \in ContextEntries(X, DOMAIN X) <=> x \in ContextEntries(E, path)
    BY <1>2, <1>3, SameContext DEF S, path
  <1>9. LegacyTargets(X)
    <2>1. ASSUME NEW x \in DOMAIN X, X[x].kind = "prune"
          PROVE  X[x].target < x /\ Contributes(X[X[x].target])
      <3>1. /\ x \in DOMAIN E /\ E[x].kind = "prune"
            /\ X[x].target = E[x].target /\ E[x].target \in S
        BY <1>3, <2>1
      <3>2. E[x].target < x /\ Contributes(E[E[x].target])
        BY <1>5, <3>1 DEF LegacyTargets
      <3> QED
        BY <1>6, <3>1, <3>2 DEF Contributes, ContextMessages
    <2> QED
      BY <2>1 DEF LegacyTargets
  (* What the entries show. *)
  <1>10. ASSUME NEW x \in S PROVE newShown(x) = shown(x)
    <2>1. /\ x \in DOMAIN new <=> x \in DOMAIN old
          /\ x \in DOMAIN old => /\ X[new[x]].kind = E[old[x]].kind
                                 /\ X[new[x]].value = E[old[x]].value
      BY <1>2, <1>3, SameChange DEF old, new
    <2>2. X[x].kind = E[x].kind /\ X[x].value = E[x].value
      BY <1>6
    <2> DEFINE has == x \in DOMAIN old
               d == IF has THEN E[old[x]] ELSE E[x]
               nd == IF has THEN X[new[x]] ELSE X[x]
    <2>3. has \in BOOLEAN /\ (has => nd.kind = d.kind /\ nd.value = d.value)
      BY <2>1
    <2> HIDE DEF has, d, nd
    <2>4. ProjectEntry(X[x], has, nd) = ProjectEntry(E[x], has, d)
      BY <2>2, <2>3, ProjectSame
    <2>5. x \in DOMAIN new <=> has
      BY <2>1 DEF has
    <2> QED
      BY <1>7, <2>2, <2>4, <2>5 DEF has, d, nd
  <1>11. ASSUME NEW x \in path, x \notin S PROVE shown(x) = <<>>
    <2>1. E[x].kind \in Dropped /\ E[x].kind # "compaction"
      BY <1>5, <1>11 DEF Dropped
    <2> QED
      BY <1>5, <2>1, DroppedShowsNothing DEF old, leg
  <1>12. ASSUME NEW x \in DOMAIN X, x \notin S PROVE newShown(x) = <<>>
    <2>1. X[x].kind \in Dropped /\ X[x].kind # "compaction"
      BY <1>5, <1>12 DEF Dropped
    <2> QED
      BY <1>2, <1>9, <2>1, DroppedShowsNothing DEF new, newleg
  <1>13. /\ proj = [x \in ContextEntries(E, path) |-> shown(x)]
         /\ newProj = [x \in ContextEntries(X, DOMAIN X) |-> newShown(x)]
    BY <1>4 DEF Projection, path, old, new, c
  <1>14. /\ ContextEntries(E, path) \subseteq path
         /\ ContextEntries(X, DOMAIN X) \subseteq DOMAIN X
    BY <1>5, <1>7 DEF ContextEntries, c
  <1> HIDE DEF shown, newShown, proj, newProj
  <1>15. Visible(newProj) = Visible(proj) /\ Visible(proj) \subseteq S
    BY <1>8, <1>10, <1>11, <1>12, <1>13, <1>14 DEF Visible
  <1>16. \A x \in Visible(proj) : newProj[x] = proj[x]
    BY <1>8, <1>10, <1>13, <1>15 DEF Visible
  <1>17. \A x, y \in Visible(proj) : Before(X, DOMAIN X, x, y) <=> Before(E, path, x, y)
    BY <1>6, <1>7, <1>15 DEF Before, c
  <1>18. ContextSettings(X, DOMAIN X) = ContextSettings(E, path)
    BY <1>3, SameSettings
  <1> DEFINE V == Visible(proj)
             messages == [x \in V |-> proj[x]]
             order == {p \in V \X V : Before(E, path, p[1], p[2])}
             newOrder == {p \in V \X V : Before(X, DOMAIN X, p[1], p[2])}
  <1>19. [x \in V |-> newProj[x]] = messages
    BY <1>16
  <1>20. newOrder = order
    BY <1>17
  <1>21. ContextOf(E, id, LegacyPrunes(E)) =
           [messages |-> messages, order |-> order, settings |-> ContextSettings(E, path)]
    BY DEF ContextOf, proj, path, leg
  <1>22. ContextOf(X, LastEntry(X), LegacyPrunes(X)) =
           [messages |-> [x \in V |-> newProj[x]], order |-> newOrder,
            settings |-> ContextSettings(X, DOMAIN X)]
    <2> HIDE DEF V
    <2>1. Visible(newProj) = V
      BY <1>15 DEF V
    <2> QED
      BY <1>4, <2>1 DEF ContextOf, newProj, newleg
  <1> HIDE DEF V, messages, order, newOrder
  <1> QED
    BY <1>9, <1>18, <1>19, <1>20, <1>21, <1>22

-----------------------------------------------------------------------------
(* The legacy records stay with entries that contribute: a part of a log   *)
(* keeps this, and so does an append, which never writes such a record.    *)
LEMMA PartTargets ==
    ASSUME NEW E, LegacyTargets(E), NEW F, DOMAIN F \subseteq DOMAIN E,
           \A x \in DOMAIN F : F[x] = E[x]
    PROVE  LegacyTargets(F)
  BY DEF LegacyTargets

(* The empty log has no legacy record.                                     *)
LEMMA EmptyTargets == LegacyTargets(EmptyLog)
  BY DEF LegacyTargets, EmptyLog

(* An append writes no legacy record and disturbs none.                    *)
LEMMA AppendTargets ==
    ASSUME NEW E, NEW n \in Nat, LogOK(E, n), LegacyTargets(E), NEW e \in Entry, e.kind # "prune"
    PROVE  LegacyTargets(With(E, n + 1, e))
  <1> DEFINE W == With(E, n + 1, e)
  <1>1. /\ DOMAIN W = DOMAIN E \cup {n + 1} /\ W[n + 1] = e
        /\ \A x \in DOMAIN E : W[x] = E[x] /\ x # n + 1 /\ x <= n /\ x \in Nat /\ E[x].target \in Nat
    BY DEF With, LogOK, IsLog, Id, Entry
  <1> HIDE DEF W
  <1>2. ASSUME NEW x \in DOMAIN W, W[x].kind = "prune"
        PROVE  /\ W[x].target < x
               /\ W[x].target \in DOMAIN W => Contributes(W[W[x].target])
    <2>1. x \in DOMAIN E /\ W[x] = E[x]
      BY <1>1, <1>2
    <2>2. E[x].target < x /\ E[x].target # n + 1
      BY <1>1, <1>2, <2>1 DEF LegacyTargets
    <2> QED
      BY <1>1, <1>2, <2>1, <2>2 DEF LegacyTargets
  <1> QED
    BY <1>2 DEF LegacyTargets, W

(* A file cut short holds records of the log that was written.             *)
LEMMA CutTargets ==
    ASSUME NEW E, LegacyTargets(E), NEW f \in CutShort(E)
    PROVE  LegacyTargets(f.lines)
  <1>1. f.lines = EmptyLog \/ \E a : f.lines = UpTo(E, a)
    BY DEF CutShort, File, NoFile
  <1>2. ASSUME NEW a PROVE LegacyTargets(UpTo(E, a))
    BY PartTargets DEF UpTo
  <1> QED
    BY <1>1, <1>2, EmptyTargets

(* One line more at the end of the file, whole, torn or unterminated.      *)
LEMMA LineTargets ==
    ASSUME NEW f, NEW n \in Nat, FileOK(f, n), LegacyTargets(f.lines),
           NEW e \in Entry, e.kind # "prune",
           NEW g \in {AppendLine(f, n + 1, e), AppendFragment(f), AppendUnterminated(f, n + 1, e)}
    PROVE  LegacyTargets(g.lines)
  <1>1. f = File(f.state, f.lines, f.tail) /\ LogOK(f.lines, n)
    BY DEF FileOK
  <1>2. LegacyTargets(With(f.lines, n + 1, e))
    BY <1>1, AppendTargets
  <1>3. LegacyTargets(RunInto(f).lines)
    <2>1. LegacyTargets(Without(f.lines, LastEntry(f.lines)))
      BY PartTargets DEF Without
    <2>2. RunInto(f).lines \in {EmptyLog, Without(f.lines, LastEntry(f.lines)), f.lines}
      BY <1>1 DEF RunInto, File
    <2> QED
      BY <2>1, <2>2, EmptyTargets
  <1>4. g.lines \in {EmptyLog, With(f.lines, n + 1, e), RunInto(f).lines}
    <2>1. PICK r : r = RunInto(f)
      OBVIOUS
    <2>2. r = File(r.state, r.lines, r.tail)
      BY <1>1, <2>1 DEF RunInto, File
    <2>3. AppendFragment(f).lines \in {EmptyLog, r.lines}
      BY <2>1, <2>2 DEF AppendFragment, File
    <2>4. AppendLine(f, n + 1, e).lines \in {EmptyLog, With(f.lines, n + 1, e), r.lines}
      BY <1>1, <2>1, <2>2 DEF AppendLine, File
    <2>5. AppendUnterminated(f, n + 1, e).lines \in {EmptyLog, With(f.lines, n + 1, e), r.lines}
      BY <2>3 DEF AppendUnterminated, File
    <2> QED
      BY <2>1, <2>3, <2>4, <2>5
  <1> QED
    BY <1>2, <1>3, <1>4, EmptyTargets

LegacyOK == LegacyTargets(entries) /\ LegacyTargets(file.lines)

(* _appendEntry and _persist, whatever the outcome of the write.           *)
LEMMA PushEntryTargets ==
    ASSUME IInv, LegacyOK, NEW e \in Entry, e.kind # "prune",
           NEW newLabels, NEW rest, NEW o, PushEntry(e, newLabels, rest, o)
    PROVE  LegacyOK'
  <1> DEFINE n == clock + 1
             E == With(entries, n, e)
  <1>1. clock \in Nat /\ LogOK(entries, clock) /\ FileOK(file, clock)
    BY DEF IInv, MemoryOK
  <1>2. LegacyTargets(E) /\ WholeFile(E).lines = E
    BY <1>1, AppendTargets DEF LegacyOK, WholeFile, File
  <1>3. \A f \in CutShort(E) : LegacyTargets(f.lines)
    BY <1>2, CutTargets
  <1>4. \A g \in {AppendLine(file, n, e), AppendFragment(file), AppendUnterminated(file, n, e)} :
           LegacyTargets(g.lines)
    BY <1>1, LineTargets DEF LegacyOK
  <1>5. entries' = E \/ entries' = EmptyLog
    BY DEF PushEntry, MemoryLost
  <1>6. \/ file' \in {file, WholeFile(E)} \/ file' \in CutShort(E)
        \/ file' \in {AppendLine(file, n, e), AppendFragment(file), AppendUnterminated(file, n, e)}
    <2>1. PersistMode(E) \in {"skip", "append", "create"}
      BY DEF PersistMode
    <2> HIDE DEF E, n
    <2> QED
      BY <2>1 DEF PushEntry, E, n
  <1> HIDE DEF E, n
  <1> QED
    BY <1>2, <1>3, <1>4, <1>5, <1>6, EmptyTargets DEF LegacyOK

(* Every step keeps the legacy records with entries that contribute.       *)
LEMMA LegacyStep == IInv /\ IndexOK /\ LegacyOK /\ [Next]_vars => LegacyOK'
  <1> SUFFICES ASSUME IInv, IndexOK, LegacyOK, [Next]_vars PROVE LegacyOK'
    OBVIOUS
  <1>1. /\ leaf \in DOMAIN entries \cup {NullId} /\ DOMAIN entries \subseteq Nat
        /\ clock \in Nat /\ LogOK(entries, clock) /\ todo \in Seq(Change) /\ NullId \in Nat
        /\ labels \in SUBSET Nat /\ FileOK(file, clock)
        /\ legacy \in [DOMAIN legacy -> DOMAIN entries]
    BY DEF IInv, MemoryOK, LogOK, IsLog, Id, NullId
  <1>2. /\ {"none", "checkpoint", "set", "cleared", "omit", "replace"} \subseteq EntryValues
        /\ {"compaction", "label", "branch_summary"} \cup EditKinds \cup Kinds \subseteq EntryKinds
        /\ \A k \in {"compaction", "label", "branch_summary"} \cup EditKinds \cup Kinds : k # "prune"
        /\ {"context_edit", "context_edit_cancel"} \subseteq EditKinds
    BY SessionAssumption
       DEF EntryValues, EditValues, EntryKinds, EditKinds, SettingKinds, MessageKinds, AssistantKinds
  <1>3. ASSUME NEW k \in {"compaction", "label", "branch_summary"} \cup EditKinds \cup Kinds,
               NEW p \in DOMAIN entries \cup {NullId}, NEW t \in Nat, NEW v \in EntryValues,
               NEW l, NEW rest, NEW o, PushEntry(NewEntry(k, p, t, v), l, rest, o)
        PROVE  LegacyOK'
    <2> DEFINE e == NewEntry(k, p, t, v)
    <2>1. k \in EntryKinds /\ k # "prune"
      BY <1>2
    <2>2. e \in Entry /\ e.kind # "prune"
      BY <1>1, <2>1, NewEntryOK DEF NewEntry
    <2> HIDE DEF e
    <2>3. PushEntry(e, l, rest, o)
      BY <1>3 DEF e
    <2> QED
      BY <2>2, <2>3, PushEntryTargets
  <1>4. ASSUME NEW o, NEW k \in Kinds, AppendEntry(k, o) PROVE LegacyOK'
    BY <1>1, <1>2, <1>3, <1>4 DEF AppendEntry
  <1>5. ASSUME NEW o, NEW f \in CompactionCuts(entries, leaf, legacy) \cup {NullId},
               AppendCompaction(f, o)
        PROVE  LegacyOK'
    <2>1. f \in Nat
      BY <1>1, CutsInLog
    <2>2. PICK t \in Nat, v \in {"checkpoint", "none"} :
             PushEntry(NewEntry("compaction", leaf, t, v), labels, <<>>, o)
      BY <1>1, <1>5, <2>1 DEF AppendCompaction
    <2> QED
      BY <1>1, <1>2, <1>3, <2>2
  <1>6. ASSUME NEW o, NEW t \in DOMAIN entries, NEW v \in {"set", "cleared"},
               AppendLabelChange(t, v, o)
        PROVE  LegacyOK'
    <2>1. PICK l : PushEntry(NewEntry("label", leaf, t, v), l, <<>>, o)
      BY <1>6 DEF AppendLabelChange
    <2> QED
      BY <1>1, <1>2, <1>3, <2>1
  <1>7. ASSUME NEW o, NEW t \in DOMAIN entries, NEW v \in {"omit", "replace"},
               AppendContextEdit(t, v, o)
        PROVE  LegacyOK'
    BY <1>1, <1>2, <1>3, <1>7 DEF AppendContextEdit
  <1>8. ASSUME NEW o, NEW t \in DOMAIN entries, AppendContextEditCancel(t, o) PROVE LegacyOK'
    BY <1>1, <1>2, <1>3, <1>8 DEF AppendContextEditCancel
  <1>9. ASSUME NEW o, AppendNextContextChange(o) PROVE LegacyOK'
    <2>1. Head(todo) \in Change
      BY <1>1, <1>9 DEF AppendNextContextChange
    <2>2. PushEntry(NewEntry(Head(todo).kind, leaf, Head(todo).target, Head(todo).value),
                    labels, Tail(todo), o)
      BY <1>9 DEF AppendNextContextChange
    <2>3. Head(todo).kind \in EditKinds /\ Head(todo).target \in Nat /\ Head(todo).value \in EntryValues
      BY <2>1 DEF Change
    <2> QED
      BY <1>1, <1>3, <2>2, <2>3
  <1>10. ASSUME NEW o, NEW id, BranchWithSummary(id, o) PROVE LegacyOK'
    BY <1>1, <1>2, <1>3, <1>10 DEF BranchWithSummary
  <1>11. ASSUME NEW o, NEW id, CreateBranchedSession(id, o) PROVE LegacyOK'
    <2> DEFINE X == ExtractedLog(entries, id, labels, legacy, clock)
    <2>1. LegacyTargets(X)
      <3>1. id \in DOMAIN entries /\ legacy = LegacyPrunes(entries) /\ LegacyTargets(entries)
        BY <1>11 DEF CreateBranchedSession, IndexOK, LegacyOK
      <3> QED
        BY <1>1, <3>1, ExtractionContext
    <2> HIDE DEF X
    <2>2. \A f \in CutShort(X) : LegacyTargets(f.lines)
      BY <2>1, CutTargets
    <2>3. WholeFile(X).lines = X /\ NoFile.lines = EmptyLog
      BY DEF WholeFile, NoFile, File
    <2>4. /\ entries' = X \/ entries' = EmptyLog
          /\ file' \in {NoFile, WholeFile(X)} \cup CutShort(X)
      BY <1>11 DEF CreateBranchedSession, MemoryLost, X
    <2> QED
      BY <2>1, <2>2, <2>3, <2>4, EmptyTargets DEF LegacyOK
  <1>12. ASSUME NEW o, ForkFrom(o) PROVE LegacyOK'
    <2>1. WholeFile(file.lines).lines = file.lines
      BY DEF WholeFile, File
    <2>2. \A f \in CutShort(file.lines) : LegacyTargets(f.lines)
      BY CutTargets DEF LegacyOK
    <2> QED
      BY <1>12, <2>1, <2>2 DEF ForkFrom, Load, LegacyOK
  <1>13. CASE Open
    <2>1. \/ entries' = EmptyLog /\ file' \in {file, WholeFile(EmptyLog)}
          \/ entries' = file.lines /\ file' = Repaired(file)
      BY <1>13 DEF Open, Load
    <2>2. WholeFile(EmptyLog).lines = EmptyLog /\ Repaired(file).lines = file.lines
      BY <1>1 DEF WholeFile, File, Repaired, FileOK
    <2> QED
      BY <2>1, <2>2, EmptyTargets DEF LegacyOK
  <1>14. CASE NewSession
    BY <1>14, EmptyTargets DEF NewSession, LegacyOK, NoFile, File
  <1>15. CASE Exit \/ Crash
    BY <1>15, EmptyTargets DEF Exit, Crash, MemoryLost, LegacyOK
  <1>16. ASSUME NEW c, BeginContextChanges(c) PROVE LegacyOK'
    BY <1>16 DEF BeginContextChanges, LegacyOK
  <1>17. CASE ResetLeaf \/ \E id \in NavigationTargets(entries) : Branch(id)
    BY <1>17 DEF ResetLeaf, Branch, MoveLeaf, LegacyOK
  <1>18. CASE ReadContextChanges
    BY <1>18 DEF ReadContextChanges, LegacyOK
  <1>19. CASE UNCHANGED vars
    BY <1>19 DEF vars, LegacyOK
  <1>20. CASE Next
    BY <1>4, <1>5, <1>6, <1>7, <1>8, <1>9, <1>10, <1>11, <1>12, <1>13, <1>14, <1>15, <1>16,
       <1>17, <1>18, <1>20 DEF Next, AgentCurates, UserCurates
  <1> QED
    BY <1>19, <1>20

-----------------------------------------------------------------------------
(* What a path, with the legacy records, says of its entries; and what it  *)
(* will say when a validated batch of changes has been appended.           *)
Hides == {"omit", "omitSummary", "excluded", "summarized"}

Marking(E, path, leg) ==
    LET changes == ContextChanges(E, path, leg)
    IN  [t \in path |-> IF t \in DOMAIN changes THEN E[changes[t]].value ELSE "included"]

Marks(change) == IF change.kind = "context_edit" THEN change.value ELSE "included"
Overlaid(marks, batch) ==
    [t \in DOMAIN marks |->
        IF \E i \in DOMAIN batch : batch[i].target = t
        THEN Marks(batch[CHOOSE i \in DOMAIN batch : batch[i].target = t])
        ELSE marks[t]]

(* Between two entries of a path, among those that contribute, there are   *)
(* tool results only.                                                      *)
Answers(E, path, r, c) ==
    /\ c \in path /\ r \in path
    /\ E[c].kind = "toolCall" /\ E[r].kind = "toolResult" /\ E[c].at < E[r].at
    /\ \A y \in path : (E[c].at < E[y].at /\ E[y].at < E[r].at /\ Contributes(E[y]))
                            => E[y].kind = "toolResult"

(* An entry of the exchange that is running at the end of a path.          *)
Trailing(E, path, x) ==
    /\ x \in path /\ E[x].kind \in {"toolCall", "toolResult"}
    /\ \A y \in path : (E[x].at < E[y].at /\ Contributes(E[y])) => E[y].kind = "toolResult"

(* Every result follows its call; a call of the retained range that is     *)
(* curated has its results hidden with it; nothing of the running exchange *)
(* is curated.                                                             *)
Tidy(E, path, marks) ==
    /\ \A r \in path : E[r].kind = "toolResult" => \E c \in path : Answers(E, path, r, c)
    /\ \A r, c \in path : (Answers(E, path, r, c) /\ c \in ContextEntries(E, path) /\ marks[c] # "included")
                            => marks[r] \in Hides
    /\ \A x \in path : Trailing(E, path, x) => marks[x] = "included"

TidyAt(E, id, leg) == Tidy(E, SessionPath(E, id), Marking(E, SessionPath(E, id), leg))

(* The entries of a path, their positions bounded and different.           *)
Line(E, n, path) ==
    /\ path \in SUBSET DOMAIN E /\ NullId \notin path /\ IsFiniteSet(path)
    /\ \A x \in path : E[x].at \in Nat /\ E[x].at <= n
    /\ \A x, y \in path : E[x].at = E[y].at => x = y

(* The path of an id is such a line.                                       *)
LEMMA PathLine ==
    ASSUME NEW E, NEW n \in Nat, LogOK(E, n), NEW id
    PROVE  Line(E, n, SessionPath(E, id))
  <1> DEFINE path == SessionPath(E, id)
  <1>1. path \in SUBSET DOMAIN E
    BY PathInLog
  <1>2. \A x \in DOMAIN E : E[x].at \in Nat /\ E[x].at <= n /\ x # NullId
    BY DEF LogOK, IsLog, Entry, Id, NullId
  <1>3. IsFiniteSet(path)
    BY <1>1, FS_Subset DEF LogOK, IsLog
  <1>4. \A x, y \in path : E[x].at = E[y].at => x = y
    <2>1. CASE id \in DOMAIN E
      BY <2>1, PathInjective
    <2>2. CASE id \notin DOMAIN E
      BY <2>2 DEF SessionPath
    <2> QED
      BY <2>1, <2>2
  <1> HIDE DEF path
  <1> QED
    BY <1>1, <1>2, <1>3, <1>4 DEF Line, path

(* The newest compaction of a path, and the entries of its context.        *)
ContextShape(E, path, ctx) ==
    \/ ctx = path /\ \A x \in path : E[x].kind # "compaction"
    \/ \E k \in path :
         /\ k = LatestCompaction(E, path) /\ E[k].kind = "compaction"
         /\ \A x \in path : E[x].kind = "compaction" => E[x].at <= E[k].at
         /\ \A x \in ctx : x \in path
         /\ \A x \in path : x \in ctx <=>
              \/ x = k
              \/ /\ E[k].target \in path /\ E[E[k].target].at < E[k].at
                 /\ E[E[k].target].at <= E[x].at /\ E[x].at < E[k].at /\ E[x].kind # "system"
              \/ E[k].at < E[x].at

(* ContextEntries computes a context of this shape.                        *)
LEMMA ContextIs ==
    ASSUME NEW E, NEW n \in Nat, NEW path, Line(E, n, path)
    PROVE  /\ ContextShape(E, path, ContextEntries(E, path))
           /\ LatestCompaction(E, path) = NullId => \A x \in path : E[x].kind # "compaction"
           /\ LatestCompaction(E, path) # NullId => /\ LatestCompaction(E, path) \in path
                                                    /\ E[LatestCompaction(E, path)].kind = "compaction"
  <1> DEFINE C == {x \in path : E[x].kind = "compaction"}
             k == LatestCompaction(E, path)
  <1>1. k = IF C = {} THEN NullId ELSE Latest(E, C)
    BY DEF LatestCompaction
  <1>2. C # {} => Latest(E, C) \in C /\ \A y \in C : E[y].at <= E[Latest(E, C)].at
    <2>1. \A x \in C : E[x].at \in Nat /\ E[x].at <= n
      BY DEF Line
    <2> QED
      BY <2>1, LatestExists
  <1>3. CASE C = {}
    <2>1. ContextEntries(E, path) = path
      BY <1>1, <1>3 DEF ContextEntries
    <2> QED
      BY <1>1, <1>3, <2>1 DEF ContextShape
  <1>4. CASE C # {}
    <2>1. k \in path /\ E[k].kind = "compaction" /\ k # NullId
          /\ \A x \in path : E[x].kind = "compaction" => E[x].at <= E[k].at
      BY <1>1, <1>2, <1>4 DEF Line
    <2> HIDE DEF k, C
    <2>2. ContextEntries(E, path) =
            {k} \cup {x \in path : /\ E[k].target \in path /\ E[E[k].target].at < E[k].at
                                   /\ E[E[k].target].at <= E[x].at /\ E[x].at < E[k].at
                                   /\ E[x].kind # "system"}
                \cup {x \in path : E[k].at < E[x].at}
      BY <2>1 DEF ContextEntries, k
    <2>3. ContextShape(E, path, ContextEntries(E, path))
      BY <2>1, <2>2 DEF ContextShape, k
    <2> QED
      BY <2>1, <2>3 DEF k
  <1> QED
    BY <1>3, <1>4

(* Logs that agree on a path have the same context of it.                  *)
LEMMA ContextSame ==
    ASSUME NEW E, NEW W, NEW n \in Nat, NEW path, Line(E, n, path),
           \A x \in path : W[x] = E[x]
    PROVE  ContextEntries(W, path) = ContextEntries(E, path)
  <1> DEFINE C == {x \in path : E[x].kind = "compaction"}
  <1>1. {x \in path : W[x].kind = "compaction"} = C
    OBVIOUS
  <1>2. Latest(W, C) = Latest(E, C)
    <2>1. \A x \in C : W[x].at = E[x].at
      OBVIOUS
    <2> QED
      BY <2>1, LatestSame
  <1>3. LatestCompaction(W, path) = LatestCompaction(E, path)
    BY <1>1, <1>2 DEF LatestCompaction
  <1>4. LatestCompaction(E, path) # NullId => LatestCompaction(E, path) \in path
    BY ContextIs
  <1> QED
    BY <1>3, <1>4 DEF ContextEntries

(* Whether a path is tidy depends on its own entries only.                 *)
LEMMA SameTidy ==
    ASSUME NEW E, NEW W, NEW n \in Nat, NEW path, Line(E, n, path),
           \A x \in path : W[x] = E[x], NEW marks
    PROVE  Tidy(W, path, marks) <=> Tidy(E, path, marks)
  <1>1. ContextEntries(W, path) = ContextEntries(E, path)
    BY ContextSame
  <1>2. \A r, c : Answers(W, path, r, c) <=> Answers(E, path, r, c)
    BY DEF Answers
  <1>3. \A x : Trailing(W, path, x) <=> Trailing(E, path, x)
    BY DEF Trailing
  <1>4. \A x \in path : W[x].kind = E[x].kind
    OBVIOUS
  <1> QED
    BY <1>1, <1>2, <1>3, <1>4 DEF Tidy

(* The mark that a path puts on one of its entries.                        *)
LEMMA MarkOf ==
    ASSUME NEW E, NEW n \in Nat, LogOK(E, n), NEW path \in SUBSET DOMAIN E, NEW leg, NEW t \in path
    PROVE  Marking(E, path, leg)[t] =
             IF EditsOf(E, path, t) # {}
             THEN IF E[Latest(E, EditsOf(E, path, t))].kind = "context_edit"
                  THEN E[Latest(E, EditsOf(E, path, t))].value ELSE "included"
             ELSE IF t \in DOMAIN leg THEN E[leg[t]].value ELSE "included"
  <1> DEFINE changes == ContextChanges(E, path, leg)
  <1>1. Decides(E, leg, t, EditsOf(E, path, t), changes)
    BY ChangeOf
  <1>2. Marking(E, path, leg)[t] = IF t \in DOMAIN changes THEN E[changes[t]].value ELSE "included"
    BY DEF Marking
  <1> HIDE DEF changes
  <1> QED
    BY <1>1, <1>2 DEF Decides

(* Marks do not change when the log grows.                                 *)
LEMMA MarkingSame ==
    ASSUME NEW E, NEW W, NEW n \in Nat, NEW m \in Nat, LogOK(E, n), LogOK(W, m),
           \A x \in DOMAIN E : x \in DOMAIN W /\ W[x] = E[x],
           NEW path \in SUBSET DOMAIN E, NEW leg, leg \in [DOMAIN leg -> DOMAIN E]
    PROVE  Marking(W, path, leg) = Marking(E, path, leg)
  <1>1. ASSUME NEW t \in path PROVE Marking(W, path, leg)[t] = Marking(E, path, leg)[t]
    <2> DEFINE edits == EditsOf(E, path, t)
               last == Latest(E, edits)
    <2>1. EditsOf(W, path, t) = edits
      BY DEF EditsOf
    <2>2. Latest(W, edits) = last
      <3>1. \A x \in edits : W[x].at = E[x].at
        BY DEF EditsOf
      <3> QED
        BY <3>1, LatestSame
    <2>3. edits # {} => last \in DOMAIN E
      <3>1. \A x \in edits : E[x].at \in Nat /\ E[x].at <= n /\ x \in DOMAIN E
        BY DEF EditsOf, LogOK, IsLog, Entry
      <3> HIDE DEF edits
      <3> QED
        BY <3>1, LatestExists
    <2>4. path \in SUBSET DOMAIN W
      OBVIOUS
    <2>5. Marking(W, path, leg)[t] =
             IF edits # {}
             THEN IF W[last].kind = "context_edit" THEN W[last].value ELSE "included"
             ELSE IF t \in DOMAIN leg THEN W[leg[t]].value ELSE "included"
      BY <2>1, <2>2, <2>4, MarkOf
    <2>6. Marking(E, path, leg)[t] =
             IF edits # {}
             THEN IF E[last].kind = "context_edit" THEN E[last].value ELSE "included"
             ELSE IF t \in DOMAIN leg THEN E[leg[t]].value ELSE "included"
      BY MarkOf
    <2> HIDE DEF edits, last
    <2> QED
      BY <2>3, <2>5, <2>6
  <1> QED
    BY <1>1 DEF Marking

(* A tidy place stays tidy when the log grows.                             *)
LEMMA TidyStable ==
    ASSUME NEW E, NEW W, NEW n \in Nat, NEW m \in Nat, LogOK(E, n), LogOK(W, m), Continues(W, E),
           NEW x \in DOMAIN E, NEW leg, leg \in [DOMAIN leg -> DOMAIN E]
    PROVE  TidyAt(W, x, leg) <=> TidyAt(E, x, leg)
  <1> DEFINE path == SessionPath(E, x)
  <1>1. SessionPath(W, x) = path /\ path \in SUBSET DOMAIN E /\ Line(E, n, path)
    BY PathStable, PathInLog, PathLine
  <1>2. \A y \in DOMAIN E : y \in DOMAIN W /\ W[y] = E[y]
    BY DEF Continues
  <1> HIDE DEF path
  <1>3. Marking(W, path, leg) = Marking(E, path, leg)
    BY <1>1, <1>2, MarkingSame
  <1>4. Tidy(W, path, Marking(E, path, leg)) <=> Tidy(E, path, Marking(E, path, leg))
    BY <1>1, <1>2, SameTidy
  <1> QED
    BY <1>1, <1>3, <1>4 DEF TidyAt, path

-----------------------------------------------------------------------------
(* A path with one more entry at its end, which nothing is said of.        *)
Extended(marks, n) == [x \in DOMAIN marks \cup {n} |-> IF x \in DOMAIN marks THEN marks[x] ELSE "included"]

(* A path and a new entry behind it are a line.                            *)
LEMMA LineGrows ==
    ASSUME NEW E, NEW W, NEW n \in Nat, NEW path, Line(E, n, path), n + 1 \notin path,
           DOMAIN W = DOMAIN E \cup {n + 1}, W[n + 1].at = n + 1, \A x \in path : W[x] = E[x]
    PROVE  Line(W, n + 1, path \cup {n + 1})
  <1>1. IsFiniteSet(path \cup {n + 1})
    BY FS_AddElement DEF Line
  <1> QED
    BY <1>1 DEF Line, NullId

(* A new entry adds nothing but itself to the context, a compaction        *)
(* included: it keeps from an entry that was in the context.               *)
LEMMA ContextGrows ==
    ASSUME NEW E, NEW W, NEW n \in Nat, NEW path, Line(E, n, path), n + 1 \notin path,
           DOMAIN W = DOMAIN E \cup {n + 1}, W[n + 1].at = n + 1, \A x \in path : W[x] = E[x],
           W[n + 1].kind = "compaction" =>
              \/ W[n + 1].target = n + 1
              \/ W[n + 1].target \in ContextEntries(E, path) \ {LatestCompaction(E, path)}
    PROVE  \A x \in ContextEntries(W, path \cup {n + 1}) :
              x = n + 1 \/ x \in ContextEntries(E, path)
  <1> DEFINE N == n + 1
             P == path \cup {N}
             ctx == ContextEntries(E, path)
             new == ContextEntries(W, P)
             k == LatestCompaction(E, path)
  <1>1. ContextShape(E, path, ctx) /\ ContextShape(W, P, new)
    BY ContextIs, LineGrows
  <1>2. /\ \A x \in path : E[x].at \in Nat /\ E[x].at < N
        /\ \A x, y \in path : E[x].at = E[y].at => x = y
        /\ N \in Nat /\ N \notin path
    BY DEF Line
  <1> HIDE DEF N, ctx, new, k
  <1>3. \A x \in new : x \in P
    BY <1>1 DEF ContextShape
  <1>4. \A x \in ctx : x \in path
    BY <1>1 DEF ContextShape
  <1>5. W[N].at = N /\ \A x \in path : W[x] = E[x]
    BY DEF N
  <1>6. CASE W[N].kind = "compaction"
    <2>1. \A x \in new : x # N =>
            /\ W[N].target \in path /\ E[W[N].target].at <= E[x].at /\ E[x].kind # "system" /\ x \in path
      <3>1. PICK q \in P : /\ \A x \in P : W[x].kind = "compaction" => W[x].at <= W[q].at
                           /\ \A x \in P : x \in new <=>
                                \/ x = q
                                \/ /\ W[q].target \in P /\ W[W[q].target].at < W[q].at
                                   /\ W[W[q].target].at <= W[x].at /\ W[x].at < W[q].at /\ W[x].kind # "system"
                                \/ W[q].at < W[x].at
        BY <1>1, <1>6 DEF ContextShape
      <3>2. q = N
        BY <1>2, <1>5, <1>6, <3>1
      <3>3. ASSUME NEW x \in new, x # N
            PROVE  /\ W[N].target \in path /\ E[W[N].target].at <= E[x].at
                   /\ E[x].kind # "system" /\ x \in path
        <4>1. x \in path /\ ~(W[N].at < W[x].at)
          BY <1>2, <1>3, <1>5, <3>3
        <4>2. /\ W[N].target \in P /\ W[W[N].target].at < W[N].at
              /\ W[W[N].target].at <= W[x].at /\ W[x].kind # "system"
          BY <3>1, <3>2, <3>3, <4>1
        <4>3. W[N].target # N
          BY <1>2, <1>5, <4>2
        <4> QED
          BY <1>5, <4>1, <4>2, <4>3
      <3> QED
        BY <3>3
    <2>2. ASSUME NEW x \in new, x # N PROVE x \in ctx
      <3> DEFINE f == W[N].target
      <3>1. f \in path /\ E[f].at <= E[x].at /\ E[x].kind # "system" /\ x \in path
        BY <2>1, <2>2
      <3>2. f \in ctx /\ f # k
        BY <1>2, <1>6, <3>1 DEF N, ctx, k
      <3> HIDE DEF f
      <3>3. CASE ctx = path
        BY <3>1, <3>3
      <3>4. CASE ctx # path
        <4>1. PICK q \in path : q = k /\ \A y \in path : y \in ctx <=>
                 \/ y = q
                 \/ /\ E[q].target \in path /\ E[E[q].target].at < E[q].at
                    /\ E[E[q].target].at <= E[y].at /\ E[y].at < E[q].at /\ E[y].kind # "system"
                 \/ E[q].at < E[y].at
          BY <1>1, <3>4 DEF ContextShape, k
        <4>2. CASE E[q].at < E[x].at
          BY <3>1, <4>1, <4>2
        <4>3. CASE E[q].at = E[x].at
          BY <1>2, <3>1, <4>1, <4>3
        <4>4. CASE E[x].at < E[q].at
          <5>1. ~(E[q].at < E[f].at)
            BY <1>2, <3>1, <4>4
          <5>2. /\ E[q].target \in path /\ E[E[q].target].at < E[q].at
                /\ E[E[q].target].at <= E[f].at
            BY <3>1, <3>2, <4>1, <5>1
          <5>3. E[E[q].target].at <= E[x].at
            BY <1>2, <3>1, <5>2
          <5> QED
            BY <3>1, <4>1, <4>4, <5>2, <5>3
        <4> QED
          BY <1>2, <3>1, <4>2, <4>3, <4>4
      <3> QED
        BY <3>3, <3>4
    <2> QED
      BY <2>2 DEF N, ctx, new
  <1>7. CASE W[N].kind # "compaction"
    <2>1. CASE \A x \in path : E[x].kind # "compaction"
      <3>1. ctx = path
        BY <1>1, <2>1 DEF ContextShape
      <3> QED
        BY <1>3, <3>1 DEF N, ctx, new
    <2>2. CASE ~(\A x \in path : E[x].kind # "compaction")
      <3>1. PICK q \in path :
              /\ E[q].kind = "compaction"
              /\ \A y \in path : E[y].kind = "compaction" => E[y].at <= E[q].at
              /\ \A y \in path : y \in ctx <=>
                    \/ y = q
                    \/ /\ E[q].target \in path /\ E[E[q].target].at < E[q].at
                       /\ E[E[q].target].at <= E[y].at /\ E[y].at < E[q].at
                       /\ E[y].kind # "system"
                    \/ E[q].at < E[y].at
        BY <1>1, <2>2 DEF ContextShape
      <3>2. ~(\A x \in P : W[x].kind # "compaction")
        BY <1>5, <3>1
      <3>3. PICK r \in P :
              /\ W[r].kind = "compaction"
              /\ \A y \in P : W[y].kind = "compaction" => W[y].at <= W[r].at
              /\ \A y \in P : y \in new <=>
                    \/ y = r
                    \/ /\ W[r].target \in P /\ W[W[r].target].at < W[r].at
                       /\ W[W[r].target].at <= W[y].at /\ W[y].at < W[r].at
                       /\ W[y].kind # "system"
                    \/ W[r].at < W[y].at
        BY <1>1, <3>2 DEF ContextShape
      <3>4. r \in path
        BY <1>7, <3>3
      <3>5. E[q].at = E[r].at
        BY <1>2, <1>5, <3>1, <3>3, <3>4
      <3>6. r = q
        BY <1>2, <3>4, <3>5
      <3>7. ASSUME NEW x \in new, x # N PROVE x \in ctx
        <4>1. x \in path
          BY <1>3, <3>7
        <4>2. CASE x = q \/ E[q].at < E[x].at
          BY <3>1, <4>1, <4>2
        <4>3. CASE x # q /\ ~(E[q].at < E[x].at)
          <5>1. /\ W[q].target \in P /\ W[W[q].target].at < W[q].at
                /\ W[W[q].target].at <= W[x].at /\ W[x].at < W[q].at /\ W[x].kind # "system"
            BY <1>5, <3>3, <3>6, <3>7, <4>1, <4>3
          <5>2. W[q].target # N /\ W[q] = E[q] /\ W[x] = E[x]
            BY <1>2, <1>5, <4>1, <5>1
          <5>3. E[q].target \in path
            BY <5>1, <5>2
          <5> QED
            BY <1>5, <3>1, <4>1, <5>1, <5>2, <5>3
        <4> QED
          BY <4>2, <4>3
      <3> QED
        BY <3>7 DEF N, ctx, new
    <2> QED
      BY <2>1, <2>2
  <1> QED
    BY <1>6, <1>7

(* A tool result is appended inside the exchange of a call; everything     *)
(* else leaves the exchanges of the path as they are.                      *)
LEMMA ExchangeEnd ==
    ASSUME NEW E, NEW n \in Nat, NEW path, Line(E, n, path)
    PROVE  InExchange(E, path) <=> \E x \in path : Trailing(E, path, x) /\ Contributes(E[x])
  <1> DEFINE C == {x \in path : Contributes(E[x])}
             y == Latest(E, C)
  <1>1. InExchange(E, path) <=> C # {} /\ E[y].kind \in {"toolCall", "toolResult"}
    BY DEF InExchange
  <1>2. C # {} => y \in C /\ \A x \in C : E[x].at <= E[y].at
    <2>1. \A x \in C : E[x].at \in Nat /\ E[x].at <= n
      BY DEF Line
    <2> HIDE DEF C
    <2> QED
      BY <2>1, LatestExists
  <1>3. \A x \in path : x \in C <=> Contributes(E[x])
    OBVIOUS
  <1>4. \A x \in path : E[x].at \in Nat
    BY DEF Line
  <1>5. C \subseteq path /\ \A x, z \in path : E[x].at = E[z].at => x = z
    BY DEF Line
  <1> HIDE DEF C, y
  <1>6. ASSUME InExchange(E, path) PROVE y \in path /\ Trailing(E, path, y) /\ Contributes(E[y])
    <2>1. y \in path /\ Contributes(E[y]) /\ E[y].kind \in {"toolCall", "toolResult"}
      BY <1>1, <1>2, <1>3, <1>5, <1>6
    <2>2. \A x \in path : Contributes(E[x]) => ~(E[y].at < E[x].at)
      BY <1>1, <1>2, <1>3, <1>4, <1>6, <2>1
    <2> QED
      BY <2>1, <2>2 DEF Trailing
  <1>7. ASSUME NEW x \in path, Trailing(E, path, x), Contributes(E[x]) PROVE InExchange(E, path)
    <2>1. y \in C /\ E[x].at <= E[y].at /\ y \in path /\ C # {} /\ Contributes(E[y])
      BY <1>2, <1>3, <1>5, <1>7
    <2>2. E[x].at = E[y].at \/ E[x].at < E[y].at
      BY <1>4, <2>1
    <2>3. x = y \/ E[y].kind = "toolResult"
      BY <1>5, <1>7, <2>1, <2>2 DEF Trailing
    <2> QED
      BY <1>1, <1>7, <2>1, <2>3 DEF Trailing
  <1> QED
    BY <1>6, <1>7

(* Tool calls, tool results and compactions contribute, markers do not.    *)
LEMMA Messages ==
    ASSUME NEW e
    PROVE  /\ e.kind \in {"toolCall", "toolResult", "compaction"} => Contributes(e)
           /\ e.kind \in EditKinds => ~Contributes(e)
  <1>1. e.kind \in {"toolCall", "toolResult"} => ContextMessages(e) = <<Message(e.kind, "raw")>>
    BY DEF ContextMessages, MessageKinds, AssistantKinds
  <1>2. e.kind = "compaction" => \E a, b : ContextMessages(e) \in {<<a, b>>, <<b>>}
    BY DEF ContextMessages, MessageKinds, AssistantKinds
  <1>3. e.kind \in EditKinds => ContextMessages(e) = <<>>
    BY DEF ContextMessages, MessageKinds, AssistantKinds, EditKinds
  <1>4. \A a, b : <<a, b>> # <<>> /\ <<b>> # <<>>
    OBVIOUS
  <1> QED
    BY <1>1, <1>2, <1>3, <1>4 DEF Contributes

(* A tidy path stays tidy when an entry is appended, if a tool result is   *)
(* appended inside an exchange and a compaction keeps from the context.    *)
LEMMA AppendTidy ==
    ASSUME NEW E, NEW W, NEW n \in Nat, NEW path, Line(E, n, path), n + 1 \notin path,
           DOMAIN W = DOMAIN E \cup {n + 1}, W[n + 1].at = n + 1, \A x \in path : W[x] = E[x],
           W[n + 1].kind = "compaction" =>
              \/ W[n + 1].target = n + 1
              \/ W[n + 1].target \in ContextEntries(E, path) \ {LatestCompaction(E, path)},
           W[n + 1].kind = "toolResult" => InExchange(E, path),
           NEW marks, DOMAIN marks = path, Tidy(E, path, marks)
    PROVE  Tidy(W, path \cup {n + 1}, Extended(marks, n + 1))
  <1> DEFINE N == n + 1
             P == path \cup {N}
             ctx == ContextEntries(E, path)
             new == ContextEntries(W, P)
             more == Extended(marks, N)
  <1>1. /\ \A x \in path : E[x].at \in Nat /\ E[x].at < N
        /\ N \in Nat /\ N \notin path
    BY DEF Line
  <1>2. W[N].at = N /\ \A x \in path : W[x] = E[x]
    OBVIOUS
  <1>3. \A x \in new : x # N => x \in ctx
    BY ContextGrows
  <1>4. more[N] = "included" /\ \A x \in path : more[x] = marks[x]
    BY DEF Extended
  <1> HIDE DEF N, ctx, new, more
  <1>5. \A r, c \in path : Answers(W, P, r, c) <=> Answers(E, path, r, c)
    <2>1. SUFFICES ASSUME NEW r \in path, NEW c \in path PROVE Answers(W, P, r, c) <=> Answers(E, path, r, c)
      OBVIOUS
    <2>2. ~(W[N].at < W[r].at)
      BY <1>1, <1>2
    <2> QED
      BY <1>2, <2>2 DEF Answers
  <1>6. ASSUME NEW x \in path, Trailing(W, P, x) PROVE Trailing(E, path, x)
    BY <1>2, <1>6 DEF Trailing
  <1>7. ASSUME NEW c \in path, Answers(W, P, N, c) PROVE Trailing(E, path, c)
    <2>1. \A y \in path : E[y].at < W[N].at
      BY <1>1, <1>2
    <2> QED
      BY <1>2, <1>7, <2>1 DEF Answers, Trailing
  <1>8. ASSUME W[N].kind = "toolResult" PROVE \E c \in P : Answers(W, P, N, c)
    <2>1. InExchange(E, path)
      BY <1>8 DEF N
    <2>2. PICK x \in path : Trailing(E, path, x) /\ Contributes(E[x])
      BY <2>1, ExchangeEnd
    <2>3. ASSUME NEW c \in path, E[c].kind = "toolCall",
                 \A y \in path : (E[c].at < E[y].at /\ Contributes(E[y])) => E[y].kind = "toolResult"
          PROVE  Answers(W, P, N, c)
      <3>1. W[c].at < W[N].at /\ ~(W[N].at < W[N].at)
        BY <1>1, <1>2
      <3> QED
        BY <1>2, <1>8, <2>3, <3>1 DEF Answers
    <2>4. CASE E[x].kind = "toolCall"
      BY <2>2, <2>3, <2>4 DEF Trailing
    <2>5. CASE E[x].kind = "toolResult"
      <3>1. PICK c \in path : Answers(E, path, x, c)
        BY <2>5 DEF Tidy
      <3>2. ASSUME NEW y \in path, E[c].at < E[y].at, Contributes(E[y]) PROVE E[y].kind = "toolResult"
        <4>1. \/ E[y].at < E[x].at
              \/ E[y].at = E[x].at
              \/ E[x].at < E[y].at
          BY <1>1
        <4>2. E[y].at = E[x].at => y = x
          BY DEF Line
        <4> QED
          BY <2>2, <2>5, <3>1, <3>2, <4>1, <4>2 DEF Answers, Trailing
      <3> QED
        BY <2>3, <3>1, <3>2 DEF Answers
    <2> QED
      BY <2>2, <2>4, <2>5 DEF Trailing
  <1>9. \A r \in P : W[r].kind = "toolResult" => \E c \in P : Answers(W, P, r, c)
    <2>1. ASSUME NEW r \in path, W[r].kind = "toolResult" PROVE \E c \in P : Answers(W, P, r, c)
      <3>1. PICK c \in path : Answers(E, path, r, c)
        BY <1>2, <2>1 DEF Tidy
      <3> QED
        BY <1>5, <3>1
    <2> SUFFICES ASSUME NEW r \in P, W[r].kind = "toolResult" PROVE \E c \in P : Answers(W, P, r, c)
      OBVIOUS
    <2>2. CASE r \in path
      BY <2>1, <2>2
    <2>3. CASE r = N
      BY <1>8, <2>3
    <2> QED
      BY <2>2, <2>3
  <1>10. ASSUME NEW r \in P, NEW c \in P, Answers(W, P, r, c), c \in new, more[c] # "included"
         PROVE  more[r] \in Hides
    <2>1. c \in path /\ c \in ctx /\ marks[c] # "included"
      BY <1>3, <1>4, <1>10
    <2>2. r # N
      <3>1. ASSUME r = N PROVE FALSE
        <4>1. Trailing(E, path, c)
          BY <1>7, <1>10, <2>1, <3>1
        <4> QED
          BY <2>1, <4>1 DEF Tidy
      <3> QED
        BY <3>1
    <2>3. r \in path /\ Answers(E, path, r, c)
      BY <1>5, <1>10, <2>1, <2>2
    <2> QED
      BY <1>4, <2>1, <2>3 DEF Tidy, ctx
  <1>11. ASSUME NEW x \in P, Trailing(W, P, x) PROVE more[x] = "included"
    BY <1>4, <1>6, <1>11 DEF Tidy
  <1>12. Tidy(W, P, more)
    BY <1>9, <1>10, <1>11 DEF Tidy, new
  <1> QED
    BY <1>12 DEF N, more

-----------------------------------------------------------------------------
(* An appended entry is marked by nothing; an appended edit or cancel      *)
(* marks its target.                                                       *)
MarksGrow(e, path, n, old, more) ==
    /\ more[n] = "included"
    /\ \A t \in path : more[t] = IF e.kind \in EditKinds /\ t = e.target THEN Marks(e) ELSE old[t]

(* An appended marker decides about its target and about nothing else.     *)
LEMMA MarkingGrows ==
    ASSUME NEW E, NEW W, NEW n \in Nat, LogOK(E, n), LogOK(W, n + 1), NEW path \in SUBSET DOMAIN E,
           DOMAIN W = DOMAIN E \cup {n + 1}, W[n + 1].at = n + 1, \A x \in DOMAIN E : W[x] = E[x],
           NEW leg, leg \in [DOMAIN leg -> DOMAIN E], n + 1 \notin DOMAIN leg,
           \A x \in path : E[x].kind \in EditKinds => E[x].target \in path,
           W[n + 1].kind \in EditKinds => W[n + 1].target \in path
    PROVE  MarksGrow(W[n + 1], path, n + 1, Marking(E, path, leg), Marking(W, path \cup {n + 1}, leg))
  <1> DEFINE N == n + 1
             P == path \cup {N}
             edits(t) == EditsOf(E, path, t)
             more(t) == EditsOf(W, P, t)
             here(t) == W[N].kind \in EditKinds /\ W[N].target = t
  <1>1. \A x \in DOMAIN E : E[x].at \in Nat /\ E[x].at <= n /\ x # N
    BY DEF LogOK, IsLog, Entry, Id
  <1>2. W[N].at = N /\ N \notin path
    BY <1>1
  <1> HIDE DEF N
  <1>3. \A t : more(t) = edits(t) \cup (IF here(t) THEN {N} ELSE {})
    <2>1. SUFFICES ASSUME NEW t PROVE more(t) = edits(t) \cup (IF here(t) THEN {N} ELSE {})
      OBVIOUS
    <2>2. \A x : x \in more(t) <=> x \in P /\ W[x].kind \in EditKinds /\ W[x].target = t
      BY DEF EditsOf
    <2>3. \A x : x \in edits(t) <=> x \in path /\ E[x].kind \in EditKinds /\ E[x].target = t
      BY DEF EditsOf
    <2>4. \A x \in path : W[x] = E[x]
      OBVIOUS
    <2>5. \A x : x \in P <=> x \in path \/ x = N
      OBVIOUS
    <2> HIDE DEF more, edits, P
    <2>6. \A x : x \in more(t) <=> x \in edits(t) \/ (here(t) /\ x = N)
      BY <1>2, <2>2, <2>3, <2>4, <2>5
    <2> QED
      BY <2>6
  <1>4. ASSUME NEW t PROVE ~here(t) => Latest(W, edits(t)) = Latest(E, edits(t))
    <2>1. \A x \in edits(t) : W[x].at = E[x].at
      BY DEF EditsOf
    <2> QED
      BY <2>1, LatestSame
  <1>5. ASSUME NEW t, here(t) PROVE Latest(W, more(t)) = N
    <2>1. N \in more(t) /\ more(t) = edits(t) \cup {N}
      BY <1>3, <1>5
    <2>2. \A y \in more(t) \ {N} : W[y].at \in Nat /\ W[y].at <= n
      <3>1. \A y \in edits(t) : y \in path
        BY DEF EditsOf
      <3> QED
        BY <1>1, <2>1, <3>1
    <2> HIDE DEF more, edits
    <2> QED
      BY <1>2, <2>1, <2>2, LatestOfNew DEF N
  <1>6. ASSUME NEW t, edits(t) # {} PROVE Latest(E, edits(t)) \in DOMAIN E
    <2>1. \A x \in edits(t) : E[x].at \in Nat /\ E[x].at <= n /\ x \in DOMAIN E
      BY <1>1 DEF EditsOf
    <2> HIDE DEF edits
    <2> QED
      BY <1>6, <2>1, LatestExists
  <1>7. P \in SUBSET DOMAIN W
    BY DEF N
  <1>8. ASSUME NEW t \in P
        PROVE  Marking(W, P, leg)[t] =
             IF more(t) # {}
             THEN IF W[Latest(W, more(t))].kind = "context_edit" THEN W[Latest(W, more(t))].value ELSE "included"
             ELSE IF t \in DOMAIN leg THEN W[leg[t]].value ELSE "included"
    <2> HIDE DEF P
    <2>1. n + 1 \in Nat
      OBVIOUS
    <2> QED
      BY <1>7, <2>1, MarkOf
  <1>9. edits(N) = {} /\ ~here(N)
    <2>1. \A x \in edits(N) : x \in path /\ E[x].target \in path /\ E[x].target = N
      BY DEF EditsOf
    <2> QED
      BY <1>2, <2>1 DEF N
  <1>10. Marking(W, P, leg)[N] = "included"
    <2>1. more(N) = {} /\ N \notin DOMAIN leg
      BY <1>3, <1>9 DEF N
    <2> HIDE DEF more
    <2> QED
      BY <1>8, <2>1
  <1>11. ASSUME NEW t \in path
         PROVE  Marking(W, P, leg)[t] = IF here(t) THEN Marks(W[N]) ELSE Marking(E, path, leg)[t]
    <2>1. Marking(E, path, leg)[t] =
             IF edits(t) # {}
             THEN IF E[Latest(E, edits(t))].kind = "context_edit" THEN E[Latest(E, edits(t))].value ELSE "included"
             ELSE IF t \in DOMAIN leg THEN E[leg[t]].value ELSE "included"
      BY MarkOf
    <2>2. CASE here(t)
      <3>1. more(t) # {} /\ Latest(W, more(t)) = N
        BY <1>3, <1>5, <2>2
      <3> HIDE DEF more, here
      <3> QED
        BY <1>8, <2>2, <3>1 DEF Marks
    <2>3. CASE ~here(t)
      <3>1. more(t) = edits(t) /\ Latest(W, more(t)) = Latest(E, edits(t))
        BY <1>3, <1>4, <2>3
      <3>2. /\ edits(t) # {} => W[Latest(E, edits(t))] = E[Latest(E, edits(t))]
            /\ t \in DOMAIN leg => W[leg[t]] = E[leg[t]]
        BY <1>6
      <3> HIDE DEF more, here, edits
      <3> QED
        BY <1>8, <2>1, <2>3, <3>1, <3>2
    <2> QED
      BY <2>2, <2>3
  <1> QED
    BY <1>10, <1>11 DEF N, MarksGrow

(* What a batch says does not change while its changes are appended.       *)
Distinct(batch) == \A i, j \in DOMAIN batch : batch[i].target = batch[j].target => i = j

(* A batch with one change per target decides as that change says.         *)
LEMMA OverlaidAt ==
    ASSUME NEW marks, NEW batch, Distinct(batch), NEW i \in DOMAIN batch, batch[i].target \in DOMAIN marks
    PROVE  Overlaid(marks, batch)[batch[i].target] = Marks(batch[i])
  <1> DEFINE j == CHOOSE j \in DOMAIN batch : batch[j].target = batch[i].target
  <1>1. j \in DOMAIN batch /\ batch[j].target = batch[i].target
    OBVIOUS
  <1>2. j = i
    BY <1>1 DEF Distinct
  <1>3. Overlaid(marks, batch)[batch[i].target] = Marks(batch[j])
    BY DEF Overlaid
  <1> HIDE DEF j
  <1> QED
    BY <1>2, <1>3

(* It leaves the marks of other entries alone.                             *)
LEMMA OverlaidElsewhere ==
    ASSUME NEW marks, NEW batch, NEW t \in DOMAIN marks, \A i \in DOMAIN batch : batch[i].target # t
    PROVE  Overlaid(marks, batch)[t] = marks[t]
  BY DEF Overlaid

(* Appending the first marker of a batch and overlaying the rest comes to  *)
(* overlaying the whole batch.                                             *)
LEMMA OverlaidTail ==
    ASSUME NEW T, NEW batch \in Seq(T), batch # <<>>, Distinct(batch),
           NEW marks, NEW more, NEW n, n \notin DOMAIN marks, DOMAIN more = DOMAIN marks \cup {n},
           \A i \in DOMAIN batch : batch[i].target \in DOMAIN marks,
           more[n] = "included",
           \A t \in DOMAIN marks : more[t] = IF t = Head(batch).target THEN Marks(Head(batch)) ELSE marks[t]
    PROVE  /\ Overlaid(more, Tail(batch)) = Extended(Overlaid(marks, batch), n)
           /\ Distinct(Tail(batch))
  <1> DEFINE rest == Tail(batch)
  <1>1. /\ 1 \in DOMAIN batch /\ Head(batch) = batch[1]
        /\ \A i \in DOMAIN rest : i \in Nat \ {0} /\ i + 1 \in DOMAIN batch /\ rest[i] = batch[i + 1]
        /\ \A i \in DOMAIN batch : i = 1 \/ (i - 1 \in DOMAIN rest /\ rest[i - 1] = batch[i])
        /\ \A i \in DOMAIN batch : i \in Nat
    OBVIOUS
  <1> HIDE DEF rest
  <1>2. Distinct(rest)
    BY <1>1 DEF Distinct
  <1>3. \A i \in DOMAIN rest : rest[i].target \in DOMAIN marks /\ rest[i].target # batch[1].target
    <2>1. ASSUME NEW i \in DOMAIN rest PROVE rest[i].target \in DOMAIN marks /\ rest[i].target # batch[1].target
      <3>1. i + 1 \in DOMAIN batch /\ rest[i] = batch[i + 1] /\ i + 1 # 1 /\ 1 \in DOMAIN batch
        BY <1>1
      <3> QED
        BY <3>1 DEF Distinct
    <2> QED
      BY <2>1
  <1>4. ASSUME NEW t \in DOMAIN marks PROVE Overlaid(more, rest)[t] = Overlaid(marks, batch)[t]
    <2>1. CASE \E i \in DOMAIN rest : rest[i].target = t
      <3>1. PICK i \in DOMAIN rest : rest[i].target = t
        BY <2>1
      <3>2. Overlaid(more, rest)[t] = Marks(rest[i])
        BY <1>2, <3>1, OverlaidAt
      <3>3. i + 1 \in DOMAIN batch /\ batch[i + 1] = rest[i]
        BY <1>1
      <3>4. Overlaid(marks, batch)[batch[i + 1].target] = Marks(batch[i + 1])
        BY <3>3, <3>1, OverlaidAt
      <3> QED
        BY <3>1, <3>2, <3>3, <3>4
    <2>2. CASE t = batch[1].target
      <3>1. Overlaid(marks, batch)[t] = Marks(batch[1])
        BY <1>1, <2>2, OverlaidAt
      <3>2. \A i \in DOMAIN rest : rest[i].target # t
        BY <1>3, <2>2
      <3>3. Overlaid(more, rest)[t] = more[t]
        BY <3>2, OverlaidElsewhere
      <3> QED
        BY <1>1, <2>2, <3>1, <3>3
    <2>3. CASE t # batch[1].target /\ ~\E i \in DOMAIN rest : rest[i].target = t
      <3>1. \A i \in DOMAIN batch : batch[i].target # t
        <4>1. ASSUME NEW i \in DOMAIN batch PROVE batch[i].target # t
          <5>1. i = 1 \/ (i - 1 \in DOMAIN rest /\ rest[i - 1] = batch[i])
            BY <1>1
          <5> QED
            BY <2>3, <5>1
        <4> QED
          BY <4>1
      <3>2. Overlaid(marks, batch)[t] = marks[t]
        BY <3>1, OverlaidElsewhere
      <3>3. Overlaid(more, rest)[t] = more[t]
        BY <2>3, OverlaidElsewhere
      <3> QED
        BY <1>1, <2>3, <3>2, <3>3
    <2> QED
      BY <2>1, <2>2, <2>3
  <1>5. Overlaid(more, rest)[n] = "included"
    <2>1. \A i \in DOMAIN rest : rest[i].target # n
      BY <1>3
    <2> QED
      BY <2>1, OverlaidElsewhere
  <1>6. DOMAIN Overlaid(marks, batch) = DOMAIN marks
        /\ Overlaid(more, rest) = [t \in DOMAIN marks \cup {n} |-> Overlaid(more, rest)[t]]
    BY DEF Overlaid
  <1>7. Overlaid(more, rest) = Extended(Overlaid(marks, batch), n)
    BY <1>4, <1>5, <1>6 DEF Extended
  <1> QED
    BY <1>2, <1>7 DEF rest

(* An empty batch changes no mark.                                         *)
LEMMA OverlaidNone ==
    ASSUME NEW E, NEW path, NEW leg
    PROVE  Overlaid(Marking(E, path, leg), <<>>) = Marking(E, path, leg)
  BY DEF Overlaid, Marking

-----------------------------------------------------------------------------
(* Counting the entries up to each one puts a block in order, so the batch *)
(* of a block has one change for each of its entries.                      *)
Rank(E, block, x) == Cardinality({y \in block : E[y].at <= E[x].at})

(* The entries of a block in the order of their positions: each has a rank *)
(* and each rank one entry.                                                *)
LEMMA Ranked ==
    ASSUME NEW E, NEW n \in Nat, NEW path, Line(E, n, path), NEW block \in SUBSET path
    PROVE  /\ Cardinality(block) \in Nat
           /\ \A x \in block : Rank(E, block, x) \in 1..Cardinality(block)
           /\ \A x, y \in block : Rank(E, block, x) = Rank(E, block, y) => x = y
           /\ \A i \in 1..Cardinality(block) : \E x \in block : Rank(E, block, x) = i
           /\ \A x \in block : Rank(E, block, x) = 1 <=> \A y \in block : E[x].at <= E[y].at
  <1> DEFINE upTo(x) == {y \in block : E[y].at <= E[x].at}
             m == Cardinality(block)
             rank == [x \in block |-> Rank(E, block, x)]
  <1>1. /\ \A x \in block : E[x].at \in Nat
        /\ \A x, y \in block : E[x].at = E[y].at => x = y
        /\ IsFiniteSet(path)
    BY DEF Line
  <1>2. IsFiniteSet(block) /\ m \in Nat
    BY <1>1, FS_Subset, FS_CardinalityType
  <1>3. ASSUME NEW x \in block
        PROVE  /\ x \in upTo(x) /\ IsFiniteSet(upTo(x)) /\ Cardinality(upTo(x)) \in Nat
               /\ Cardinality(upTo(x)) <= m /\ Cardinality(upTo(x)) # 0
    <2>1. upTo(x) \in SUBSET block
      OBVIOUS
    <2>2. x \in upTo(x)
      BY <1>1
    <2> HIDE DEF upTo
    <2>3. IsFiniteSet(upTo(x)) /\ Cardinality(upTo(x)) <= m
      BY <1>2, <2>1, FS_Subset
    <2> QED
      BY <2>2, <2>3, FS_CardinalityType, FS_EmptySet
  <1>4. ASSUME NEW x \in block, NEW y \in block, Cardinality(upTo(x)) = Cardinality(upTo(y)), E[x].at <= E[y].at
        PROVE  x = y
    <2>1. upTo(x) \in SUBSET upTo(y)
      BY <1>1, <1>4
    <2>2. IsFiniteSet(upTo(y)) /\ y \in upTo(y)
      BY <1>3
    <2>3. y \in upTo(x) => E[y].at <= E[x].at
      OBVIOUS
    <2> HIDE DEF upTo
    <2>4. upTo(y) = upTo(x)
      BY <1>4, <2>1, <2>2, FS_Subset
    <2> QED
      BY <1>1, <1>4, <2>2, <2>3, <2>4
  <1>5. \A x : Rank(E, block, x) = Cardinality(upTo(x))
    BY DEF Rank
  <1>6. ASSUME NEW x \in block PROVE Rank(E, block, x) \in 1..m
    <2>1. /\ Rank(E, block, x) \in Nat /\ Rank(E, block, x) <= m /\ Rank(E, block, x) # 0
      BY <1>3, <1>5
    <2> HIDE DEF m
    <2> QED
      BY <1>2, <2>1
  <1>7. ASSUME NEW x \in block, NEW y \in block, Rank(E, block, x) = Rank(E, block, y) PROVE x = y
    <2>1. Cardinality(upTo(x)) = Cardinality(upTo(y))
      BY <1>5, <1>7
    <2>2. E[x].at <= E[y].at \/ E[y].at <= E[x].at
      BY <1>1
    <2> HIDE DEF upTo
    <2> QED
      BY <1>4, <2>1, <2>2
  <1>8. \A i \in 1..m : \E x \in block : Rank(E, block, x) = i
    <2>1. rank \in Injection(block, 1..m)
      BY <1>6, <1>7, Zenon DEF Injection, IsInjective
    <2>2. IsFiniteSet(1..m) /\ Cardinality(1..m) = m
      BY <1>2, FS_Interval
    <2> HIDE DEF rank
    <2>3. rank \in Surjection(block, 1..m)
      BY <2>1, <2>2, FS_Injection
    <2> QED
      BY <2>3 DEF Surjection, rank
  <1>9. ASSUME NEW x \in block PROVE Rank(E, block, x) = 1 <=> \A y \in block : E[x].at <= E[y].at
    <2>1. ASSUME \A y \in block : E[x].at <= E[y].at PROVE Rank(E, block, x) = 1
      <3>1. upTo(x) = {x}
        BY <1>1, <2>1
      <3> QED
        BY <1>5, <3>1, FS_Singleton
    <2>2. ASSUME Rank(E, block, x) = 1, NEW y \in block PROVE E[x].at <= E[y].at
      <3>1. x \in upTo(x) /\ IsFiniteSet(upTo(x)) /\ Cardinality(upTo(x)) = 1
        BY <1>3, <1>5, <2>2
      <3>2. ~(E[x].at <= E[y].at) => y \in upTo(x) /\ y # x
        BY <1>1
      <3> HIDE DEF upTo
      <3>3. \E z : upTo(x) = {z}
        BY <3>1, FS_Singleton
      <3> QED
        BY <3>1, <3>2, <3>3
    <2> QED
      BY <2>1, <2>2
  <1> HIDE DEF upTo
  <1> QED
    BY <1>2, <1>6, <1>7, <1>8, <1>9

(* What curating a block says of its entries.                              *)
BlockMark(E, block, state, t) ==
    IF state = "included" THEN "included"
    ELSE IF state = "excluded" THEN "omit"
    ELSE IF \A y \in block : E[t].at <= E[y].at THEN "summary" ELSE "omitSummary"

CuratesBlock(E, path, marks, block, state, changes, new) ==
    /\ Distinct(changes)
    /\ \A i \in DOMAIN changes : changes[i].target \in block
    /\ \A t \in block : new[t] = BlockMark(E, block, state, t)
    /\ \A t \in path \ block : new[t] = marks[t]

(* BlockChanges marks every entry of the block once, and nothing else.     *)
LEMMA BlockMarks ==
    ASSUME NEW E, NEW n \in Nat, NEW path, Line(E, n, path), NEW block \in SUBSET path,
           NEW state \in {"included", "excluded", "summarized"},
           NEW changes, changes = BlockChanges(E, block, state),
           NEW marks, DOMAIN marks = path, NEW new, new = Overlaid(marks, changes)
    PROVE  CuratesBlock(E, path, marks, block, state, changes, new)
  <1> DEFINE m == Cardinality(block)
             nth(i) == CHOOSE x \in block : Rank(E, block, x) = i
             value(i) == CASE state = "included" -> "none"
                           [] state = "excluded" -> "omit"
                           [] state = "summarized" -> IF i = 1 THEN "summary" ELSE "omitSummary"
  <1>1. /\ m \in Nat
        /\ \A x \in block : Rank(E, block, x) \in 1..m
        /\ \A x, y \in block : Rank(E, block, x) = Rank(E, block, y) => x = y
        /\ \A i \in 1..m : \E x \in block : Rank(E, block, x) = i
        /\ \A x \in block : Rank(E, block, x) = 1 <=> \A y \in block : E[x].at <= E[y].at
    BY Ranked
  <1>2. changes = [i \in 1..m |->
                     [kind |-> IF state = "included" THEN "context_edit_cancel" ELSE "context_edit",
                      target |-> nth(i), value |-> value(i)]]
    BY DEF BlockChanges, Rank
  <1>3. \A i \in 1..m : nth(i) \in block /\ Rank(E, block, nth(i)) = i
    BY <1>1
  <1>4. \A i : /\ state = "excluded" => value(i) = "omit"
               /\ state = "summarized" => value(i) = IF i = 1 THEN "summary" ELSE "omitSummary"
    OBVIOUS
  <1>5. \A x \in block : nth(Rank(E, block, x)) = x
    BY <1>1, <1>3
  <1> HIDE DEF m, nth, value
  <1>6. /\ DOMAIN changes = 1..m
        /\ \A i \in 1..m : /\ changes[i].target = nth(i)
                           /\ state = "included" => Marks(changes[i]) = "included"
                           /\ state # "included" => Marks(changes[i]) = value(i)
    BY <1>2 DEF Marks
  <1>7. Distinct(changes) /\ \A i \in DOMAIN changes : changes[i].target \in block
    BY <1>3, <1>6 DEF Distinct
  <1>8. ASSUME NEW t \in block PROVE Overlaid(marks, changes)[t] = BlockMark(E, block, state, t)
    <2> DEFINE i == Rank(E, block, t)
    <2>1. i \in DOMAIN changes /\ changes[i].target = t /\ t \in DOMAIN marks
      BY <1>1, <1>5, <1>6
    <2>2. Overlaid(marks, changes)[t] = Marks(changes[i])
      BY <1>7, <2>1, OverlaidAt
    <2>3. i = 1 <=> \A y \in block : E[t].at <= E[y].at
      BY <1>1
    <2> HIDE DEF i
    <2> QED
      BY <1>4, <1>6, <2>1, <2>2, <2>3 DEF BlockMark
  <1>9. ASSUME NEW t \in path \ block PROVE Overlaid(marks, changes)[t] = marks[t]
    <2>1. \A i \in DOMAIN changes : changes[i].target # t
      BY <1>7
    <2> QED
      BY <2>1, OverlaidElsewhere
  <1> QED
    BY <1>7, <1>8, <1>9 DEF CuratesBlock

-----------------------------------------------------------------------------
(* The records of a log say what their kind can say.                       *)
Marked(E) ==
    \A x \in DOMAIN E : /\ E[x].kind = "context_edit" => E[x].value \in EditValues
                        /\ E[x].kind = "prune" => E[x].value \in PruneStates

RolesOf(messages) == {messages[i].role : i \in DOMAIN messages}

(* What an entry shows under the change that decides about it.             *)
LEMMA ProjectAs ==
    ASSUME NEW e, NEW has \in BOOLEAN, NEW d,
           has => \/ d.kind = "context_edit" /\ d.value \in EditValues
                  \/ d.kind = "prune" /\ d.value \in PruneStates /\ Contributes(e),
           NEW p, p = ProjectEntry(e, has, d),
           NEW mark, mark = IF has THEN d.value ELSE "included"
    PROVE  /\ p # <<>> => Contributes(e)
           /\ (e.kind \in {"toolCall", "toolResult"} /\ mark = "included") => e.kind \in RolesOf(p)
           /\ (e.kind = "toolResult" /\ p = <<>>) => mark \in Hides
           /\ "toolResult" \in RolesOf(p) => e.kind = "toolResult" /\ mark \notin Hides
  <1> DEFINE base == ContextMessages(e)
             check == IF e.kind = "compaction" /\ e.value = "checkpoint"
                      THEN <<Message("system", "raw")>> ELSE <<>>
             text == IF d.value = "replace" THEN "edited" ELSE "summary"
  <1>1. \A a, b, c, f : /\ RolesOf(<<Message(a, b)>>) = {a} /\ <<Message(a, b)>> # <<>>
                        /\ RolesOf(<<Message(a, b), Message(c, f)>>) = {a, c}
                        /\ <<Message(a, b)>> \o <<Message(c, f)>> = <<Message(a, b), Message(c, f)>>
                        /\ <<>> \o <<Message(a, b)>> = <<Message(a, b)>>
    <2>1. SUFFICES ASSUME NEW a, NEW b, NEW c, NEW f
          PROVE         /\ RolesOf(<<Message(a, b)>>) = {a} /\ <<Message(a, b)>> # <<>>
                        /\ RolesOf(<<Message(a, b), Message(c, f)>>) = {a, c}
                        /\ <<Message(a, b)>> \o <<Message(c, f)>> = <<Message(a, b), Message(c, f)>>
                        /\ <<>> \o <<Message(a, b)>> = <<Message(a, b)>>
      OBVIOUS
    <2>2. Message(a, b).role = a /\ Message(c, f).role = c
      BY DEF Message
    <2> DEFINE m1 == Message(a, b)
               m2 == Message(c, f)
    <2> HIDE DEF m1, m2
    <2>3. /\ DOMAIN <<m1>> = {1} /\ <<m1>>[1] = m1
          /\ DOMAIN <<m1, m2>> = {1, 2} /\ <<m1, m2>>[1] = m1 /\ <<m1, m2>>[2] = m2
          /\ <<m1>> # <<>>
      OBVIOUS
    <2>5. <<m1>> \o <<m2>> = <<m1, m2>>
      <3> DEFINE s == <<m1>> \o <<m2>>
      <3>1. <<m1>> \in Seq({m1, m2}) /\ <<m2>> \in Seq({m1, m2})
        OBVIOUS
      <3>2. Len(<<m1>>) = 1 /\ Len(<<m2>>) = 1 /\ <<m1>>[1] = m1 /\ <<m2>>[1] = m2
        OBVIOUS
      <3>3. s \in Seq({m1, m2}) /\ Len(s) = 2
        BY <3>1, <3>2
      <3>4. s[1] = m1 /\ s[2] = m2
        BY <3>1, <3>2
      <3>5. DOMAIN s = {1, 2} /\ s = [i \in DOMAIN s |-> s[i]]
        BY <3>3
      <3>6. <<m1, m2>> = [i \in {1, 2} |-> IF i = 1 THEN m1 ELSE m2]
        OBVIOUS
      <3> HIDE DEF s
      <3>7. s = [i \in {1, 2} |-> IF i = 1 THEN m1 ELSE m2]
        BY <3>4, <3>5
      <3> QED
        BY <3>6, <3>7 DEF s
    <2>6. <<>> \o <<m1>> = <<m1>>
      BY <<>> \in Seq({m1}), <<m1>> \in Seq({m1})
    <2>4. RolesOf(<<m1>>) = {m1.role} /\ RolesOf(<<m1, m2>>) = {m1.role, m2.role}
      BY <2>3 DEF RolesOf
    <2> QED
      BY <2>2, <2>3, <2>4, <2>5, <2>6 DEF m1, m2
  <1>2. /\ e.kind \in {"toolCall", "toolResult"} => base = <<Message(e.kind, "raw")>>
        /\ \/ base = <<>>
           \/ base = <<Message(e.kind, "raw")>>
           \/ e.kind = "compaction" /\ base = <<Message("compaction", "raw")>>
           \/ e.kind = "compaction" /\ base = <<Message("system", "raw"), Message("compaction", "raw")>>
    <2>1. e.kind \in MessageKinds \cup {"branch_summary"} => base = <<Message(e.kind, "raw")>>
      BY DEF ContextMessages, MessageKinds, AssistantKinds
    <2>2. e.kind = "compaction" => \/ base = <<Message("compaction", "raw")>>
                                   \/ base = <<Message("system", "raw"), Message("compaction", "raw")>>
      BY DEF ContextMessages, MessageKinds, AssistantKinds
    <2>3. (e.kind \notin MessageKinds \cup {"branch_summary"} /\ e.kind # "compaction") => base = <<>>
      BY Zenon DEF ContextMessages
    <2>4. e.kind \in {"toolCall", "toolResult"} => e.kind \in MessageKinds
      BY DEF MessageKinds, AssistantKinds
    <2> HIDE DEF base
    <2> QED
      BY <2>1, <2>2, <2>3, <2>4
  <1>3. RolesOf(<<>>) = {}
    BY DEF RolesOf
  <1>4. check = <<>> \/ (e.kind = "compaction" /\ check = <<Message("system", "raw")>>)
    OBVIOUS
  <1>5. Contributes(e) <=> base # <<>>
    BY DEF Contributes
  <1>6. /\ ReplacedRole(e) = "toolResult" => e.kind = "toolResult"
        /\ e.kind = "toolResult" => ReplacedRole(e) = "toolResult"
        /\ e.kind = "toolCall" => ReplacedRole(e) = "assistant"
    BY DEF ReplacedRole
  <1>7. CASE ~has
    <2>1. p = base /\ mark = "included" /\ "included" \notin Hides
      BY <1>7 DEF ProjectEntry, Hides
    <2>2. "toolResult" \in RolesOf(base) => e.kind = "toolResult"
      <3> HIDE DEF base
      <3> QED
        BY <1>1, <1>2, <1>3
    <2>3. e.kind \in {"toolCall", "toolResult"} => e.kind \in RolesOf(base) /\ base # <<>>
      <3>1. RolesOf(<<Message(e.kind, "raw")>>) = {e.kind} /\ <<Message(e.kind, "raw")>> # <<>>
        BY <1>1
      <3> HIDE DEF base
      <3> QED
        BY <1>2, <3>1
    <2> HIDE DEF base
    <2> QED
      BY <1>5, <2>1, <2>2, <2>3
  <1>8. CASE has /\ d.kind = "prune"
    <2>1. mark = d.value /\ d.value \in PruneStates /\ base # <<>>
      BY <1>5, <1>8
    <2>2. /\ d.value = "included" => p = base
          /\ d.value = "excluded" => p = <<>>
          /\ d.value = "summarized" => p = check \o <<Message("note", "summary")>>
      <3>1. p = CASE d.value = "included"   -> base
                  [] d.value = "excluded"   -> <<>>
                  [] d.value = "summarized" -> check \o <<Message("note", "summary")>>
        BY <1>8, Zenon DEF ProjectEntry
      <3> HIDE DEF base, check
      <3> QED
        BY <3>1
    <2> HIDE DEF base, check
    <2>3. CASE d.value = "included"
      <3>1. "toolResult" \in RolesOf(p) => e.kind = "toolResult"
        BY <1>1, <1>2, <2>1, <2>2, <2>3
      <3>2. e.kind \in {"toolCall", "toolResult"} => e.kind \in RolesOf(p)
        BY <1>1, <1>2, <2>2, <2>3
      <3> QED
        BY <1>5, <2>1, <2>2, <2>3, <3>1, <3>2 DEF Hides
    <2>4. CASE d.value = "excluded"
      BY <1>3, <2>1, <2>2, <2>4 DEF Hides
    <2>5. CASE d.value = "summarized"
      <3>1. p = <<Message("note", "summary")>> \/ p = <<Message("system", "raw"), Message("note", "summary")>>
        BY <1>1, <1>4, <2>2, <2>5
      <3>2. "toolResult" \notin RolesOf(p) /\ p # <<>>
        BY <1>1, <3>1
      <3> QED
        BY <1>5, <2>1, <2>5, <3>2
    <2> QED
      BY <2>1, <2>3, <2>4, <2>5 DEF PruneStates
  <1>9. CASE has /\ d.kind = "context_edit"
    <2>1. mark = d.value /\ d.value \in EditValues /\ d.value # "included"
      BY <1>9 DEF EditValues
    <2>2. p = IF d.value \in {"omit", "omitSummary"} THEN <<>>
              ELSE IF base = <<>> \/ (e.kind = "system" /\ d.value = "replace") THEN base
              ELSE check \o <<Message(ReplacedRole(e), text)>>
      BY <1>9, Zenon DEF ProjectEntry
    <2> HIDE DEF base, check, text
    <2>3. CASE d.value \in {"omit", "omitSummary"}
      BY <1>3, <2>1, <2>2, <2>3 DEF Hides
    <2>4. CASE d.value \notin {"omit", "omitSummary"}
      <3>1. mark \notin Hides
        BY <2>1, <2>4 DEF Hides, EditValues
      <3>2. p # <<>> => Contributes(e)
        BY <1>5, <2>2, <2>4
      <3>3. e.kind = "toolResult" => p # <<>>
        BY <1>1, <1>2, <1>4, <2>2, <2>4
      <3>4. "toolResult" \in RolesOf(p) => e.kind = "toolResult"
        <4>1. CASE base = <<>> \/ (e.kind = "system" /\ d.value = "replace")
          BY <1>1, <1>2, <1>3, <2>2, <2>4, <4>1
        <4>2. CASE ~(base = <<>> \/ (e.kind = "system" /\ d.value = "replace"))
          <5>1. p = <<Message(ReplacedRole(e), text)>> \/ p = <<Message("system", "raw"), Message(ReplacedRole(e), text)>>
            <6> DEFINE last == Message(ReplacedRole(e), text)
            <6>1. <<>> \o <<last>> = <<last>>
              BY <1>1
            <6>2. <<Message("system", "raw")>> \o <<last>> = <<Message("system", "raw"), last>>
              BY <1>1
            <6>3. p = check \o <<last>>
              BY <2>2, <2>4, <4>2
            <6> HIDE DEF last
            <6>4. p = <<last>> \/ p = <<Message("system", "raw"), last>>
              BY <1>4, <6>1, <6>2, <6>3
            <6> QED
              BY <6>4 DEF last
          <5>2. RolesOf(p) = {ReplacedRole(e)} \/ RolesOf(p) = {"system", ReplacedRole(e)}
            BY <1>1, <5>1
          <5> QED
            BY <1>6, <5>2
        <4> QED
          BY <4>1, <4>2
      <3> QED
        BY <2>1, <3>1, <3>2, <3>3, <3>4
    <2> QED
      BY <2>3, <2>4
  <1> QED
    BY <1>7, <1>8, <1>9

(* The change that decides about an entry is an edit, or a legacy record   *)
(* of an entry that contributes.                                           *)
LEMMA DecidedBy ==
    ASSUME NEW E, NEW n \in Nat, LogOK(E, n), Marked(E), LegacyTargets(E),
           NEW path \in SUBSET DOMAIN E, NEW x \in path,
           NEW changes, changes = ContextChanges(E, path, LegacyPrunes(E)), x \in DOMAIN changes
    PROVE  \/ E[changes[x]].kind = "context_edit" /\ E[changes[x]].value \in EditValues
           \/ E[changes[x]].kind = "prune" /\ E[changes[x]].value \in PruneStates /\ Contributes(E[x])
  <1> DEFINE edits == EditsOf(E, path, x)
  <1>1. Decides(E, LegacyPrunes(E), x, edits, changes)
    BY ChangeOf
  <1>2. \A y \in edits : y \in DOMAIN E
    BY DEF EditsOf
  <1> HIDE DEF edits
  <1>3. CASE edits # {}
    <2>1. changes[x] \in DOMAIN E /\ E[changes[x]].kind = "context_edit"
      BY <1>1, <1>2, <1>3 DEF Decides
    <2> QED
      BY <2>1 DEF Marked
  <1>4. CASE edits = {}
    <2>1. x \in DOMAIN LegacyPrunes(E) /\ changes[x] = LegacyPrunes(E)[x]
      BY <1>1, <1>4 DEF Decides
    <2>2. changes[x] \in DOMAIN E /\ E[changes[x]].kind = "prune" /\ E[changes[x]].target = x
      BY <2>1, LegacyOf
    <2> QED
      BY <2>2 DEF Marked, LegacyTargets
  <1> QED
    BY <1>3, <1>4

(* What the context shows of an entry, and what it is marked with.         *)
LEMMA ShownAs ==
    ASSUME NEW E, NEW n \in Nat, LogOK(E, n), Marked(E), LegacyTargets(E), NEW id,
           NEW path, path = SessionPath(E, id), NEW x \in ContextEntries(E, path),
           NEW proj, proj = Projection(E, id, LegacyPrunes(E)),
           NEW mark, mark = Marking(E, path, LegacyPrunes(E))[x]
    PROVE  /\ x \in path /\ x \in DOMAIN proj
           /\ proj[x] # <<>> => Contributes(E[x])
           /\ (E[x].kind \in {"toolCall", "toolResult"} /\ mark = "included") => E[x].kind \in Roles(proj, x)
           /\ (E[x].kind = "toolResult" /\ proj[x] = <<>>) => mark \in Hides
           /\ "toolResult" \in Roles(proj, x) => E[x].kind = "toolResult" /\ mark \notin Hides
           /\ (E[x].kind = "toolResult" /\ mark \in Hides)
                => ChangeState(E, ContextChanges(E, path, LegacyPrunes(E)), x) # "included"
  <1> DEFINE changes == ContextChanges(E, path, LegacyPrunes(E))
             has == x \in DOMAIN changes
             d == IF x \in DOMAIN changes THEN E[changes[x]] ELSE E[x]
             p == ProjectEntry(E[x], has, d)
  <1>1. path \in SUBSET DOMAIN E /\ Line(E, n, path)
    BY PathInLog, PathLine
  <1>2. x \in path
    BY <1>1, ContextIs DEF ContextShape
  <1>3. has => \/ E[changes[x]].kind = "context_edit" /\ E[changes[x]].value \in EditValues
               \/ E[changes[x]].kind = "prune" /\ E[changes[x]].value \in PruneStates /\ Contributes(E[x])
    <2> HIDE DEF changes
    <2>1. changes = ContextChanges(E, path, LegacyPrunes(E))
      BY DEF changes
    <2> QED
      BY <1>1, <1>2, <2>1, DecidedBy
  <1>4. /\ DOMAIN proj = ContextEntries(E, path)
        /\ proj[x] = IF E[x].kind = "compaction" /\ x # LatestCompaction(E, path) THEN <<>> ELSE p
    BY DEF Projection
  <1>5. mark = IF has THEN d.value ELSE "included"
    BY <1>2 DEF Marking
  <1>6. /\ has \in BOOLEAN
        /\ has => \/ d.kind = "context_edit" /\ d.value \in EditValues
                  \/ d.kind = "prune" /\ d.value \in PruneStates /\ Contributes(E[x])
    BY <1>3
  <1> HIDE DEF has, d, changes
  <1>7. /\ p # <<>> => Contributes(E[x])
        /\ (E[x].kind \in {"toolCall", "toolResult"} /\ mark = "included") => E[x].kind \in RolesOf(p)
        /\ (E[x].kind = "toolResult" /\ p = <<>>) => mark \in Hides
        /\ "toolResult" \in RolesOf(p) => E[x].kind = "toolResult" /\ mark \notin Hides
    BY <1>5, <1>6, ProjectAs
  <1> HIDE DEF p
  <1>8. Roles(proj, x) = RolesOf(proj[x]) /\ RolesOf(<<>>) = {}
    BY DEF Roles, RolesOf
  <1>9. (E[x].kind = "toolResult" /\ mark \in Hides) => ChangeState(E, changes, x) # "included"
    <2>1. SUFFICES ASSUME mark \in Hides PROVE ChangeState(E, changes, x) # "included"
      OBVIOUS
    <2>2. has /\ mark = d.value /\ d = E[changes[x]] /\ mark # "included"
      BY <1>5, <2>1 DEF has, d, Hides
    <2>3. CASE d.kind = "prune"
      BY <2>2, <2>3 DEF ChangeState, has
    <2>4. CASE d.kind # "prune"
      <3>1. mark \in {"omit", "omitSummary"}
        BY <1>6, <2>1, <2>2, <2>4 DEF EditValues, Hides
      <3>2. ChangeState(E, changes, x) =
               CASE mark \in {"summary", "omitSummary"} -> "summarized"
                 [] mark = "omit" -> "excluded"
                 [] OTHER -> "included"
        BY <2>2, <2>4, Zenon DEF ChangeState, has
      <3> QED
        BY <3>1, <3>2
    <2> QED
      BY <2>3, <2>4
  <1> QED
    BY <1>2, <1>4, <1>7, <1>8, <1>9 DEF changes

-----------------------------------------------------------------------------
(* A call of the retained range has its results there too.                 *)
LEMMA ResultsRetained ==
    ASSUME NEW E, NEW n \in Nat, NEW path, Line(E, n, path),
           NEW c \in ContextEntries(E, path), NEW r, Answers(E, path, r, c)
    PROVE  r \in ContextEntries(E, path)
  <1> DEFINE ctx == ContextEntries(E, path)
  <1>1. ContextShape(E, path, ctx)
    BY ContextIs
  <1>2. /\ c \in path /\ r \in path /\ E[c].at < E[r].at
        /\ E[c].kind = "toolCall" /\ E[r].kind = "toolResult"
    BY DEF Answers
  <1>3. \A x \in path : E[x].at \in Nat
    BY DEF Line
  <1> HIDE DEF ctx
  <1>4. CASE ctx = path
    BY <1>2, <1>4 DEF ctx
  <1>5. CASE ctx # path
    <2>1. PICK k \in path :
            /\ E[k].kind = "compaction"
            /\ \A x \in path : x \in ctx <=>
              \/ x = k
              \/ /\ E[k].target \in path /\ E[E[k].target].at < E[k].at
                 /\ E[E[k].target].at <= E[x].at /\ E[x].at < E[k].at /\ E[x].kind # "system"
              \/ E[k].at < E[x].at
      BY <1>1, <1>5 DEF ContextShape
    <2>2. c \in ctx
      BY DEF ctx
    <2>3. CASE E[k].at < E[r].at
      BY <1>2, <2>1, <2>3 DEF ctx
    <2>4. CASE ~(E[k].at < E[r].at)
      <3>1. E[c].at < E[k].at /\ c # k
        BY <1>2, <1>3, <2>1, <2>4
      <3>2. /\ E[k].target \in path /\ E[E[k].target].at < E[k].at
            /\ E[E[k].target].at <= E[c].at
        BY <1>2, <1>3, <2>1, <2>2, <3>1
      <3>3. E[r].at # E[k].at
        BY <1>2, <2>1 DEF Line
      <3>4. E[r].at < E[k].at /\ E[E[k].target].at <= E[r].at
        BY <1>2, <1>3, <2>1, <2>4, <3>2, <3>3
      <3> QED
        BY <1>2, <2>1, <3>2, <3>4 DEF ctx
    <2> QED
      BY <2>3, <2>4
  <1> QED
    BY <1>4, <1>5

(* The entries of a block: its head, and the results that follow a call.   *)
InTail(E, path, S, h, y) ==
    /\ E[h].kind = "toolCall" /\ E[y].kind = "toolResult" /\ Contributes(E[y])
    /\ y \in S /\ E[h].at < E[y].at
    /\ \A z \in S : (/\ E[h].at < E[z].at /\ E[z].at < E[y].at
                     /\ z # LatestCompaction(E, path) /\ Contributes(E[z])) => E[z].kind = "toolResult"

(* The members of a block, spelled out.                                    *)
LEMMA BlockIs ==
    ASSUME NEW E, NEW n \in Nat, NEW path, Line(E, n, path), NEW S \in SUBSET path, NEW h \in S
    PROVE  \A y : y \in PruneBlock(E, path, S, h) <=> y = h \/ InTail(E, path, S, h, y)
  <1> DEFINE C == {x \in S : Contributes(E[x])}
             k == LatestCompaction(E, path)
             tail == {y \in C : /\ E[h].kind = "toolCall"
                                /\ Before(E, path, h, y)
                                /\ \A z \in C : /\ Before(E, path, h, z)
                                                /\ (z = y \/ Before(E, path, z, y))
                                                => E[z].kind = "toolResult"}
  <1>1. PruneBlock(E, path, S, h) = {h} \cup tail
    BY DEF PruneBlock
  <1>2. k \in path => E[k].kind = "compaction"
    <2>1. k = NullId \/ E[k].kind = "compaction"
      BY ContextIs
    <2> QED
      BY <2>1 DEF Line
  <1>3. \A x, y : Before(E, path, x, y) <=> x # y /\ (x = k \/ (y # k /\ E[x].at < E[y].at))
    BY DEF Before
  <1>4. /\ \A x \in path : E[x].at \in Nat
        /\ \A x, y \in path : E[x].at = E[y].at => x = y
    BY DEF Line
  <1>5. \A x : x \in C <=> x \in S /\ x \in path /\ Contributes(E[x])
    OBVIOUS
  <1>6. \A y : y \in tail <=> /\ y \in C /\ E[h].kind = "toolCall" /\ Before(E, path, h, y)
                              /\ \A z \in C : (Before(E, path, h, z) /\ (z = y \/ Before(E, path, z, y)))
                                                => E[z].kind = "toolResult"
    OBVIOUS
  <1> HIDE DEF C, k, tail
  <1>7. ASSUME NEW y \in tail PROVE InTail(E, path, S, h, y)
    <2>1. /\ y \in C /\ E[h].kind = "toolCall" /\ h # k /\ y # k /\ E[h].at < E[y].at
          /\ E[y].kind = "toolResult"
      BY <1>2, <1>3, <1>5, <1>6, <1>7
    <2>2. ASSUME NEW z \in S, E[h].at < E[z].at, E[z].at < E[y].at, z # k, Contributes(E[z])
          PROVE  E[z].kind = "toolResult"
      <3>1. z \in C /\ z # h /\ z # y
        BY <1>4, <1>5, <2>1, <2>2
      <3>2. Before(E, path, h, z) /\ Before(E, path, z, y)
        BY <1>3, <2>1, <2>2, <3>1
      <3> QED
        BY <1>6, <1>7, <3>1, <3>2
    <2> QED
      BY <1>5, <2>1, <2>2 DEF InTail, k
  <1>8. ASSUME NEW y, InTail(E, path, S, h, y) PROVE y \in tail
    <2>1. /\ y \in C /\ y \in S /\ E[h].kind = "toolCall" /\ E[h].at < E[y].at /\ E[y].kind = "toolResult"
          /\ h # k /\ y # k /\ y # h /\ y \in path
      BY <1>2, <1>4, <1>5, <1>8 DEF InTail
    <2>2. ASSUME NEW z \in C, Before(E, path, h, z), z = y \/ Before(E, path, z, y)
          PROVE  E[z].kind = "toolResult"
      <3>1. z # k /\ E[h].at < E[z].at
        BY <1>3, <2>1, <2>2
      <3>2. z = y \/ E[z].at < E[y].at
        BY <1>3, <2>1, <2>2, <3>1
      <3> QED
        BY <1>5, <1>8, <2>1, <3>1, <3>2 DEF InTail, k
    <2>3. Before(E, path, h, y)
      BY <1>3, <2>1
    <2> QED
      BY <1>6, <2>1, <2>2, <2>3
  <1>9. \A y : y \in PruneBlock(E, path, S, h) <=> y = h \/ y \in tail
    BY <1>1
  <1> QED
    BY <1>7, <1>8, <1>9

(* A block has a head, which no other block's tail contains; a call in it  *)
(* is its head.                                                            *)
HeadOf(E, path, S, block, h) ==
    /\ h \in S /\ Contributes(E[h])
    /\ \A y : y \in block <=> y = h \/ InTail(E, path, S, h, y)
    /\ \A y \in block : E[h].at <= E[y].at
    /\ E[h].kind = "toolResult" => \A c \in S : Contributes(E[c]) => ~InTail(E, path, S, c, h)

(* Every block that groupPruneBlocks forms has such a head.                *)
LEMMA BlockHead ==
    ASSUME NEW E, NEW n \in Nat, NEW path, Line(E, n, path), NEW S \in SUBSET path,
           NEW block \in PruneBlocks(E, path, S)
    PROVE  block \in SUBSET path /\ \E h \in S : HeadOf(E, path, S, block, h)
  <1> DEFINE C == {x \in S : Contributes(E[x])}
             B == {PruneBlock(E, path, S, x) : x \in C}
  <1>1. block \in B /\ \A d \in B : ~(block \subseteq d /\ block # d)
    BY DEF PruneBlocks
  <1>2. PICK h \in C : block = PruneBlock(E, path, S, h)
    BY <1>1
  <1>3. \A x \in C : \A y : y \in PruneBlock(E, path, S, x) <=> y = x \/ InTail(E, path, S, x, y)
    BY BlockIs
  <1>4. \A x \in path : E[x].at \in Nat
    BY DEF Line
  <1>5. \A y : y \in block <=> y = h \/ InTail(E, path, S, h, y)
    BY <1>2, <1>3
  <1>6. \A y : InTail(E, path, S, h, y) => y \in S /\ E[h].at < E[y].at
    BY DEF InTail
  <1>7. block \in SUBSET path
    BY <1>5, <1>6
  <1>8. \A y \in block : E[h].at <= E[y].at
    <2>1. ASSUME NEW y \in block PROVE E[h].at <= E[y].at
      <3>1. y = h \/ E[h].at < E[y].at
        BY <1>5, <1>6
      <3>2. E[h].at \in Nat /\ E[y].at \in Nat
        BY <1>4, <1>7
      <3> QED
        BY <3>1, <3>2
    <2> QED
      BY <2>1
  <1>9. ASSUME E[h].kind = "toolResult", NEW c \in S, Contributes(E[c]), InTail(E, path, S, c, h) PROVE FALSE
    <2>1. \A y : y \in block => y = h
      BY <1>5, <1>9 DEF InTail
    <2>2. c # h
      BY <1>9 DEF InTail
    <2>3. c \in C /\ PruneBlock(E, path, S, c) \in B
      BY <1>9
    <2>4. c \in PruneBlock(E, path, S, c) /\ h \in PruneBlock(E, path, S, c)
      BY <1>3, <1>9, <2>3
    <2>5. c \notin block /\ block \subseteq PruneBlock(E, path, S, c)
      BY <2>1, <2>2, <2>4
    <2> QED
      BY <1>1, <2>3, <2>4, <2>5
  <1> QED
    BY <1>5, <1>7, <1>8, <1>9 DEF HeadOf

(* The result that answers a call is in the tail of the block of the call. *)
LEMMA AnswerInTail ==
    ASSUME NEW E, NEW path, NEW S \in SUBSET path, NEW c \in S, NEW r \in S, Answers(E, path, r, c)
    PROVE  InTail(E, path, S, c, r) /\ Contributes(E[c])
  BY Messages DEF Answers, InTail

(* What curating a block hides: every entry after its head, whatever the   *)
(* state, and its head if the block is excluded.                           *)
LEMMA BlockHides ==
    ASSUME NEW E, NEW n \in Nat, NEW path, Line(E, n, path), NEW block \in SUBSET path,
           NEW h \in block, NEW t \in block, E[h].at < E[t].at, NEW state, state # "included"
    PROVE  BlockMark(E, block, state, t) \in Hides
  <1>1. ~(E[t].at <= E[h].at)
    BY DEF Line
  <1>2. state = "excluded" => BlockMark(E, block, state, t) = "omit"
    BY DEF BlockMark
  <1>3. state # "excluded" => BlockMark(E, block, state, t) = "omitSummary"
    BY <1>1 DEF BlockMark
  <1> QED
    BY <1>2, <1>3 DEF Hides

(* The user curates any block of the context while no exchange is running. *)
LEMMA UserTidy ==
    ASSUME NEW E, NEW n \in Nat, NEW path, Line(E, n, path), ~InExchange(E, path),
           NEW marks, DOMAIN marks = path, Tidy(E, path, marks),
           NEW block \in PruneBlocks(E, path, ContextEntries(E, path)),
           NEW state \in {"included", "excluded", "summarized"}
    PROVE  LET changes == BlockChanges(E, block, state) IN
           /\ Tidy(E, path, Overlaid(marks, changes))
           /\ Distinct(changes) /\ \A i \in DOMAIN changes : changes[i].target \in path
  <1> DEFINE ctx == ContextEntries(E, path)
             changes == BlockChanges(E, block, state)
             new == Overlaid(marks, changes)
  <1>1. ctx \in SUBSET path
    <2>1. ContextShape(E, path, ctx)
      BY ContextIs
    <2> HIDE DEF ctx
    <2> QED
      BY <2>1 DEF ContextShape
  <1>2. block \in SUBSET path /\ \E h \in ctx : HeadOf(E, path, ctx, block, h)
    BY <1>1, BlockHead
  <1>3. PICK h \in ctx : HeadOf(E, path, ctx, block, h)
    BY <1>2
  <1>4. /\ Distinct(changes)
        /\ \A i \in DOMAIN changes : changes[i].target \in block
        /\ \A t \in block : new[t] = BlockMark(E, block, state, t)
        /\ \A t \in path \ block : new[t] = marks[t]
    <2>1. changes = BlockChanges(E, block, state)
      OBVIOUS
    <2>2. CuratesBlock(E, path, marks, block, state, changes, new)
      <3>1. new = Overlaid(marks, changes)
        OBVIOUS
      <3> HIDE DEF changes, new, ctx
      <3> QED
        BY <1>2, <2>1, <3>1, BlockMarks
    <2> HIDE DEF changes, new
    <2> QED
      BY <2>2 DEF CuratesBlock
  <1> HIDE DEF changes, new, ctx
  <1>5. ASSUME NEW r \in path, NEW c \in path, Answers(E, path, r, c), c \in ctx, new[c] # "included"
        PROVE  new[r] \in Hides
    <2>1. r \in ctx
      BY <1>5, ResultsRetained DEF ctx
    <2>2. InTail(E, path, ctx, c, r) /\ Contributes(E[c])
      BY <1>1, <1>5, <2>1, AnswerInTail
    <2>3. E[c].kind = "toolCall" /\ E[r].kind = "toolResult" /\ E[c].at < E[r].at
      BY <1>5 DEF Answers
    <2>4. CASE c \in block
      <3>1. c = h
        BY <1>3, <2>3, <2>4 DEF HeadOf, InTail
      <3>2. r \in block
        BY <1>3, <2>2, <3>1 DEF HeadOf
      <3>3. state # "included"
        BY <1>4, <1>5, <2>4 DEF BlockMark
      <3>4. BlockMark(E, block, state, r) \in Hides
        BY <1>2, <2>3, <2>4, <3>2, <3>3, BlockHides
      <3> QED
        BY <1>4, <3>2, <3>4
    <2>5. CASE c \notin block
      <3>1. marks[r] \in Hides
        BY <1>4, <1>5, <2>5 DEF Tidy, ctx
      <3>2. r # h
        BY <1>3, <1>5, <2>2, <2>3 DEF HeadOf
      <3>3. ASSUME InTail(E, path, ctx, h, r) PROVE FALSE
        <4>1. h \in block /\ h \in path /\ Contributes(E[h])
          BY <1>1, <1>3 DEF HeadOf
        <4>2. E[h].at # E[c].at
          BY <2>5, <4>1 DEF Line
        <4>3. E[h].at \in Nat /\ E[c].at \in Nat
          BY <4>1 DEF Line
        <4>4. E[h].kind = "toolCall" /\ E[h].at < E[r].at
          BY <3>3 DEF InTail
        <4>5. c # LatestCompaction(E, path)
          <5>1. LatestCompaction(E, path) = NullId \/ E[LatestCompaction(E, path)].kind = "compaction"
            BY ContextIs
          <5> QED
            BY <2>3, <5>1 DEF Line
        <4>6. ~(E[h].at < E[c].at)
          BY <1>5, <2>2, <2>3, <3>3, <4>5 DEF InTail
        <4>7. ~(E[c].at < E[h].at)
          BY <1>5, <4>1, <4>4 DEF Answers
        <4> QED
          BY <4>2, <4>3, <4>6, <4>7
      <3>4. r \notin block
        BY <1>3, <3>2, <3>3 DEF HeadOf
      <3> QED
        BY <1>4, <3>1, <3>4
    <2> QED
      BY <2>4, <2>5
  <1>6. ASSUME NEW x \in path, Trailing(E, path, x) PROVE FALSE
    <2>1. Contributes(E[x])
      BY <1>6, Messages DEF Trailing
    <2> QED
      BY <1>6, <2>1, ExchangeEnd
  <1>7. Tidy(E, path, new)
    BY <1>5, <1>6 DEF Tidy, ctx
  <1> QED
    BY <1>2, <1>4, <1>7 DEF changes, new

(* The agent curates any block of the visible entries but the newest, one  *)
(* that is not curated yet.                                                *)
LEMMA AgentTidy ==
    ASSUME NEW E, NEW n \in Nat, LogOK(E, n), Marked(E), LegacyTargets(E), NEW id,
           NEW path, path = SessionPath(E, id),
           NEW leg, leg = LegacyPrunes(E), NEW marks, marks = Marking(E, path, leg), Tidy(E, path, marks),
           NEW block \in AgentBlocks(E, id, leg), NEW state \in {"excluded", "summarized"}
    PROVE  LET changes == BlockChanges(E, block, state) IN
           /\ Tidy(E, path, Overlaid(marks, changes))
           /\ Distinct(changes) /\ \A i \in DOMAIN changes : changes[i].target \in path
  <1> DEFINE ctx == ContextEntries(E, path)
             proj == Projection(E, id, leg)
             V == Visible(proj)
             know == ContextChanges(E, path, leg)
             changes == BlockChanges(E, block, state)
             new == Overlaid(marks, changes)
             first(b) == CHOOSE x \in b : \A y \in b : E[x].at <= E[y].at
             newest == \A x \in block, y \in V : x = y \/ y \in block \/ Before(E, path, y, x)
  <1>1. Line(E, n, path) /\ DOMAIN marks = path
    BY PathLine DEF Marking
  <1>2. ctx \in SUBSET path /\ DOMAIN proj = ctx
    BY <1>1, ContextIs DEF ContextShape, Projection
  <1>3. \A x \in ctx :
           /\ proj[x] # <<>> => Contributes(E[x])
           /\ (E[x].kind = "toolCall" /\ marks[x] = "included") => "toolCall" \in Roles(proj, x)
           /\ (E[x].kind = "toolResult" /\ proj[x] = <<>>) => marks[x] \in Hides
           /\ (E[x].kind = "toolResult" /\ marks[x] \in Hides) => ChangeState(E, know, x) # "included"
    BY ShownAs
  <1>4. \A x \in ctx : proj[x] = <<>> => Roles(proj, x) = {}
    BY DEF Roles
  <1>5. \A x : x \in V <=> x \in ctx /\ proj[x] # <<>>
    BY <1>2 DEF Visible
  <1>6. /\ block \in PruneBlocks(E, path, V)
        /\ ChangeState(E, know, first(block)) = "included" /\ ~newest
    BY DEF AgentBlocks
  <1>7. LatestCompaction(E, path) = NullId \/ E[LatestCompaction(E, path)].kind = "compaction"
    BY <1>1, ContextIs
  <1> HIDE DEF changes, ctx, proj, V, know
  <1>8. V \in SUBSET path
    BY <1>2, <1>5
  <1>9. block \in SUBSET path /\ \E h \in V : HeadOf(E, path, V, block, h)
    BY <1>1, <1>6, <1>8, BlockHead
  <1>10. PICK h \in V : HeadOf(E, path, V, block, h)
    BY <1>9
  <1>11. /\ Distinct(changes)
         /\ \A i \in DOMAIN changes : changes[i].target \in block
         /\ \A t \in block : new[t] = BlockMark(E, block, state, t)
         /\ \A t \in path \ block : new[t] = marks[t]
    <2>1. changes = BlockChanges(E, block, state) /\ state \in {"included", "excluded", "summarized"}
      BY DEF changes
    <2>2. CuratesBlock(E, path, marks, block, state, changes, new)
      <3>1. new = Overlaid(marks, changes)
        OBVIOUS
      <3> HIDE DEF new
      <3> QED
        BY <1>1, <1>9, <2>1, <3>1, BlockMarks
    <2> HIDE DEF new
    <2> QED
      BY <2>2 DEF CuratesBlock
  <1>12. /\ \A x \in path : E[x].at \in Nat
         /\ \A x, y \in path : E[x].at = E[y].at => x = y
    BY <1>1 DEF Line
  <1>13. h \in block /\ first(block) = h
    <2>1. h \in block /\ \A y \in block : E[h].at <= E[y].at
      BY <1>10 DEF HeadOf
    <2>2. \A x \in block : (\A y \in block : E[x].at <= E[y].at) => x = h
      BY <1>9, <1>12, <2>1
    <2>3. first(block) \in block /\ \A y \in block : E[first(block)].at <= E[y].at
      BY <2>1
    <2> QED
      BY <2>1, <2>2, <2>3
  <1> HIDE DEF new, first
  <1>14. ASSUME NEW r \in path, NEW c \in path, Answers(E, path, r, c), c \in ctx, new[c] # "included"
         PROVE  new[r] \in Hides
    <2>1. r \in ctx
      BY <1>1, <1>14, ResultsRetained DEF ctx
    <2>2. E[c].kind = "toolCall" /\ E[r].kind = "toolResult" /\ E[c].at < E[r].at
      BY <1>14 DEF Answers
    <2>3. ASSUME r \in block, r # h PROVE new[r] \in Hides
      <3>1. E[h].at < E[r].at
        BY <1>10, <2>3 DEF HeadOf, InTail
      <3>2. BlockMark(E, block, state, r) \in Hides
        BY <1>1, <1>9, <1>13, <2>3, <3>1, BlockHides
      <3> QED
        BY <1>11, <2>3, <3>2
    <2>4. CASE c \in block
      <3>1. c = h /\ c # r
        BY <1>10, <2>2, <2>4 DEF HeadOf, InTail
      <3>2. CASE r \in V
        <4>1. InTail(E, path, V, c, r)
          BY <1>8, <1>14, <3>1, <3>2, AnswerInTail
        <4>2. r \in block
          BY <1>10, <3>1, <4>1 DEF HeadOf
        <4> QED
          BY <2>3, <3>1, <4>2
      <3>3. CASE r \notin V
        <4>1. marks[r] \in Hides
          BY <1>3, <1>5, <2>1, <2>2, <3>3
        <4>2. r \notin block
          BY <1>10, <3>1, <3>3 DEF HeadOf, InTail
        <4> QED
          BY <1>11, <4>1, <4>2
      <3> QED
        BY <3>2, <3>3
    <2>5. CASE c \notin block
      <3>1. marks[r] \in Hides
        BY <1>11, <1>14, <2>5 DEF Tidy, ctx
      <3>2. r # h
        BY <1>3, <1>6, <1>13, <2>1, <2>2, <3>1
      <3> QED
        BY <1>11, <2>3, <3>1, <3>2
    <2> QED
      BY <2>4, <2>5
  <1>15. ASSUME NEW x \in path, Trailing(E, path, x), x \in block PROVE FALSE
    <2>1. PICK u \in block, y \in V : u # y /\ y \notin block /\ ~Before(E, path, y, u)
      BY <1>6
    <2>2. u = h \/ InTail(E, path, V, h, u)
      BY <1>10 DEF HeadOf
    <2>3. x = h \/ InTail(E, path, V, h, x)
      BY <1>10, <1>15 DEF HeadOf
    <2>4. E[h].kind \in {"toolCall", "toolResult"} /\ E[u].kind \in {"toolCall", "toolResult"}
      BY <1>15, <2>2, <2>3 DEF InTail, Trailing
    <2>5. u \in path /\ y \in path /\ h \in path /\ E[h].at <= E[u].at
      BY <1>8, <1>9, <1>10 DEF HeadOf
    <2>6. u # LatestCompaction(E, path) /\ h # LatestCompaction(E, path)
      BY <1>1, <1>7, <2>4, <2>5 DEF Line
    <2>7. y # LatestCompaction(E, path) /\ E[u].at < E[y].at
      BY <1>12, <2>1, <2>5, <2>6 DEF Before
    <2>8. E[h].at < E[y].at /\ Contributes(E[y])
      BY <1>3, <1>5, <1>12, <2>5, <2>7
    <2>9. ~InTail(E, path, V, h, y)
      BY <1>10, <2>1 DEF HeadOf
    <2>10. ASSUME E[h].kind = "toolCall" PROVE InTail(E, path, V, h, y)
      <3>1. ASSUME NEW z \in V, E[h].at < E[z].at, E[z].at < E[y].at \/ z = y,
                   z # LatestCompaction(E, path), Contributes(E[z])
            PROVE  E[z].kind = "toolResult"
        <4>1. z \in path
          BY <1>8
        <4>2. CASE E[x].at < E[z].at
          BY <1>15, <3>1, <4>1, <4>2 DEF Trailing
        <4>3. CASE E[z].at = E[x].at
          <5>1. z = x
            BY <1>12, <4>1, <4>3
          <5>2. x # h
            BY <1>12, <3>1, <4>1, <5>1
          <5> QED
            BY <2>3, <5>1, <5>2 DEF InTail
        <4>4. CASE E[z].at < E[x].at
          <5>1. x # h
            BY <1>12, <2>5, <3>1, <4>1, <4>4
          <5> QED
            BY <2>3, <3>1, <4>4, <5>1 DEF InTail
        <4> QED
          BY <1>12, <4>1, <4>2, <4>3, <4>4
      <3>2. E[y].kind = "toolResult"
        BY <2>7, <2>8, <3>1
      <3> QED
        BY <2>8, <2>10, <3>1, <3>2 DEF InTail
    <2>11. ASSUME E[h].kind = "toolResult" PROVE FALSE
      <3>1. x = h
        BY <2>3, <2>11 DEF InTail
      <3>2. PICK c \in path : Answers(E, path, h, c)
        BY <2>5, <2>11 DEF Tidy
      <3>3. E[c].kind = "toolCall" /\ E[c].at < E[h].at
        BY <3>2 DEF Answers
      <3>4. Trailing(E, path, c)
        <4>1. ASSUME NEW z \in path, E[c].at < E[z].at, Contributes(E[z]) PROVE E[z].kind = "toolResult"
          <5>1. CASE E[z].at < E[h].at
            BY <3>2, <4>1, <5>1 DEF Answers
          <5>2. CASE E[z].at = E[h].at
            <6>1. z = h
              BY <1>12, <2>5, <5>2
            <6> QED
              BY <2>11, <6>1
          <5>3. CASE E[h].at < E[z].at
            BY <1>15, <3>1, <4>1, <5>3 DEF Trailing
          <5> QED
            BY <1>12, <2>5, <5>1, <5>2, <5>3
        <4> QED
          BY <3>3, <4>1 DEF Trailing
      <3>5. c \in ctx
        <4>1. ASSUME c \notin ctx PROVE FALSE
          <5>1. ContextShape(E, path, ctx)
            BY <1>1, ContextIs DEF ctx
          <5>2. PICK k \in path : /\ E[k].kind = "compaction"
                                  /\ \A z \in path : (z = k \/ E[k].at < E[z].at) => z \in ctx
            BY <4>1, <5>1 DEF ContextShape
          <5>3. E[c].at < E[k].at
            BY <1>12, <4>1, <5>2
          <5>4. Contributes(E[k])
            BY <5>2, Messages
          <5> QED
            BY <3>4, <5>2, <5>3, <5>4 DEF Trailing
        <4> QED
          BY <4>1
      <3>6. c \in V
        <4>1. marks[c] = "included"
          BY <3>4 DEF Tidy
        <4>2. "toolCall" \in Roles(proj, c)
          BY <1>3, <3>3, <3>5, <4>1
        <4> QED
          BY <1>4, <1>5, <3>5, <4>2
      <3>7. InTail(E, path, V, c, h) /\ Contributes(E[c])
        BY <1>8, <3>2, <3>6, AnswerInTail
      <3> QED
        BY <1>10, <2>11, <3>6, <3>7 DEF HeadOf
    <2> QED
      BY <2>4, <2>9, <2>10, <2>11
  <1>16. ASSUME NEW x \in path, Trailing(E, path, x) PROVE new[x] = "included"
    <2>1. x \notin block
      BY <1>15, <1>16
    <2> QED
      BY <1>11, <1>16, <2>1 DEF Tidy
  <1>17. Tidy(E, path, new)
    BY <1>14, <1>16 DEF Tidy, ctx
  <1> QED
    BY <1>9, <1>11, <1>17 DEF changes, new

-----------------------------------------------------------------------------
(* On a tidy path no call of the retained range is hidden while its result *)
(* shows.                                                                  *)
LEMMA TidyTogether ==
    ASSUME NEW E, NEW n \in Nat, LogOK(E, n), Marked(E), LegacyTargets(E), NEW id,
           NEW leg, leg = LegacyPrunes(E), TidyAt(E, id, leg), NEW r \in Orphans(E, id, leg)
    PROVE  CallOf(E, SessionPath(E, id), r) \notin ContextEntries(E, SessionPath(E, id))
  <1> DEFINE path == SessionPath(E, id)
             ctx == ContextEntries(E, path)
             proj == Projection(E, id, leg)
             marks == Marking(E, path, leg)
             Calls == {x \in path : E[x].kind = "toolCall" /\ E[x].at < E[r].at}
             call == CallOf(E, path, r)
  <1>1. Line(E, n, path) /\ Tidy(E, path, marks)
    BY PathLine DEF TidyAt
  <1>2. DOMAIN proj = ctx
    BY DEF Projection
  <1>3. \A x \in ctx :
           /\ x \in path
           /\ (E[x].kind = "toolCall" /\ marks[x] = "included") => "toolCall" \in Roles(proj, x)
           /\ "toolResult" \in Roles(proj, x) => E[x].kind = "toolResult" /\ marks[x] \notin Hides
    BY ShownAs
  <1>4. /\ r \in DOMAIN proj /\ "toolResult" \in Roles(proj, r)
        /\ ~\E c \in DOMAIN proj : c = call /\ "toolCall" \in Roles(proj, c)
    BY DEF Orphans
  <1>5. call = Latest(E, Calls)
    BY DEF CallOf
  <1> HIDE DEF proj, marks, call, ctx, path
  <1>6. r \in path /\ E[r].kind = "toolResult" /\ marks[r] \notin Hides
    BY <1>2, <1>3, <1>4
  <1>7. PICK c \in path : Answers(E, path, r, c)
    BY <1>1, <1>6 DEF Tidy
  <1>8. call = c
    <2>1. c \in Calls /\ \A x \in Calls : E[x].at \in Nat /\ E[x].at <= n /\ x \in path
                                          /\ E[x].kind = "toolCall" /\ E[x].at < E[r].at
      BY <1>1, <1>7 DEF Answers, Line
    <2> HIDE DEF Calls
    <2>2. Latest(E, Calls) \in Calls /\ E[c].at <= E[Latest(E, Calls)].at
      BY <2>1, LatestExists
    <2>3. ~(E[c].at < E[call].at)
      <3>1. call \in path /\ E[call].kind = "toolCall" /\ E[call].at < E[r].at
        BY <1>5, <2>1, <2>2
      <3>2. Contributes(E[call])
        BY <3>1, Messages
      <3> QED
        BY <1>7, <3>1, <3>2 DEF Answers
    <2>4. E[c].at = E[call].at /\ call \in path
      BY <1>5, <2>1, <2>2, <2>3
    <2> QED
      BY <1>1, <2>4 DEF Line
  <1>9. ASSUME call \in ctx PROVE FALSE
    <2>1. E[c].kind = "toolCall"
      BY <1>7 DEF Answers
    <2>2. marks[c] # "included"
      BY <1>2, <1>3, <1>4, <1>8, <1>9, <2>1
    <2>3. marks[r] \in Hides
      BY <1>1, <1>6, <1>7, <1>8, <1>9, <2>2 DEF Tidy, ctx
    <2> QED
      BY <1>6, <2>3
  <1> QED
    BY <1>9 DEF call, ctx, path

-----------------------------------------------------------------------------
(* Where the tree selector may stop: at an entry that is not a marker, or  *)
(* at the parent of one.                                                   *)
Plain(E) == {x \in DOMAIN E : E[x].kind \notin EditKinds}
Stops(E) == Plain(E) \cup (DOMAIN E \cap {E[x].parent : x \in Plain(E)})

(* An append adds its entry and its parent to these places, if it is not a *)
(* marker.                                                                 *)
LEMMA StopsGrow ==
    ASSUME NEW E, NEW n \in Nat, LogOK(E, n), NEW e, NEW W, W = With(E, n + 1, e), NEW x \in Stops(W)
    PROVE  \/ x \in Stops(E)
           \/ e.kind \notin EditKinds /\ (x = n + 1 \/ (x = e.parent /\ x \in DOMAIN E))
  <1>1. /\ DOMAIN W = DOMAIN E \cup {n + 1} /\ n + 1 \notin DOMAIN E
        /\ W[n + 1] = e /\ \A y \in DOMAIN E : W[y] = E[y]
    BY DEF With, LogOK, IsLog, Id
  <1>2. \A y \in DOMAIN E : E[y].parent # n + 1
    BY DEF LogOK, IsLog, Entry, Id
  <1>3. \A y : y \in Plain(W) <=> y \in Plain(E) \/ (y = n + 1 /\ e.kind \notin EditKinds)
    BY <1>1 DEF Plain
  <1>4. x \in Plain(W) \/ \E y \in Plain(W) : x \in DOMAIN W /\ x = W[y].parent
    BY DEF Stops
  <1>5. \A y \in Plain(E) : y \in DOMAIN E
    BY DEF Plain
  <1>6. x \in Stops(E) <=> x \in Plain(E) \/ (x \in DOMAIN E /\ \E y \in Plain(E) : x = E[y].parent)
    BY DEF Stops
  <1> QED
    BY <1>1, <1>2, <1>3, <1>4, <1>5, <1>6

(* Without the filter "all" the selector stops at such places only.        *)
LEMMA NavigationStops ==
    ASSUME NEW E, "branchAll" \notin Operations
    PROVE  NavigationTargets(E) \subseteq Stops(E)
  <1>1. \A x \in DOMAIN E : E[x].kind \notin SettingKinds \cup EditKinds \cup {"label", "info"} => x \in Plain(E)
    BY DEF Plain
  <1>2. \A x \in DOMAIN E : E[x].kind = "user" => x \in Plain(E)
    BY DEF Plain, EditKinds
  <1> QED
    BY <1>1, <1>2, Zenon DEF NavigationTargets, Stops

(* No marker of a path, and no legacy record, is about a later entry.      *)
LEMMA NothingAhead ==
    ASSUME NEW E, NEW n \in Nat, LogOK(E, n), Curated(E), LegacyTargets(E), NEW id
    PROVE  /\ n + 1 \notin DOMAIN LegacyPrunes(E)
           /\ LegacyPrunes(E) \in [DOMAIN LegacyPrunes(E) -> DOMAIN E]
           /\ \A x \in SessionPath(E, id) : E[x].kind \in EditKinds => E[x].target \in SessionPath(E, id)
  <1>1. \A t \in DOMAIN LegacyPrunes(E) : /\ LegacyPrunes(E)[t] \in DOMAIN E
                                          /\ E[LegacyPrunes(E)[t]].kind = "prune"
                                          /\ E[LegacyPrunes(E)[t]].target = t
    BY LegacyOf
  <1>2. \A x \in DOMAIN E : x \in Nat /\ x <= n
    BY DEF LogOK, IsLog, Id
  <1>3. \A x \in DOMAIN E : E[x].kind = "prune" => E[x].target < x
    BY DEF LegacyTargets
  <1>4. n + 1 \notin DOMAIN LegacyPrunes(E)
    <2>1. ASSUME n + 1 \in DOMAIN LegacyPrunes(E) PROVE FALSE
      <3>1. PICK x \in DOMAIN E : n + 1 < x
        BY <1>1, <1>3, <2>1
      <3> QED
        BY <1>2, <3>1
    <2> QED
      BY <2>1
  <1>5. LegacyPrunes(E) \in [DOMAIN LegacyPrunes(E) -> DOMAIN E]
    <2>1. LegacyPrunes(E) = [t \in DOMAIN LegacyPrunes(E) |-> LegacyPrunes(E)[t]]
      BY DEF LegacyPrunes
    <2> QED
      BY <1>1, <2>1
  <1>6. ASSUME NEW x \in SessionPath(E, id), E[x].kind \in EditKinds
        PROVE  E[x].target \in SessionPath(E, id)
    <2>1. id \in DOMAIN E /\ x \in DOMAIN E
      BY PathInLog DEF SessionPath
    <2>2. E[x].target \in SessionPath(E, x)
      BY <1>6, <2>1 DEF Curated, Curates
    <2>3. SessionPath(E, x) \subseteq SessionPath(E, id)
      BY <2>1, PathOrder
    <2> QED
      BY <2>2, <2>3
  <1> QED
    BY <1>4, <1>5, <1>6

(* An append that may end an exchange, or one marker of a batch, leaves    *)
(* the path it extends tidy.                                               *)
Extends(E, n, e, path, batch, rest) ==
    \/ /\ batch = <<>> /\ rest = <<>> /\ e.kind \notin EditKinds
       /\ e.kind = "compaction" =>
              \/ e.target = n + 1
              \/ e.target \in ContextEntries(E, path) \ {LatestCompaction(E, path)}
       /\ e.kind = "toolResult" => InExchange(E, path)
    \/ /\ batch # <<>> /\ rest = Tail(batch) /\ e.kind \in EditKinds
       /\ e.kind = Head(batch).kind /\ e.target = Head(batch).target /\ e.value = Head(batch).value

(* So the path stays tidy from one marker of a batch to the next.          *)
LEMMA TidyExtended ==
    ASSUME NEW E, NEW n \in Nat, LogOK(E, n), Curated(E), LegacyTargets(E),
           NEW e, e.at = n + 1, NEW W, W = With(E, n + 1, e), LogOK(W, n + 1),
           NEW leg, leg = LegacyPrunes(E), NEW path, path = SessionPath(E, e.parent),
           NEW T, NEW batch \in Seq(T), Distinct(batch), \A i \in DOMAIN batch : batch[i].target \in path,
           NEW rest, Extends(E, n, e, path, batch, rest),
           Tidy(E, path, Overlaid(Marking(E, path, leg), batch))
    PROVE  /\ Tidy(W, SessionPath(W, n + 1), Overlaid(Marking(W, SessionPath(W, n + 1), leg), rest))
           /\ Distinct(rest)
  <1> DEFINE N == n + 1
             P == path \cup {N}
             old == Marking(E, path, leg)
             marks == Overlaid(old, batch)
             more == Marking(W, P, leg)
             new == Overlaid(more, rest)
  <1>1. /\ DOMAIN W = DOMAIN E \cup {N} /\ N \notin DOMAIN E
        /\ W[N] = e /\ \A x \in DOMAIN E : W[x] = E[x] /\ NullId \notin DOMAIN W
    BY DEF With, LogOK, IsLog, Id, NullId
  <1>2. path \in SUBSET DOMAIN E /\ Line(E, n, path)
    BY PathInLog, PathLine
  <1>3. SessionPath(W, N) = P
    <2>1. SessionPath(W, N) = {N} \cup SessionPath(W, e.parent)
      BY <1>1, PathStep
    <2>2. e.parent \in DOMAIN E => SessionPath(W, e.parent) = path
      BY AppendContinues, PathStable
    <2>3. e.parent \notin DOMAIN E => e.parent \notin DOMAIN W /\ path = {}
      <3>1. ~(e.parent = N)
        <4>1. e.parent \in DOMAIN W => W[e.parent].at < W[N].at
          BY <1>1 DEF LogOK, ParentsEarlier
        <4>2. ~(n + 1 < n + 1)
          OBVIOUS
        <4> QED
          BY <1>1, <4>1, <4>2
      <3> QED
        BY <1>1, <3>1 DEF SessionPath
    <2>4. e.parent \notin DOMAIN W => SessionPath(W, e.parent) = {}
      BY DEF SessionPath
    <2> QED
      BY <2>1, <2>2, <2>3, <2>4
  <1>4. /\ N \notin DOMAIN leg /\ leg \in [DOMAIN leg -> DOMAIN E]
        /\ \A x \in path : E[x].kind \in EditKinds => E[x].target \in path
    BY NothingAhead
  <1>5. DOMAIN old = path /\ DOMAIN marks = path /\ DOMAIN more = P /\ N \notin path
    BY <1>1, <1>2 DEF Marking, Overlaid
  <1>6. e.kind \in EditKinds => e.target \in path
    <2>1. ASSUME e.kind \in EditKinds PROVE e.target \in path
      <3>1. batch # <<>> /\ e.target = Head(batch).target
        BY <2>1 DEF Extends
      <3>2. 1 \in DOMAIN batch /\ Head(batch) = batch[1]
        BY <3>1
      <3> QED
        BY <3>1, <3>2
    <2> QED
      BY <2>1
  <1>7. /\ more[N] = "included"
        /\ \A t \in path : more[t] = IF e.kind \in EditKinds /\ t = e.target THEN Marks(e) ELSE old[t]
    <2>1. /\ DOMAIN W = DOMAIN E \cup {n + 1} /\ W[n + 1].at = n + 1 /\ \A x \in DOMAIN E : W[x] = E[x]
          /\ n + 1 \notin DOMAIN leg
          /\ W[n + 1].kind \in EditKinds => W[n + 1].target \in path
      BY <1>1, <1>4, <1>6
    <2>2. MarksGrow(W[n + 1], path, n + 1, Marking(E, path, leg), Marking(W, path \cup {n + 1}, leg))
      BY <1>2, <1>4, <2>1, MarkingGrows
    <2> QED
      BY <1>1, <2>2 DEF MarksGrow
  <1>8. Tidy(W, P, Extended(marks, N))
    <2>1. Tidy(E, path, marks) /\ \A x \in path : W[x] = E[x]
      BY <1>1, <1>2
    <2>2. /\ W[N].kind = "compaction" =>
              \/ W[N].target = n + 1
              \/ W[N].target \in ContextEntries(E, path) \ {LatestCompaction(E, path)}
          /\ W[N].kind = "toolResult" => InExchange(E, path)
      BY <1>1 DEF Extends, EditKinds
    <2>3. W[N].at = n + 1
      BY <1>1
    <2> HIDE DEF marks
    <2> QED
      BY <1>1, <1>2, <1>5, <2>1, <2>2, <2>3, AppendTidy
  <1> HIDE DEF old, more
  <1>9. new = Extended(marks, N) /\ Distinct(rest)
    <2>1. CASE batch = <<>>
      <3>1. rest = <<>> /\ e.kind \notin EditKinds
        BY <2>1 DEF Extends
      <3>2. marks = [t \in path |-> old[t]] /\ new = [t \in P |-> more[t]]
        BY <1>5, <2>1, <3>1 DEF Overlaid
      <3>3. Distinct(rest)
        BY <3>1 DEF Distinct
      <3> HIDE DEF marks, new
      <3>4. new = Extended(marks, N)
        BY <1>5, <1>7, <3>1, <3>2 DEF Extended
      <3> QED
        BY <3>3, <3>4
    <2>2. CASE batch # <<>>
      <3>1. /\ rest = Tail(batch) /\ e.kind \in EditKinds /\ e.target = Head(batch).target
            /\ e.kind = Head(batch).kind /\ e.value = Head(batch).value
        BY <2>2 DEF Extends
      <3>2. Marks(e) = Marks(Head(batch))
        BY <3>1 DEF Marks
      <3>3. \A t \in DOMAIN old : more[t] = IF t = Head(batch).target THEN Marks(Head(batch)) ELSE old[t]
        BY <1>5, <1>7, <3>1, <3>2
      <3>4. DOMAIN more = DOMAIN old \cup {N} /\ N \notin DOMAIN old
            /\ \A i \in DOMAIN batch : batch[i].target \in DOMAIN old
        BY <1>5
      <3> QED
        BY <1>7, <2>2, <3>1, <3>3, <3>4, OverlaidTail
    <2> QED
      BY <2>1, <2>2
  <1> QED
    BY <1>3, <1>8, <1>9 DEF more

-----------------------------------------------------------------------------
(* Every place where the leaf may go is tidy, and so is the leaf once the  *)
(* batch that is being appended is complete.                               *)
Valued(batch) == \A i \in DOMAIN batch : batch[i].kind = "context_edit" => batch[i].value \in EditValues

TidyLeaf(E, id, leg, batch) == Tidy(E, SessionPath(E, id), Overlaid(Marking(E, SessionPath(E, id), leg), batch))

TidyMemory ==
    /\ up /\ ~failed /\ Marked(entries)
    /\ \A x \in Stops(entries) : TidyAt(entries, x, legacy)
    /\ TidyLeaf(entries, leaf, legacy, todo)
    /\ Distinct(todo) /\ Valued(todo)

(* Without a batch the leaf is tidy like any other place.                  *)
LEMMA TidyIdle ==
    ASSUME NEW E, NEW id, NEW leg
    PROVE  TidyLeaf(E, id, leg, <<>>) <=> TidyAt(E, id, leg)
  BY OverlaidNone DEF TidyLeaf, TidyAt

(* resetLeaf leads to an empty path, which is tidy.                        *)
LEMMA TidyEmpty ==
    ASSUME NEW E, NEW n \in Nat, LogOK(E, n), NEW leg
    PROVE  TidyAt(E, NullId, leg)
  <1>1. SessionPath(E, NullId) = {}
    <2>1. NullId \notin DOMAIN E
      BY DEF LogOK, IsLog, Id, NullId
    <2> QED
      BY <2>1 DEF SessionPath
  <1> QED
    BY <1>1 DEF TidyAt, Tidy

(* The changes of a block have the values of context edits.                *)
LEMMA BatchValued ==
    ASSUME NEW E, NEW block, NEW state \in {"included", "excluded", "summarized"}
    PROVE  Valued(BlockChanges(E, block, state)) /\ Valued(<<>>) /\ Distinct(<<>>)
  <1> DEFINE changes == BlockChanges(E, block, state)
             m == Cardinality(block)
             nth(i) == CHOOSE x \in block : Cardinality({y \in block : E[y].at <= E[x].at}) = i
             value(i) == CASE state = "included" -> "none"
                           [] state = "excluded" -> "omit"
                           [] state = "summarized" -> IF i = 1 THEN "summary" ELSE "omitSummary"
  <1>1. changes = [i \in 1..m |->
                     [kind |-> IF state = "included" THEN "context_edit_cancel" ELSE "context_edit",
                      target |-> nth(i), value |-> value(i)]]
    BY DEF BlockChanges
  <1>2. \A i : state # "included" => value(i) \in EditValues
    BY DEF EditValues
  <1> HIDE DEF nth, value, m, changes
  <1>3. Valued(changes)
    BY <1>1, <1>2 DEF Valued
  <1> QED
    BY <1>3 DEF Valued, Distinct, changes

(* _appendEntry of an entry that extends a tidy path.                      *)
LEMMA PushEntryTidy ==
    ASSUME IInv, IInv', IndexOK, CurationOK, LegacyOK, TidyMemory,
           NEW e \in Entry, e.at = clock + 1, e.parent \in DOMAIN entries \cup {NullId},
           e.kind # "prune", e.kind = "context_edit" => e.value \in EditValues,
           todo # <<>> => e.parent = leaf,
           TidyLeaf(entries, e.parent, legacy, todo),
           NEW rest, Extends(entries, clock, e, SessionPath(entries, e.parent), todo, rest),
           NEW newLabels, PushEntry(e, newLabels, rest, "ok")
    PROVE  TidyMemory'
  <1> DEFINE n == clock + 1
             W == With(entries, n, e)
             path == SessionPath(entries, e.parent)
  <1>1. /\ clock \in Nat /\ n \in Nat /\ LogOK(entries, clock) /\ todo \in Seq(Change)
        /\ legacy = LegacyPrunes(entries) /\ Curated(entries) /\ LegacyTargets(entries)
        /\ legacy \in [DOMAIN legacy -> DOMAIN entries]
        /\ \A i \in DOMAIN todo : todo[i].target \in SessionPath(entries, leaf)
        /\ ~failed /\ up /\ Marked(entries) /\ Distinct(todo) /\ Valued(todo)
        /\ \A x \in Stops(entries) : TidyAt(entries, x, legacy)
    BY DEF IInv, MemoryOK, IndexOK, CurationOK, LegacyOK, TidyMemory, Curates
  <1>2. /\ clock' = n /\ entries' = W /\ leaf' = n /\ todo' = rest
        /\ legacy' = legacy /\ up' = up /\ failed' = failed
    BY DEF PushEntry
  <1>3. LogOK(W, n)
    BY <1>2 DEF IInv, MemoryOK
  <1>4. \A i \in DOMAIN todo : todo[i].target \in path
    <2>1. CASE todo = <<>>
      BY <2>1
    <2>2. CASE todo # <<>>
      BY <1>1, <2>2
    <2> QED
      BY <2>1, <2>2
  <1>5. Continues(W, entries)
    BY <1>1, AppendContinues
  <1>6. /\ DOMAIN W = DOMAIN entries \cup {n} /\ W[n] = e
        /\ \A x \in DOMAIN entries : W[x] = entries[x]
    BY <1>1 DEF With, LogOK, IsLog, Id
  <1>7. TidyLeaf(W, n, legacy, rest) /\ Distinct(rest)
    <2>1. W = With(entries, clock + 1, e) /\ LogOK(W, clock + 1)
          /\ Extends(entries, clock, e, path, todo, rest)
          /\ Tidy(entries, path, Overlaid(Marking(entries, path, legacy), todo))
      BY <1>3 DEF TidyLeaf
    <2> HIDE DEF W, path
    <2>2. path = SessionPath(entries, e.parent)
      BY DEF path
    <2>3. /\ Tidy(W, SessionPath(W, clock + 1), Overlaid(Marking(W, SessionPath(W, clock + 1), legacy), rest))
          /\ Distinct(rest)
      BY <1>1, <1>4, <2>1, <2>2, TidyExtended
    <2> QED
      BY <2>3 DEF TidyLeaf
  <1> HIDE DEF W, n
  <1>8. Valued(rest)
    <2>1. CASE rest = <<>>
      BY <2>1 DEF Valued
    <2>2. CASE rest # <<>>
      <3>1. todo # <<>> /\ rest = Tail(todo)
        BY <2>2 DEF Extends
      <3>2. \A i \in DOMAIN rest : i + 1 \in DOMAIN todo /\ rest[i] = todo[i + 1]
        BY <1>1, <3>1
      <3> QED
        BY <1>1, <3>2 DEF Valued
    <2> QED
      BY <2>1, <2>2
  <1>9. Marked(W)
    BY <1>1, <1>6 DEF Marked
  <1>10. \A x \in DOMAIN entries : TidyAt(W, x, legacy) <=> TidyAt(entries, x, legacy)
    BY <1>1, <1>3, <1>5, TidyStable
  <1>11. ASSUME NEW x \in Stops(W) PROVE TidyAt(W, x, legacy)
    <2>1. \/ x \in Stops(entries)
          \/ e.kind \notin EditKinds /\ (x = n \/ (x = e.parent /\ x \in DOMAIN entries))
      <3>1. W = With(entries, clock + 1, e) /\ n = clock + 1
        BY DEF W, n
      <3> QED
        BY <1>1, <1>11, <3>1, StopsGrow
    <2>2. CASE x \in Stops(entries)
      <3>1. x \in DOMAIN entries
        BY <2>2 DEF Stops, Plain
      <3> QED
        BY <1>1, <1>10, <2>2, <3>1
    <2>3. CASE e.kind \notin EditKinds
      <3>1. todo = <<>> /\ rest = <<>>
        BY <2>3 DEF Extends
      <3>2. TidyAt(entries, e.parent, legacy) /\ TidyAt(W, n, legacy)
        BY <1>7, <3>1, TidyIdle
      <3> QED
        BY <1>10, <2>1, <2>2, <3>2
    <2> QED
      BY <2>1, <2>2, <2>3
  <1> QED
    BY <1>1, <1>2, <1>7, <1>8, <1>9, <1>11 DEF TidyMemory

(* A batch that curates a block leaves the leaf tidy when it is complete.  *)
LEMMA BatchTidy ==
    ASSUME IInv, IndexOK, LegacyOK, TidyMemory, NEW block, NEW state,
           \/ /\ block \in AgentBlocks(entries, leaf, legacy) /\ state \in {"excluded", "summarized"}
           \/ /\ block \in HumanBlocks(entries, leaf) /\ state \in {"included", "excluded"}
              /\ ~InExchange(entries, SessionPath(entries, leaf)),
           BeginContextChanges(BlockChanges(entries, block, state))
    PROVE  TidyMemory'
  <1> DEFINE path == SessionPath(entries, leaf)
             marks == Marking(entries, path, legacy)
             changes == BlockChanges(entries, block, state)
  <1>1. /\ clock \in Nat /\ LogOK(entries, clock) /\ legacy = LegacyPrunes(entries)
        /\ LegacyTargets(entries) /\ Marked(entries) /\ TidyLeaf(entries, leaf, legacy, todo)
    BY DEF IInv, MemoryOK, IndexOK, LegacyOK, TidyMemory
  <1>2. /\ todo = <<>> /\ todo' = changes
        /\ UNCHANGED <<entries, leaf, legacy, up, failed>>
    BY DEF BeginContextChanges, Idle
  <1>3. Tidy(entries, path, marks) /\ Line(entries, clock, path) /\ DOMAIN marks = path
    <2>1. TidyAt(entries, leaf, legacy)
      BY <1>1, <1>2, TidyIdle
    <2> QED
      BY <1>1, <2>1, PathLine DEF TidyAt, Marking
  <1>4. state \in {"included", "excluded", "summarized"}
    OBVIOUS
  <1>5. Valued(changes)
    BY <1>4, BatchValued
  <1> HIDE DEF path, marks
  <1>6. path = SessionPath(entries, leaf) /\ marks = Marking(entries, path, legacy)
    BY DEF path, marks
  <1>7. Tidy(entries, path, Overlaid(marks, changes)) /\ Distinct(changes)
    <2>1. CASE block \in AgentBlocks(entries, leaf, legacy) /\ state \in {"excluded", "summarized"}
      BY <1>1, <1>3, <1>6, <2>1, AgentTidy
    <2>2. CASE /\ block \in HumanBlocks(entries, leaf)
               /\ ~InExchange(entries, path)
      <3>1. block \in PruneBlocks(entries, path, ContextEntries(entries, path))
        BY <1>6, <2>2 DEF HumanBlocks
      <3>2. /\ clock \in Nat /\ Line(entries, clock, path) /\ ~InExchange(entries, path)
            /\ DOMAIN marks = path /\ Tidy(entries, path, marks)
        BY <1>1, <1>3, <2>2
      <3>3. LET new == BlockChanges(entries, block, state) IN
            Tidy(entries, path, Overlaid(marks, new)) /\ Distinct(new)
        BY <1>4, <3>1, <3>2, UserTidy
      <3> QED
        BY <3>3
    <2> QED
      BY <1>6, <2>1, <2>2
  <1> HIDE DEF changes
  <1> QED
    BY <1>2, <1>5, <1>6, <1>7 DEF TidyMemory, TidyLeaf

-----------------------------------------------------------------------------
(* A path of the extracted session that holds the retained entries of a    *)
(* path of the old one.                                                    *)
CopiedPath(E, X, id, p, Q) ==
    /\ p \subseteq SessionPath(E, id) /\ Q \subseteq DOMAIN X
    /\ \A x \in Retained(E, id) : x \in Q <=> x \in p
    /\ \A x \in p, y \in SessionPath(E, id) : E[y].at < E[x].at => y \in p

(* It marks the retained entries in the same way.                          *)
LEMMA CopiedMarks ==
    ASSUME NEW E, NEW n \in Nat, LogOK(E, n), NEW id \in DOMAIN E,
           NEW X, NEW m \in Nat, LogOK(X, m), Copies(E, X, id, n),
           NEW p, NEW Q, CopiedPath(E, X, id, p, Q), NEW x \in p, x \in Retained(E, id)
    PROVE  Marking(X, Q, LegacyPrunes(X))[x] = Marking(E, p, LegacyPrunes(E))[x]
  <1> DEFINE S == Retained(E, id)
             path == SessionPath(E, id)
             edits == EditsOf(E, p, x)
             d == Latest(E, edits)
             leg == LegacyPrunes(E)
             newleg == LegacyPrunes(X)
  <1>1. /\ SameEntries(E, X, S, path) /\ SameRecords(E, X, S, leg, newleg)
        /\ p \subseteq path /\ Q \subseteq DOMAIN X /\ \A y \in S : y \in Q <=> y \in p
    BY DEF Copies, CopiedPath
  <1>2. p \in SUBSET DOMAIN E /\ Q \in SUBSET DOMAIN X /\ x \in Q /\ x \in S
    BY <1>1 DEF SameEntries
  <1> HIDE DEF S, path, leg, newleg
  <1>3. \A y \in S : /\ X[y].kind = E[y].kind /\ X[y].value = E[y].value /\ X[y].at = E[y].at
                     /\ E[y].kind # "compaction" => X[y].target = E[y].target
    BY <1>1 DEF SameEntries
  <1>4. EditsOf(X, Q, x) = edits /\ edits \subseteq S
    <2>1. \A y \in p : E[y].kind \in EditKinds => y \in S /\ y \in Q
      BY <1>1 DEF SameEntries, Dropped, EditKinds
    <2>2. \A y \in Q : X[y].kind \in EditKinds => y \in S /\ y \in p
      BY <1>1 DEF SameEntries, Dropped, EditKinds
    <2>3. \A y : y \in EditsOf(X, Q, x) <=> y \in edits
      BY <1>3, <2>1, <2>2 DEF EditsOf, EditKinds
    <2> QED
      BY <2>1, <2>3 DEF EditsOf
  <1>5. Latest(X, edits) = d
    BY <1>3, <1>4, LatestSame
  <1>6. edits # {} => d \in S
    <2>1. \A y \in edits : E[y].at \in Nat /\ E[y].at <= n
      BY <1>2 DEF EditsOf, LogOK, IsLog, Entry
    <2> HIDE DEF edits
    <2> QED
      BY <1>4, <2>1, LatestExists
  <1>7. Marking(E, p, leg)[x] =
             IF edits # {}
             THEN IF E[d].kind = "context_edit" THEN E[d].value ELSE "included"
             ELSE IF x \in DOMAIN leg THEN E[leg[x]].value ELSE "included"
    BY <1>2, MarkOf
  <1>8. Marking(X, Q, newleg)[x] =
             IF edits # {}
             THEN IF X[d].kind = "context_edit" THEN X[d].value ELSE "included"
             ELSE IF x \in DOMAIN newleg THEN X[newleg[x]].value ELSE "included"
    BY <1>2, <1>4, <1>5, MarkOf
  <1>9. x \in DOMAIN newleg <=> x \in DOMAIN leg
    BY <1>1, <1>2 DEF SameRecords
  <1>10. x \in DOMAIN newleg => X[newleg[x]].value = E[leg[x]].value
    BY <1>1 DEF SameRecords
  <1> HIDE DEF edits, d
  <1>11. edits # {} => X[d].kind = E[d].kind /\ X[d].value = E[d].value
    BY <1>3, <1>6
  <1>12. Marking(X, Q, newleg)[x] = Marking(E, p, leg)[x]
    BY <1>7, <1>8, <1>9, <1>10, <1>11
  <1> QED
    BY <1>12 DEF leg, newleg

(* It retains no entry that the old path does not.                         *)
LEMMA CopiedContext ==
    ASSUME NEW E, NEW n \in Nat, LogOK(E, n), NEW id \in DOMAIN E,
           NEW X, NEW m \in Nat, LogOK(X, m), Copies(E, X, id, n),
           NEW p, NEW Q, CopiedPath(E, X, id, p, Q), NEW x \in p, x \in Retained(E, id),
           x \in ContextEntries(X, Q)
    PROVE  x \in ContextEntries(E, p)
  <1> DEFINE S == Retained(E, id)
             path == SessionPath(E, id)
             C == {y \in p : E[y].kind = "compaction"}
             k == LatestCompaction(E, p)
  <1>1. /\ SameEntries(E, X, S, path)
        /\ p \subseteq path /\ Q \subseteq DOMAIN X /\ \A y \in S : y \in Q <=> y \in p
        /\ \A y \in p, z \in path : E[z].at < E[y].at => z \in p
        /\ \A y \in DOMAIN X \ S : X[y].at > n
        /\ \A y \in S : X[y] = Rechain(E, id)[y]
    BY DEF Copies, CopiedPath
  <1>2. p \subseteq DOMAIN E /\ x \in Q /\ x \in S
    BY <1>1 DEF SameEntries
  <1> HIDE DEF S, path
  <1>3. \A y \in S : X[y].kind = E[y].kind /\ X[y].at = E[y].at
    BY <1>1 DEF SameEntries
  <1>4. {y \in Q : X[y].kind = "compaction"} = C /\ C \subseteq S
    <2>1. \A y \in p : E[y].kind = "compaction" => y \in S
      BY <1>1 DEF SameEntries, Dropped
    <2>2. \A y \in Q : X[y].kind = "compaction" => y \in S
      BY <1>1 DEF SameEntries, Dropped
    <2> QED
      BY <1>1, <1>3, <2>1, <2>2
  <1>5. Latest(X, C) = Latest(E, C)
    BY <1>3, <1>4, LatestSame
  <1>6. C # {} => Latest(E, C) \in C
    <2>1. \A y \in C : E[y].at \in Nat /\ E[y].at <= n
      BY <1>2 DEF LogOK, IsLog, Entry
    <2> QED
      BY <2>1, LatestExists
  <1>7. LatestCompaction(X, Q) = k
    BY <1>4, <1>5 DEF LatestCompaction
  <1>8. CASE k = NullId
    BY <1>8 DEF ContextEntries
  <1>9. CASE k # NullId
    <2>1. k \in p /\ k \in S /\ E[k].kind = "compaction"
      BY <1>4, <1>6, <1>9 DEF LatestCompaction
    <2> DEFINE f == E[k].target
               g == X[k].target
    <2> HIDE DEF k, C
    <2>2. \/ x = k
          \/ /\ g \in Q /\ X[g].at < X[k].at /\ X[g].at <= X[x].at
             /\ X[x].at < X[k].at /\ X[x].kind # "system"
          \/ X[k].at < X[x].at
      BY <1>7, <1>9 DEF ContextEntries
    <2>3. /\ X[k].at = E[k].at /\ X[x].at = E[x].at /\ X[x].kind = E[x].kind
      BY <1>2, <1>3, <2>1
    <2>4. CASE g \in Q /\ X[g].at < X[k].at /\ X[g].at <= X[x].at /\ X[x].at < X[k].at /\ X[x].kind # "system"
      <3>1. f \in path /\ E[f].at < E[k].at /\ E[f].at <= E[x].at
        <4>1. k \in Retained(E, id) /\ x \in Retained(E, id) /\ E[x].at < E[k].at
              /\ E[k].kind = "compaction"
              /\ g \in DOMAIN X /\ X[g].at < X[k].at /\ X[g].at <= X[x].at
          BY <1>1, <1>2, <2>1, <2>3, <2>4 DEF S
        <4>2. /\ SameEntries(E, X, Retained(E, id), SessionPath(E, id))
              /\ \A y \in DOMAIN X \ Retained(E, id) : X[y].at > n
              /\ \A y \in Retained(E, id) : X[y] = Rechain(E, id)[y]
          BY <1>1 DEF S, path
        <4>3. (f \in SessionPath(E, id) /\ E[f].at < E[k].at /\ E[f].at <= E[x].at)
               <=> (g \in DOMAIN X /\ X[g].at < X[k].at /\ X[g].at <= X[x].at)
          BY <4>1, <4>2, SameKept
        <4> QED
          BY <4>1, <4>3 DEF path
      <3>2. f \in p
        BY <1>1, <2>1, <3>1
      <3> QED
        BY <1>9, <2>3, <2>4, <3>1, <3>2 DEF ContextEntries, k
    <2>5. CASE x = k \/ X[k].at < X[x].at
      BY <1>9, <2>3, <2>5 DEF ContextEntries, k
    <2> QED
      BY <2>2, <2>4, <2>5
  <1> QED
    BY <1>8, <1>9

(* So it is tidy if the old path is.                                       *)
LEMMA CopiedTidy ==
    ASSUME NEW E, NEW n \in Nat, LogOK(E, n), NEW id \in DOMAIN E,
           NEW X, NEW m \in Nat, LogOK(X, m), Copies(E, X, id, n),
           NEW p, NEW Q, CopiedPath(E, X, id, p, Q),
           Tidy(E, p, Marking(E, p, LegacyPrunes(E)))
    PROVE  Tidy(X, Q, Marking(X, Q, LegacyPrunes(X)))
  <1> DEFINE S == Retained(E, id)
             old == Marking(E, p, LegacyPrunes(E))
             new == Marking(X, Q, LegacyPrunes(X))
  <1>1. /\ SameEntries(E, X, S, SessionPath(E, id))
        /\ p \subseteq SessionPath(E, id) /\ Q \subseteq DOMAIN X
        /\ \A y \in S : y \in Q <=> y \in p
    BY DEF Copies, CopiedPath
  <1>2. \A y \in p : y \in S => new[y] = old[y]
    BY CopiedMarks
  <1>3. \A y \in p : (y \in S /\ y \in ContextEntries(X, Q)) => y \in ContextEntries(E, p)
    BY CopiedContext
  <1> HIDE DEF S, old, new
  <1>4. \A y \in S : X[y].kind = E[y].kind /\ X[y].at = E[y].at
                     /\ (Contributes(X[y]) <=> Contributes(E[y]))
    BY <1>1 DEF SameEntries, Contributes, ContextMessages
  <1>5. /\ \A y \in p : Contributes(E[y]) \/ E[y].kind \in {"toolCall", "toolResult"} => y \in S /\ y \in Q
        /\ \A y \in Q : Contributes(X[y]) \/ X[y].kind \in {"toolCall", "toolResult"} => y \in S /\ y \in p
    <2>1. \A e : Contributes(e) => e.kind \notin Dropped
      BY DEF Contributes, ContextMessages, Dropped, MessageKinds, AssistantKinds
    <2>2. "toolCall" \notin Dropped /\ "toolResult" \notin Dropped
      BY DEF Dropped
    <2>3. \A y \in p : E[y].kind \notin Dropped => y \in S
      BY <1>1 DEF SameEntries
    <2>4. \A y \in Q : X[y].kind \notin Dropped => y \in S
      BY <1>1 DEF SameEntries
    <2> QED
      BY <1>1, <2>1, <2>2, <2>3, <2>4
  <1>6. ASSUME NEW r, NEW c PROVE Answers(X, Q, r, c) <=> Answers(E, p, r, c)
    <2>1. ASSUME Answers(E, p, r, c) PROVE Answers(X, Q, r, c)
      BY <1>4, <1>5, <2>1 DEF Answers
    <2>2. ASSUME Answers(X, Q, r, c) PROVE Answers(E, p, r, c)
      BY <1>4, <1>5, <2>2 DEF Answers
    <2> QED
      BY <2>1, <2>2
  <1>7. ASSUME NEW x, Trailing(X, Q, x) PROVE Trailing(E, p, x) /\ x \in p /\ x \in S
    BY <1>4, <1>5, <1>7 DEF Trailing
  <1>8. ASSUME NEW r \in Q, X[r].kind = "toolResult" PROVE \E c \in Q : Answers(X, Q, r, c)
    <2>1. r \in p /\ E[r].kind = "toolResult"
      BY <1>4, <1>5, <1>8
    <2>2. PICK c \in p : Answers(E, p, r, c)
      BY <2>1 DEF Tidy, old
    <2> QED
      BY <1>6, <2>2 DEF Answers
  <1>9. ASSUME NEW r \in Q, NEW c \in Q, Answers(X, Q, r, c), c \in ContextEntries(X, Q),
               new[c] # "included"
        PROVE  new[r] \in Hides
    <2>1. Answers(E, p, r, c)
      BY <1>6, <1>9
    <2>2. r \in p /\ r \in S /\ c \in p /\ c \in S
      BY <1>5, <1>9 DEF Answers
    <2>3. c \in ContextEntries(E, p) /\ old[c] # "included"
      BY <1>2, <1>3, <1>9, <2>2
    <2>4. old[r] \in Hides
      BY <2>1, <2>2, <2>3 DEF Tidy, old
    <2> QED
      BY <1>2, <2>2, <2>4
  <1>10. ASSUME NEW x \in Q, Trailing(X, Q, x) PROVE new[x] = "included"
    <2>1. Trailing(E, p, x) /\ x \in p /\ x \in S
      BY <1>7, <1>10
    <2>2. old[x] = "included"
      BY <2>1 DEF Tidy, old
    <2> QED
      BY <1>2, <2>1, <2>2
  <1>11. Tidy(X, Q, new)
    BY <1>8, <1>9, <1>10 DEF Tidy
  <1> QED
    BY <1>11 DEF new

(* A path is what its log, or a longer path, holds up to its last entry.   *)
LEMMA SegmentPath ==
    ASSUME NEW E, NEW n \in Nat, LogOK(E, n), NEW id \in DOMAIN E, NEW y \in SessionPath(E, id)
    PROVE  SessionPath(E, y) = {v \in SessionPath(E, id) : E[v].at <= E[y].at}
  <1>1. y \in DOMAIN E /\ SessionPath(E, y) \subseteq SessionPath(E, id)
    BY PathInLog, PathOrder
  <1>2. \A v \in SessionPath(E, id) : v \in DOMAIN E /\ E[v].at \in Nat
    BY PathInLog DEF LogOK, IsLog, Entry
  <1>3. \A v \in SessionPath(E, y) : E[v].at <= E[y].at
    <2>1. \A v \in SessionPath(E, y) : v # y => E[v].at < E[y].at
      BY <1>1, PathOrder
    <2> QED
      BY <1>1, <1>2, <2>1
  <1>4. ASSUME NEW v \in SessionPath(E, id), E[v].at <= E[y].at PROVE v \in SessionPath(E, y)
    <2>1. v \in SessionPath(E, y) \/ y \in SessionPath(E, v)
      BY PathOrder
    <2>2. y \in SessionPath(E, v) => y = v \/ E[y].at < E[v].at
      BY <1>2, PathOrder
    <2>3. y \in SessionPath(E, y)
      BY <1>1, PathStep
    <2> QED
      BY <1>1, <1>2, <1>4, <2>1, <2>2, <2>3
  <1> QED
    BY <1>1, <1>3, <1>4

(* In a chain the path of an entry is everything up to it.                 *)
LEMMA ChainSegment ==
    ASSUME NEW X, NEW m \in Nat, LogOK(X, m), Chained(X), NEW z \in DOMAIN X
    PROVE  SessionPath(X, z) = {v \in DOMAIN X : X[v].at <= X[z].at}
  <1>1. SessionPath(X, LastEntry(X)) = DOMAIN X
    BY ChainedPath
  <1>2. LastEntry(X) \in DOMAIN X
    BY LastEntryOK
  <1> QED
    BY <1>1, <1>2, SegmentPath

(* A place of the extracted session is tidy if a place of the old path     *)
(* follows the same retained entries and is tidy.                          *)
LEMMA TidyCopy ==
    ASSUME NEW E, NEW n \in Nat, LogOK(E, n), NEW id \in DOMAIN E,
           NEW X, NEW m \in Nat, LogOK(X, m), Copies(E, X, id, n),
           NEW y \in SessionPath(E, id), NEW z \in DOMAIN X,
           \A x \in Retained(E, id) : X[x].at <= X[z].at <=> E[x].at <= E[y].at,
           TidyAt(E, y, LegacyPrunes(E))
    PROVE  TidyAt(X, z, LegacyPrunes(X))
  <1> DEFINE p == SessionPath(E, y)
             Q == SessionPath(X, z)
             S == Retained(E, id)
             path == SessionPath(E, id)
  <1>1. p = {v \in path : E[v].at <= E[y].at}
    BY SegmentPath
  <1>2. Q = {v \in DOMAIN X : X[v].at <= X[z].at}
    BY ChainSegment DEF Copies
  <1>3. S \subseteq path /\ S \subseteq DOMAIN X /\ path \subseteq DOMAIN E
    BY DEF Copies, SameEntries
  <1>4. \A v \in DOMAIN E : E[v].at \in Nat
    BY DEF LogOK, IsLog, Entry
  <1>5. y \in path
    OBVIOUS
  <1>6. \A x \in S : X[x].at <= X[z].at <=> E[x].at <= E[y].at
    OBVIOUS
  <1>7. Tidy(E, p, Marking(E, p, LegacyPrunes(E)))
    BY DEF TidyAt
  <1> HIDE DEF p, Q, S, path
  <1>8. \A x \in S : x \in Q <=> x \in p
    BY <1>1, <1>2, <1>3, <1>6
  <1>9. \A x \in p, v \in path : E[v].at < E[x].at => v \in p
    BY <1>1, <1>3, <1>4, <1>5
  <1>10. CopiedPath(E, X, id, p, Q)
    BY <1>1, <1>2, <1>8, <1>9 DEF CopiedPath, S, path
  <1>11. Tidy(X, Q, Marking(X, Q, LegacyPrunes(X)))
    BY <1>7, <1>10, CopiedTidy
  <1> QED
    BY <1>11 DEF TidyAt, Q

(* An extraction at a place where the tree selector may stop is tidy, and  *)
(* so is every place where the selector may stop afterwards.               *)
LEMMA ExtractionTidy ==
    ASSUME NEW E, NEW n \in Nat, LogOK(E, n), Marked(E),
           \A x \in Stops(E) : TidyAt(E, x, LegacyPrunes(E)),
           NEW id \in Stops(E), NEW lbls \in SUBSET Nat,
           NEW X, X = ExtractedLog(E, id, lbls, LegacyPrunes(E), n)
    PROVE  /\ Marked(X)
           /\ \A z \in Stops(X) \cup {LastEntry(X)} : TidyAt(X, z, LegacyPrunes(X))
  <1> DEFINE S == Retained(E, id)
             path == SessionPath(E, id)
  <1>1. id \in DOMAIN E
    BY DEF Stops, Plain
  <1>2. Copies(E, X, id, n) /\ \E m \in Nat : LogOK(X, m)
    BY <1>1, ExtractionCopies
  <1>3. PICK m \in Nat : LogOK(X, m)
    BY <1>2
  <1>4. /\ Chained(X) /\ SameEntries(E, X, S, path)
        /\ \A x \in DOMAIN X \ S : X[x].at > n
        /\ \A x \in DOMAIN X : X[x].kind = "prune" =>
             x \in DOMAIN E /\ E[x].kind = "prune" /\ X[x].value = E[x].value
    BY <1>2 DEF Copies
  <1>5. /\ S \subseteq path /\ path \subseteq DOMAIN E /\ S \subseteq DOMAIN X
        /\ \A x \in S : X[x].kind = E[x].kind /\ X[x].value = E[x].value /\ X[x].at = E[x].at
        /\ \A x \in DOMAIN X : X[x].kind \in Dropped <=> x \notin S
    BY <1>4 DEF SameEntries
  <1>6. /\ \A x \in DOMAIN E : E[x].at \in Nat /\ E[x].at <= n
        /\ \A x \in DOMAIN X : X[x].at \in Nat
    BY <1>3 DEF LogOK, IsLog, Entry
  <1>7. id \in path /\ \A x \in S : E[x].at <= E[id].at
    <2>1. id \in SessionPath(E, id)
      BY <1>1, PathStep
    <2>2. SessionPath(E, id) = {v \in SessionPath(E, id) : E[v].at <= E[id].at}
      BY <1>1, <2>1, SegmentPath
    <2> QED
      BY <1>5, <2>1, <2>2
  <1>8. Marked(X)
    <2>1. ASSUME NEW x \in DOMAIN X, X[x].kind = "context_edit" PROVE X[x].value \in EditValues
      <3>1. x \in S
        BY <1>5, <2>1 DEF Dropped
      <3> QED
        BY <1>5, <2>1, <3>1 DEF Marked
    <2> QED
      BY <1>4, <2>1 DEF Marked
  (* A place after every retained entry. *)
  <1>9. ASSUME NEW z \in DOMAIN X, \A x \in S : X[x].at <= X[z].at
        PROVE  TidyAt(X, z, LegacyPrunes(X))
    <2>1. \A x \in Retained(E, id) : X[x].at <= X[z].at <=> E[x].at <= E[id].at
      BY <1>7, <1>9
    <2> QED
      BY <1>1, <1>2, <1>3, <1>7, <2>1, TidyCopy
  <1>10. \A x \in S, w \in DOMAIN X \ S : X[x].at < X[w].at
    BY <1>4, <1>5, <1>6
  <1>11. ASSUME NEW z \in Plain(X) PROVE TidyAt(X, z, LegacyPrunes(X))
    <2>1. z \in DOMAIN X
      BY DEF Plain
    <2>2. CASE z \notin S
      BY <1>5, <1>6, <1>9, <1>10, <2>1, <2>2
    <2>3. CASE z \in S
      <3>1. z \in Stops(E) /\ z \in SessionPath(E, id)
        BY <1>5, <2>3 DEF Plain, Stops
      <3>2. \A x \in Retained(E, id) : X[x].at <= X[z].at <=> E[x].at <= E[z].at
        BY <1>5, <2>3
      <3> QED
        BY <1>1, <1>2, <1>3, <2>1, <3>1, <3>2, TidyCopy
    <2> QED
      BY <2>2, <2>3
  <1>12. ASSUME NEW w \in Plain(X), NEW z \in DOMAIN X, z = X[w].parent
         PROVE  TidyAt(X, z, LegacyPrunes(X))
    <2>1. w \in DOMAIN X /\ X[z].at < X[w].at
      BY <1>3, <1>12 DEF Plain, LogOK, ParentsEarlier
    <2>2. \A x \in DOMAIN X : X[x].at < X[w].at => X[x].at <= X[z].at
      BY <1>4, <1>12, <2>1 DEF Chained
    <2>3. CASE w \notin S
      BY <1>5, <1>9, <1>10, <2>1, <2>2, <2>3
    <2>4. CASE w \in S
      <3> DEFINE y == E[w].parent
      <3>1. z \in S /\ E[z].at < E[w].at
        BY <1>5, <1>6, <1>10, <2>1, <2>4
      <3>2. SessionPath(E, w) = {w} \cup SessionPath(E, y) /\ w \in DOMAIN E
        BY <1>5, <2>4, PathStep
      <3>3. SessionPath(E, w) = {v \in path : E[v].at <= E[w].at}
        BY <1>1, <1>5, <2>4, SegmentPath
      <3>4. \A x \in S : E[x].at < E[w].at => x \in SessionPath(E, y)
        BY <1>5, <1>6, <3>2, <3>3
      <3>5. y \in DOMAIN E
        BY <3>1, <3>4 DEF SessionPath
      <3>6. E[y].at < E[w].at /\ y \in SessionPath(E, y)
        BY <3>2, <3>5, PathStep DEF LogOK, ParentsEarlier
      <3>7. y \in path
        BY <3>2, <3>3, <3>6
      <3>8. \A x \in SessionPath(E, y) : E[x].at <= E[y].at
        BY <1>1, <3>7, SegmentPath
      <3>9. y \in Stops(E)
        BY <1>5, <2>4, <3>2, <3>5, <1>12 DEF Plain, Stops
      <3>10. \A x \in Retained(E, id) : X[x].at <= X[z].at <=> E[x].at <= E[y].at
        <4> HIDE DEF y, path
        <4>1. \A x \in S : x \in DOMAIN E /\ x \in DOMAIN X /\ X[x].at = E[x].at
          BY <1>5
        <4>2. ASSUME NEW x \in S PROVE X[x].at <= X[z].at <=> E[x].at <= E[y].at
          <5>1. E[x].at \in Nat /\ E[y].at \in Nat /\ E[w].at \in Nat /\ E[z].at \in Nat
            BY <1>6, <3>1, <3>2, <3>5, <4>1
          <5>2. X[x].at = E[x].at /\ X[z].at = E[z].at /\ X[w].at = E[w].at
            BY <2>4, <3>1, <4>1
          <5>3. X[x].at < X[w].at => X[x].at <= X[z].at
            BY <2>2, <4>1
          <5>4. E[x].at < E[w].at => E[x].at <= E[y].at
            BY <3>4, <3>8
          <5> QED
            BY <3>1, <3>6, <5>1, <5>2, <5>3, <5>4
        <4> QED
          BY <4>2
      <3> QED
        BY <1>1, <1>2, <1>3, <3>7, <3>9, <3>10, TidyCopy
    <2> QED
      BY <2>3, <2>4
  <1>13. TidyAt(X, LastEntry(X), LegacyPrunes(X))
    <2>1. CASE DOMAIN X = {}
      <3>1. LastEntry(X) = NullId
        BY <2>1 DEF LastEntry
      <3> QED
        BY <1>3, <3>1, TidyEmpty
    <2>2. CASE DOMAIN X # {}
      <3>1. LastEntry(X) \in DOMAIN X /\ \A x \in DOMAIN X : X[x].at <= X[LastEntry(X)].at
        BY <1>3, <2>2, LastEntryOK
      <3> QED
        BY <1>5, <1>9, <3>1
    <2> QED
      BY <2>1, <2>2
  <1> QED
    BY <1>8, <1>11, <1>12, <1>13 DEF Stops

(* A cut keeps from an entry of the context, never the newest compaction.  *)
LEMMA CutsInContext ==
    ASSUME NEW E, NEW id, NEW leg, NEW f \in CompactionCuts(E, id, leg)
    PROVE  f \in ContextEntries(E, SessionPath(E, id)) \ {LatestCompaction(E, SessionPath(E, id))}
  <1> DEFINE path == SessionPath(E, id)
             proj == Projection(E, id, leg)
  <1>1. f \in DOMAIN proj \ {LatestCompaction(E, path)}
    BY DEF CompactionCuts
  <1>2. DOMAIN proj = ContextEntries(E, path)
    BY DEF Projection
  <1> QED
    BY <1>1, <1>2

(* How a session is used when nothing takes an exchange apart: blocks are  *)
(* curated by the tools, and by the selector outside a running exchange;   *)
(* the tree selector hides bookkeeping; writes succeed.                    *)
WholeBlocks ==
    /\ Outcomes \subseteq {"ok"}
    /\ Operations \cap {"omit", "replace", "cancel", "userCuratesRunning", "branchAll"} = {}

(* Every step keeps the leaf, and every place it may go to, tidy.          *)
LEMMA RunningStep ==
    ASSUME WholeBlocks
    PROVE  IInv /\ IInv' /\ IndexOK /\ CurationOK /\ LegacyOK /\ TidyMemory /\ [Next]_vars /\ up'
              => TidyMemory'
  <1> SUFFICES ASSUME IInv, IInv', IndexOK, CurationOK, LegacyOK, TidyMemory, [Next]_vars, up'
               PROVE  TidyMemory'
    OBVIOUS
  <1>1. /\ leaf \in DOMAIN entries \cup {NullId}
        /\ DOMAIN entries \subseteq Nat /\ clock \in Nat /\ LogOK(entries, clock)
        /\ todo \in Seq(Change) /\ NullId \in Nat /\ NullId \notin DOMAIN entries
        /\ legacy = LegacyPrunes(entries) /\ up
        /\ \A x \in Stops(entries) : TidyAt(entries, x, legacy)
        /\ TidyLeaf(entries, leaf, legacy, todo) /\ Valued(todo)
    BY DEF IInv, MemoryOK, LogOK, IsLog, Id, NullId, IndexOK, TidyMemory
  <1>2. /\ {"none", "checkpoint", "set", "cleared", "omit", "replace"} \subseteq EntryValues
        /\ {"compaction", "label", "context_edit", "context_edit_cancel", "branch_summary"}
              \subseteq EntryKinds
        /\ EditKinds \subseteq EntryKinds /\ Kinds \subseteq EntryKinds
        /\ EditKinds = {"context_edit", "context_edit_cancel"}
        /\ \A k \in Kinds : k # "compaction"
        /\ \A k \in Kinds \cup {"compaction", "label", "branch_summary"} :
              k \notin EditKinds /\ k # "prune"
    BY SessionAssumption
       DEF EntryValues, EditValues, EntryKinds, EditKinds, SettingKinds, MessageKinds, AssistantKinds
  <1>3. \A o \in Outcomes : o = "ok"
    BY DEF WholeBlocks
  (* An append outside a batch. *)
  <1>4. ASSUME todo = <<>>, NEW k \in EntryKinds, k \notin EditKinds, k # "prune",
               NEW p \in DOMAIN entries \cup {NullId}, TidyAt(entries, p, legacy),
               NEW t \in Nat, NEW v \in EntryValues, NEW l,
               k = "compaction" =>
                  \/ t = clock + 1
                  \/ t \in ContextEntries(entries, SessionPath(entries, p))
                             \ {LatestCompaction(entries, SessionPath(entries, p))},
               k = "toolResult" => InExchange(entries, SessionPath(entries, p)),
               PushEntry(NewEntry(k, p, t, v), l, <<>>, "ok")
        PROVE  TidyMemory'
    <2> DEFINE e == NewEntry(k, p, t, v)
    <2>1. e \in Entry /\ e.at = clock + 1
      BY NewEntryOK
    <2>2. e.kind = k /\ e.parent = p /\ e.target = t
      BY DEF NewEntry
    <2> HIDE DEF e
    <2>3. PushEntry(e, l, <<>>, "ok")
      BY <1>4 DEF e
    <2>4. TidyLeaf(entries, e.parent, legacy, todo)
      BY <1>4, <2>2, TidyIdle
    <2>5. Extends(entries, clock, e, SessionPath(entries, e.parent), todo, <<>>)
      BY <1>4, <2>2 DEF Extends
    <2>6. e.kind # "prune" /\ e.kind # "context_edit"
      BY <1>2, <1>4, <2>2
    <2> QED
      BY <1>4, <2>1, <2>2, <2>3, <2>4, <2>5, <2>6, PushEntryTidy
  <1>5. todo = <<>> => TidyAt(entries, leaf, legacy)
    BY <1>1, TidyIdle
  <1>6. TidyAt(entries, NullId, legacy)
    BY <1>1, TidyEmpty
  <1>7. NavigationTargets(entries) \subseteq Stops(entries)
    BY NavigationStops DEF WholeBlocks
  <1>8. ASSUME NEW k \in Kinds, AppendEntry(k, "ok") PROVE TidyMemory'
    BY <1>1, <1>2, <1>4, <1>5, <1>8 DEF AppendEntry, Idle
  <1>9. ASSUME NEW f \in CompactionCuts(entries, leaf, legacy) \cup {NullId},
               AppendCompaction(f, "ok")
        PROVE  TidyMemory'
    <2>1. f \in Nat
      BY <1>1, CutsInLog
    <2> DEFINE t == IF f = NullId THEN clock + 1 ELSE f
    <2>2. t \in Nat
      BY <1>1, <2>1
    <2>3. \/ t = clock + 1
          \/ t \in ContextEntries(entries, SessionPath(entries, leaf))
                     \ {LatestCompaction(entries, SessionPath(entries, leaf))}
      BY CutsInContext
    <2>4. PICK v \in {"checkpoint", "none"} :
             PushEntry(NewEntry("compaction", leaf, t, v), labels, <<>>, "ok")
      BY <1>9 DEF AppendCompaction
    <2>5. todo = <<>>
      BY <1>9 DEF AppendCompaction, Idle
    <2> HIDE DEF t
    <2> QED
      BY <1>1, <1>2, <1>4, <1>5, <2>2, <2>3, <2>4, <2>5
  <1>10. ASSUME NEW t \in DOMAIN entries, NEW v \in {"set", "cleared"}, AppendLabelChange(t, v, "ok")
         PROVE  TidyMemory'
    <2>1. PICK l : PushEntry(NewEntry("label", leaf, t, v), l, <<>>, "ok")
      BY <1>10 DEF AppendLabelChange
    <2>2. todo = <<>>
      BY <1>10 DEF AppendLabelChange, Idle
    <2> QED
      BY <1>1, <1>2, <1>4, <1>5, <2>1, <2>2
  <1>11. ASSUME AppendNextContextChange("ok") PROVE TidyMemory'
    <2> DEFINE e == NewEntry(Head(todo).kind, leaf, Head(todo).target, Head(todo).value)
    <2>1. todo # <<>> /\ PushEntry(e, labels, Tail(todo), "ok")
      BY <1>11 DEF AppendNextContextChange
    <2>2. Head(todo) \in Change /\ 1 \in DOMAIN todo /\ Head(todo) = todo[1]
      BY <1>1, <2>1
    <2>3. /\ Head(todo).kind \in EditKinds /\ Head(todo).kind \in EntryKinds
          /\ Head(todo).target \in Nat /\ Head(todo).value \in EntryValues
      BY <1>2, <2>2 DEF Change
    <2>4. e \in Entry /\ e.at = clock + 1
      BY <1>1, <2>3, NewEntryOK
    <2>5. /\ e.parent = leaf /\ e.kind = Head(todo).kind
          /\ e.target = Head(todo).target /\ e.value = Head(todo).value
      BY DEF NewEntry
    <2> HIDE DEF e
    <2>6. e.kind # "prune" /\ (e.kind = "context_edit" => e.value \in EditValues)
      BY <1>1, <1>2, <2>2, <2>3, <2>5 DEF Valued
    <2>7. Extends(entries, clock, e, SessionPath(entries, e.parent), todo, Tail(todo))
      BY <2>1, <2>3, <2>5 DEF Extends
    <2> QED
      BY <1>1, <2>1, <2>4, <2>5, <2>6, <2>7, PushEntryTidy
  <1>12. ASSUME NEW id \in NavigationTargets(entries) \cup {NullId}, BranchWithSummary(id, "ok")
         PROVE  TidyMemory'
    <2>1. TidyAt(entries, id, legacy)
      BY <1>1, <1>6, <1>7
    <2>2. /\ todo = <<>> /\ id \in DOMAIN entries \cup {NullId}
          /\ PushEntry(NewEntry("branch_summary", id, NullId, "none"), labels, <<>>, "ok")
      BY <1>12 DEF BranchWithSummary, Idle
    <2> QED
      BY <1>1, <1>2, <1>4, <2>1, <2>2
  <1>13. ASSUME NEW block \in AgentBlocks(entries, leaf, legacy),
                NEW state \in {"excluded", "summarized"}, AgentCurates(block, state)
         PROVE  TidyMemory'
    BY <1>13, BatchTidy DEF AgentCurates
  <1>14. ASSUME NEW block \in HumanBlocks(entries, leaf),
                NEW state \in {"included", "excluded"}, UserCurates(block, state)
         PROVE  TidyMemory'
    <2>1. ~InExchange(entries, SessionPath(entries, leaf))
      BY <1>14 DEF UserCurates, WholeBlocks
    <2> QED
      BY <1>14, <2>1, BatchTidy DEF UserCurates
  <1>15. CASE ResetLeaf \/ \E id \in NavigationTargets(entries) : Branch(id)
    <2>1. PICK id \in NavigationTargets(entries) \cup {NullId} : Idle /\ MoveLeaf(id)
      BY <1>15 DEF ResetLeaf, Branch
    <2>2. TidyLeaf(entries, id, legacy, <<>>)
      BY <1>1, <1>6, <1>7, TidyIdle
    <2> QED
      BY <2>1, <2>2 DEF MoveLeaf, Idle, TidyMemory
  <1>16. CASE NewSession
    <2>1. /\ todo = <<>> /\ todo' = <<>> /\ up' /\ failed' = failed
          /\ entries' = EmptyLog /\ leaf' = NullId /\ legacy' = EmptyLog
      BY <1>16 DEF NewSession
    <2>2. LogOK(EmptyLog, clock) /\ DOMAIN EmptyLog = {}
      BY <1>1, EmptyLogOK
    <2>3. TidyLeaf(EmptyLog, NullId, EmptyLog, <<>>)
      BY <1>1, <2>2, TidyEmpty, TidyIdle
    <2>4. Marked(EmptyLog) /\ Stops(EmptyLog) = {}
      BY <2>2 DEF Marked, Stops, Plain
    <2> QED
      BY <2>1, <2>3, <2>4, BatchValued DEF TidyMemory
  <1>17. CASE ReadContextChanges
    BY <1>17 DEF ReadContextChanges, TidyMemory
  <1>18. CASE UNCHANGED vars
    BY <1>18 DEF vars, TidyMemory
  <1>19. ASSUME NEW o, ForkFrom(o) PROVE FALSE
    BY <1>1, <1>19 DEF ForkFrom
  <1>20. ~Open /\ ~Exit /\ ~Crash
    BY <1>1 DEF Open, Exit, Crash, MemoryLost
  <1>21. ~Does("omit") /\ ~Does("replace") /\ ~Does("cancel")
    BY DEF Does, WholeBlocks
  <1>22. ASSUME NEW id \in NavigationTargets(entries), CreateBranchedSession(id, "ok")
         PROVE  TidyMemory'
    <2> DEFINE X == ExtractedLog(entries, id, labels, legacy, clock)
    <2>1. /\ entries' = X /\ leaf' = LastEntry(X) /\ legacy' = LegacyPrunes(X)
          /\ todo = <<>> /\ todo' = <<>> /\ up' = up /\ ~failed'
      BY <1>22 DEF CreateBranchedSession, Idle, TidyMemory
    <2>2. X = ExtractedLog(entries, id, labels, LegacyPrunes(entries), clock)
      BY <1>1
    <2> HIDE DEF X
    <2>3. labels \in SUBSET Nat /\ Marked(entries) /\ id \in Stops(entries)
      BY <1>7 DEF IInv, MemoryOK, TidyMemory
    <2>4. /\ Marked(X)
          /\ \A z \in Stops(X) \cup {LastEntry(X)} : TidyAt(X, z, LegacyPrunes(X))
      BY <1>1, <2>2, <2>3, ExtractionTidy
    <2>5. TidyLeaf(X, LastEntry(X), LegacyPrunes(X), <<>>)
      BY <2>4, TidyIdle
    <2> QED
      BY <1>1, <2>1, <2>4, <2>5, BatchValued DEF TidyMemory
  <1>23. CASE Next
    <2>1. ASSUME NEW o \in Outcomes,
                 \/ \E k \in Kinds : AppendEntry(k, o)
                 \/ \E f \in CompactionCuts(entries, leaf, legacy) \cup {NullId} : AppendCompaction(f, o)
                 \/ \E t \in DOMAIN entries, v \in {"set", "cleared"} : AppendLabelChange(t, v, o)
                 \/ AppendNextContextChange(o)
                 \/ \E id \in NavigationTargets(entries) \cup {NullId} : BranchWithSummary(id, o)
                 \/ \E id \in NavigationTargets(entries) : CreateBranchedSession(id, o)
          PROVE  TidyMemory'
      BY <1>3, <1>8, <1>9, <1>10, <1>11, <1>12, <1>22, <2>1
    <2> QED
      BY <1>13, <1>14, <1>15, <1>16, <1>17, <1>19, <1>20, <1>21, <1>23, <2>1 DEF Next
  <1> QED
    BY <1>18, <1>23

(* A log is tidy if every place is at which a session that is resumed from *)
(* it may stand.                                                           *)
TidyLog(E) ==
    /\ Marked(E)
    /\ \A x \in Stops(E) \cup {LastEntry(E)} : TidyAt(E, x, LegacyPrunes(E))

(* The log in memory is tidy, also for a process that ends now and is      *)
(* resumed; without a process the log in the file is.                      *)
ExchangesOK ==
    /\ ~failed
    /\ up => TidyMemory /\ (todo = <<>> => TidyAt(entries, LastEntry(entries), legacy))
    /\ ~up => TidyLog(file.lines)

(* A session without entries is tidy.                                      *)
LEMMA TidyEmptyLog == TidyLog(EmptyLog)
  <1>1. LogOK(EmptyLog, 0) /\ DOMAIN EmptyLog = {}
    BY EmptyLogOK
  <1>2. Marked(EmptyLog) /\ Stops(EmptyLog) = {}
    BY <1>1 DEF Marked, Stops, Plain
  <1>3. LastEntry(EmptyLog) = NullId
    BY <1>1 DEF LastEntry
  <1> QED
    BY <1>1, <1>2, <1>3, TidyEmpty DEF TidyLog

(* The leaf after an append is the last entry of the log.                  *)
LEMMA LastAppended ==
    ASSUME IInv, NEW k, NEW p, NEW t, NEW v, NEW l, NEW r,
           PushEntry(NewEntry(k, p, t, v), l, r, "ok")
    PROVE  leaf' = LastEntry(entries')
  <1> DEFINE e == NewEntry(k, p, t, v)
             W == With(entries, clock + 1, e)
  <1>1. /\ clock \in Nat /\ clock + 1 \notin DOMAIN entries
        /\ \A x \in DOMAIN entries : entries[x].at \in Nat /\ entries[x].at <= clock
    BY DEF IInv, MemoryOK, LogOK, IsLog, Entry, Id
  <1>2. entries' = W /\ leaf' = clock + 1
    BY DEF PushEntry
  <1>3. e.at = clock + 1
    BY DEF NewEntry
  <1> HIDE DEF e
  <1>4. /\ DOMAIN W = DOMAIN entries \cup {clock + 1} /\ W[clock + 1] = e
        /\ \A x \in DOMAIN entries : W[x] = entries[x]
    BY <1>1 DEF With
  <1> HIDE DEF W
  <1>5. /\ clock + 1 \in DOMAIN W /\ W[clock + 1].at = clock + 1
        /\ \A y \in DOMAIN W \ {clock + 1} : W[y].at \in Nat /\ W[y].at <= clock
    BY <1>1, <1>3, <1>4
  <1>6. Latest(W, DOMAIN W) = clock + 1
    BY <1>1, <1>5, LatestOfNew
  <1> QED
    BY <1>2, <1>5, <1>6 DEF LastEntry

(* An operation of a running session leaves the log as it is, or its leaf  *)
(* is the last entry of the log then.                                      *)
LEMMA LastStep ==
    ASSUME WholeBlocks, IInv, [Next]_vars, up, up'
    PROVE  \/ entries' = entries /\ legacy' = legacy /\ (todo' = <<>> => todo = <<>>)
           \/ leaf' = LastEntry(entries')
  <1>1. \A o \in Outcomes : o = "ok"
    BY DEF WholeBlocks
  <1>2. ASSUME NEW o \in Outcomes,
               \/ \E k \in Kinds : AppendEntry(k, o)
               \/ \E f \in CompactionCuts(entries, leaf, legacy) \cup {NullId} : AppendCompaction(f, o)
               \/ \E t \in DOMAIN entries, v \in {"set", "cleared"} : AppendLabelChange(t, v, o)
               \/ \E t \in DOMAIN entries, v \in {"omit", "replace"} : AppendContextEdit(t, v, o)
               \/ \E t \in DOMAIN entries : AppendContextEditCancel(t, o)
               \/ AppendNextContextChange(o)
               \/ \E id \in NavigationTargets(entries) \cup {NullId} : BranchWithSummary(id, o)
        PROVE  leaf' = LastEntry(entries')
    <2>1. \E k, p, t, v, l, r : PushEntry(NewEntry(k, p, t, v), l, r, o)
      BY <1>2 DEF AppendEntry, AppendCompaction, AppendLabelChange, AppendContextEdit,
                  AppendContextEditCancel, AppendNextContextChange, BranchWithSummary
    <2> QED
      BY <1>1, <2>1, LastAppended
  <1>3. ASSUME NEW o, NEW id, CreateBranchedSession(id, o) PROVE leaf' = LastEntry(entries')
    BY <1>3 DEF CreateBranchedSession, MemoryLost
  <1>4. CASE NewSession
    BY <1>4, EmptyLogOK DEF NewSession, LastEntry
  <1>5. ASSUME NEW c, BeginContextChanges(c)
        PROVE  entries' = entries /\ legacy' = legacy /\ todo = <<>>
    BY <1>5 DEF BeginContextChanges, Idle
  <1>6. ASSUME ResetLeaf \/ (\E id \in NavigationTargets(entries) : Branch(id))
               \/ ReadContextChanges \/ UNCHANGED vars
        PROVE  UNCHANGED <<entries, legacy, todo>>
    BY <1>6 DEF ResetLeaf, Branch, MoveLeaf, ReadContextChanges, vars
  <1>7. \A o : ~ForkFrom(o) /\ ~Open /\ ~Exit /\ ~Crash
    BY DEF ForkFrom, Open, Exit, Crash, MemoryLost
  <1>8. CASE Next
    BY <1>2, <1>3, <1>4, <1>5, <1>6, <1>7, <1>8 DEF Next, AgentCurates, UserCurates
  <1> QED
    BY <1>6, <1>8

(* Where no write fails, a process ends between two operations and a       *)
(* session starts with the log of its file or with none.                   *)
LEMMA ProcessStep ==
    ASSUME WholeBlocks, IInv, CurationOK, [Next]_vars
    PROVE  /\ up /\ ~up' => todo = <<>> /\ file' = file /\ failed' = failed
           /\ ~up /\ up' => /\ todo' = <<>> /\ failed' = failed
                           /\ leaf' = LastEntry(entries') /\ entries' \in {file.lines, EmptyLog}
           /\ ~up /\ ~up' => file' = file /\ failed' = failed
  <1>1. \A o \in Outcomes : o = "ok"
    BY DEF WholeBlocks
  <1>2. ASSUME NEW o \in Outcomes,
               \/ \E k \in Kinds : AppendEntry(k, o)
               \/ \E f \in CompactionCuts(entries, leaf, legacy) \cup {NullId} : AppendCompaction(f, o)
               \/ \E t \in DOMAIN entries, v \in {"set", "cleared"} : AppendLabelChange(t, v, o)
               \/ \E t \in DOMAIN entries, v \in {"omit", "replace"} : AppendContextEdit(t, v, o)
               \/ \E t \in DOMAIN entries : AppendContextEditCancel(t, o)
               \/ AppendNextContextChange(o)
               \/ \E id \in NavigationTargets(entries) \cup {NullId} : BranchWithSummary(id, o)
        PROVE  up /\ up' = up
    <2>1. \E e, l, r : PushEntry(e, l, r, "ok")
      BY <1>1, <1>2 DEF AppendEntry, AppendCompaction, AppendLabelChange, AppendContextEdit,
                       AppendContextEditCancel, AppendNextContextChange, BranchWithSummary
    <2> QED
      BY <2>1 DEF PushEntry
  <1>3. ASSUME NEW o \in Outcomes, NEW id, CreateBranchedSession(id, o) PROVE up /\ up' = up
    BY <1>1, <1>3 DEF CreateBranchedSession, Idle
  <1>4. ASSUME NEW c, BeginContextChanges(c) PROVE up /\ up' = up
    BY <1>4 DEF BeginContextChanges, Idle
  <1>5. ASSUME ResetLeaf \/ (\E id \in NavigationTargets(entries) : Branch(id)) \/ ReadContextChanges
        PROVE  up /\ up' = up
    BY <1>5 DEF ResetLeaf, Branch, MoveLeaf, ReadContextChanges, Idle
  <1>6. ASSUME UNCHANGED vars PROVE UNCHANGED <<up, file, failed>>
    BY <1>6 DEF vars
  <1>7. CASE Exit
    BY <1>7 DEF Exit, Idle, MemoryLost
  <1>8. ~Crash
    BY <1>1 DEF Crash
  <1>9. LastEntry(EmptyLog) = NullId
    BY EmptyLogOK DEF LastEntry
  <1>10. CASE NewSession
    BY <1>9, <1>10 DEF NewSession
  <1>11. CASE Open
    BY <1>11 DEF Open, Load, CurationOK
  <1>12. ASSUME NEW o \in Outcomes, ForkFrom(o)
         PROVE  /\ ~up /\ up' /\ todo' = <<>> /\ failed' = failed
                /\ leaf' = LastEntry(entries') /\ entries' \in {file.lines, EmptyLog}
    BY <1>1, <1>12 DEF ForkFrom, Load, CurationOK
  <1>13. CASE Next
    BY <1>2, <1>3, <1>4, <1>5, <1>7, <1>8, <1>10, <1>11, <1>12, <1>13
       DEF Next, AgentCurates, UserCurates
  <1> QED
    BY <1>6, <1>13

(* An ended process leaves a tidy log in its file, and a session that is   *)
(* opened or forked from it is tidy.                                       *)
LEMMA ExchangesStep ==
    ASSUME WholeBlocks
    PROVE  IInv /\ IInv' /\ IndexOK /\ IndexOK' /\ CurationOK /\ LegacyOK /\ ExchangesOK
              /\ [Next]_vars => ExchangesOK'
  <1> SUFFICES ASSUME IInv, IInv', IndexOK, IndexOK', CurationOK, LegacyOK, ExchangesOK, [Next]_vars
               PROVE  ExchangesOK'
    OBVIOUS
  <1>1. CASE up /\ up'
    <2>1. TidyMemory'
      BY <1>1, RunningStep DEF ExchangesOK
    <2>2. ~failed' /\ TidyLeaf(entries', leaf', legacy', todo')
      BY <2>1 DEF TidyMemory
    <2>3. todo' = <<>> => TidyAt(entries', LastEntry(entries'), legacy')
      <3>1. CASE entries' = entries /\ legacy' = legacy /\ (todo' = <<>> => todo = <<>>)
        BY <1>1, <3>1 DEF ExchangesOK
      <3>2. CASE leaf' = LastEntry(entries')
        BY <2>2, <3>2, TidyIdle
      <3> QED
        BY <1>1, <3>1, <3>2, LastStep
    <2> QED
      BY <1>1, <2>1, <2>2, <2>3 DEF ExchangesOK
  <1>2. CASE up /\ ~up'
    <2>1. todo = <<>> /\ file' = file /\ failed' = failed
      BY <1>2, ProcessStep
    <2>2. ~failed /\ Marked(entries)
          /\ \A x \in Stops(entries) \cup {LastEntry(entries)} : TidyAt(entries, x, LegacyPrunes(entries))
      BY <1>2, <2>1 DEF ExchangesOK, TidyMemory, IndexOK
    <2>3. file.lines \in {entries, EmptyLog}
      BY <1>2, <2>2 DEF IInv, DurableOK, WholeFile, NoFile, File
    <2>4. TidyLog(file.lines)
      BY <2>2, <2>3, TidyEmptyLog DEF TidyLog
    <2> QED
      BY <1>2, <2>1, <2>2, <2>4 DEF ExchangesOK
  <1>3. CASE ~up /\ up'
    <2>1. todo = <<>> /\ ~failed /\ TidyLog(file.lines)
      BY <1>3 DEF CurationOK, ExchangesOK
    <2>2. /\ todo' = <<>> /\ ~failed' /\ leaf' = LastEntry(entries')
          /\ entries' \in {file.lines, EmptyLog}
      BY <1>3, <2>1, ProcessStep
    <2>3. TidyLog(entries')
      BY <2>1, <2>2, TidyEmptyLog
    <2>4. legacy' = LegacyPrunes(entries')
      BY DEF IndexOK
    <2>5. /\ Marked(entries')
          /\ \A x \in Stops(entries') \cup {LastEntry(entries')} : TidyAt(entries', x, legacy')
      BY <2>3, <2>4 DEF TidyLog
    <2>6. TidyLeaf(entries', leaf', legacy', todo')
      BY <2>2, <2>5, TidyIdle
    <2> QED
      BY <1>3, <2>2, <2>5, <2>6, BatchValued DEF ExchangesOK, TidyMemory
  <1>4. CASE ~up /\ ~up'
    <2>1. file' = file /\ failed' = failed
      BY <1>4, ProcessStep
    <2> QED
      BY <1>4, <2>1 DEF ExchangesOK
  <1> QED
    BY <1>1, <1>2, <1>3, <1>4

-----------------------------------------------------------------------------
(* The session manager's state has its types and fits together: ids,       *)
(* positions and parents of the entries in memory and in the file are      *)
(* among those given out, parents come first, the leaf and the records of  *)
(* the legacy index are entries of the log; and until a write fails the    *)
(* file is the log itself once it is flushed, and absent before            *)
(* (session-manager.ts:1276, 1313).                                        *)
THEOREM TypeCorrect == Spec => [](TypeOK /\ MemoryOK /\ FileOK(file, clock) /\ DurableOK)
  <1>1. IInv => TypeOK /\ MemoryOK /\ FileOK(file, clock) /\ DurableOK
    BY DEF IInv, MemoryOK, CacheOK, TypeOK, FileOK, LogOK, Change
  <1> QED
    BY <1>1, Inductive, PTL

(* Parents always precede their children, in memory and in the file, so    *)
(* getBranch ends; and without a failed write no crash, reload, extraction *)
(* or fork leaves an entry whose parent is missing.                        *)
THEOREM TreeCorrect == Spec => []TreeWellFormed
  <1>1. IInv => TreeWellFormed
    BY DEF IInv, MemoryOK, DurableOK, TreeWellFormed, FileOK, LogOK
  <1> QED
    BY <1>1, Inductive, PTL

(* Without a failed write an entry whose append returned with the file     *)
(* written is in the file, whatever crashes and reloads follow.            *)
THEOREM Durable == Spec => []AcknowledgedEntriesSurvive
  <1>1. IInv => AcknowledgedEntriesSurvive
    BY DEF IInv, DurableOK, AcknowledgedEntriesSurvive
  <1> QED
    BY <1>1, Inductive, PTL

(* The cache of _getContextChanges, keyed by entry count and leaf, never   *)
(* returns a result that the log and the leaf do not determine.            *)
THEOREM CacheCorrect == Spec => []CacheNeverStale
  <1>1. IInv => CacheNeverStale
    BY DEF IInv, CacheOK, CacheNeverStale, CacheHit
  <1> QED
    BY <1>1, Inductive, PTL

(* The label and legacy indexes that the appends maintain are those that a *)
(* reload of the log would build, as long as no write has failed: the      *)
(* label index is updated after the write, so a throw leaves it behind.    *)
THEOREM IndexesCorrect == Spec => []IndexMatchesLog
  <1>1. Init => IndexOK
    BY DEF Init, IndexOK
  <1>2. IndexOK => IndexMatchesLog
    BY DEF IndexOK, IndexMatchesLog
  <1> QED
    BY <1>1, <1>2, Inductive, IndexStep, PTL DEF Spec

(* Appending is branch-local: no append, read, move or curation changes    *)
(* what the model sees at an entry that already existed.                   *)
THEOREM PastImmutable == Spec => PastContextsImmutable
  <1>1. IInv /\ IndexOK /\ [Next]_vars =>
          [(up /\ \A x \in DOMAIN entries : x \in DOMAIN entries' /\ entries'[x] = entries[x]) =>
             \A x \in DOMAIN entries :
                Projection(entries', x, legacy') = Projection(entries, x, legacy)]_vars
    BY PastStep
  <1>2. Init => IndexOK
    BY DEF Init, IndexOK
  <1> QED
    BY <1>1, <1>2, Inductive, IndexStep, PTL DEF Spec, PastContextsImmutable

(* Curation is local to its branch: in a session that starts from a        *)
(* curated log every edit and every cancel, appended alone or in a batch,  *)
(* reloaded, forked or extracted, names an entry of its own ancestry that  *)
(* contributes to the context.                                             *)
THEOREM CurationCorrect ==
    ASSUME \A E \in Sessions : Curated(E)
    PROVE  Spec => []CurationOnOwnBranch
  <1>1. Init => IndexOK
    BY DEF Init, IndexOK
  <1>2. Init => CurationOK
    <2> SUFFICES ASSUME Init PROVE CurationOK
      OBVIOUS
    <2>1. Curated(entries) /\ todo = <<>> /\ up /\ ~failed /\ IInv
      BY InitOK DEF Init
    <2> QED
      BY <2>1, FileCurated DEF CurationOK
  <1>3. CurationOK => CurationOnOwnBranch
    BY DEF CurationOK, CurationOnOwnBranch, Curated, Curates
  <1> QED
    BY <1>1, <1>2, <1>3, Inductive, IndexStep, CurationStep, PTL DEF Spec

(* The session that createBranchedSession extracts shows the model the     *)
(* same messages, in the same order, with the same settings as the path it *)
(* was extracted from, when the sessions it starts from have legacy        *)
(* records of contributing entries only: a record of an entry that shows   *)
(* nothing would not be copied.                                            *)
THEOREM ExtractionCorrect ==
    ASSUME \A E \in Sessions : LegacyTargets(E)
    PROVE  Spec => ExtractionPreservesContext
  <1>1. Init => IndexOK
    BY DEF Init, IndexOK
  <1>2. Init => LegacyOK
    BY EmptyTargets DEF Init, LegacyOK, WholeFile, NoFile, File
  <1>3. IInv /\ IndexOK /\ LegacyOK /\ [Next]_vars =>
          [\A id \in DOMAIN entries : CreateBranchedSession(id, "ok") =>
             ContextOf(entries', leaf', legacy') = ContextOf(entries, id, legacy)]_vars
    <2> SUFFICES ASSUME IInv, IndexOK, LegacyOK, NEW id \in DOMAIN entries,
                        CreateBranchedSession(id, "ok")
                 PROVE  ContextOf(entries', leaf', legacy') = ContextOf(entries, id, legacy)
      OBVIOUS
    <2> DEFINE X == ExtractedLog(entries, id, labels, legacy, clock)
    <2>1. entries' = X /\ leaf' = LastEntry(entries') /\ legacy' = LegacyPrunes(entries')
      BY DEF CreateBranchedSession
    <2>2. /\ clock \in Nat /\ LogOK(entries, clock) /\ labels \in SUBSET Nat
          /\ legacy = LegacyPrunes(entries) /\ LegacyTargets(entries)
      BY DEF IInv, MemoryOK, IndexOK, LegacyOK
    <2>3. entries' = ExtractedLog(entries, id, labels, LegacyPrunes(entries), clock)
      BY <2>1, <2>2
    <2>4. ContextOf(entries', LastEntry(entries'), LegacyPrunes(entries')) =
            ContextOf(entries, id, LegacyPrunes(entries))
      BY <2>2, <2>3, ExtractionContext
    <2> QED
      BY <2>1, <2>2, <2>4
  <1> QED
    BY <1>1, <1>2, <1>3, Inductive, IndexStep, LegacyStep, PTL DEF Spec, ExtractionPreservesContext

(* Curation never hides a tool call whose result it leaves visible, as     *)
(* long as both are in the retained range: for every log that starts tidy, *)
(* every choice of blocks, compactions, extractions and navigation, if     *)
(* blocks are curated by the tools or, outside a running exchange, by the  *)
(* selector, and no write fails (groupPruneBlocks in prune.ts;             *)
(* setPruneState and setBlockSummary in agent-session.ts).                 *)
THEOREM ExchangesCorrect ==
    ASSUME WholeBlocks,
           \A E \in Sessions : Curated(E) /\ LegacyTargets(E) /\ TidyLog(E)
    PROVE  Spec => []ExchangesStayTogether
  <1>1. Init => IndexOK
    BY DEF Init, IndexOK
  <1>2. Init => LegacyOK
    BY EmptyTargets DEF Init, LegacyOK, WholeFile, NoFile, File
  <1>3. Init => CurationOK
    <2> SUFFICES ASSUME Init PROVE CurationOK
      OBVIOUS
    <2>1. Curated(entries) /\ todo = <<>> /\ up /\ ~failed /\ IInv
      BY InitOK DEF Init
    <2> QED
      BY <2>1, FileCurated DEF CurationOK
  <1>4. Init => ExchangesOK
    <2> SUFFICES ASSUME Init PROVE ExchangesOK
      OBVIOUS
    <2>1. /\ entries \in Sessions /\ leaf = LastEntry(entries) /\ legacy = LegacyPrunes(entries)
          /\ todo = <<>> /\ up /\ ~failed
      BY DEF Init
    <2>2. /\ Marked(entries)
          /\ \A x \in Stops(entries) \cup {LastEntry(entries)} : TidyAt(entries, x, legacy)
      BY <2>1 DEF TidyLog
    <2>3. TidyLeaf(entries, leaf, legacy, todo)
      BY <2>1, <2>2, TidyIdle
    <2> QED
      BY <2>1, <2>2, <2>3, BatchValued DEF ExchangesOK, TidyMemory
  <1>5. IInv /\ IndexOK /\ LegacyOK /\ ExchangesOK => ExchangesStayTogether
    <2> SUFFICES ASSUME IInv, IndexOK, LegacyOK, ExchangesOK, Idle,
                        NEW r \in Orphans(entries, leaf, legacy)
                 PROVE  CallOf(entries, SessionPath(entries, leaf), r)
                          \notin ContextEntries(entries, SessionPath(entries, leaf))
      BY DEF ExchangesStayTogether
    <2>1. /\ clock \in Nat /\ LogOK(entries, clock) /\ legacy = LegacyPrunes(entries)
          /\ LegacyTargets(entries) /\ Marked(entries) /\ TidyAt(entries, leaf, legacy)
      BY TidyIdle DEF IInv, MemoryOK, IndexOK, LegacyOK, ExchangesOK, TidyMemory, Idle
    <2> QED
      BY <2>1, TidyTogether
  <1>6. IInv /\ IInv' /\ IndexOK /\ IndexOK' /\ CurationOK /\ LegacyOK /\ ExchangesOK /\ [Next]_vars => ExchangesOK'
    BY ExchangesStep
  <1> QED
    BY <1>1, <1>2, <1>3, <1>4, <1>5, <1>6, Inductive, IndexStep, CurationStep, LegacyStep, PTL DEF Spec
=============================================================================
