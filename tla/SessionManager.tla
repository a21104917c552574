--------------------------- MODULE SessionManager ---------------------------
(***************************************************************************)
(* The class SessionManager (session-manager.ts): an append-only log of    *)
(* entries that form a tree, a movable leaf, indexes derived from the log, *)
(* and the session file that a crash or a failed write may leave behind    *)
(* the log.                                                                *)
(*                                                                         *)
(* Every method is synchronous, so a method is one step, with the calls it *)
(* makes.  Only appendContextChanges writes several entries: it is one     *)
(* step per entry, because the process may die between two writes.         *)
(***************************************************************************)
EXTENDS SessionEntries, Functions

CONSTANTS
    Persist,    \* whether the session has a file (create, open) or not (inMemory)
    Sessions,   \* the logs that an opened session may start from
    Kinds,      \* the kinds of entries that clients append without a target
    Operations, \* the other operations that clients use
    Outcomes,   \* how a write may end
    MaxClock    \* bound on the entries ever created

(* Every entry follows its parent; every parent is there.                  *)
ParentsEarlier(E) ==
    \A x \in DOMAIN E : E[x].parent \in DOMAIN E => E[E[x].parent].at < E[x].at
ParentsPresent(E) ==
    \A x \in DOMAIN E : E[x].parent \in DOMAIN E \cup {NullId}

(* The logs to start from are well formed; an id is named by its position. *)
ASSUME SessionAssumption ==
    /\ Persist \in BOOLEAN
    /\ Kinds \subseteq MessageKinds \cup SettingKinds \cup {"info"}
    /\ Operations \subseteq {"read", "compact", "label", "omit", "replace", "cancel",
                            "agentCurates", "userCurates", "userCuratesRunning",
                            "branch", "branchAll", "branchSummary", "extract", "fork", "new",
                            "exit"}
    /\ Outcomes \subseteq {"ok", "throw", "crash"}
    /\ MaxClock \in Nat
    /\ \A E \in Sessions : /\ IsLog(E) /\ ParentsEarlier(E) /\ ParentsPresent(E)
                           /\ \A x \in DOMAIN E : E[x].at = x

VARIABLES
    entries,   \* fileEntries without the header, and byId
    leaf,      \* leafId, or NullId
    labels,    \* the keys of labelsById
    legacy,    \* legacyPruneChanges
    cache,     \* contextChangesCache
    todo,      \* the validated changes that appendContextChanges has still to append
    flushed,   \* flushed
    file,      \* the session file
    up,        \* FALSE after an exit or a crash, until the session is opened again
    clock,     \* the last id and file position given out
    failed,    \* history: a write of the session in memory has thrown
    acked      \* history: the entries whose append returned with the file written

vars == <<entries, leaf, labels, legacy, cache, todo, flushed, file, up, clock, failed, acked>>

EmptyLog == [x \in {} |-> x]
NoCache  == [count |-> 0, leaf |-> NullId, changes |-> EmptyLog]

(* A file holds the lines that parse, in file order, and possibly an       *)
(* unterminated last line: "partial" is a fragment that does not parse,    *)
(* "whole" a complete record without its newline.  An "invalid" file has   *)
(* content but does not start with a session header.                       *)
FileStates == {"absent", "empty", "invalid", "session"}
Tails      == {"none", "partial", "whole"}
File(state, lines, tail) == [state |-> state, lines |-> lines, tail |-> tail]
NoFile == File("absent", EmptyLog, "none")

-----------------------------------------------------------------------------
(* Adding an entry to a log, and the part of a log up to a position.       *)
With(E, n, e) == [x \in DOMAIN E \cup {n} |-> IF x = n THEN e ELSE E[x]]
UpTo(E, at) == [x \in {y \in DOMAIN E : E[y].at <= at} |-> E[x]]
Without(E, n) == [x \in DOMAIN E \ {n} |-> E[x]]

HasAssistant(E) == \E x \in DOMAIN E : E[x].kind \in AssistantKinds
LastEntry(E) == IF DOMAIN E = {} THEN NullId ELSE Latest(E, DOMAIN E)

(* The labels that _buildIndex finds in a log.                             *)
LabelIndex(E) ==
    LET L == {x \in DOMAIN E : E[x].kind = "label"}
    IN  {t \in {E[x].target : x \in L} :
            E[Latest(E, {x \in L : E[x].target = t})].value = "set"}

-----------------------------------------------------------------------------
(* Bytes written after an unterminated line run into it: a record that     *)
(* lacked only its newline is lost as well.                                *)
RunInto(f) ==
    IF f.tail = "whole"
    THEN IF DOMAIN f.lines = {} THEN File("invalid", EmptyLog, "none")
         ELSE [f EXCEPT !.lines = Without(f.lines, LastEntry(f.lines))]
    ELSE f

(* appendFileSync of one line, complete or cut short.                      *)
AppendLine(f, n, e) ==
    IF f.state # "session" THEN File("invalid", EmptyLog, "none")
    ELSE IF f.tail = "none" THEN [f EXCEPT !.lines = With(f.lines, n, e)]
    ELSE [RunInto(f) EXCEPT !.tail = "none"]

AppendFragment(f) ==
    IF f.state # "session" THEN File("invalid", EmptyLog, "none")
    ELSE [RunInto(f) EXCEPT !.tail = "partial"]

AppendUnterminated(f, n, e) ==
    IF f.state = "session" /\ f.tail = "none"
    THEN File("session", With(f.lines, n, e), "whole")
    ELSE AppendFragment(f)

(* Writing a whole log to a new file, complete or cut short, maybe before  *)
(* the file is there.                                                      *)
WholeFile(E) == File("session", E, "none")
CutShort(E) ==
    {NoFile, File("empty", EmptyLog, "none"), File("invalid", EmptyLog, "none")} \cup
    {File("session", UpTo(E, at), t) :
        at \in {0} \cup {E[x].at : x \in DOMAIN E}, t \in Tails}

-----------------------------------------------------------------------------
(* The process dies: what was in memory is gone.                           *)
MemoryLost ==
    /\ up' = FALSE
    /\ entries' = EmptyLog /\ leaf' = NullId /\ labels' = {} /\ legacy' = EmptyLog
    /\ cache' = NoCache /\ todo' = <<>> /\ flushed' = FALSE

(* The entry an append creates, as a child of the leaf.                    *)
NewEntry(kind, parent, target, value) ==
    [kind |-> kind, parent |-> parent, at |-> clock + 1, target |-> target, value |-> value]

(* What _persist does with the log E that ends in the new entry n.         *)
PersistMode(E) ==
    IF Persist /\ flushed THEN "append"
    ELSE IF Persist /\ HasAssistant(E) THEN "create"
    ELSE "skip"

(* _appendEntry and _persist: the entry is in memory before it is written. *)
(* Until the first assistant message nothing is written; that message      *)
(* creates the file exclusively ("wx") with everything so far.             *)
PushEntry(e, newLabels, rest, o) ==
    LET n == clock + 1
        E == With(entries, n, e)
        mode == PersistMode(E)
        exists == file.state # "absent"
    IN
    /\ up /\ clock < MaxClock
    /\ clock' = n
    /\ \/ /\ o = "ok" /\ ~(mode = "create" /\ exists)
          /\ entries' = E /\ leaf' = n /\ labels' = newLabels /\ todo' = rest
          /\ file' = CASE mode = "skip"   -> file
                       [] mode = "append" -> AppendLine(file, n, e)
                       [] mode = "create" -> WholeFile(E)
          /\ flushed' = (flushed \/ mode = "create")
          /\ acked' = CASE mode = "skip"   -> acked
                        [] mode = "append" -> acked \cup {n}
                        [] mode = "create" -> DOMAIN E
          /\ UNCHANGED <<legacy, cache, up, failed>>
       \/ /\ o = "throw" /\ mode # "skip"
          /\ entries' = E /\ leaf' = n /\ todo' = <<>>
          /\ file' \in CASE mode = "append" -> {file, AppendFragment(file)}
                         [] mode = "create" -> IF exists THEN {file} ELSE CutShort(E)
          /\ failed' = TRUE
          /\ UNCHANGED <<labels, legacy, cache, flushed, up, acked>>
       \/ /\ o = "crash" /\ mode # "skip" /\ ~(mode = "create" /\ exists)
          /\ MemoryLost
          /\ file' \in CASE mode = "append" -> {AppendFragment(file), AppendUnterminated(file, n, e)}
                         [] mode = "create" -> CutShort(E)
          /\ UNCHANGED <<failed, acked>>

Idle == up /\ todo = <<>>

-----------------------------------------------------------------------------
(* appendMessage, appendThinkingLevelChange, appendModelChange,            *)
(* appendUsage, appendCustomEntry, appendSessionInfo,                      *)
(* appendCustomMessageEntry.  Clients append a tool result only inside the *)
(* exchange of its call.                                                   *)
AppendEntry(kind, o) ==
    /\ Idle
    /\ kind = "toolResult" => InExchange(entries, SessionPath(entries, leaf))
    /\ PushEntry(NewEntry(kind, leaf, NullId, "none"), labels, <<>>, o)

(* appendCompaction: the entry keeps the system message in force.  A null  *)
(* firstKeptEntryId keeps nothing: it becomes the entry's own id.          *)
AppendCompaction(first, o) ==
    LET proj == Projection(entries, leaf, legacy)
        system == \E x \in DOMAIN proj : "system" \in Roles(proj, x)
    IN
    /\ Idle
    /\ PushEntry(NewEntry("compaction", leaf, IF first = NullId THEN clock + 1 ELSE first,
                       IF system THEN "checkpoint" ELSE "none"),
              labels, <<>>, o)

(* appendLabelChange: the label index follows only a completed append.     *)
AppendLabelChange(target, value, o) ==
    /\ Idle /\ target \in DOMAIN entries
    /\ PushEntry(NewEntry("label", leaf, target, value),
              IF value = "set" THEN labels \cup {target} ELSE labels \ {target}, <<>>, o)

(* Mutant of EditableTarget: any entry of the log will do.                 *)
TargetAnywhere(E, path, target) == target \in DOMAIN E /\ Contributes(E[target])

(* _getContextEditTarget: a target is on the active branch and contributes.*)
EditableTarget(E, path, target) == target \in path /\ Contributes(E[target])

(* _validateContextEdit: a system message can be omitted or summarized,    *)
(* not replaced.                                                           *)
ValidContextEdit(E, path, target, value) ==
    /\ EditableTarget(E, path, target)
    /\ E[target].kind = "system" => value # "replace"

(* appendContextEdit and appendContextEditCancel.                          *)
AppendContextEdit(target, value, o) ==
    /\ Idle
    /\ ValidContextEdit(entries, SessionPath(entries, leaf), target, value)
    /\ PushEntry(NewEntry("context_edit", leaf, target, value), labels, <<>>, o)

AppendContextEditCancel(target, o) ==
    /\ Idle
    /\ EditableTarget(entries, SessionPath(entries, leaf), target)
    /\ PushEntry(NewEntry("context_edit_cancel", leaf, target, "none"), labels, <<>>, o)

(* Mutant of BlockChanges: writes the markers of the legacy format.        *)
LegacyMarkers(E, block, state) ==
    LET nth(i) == CHOOSE x \in block : Cardinality({y \in block : E[y].at <= E[x].at}) = i
    IN  [i \in 1..Cardinality(block) |-> [kind |-> "prune", target |-> nth(i), value |-> state]]

(* setPruneState and setBlockSummary (agent-session.ts) of one block: the  *)
(* changes of its entries in order.  A summary stands at the block's head, *)
(* the tail is omitted with it.                                            *)
BlockChanges(E, block, state) ==
    LET nth(i) == CHOOSE x \in block : Cardinality({y \in block : E[y].at <= E[x].at}) = i
        value(i) == CASE state = "included" -> "none"
                      [] state = "excluded" -> "omit"
                      [] state = "summarized" -> IF i = 1 THEN "summary" ELSE "omitSummary"
    IN  [i \in 1..Cardinality(block) |->
            [kind |-> IF state = "included" THEN "context_edit_cancel" ELSE "context_edit",
             target |-> nth(i), value |-> value(i)]]

(* appendContextChanges: the whole batch is validated before its first     *)
(* marker is appended.                                                     *)
BeginContextChanges(changes) ==
    LET path == SessionPath(entries, leaf) IN
    /\ Idle /\ changes # <<>>
    /\ clock + Len(changes) <= MaxClock
    /\ \A i \in DOMAIN changes :
          IF changes[i].kind = "context_edit"
          THEN ValidContextEdit(entries, path, changes[i].target, changes[i].value)
          ELSE EditableTarget(entries, path, changes[i].target)
    /\ todo' = changes
    /\ UNCHANGED <<entries, leaf, labels, legacy, cache, flushed, file, up, clock, failed, acked>>

(* The tools prune_context and summarize_context, and the selector /prune. *)
(* The tools never reach the exchange that is running; the selector does,  *)
(* when the user opens it before the exchange is complete.                 *)
AgentCurates(block, state) ==
    BeginContextChanges(BlockChanges(entries, block, state))

UserCurates(block, state) ==
    /\ "userCuratesRunning" \in Operations \/ ~InExchange(entries, SessionPath(entries, leaf))
    /\ BeginContextChanges(BlockChanges(entries, block, state))

AppendNextContextChange(o) ==
    /\ up /\ todo # <<>>
    /\ PushEntry(NewEntry(Head(todo).kind, leaf, Head(todo).target, Head(todo).value),
              labels, Tail(todo), o)

-----------------------------------------------------------------------------
(* branch, resetLeaf: the leaf moves; nothing is written.                  *)
MoveLeaf(id) ==
    /\ leaf' = id
    /\ UNCHANGED <<entries, labels, legacy, cache, todo, flushed, file, up, clock, failed, acked>>

(* Where the tree selector and navigateTree let the user go: to an entry   *)
(* that is not bookkeeping, or to the parent of a user message, to edit    *)
(* the message again; with the filter "all" to any entry.                  *)
NavigationTargets(E) ==
    IF "branchAll" \in Operations THEN DOMAIN E
    ELSE {x \in DOMAIN E : E[x].kind \notin SettingKinds \cup EditKinds \cup {"label", "info"}}
         \cup (DOMAIN E \cap {E[x].parent : x \in {y \in DOMAIN E : E[y].kind = "user"}})

Branch(id) == Idle /\ id \in DOMAIN entries /\ MoveLeaf(id)

ResetLeaf == Idle /\ MoveLeaf(NullId)

(* branchWithSummary.                                                      *)
BranchWithSummary(id, o) ==
    /\ Idle /\ id \in DOMAIN entries \cup {NullId}
    /\ PushEntry(NewEntry("branch_summary", id, NullId, "none"), labels, <<>>, o)

(* _getContextChanges, behind getPruneState, getPruneSummary and           *)
(* buildContextEntries: a cache keyed by the entry count and the leaf.     *)
EntryCount == Cardinality(DOMAIN entries) + 1

(* Mutant of CacheHit: the leaf is not part of the key.                    *)
HitByCount == cache.count = EntryCount

CacheHit == cache.count = EntryCount /\ cache.leaf = leaf

ReadContextChanges ==
    /\ up /\ ~CacheHit
    /\ cache' = [count |-> EntryCount, leaf |-> leaf,
                 changes |-> ContextChanges(entries, SessionPath(entries, leaf), legacy)]
    /\ UNCHANGED <<entries, leaf, labels, legacy, todo, flushed, file, up, clock, failed, acked>>

-----------------------------------------------------------------------------
(* createBranchedSession: the path to id without labels and legacy prunes, *)
(* chained anew; a compaction that kept from a dropped entry keeps from    *)
(* the next retained one.                                                  *)
Retained(E, id) == {x \in SessionPath(E, id) : E[x].kind \notin {"label", "prune"}}

(* Mutants of Rechain: compactions keep from where they did; the parents   *)
(* stay as they are.                                                       *)
RechainParentsOnly(E, id) ==
    LET R == Retained(E, id)
        Earlier(x) == {y \in R : E[y].at < E[x].at}
    IN  [x \in R |->
            [E[x] EXCEPT !.parent = IF Earlier(x) = {} THEN NullId ELSE Latest(E, Earlier(x))]]
NotRechained(E, id) == [x \in Retained(E, id) |-> E[x]]

Rechain(E, id) ==
    LET path == SessionPath(E, id)
        R == Retained(E, id)
        Earlier(x) == {y \in R : E[y].at < E[x].at}
        Later(x) == {y \in R : E[x].at < E[y].at}
        remap(t) == IF t \in path \ R /\ Later(t) # {}
                    THEN CHOOSE y \in Later(t) : \A z \in Later(t) : E[y].at <= E[z].at
                    ELSE t
    IN  [x \in R |->
            [E[x] EXCEPT
                !.parent = IF Earlier(x) = {} THEN NullId ELSE Latest(E, Earlier(x)),
                !.target = IF E[x].kind = "compaction" THEN remap(@) ELSE @]]

(* The labels and the legacy prune records of retained entries.            *)
CopiedLabels(E, id, lbls) == lbls \cap Retained(E, id)
CopiedPrunes(E, id, leg) == {leg[t] : t \in DOMAIN leg \cap Retained(E, id)}

(* Labels become new entries at the end of the path, legacy prune records  *)
(* follow them and keep their ids.                                         *)
InSomeOrder(S) == CHOOSE f \in Bijection(1..Cardinality(S), S) : TRUE

ExtractedLog(E, id, lbls, leg, now) ==
    LET R == Rechain(E, id)
        L == CopiedLabels(E, id, lbls)
        P == CopiedPrunes(E, id, leg)
        nl == Cardinality(L)
        label == InSomeOrder(L)
        prune == InSomeOrder(P)
        last(i) == IF i = 0 THEN LastEntry(R) ELSE now + i
    IN  [x \in DOMAIN R \cup {now + i : i \in 1..nl} \cup P |->
            IF x \in DOMAIN R THEN R[x]
            ELSE IF x \in P
            THEN LET j == CHOOSE j \in 1..Cardinality(P) : prune[j] = x IN
                 [E[x] EXCEPT !.at = now + nl + j,
                              !.parent = IF j = 1 THEN last(nl) ELSE prune[j - 1]]
            ELSE [kind |-> "label", parent |-> last(x - now - 1), at |-> x,
                  target |-> label[x - now], value |-> "set"]]

CreateBranchedSession(id, o) ==
    LET E == ExtractedLog(entries, id, labels, legacy, clock)
        added == Cardinality(CopiedLabels(entries, id, labels))
                 + Cardinality(CopiedPrunes(entries, id, legacy))
        written == Persist /\ HasAssistant(E)
    IN
    /\ Idle /\ id \in DOMAIN entries
    /\ clock + added <= MaxClock
    /\ clock' = clock + added
    /\ \/ /\ o \in {"ok", "throw"} /\ (o = "throw" => written)
          /\ entries' = E /\ leaf' = LastEntry(E)
          /\ labels' = LabelIndex(E) /\ legacy' = LegacyPrunes(E)
          /\ cache' = NoCache
          /\ flushed' = IF o = "ok" THEN written ELSE flushed
          /\ file' \in IF ~written THEN {NoFile}
                       ELSE IF o = "ok" THEN {WholeFile(E)} ELSE CutShort(E)
          /\ acked' = IF o = "ok" /\ written THEN DOMAIN E ELSE {}
          /\ failed' = (failed \/ o = "throw")
          /\ UNCHANGED <<todo, up>>
       \/ /\ o = "crash" /\ written
          /\ MemoryLost
          /\ file' \in CutShort(E) /\ acked' = {}
          /\ UNCHANGED failed

-----------------------------------------------------------------------------
(* newSession.                                                             *)
NewSession ==
    /\ todo = <<>> /\ up' = TRUE
    /\ entries' = EmptyLog /\ leaf' = NullId /\ labels' = {} /\ legacy' = EmptyLog
    /\ cache' = NoCache /\ flushed' = FALSE /\ file' = NoFile /\ acked' = {}
    /\ UNCHANGED <<todo, clock, failed>>

(* Mutant of Load: the labels are not indexed.                            *)
LoadUnlabelled(E) ==
    /\ entries' = E /\ leaf' = LastEntry(E)
    /\ labels' = {} /\ legacy' = LegacyPrunes(E)
    /\ cache' = NoCache

(* _loadEntries and _buildIndex: the leaf is the last entry of the file.   *)
Load(E) ==
    /\ entries' = E /\ leaf' = LastEntry(E)
    /\ labels' = LabelIndex(E) /\ legacy' = LegacyPrunes(E)
    /\ cache' = NoCache

(* Mutant of Repaired: the torn line is left as it is.                     *)
Unrepaired(f) == f

(* loadEntriesFromFile ends an unterminated last line of a session file.   *)
Repaired(f) == [f EXCEPT !.tail = "none"]

(* open, _setSessionFile: a missing file is a new session, an empty one    *)
(* gets a header at once; an invalid file is refused.                      *)
Open ==
    /\ ~up /\ up' = TRUE
    /\ \/ /\ file.state = "absent"
          /\ Load(EmptyLog) /\ flushed' = FALSE /\ UNCHANGED file
       \/ /\ file.state = "empty"
          /\ Load(EmptyLog) /\ flushed' = TRUE /\ file' = WholeFile(EmptyLog)
       \/ /\ file.state = "session"
          /\ Load(file.lines) /\ flushed' = TRUE /\ file' = Repaired(file)
    /\ UNCHANGED <<todo, clock, failed, acked>>

(* forkFrom: the entries of a session file are copied one by one to a new  *)
(* file, which is then opened. When a write throws, as in a crash, the     *)
(* copy stays as it is and may be opened later.                            *)
ForkFrom(o) ==
    /\ ~up /\ file.state = "session"
    /\ \/ /\ o = "ok" /\ up' = TRUE
          /\ Load(file.lines) /\ flushed' = TRUE
          /\ file' = WholeFile(file.lines) /\ acked' = DOMAIN file.lines
       \/ /\ o \in {"throw", "crash"}
          /\ file' \in CutShort(file.lines) /\ acked' = {}
          /\ UNCHANGED <<up, entries, leaf, labels, legacy, cache, flushed>>
    /\ UNCHANGED <<todo, clock, failed>>

(* The process ends between two operations; nothing is written then, and   *)
(* the session is resumed from its file.                                   *)
Exit ==
    /\ "exit" \in Operations /\ Persist /\ Idle
    /\ MemoryLost
    /\ UNCHANGED <<file, clock, failed, acked>>

(* The process dies between two operations, or between two writes.         *)
Crash ==
    /\ "crash" \in Outcomes /\ Persist /\ up
    /\ MemoryLost
    /\ UNCHANGED <<file, clock, failed, acked>>

-----------------------------------------------------------------------------
Init ==
    /\ entries \in Sessions
    /\ leaf = LastEntry(entries)
    /\ labels = LabelIndex(entries) /\ legacy = LegacyPrunes(entries)
    /\ cache = NoCache /\ todo = <<>> /\ up = TRUE /\ failed = FALSE
    /\ clock = IF DOMAIN entries = {} THEN 0 ELSE entries[LastEntry(entries)].at
    /\ flushed = (Persist /\ DOMAIN entries # {})
    /\ file = IF flushed THEN WholeFile(entries) ELSE NoFile
    /\ acked = IF flushed THEN DOMAIN entries ELSE {}

Does(op) == op \in Operations

Next ==
    \/ \E o \in Outcomes :
          \/ \E k \in Kinds : AppendEntry(k, o)
          \/ /\ Does("compact")
             /\ \E f \in CompactionCuts(entries, leaf, legacy) \cup {NullId} : AppendCompaction(f, o)
          \/ Does("label") /\ \E t \in DOMAIN entries, v \in {"set", "cleared"} : AppendLabelChange(t, v, o)
          \/ \E t \in DOMAIN entries, v \in {"omit", "replace"} : Does(v) /\ AppendContextEdit(t, v, o)
          \/ Does("cancel") /\ \E t \in DOMAIN entries : AppendContextEditCancel(t, o)
          \/ AppendNextContextChange(o)
          \/ /\ Does("branchSummary")
             /\ \E id \in NavigationTargets(entries) \cup {NullId} : BranchWithSummary(id, o)
          \/ Does("extract") /\ \E id \in NavigationTargets(entries) : CreateBranchedSession(id, o)
          \/ Does("fork") /\ ForkFrom(o)
    \/ /\ Does("agentCurates")
       /\ \E b \in AgentBlocks(entries, leaf, legacy), s \in {"excluded", "summarized"} : AgentCurates(b, s)
    \/ /\ Does("userCurates")
       /\ \E b \in HumanBlocks(entries, leaf), s \in {"included", "excluded"} : UserCurates(b, s)
    \/ Does("branch") /\ (ResetLeaf \/ \E id \in NavigationTargets(entries) : Branch(id))
    \/ Does("read") /\ ReadContextChanges
    \/ Does("new") /\ NewSession
    \/ Open
    \/ Exit
    \/ Crash

Spec == Init /\ [][Next]_vars

-----------------------------------------------------------------------------
(* Every variable has its type: memory and file hold logs, the leaf and    *)
(* the legacy prune records are entries of the log in memory.              *)
TypeOK ==
    /\ IsLog(entries)
    /\ leaf \in DOMAIN entries \cup {NullId}
    /\ labels \subseteq Nat
    /\ DOMAIN legacy \subseteq Nat /\ legacy \in [DOMAIN legacy -> DOMAIN entries]
    /\ cache.count \in Nat /\ cache.leaf \in Nat
    /\ todo \in Seq([kind : EditKinds, target : Nat, value : EntryValues])
    /\ file = File(file.state, file.lines, file.tail)
    /\ file.state \in FileStates /\ IsLog(file.lines) /\ file.tail \in Tails
    /\ flushed \in BOOLEAN /\ up \in BOOLEAN /\ failed \in BOOLEAN
    /\ clock \in Nat
    /\ acked \subseteq Nat

(* Every entry of the log and of the file follows its parent, so the walk  *)
(* of getBranch from any entry ends; and unless a write has failed no      *)
(* parent is missing, whatever a crash cut off: no reload orphans a branch *)
(* (session-manager.ts:1309, 1706).                                        *)
TreeWellFormed ==
    /\ ParentsEarlier(entries) /\ ParentsEarlier(file.lines)
    /\ ~failed => ParentsPresent(entries) /\ ParentsPresent(file.lines)

(* An entry whose append returned with the file written is in the file,    *)
(* through torn last lines, reloads and the appends that follow them,      *)
(* unless some write has thrown (session-manager.ts:734, 1280).            *)
AcknowledgedEntriesSurvive == ~failed => acked \subseteq DOMAIN file.lines

(* A cached set of context changes that a read would return is the one the *)
(* log and the leaf determine (session-manager.ts:1615).                   *)
CacheNeverStale ==
    (up /\ CacheHit) =>
        cache.changes = ContextChanges(entries, SessionPath(entries, leaf), legacy)

(* The indexes kept up to date by the appends are those that a reload of   *)
(* the log would build (session-manager.ts:1218, 1629).                    *)
IndexMatchesLog ==
    (up /\ ~failed) => labels = LabelIndex(entries) /\ legacy = LegacyPrunes(entries)

(* A context edit or its cancellation names an entry of its own ancestry   *)
(* that contributes to the context: curation is local to its branch        *)
(* (session-manager.ts:1477, docs/prune.md).                               *)
CurationOnOwnBranch ==
    ~failed => \A x \in DOMAIN entries : entries[x].kind \in EditKinds =>
        /\ entries[x].target \in SessionPath(entries, x)
        /\ Contributes(entries[entries[x].target])

(* Appending never changes what the model sees at an entry that already    *)
(* existed: edits, cancels, labels and compactions act on their            *)
(* descendants only (session-manager.ts:622, docs/prune.md "branch-local").*)
PastContextsImmutable ==
    [][(up /\ \A x \in DOMAIN entries : x \in DOMAIN entries' /\ entries'[x] = entries[x]) =>
         \A x \in DOMAIN entries :
            Projection(entries', x, legacy') = Projection(entries, x, legacy)]_vars

(* The session extracted by createBranchedSession shows the model the same *)
(* messages, in the same order, with the same settings as the path it was  *)
(* extracted from (session-manager.ts:1881).                               *)
ContextOf(E, id, leg) ==
    LET proj == Projection(E, id, leg)
        path == SessionPath(E, id)
    IN  [messages |-> [x \in Visible(proj) |-> proj[x]],
         order |-> {p \in Visible(proj) \X Visible(proj) : Before(E, path, p[1], p[2])},
         settings |-> ContextSettings(E, path)]
ExtractionPreservesContext ==
    [][\A id \in DOMAIN entries : CreateBranchedSession(id, "ok") =>
         ContextOf(entries', leaf', legacy') = ContextOf(entries, id, legacy)]_vars

(* A tool result that the model sees comes with its tool call              *)
(* (docs/prune.md "separating either side would produce an invalid         *)
(* conversation").                                                         *)
Orphans(E, id, leg) ==
    LET proj == Projection(E, id, leg)
        path == SessionPath(E, id)
    IN  {r \in DOMAIN proj : /\ "toolResult" \in Roles(proj, r)
                             /\ ~\E c \in DOMAIN proj : /\ c = CallOf(E, path, r)
                                                        /\ "toolCall" \in Roles(proj, c)}
NoOrphanToolResult == Idle => Orphans(entries, leaf, legacy) = {}

(* The part of it that the code keeps: curation never hides the call of a  *)
(* result it leaves visible, as long as both are in the retained range     *)
(* (prune.ts:67, agent-session.ts:2554).                                   *)
ExchangesStayTogether ==
    Idle => \A r \in Orphans(entries, leaf, legacy) :
               CallOf(entries, SessionPath(entries, leaf), r)
                   \notin ContextEntries(entries, SessionPath(entries, leaf))
=============================================================================
