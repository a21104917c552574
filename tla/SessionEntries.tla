--------------------------- MODULE SessionEntries ---------------------------
(***************************************************************************)
(* The session data model of packages/coding-agent: the entries of a       *)
(* session file, the path from the leaf to the root, and the pure          *)
(* functions that turn a path into the model context                       *)
(* (src/packages/coding-agent/src/core/session-manager.ts and prune.ts).   *)
(*                                                                         *)
(* An entry log (SessionManager.fileEntries without the header, indexed by *)
(* SessionManager.byId) is a function from entry ids to entries.  The      *)
(* position of an entry in the file is its field `at': the log is read in  *)
(* the order of `at'.  Ids are numbers, 0 stands for a null id.            *)
(***************************************************************************)
EXTENDS Naturals, Sequences, FiniteSets

NullId == 0
Id == Nat \ {0}

(***************************************************************************)
(* Entry kinds.  A "message" entry is named after the role of its message; *)
(* "toolCall" is an assistant message with tool calls, "note" is any of    *)
(* custom, custom_message and bashExecution, which the functions below     *)
(* treat alike.  "info" is an entry without any effect on the context:     *)
(* custom, usage, session_info.                                            *)
(***************************************************************************)
AssistantKinds == {"assistant", "toolCall"}
MessageKinds   == {"user", "toolResult", "system", "note", "contextStatus"} \cup AssistantKinds
SettingKinds   == {"thinking_level_change", "model_change"}
EditKinds      == {"context_edit", "context_edit_cancel"}
EntryKinds     == MessageKinds \cup SettingKinds \cup EditKinds \cup
                  {"info", "compaction", "branch_summary", "label", "prune"}

(***************************************************************************)
(* What an entry says of its target:                                       *)
(*   context_edit  "omit"        replacement null                          *)
(*                 "replace"     replacement with content                  *)
(*                 "summary"     replacement with content, curation summary*)
(*                 "omitSummary" replacement null, curation summary        *)
(*   prune         "included", "excluded", "summarized" (legacy, read only)*)
(*   label         "set" or "cleared"                                      *)
(*   compaction    "checkpoint" when it carries a system message           *)
(***************************************************************************)
EditValues  == {"omit", "replace", "summary", "omitSummary"}
PruneStates == {"included", "excluded", "summarized"}
EntryValues == EditValues \cup PruneStates \cup {"set", "cleared", "checkpoint", "none"}

(* `target' is the targetId of an edit, a cancel, a label or a prune, and  *)
(* the firstKeptEntryId of a compaction.                                   *)
Entry == [kind : EntryKinds, parent : Nat, at : Nat, target : Nat, value : EntryValues]

IsLog(E) == /\ DOMAIN E \subseteq Id /\ IsFiniteSet(DOMAIN E)
            /\ E \in [DOMAIN E -> Entry]

-----------------------------------------------------------------------------
(* The entry of S that is last in the file; S is finite and not empty.     *)
Latest(E, S) == CHOOSE x \in S : \A y \in S : E[y].at <= E[x].at

(* buildSessionPath, getBranch: the entries from the root to id, walked    *)
(* through parentId until it is null or names no entry of the log.         *)
SessionPath(E, id) ==
    LET walk[x \in DOMAIN E] ==
            {x} \cup (IF E[x].parent \in DOMAIN E THEN walk[E[x].parent] ELSE {})
    IN  IF id \in DOMAIN E THEN DOMAIN E \cap walk[id] ELSE {}

(* The newest compaction of a path, or NullId.                             *)
LatestCompaction(E, path) ==
    LET C == {x \in path : E[x].kind = "compaction"}
    IN  IF C = {} THEN NullId ELSE Latest(E, C)

(* buildContextEntries: without a compaction the whole path; otherwise the *)
(* newest compaction, what it kept (from firstKeptEntryId on, without the  *)
(* system messages) and what follows it.                                   *)
ContextEntries(E, path) ==
    LET c == LatestCompaction(E, path)
        first == E[c].target
        Kept == {x \in path : /\ first \in path /\ E[first].at < E[c].at
                              /\ E[first].at <= E[x].at /\ E[x].at < E[c].at
                              /\ E[x].kind # "system"}
    IN  IF c = NullId THEN path
        ELSE {c} \cup Kept \cup {x \in path : E[c].at < E[x].at}

(* The order of the context: the newest compaction first, then file order. *)
Before(E, path, x, y) ==
    LET c == LatestCompaction(E, path)
    IN  x # y /\ (x = c \/ (y # c /\ E[x].at < E[y].at))

-----------------------------------------------------------------------------
(* sessionEntryToContextMessages: the messages an entry contributes.  Of a *)
(* message its role and where its content comes from are kept.             *)
Message(role, text) == [role |-> role, text |-> text]

ContextMessages(e) ==
    CASE e.kind \in MessageKinds \cup {"branch_summary"} -> <<Message(e.kind, "raw")>>
      [] e.kind = "compaction" ->
            IF e.value = "checkpoint"
            THEN <<Message("system", "raw"), Message("compaction", "raw")>>
            ELSE <<Message("compaction", "raw")>>
      [] OTHER -> <<>>

Contributes(e) == ContextMessages(e) # <<>>

(* The map legacyPruneChanges that _buildIndex reads from a file: the last *)
(* legacy prune record of every target, restorations included.             *)
LegacyPrunes(E) ==
    LET P == {x \in DOMAIN E : E[x].kind = "prune"}
    IN  [t \in {E[x].target : x \in P} |-> Latest(E, {x \in P : E[x].target = t})]

(* Mutant of ContextChanges: every branch's edits count, not the path's.   *)
ContextChangesOfLog(E, path, legacy) ==
    LET Edits == {x \in DOMAIN E : E[x].kind = "context_edit"}
    IN  [t \in {E[x].target : x \in Edits} |-> Latest(E, {x \in Edits : E[x].target = t})]

(* resolveContextChanges: the legacy records are a global baseline, edits  *)
(* and cancels of the path override it, the last one of a target winning.  *)
(* The result maps a target to the entry that decides about it.            *)
ContextChanges(E, path, legacy) ==
    LET Ops(t) == {x \in path : E[x].kind \in EditKinds /\ E[x].target = t}
        Edited == {t \in {E[x].target : x \in path} :
                      Ops(t) # {} /\ E[Latest(E, Ops(t))].kind = "context_edit"}
        Baseline == {t \in DOMAIN legacy : Ops(t) = {}}
    IN  [t \in Edited \cup Baseline |->
            IF t \in Edited THEN Latest(E, Ops(t)) ELSE legacy[t]]

(* contextChangeState: the curation state that the user interface shows.   *)
ChangeState(E, changes, x) ==
    IF x \notin DOMAIN changes THEN "included"
    ELSE LET e == E[changes[x]] IN
         IF e.kind = "prune" THEN e.value
         ELSE CASE e.value \in {"summary", "omitSummary"} -> "summarized"
                [] e.value = "omit" -> "excluded"
                [] OTHER -> "included"

(* projectContextEntry: the messages of an entry after curation.  A        *)
(* replaced assistant message has no tool calls left; a system checkpoint  *)
(* inside a compaction survives; a system message entry gives way to a     *)
(* summary only.                                                           *)
ReplacedRole(e) ==
    CASE e.kind = "toolCall" -> "assistant"
      [] e.kind = "system"   -> "note"
      [] OTHER               -> e.kind

ProjectEntry(e, hasChange, change) ==
    LET base == ContextMessages(e)
        checkpoint == IF e.kind = "compaction" /\ e.value = "checkpoint"
                      THEN <<Message("system", "raw")>> ELSE <<>>
        text == IF change.value = "replace" THEN "edited" ELSE "summary"
        legacy == CASE change.value = "included"   -> base
                    [] change.value = "excluded"   -> <<>>
                    [] change.value = "summarized" -> checkpoint \o <<Message("note", "summary")>>
    IN  IF ~hasChange THEN base
        ELSE IF change.kind = "prune" THEN legacy
        ELSE IF change.value \in {"omit", "omitSummary"} THEN <<>>
        ELSE IF base = <<>> \/ (e.kind = "system" /\ change.value = "replace") THEN base
        ELSE checkpoint \o <<Message(ReplacedRole(e), text)>>

(* buildSessionProjection: what every context entry contributes.  Of the   *)
(* compactions only the newest one, at index zero, contributes.            *)
Projection(E, id, legacy) ==
    LET path == SessionPath(E, id)
        changes == ContextChanges(E, path, legacy)
        newest == LatestCompaction(E, path)
    IN  [x \in ContextEntries(E, path) |->
            IF E[x].kind = "compaction" /\ x # newest THEN <<>>
            ELSE ProjectEntry(E[x], x \in DOMAIN changes,
                              IF x \in DOMAIN changes THEN E[changes[x]] ELSE E[x])]

(* The entries the model sees, and the roles an entry shows it.            *)
Visible(proj) == {x \in DOMAIN proj : proj[x] # <<>>}
Roles(proj, x) == {proj[x][i].role : i \in DOMAIN proj[x]}

(* getSessionContextSettings: the entries that decide the thinking level   *)
(* and the model of a path.                                                *)
ContextSettings(E, path) ==
    LET LastOf(kinds) == LET S == {x \in path : E[x].kind \in kinds}
                         IN  IF S = {} THEN NullId ELSE Latest(E, S)
    IN  [thinkingLevel |-> LastOf({"thinking_level_change"}),
         model |-> LastOf({"model_change"} \cup AssistantKinds)]

-----------------------------------------------------------------------------
(* Mutant of PruneBlock: tool results are blocks of their own.             *)
UngroupedBlock(E, path, S, head) == {head}

(* groupPruneBlocks over the entries S of a path: an assistant message     *)
(* with tool calls and the tool results that follow it immediately, among  *)
(* the contributing entries, are one block; every other contributing entry *)
(* is a block of its own.                                                  *)
PruneBlock(E, path, S, head) ==
    LET C == {x \in S : Contributes(E[x])}
        tail == {y \in C : /\ E[head].kind = "toolCall"
                           /\ Before(E, path, head, y)
                           /\ \A z \in C : /\ Before(E, path, head, z)
                                           /\ (z = y \/ Before(E, path, z, y))
                                           => E[z].kind = "toolResult"}
    IN  {head} \cup tail

PruneBlocks(E, path, S) ==
    LET C == {x \in S : Contributes(E[x])}
        B == {PruneBlock(E, path, S, x) : x \in C}
    IN  {b \in B : \A d \in B : ~(b \subseteq d /\ b # d)}

(* showPruneSelector: the user picks among all blocks of the context.      *)
HumanBlocks(E, id) ==
    LET path == SessionPath(E, id) IN PruneBlocks(E, path, ContextEntries(E, path))

(* _getContextBlockInventory, _selectContextBlocks: the agent picks among  *)
(* the visible blocks that are not curated yet, outside the protected      *)
(* suffix.  The newest visible block is always protected; how many more    *)
(* are depends on token counts, so any other block may be eligible.        *)
AgentBlocks(E, id, legacy) ==
    LET path == SessionPath(E, id)
        changes == ContextChanges(E, path, legacy)
        V == Visible(Projection(E, id, legacy))
        head(b) == CHOOSE x \in b : \A y \in b : E[x].at <= E[y].at
        newest(b) == \A x \in b, y \in V : x = y \/ y \in b \/ Before(E, path, y, x)
    IN  {b \in PruneBlocks(E, path, V) :
            ChangeState(E, changes, head(b)) = "included" /\ ~newest(b)}

(* The tool call that a tool result of a path answers: the last assistant  *)
(* message with tool calls before it.                                      *)
CallOf(E, path, r) ==
    Latest(E, {x \in path : E[x].kind = "toolCall" /\ E[x].at < E[r].at})

(* The leaf is inside a tool exchange: the next message may be a result.   *)
InExchange(E, path) ==
    LET C == {x \in path : Contributes(E[x])}
    IN  C # {} /\ E[Latest(E, C)].kind \in {"toolCall", "toolResult"}

-----------------------------------------------------------------------------
(* prepareCompaction and findProjectedCutPoint (compaction.ts): the        *)
(* entries that a compaction of the path to id may keep from, for some     *)
(* token budget.  Messages that may start the kept range: never a tool     *)
(* result, a system message or a context status.                           *)
CompactionCuts(E, id, legacy) ==
    LET path == SessionPath(E, id)
        proj == Projection(E, id, legacy)
        range == DOMAIN proj \ {LatestCompaction(E, path)}
        CutPoints == {x \in range : /\ E[x].kind # "compaction"
                                    /\ Roles(proj, x) \ {"toolResult", "system", "contextStatus"} # {}}
        After(x) == {y \in range : E[x].at < E[y].at}
        Omitted(x) == Contributes(E[x]) /\ proj[x] = <<>>
        \* A failed attempt that recovery omitted does not hold the cut back.
        RecoverySuffix(x) ==
            /\ \E y \in After(x) : E[y].kind \in AssistantKinds /\ Omitted(y)
            /\ \A y \in After(x) : /\ E[y].kind # "compaction"
                                   /\ Contributes(E[y]) => Omitted(y)
                                   /\ (E[y].kind = "context_edit" /\ E[y].value \in {"replace", "summary"})
                                         => \E z \in After(x) : z = E[y].target /\ Omitted(z)
        First(S) == CHOOSE y \in S : \A z \in S : E[y].at <= E[z].at
        \* Within the budget the first cut point; otherwise any, past such an attempt.
        Cuts == {IF RecoverySuffix(x) THEN First(After(x)) ELSE x : x \in CutPoints}
                    \cup (IF CutPoints = {} THEN {} ELSE {First(CutPoints)})
        \* The cut moves back over entries that contribute nothing.
        Reaches(x, cut) == \A y \in range : (E[x].at <= E[y].at /\ E[y].at < E[cut].at)
                                                => (E[y].kind # "compaction" /\ proj[y] = <<>>)
        FirstKept(x, cut) == /\ E[x].at <= E[cut].at /\ Reaches(x, cut)
                             /\ \A y \in range : (E[y].at <= E[cut].at /\ Reaches(y, cut))
                                                    => E[x].at <= E[y].at
        \* There must be something to summarize before the kept range.
        Summarizes(first) == \E y \in range : /\ E[y].at < E[first].at
                                              /\ E[y].kind # "compaction"
                                              /\ Roles(proj, y) \ {"system"} # {}
    IN  IF path = {} \/ E[Latest(E, path)].kind = "compaction" THEN {}
        ELSE {f \in range : Summarizes(f) /\ \E c \in Cuts : FirstKept(f, c)}
=============================================================================
