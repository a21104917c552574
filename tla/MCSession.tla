------------------------------ MODULE MCSession ------------------------------
(***************************************************************************)
(* Instances of SessionManager for TLC: the sessions a run starts from.    *)
(***************************************************************************)
EXTENDS SessionManager

(* A session that is one chain of entries; the last one has id `last'.  A  *)
(* target is the index of its entry in the chain.                          *)
Item(kind, target, value) == [kind |-> kind, target |-> target, value |-> value]
M(kind) == Item(kind, 0, "none")
Chain(last, items) ==
    LET off == last - Len(items)
    IN  [x \in (off + 1)..last |->
            LET e == items[x - off] IN
            [kind |-> e.kind, at |-> x, value |-> e.value,
             parent |-> IF x = off + 1 THEN NullId ELSE x - 1,
             target |-> IF e.target = 0 THEN NullId ELSE e.target + off]]

(* A prompt, a tool exchange and a second prompt; the same with the        *)
(* exchange pruned by its two markers, or summarized.                      *)
Exchange == <<M("user"), M("toolCall"), M("toolResult"), M("user")>>
Pruned == Exchange \o <<Item("context_edit", 2, "omit"), Item("context_edit", 3, "omit")>>
Summarized == Exchange \o <<Item("context_edit", 2, "summary"), Item("context_edit", 3, "omitSummary")>>

(* An old session: legacy prune records of an entry of a sibling branch do *)
(* not occur in a chain, so the records follow the entries they are about. *)
Legacy == <<M("system"), M("assistant"), Item("prune", 2, "summarized"),
            Item("prune", 1, "excluded"), M("user")>>

(* A label precedes the entry that a compaction kept from.                 *)
Labelled == <<M("user"), Item("label", 1, "set"), M("user"),
              Item("compaction", 2, "none"), M("assistant")>>

(* A label that was cleared again, and one on a later entry.               *)
Relabelled == <<M("user"), Item("label", 1, "set"), Item("label", 1, "cleared"),
                M("user"), Item("label", 4, "set")>>

(* The instances begin with six entries or less.                           *)
PromptSession    == {Chain(2, <<M("user"), M("assistant")>>), EmptyLog}
ExchangeSessions == {Chain(6, s) : s \in {Exchange, Pruned, Summarized}}
SummarizedSession == {Chain(6, Summarized)}
TreeSessions     == {Chain(5, Labelled), Chain(6, Legacy), Chain(6, Relabelled)}
=============================================================================
