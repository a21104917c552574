------------------------- MODULE AgentSessionProofs -------------------------
(***************************************************************************)
(* Proofs about AgentSession, for any callers and any bounds.  What waits  *)
(* for the end of a run is put into the log in general.  The rest rests on *)
(* OneStarter: that no two prompts are past their input handlers at once.  *)
(* Whatever starts two, the session takes one for the end of the other;    *)
(* clients that wait for each other's preflight, and handlers that do not  *)
(* prompt while agent_settled is announced, never do.                      *)
(***************************************************************************)
EXTENDS AgentSession, TLAPS

(* A prompt in _runAgentPrompt up to agent_settled, or about to enter it.  *)
RunLocs   == {"running", "post", "sleep", "postcompact", "recovery", "continue", "settle",
              "beforeSettle", "finally"}
Starting  == {"auth", "precompact", "beforeStart"}
Committed == Starting \cup RunLocs

OneStarter ==
    \A c, d \in Prompts : pc[c] \in Committed /\ pc[d] \in Committed => c = d

-----------------------------------------------------------------------------
Entries == [caller : Prompts, kind : Kinds]

(* The types of TypeOK, without the coupling of the controllers.           *)
AgentTyped == phase \in Agent!Phases /\ signal \in BOOLEAN /\ queued \in Nat
PcTyped == pc \in [Callers -> Locs] /\ \A c \in Prompts : pc[c] \notin Busy
RunTyped ==
    /\ active \in BOOLEAN /\ abortReq \in BOOLEAN /\ settling \in BOOLEAN /\ late \in BOOLEAN
    /\ deferred \in Seq(Entries) /\ todo \in [Prompts -> Seq(Entries)]
    /\ thrown \subseteq Prompts /\ flushFailed \in BOOLEAN
CtlTyped ==
    /\ auto \in Runners \cup {None} /\ autoSig \in [Runners -> Signals \cup {"saved"}]
    /\ manual \in Signals /\ tree \in Signals /\ retry \in Signals
AnswerTyped ==
    /\ attempt \in 0..MaxRetries /\ recovered \in BOOLEAN
    /\ last \in Answers \cup {"none"} /\ tail \in {"assistant", "other"}
    /\ recoveries \in Nat /\ turns \in 0..MaxTurns
NoteTyped == bash \in Nat /\ custom \in Nat /\ notes \in Nat
PlaceTyped ==
    place \in Nat /\ callPlace \in Nat /\ prepPlace \in [Runners \cup {"compact"} -> Nat]
Typed ==
    AgentTyped /\ PcTyped /\ RunTyped /\ CtlTyped /\ AnswerTyped /\ NoteTyped /\ PlaceTyped

(* A call that is in a list of deferred actions waits; it is under way     *)
(* only at the head of a list that is being worked off.                    *)
Waiting ==
    /\ \A i \in 1..Len(deferred) : pc[deferred[i].caller] = "deferred"
    /\ \A c \in Prompts : \A i \in 1..Len(todo[c]) : pc[todo[c][i].caller] # "new"
    /\ \A c \in Prompts : \A i \in 2..Len(todo[c]) : pc[todo[c][i].caller] = "deferred"
(* It is in one list, at one place.                                        *)
OnePlace ==
    /\ \A i, j \in 1..Len(deferred) : deferred[i].caller = deferred[j].caller => i = j
    /\ \A c, d \in Prompts : \A i \in 1..Len(todo[c]), j \in 1..Len(todo[d]) :
          todo[c][i].caller = todo[d][j].caller => c = d /\ i = j
    /\ \A c \in Prompts : \A i \in 1..Len(todo[c]), j \in 1..Len(deferred) :
          todo[c][i].caller # deferred[j].caller
DeferInv == Waiting /\ OnePlace

(* The fields that several steps share agree with where the prompt is that *)
(* is committed: the agent runs for it, _isAgentRunActive is set for it,   *)
(* and the controllers are those of its compaction and its backoff.        *)
PhaseInv ==
    /\ phase # "idle" => \E c \in Prompts : pc[c] = "running"
    /\ \A c \in Prompts : pc[c] = "running" => phase # "idle"
ActiveInv == \A c \in Prompts : pc[c] \in RunLocs => active
SigInv ==
    \A r \in Prompts : autoSig[r] # "none" <=> pc[r] \in {"precompact", "postcompact", "recovery"}
AutoInv ==
    /\ autoSig["agent"] # "none" => phase = "turn"
    /\ \A r \in Runners : autoSig[r] # "none" => auto = r
    /\ auto # None => autoSig[auto] # "none"
RetryInv ==
    /\ retry # "none" => \E c \in Prompts : pc[c] = "sleep"
    /\ \A c \in Prompts : pc[c] = "sleep" => retry # "none"

(* A recovery under way is the first one.                                  *)
RecoveryInv ==
    /\ recoveries <= 1
    /\ recoveries > 0 => recovered
    /\ \A c \in Prompts : pc[c] = "recovery" => recoveries = 0 /\ recovered

(* Calls are put off only while agent_settled is announced.                *)
SettlingInv == deferred # <<>> => settling

(* While navigateTree is at work no prompt is under way, or put off, and   *)
(* compact is not at work either; and what tools, automatic compactions    *)
(* and compact have begun on a branch, they finish there.                  *)
Navigating == "navigate" \in Others /\ pc["navigate"] \in {"navigating", "moved"}
NavInv ==
    Navigating =>
       /\ ~settling
       /\ \A c \in Prompts : pc[c] \in {"done", "rejected", "dropped", "new", "settling"}
       /\ "compact" \in Others => pc["compact"] \notin Busy
BranchInv ==
    /\ phase = "tools" => callPlace = place
    /\ \A r \in Runners : autoSig[r] # "none" => prepPlace[r] = place
    /\ "compact" \in Others /\ pc["compact"] = "summarizing" => prepPlace["compact"] = place

(* With clients that wait, and nothing put off, one prompt at a time is in *)
(* its preflight.                                                          *)
QuietInv ==
    /\ \A c \in Prompts : todo[c] = <<>> /\ pc[c] \notin {"deferred", "draining"}
    /\ \A c, d \in Prompts : pc[c] \in Preflight /\ pc[d] \in Preflight => c = d

(* What the proofs use of the constants.                                   *)
LEMMA Names ==
  /\ Others \subseteq {"abort", "compact", "navigate"}
  /\ Prompts \cap {"abort", "compact", "navigate", "agent"} = {}
  /\ None \notin Prompts /\ None # "agent"
  /\ MaxRetries \in Nat /\ MaxTurns \in Nat /\ MaxNotes \in Nat
BY SessionAssumption DEF Runners

(* Lists of deferred actions.                                              *)
LEMMA SeqFacts ==
  /\ <<>> \in Seq(Entries)
  /\ \A s \in Seq(Entries), e \in Entries : Append(s, e) \in Seq(Entries)
  /\ \A s \in Seq(Entries) : s # <<>> => Head(s) \in Entries /\ Tail(s) \in Seq(Entries)
OBVIOUS

(* Every step keeps the types.                                             *)
LEMMA TypedStep ==
  ASSUME Typed, [Next]_vars
  PROVE  Typed'
<1> USE Names DEF Callers, Runners, At, agentVars, runVars, ctlVars, answerVars, noteVars, placeVars
<1>1. ASSUME NEW c \in Prompts, CallQueued(c) PROVE Typed'
  BY <1>1 DEF CallQueued, Calls, Agent!Enqueue, Preflight, Busy, Typed,
       AgentTyped, PcTyped, RunTyped, CtlTyped, AnswerTyped, NoteTyped,
       PlaceTyped, Agent!Phases, Locs, Signals, Answers, Over, Errors
<1>2. ASSUME NEW c \in Prompts, NEW kind \in Kinds, CallDeferred(c, kind) PROVE Typed'
  <2>1. PcTyped'
    BY <1>2 DEF CallDeferred, Calls, Preflight, Busy, PcTyped, Locs, Over, Typed
  <2>2. RunTyped'
    <3>1. [caller |-> c, kind |-> kind] \in Entries
      BY DEF Entries
    <3>2. deferred' \in Seq(Entries)
      BY <1>2, <3>1, SeqFacts DEF CallDeferred, Typed, RunTyped
    <3> QED
      BY <1>2, <3>2 DEF CallDeferred, Typed, RunTyped
  <2>3. AgentTyped' /\ CtlTyped' /\ AnswerTyped' /\ NoteTyped' /\ PlaceTyped'
    BY <1>2 DEF CallDeferred, Calls, AgentTyped, CtlTyped, AnswerTyped, NoteTyped,
         PlaceTyped, Typed
  <2> QED
    BY <2>1, <2>2, <2>3 DEF Typed
<1>3. ASSUME NEW c \in Prompts, NEW kind \in Kinds, CallSubmitted(c, kind) PROVE Typed'
  <2>1. AgentTyped'
    BY <1>3 DEF CallSubmitted, Calls, Submit, StartRun, Input, Preflight, Busy,
         Agent!Prompt, Agent!Move, AgentTyped, Agent!Phases, Typed
  <2>2. PcTyped'
    BY <1>3 DEF CallSubmitted, Calls, Submit, StartRun, Input, Preflight, Busy,
         Agent!Prompt, Agent!Move, PcTyped, Locs, Over, Typed, Kinds
  <2>3. RunTyped'
    BY <1>3 DEF CallSubmitted, Calls, Submit, StartRun, Input, Preflight, Busy,
         Agent!Prompt, Agent!Move, RunTyped, Typed
  <2>4. AnswerTyped'
    BY <1>3 DEF CallSubmitted, Calls, Submit, StartRun, Input, Preflight, Busy,
         Agent!Prompt, Agent!Move, AnswerTyped, Answers, Errors, Typed
  <2>5. CtlTyped' /\ NoteTyped' /\ PlaceTyped'
    BY <1>3 DEF CallSubmitted, Calls, Submit, StartRun, Input, Agent!Prompt,
         Agent!Move, CtlTyped, NoteTyped, PlaceTyped, Typed
  <2> QED
    BY <2>1, <2>2, <2>3, <2>4, <2>5 DEF Typed
<1>4. ASSUME CallAbort PROVE Typed'
  <2>1. AgentTyped'
    BY <1>4 DEF CallAbort, AbortAll, AbortSignal, AgentTyped, Agent!Phases, Typed
  <2>2. PcTyped'
    BY <1>4 DEF CallAbort, AbortAll, AbortSignal, PcTyped, Locs, Busy, Preflight,
         Over, Typed
  <2>3. RunTyped'
    BY <1>4 DEF CallAbort, AbortAll, AbortSignal, RunTyped, Typed
  <2>4. CtlTyped'
    BY <1>4 DEF CallAbort, AbortAll, AbortSignal, CtlTyped, Signals, Typed
  <2>5. AnswerTyped' /\ NoteTyped' /\ PlaceTyped'
    BY <1>4 DEF CallAbort, AbortAll, AbortSignal, AnswerTyped, NoteTyped,
         PlaceTyped, Typed
  <2> QED
    BY <2>1, <2>2, <2>3, <2>4, <2>5 DEF Typed
<1>5. ASSUME CallCompact PROVE Typed'
  <2>1. AgentTyped'
    BY <1>5 DEF CallCompact, AbortAll, Preflight, Busy, AbortSignal, AgentTyped,
         Agent!Phases, Typed
  <2>2. PcTyped'
    BY <1>5 DEF CallCompact, AbortAll, Preflight, Busy, AbortSignal, PcTyped,
         Locs, Over, Typed
  <2>3. RunTyped'
    BY <1>5 DEF CallCompact, AbortAll, Preflight, Busy, AbortSignal, RunTyped,
         Typed
  <2>4. CtlTyped'
    BY <1>5 DEF CallCompact, AbortAll, Preflight, Busy, AbortSignal, CtlTyped,
         Signals, Typed
  <2>5. AnswerTyped' /\ NoteTyped' /\ PlaceTyped'
    BY <1>5 DEF CallCompact, AbortAll, AbortSignal, AnswerTyped, NoteTyped,
         PlaceTyped, Typed
  <2> QED
    BY <2>1, <2>2, <2>3, <2>4, <2>5 DEF Typed
<1>6. ASSUME CallNavigate PROVE Typed'
  BY <1>6 DEF CallNavigate, Preflight, Busy, Typed, AgentTyped, PcTyped,
       RunTyped, CtlTyped, AnswerTyped, NoteTyped, PlaceTyped, Agent!Phases,
       Locs, Signals, Answers, Over, Errors
<1>7. ASSUME AbortRetry PROVE Typed'
  BY <1>7 DEF AbortRetry, Typed, AgentTyped, PcTyped, RunTyped, CtlTyped,
       AnswerTyped, NoteTyped, PlaceTyped, Agent!Phases, Locs, Busy, Signals,
       Answers, Preflight, Over, Errors
<1>8. ASSUME AbortCompaction PROVE Typed'
  BY <1>8 DEF AbortCompaction, AbortSignal, Typed, AgentTyped, PcTyped,
       RunTyped, CtlTyped, AnswerTyped, NoteTyped, PlaceTyped, Agent!Phases,
       Locs, Busy, Signals, Answers, Preflight, Over, Errors
<1>9. ASSUME RecordBash PROVE Typed'
  BY <1>9 DEF RecordBash, Sent, Typed, AgentTyped, PcTyped, RunTyped, CtlTyped,
       AnswerTyped, NoteTyped, PlaceTyped, Agent!Phases, Locs, Busy, Signals,
       Answers, Preflight, Over, Errors
<1>10. ASSUME SendCustom PROVE Typed'
  BY <1>10 DEF SendCustom, Sent, Typed, AgentTyped, PcTyped, RunTyped,
       CtlTyped, AnswerTyped, NoteTyped, PlaceTyped, Agent!Phases, Locs, Busy,
       Signals, Answers, Preflight, Over, Errors
<1>11. ASSUME ClearQueue PROVE Typed'
  BY <1>11 DEF ClearQueue, Agent!Clear, Typed, AgentTyped, PcTyped, RunTyped,
       CtlTyped, AnswerTyped, NoteTyped, PlaceTyped, Agent!Phases, Locs, Busy,
       Signals, Answers, Preflight, Over, Errors
<1>12. ASSUME NEW c \in Prompts, QueueInput(c) PROVE Typed'
  <2>1. AgentTyped'
    BY <1>12 DEF QueueInput, Agent!Enqueue, AgentTyped, Agent!Phases, Typed
  <2>2. PcTyped'
    BY <1>12 DEF QueueInput, Agent!Enqueue, PcTyped, Locs, Busy, Preflight, Over,
         Typed
  <2>3. RunTyped' /\ CtlTyped' /\ AnswerTyped' /\ NoteTyped' /\ PlaceTyped'
    BY <1>12 DEF QueueInput, Agent!Enqueue, RunTyped, CtlTyped, AnswerTyped,
         NoteTyped, PlaceTyped, Typed
  <2> QED
    BY <2>1, <2>2, <2>3 DEF Typed
<1>13. ASSUME NEW c \in Prompts, InputHandled(c) PROVE Typed'
  BY <1>13 DEF InputHandled, Typed, AgentTyped, PcTyped, RunTyped, CtlTyped,
       AnswerTyped, NoteTyped, PlaceTyped, Agent!Phases, Locs, Busy, Signals,
       Answers, Preflight, Over, Errors
<1>14. ASSUME NEW c \in Prompts, InputPasses(c) PROVE Typed'
  BY <1>14 DEF InputPasses, FlushAll, Typed, AgentTyped, PcTyped, RunTyped,
       CtlTyped, AnswerTyped, NoteTyped, PlaceTyped, Agent!Phases, Locs, Busy,
       Signals, Answers, Preflight, Over, Errors
<1>15. ASSUME NEW c \in Prompts, CheckAuth(c) PROVE Typed'
  <2>1. PcTyped'
    BY <1>15 DEF CheckAuth, Compact, StartAuto, Omit, PcTyped, Locs, Busy,
         Preflight, Over, Typed
  <2>2. CtlTyped'
    BY <1>15 DEF CheckAuth, Compact, StartAuto, Omit, CtlTyped, Signals, Typed
  <2>3. AnswerTyped'
    BY <1>15 DEF CheckAuth, Compact, StartAuto, Omit, AnswerTyped, Answers, Errors,
         Typed
  <2>4. PlaceTyped'
    BY <1>15 DEF CheckAuth, Compact, StartAuto, Omit, PlaceTyped, Typed
  <2>5. AgentTyped' /\ RunTyped' /\ NoteTyped'
    BY <1>15 DEF CheckAuth, Compact, StartAuto, Omit, AgentTyped, RunTyped,
         NoteTyped, Typed
  <2> QED
    BY <2>1, <2>2, <2>3, <2>4, <2>5 DEF Typed
<1>16. ASSUME NEW c \in Prompts, RefuseStart(c) PROVE Typed'
  BY <1>16 DEF RefuseStart, Typed, AgentTyped, PcTyped, RunTyped, CtlTyped,
       AnswerTyped, NoteTyped, PlaceTyped, Agent!Phases, Locs, Busy, Signals,
       Answers, Preflight, Over, Errors
<1>17. ASSUME NEW c \in Prompts, BeforeStart(c) PROVE Typed'
  <2>1. AgentTyped'
    BY <1>17 DEF BeforeStart, StartRun, Agent!Prompt, Agent!Move, AgentTyped,
         Agent!Phases, Typed
  <2>2. PcTyped'
    BY <1>17 DEF BeforeStart, StartRun, Agent!Prompt, Agent!Move, PcTyped, Locs,
         Busy, Preflight, Over, Typed
  <2>3. RunTyped'
    BY <1>17 DEF BeforeStart, StartRun, Agent!Prompt, Agent!Move, RunTyped, Typed
  <2>4. AnswerTyped'
    <3>1. /\ recovered' \in BOOLEAN /\ recoveries' \in {recoveries, 0}
          /\ tail' \in {tail, "other"} /\ UNCHANGED <<attempt, last, turns>>
      BY <1>17 DEF BeforeStart, StartRun, Typed, AnswerTyped
    <3> QED
      BY <3>1 DEF Typed, AnswerTyped
  <2>5. CtlTyped' /\ NoteTyped' /\ PlaceTyped'
    BY <1>17 DEF BeforeStart, StartRun, Agent!Prompt, Agent!Move, CtlTyped,
         NoteTyped, PlaceTyped, Typed
  <2> QED
    BY <2>1, <2>2, <2>3, <2>4, <2>5 DEF Typed
<1>18. ASSUME NEW r \in Runners, SaveAuto(r) PROVE Typed'
  BY <1>18 DEF SaveAuto, Typed, AgentTyped, PcTyped, RunTyped, CtlTyped,
       AnswerTyped, NoteTyped, PlaceTyped, Agent!Phases, Locs, Busy, Signals,
       Answers, Preflight, Over, Errors
<1>19. ASSUME NEW r \in Runners, FinishAuto(r) PROVE Typed'
  <2>1. PcTyped'
    BY <1>19 DEF FinishAuto, Wake, AfterRun, Woken, PcTyped, Locs, Busy, Preflight,
         Over, Typed
  <2>2. CtlTyped'
    BY <1>19 DEF FinishAuto, Wake, AfterRun, Woken, CtlTyped, Signals, Typed
  <2>3. AnswerTyped'
    BY <1>19 DEF FinishAuto, Wake, AfterRun, Woken, AnswerTyped, Answers, Errors,
         Typed
  <2>4. AgentTyped' /\ RunTyped' /\ NoteTyped' /\ PlaceTyped'
    BY <1>19 DEF FinishAuto, Wake, AfterRun, Woken, AgentTyped, RunTyped,
         NoteTyped, PlaceTyped, Typed
  <2> QED
    BY <2>1, <2>2, <2>3, <2>4 DEF Typed
<1>20. ASSUME NEW c \in Prompts, AgentFinishes(c) PROVE Typed'
  <2>1. AgentTyped'
    BY <1>20 DEF AgentFinishes, Agent!Finish, AgentTyped, Agent!Phases, Typed
  <2>2. PcTyped'
    BY <1>20 DEF AgentFinishes, Agent!Finish, PcTyped, Locs, Busy, Preflight, Over,
         Typed
  <2>3. RunTyped' /\ CtlTyped' /\ AnswerTyped' /\ NoteTyped' /\ PlaceTyped'
    BY <1>20 DEF AgentFinishes, Agent!Finish, RunTyped, CtlTyped, AnswerTyped,
         NoteTyped, PlaceTyped, Typed
  <2> QED
    BY <2>1, <2>2, <2>3 DEF Typed
<1>21. ASSUME NEW c \in Prompts, PostAborted(c) PROVE Typed'
  BY <1>21 DEF PostAborted, Typed, AgentTyped, PcTyped, RunTyped, CtlTyped,
       AnswerTyped, NoteTyped, PlaceTyped, Agent!Phases, Locs, Busy, Signals,
       Answers, Preflight, Over, Errors
<1>22. ASSUME NEW c \in Prompts, PostRetry(c) PROVE Typed'
  <2>1. PcTyped'
    BY <1>22 DEF PostRetry, Retryable, Omit, PcTyped, Locs, Busy, Preflight, Over,
         Typed
  <2>2. CtlTyped'
    BY <1>22 DEF PostRetry, Retryable, Omit, CtlTyped, Signals, Typed
  <2>3. AnswerTyped'
    BY <1>22 DEF PostRetry, Retryable, Omit, AnswerTyped, Answers, Errors, Typed
  <2>4. AgentTyped' /\ RunTyped' /\ NoteTyped' /\ PlaceTyped'
    BY <1>22 DEF PostRetry, Retryable, Omit, AgentTyped, RunTyped, NoteTyped,
         PlaceTyped, Typed
  <2> QED
    BY <2>1, <2>2, <2>3, <2>4 DEF Typed
<1>23. ASSUME NEW c \in Prompts, PostCheck(c) PROVE Typed'
  <2>1. PcTyped'
    BY <1>23 DEF PostCheck, Retryable, AfterRun, Errors, Compact, StartAuto, Omit,
         PcTyped, Locs, Busy, Preflight, Over, Typed
  <2>2. CtlTyped'
    BY <1>23 DEF PostCheck, Retryable, AfterRun, Errors, Compact, StartAuto, Omit,
         CtlTyped, Signals, Typed
  <2>3. AnswerTyped'
    <3>1. /\ attempt' \in {attempt, 0} /\ last' = "none" /\ UNCHANGED <<recoveries, turns>>
      BY <1>23 DEF PostCheck
    <3>2. recovered' \in BOOLEAN /\ tail' \in {tail, "other"}
      BY <1>23 DEF PostCheck, Compact, Omit, Typed, AnswerTyped
    <3> QED
      BY <3>1, <3>2 DEF Typed, AnswerTyped
  <2>4. PlaceTyped'
    BY <1>23 DEF PostCheck, Retryable, AfterRun, Errors, Compact, StartAuto, Omit,
         PlaceTyped, Typed
  <2>5. AgentTyped' /\ RunTyped' /\ NoteTyped'
    BY <1>23 DEF PostCheck, Retryable, AfterRun, Compact, StartAuto, Omit,
         AgentTyped, RunTyped, NoteTyped, Typed
  <2> QED
    BY <2>1, <2>2, <2>3, <2>4, <2>5 DEF Typed
<1>24. ASSUME NEW c \in Prompts, SleepOver(c) PROVE Typed'
  BY <1>24 DEF SleepOver, Typed, AgentTyped, PcTyped, RunTyped, CtlTyped,
       AnswerTyped, NoteTyped, PlaceTyped, Agent!Phases, Locs, Busy, Signals,
       Answers, Preflight, Over, Errors
<1>25. ASSUME NEW c \in Prompts, SleepAborted(c) PROVE Typed'
  <2>1. PcTyped'
    BY <1>25 DEF SleepAborted, Compact, AfterRun, StartAuto, Omit, PcTyped, Locs,
         Busy, Preflight, Over, Typed
  <2>2. CtlTyped'
    BY <1>25 DEF SleepAborted, Compact, AfterRun, StartAuto, Omit, CtlTyped,
         Signals, Typed
  <2>3. AnswerTyped'
    BY <1>25 DEF SleepAborted, Compact, AfterRun, StartAuto, Omit, AnswerTyped,
         Answers, Errors, Typed
  <2>4. PlaceTyped'
    BY <1>25 DEF SleepAborted, Compact, AfterRun, StartAuto, Omit, PlaceTyped,
         Typed
  <2>5. AgentTyped' /\ RunTyped' /\ NoteTyped'
    BY <1>25 DEF SleepAborted, Compact, AfterRun, StartAuto, Omit, AgentTyped,
         RunTyped, NoteTyped, Typed
  <2> QED
    BY <2>1, <2>2, <2>3, <2>4, <2>5 DEF Typed
<1>26. ASSUME NEW c \in Prompts, NEW user \in BOOLEAN, ContinueRun(c, user) PROVE Typed'
  <2>1. AgentTyped'
    BY <1>26 DEF ContinueRun, Agent!Continue, Agent!Move, AgentTyped, Agent!Phases,
         Typed
  <2>2. PcTyped'
    BY <1>26 DEF ContinueRun, Agent!Continue, Agent!Move, PcTyped, Locs, Busy,
         Preflight, Over, Typed
  <2>3. AnswerTyped'
    <3>1. /\ recovered' \in BOOLEAN /\ recoveries' \in {recoveries, 0}
          /\ tail' \in {tail, "other"} /\ UNCHANGED <<attempt, last, turns>>
      BY <1>26 DEF ContinueRun, Typed, AnswerTyped
    <3> QED
      BY <3>1 DEF Typed, AnswerTyped
  <2>4. RunTyped' /\ CtlTyped' /\ NoteTyped' /\ PlaceTyped'
    BY <1>26 DEF ContinueRun, Agent!Continue, Agent!Move, RunTyped, CtlTyped,
         NoteTyped, PlaceTyped, Typed
  <2> QED
    BY <2>1, <2>2, <2>3, <2>4 DEF Typed
<1>27. ASSUME NEW c \in Prompts, Settle(c) PROVE Typed'
  BY <1>27 DEF Settle, Typed, AgentTyped, PcTyped, RunTyped, CtlTyped,
       AnswerTyped, NoteTyped, PlaceTyped, Agent!Phases, Locs, Busy, Signals,
       Answers, Preflight, Over, Errors
<1>28. ASSUME NEW c \in Prompts, NEW m \in BOOLEAN, NEW x \in BOOLEAN, BeforeSettle(c, m, x)
      PROVE  Typed'
  <2>1. PcTyped'
    BY <1>28 DEF BeforeSettle, PcTyped, Locs, Busy, Preflight, Over, Typed
  <2>2. RunTyped'
    BY <1>28 DEF BeforeSettle, RunTyped, Typed
  <2>3. AnswerTyped'
    BY <1>28 DEF BeforeSettle, AnswerTyped, Answers, Errors, Typed
  <2>4. NoteTyped'
    BY <1>28 DEF BeforeSettle, NoteTyped, Typed
  <2>5. AgentTyped' /\ CtlTyped' /\ PlaceTyped'
    BY <1>28 DEF BeforeSettle, AgentTyped, CtlTyped, PlaceTyped, Typed
  <2> QED
    BY <2>1, <2>2, <2>3, <2>4, <2>5 DEF Typed
<1>29. ASSUME NEW c \in Prompts, Finally(c) PROVE Typed'
  <2>1. PcTyped'
    BY <1>29 DEF Finally, FlushAll, PcTyped, Locs, Busy, Preflight, Over, Typed
  <2>2. RunTyped'
    BY <1>29 DEF Finally, FlushAll, RunTyped, Typed
  <2>3. AnswerTyped'
    BY <1>29 DEF Finally, FlushAll, AnswerTyped, Answers, Errors, Typed
  <2>4. NoteTyped'
    BY <1>29 DEF Finally, FlushAll, NoteTyped, Typed
  <2>5. AgentTyped' /\ CtlTyped' /\ PlaceTyped'
    BY <1>29 DEF Finally, FlushAll, AgentTyped, CtlTyped, PlaceTyped, Typed
  <2> QED
    BY <2>1, <2>2, <2>3, <2>4, <2>5 DEF Typed
<1>30. ASSUME NEW c \in Prompts, Settled(c) PROVE Typed'
  <2>1. PcTyped'
    BY <1>30 DEF Settled, Outcome, Wake, Woken, PcTyped, Locs, Busy, Preflight, Over, Typed
  <2>2. RunTyped'
    <3>1. deferred' = <<>> /\ todo' = [todo EXCEPT ![c] = deferred] /\ settling' = FALSE
      BY <1>30 DEF Settled
    <3>2. UNCHANGED <<active, abortReq, late>>
      BY <1>30 DEF Settled
    <3>3. thrown' \subseteq Prompts /\ flushFailed' \in BOOLEAN
      BY <1>30 DEF Settled, Typed, RunTyped
    <3> QED
      BY <3>1, <3>2, <3>3, SeqFacts DEF Typed, RunTyped
  <2>3. AgentTyped' /\ CtlTyped' /\ AnswerTyped' /\ NoteTyped' /\ PlaceTyped'
    BY <1>30 DEF Settled, Outcome, Wake, Woken, AgentTyped, CtlTyped, AnswerTyped,
         NoteTyped, PlaceTyped, Typed
  <2> QED
    BY <2>1, <2>2, <2>3 DEF Typed
<1>31. ASSUME NEW c \in Prompts, RunDeferred(c) PROVE Typed'
  <2>1. AgentTyped'
    BY <1>31 DEF RunDeferred, Submit, StartRun, Input, Agent!Prompt, Agent!Move,
         AgentTyped, Agent!Phases, Typed
  <2>2. PcTyped'
    <3>1. todo[c] \in Seq(Entries) /\ todo[c] # <<>>
      BY <1>31 DEF RunDeferred, Typed, RunTyped
    <3>2. Head(todo[c]) \in Entries
      BY <3>1, SeqFacts
    <3>3. Head(todo[c]).caller \in Prompts /\ Head(todo[c]).kind \in Kinds
      BY <3>2 DEF Entries
    <3>4. pc' = pc \/ \E l \in {"running", "finally", "rejected", "input", "inputSteer", "inputQueue"} :
                        pc' = [pc EXCEPT ![Head(todo[c]).caller] = l]
      BY <1>31, <3>3 DEF RunDeferred, Submit, StartRun, Input, Kinds
    <3>5. CASE pc' = pc
      BY <3>5 DEF Typed, PcTyped
    <3>6. ASSUME NEW l \in {"running", "finally", "rejected", "input", "inputSteer", "inputQueue"},
                 pc' = [pc EXCEPT ![Head(todo[c]).caller] = l]
          PROVE  PcTyped'
      <4>1. l \in Locs \ Busy
        BY <3>6 DEF Locs, Busy, Preflight, Over
      <4> QED
        BY <3>3, <3>6, <4>1 DEF Typed, PcTyped
    <3> QED
      BY <3>4, <3>5, <3>6
  <2>3. RunTyped'
    <3>1. todo[c] \in Seq(Entries) /\ todo[c] # <<>> /\ deferred \in Seq(Entries)
      BY <1>31 DEF RunDeferred, Typed, RunTyped
    <3>2. Head(todo[c]) \in Entries /\ Tail(todo[c]) \in Seq(Entries)
      BY <3>1, SeqFacts
    <3>3. \/ deferred' = Append(deferred, Head(todo[c])) /\ todo' = [todo EXCEPT ![c] = Tail(todo[c])]
             /\ UNCHANGED <<active, abortReq>>
          \/ UNCHANGED <<deferred, todo>> /\ active' \in {active, TRUE} /\ abortReq' \in {abortReq, FALSE}
      BY <1>31 DEF RunDeferred, Submit, StartRun
    <3>4. UNCHANGED <<settling, late>>
      BY <1>31 DEF RunDeferred
    <3>5. deferred' \in Seq(Entries)
      BY <3>1, <3>2, <3>3, SeqFacts
    <3>6. todo' \in [Prompts -> Seq(Entries)]
      BY <3>2, <3>3 DEF Typed, RunTyped
    <3>7. Head(todo[c]).caller \in Prompts
      BY <3>2 DEF Entries
    <3>8. thrown' \subseteq Prompts /\ flushFailed' \in BOOLEAN
      BY <1>31, <3>7 DEF RunDeferred, Submit, StartRun, Typed, RunTyped
    <3> QED
      BY <3>3, <3>4, <3>5, <3>6, <3>8 DEF Typed, RunTyped
  <2>4. AnswerTyped'
    BY <1>31 DEF RunDeferred, Submit, StartRun, Input, Agent!Prompt, Agent!Move,
         AnswerTyped, Answers, Errors, Typed
  <2>5. CtlTyped' /\ NoteTyped' /\ PlaceTyped'
    BY <1>31 DEF RunDeferred, Submit, StartRun, Input, Agent!Prompt, Agent!Move,
         CtlTyped, NoteTyped, PlaceTyped, Typed
  <2> QED
    BY <2>1, <2>2, <2>3, <2>4, <2>5 DEF Typed
<1>32. ASSUME NEW c \in Prompts, DeferredOver(c) PROVE Typed'
  <2>1. PcTyped'
    <3>1. pc' = pc \/ (pc' \in [Callers -> Locs] /\ \A x \in Callers :
                            pc'[x] \in {pc[x], "done", "rejected", "dropped"} \/ (x = "compact" /\ pc'[x] = "resumed"))
      <4>1. CASE Wake(c, Outcome(c))
        BY <4>1 DEF Outcome, Wake, Woken, Typed, PcTyped, Locs, Busy, Over
      <4>2. CASE \E S : pc' = [x \in Callers |-> IF x = c THEN "rejected"
                                              ELSE IF x \in S THEN "dropped" ELSE Woken(x)]
        BY <4>2 DEF Woken, Typed, PcTyped, Locs, Busy, Over
      <4> QED
        BY <1>32, <4>1, <4>2 DEF DeferredOver
    <3> QED
      BY <3>1 DEF Typed, PcTyped, Busy
  <2>2. RunTyped'
    <3>1. UNCHANGED <<active, abortReq, settling, late, deferred, flushFailed>> /\ thrown' \subseteq thrown
      BY <1>32 DEF DeferredOver
    <3>2. todo' = todo \/ todo' = [todo EXCEPT ![c] = <<>>]
            \/ (todo[c] # <<>> /\ todo' = [todo EXCEPT ![c] = Tail(todo[c])])
      BY <1>32 DEF DeferredOver
    <3>3. todo[c] # <<>> => Tail(todo[c]) \in Seq(Entries)
      BY SeqFacts DEF Typed, RunTyped
    <3>4. todo' \in [Prompts -> Seq(Entries)]
      BY <3>2, <3>3, SeqFacts DEF Typed, RunTyped
    <3> QED
      BY <3>1, <3>4 DEF Typed, RunTyped
  <2>3. AgentTyped' /\ CtlTyped' /\ AnswerTyped' /\ NoteTyped' /\ PlaceTyped'
    BY <1>32 DEF DeferredOver, Outcome, Wake, Woken, AgentTyped, CtlTyped, AnswerTyped,
         NoteTyped, PlaceTyped, Typed
  <2> QED
    BY <2>1, <2>2, <2>3 DEF Typed
<1>33. ASSUME AgentRequests PROVE Typed'
  BY <1>33 DEF AgentRequests, Agent!Request, Agent!Move, Typed, AgentTyped,
       PcTyped, RunTyped, CtlTyped, AnswerTyped, NoteTyped, PlaceTyped,
       Agent!Phases, Locs, Busy, Signals, Answers, Preflight, Over, Errors
<1>34. ASSUME NEW user \in BOOLEAN, AgentTakes(user) PROVE Typed'
  BY <1>34 DEF AgentTakes, Agent!Take, Agent!Move, Typed, AgentTyped, PcTyped,
       RunTyped, CtlTyped, AnswerTyped, NoteTyped, PlaceTyped, Agent!Phases,
       Locs, Busy, Signals, Answers, Preflight, Over, Errors
<1>35. ASSUME NEW a \in Answers, NEW calls \in BOOLEAN, AgentResponds(a, calls) PROVE Typed'
  <2>1. AgentTyped'
    BY <1>35 DEF AgentResponds, Agent!Respond, Errors, Agent!FailResponse,
         Agent!Refuse, Answered, Agent!Move, AgentTyped, Agent!Phases, Typed
  <2>2. AnswerTyped'
    BY <1>35 DEF AgentResponds, Agent!Respond, Errors, Agent!FailResponse,
         Agent!Refuse, Answered, Agent!Move, AnswerTyped, Answers, Typed
  <2>3. PlaceTyped'
    BY <1>35 DEF AgentResponds, Agent!Respond, Errors, Agent!FailResponse,
         Agent!Refuse, Answered, Agent!Move, PlaceTyped, Typed
  <2>4. PcTyped' /\ RunTyped' /\ CtlTyped' /\ NoteTyped'
    BY <1>35 DEF AgentResponds, Agent!Respond, Agent!FailResponse, Agent!Refuse,
         Answered, Agent!Move, PcTyped, RunTyped, CtlTyped, NoteTyped, Typed
  <2> QED
    BY <2>1, <2>2, <2>3, <2>4 DEF Typed
<1>36. ASSUME AgentResults PROVE Typed'
  BY <1>36 DEF AgentResults, Agent!Results, Agent!Move, Typed, AgentTyped,
       PcTyped, RunTyped, CtlTyped, AnswerTyped, NoteTyped, PlaceTyped,
       Agent!Phases, Locs, Busy, Signals, Answers, Preflight, Over, Errors
<1>37. ASSUME AgentTurnEnds PROVE Typed'
  BY <1>37 DEF AgentTurnEnds, Agent!TurnEnd, FlushCustom, Agent!Move, Typed,
       AgentTyped, PcTyped, RunTyped, CtlTyped, AnswerTyped, NoteTyped,
       PlaceTyped, Agent!Phases, Locs, Busy, Signals, Answers, Preflight, Over,
       Errors
<1>38. ASSUME NEW n \in 0..1, NEW user \in BOOLEAN, AgentNextTurn(n, user) PROVE Typed'
  BY <1>38 DEF AgentNextTurn, Agent!NextTurn, StartAuto, Agent!Move, Typed,
       AgentTyped, PcTyped, RunTyped, CtlTyped, AnswerTyped, NoteTyped,
       PlaceTyped, Agent!Phases, Locs, Busy, Signals, Answers, Preflight, Over,
       Errors
<1>39. ASSUME AgentEndsRun PROVE Typed'
  BY <1>39 DEF AgentEndsRun, Agent!EndRun, FlushCustom, Agent!Move, Typed,
       AgentTyped, PcTyped, RunTyped, CtlTyped, AnswerTyped, NoteTyped,
       PlaceTyped, Agent!Phases, Locs, Busy, Signals, Answers, Preflight, Over,
       Errors
<1>40. ASSUME NEW answer \in Answers, AgentThrows(answer) PROVE Typed'
  <2>1. AgentTyped'
    BY <1>40 DEF AgentThrows, Agent!Throw, Agent!Move, Agent!Phases, AgentTyped,
         Typed
  <2>2. AnswerTyped'
    BY <1>40 DEF AgentThrows, Agent!Throw, Agent!Move, Agent!Phases, AnswerTyped,
         Answers, Errors, Typed
  <2>3. NoteTyped'
    BY <1>40 DEF AgentThrows, Agent!Throw, Agent!Move, Agent!Phases, NoteTyped,
         Typed
  <2>4. PcTyped' /\ RunTyped' /\ CtlTyped' /\ PlaceTyped'
    BY <1>40 DEF AgentThrows, Agent!Throw, Agent!Move, Agent!Phases, PcTyped,
         RunTyped, CtlTyped, PlaceTyped, Typed
  <2> QED
    BY <2>1, <2>2, <2>3, <2>4 DEF Typed
<1>41. ASSUME "compact" \in Others, StartCompaction PROVE Typed'
  BY <1>41 DEF StartCompaction, Compaction, Typed, AgentTyped, PcTyped,
       RunTyped, CtlTyped, AnswerTyped, NoteTyped, PlaceTyped, Agent!Phases,
       Locs, Busy, Signals, Answers, Preflight, Over, Errors
<1>42. ASSUME "compact" \in Others, PrepareCompaction PROVE Typed'
  BY <1>42 DEF PrepareCompaction, Compaction, Typed, AgentTyped, PcTyped,
       RunTyped, CtlTyped, AnswerTyped, NoteTyped, PlaceTyped, Agent!Phases,
       Locs, Busy, Signals, Answers, Preflight, Over, Errors
<1>43. ASSUME "compact" \in Others, SaveCompaction PROVE Typed'
  BY <1>43 DEF SaveCompaction, Compaction, Typed, AgentTyped, PcTyped,
       RunTyped, CtlTyped, AnswerTyped, NoteTyped, PlaceTyped, Agent!Phases,
       Locs, Busy, Signals, Answers, Preflight, Over, Errors
<1>44. ASSUME "compact" \in Others, FinishCompaction PROVE Typed'
  <2>1. PcTyped'
    BY <1>44 DEF FinishCompaction, EndCompaction, Wake, Woken, PcTyped, Locs, Busy,
         Preflight, Over, Typed
  <2>2. CtlTyped'
    BY <1>44 DEF FinishCompaction, EndCompaction, Wake, Woken, CtlTyped, Signals,
         Typed
  <2>3. AgentTyped' /\ RunTyped' /\ AnswerTyped' /\ NoteTyped' /\ PlaceTyped'
    BY <1>44 DEF FinishCompaction, EndCompaction, Wake, Woken, AgentTyped,
         RunTyped, AnswerTyped, NoteTyped, PlaceTyped, Typed
  <2> QED
    BY <2>1, <2>2, <2>3 DEF Typed
<1>45. ASSUME "navigate" \in Others, MoveLeaf PROVE Typed'
  BY <1>45 DEF MoveLeaf, Typed, AgentTyped, PcTyped, RunTyped, CtlTyped,
       AnswerTyped, NoteTyped, PlaceTyped, Agent!Phases, Locs, Busy, Signals,
       Answers, Preflight, Over, Errors
<1>46. ASSUME "navigate" \in Others, FinishNavigate PROVE Typed'
  BY <1>46 DEF FinishNavigate, Wake, Woken, Typed, AgentTyped, PcTyped,
       RunTyped, CtlTyped, AnswerTyped, NoteTyped, PlaceTyped, Agent!Phases,
       Locs, Busy, Signals, Answers, Preflight, Over, Errors
<1>47. ASSUME UNCHANGED vars PROVE Typed'
  BY <1>47 DEF vars, Typed, AgentTyped, PcTyped, RunTyped, CtlTyped,
       AnswerTyped, NoteTyped, PlaceTyped, Agent!Phases, Locs, Busy, Signals,
       Answers, Preflight, Over, Errors
<1>48. ASSUME NEW c \in Prompts, NEW n \in 1..MaxNotes, FlushThrows(c, n) PROVE Typed'
  <2>1. PcTyped'
    BY <1>48 DEF FlushThrows, PcTyped, Locs, Busy, Preflight, Over, Typed
  <2>2. RunTyped'
    BY <1>48 DEF FlushThrows, RunTyped, Typed
  <2>3. AnswerTyped'
    BY <1>48 DEF FlushThrows, AnswerTyped, Answers, Errors, Typed
  <2>4. NoteTyped'
    BY <1>48 DEF FlushThrows, NoteTyped, Typed
  <2>5. AgentTyped' /\ CtlTyped' /\ PlaceTyped'
    BY <1>48 DEF FlushThrows, AgentTyped, CtlTyped, PlaceTyped, Typed
  <2> QED
    BY <2>1, <2>2, <2>3, <2>4, <2>5 DEF Typed
<1> QED
  BY <1>1, <1>2, <1>3, <1>4, <1>5, <1>6, <1>7, <1>8, <1>9, <1>10, <1>11, <1>12,
       <1>13, <1>14, <1>15, <1>16, <1>17, <1>18, <1>19, <1>20, <1>21, <1>22,
       <1>23, <1>24, <1>25, <1>26, <1>27, <1>28, <1>29, <1>30, <1>31, <1>32,
       <1>33, <1>34, <1>35, <1>36, <1>37, <1>38, <1>39, <1>40, <1>41, <1>42,
       <1>43, <1>44, <1>45, <1>46, <1>47, <1>48
     DEF Next, Client, CallPrompt, Serve, AgentStep, CompactStep, TreeStep

(* What submitting a call changes, at once or later: its caller is in the  *)
(* preflight or refused; or a run begins; or the agent already runs.       *)
SubmitEffect(x) ==
    /\ UNCHANGED <<auto, autoSig, manual, tree, retry, recovered, recoveries>>
    /\ \A y \in Callers \ {x} : pc'[y] = pc[y]
    /\ \/ /\ pc'[x] \in {"rejected", "input", "inputSteer", "inputQueue"}
          /\ phase' = phase /\ active' = active
       \/ pc'[x] = "running" /\ phase = "idle" /\ phase' = "turn" /\ active' = TRUE
       \/ pc'[x] = "finally" /\ phase # "idle" /\ phase' = phase /\ active' = TRUE

(* Submitting a call has that effect.                                      *)
LEMMA SubmitChanges ==
  ASSUME Typed, NEW x \in Prompts, NEW kind \in Kinds, Submit(x, kind), UNCHANGED ctlVars
  PROVE  SubmitEffect(x)
<1>1. CASE kind = "trigger"
  BY <1>1 DEF Submit, StartRun, Agent!Prompt, Agent!Move, SubmitEffect, At, agentVars, ctlVars,
       Callers, Typed, AnswerTyped, PcTyped
<1>2. CASE kind # "trigger"
  <2>1. Input[kind] \in {"input", "inputSteer", "inputQueue"}
    BY <1>2 DEF Kinds, Input
  <2> QED
    BY <1>2, <2>1 DEF Submit, SubmitEffect, At, agentVars, ctlVars, Callers, Typed, PcTyped
<1> QED
  BY <1>1, <1>2

(* A call that is not deferred is submitted.                               *)
LEMMA CallChanges ==
  ASSUME Typed, NEW c \in Prompts, NEW kind \in Kinds, CallSubmitted(c, kind)
  PROVE  pc[c] = "new" /\ SubmitEffect(c)
BY SubmitChanges DEF CallSubmitted, Calls, ctlVars

(* A deferred action is put off once more, or submitted.                   *)
LEMMA RunDeferredChanges ==
  ASSUME Typed, NEW c \in Prompts, RunDeferred(c)
  PROVE  \/ UNCHANGED <<pc, phase, active, recovered, recoveries, auto, autoSig, manual, tree, retry>>
         \/ \E x \in Prompts : pc[x] = "deferred" /\ SubmitEffect(x)
<1>1. todo[c] \in Seq(Entries) /\ todo[c] # <<>>
  BY DEF RunDeferred, Typed, RunTyped
<1>2. Head(todo[c]) \in Entries
  BY <1>1, SeqFacts
<1>3. Head(todo[c]).caller \in Prompts /\ Head(todo[c]).kind \in Kinds
  BY <1>2 DEF Entries
<1>4. CASE Submit(Head(todo[c]).caller, Head(todo[c]).kind)
  BY <1>3, <1>4, SubmitChanges DEF RunDeferred, ctlVars
<1>5. CASE UNCHANGED <<agentVars, pc, active, abortReq, thrown, answerVars>>
  BY <1>5 DEF RunDeferred, agentVars, answerVars, ctlVars
<1> QED
  BY <1>4, <1>5 DEF RunDeferred

(* A list of deferred actions is done, or goes on; if one fails, the calls *)
(* behind it are dropped.                                                  *)
LEMMA DeferredOverChanges ==
  ASSUME Typed, DeferInv, NEW c \in Prompts, DeferredOver(c)
  PROVE  /\ UNCHANGED <<phase, active, recovered, recoveries, auto, autoSig, manual, tree, retry>>
         /\ \A x \in Prompts :
               pc'[x] = pc[x] \/ (pc[x] \in {"draining", "deferred"} /\ pc'[x] \in {"done", "rejected", "dropped"})
<1> USE Names DEF Callers, ctlVars
<1>1. UNCHANGED <<phase, active, recovered, recoveries, auto, autoSig, manual, tree, retry>>
  BY DEF DeferredOver, agentVars, answerVars, ctlVars
<1>2. CASE Wake(c, Outcome(c))
  BY <1>1, <1>2 DEF DeferredOver, Outcome, Wake, Woken, Typed, PcTyped, Busy
<1>3. CASE UNCHANGED pc
  BY <1>1, <1>3
<1>4. CASE /\ todo[c] # <<>>
           /\ pc' = [x \in Callers |-> IF x = c THEN "rejected"
                                       ELSE IF x \in {a.caller : a \in Range(Tail(todo[c]))} THEN "dropped"
                                       ELSE Woken(x)]
  <2>1. ASSUME NEW a \in Range(Tail(todo[c])) PROVE pc[a.caller] = "deferred"
    <3>1. todo[c] \in Seq(Entries)
      BY DEF Typed, RunTyped
    <3>2. PICK i \in DOMAIN Tail(todo[c]) : a = Tail(todo[c])[i]
      BY DEF Range
    <3>3. i + 1 \in 2..Len(todo[c]) /\ a = todo[c][i + 1]
      BY <1>4, <3>1, <3>2
    <3> QED
      BY <3>3 DEF DeferInv, Waiting, OnePlace
  <2>2. \A x \in Prompts : x # c /\ x \in {a.caller : a \in Range(Tail(todo[c]))} => pc[x] = "deferred" /\ pc'[x] = "dropped"
    BY <1>4, <2>1
  <2>3. \A x \in Prompts : x # c /\ x \notin {a.caller : a \in Range(Tail(todo[c]))} => pc'[x] = pc[x]
    BY <1>4 DEF Woken, Typed, PcTyped, Busy
  <2>4. pc[c] = "draining" /\ pc'[c] = "rejected"
    BY <1>4 DEF DeferredOver
  <2> QED
    BY <1>1, <2>2, <2>3, <2>4
<1> QED
  BY <1>2, <1>3, <1>4 DEF DeferredOver

(* An automatic compaction returns to the preflight or to the run.         *)
LEMMA FinishAutoChanges ==
  ASSUME Typed, SigInv, NEW r \in Runners, FinishAuto(r)
  PROVE  /\ UNCHANGED <<phase, active, retry, recovered>>
         /\ autoSig' = [autoSig EXCEPT ![r] = "none"] /\ auto' = (IF auto = r THEN None ELSE auto)
         /\ \A x \in Prompts \ {r} : pc'[x] = pc[x]
         /\ recoveries' = recoveries \/ (r \in Prompts /\ pc[r] = "recovery" /\ recoveries' = recoveries + 1)
         /\ r \in Prompts =>
               \/ (pc[r] = "precompact" /\ pc'[r] = "beforeStart")
               \/ (pc[r] \in {"postcompact", "recovery"} /\ pc'[r] \in {"continue", "settle"})
<1> USE Names DEF Callers, Runners
<1>1. /\ UNCHANGED <<phase, active, retry, recovered>>
      /\ autoSig' = [autoSig EXCEPT ![r] = "none"] /\ auto' = (IF auto = r THEN None ELSE auto)
  BY DEF FinishAuto, agentVars
<1>2. \A x \in Prompts \ {r} : pc'[x] = pc[x]
  BY DEF FinishAuto, Wake, Woken, Typed, PcTyped, Busy
<1>3. recoveries' = recoveries \/ (r \in Prompts /\ pc[r] = "recovery" /\ recoveries' = recoveries + 1)
  BY DEF FinishAuto
<1>4. ASSUME r \in Prompts
      PROVE  \/ (pc[r] = "precompact" /\ pc'[r] = "beforeStart")
             \/ (pc[r] \in {"postcompact", "recovery"} /\ pc'[r] \in {"continue", "settle"})
  <2>1. pc[r] \in {"precompact", "postcompact", "recovery"}
    BY <1>4 DEF FinishAuto, SigInv
  <2> QED
    BY <1>4, <2>1 DEF FinishAuto, Wake, AfterRun
<1> QED
  BY <1>1, <1>2, <1>3, <1>4

(* What waits is appended when the run is over and nothing waits after it. *)
LEMMA PendingStep ==
  ASSUME Typed, NothingLeftPending, [Next]_vars
  PROVE  NothingLeftPending'
<1> USE Names DEF Callers, Runners, At, agentVars, runVars, ctlVars, answerVars, noteVars, placeVars
<1>1. ASSUME NEW c \in Prompts, CallQueued(c) PROVE NothingLeftPending'
  BY <1>1 DEF CallQueued, Calls, Agent!Enqueue, Busy, NothingLeftPending,
       Typed, NoteTyped
<1>2. ASSUME NEW c \in Prompts, NEW kind \in Kinds, CallDeferred(c, kind)
      PROVE  NothingLeftPending'
  BY <1>2 DEF CallDeferred, Calls, Busy, NothingLeftPending, Typed, NoteTyped
<1>3. ASSUME NEW c \in Prompts, NEW kind \in Kinds, CallSubmitted(c, kind)
      PROVE  NothingLeftPending'
  BY <1>3 DEF CallSubmitted, Calls, Submit, StartRun, Input, Busy,
       Agent!Prompt, Agent!Move, NothingLeftPending, Typed, NoteTyped
<1>4. ASSUME CallAbort PROVE NothingLeftPending'
  BY <1>4 DEF CallAbort, AbortAll, AbortSignal, NothingLeftPending, Typed,
       NoteTyped
<1>5. ASSUME CallCompact PROVE NothingLeftPending'
  BY <1>5 DEF CallCompact, AbortAll, Busy, AbortSignal, NothingLeftPending,
       Typed, NoteTyped
<1>6. ASSUME CallNavigate PROVE NothingLeftPending'
  BY <1>6 DEF CallNavigate, Busy, NothingLeftPending, Typed, NoteTyped
<1>7. ASSUME AbortRetry PROVE NothingLeftPending'
  BY <1>7 DEF AbortRetry, NothingLeftPending, Typed, NoteTyped
<1>8. ASSUME AbortCompaction PROVE NothingLeftPending'
  BY <1>8 DEF AbortCompaction, AbortSignal, NothingLeftPending, Typed,
       NoteTyped
<1>9. ASSUME RecordBash PROVE NothingLeftPending'
  BY <1>9 DEF RecordBash, Sent, NothingLeftPending, Typed, NoteTyped
<1>10. ASSUME SendCustom PROVE NothingLeftPending'
  BY <1>10 DEF SendCustom, Sent, NothingLeftPending, Typed, NoteTyped
<1>11. ASSUME ClearQueue PROVE NothingLeftPending'
  BY <1>11 DEF ClearQueue, Agent!Clear, NothingLeftPending, Typed, NoteTyped
<1>12. ASSUME NEW c \in Prompts, QueueInput(c) PROVE NothingLeftPending'
  BY <1>12 DEF QueueInput, Agent!Enqueue, NothingLeftPending, Typed, NoteTyped
<1>13. ASSUME NEW c \in Prompts, InputHandled(c) PROVE NothingLeftPending'
  BY <1>13 DEF InputHandled, NothingLeftPending, Typed, NoteTyped
<1>14. ASSUME NEW c \in Prompts, InputPasses(c) PROVE NothingLeftPending'
  BY <1>14 DEF InputPasses, FlushAll, NothingLeftPending, Typed, NoteTyped
<1>15. ASSUME NEW c \in Prompts, CheckAuth(c) PROVE NothingLeftPending'
  BY <1>15 DEF CheckAuth, Compact, StartAuto, Omit, NothingLeftPending, Typed,
       NoteTyped
<1>16. ASSUME NEW c \in Prompts, RefuseStart(c) PROVE NothingLeftPending'
  BY <1>16 DEF RefuseStart, NothingLeftPending, Typed, NoteTyped
<1>17. ASSUME NEW c \in Prompts, BeforeStart(c) PROVE NothingLeftPending'
  BY <1>17 DEF BeforeStart, StartRun, Agent!Prompt, Agent!Move,
       NothingLeftPending, Typed, NoteTyped
<1>18. ASSUME NEW r \in Runners, SaveAuto(r) PROVE NothingLeftPending'
  BY <1>18 DEF SaveAuto, NothingLeftPending, Typed, NoteTyped
<1>19. ASSUME NEW r \in Runners, FinishAuto(r) PROVE NothingLeftPending'
  BY <1>19 DEF FinishAuto, Wake, AfterRun, Woken, NothingLeftPending, Typed,
       NoteTyped
<1>20. ASSUME NEW c \in Prompts, AgentFinishes(c) PROVE NothingLeftPending'
  BY <1>20 DEF AgentFinishes, Agent!Finish, NothingLeftPending, Typed,
       NoteTyped
<1>21. ASSUME NEW c \in Prompts, PostAborted(c) PROVE NothingLeftPending'
  BY <1>21 DEF PostAborted, NothingLeftPending, Typed, NoteTyped
<1>22. ASSUME NEW c \in Prompts, PostRetry(c) PROVE NothingLeftPending'
  BY <1>22 DEF PostRetry, Retryable, Omit, NothingLeftPending, Typed, NoteTyped
<1>23. ASSUME NEW c \in Prompts, PostCheck(c) PROVE NothingLeftPending'
  BY <1>23 DEF PostCheck, Retryable, AfterRun, Errors, Compact, StartAuto,
       Omit, NothingLeftPending, Typed, NoteTyped
<1>24. ASSUME NEW c \in Prompts, SleepOver(c) PROVE NothingLeftPending'
  BY <1>24 DEF SleepOver, NothingLeftPending, Typed, NoteTyped
<1>25. ASSUME NEW c \in Prompts, SleepAborted(c) PROVE NothingLeftPending'
  BY <1>25 DEF SleepAborted, Compact, AfterRun, StartAuto, Omit,
       NothingLeftPending, Typed, NoteTyped
<1>26. ASSUME NEW c \in Prompts, NEW user \in BOOLEAN, ContinueRun(c, user)
      PROVE  NothingLeftPending'
  BY <1>26 DEF ContinueRun, Agent!Continue, Agent!Move, NothingLeftPending,
       Typed, NoteTyped
<1>27. ASSUME NEW c \in Prompts, Settle(c) PROVE NothingLeftPending'
  BY <1>27 DEF Settle, NothingLeftPending, Typed, NoteTyped
<1>28. ASSUME NEW c \in Prompts, NEW m \in BOOLEAN, NEW x \in BOOLEAN, BeforeSettle(c, m, x)
      PROVE  NothingLeftPending'
  BY <1>28 DEF BeforeSettle, NothingLeftPending, Typed, NoteTyped
<1>29. ASSUME NEW c \in Prompts, Finally(c) PROVE NothingLeftPending'
  BY <1>29 DEF Finally, FlushAll, NothingLeftPending, Typed, NoteTyped
<1>30. ASSUME NEW c \in Prompts, Settled(c) PROVE NothingLeftPending'
  BY <1>30 DEF Settled, Outcome, Wake, Woken, NothingLeftPending, Typed, NoteTyped
<1>31. ASSUME NEW c \in Prompts, RunDeferred(c) PROVE NothingLeftPending'
  BY <1>31 DEF RunDeferred, Submit, StartRun, Input, Agent!Prompt, Agent!Move,
       NothingLeftPending, Typed, NoteTyped
<1>32. ASSUME NEW c \in Prompts, DeferredOver(c) PROVE NothingLeftPending'
  BY <1>32 DEF DeferredOver, Outcome, Wake, Woken, NothingLeftPending, Typed, NoteTyped
<1>33. ASSUME AgentRequests PROVE NothingLeftPending'
  BY <1>33 DEF AgentRequests, Agent!Request, Agent!Move, NothingLeftPending,
       Typed, NoteTyped
<1>34. ASSUME NEW user \in BOOLEAN, AgentTakes(user) PROVE NothingLeftPending'
  BY <1>34 DEF AgentTakes, Agent!Take, Agent!Move, NothingLeftPending, Typed,
       NoteTyped
<1>35. ASSUME NEW a \in Answers, NEW calls \in BOOLEAN, AgentResponds(a, calls)
      PROVE  NothingLeftPending'
  BY <1>35 DEF AgentResponds, Agent!Respond, Errors, Agent!FailResponse,
       Agent!Refuse, Answered, Agent!Move, NothingLeftPending, Typed, NoteTyped
<1>36. ASSUME AgentResults PROVE NothingLeftPending'
  BY <1>36 DEF AgentResults, Agent!Results, Agent!Move, NothingLeftPending,
       Typed, NoteTyped
<1>37. ASSUME AgentTurnEnds PROVE NothingLeftPending'
  BY <1>37 DEF AgentTurnEnds, Agent!TurnEnd, FlushCustom, Agent!Move,
       NothingLeftPending, Typed, NoteTyped
<1>38. ASSUME NEW n \in 0..1, NEW user \in BOOLEAN, AgentNextTurn(n, user) PROVE NothingLeftPending'
  BY <1>38 DEF AgentNextTurn, Agent!NextTurn, StartAuto, Agent!Move,
       NothingLeftPending, Typed, NoteTyped
<1>39. ASSUME AgentEndsRun PROVE NothingLeftPending'
  BY <1>39 DEF AgentEndsRun, Agent!EndRun, FlushCustom, Agent!Move,
       NothingLeftPending, Typed, NoteTyped
<1>40. ASSUME NEW answer \in Answers, AgentThrows(answer) PROVE NothingLeftPending'
  BY <1>40 DEF AgentThrows, Agent!Throw, Agent!Move, NothingLeftPending, Typed,
       NoteTyped
<1>41. ASSUME "compact" \in Others, StartCompaction PROVE NothingLeftPending'
  BY <1>41 DEF StartCompaction, Compaction, NothingLeftPending, Typed,
       NoteTyped
<1>42. ASSUME "compact" \in Others, PrepareCompaction PROVE NothingLeftPending'
  BY <1>42 DEF PrepareCompaction, Compaction, NothingLeftPending, Typed,
       NoteTyped
<1>43. ASSUME "compact" \in Others, SaveCompaction PROVE NothingLeftPending'
  BY <1>43 DEF SaveCompaction, Compaction, NothingLeftPending, Typed, NoteTyped
<1>44. ASSUME "compact" \in Others, FinishCompaction PROVE NothingLeftPending'
  BY <1>44 DEF FinishCompaction, EndCompaction, Wake, Woken,
       NothingLeftPending, Typed, NoteTyped
<1>45. ASSUME "navigate" \in Others, MoveLeaf PROVE NothingLeftPending'
  BY <1>45 DEF MoveLeaf, NothingLeftPending, Typed, NoteTyped
<1>46. ASSUME "navigate" \in Others, FinishNavigate PROVE NothingLeftPending'
  BY <1>46 DEF FinishNavigate, Wake, Woken, NothingLeftPending, Typed,
       NoteTyped
<1>47. ASSUME UNCHANGED vars PROVE NothingLeftPending'
  BY <1>47 DEF vars, NothingLeftPending, Typed, NoteTyped
<1>48. ASSUME NEW c \in Prompts, NEW n \in 1..MaxNotes, FlushThrows(c, n) PROVE NothingLeftPending'
  BY <1>48 DEF FlushThrows, NothingLeftPending, Typed, NoteTyped
<1> QED
  BY <1>1, <1>2, <1>3, <1>4, <1>5, <1>6, <1>7, <1>8, <1>9, <1>10, <1>11, <1>12,
       <1>13, <1>14, <1>15, <1>16, <1>17, <1>18, <1>19, <1>20, <1>21, <1>22,
       <1>23, <1>24, <1>25, <1>26, <1>27, <1>28, <1>29, <1>30, <1>31, <1>32,
       <1>33, <1>34, <1>35, <1>36, <1>37, <1>38, <1>39, <1>40, <1>41, <1>42,
       <1>43, <1>44, <1>45, <1>46, <1>47, <1>48
     DEF Next, Client, CallPrompt, Serve, AgentStep, CompactStep, TreeStep

(* A prompt has a compaction of its own exactly while it waits for it.     *)
LEMMA SigStep ==
  ASSUME Typed, DeferInv, SigInv, [Next]_vars
  PROVE  SigInv'
<1> USE Names DEF Callers, Runners, At, agentVars, runVars, ctlVars, answerVars, noteVars, placeVars
<1>1. ASSUME NEW c \in Prompts, CallQueued(c) PROVE SigInv'
  BY <1>1 DEF CallQueued, Calls, Agent!Enqueue, Busy, SigInv, Typed, PcTyped,
       CtlTyped
<1>2. ASSUME NEW c \in Prompts, NEW kind \in Kinds, CallDeferred(c, kind) PROVE SigInv'
  BY <1>2 DEF CallDeferred, Calls, Busy, SigInv, Typed, PcTyped, CtlTyped
<1>3. ASSUME NEW c \in Prompts, NEW kind \in Kinds, CallSubmitted(c, kind) PROVE SigInv'
  BY <1>3, CallChanges DEF SigInv, Typed, PcTyped, CtlTyped, SubmitEffect
<1>4. ASSUME CallAbort PROVE SigInv'
  BY <1>4 DEF CallAbort, AbortAll, AbortSignal, SigInv, Typed, PcTyped,
       CtlTyped
<1>5. ASSUME CallCompact PROVE SigInv'
  BY <1>5 DEF CallCompact, AbortAll, Busy, AbortSignal, SigInv, Typed, PcTyped,
       CtlTyped
<1>6. ASSUME CallNavigate PROVE SigInv'
  BY <1>6 DEF CallNavigate, Busy, SigInv, Typed, PcTyped, CtlTyped
<1>7. ASSUME AbortRetry PROVE SigInv'
  BY <1>7 DEF AbortRetry, SigInv, Typed, PcTyped, CtlTyped
<1>8. ASSUME AbortCompaction PROVE SigInv'
  BY <1>8 DEF AbortCompaction, AbortSignal, SigInv, Typed, PcTyped, CtlTyped
<1>9. ASSUME RecordBash PROVE SigInv'
  BY <1>9 DEF RecordBash, Sent, SigInv, Typed, PcTyped, CtlTyped
<1>10. ASSUME SendCustom PROVE SigInv'
  BY <1>10 DEF SendCustom, Sent, SigInv, Typed, PcTyped, CtlTyped
<1>11. ASSUME ClearQueue PROVE SigInv'
  BY <1>11 DEF ClearQueue, Agent!Clear, SigInv, Typed, PcTyped, CtlTyped
<1>12. ASSUME NEW c \in Prompts, QueueInput(c) PROVE SigInv'
  BY <1>12 DEF QueueInput, Agent!Enqueue, SigInv, Typed, PcTyped, CtlTyped
<1>13. ASSUME NEW c \in Prompts, InputHandled(c) PROVE SigInv'
  BY <1>13 DEF InputHandled, SigInv, Typed, PcTyped, CtlTyped
<1>14. ASSUME NEW c \in Prompts, InputPasses(c) PROVE SigInv'
  BY <1>14 DEF InputPasses, FlushAll, SigInv, Typed, PcTyped, CtlTyped
<1>15. ASSUME NEW c \in Prompts, CheckAuth(c) PROVE SigInv'
  BY <1>15 DEF CheckAuth, Compact, StartAuto, Omit, SigInv, Typed, PcTyped,
       CtlTyped
<1>16. ASSUME NEW c \in Prompts, RefuseStart(c) PROVE SigInv'
  BY <1>16 DEF RefuseStart, SigInv, Typed, PcTyped, CtlTyped
<1>17. ASSUME NEW c \in Prompts, BeforeStart(c) PROVE SigInv'
  BY <1>17 DEF BeforeStart, StartRun, Agent!Prompt, Agent!Move, SigInv, Typed,
       PcTyped, CtlTyped
<1>18. ASSUME NEW r \in Runners, SaveAuto(r) PROVE SigInv'
  BY <1>18 DEF SaveAuto, SigInv, Typed, PcTyped, CtlTyped
<1>19. ASSUME NEW r \in Runners, FinishAuto(r) PROVE SigInv'
  BY <1>19, FinishAutoChanges DEF SigInv, Typed, PcTyped, CtlTyped
<1>20. ASSUME NEW c \in Prompts, AgentFinishes(c) PROVE SigInv'
  BY <1>20 DEF AgentFinishes, Agent!Finish, SigInv, Typed, PcTyped, CtlTyped
<1>21. ASSUME NEW c \in Prompts, PostAborted(c) PROVE SigInv'
  BY <1>21 DEF PostAborted, SigInv, Typed, PcTyped, CtlTyped
<1>22. ASSUME NEW c \in Prompts, PostRetry(c) PROVE SigInv'
  BY <1>22 DEF PostRetry, Retryable, Omit, SigInv, Typed, PcTyped, CtlTyped
<1>23. ASSUME NEW c \in Prompts, PostCheck(c) PROVE SigInv'
  BY <1>23 DEF PostCheck, Retryable, AfterRun, Errors, Compact, StartAuto,
       Omit, SigInv, Typed, PcTyped, CtlTyped
<1>24. ASSUME NEW c \in Prompts, SleepOver(c) PROVE SigInv'
  BY <1>24 DEF SleepOver, SigInv, Typed, PcTyped, CtlTyped
<1>25. ASSUME NEW c \in Prompts, SleepAborted(c) PROVE SigInv'
  BY <1>25 DEF SleepAborted, Compact, AfterRun, StartAuto, Omit, SigInv, Typed,
       PcTyped, CtlTyped
<1>26. ASSUME NEW c \in Prompts, NEW user \in BOOLEAN, ContinueRun(c, user) PROVE SigInv'
  BY <1>26 DEF ContinueRun, Agent!Continue, Agent!Move, SigInv, Typed, PcTyped,
       CtlTyped
<1>27. ASSUME NEW c \in Prompts, Settle(c) PROVE SigInv'
  BY <1>27 DEF Settle, SigInv, Typed, PcTyped, CtlTyped
<1>28. ASSUME NEW c \in Prompts, NEW m \in BOOLEAN, NEW x \in BOOLEAN, BeforeSettle(c, m, x)
      PROVE  SigInv'
  BY <1>28 DEF BeforeSettle, SigInv, Typed, PcTyped, CtlTyped
<1>29. ASSUME NEW c \in Prompts, Finally(c) PROVE SigInv'
  BY <1>29 DEF Finally, FlushAll, SigInv, Typed, PcTyped, CtlTyped
<1>30. ASSUME NEW c \in Prompts, Settled(c) PROVE SigInv'
  BY <1>30 DEF Settled, Outcome, Wake, Woken, SigInv, Typed, PcTyped, CtlTyped
<1>31. ASSUME NEW c \in Prompts, RunDeferred(c) PROVE SigInv'
  BY <1>31, RunDeferredChanges DEF SigInv, Typed, PcTyped, CtlTyped, SubmitEffect
<1>32. ASSUME NEW c \in Prompts, DeferredOver(c) PROVE SigInv'
  BY <1>32, DeferredOverChanges DEF SigInv, Typed, PcTyped, CtlTyped
<1>33. ASSUME AgentRequests PROVE SigInv'
  BY <1>33 DEF AgentRequests, Agent!Request, Agent!Move, SigInv, Typed,
       PcTyped, CtlTyped
<1>34. ASSUME NEW user \in BOOLEAN, AgentTakes(user) PROVE SigInv'
  BY <1>34 DEF AgentTakes, Agent!Take, Agent!Move, SigInv, Typed, PcTyped,
       CtlTyped
<1>35. ASSUME NEW a \in Answers, NEW calls \in BOOLEAN, AgentResponds(a, calls) PROVE SigInv'
  BY <1>35 DEF AgentResponds, Agent!Respond, Errors, Agent!FailResponse,
       Agent!Refuse, Answered, Agent!Move, SigInv, Typed, PcTyped, CtlTyped
<1>36. ASSUME AgentResults PROVE SigInv'
  BY <1>36 DEF AgentResults, Agent!Results, Agent!Move, SigInv, Typed, PcTyped,
       CtlTyped
<1>37. ASSUME AgentTurnEnds PROVE SigInv'
  BY <1>37 DEF AgentTurnEnds, Agent!TurnEnd, FlushCustom, Agent!Move, SigInv,
       Typed, PcTyped, CtlTyped
<1>38. ASSUME NEW n \in 0..1, NEW user \in BOOLEAN, AgentNextTurn(n, user) PROVE SigInv'
  BY <1>38 DEF AgentNextTurn, Agent!NextTurn, StartAuto, Agent!Move, SigInv,
       Typed, PcTyped, CtlTyped
<1>39. ASSUME AgentEndsRun PROVE SigInv'
  BY <1>39 DEF AgentEndsRun, Agent!EndRun, FlushCustom, Agent!Move, SigInv,
       Typed, PcTyped, CtlTyped
<1>40. ASSUME NEW answer \in Answers, AgentThrows(answer) PROVE SigInv'
  BY <1>40 DEF AgentThrows, Agent!Throw, Agent!Move, SigInv, Typed, PcTyped,
       CtlTyped
<1>41. ASSUME "compact" \in Others, StartCompaction PROVE SigInv'
  BY <1>41 DEF StartCompaction, Compaction, SigInv, Typed, PcTyped, CtlTyped
<1>42. ASSUME "compact" \in Others, PrepareCompaction PROVE SigInv'
  BY <1>42 DEF PrepareCompaction, Compaction, SigInv, Typed, PcTyped, CtlTyped
<1>43. ASSUME "compact" \in Others, SaveCompaction PROVE SigInv'
  BY <1>43 DEF SaveCompaction, Compaction, SigInv, Typed, PcTyped, CtlTyped
<1>44. ASSUME "compact" \in Others, FinishCompaction PROVE SigInv'
  BY <1>44 DEF FinishCompaction, EndCompaction, Wake, Woken, SigInv, Typed,
       PcTyped, CtlTyped
<1>45. ASSUME "navigate" \in Others, MoveLeaf PROVE SigInv'
  BY <1>45 DEF MoveLeaf, SigInv, Typed, PcTyped, CtlTyped
<1>46. ASSUME "navigate" \in Others, FinishNavigate PROVE SigInv'
  BY <1>46 DEF FinishNavigate, Wake, Woken, SigInv, Typed, PcTyped, CtlTyped
<1>47. ASSUME UNCHANGED vars PROVE SigInv'
  BY <1>47 DEF vars, SigInv, Typed, PcTyped, CtlTyped
<1>48. ASSUME NEW c \in Prompts, NEW n \in 1..MaxNotes, FlushThrows(c, n) PROVE SigInv'
  BY <1>48 DEF FlushThrows, SigInv, Typed, PcTyped, CtlTyped
<1> QED
  BY <1>1, <1>2, <1>3, <1>4, <1>5, <1>6, <1>7, <1>8, <1>9, <1>10, <1>11, <1>12,
       <1>13, <1>14, <1>15, <1>16, <1>17, <1>18, <1>19, <1>20, <1>21, <1>22,
       <1>23, <1>24, <1>25, <1>26, <1>27, <1>28, <1>29, <1>30, <1>31, <1>32,
       <1>33, <1>34, <1>35, <1>36, <1>37, <1>38, <1>39, <1>40, <1>41, <1>42,
       <1>43, <1>44, <1>45, <1>46, <1>47, <1>48
     DEF Next, Client, CallPrompt, Serve, AgentStep, CompactStep, TreeStep

(* The agent runs exactly while a prompt waits for it.                     *)
LEMMA PhaseStep ==
  ASSUME Typed, DeferInv, SigInv, OneStarter, PhaseInv, [Next]_vars
  PROVE  PhaseInv'
<1> USE Names DEF Callers, Runners, At, agentVars, runVars, ctlVars, answerVars, noteVars, placeVars
<1>1. ASSUME NEW c \in Prompts, CallQueued(c) PROVE PhaseInv'
  BY <1>1 DEF CallQueued, Calls, Agent!Enqueue, Busy, PhaseInv, OneStarter,
       Typed, Committed, Starting, RunLocs, PcTyped
<1>2. ASSUME NEW c \in Prompts, NEW kind \in Kinds, CallDeferred(c, kind) PROVE PhaseInv'
  BY <1>2 DEF CallDeferred, Calls, Busy, PhaseInv, OneStarter, Typed,
       Committed, Starting, RunLocs, PcTyped
<1>3. ASSUME NEW c \in Prompts, NEW kind \in Kinds, CallSubmitted(c, kind) PROVE PhaseInv'
  BY <1>3, CallChanges DEF PhaseInv, Typed, PcTyped, OneStarter, Committed,
       Starting, RunLocs, SubmitEffect
<1>4. ASSUME CallAbort PROVE PhaseInv'
  BY <1>4 DEF CallAbort, AbortAll, AbortSignal, PhaseInv, OneStarter, Typed,
       Committed, Starting, RunLocs, PcTyped
<1>5. ASSUME CallCompact PROVE PhaseInv'
  BY <1>5 DEF CallCompact, AbortAll, Busy, AbortSignal, PhaseInv, OneStarter,
       Typed, Committed, Starting, RunLocs, PcTyped
<1>6. ASSUME CallNavigate PROVE PhaseInv'
  BY <1>6 DEF CallNavigate, Busy, PhaseInv, OneStarter, Typed, Committed,
       Starting, RunLocs, PcTyped
<1>7. ASSUME AbortRetry PROVE PhaseInv'
  BY <1>7 DEF AbortRetry, PhaseInv, OneStarter, Typed, Committed, Starting,
       RunLocs, PcTyped
<1>8. ASSUME AbortCompaction PROVE PhaseInv'
  BY <1>8 DEF AbortCompaction, AbortSignal, PhaseInv, OneStarter, Typed,
       Committed, Starting, RunLocs, PcTyped
<1>9. ASSUME RecordBash PROVE PhaseInv'
  BY <1>9 DEF RecordBash, Sent, PhaseInv, OneStarter, Typed, Committed,
       Starting, RunLocs, PcTyped
<1>10. ASSUME SendCustom PROVE PhaseInv'
  BY <1>10 DEF SendCustom, Sent, PhaseInv, OneStarter, Typed, Committed,
       Starting, RunLocs, PcTyped
<1>11. ASSUME ClearQueue PROVE PhaseInv'
  BY <1>11 DEF ClearQueue, Agent!Clear, PhaseInv, OneStarter, Typed, Committed,
       Starting, RunLocs, PcTyped
<1>12. ASSUME NEW c \in Prompts, QueueInput(c) PROVE PhaseInv'
  BY <1>12 DEF QueueInput, Agent!Enqueue, PhaseInv, OneStarter, Typed,
       Committed, Starting, RunLocs, PcTyped
<1>13. ASSUME NEW c \in Prompts, InputHandled(c) PROVE PhaseInv'
  BY <1>13 DEF InputHandled, PhaseInv, OneStarter, Typed, Committed, Starting,
       RunLocs, PcTyped
<1>14. ASSUME NEW c \in Prompts, InputPasses(c) PROVE PhaseInv'
  BY <1>14 DEF InputPasses, FlushAll, PhaseInv, OneStarter, Typed, Committed,
       Starting, RunLocs, PcTyped
<1>15. ASSUME NEW c \in Prompts, CheckAuth(c) PROVE PhaseInv'
  BY <1>15 DEF CheckAuth, Compact, StartAuto, Omit, PhaseInv, OneStarter,
       Typed, Committed, Starting, RunLocs, PcTyped
<1>16. ASSUME NEW c \in Prompts, RefuseStart(c) PROVE PhaseInv'
  BY <1>16 DEF RefuseStart, PhaseInv, OneStarter, Typed, Committed, Starting,
       RunLocs, PcTyped
<1>17. ASSUME NEW c \in Prompts, BeforeStart(c) PROVE PhaseInv'
  BY <1>17 DEF BeforeStart, StartRun, Agent!Prompt, Agent!Move, PhaseInv,
       OneStarter, Typed, Committed, Starting, RunLocs, PcTyped
<1>18. ASSUME NEW r \in Runners, SaveAuto(r) PROVE PhaseInv'
  BY <1>18 DEF SaveAuto, PhaseInv, OneStarter, Typed, Committed, Starting,
       RunLocs, PcTyped
<1>19. ASSUME NEW r \in Runners, FinishAuto(r) PROVE PhaseInv'
  BY <1>19, FinishAutoChanges DEF PhaseInv, Typed, PcTyped, OneStarter, Committed,
       Starting, RunLocs
<1>20. ASSUME NEW c \in Prompts, AgentFinishes(c) PROVE PhaseInv'
  BY <1>20 DEF AgentFinishes, Agent!Finish, PhaseInv, OneStarter, Typed,
       Committed, Starting, RunLocs, PcTyped
<1>21. ASSUME NEW c \in Prompts, PostAborted(c) PROVE PhaseInv'
  BY <1>21 DEF PostAborted, PhaseInv, OneStarter, Typed, Committed, Starting,
       RunLocs, PcTyped
<1>22. ASSUME NEW c \in Prompts, PostRetry(c) PROVE PhaseInv'
  BY <1>22 DEF PostRetry, Retryable, Omit, PhaseInv, OneStarter, Typed,
       Committed, Starting, RunLocs, PcTyped
<1>23. ASSUME NEW c \in Prompts, PostCheck(c) PROVE PhaseInv'
  BY <1>23 DEF PostCheck, Retryable, AfterRun, Errors, Compact, StartAuto,
       Omit, PhaseInv, OneStarter, Typed, Committed, Starting, RunLocs, PcTyped
<1>24. ASSUME NEW c \in Prompts, SleepOver(c) PROVE PhaseInv'
  BY <1>24 DEF SleepOver, PhaseInv, OneStarter, Typed, Committed, Starting,
       RunLocs, PcTyped
<1>25. ASSUME NEW c \in Prompts, SleepAborted(c) PROVE PhaseInv'
  BY <1>25 DEF SleepAborted, Compact, AfterRun, StartAuto, Omit, PhaseInv,
       OneStarter, Typed, Committed, Starting, RunLocs, PcTyped
<1>26. ASSUME NEW c \in Prompts, NEW user \in BOOLEAN, ContinueRun(c, user) PROVE PhaseInv'
  BY <1>26 DEF ContinueRun, Agent!Continue, Agent!Move, PhaseInv, OneStarter,
       Typed, Committed, Starting, RunLocs, PcTyped
<1>27. ASSUME NEW c \in Prompts, Settle(c) PROVE PhaseInv'
  BY <1>27 DEF Settle, PhaseInv, OneStarter, Typed, Committed, Starting,
       RunLocs, PcTyped
<1>28. ASSUME NEW c \in Prompts, NEW m \in BOOLEAN, NEW x \in BOOLEAN, BeforeSettle(c, m, x)
      PROVE  PhaseInv'
  BY <1>28 DEF BeforeSettle, PhaseInv, OneStarter, Typed, Committed, Starting,
       RunLocs, PcTyped
<1>29. ASSUME NEW c \in Prompts, Finally(c) PROVE PhaseInv'
  BY <1>29 DEF Finally, FlushAll, PhaseInv, OneStarter, Typed, Committed,
       Starting, RunLocs, PcTyped
<1>30. ASSUME NEW c \in Prompts, Settled(c) PROVE PhaseInv'
  BY <1>30 DEF Settled, Outcome, Wake, Woken, PhaseInv, OneStarter, Typed, Committed,
       Starting, RunLocs, PcTyped
<1>31. ASSUME NEW c \in Prompts, RunDeferred(c) PROVE PhaseInv'
  BY <1>31, RunDeferredChanges DEF PhaseInv, Typed, PcTyped, OneStarter, Committed,
       Starting, RunLocs, SubmitEffect
<1>32. ASSUME NEW c \in Prompts, DeferredOver(c) PROVE PhaseInv'
  BY <1>32, DeferredOverChanges DEF PhaseInv, Typed, PcTyped, OneStarter,
       Committed, Starting, RunLocs
<1>33. ASSUME AgentRequests PROVE PhaseInv'
  BY <1>33 DEF AgentRequests, Agent!Request, Agent!Move, PhaseInv, OneStarter,
       Typed, Committed, Starting, RunLocs, PcTyped
<1>34. ASSUME NEW user \in BOOLEAN, AgentTakes(user) PROVE PhaseInv'
  BY <1>34 DEF AgentTakes, Agent!Take, Agent!Move, PhaseInv, OneStarter, Typed,
       Committed, Starting, RunLocs, PcTyped
<1>35. ASSUME NEW a \in Answers, NEW calls \in BOOLEAN, AgentResponds(a, calls) PROVE PhaseInv'
  BY <1>35 DEF AgentResponds, Agent!Respond, Errors, Agent!FailResponse,
       Agent!Refuse, Answered, Agent!Move, PhaseInv, OneStarter, Typed,
       Committed, Starting, RunLocs, PcTyped
<1>36. ASSUME AgentResults PROVE PhaseInv'
  BY <1>36 DEF AgentResults, Agent!Results, Agent!Move, PhaseInv, OneStarter,
       Typed, Committed, Starting, RunLocs, PcTyped
<1>37. ASSUME AgentTurnEnds PROVE PhaseInv'
  BY <1>37 DEF AgentTurnEnds, Agent!TurnEnd, FlushCustom, Agent!Move, PhaseInv,
       OneStarter, Typed, Committed, Starting, RunLocs, PcTyped
<1>38. ASSUME NEW n \in 0..1, NEW user \in BOOLEAN, AgentNextTurn(n, user) PROVE PhaseInv'
  BY <1>38 DEF AgentNextTurn, Agent!NextTurn, StartAuto, Agent!Move, PhaseInv,
       OneStarter, Typed, Committed, Starting, RunLocs, PcTyped
<1>39. ASSUME AgentEndsRun PROVE PhaseInv'
  BY <1>39 DEF AgentEndsRun, Agent!EndRun, FlushCustom, Agent!Move, PhaseInv,
       OneStarter, Typed, Committed, Starting, RunLocs, PcTyped
<1>40. ASSUME NEW answer \in Answers, AgentThrows(answer) PROVE PhaseInv'
  BY <1>40 DEF AgentThrows, Agent!Throw, Agent!Move, PhaseInv, OneStarter,
       Typed, Committed, Starting, RunLocs, PcTyped
<1>41. ASSUME "compact" \in Others, StartCompaction PROVE PhaseInv'
  BY <1>41 DEF StartCompaction, Compaction, PhaseInv, OneStarter, Typed,
       Committed, Starting, RunLocs, PcTyped
<1>42. ASSUME "compact" \in Others, PrepareCompaction PROVE PhaseInv'
  BY <1>42 DEF PrepareCompaction, Compaction, PhaseInv, OneStarter, Typed,
       Committed, Starting, RunLocs, PcTyped
<1>43. ASSUME "compact" \in Others, SaveCompaction PROVE PhaseInv'
  BY <1>43 DEF SaveCompaction, Compaction, PhaseInv, OneStarter, Typed,
       Committed, Starting, RunLocs, PcTyped
<1>44. ASSUME "compact" \in Others, FinishCompaction PROVE PhaseInv'
  BY <1>44 DEF FinishCompaction, EndCompaction, Wake, Woken, PhaseInv,
       OneStarter, Typed, Committed, Starting, RunLocs, PcTyped
<1>45. ASSUME "navigate" \in Others, MoveLeaf PROVE PhaseInv'
  BY <1>45 DEF MoveLeaf, PhaseInv, OneStarter, Typed, Committed, Starting,
       RunLocs, PcTyped
<1>46. ASSUME "navigate" \in Others, FinishNavigate PROVE PhaseInv'
  BY <1>46 DEF FinishNavigate, Wake, Woken, PhaseInv, OneStarter, Typed,
       Committed, Starting, RunLocs, PcTyped
<1>47. ASSUME UNCHANGED vars PROVE PhaseInv'
  BY <1>47 DEF vars, PhaseInv, OneStarter, Typed, Committed, Starting, RunLocs,
       PcTyped
<1>48. ASSUME NEW c \in Prompts, NEW n \in 1..MaxNotes, FlushThrows(c, n) PROVE PhaseInv'
  BY <1>48 DEF FlushThrows, PhaseInv, OneStarter, Typed, Committed,
       Starting, RunLocs, PcTyped
<1> QED
  BY <1>1, <1>2, <1>3, <1>4, <1>5, <1>6, <1>7, <1>8, <1>9, <1>10, <1>11, <1>12,
       <1>13, <1>14, <1>15, <1>16, <1>17, <1>18, <1>19, <1>20, <1>21, <1>22,
       <1>23, <1>24, <1>25, <1>26, <1>27, <1>28, <1>29, <1>30, <1>31, <1>32,
       <1>33, <1>34, <1>35, <1>36, <1>37, <1>38, <1>39, <1>40, <1>41, <1>42,
       <1>43, <1>44, <1>45, <1>46, <1>47, <1>48
     DEF Next, Client, CallPrompt, Serve, AgentStep, CompactStep, TreeStep

(* The run is active exactly while a prompt is in it.                      *)
LEMMA ActiveStep ==
  ASSUME Typed, DeferInv, SigInv, OneStarter, ActiveInv, [Next]_vars
  PROVE  ActiveInv'
<1> USE Names DEF Callers, Runners, At, agentVars, runVars, ctlVars, answerVars, noteVars, placeVars
<1>1. ASSUME NEW c \in Prompts, CallQueued(c) PROVE ActiveInv'
  BY <1>1 DEF CallQueued, Calls, Agent!Enqueue, Busy, ActiveInv, OneStarter,
       Typed, RunLocs, Committed, Starting, PcTyped
<1>2. ASSUME NEW c \in Prompts, NEW kind \in Kinds, CallDeferred(c, kind) PROVE ActiveInv'
  BY <1>2 DEF CallDeferred, Calls, Busy, ActiveInv, OneStarter, Typed, RunLocs,
       Committed, Starting, PcTyped
<1>3. ASSUME NEW c \in Prompts, NEW kind \in Kinds, CallSubmitted(c, kind) PROVE ActiveInv'
  <2>1. ASSUME NEW x \in Prompts, pc[x] \in {"new", "deferred"}, SubmitEffect(x) PROVE ActiveInv'
    <3>1. CASE active' = active /\ pc'[x] \notin RunLocs
      <4>1. \A y \in Prompts : pc'[y] \in RunLocs <=> pc[y] \in RunLocs
        BY <2>1, <3>1 DEF SubmitEffect, RunLocs
      <4> QED
        BY <3>1, <4>1 DEF ActiveInv
    <3>2. CASE active' = TRUE /\ pc'[x] \in RunLocs
      BY <3>2 DEF ActiveInv
    <3> QED
      BY <2>1, <3>1, <3>2 DEF SubmitEffect, RunLocs
  <2> QED
    BY <1>3, <2>1, CallChanges
<1>4. ASSUME CallAbort PROVE ActiveInv'
  BY <1>4 DEF CallAbort, AbortAll, AbortSignal, ActiveInv, OneStarter, Typed,
       RunLocs, Committed, Starting, PcTyped
<1>5. ASSUME CallCompact PROVE ActiveInv'
  BY <1>5 DEF CallCompact, AbortAll, Busy, AbortSignal, ActiveInv, OneStarter,
       Typed, RunLocs, Committed, Starting, PcTyped
<1>6. ASSUME CallNavigate PROVE ActiveInv'
  BY <1>6 DEF CallNavigate, Busy, ActiveInv, OneStarter, Typed, RunLocs,
       Committed, Starting, PcTyped
<1>7. ASSUME AbortRetry PROVE ActiveInv'
  BY <1>7 DEF AbortRetry, ActiveInv, OneStarter, Typed, RunLocs, Committed,
       Starting, PcTyped
<1>8. ASSUME AbortCompaction PROVE ActiveInv'
  BY <1>8 DEF AbortCompaction, AbortSignal, ActiveInv, OneStarter, Typed,
       RunLocs, Committed, Starting, PcTyped
<1>9. ASSUME RecordBash PROVE ActiveInv'
  BY <1>9 DEF RecordBash, Sent, ActiveInv, OneStarter, Typed, RunLocs,
       Committed, Starting, PcTyped
<1>10. ASSUME SendCustom PROVE ActiveInv'
  BY <1>10 DEF SendCustom, Sent, ActiveInv, OneStarter, Typed, RunLocs,
       Committed, Starting, PcTyped
<1>11. ASSUME ClearQueue PROVE ActiveInv'
  BY <1>11 DEF ClearQueue, Agent!Clear, ActiveInv, OneStarter, Typed, RunLocs,
       Committed, Starting, PcTyped
<1>12. ASSUME NEW c \in Prompts, QueueInput(c) PROVE ActiveInv'
  BY <1>12 DEF QueueInput, Agent!Enqueue, ActiveInv, OneStarter, Typed,
       RunLocs, Committed, Starting, PcTyped
<1>13. ASSUME NEW c \in Prompts, InputHandled(c) PROVE ActiveInv'
  BY <1>13 DEF InputHandled, ActiveInv, OneStarter, Typed, RunLocs, Committed,
       Starting, PcTyped
<1>14. ASSUME NEW c \in Prompts, InputPasses(c) PROVE ActiveInv'
  BY <1>14 DEF InputPasses, FlushAll, ActiveInv, OneStarter, Typed, RunLocs,
       Committed, Starting, PcTyped
<1>15. ASSUME NEW c \in Prompts, CheckAuth(c) PROVE ActiveInv'
  BY <1>15 DEF CheckAuth, Compact, StartAuto, Omit, ActiveInv, OneStarter,
       Typed, RunLocs, Committed, Starting, PcTyped
<1>16. ASSUME NEW c \in Prompts, RefuseStart(c) PROVE ActiveInv'
  BY <1>16 DEF RefuseStart, ActiveInv, OneStarter, Typed, RunLocs, Committed,
       Starting, PcTyped
<1>17. ASSUME NEW c \in Prompts, BeforeStart(c) PROVE ActiveInv'
  BY <1>17 DEF BeforeStart, StartRun, Agent!Prompt, Agent!Move, ActiveInv,
       OneStarter, Typed, RunLocs, Committed, Starting, PcTyped
<1>18. ASSUME NEW r \in Runners, SaveAuto(r) PROVE ActiveInv'
  BY <1>18 DEF SaveAuto, ActiveInv, OneStarter, Typed, RunLocs, Committed,
       Starting, PcTyped
<1>19. ASSUME NEW r \in Runners, FinishAuto(r) PROVE ActiveInv'
  BY <1>19, FinishAutoChanges DEF ActiveInv, Typed, PcTyped, OneStarter, Committed,
       Starting, RunLocs
<1>20. ASSUME NEW c \in Prompts, AgentFinishes(c) PROVE ActiveInv'
  BY <1>20 DEF AgentFinishes, Agent!Finish, ActiveInv, OneStarter, Typed,
       RunLocs, Committed, Starting, PcTyped
<1>21. ASSUME NEW c \in Prompts, PostAborted(c) PROVE ActiveInv'
  BY <1>21 DEF PostAborted, ActiveInv, OneStarter, Typed, RunLocs, Committed,
       Starting, PcTyped
<1>22. ASSUME NEW c \in Prompts, PostRetry(c) PROVE ActiveInv'
  BY <1>22 DEF PostRetry, Retryable, Omit, ActiveInv, OneStarter, Typed,
       RunLocs, Committed, Starting, PcTyped
<1>23. ASSUME NEW c \in Prompts, PostCheck(c) PROVE ActiveInv'
  BY <1>23 DEF PostCheck, Retryable, AfterRun, Errors, Compact, StartAuto,
       Omit, ActiveInv, OneStarter, Typed, RunLocs, Committed, Starting,
       PcTyped
<1>24. ASSUME NEW c \in Prompts, SleepOver(c) PROVE ActiveInv'
  BY <1>24 DEF SleepOver, ActiveInv, OneStarter, Typed, RunLocs, Committed,
       Starting, PcTyped
<1>25. ASSUME NEW c \in Prompts, SleepAborted(c) PROVE ActiveInv'
  BY <1>25 DEF SleepAborted, Compact, AfterRun, StartAuto, Omit, ActiveInv,
       OneStarter, Typed, RunLocs, Committed, Starting, PcTyped
<1>26. ASSUME NEW c \in Prompts, NEW user \in BOOLEAN, ContinueRun(c, user) PROVE ActiveInv'
  BY <1>26 DEF ContinueRun, Agent!Continue, Agent!Move, ActiveInv, OneStarter,
       Typed, RunLocs, Committed, Starting, PcTyped
<1>27. ASSUME NEW c \in Prompts, Settle(c) PROVE ActiveInv'
  BY <1>27 DEF Settle, ActiveInv, OneStarter, Typed, RunLocs, Committed,
       Starting, PcTyped
<1>28. ASSUME NEW c \in Prompts, NEW m \in BOOLEAN, NEW x \in BOOLEAN, BeforeSettle(c, m, x)
      PROVE  ActiveInv'
  BY <1>28 DEF BeforeSettle, ActiveInv, OneStarter, Typed, RunLocs, Committed,
       Starting, PcTyped
<1>29. ASSUME NEW c \in Prompts, Finally(c) PROVE ActiveInv'
  BY <1>29 DEF Finally, FlushAll, ActiveInv, OneStarter, Typed, RunLocs,
       Committed, Starting, PcTyped
<1>30. ASSUME NEW c \in Prompts, Settled(c) PROVE ActiveInv'
  BY <1>30 DEF Settled, Outcome, Wake, Woken, ActiveInv, OneStarter, Typed, RunLocs,
       Committed, Starting, PcTyped
<1>31. ASSUME NEW c \in Prompts, RunDeferred(c) PROVE ActiveInv'
  <2>1. ASSUME NEW x \in Prompts, pc[x] \in {"new", "deferred"}, SubmitEffect(x) PROVE ActiveInv'
    <3>1. CASE active' = active /\ pc'[x] \notin RunLocs
      <4>1. \A y \in Prompts : pc'[y] \in RunLocs <=> pc[y] \in RunLocs
        BY <2>1, <3>1 DEF SubmitEffect, RunLocs
      <4> QED
        BY <3>1, <4>1 DEF ActiveInv
    <3>2. CASE active' = TRUE /\ pc'[x] \in RunLocs
      BY <3>2 DEF ActiveInv
    <3> QED
      BY <2>1, <3>1, <3>2 DEF SubmitEffect, RunLocs
  <2> QED
    BY <1>31, <2>1, RunDeferredChanges DEF ActiveInv
<1>32. ASSUME NEW c \in Prompts, DeferredOver(c) PROVE ActiveInv'
  BY <1>32, DeferredOverChanges DEF ActiveInv, Typed, PcTyped, OneStarter,
       Committed, Starting, RunLocs
<1>33. ASSUME AgentRequests PROVE ActiveInv'
  BY <1>33 DEF AgentRequests, Agent!Request, Agent!Move, ActiveInv, OneStarter,
       Typed, RunLocs, Committed, Starting, PcTyped
<1>34. ASSUME NEW user \in BOOLEAN, AgentTakes(user) PROVE ActiveInv'
  BY <1>34 DEF AgentTakes, Agent!Take, Agent!Move, ActiveInv, OneStarter,
       Typed, RunLocs, Committed, Starting, PcTyped
<1>35. ASSUME NEW a \in Answers, NEW calls \in BOOLEAN, AgentResponds(a, calls) PROVE ActiveInv'
  BY <1>35 DEF AgentResponds, Agent!Respond, Errors, Agent!FailResponse,
       Agent!Refuse, Answered, Agent!Move, ActiveInv, OneStarter, Typed,
       RunLocs, Committed, Starting, PcTyped
<1>36. ASSUME AgentResults PROVE ActiveInv'
  BY <1>36 DEF AgentResults, Agent!Results, Agent!Move, ActiveInv, OneStarter,
       Typed, RunLocs, Committed, Starting, PcTyped
<1>37. ASSUME AgentTurnEnds PROVE ActiveInv'
  BY <1>37 DEF AgentTurnEnds, Agent!TurnEnd, FlushCustom, Agent!Move,
       ActiveInv, OneStarter, Typed, RunLocs, Committed, Starting, PcTyped
<1>38. ASSUME NEW n \in 0..1, NEW user \in BOOLEAN, AgentNextTurn(n, user) PROVE ActiveInv'
  BY <1>38 DEF AgentNextTurn, Agent!NextTurn, StartAuto, Agent!Move, ActiveInv,
       OneStarter, Typed, RunLocs, Committed, Starting, PcTyped
<1>39. ASSUME AgentEndsRun PROVE ActiveInv'
  BY <1>39 DEF AgentEndsRun, Agent!EndRun, FlushCustom, Agent!Move, ActiveInv,
       OneStarter, Typed, RunLocs, Committed, Starting, PcTyped
<1>40. ASSUME NEW answer \in Answers, AgentThrows(answer) PROVE ActiveInv'
  BY <1>40 DEF AgentThrows, Agent!Throw, Agent!Move, ActiveInv, OneStarter,
       Typed, RunLocs, Committed, Starting, PcTyped
<1>41. ASSUME "compact" \in Others, StartCompaction PROVE ActiveInv'
  BY <1>41 DEF StartCompaction, Compaction, ActiveInv, OneStarter, Typed,
       RunLocs, Committed, Starting, PcTyped
<1>42. ASSUME "compact" \in Others, PrepareCompaction PROVE ActiveInv'
  BY <1>42 DEF PrepareCompaction, Compaction, ActiveInv, OneStarter, Typed,
       RunLocs, Committed, Starting, PcTyped
<1>43. ASSUME "compact" \in Others, SaveCompaction PROVE ActiveInv'
  BY <1>43 DEF SaveCompaction, Compaction, ActiveInv, OneStarter, Typed,
       RunLocs, Committed, Starting, PcTyped
<1>44. ASSUME "compact" \in Others, FinishCompaction PROVE ActiveInv'
  BY <1>44 DEF FinishCompaction, EndCompaction, Wake, Woken, ActiveInv,
       OneStarter, Typed, RunLocs, Committed, Starting, PcTyped
<1>45. ASSUME "navigate" \in Others, MoveLeaf PROVE ActiveInv'
  BY <1>45 DEF MoveLeaf, ActiveInv, OneStarter, Typed, RunLocs, Committed,
       Starting, PcTyped
<1>46. ASSUME "navigate" \in Others, FinishNavigate PROVE ActiveInv'
  BY <1>46 DEF FinishNavigate, Wake, Woken, ActiveInv, OneStarter, Typed,
       RunLocs, Committed, Starting, PcTyped
<1>47. ASSUME UNCHANGED vars PROVE ActiveInv'
  BY <1>47 DEF vars, ActiveInv, OneStarter, Typed, RunLocs, Committed,
       Starting, PcTyped
<1>48. ASSUME NEW c \in Prompts, NEW n \in 1..MaxNotes, FlushThrows(c, n) PROVE ActiveInv'
  BY <1>48 DEF FlushThrows, ActiveInv, OneStarter, Typed, RunLocs,
       Committed, Starting, PcTyped
<1> QED
  BY <1>1, <1>2, <1>3, <1>4, <1>5, <1>6, <1>7, <1>8, <1>9, <1>10, <1>11, <1>12,
       <1>13, <1>14, <1>15, <1>16, <1>17, <1>18, <1>19, <1>20, <1>21, <1>22,
       <1>23, <1>24, <1>25, <1>26, <1>27, <1>28, <1>29, <1>30, <1>31, <1>32,
       <1>33, <1>34, <1>35, <1>36, <1>37, <1>38, <1>39, <1>40, <1>41, <1>42,
       <1>43, <1>44, <1>45, <1>46, <1>47, <1>48
     DEF Next, Client, CallPrompt, Serve, AgentStep, CompactStep, TreeStep

(* The field of the automatic compaction names the one that is under way.  *)
LEMMA AutoStep ==
  ASSUME Typed, DeferInv, OneStarter, PhaseInv, SigInv, AutoInv, [Next]_vars
  PROVE  AutoInv'
<1> USE Names DEF Callers, Runners, At, agentVars, runVars, ctlVars, answerVars, noteVars, placeVars
<1>1. ASSUME NEW c \in Prompts, CallQueued(c) PROVE AutoInv'
  BY <1>1 DEF CallQueued, Calls, Agent!Enqueue, Busy, AutoInv, OneStarter,
       PhaseInv, SigInv, Typed, Committed, Starting, RunLocs, PcTyped, CtlTyped
<1>2. ASSUME NEW c \in Prompts, NEW kind \in Kinds, CallDeferred(c, kind) PROVE AutoInv'
  BY <1>2 DEF CallDeferred, Calls, Busy, AutoInv, OneStarter, PhaseInv, SigInv,
       Typed, Committed, Starting, RunLocs, PcTyped, CtlTyped
<1>3. ASSUME NEW c \in Prompts, NEW kind \in Kinds, CallSubmitted(c, kind) PROVE AutoInv'
  BY <1>3, CallChanges DEF AutoInv, PhaseInv, SigInv, Typed, PcTyped, CtlTyped,
       OneStarter, Committed, Starting, RunLocs, SubmitEffect
<1>4. ASSUME CallAbort PROVE AutoInv'
  BY <1>4 DEF CallAbort, AbortAll, AbortSignal, AutoInv, OneStarter, PhaseInv,
       SigInv, Typed, Committed, Starting, RunLocs, PcTyped, CtlTyped
<1>5. ASSUME CallCompact PROVE AutoInv'
  BY <1>5 DEF CallCompact, AbortAll, Busy, AbortSignal, AutoInv, OneStarter,
       PhaseInv, SigInv, Typed, Committed, Starting, RunLocs, PcTyped, CtlTyped
<1>6. ASSUME CallNavigate PROVE AutoInv'
  BY <1>6 DEF CallNavigate, Busy, AutoInv, OneStarter, PhaseInv, SigInv, Typed,
       Committed, Starting, RunLocs, PcTyped, CtlTyped
<1>7. ASSUME AbortRetry PROVE AutoInv'
  BY <1>7 DEF AbortRetry, AutoInv, OneStarter, PhaseInv, SigInv, Typed,
       Committed, Starting, RunLocs, PcTyped, CtlTyped
<1>8. ASSUME AbortCompaction PROVE AutoInv'
  BY <1>8 DEF AbortCompaction, AbortSignal, AutoInv, OneStarter, PhaseInv,
       SigInv, Typed, Committed, Starting, RunLocs, PcTyped, CtlTyped
<1>9. ASSUME RecordBash PROVE AutoInv'
  BY <1>9 DEF RecordBash, Sent, AutoInv, OneStarter, PhaseInv, SigInv, Typed,
       Committed, Starting, RunLocs, PcTyped, CtlTyped
<1>10. ASSUME SendCustom PROVE AutoInv'
  BY <1>10 DEF SendCustom, Sent, AutoInv, OneStarter, PhaseInv, SigInv, Typed,
       Committed, Starting, RunLocs, PcTyped, CtlTyped
<1>11. ASSUME ClearQueue PROVE AutoInv'
  BY <1>11 DEF ClearQueue, Agent!Clear, AutoInv, OneStarter, PhaseInv, SigInv,
       Typed, Committed, Starting, RunLocs, PcTyped, CtlTyped
<1>12. ASSUME NEW c \in Prompts, QueueInput(c) PROVE AutoInv'
  BY <1>12 DEF QueueInput, Agent!Enqueue, AutoInv, OneStarter, PhaseInv,
       SigInv, Typed, Committed, Starting, RunLocs, PcTyped, CtlTyped
<1>13. ASSUME NEW c \in Prompts, InputHandled(c) PROVE AutoInv'
  BY <1>13 DEF InputHandled, AutoInv, OneStarter, PhaseInv, SigInv, Typed,
       Committed, Starting, RunLocs, PcTyped, CtlTyped
<1>14. ASSUME NEW c \in Prompts, InputPasses(c) PROVE AutoInv'
  BY <1>14 DEF InputPasses, FlushAll, AutoInv, OneStarter, PhaseInv, SigInv,
       Typed, Committed, Starting, RunLocs, PcTyped, CtlTyped
<1>15. ASSUME NEW c \in Prompts, CheckAuth(c) PROVE AutoInv'
  BY <1>15 DEF CheckAuth, Compact, StartAuto, Omit, AutoInv, OneStarter,
       PhaseInv, SigInv, Typed, Committed, Starting, RunLocs, PcTyped, CtlTyped
<1>16. ASSUME NEW c \in Prompts, RefuseStart(c) PROVE AutoInv'
  BY <1>16 DEF RefuseStart, AutoInv, OneStarter, PhaseInv, SigInv, Typed,
       Committed, Starting, RunLocs, PcTyped, CtlTyped
<1>17. ASSUME NEW c \in Prompts, BeforeStart(c) PROVE AutoInv'
  BY <1>17 DEF BeforeStart, StartRun, Agent!Prompt, Agent!Move, AutoInv,
       OneStarter, PhaseInv, SigInv, Typed, Committed, Starting, RunLocs,
       PcTyped, CtlTyped
<1>18. ASSUME NEW r \in Runners, SaveAuto(r) PROVE AutoInv'
  BY <1>18 DEF SaveAuto, AutoInv, OneStarter, PhaseInv, SigInv, Typed,
       Committed, Starting, RunLocs, PcTyped, CtlTyped
<1>19. ASSUME NEW r \in Runners, FinishAuto(r) PROVE AutoInv'
  BY <1>19, FinishAutoChanges DEF AutoInv, PhaseInv, SigInv, Typed, PcTyped,
       CtlTyped, OneStarter, Committed, Starting, RunLocs
<1>20. ASSUME NEW c \in Prompts, AgentFinishes(c) PROVE AutoInv'
  BY <1>20 DEF AgentFinishes, Agent!Finish, AutoInv, OneStarter, PhaseInv,
       SigInv, Typed, Committed, Starting, RunLocs, PcTyped, CtlTyped
<1>21. ASSUME NEW c \in Prompts, PostAborted(c) PROVE AutoInv'
  BY <1>21 DEF PostAborted, AutoInv, OneStarter, PhaseInv, SigInv, Typed,
       Committed, Starting, RunLocs, PcTyped, CtlTyped
<1>22. ASSUME NEW c \in Prompts, PostRetry(c) PROVE AutoInv'
  BY <1>22 DEF PostRetry, Retryable, Omit, AutoInv, OneStarter, PhaseInv,
       SigInv, Typed, Committed, Starting, RunLocs, PcTyped, CtlTyped
<1>23. ASSUME NEW c \in Prompts, PostCheck(c) PROVE AutoInv'
  BY <1>23 DEF PostCheck, Retryable, AfterRun, Errors, Compact, StartAuto,
       Omit, AutoInv, OneStarter, PhaseInv, SigInv, Typed, Committed, Starting,
       RunLocs, PcTyped, CtlTyped
<1>24. ASSUME NEW c \in Prompts, SleepOver(c) PROVE AutoInv'
  BY <1>24 DEF SleepOver, AutoInv, OneStarter, PhaseInv, SigInv, Typed,
       Committed, Starting, RunLocs, PcTyped, CtlTyped
<1>25. ASSUME NEW c \in Prompts, SleepAborted(c) PROVE AutoInv'
  BY <1>25 DEF SleepAborted, Compact, AfterRun, StartAuto, Omit, AutoInv,
       OneStarter, PhaseInv, SigInv, Typed, Committed, Starting, RunLocs,
       PcTyped, CtlTyped
<1>26. ASSUME NEW c \in Prompts, NEW user \in BOOLEAN, ContinueRun(c, user) PROVE AutoInv'
  BY <1>26 DEF ContinueRun, Agent!Continue, Agent!Move, AutoInv, OneStarter,
       PhaseInv, SigInv, Typed, Committed, Starting, RunLocs, PcTyped, CtlTyped
<1>27. ASSUME NEW c \in Prompts, Settle(c) PROVE AutoInv'
  BY <1>27 DEF Settle, AutoInv, OneStarter, PhaseInv, SigInv, Typed, Committed,
       Starting, RunLocs, PcTyped, CtlTyped
<1>28. ASSUME NEW c \in Prompts, NEW m \in BOOLEAN, NEW x \in BOOLEAN, BeforeSettle(c, m, x)
      PROVE  AutoInv'
  BY <1>28 DEF BeforeSettle, AutoInv, OneStarter, PhaseInv, SigInv, Typed,
       Committed, Starting, RunLocs, PcTyped, CtlTyped
<1>29. ASSUME NEW c \in Prompts, Finally(c) PROVE AutoInv'
  BY <1>29 DEF Finally, FlushAll, AutoInv, OneStarter, PhaseInv, SigInv, Typed,
       Committed, Starting, RunLocs, PcTyped, CtlTyped
<1>30. ASSUME NEW c \in Prompts, Settled(c) PROVE AutoInv'
  BY <1>30 DEF Settled, Outcome, Wake, Woken, AutoInv, OneStarter, PhaseInv, SigInv,
       Typed, Committed, Starting, RunLocs, PcTyped, CtlTyped
<1>31. ASSUME NEW c \in Prompts, RunDeferred(c) PROVE AutoInv'
  BY <1>31, RunDeferredChanges DEF AutoInv, PhaseInv, SigInv, Typed, PcTyped,
       CtlTyped, OneStarter, Committed, Starting, RunLocs, SubmitEffect
<1>32. ASSUME NEW c \in Prompts, DeferredOver(c) PROVE AutoInv'
  BY <1>32, DeferredOverChanges DEF AutoInv, PhaseInv, SigInv, Typed, PcTyped,
       CtlTyped, OneStarter, Committed, Starting, RunLocs
<1>33. ASSUME AgentRequests PROVE AutoInv'
  BY <1>33 DEF AgentRequests, Agent!Request, Agent!Move, AutoInv, OneStarter,
       PhaseInv, SigInv, Typed, Committed, Starting, RunLocs, PcTyped, CtlTyped
<1>34. ASSUME NEW user \in BOOLEAN, AgentTakes(user) PROVE AutoInv'
  BY <1>34 DEF AgentTakes, Agent!Take, Agent!Move, AutoInv, OneStarter,
       PhaseInv, SigInv, Typed, Committed, Starting, RunLocs, PcTyped, CtlTyped
<1>35. ASSUME NEW a \in Answers, NEW calls \in BOOLEAN, AgentResponds(a, calls) PROVE AutoInv'
  BY <1>35 DEF AgentResponds, Agent!Respond, Errors, Agent!FailResponse,
       Agent!Refuse, Answered, Agent!Move, AutoInv, OneStarter, PhaseInv,
       SigInv, Typed, Committed, Starting, RunLocs, PcTyped, CtlTyped
<1>36. ASSUME AgentResults PROVE AutoInv'
  BY <1>36 DEF AgentResults, Agent!Results, Agent!Move, AutoInv, OneStarter,
       PhaseInv, SigInv, Typed, Committed, Starting, RunLocs, PcTyped, CtlTyped
<1>37. ASSUME AgentTurnEnds PROVE AutoInv'
  BY <1>37 DEF AgentTurnEnds, Agent!TurnEnd, FlushCustom, Agent!Move, AutoInv,
       OneStarter, PhaseInv, SigInv, Typed, Committed, Starting, RunLocs,
       PcTyped, CtlTyped
<1>38. ASSUME NEW n \in 0..1, NEW user \in BOOLEAN, AgentNextTurn(n, user) PROVE AutoInv'
  BY <1>38 DEF AgentNextTurn, Agent!NextTurn, StartAuto, Agent!Move, AutoInv,
       OneStarter, PhaseInv, SigInv, Typed, Committed, Starting, RunLocs,
       PcTyped, CtlTyped
<1>39. ASSUME AgentEndsRun PROVE AutoInv'
  BY <1>39 DEF AgentEndsRun, Agent!EndRun, FlushCustom, Agent!Move, AutoInv,
       OneStarter, PhaseInv, SigInv, Typed, Committed, Starting, RunLocs,
       PcTyped, CtlTyped
<1>40. ASSUME NEW answer \in Answers, AgentThrows(answer) PROVE AutoInv'
  BY <1>40 DEF AgentThrows, Agent!Throw, Agent!Move, AutoInv, OneStarter,
       PhaseInv, SigInv, Typed, Committed, Starting, RunLocs, PcTyped, CtlTyped
<1>41. ASSUME "compact" \in Others, StartCompaction PROVE AutoInv'
  BY <1>41 DEF StartCompaction, Compaction, AutoInv, OneStarter, PhaseInv,
       SigInv, Typed, Committed, Starting, RunLocs, PcTyped, CtlTyped
<1>42. ASSUME "compact" \in Others, PrepareCompaction PROVE AutoInv'
  BY <1>42 DEF PrepareCompaction, Compaction, AutoInv, OneStarter, PhaseInv,
       SigInv, Typed, Committed, Starting, RunLocs, PcTyped, CtlTyped
<1>43. ASSUME "compact" \in Others, SaveCompaction PROVE AutoInv'
  BY <1>43 DEF SaveCompaction, Compaction, AutoInv, OneStarter, PhaseInv,
       SigInv, Typed, Committed, Starting, RunLocs, PcTyped, CtlTyped
<1>44. ASSUME "compact" \in Others, FinishCompaction PROVE AutoInv'
  BY <1>44 DEF FinishCompaction, EndCompaction, Wake, Woken, AutoInv,
       OneStarter, PhaseInv, SigInv, Typed, Committed, Starting, RunLocs,
       PcTyped, CtlTyped
<1>45. ASSUME "navigate" \in Others, MoveLeaf PROVE AutoInv'
  BY <1>45 DEF MoveLeaf, AutoInv, OneStarter, PhaseInv, SigInv, Typed,
       Committed, Starting, RunLocs, PcTyped, CtlTyped
<1>46. ASSUME "navigate" \in Others, FinishNavigate PROVE AutoInv'
  BY <1>46 DEF FinishNavigate, Wake, Woken, AutoInv, OneStarter, PhaseInv,
       SigInv, Typed, Committed, Starting, RunLocs, PcTyped, CtlTyped
<1>47. ASSUME UNCHANGED vars PROVE AutoInv'
  BY <1>47 DEF vars, AutoInv, OneStarter, PhaseInv, SigInv, Typed, Committed,
       Starting, RunLocs, PcTyped, CtlTyped
<1>48. ASSUME NEW c \in Prompts, NEW n \in 1..MaxNotes, FlushThrows(c, n) PROVE AutoInv'
  BY <1>48 DEF FlushThrows, AutoInv, OneStarter, PhaseInv, SigInv, Typed,
       Committed, Starting, RunLocs, PcTyped, CtlTyped
<1> QED
  BY <1>1, <1>2, <1>3, <1>4, <1>5, <1>6, <1>7, <1>8, <1>9, <1>10, <1>11, <1>12,
       <1>13, <1>14, <1>15, <1>16, <1>17, <1>18, <1>19, <1>20, <1>21, <1>22,
       <1>23, <1>24, <1>25, <1>26, <1>27, <1>28, <1>29, <1>30, <1>31, <1>32,
       <1>33, <1>34, <1>35, <1>36, <1>37, <1>38, <1>39, <1>40, <1>41, <1>42,
       <1>43, <1>44, <1>45, <1>46, <1>47, <1>48
     DEF Next, Client, CallPrompt, Serve, AgentStep, CompactStep, TreeStep

(* The retry has a controller exactly while a prompt sleeps.               *)
LEMMA RetryStep ==
  ASSUME Typed, DeferInv, SigInv, OneStarter, RetryInv, [Next]_vars
  PROVE  RetryInv'
<1> USE Names DEF Callers, Runners, At, agentVars, runVars, ctlVars, answerVars, noteVars, placeVars
<1>1. ASSUME NEW c \in Prompts, CallQueued(c) PROVE RetryInv'
  BY <1>1 DEF CallQueued, Calls, Agent!Enqueue, Busy, RetryInv, OneStarter,
       Typed, Committed, Starting, RunLocs, PcTyped
<1>2. ASSUME NEW c \in Prompts, NEW kind \in Kinds, CallDeferred(c, kind) PROVE RetryInv'
  BY <1>2 DEF CallDeferred, Calls, Busy, RetryInv, OneStarter, Typed,
       Committed, Starting, RunLocs, PcTyped
<1>3. ASSUME NEW c \in Prompts, NEW kind \in Kinds, CallSubmitted(c, kind) PROVE RetryInv'
  BY <1>3, CallChanges DEF RetryInv, Typed, PcTyped, OneStarter, Committed,
       Starting, RunLocs, SubmitEffect
<1>4. ASSUME CallAbort PROVE RetryInv'
  BY <1>4 DEF CallAbort, AbortAll, AbortSignal, RetryInv, OneStarter, Typed,
       Committed, Starting, RunLocs, PcTyped
<1>5. ASSUME CallCompact PROVE RetryInv'
  BY <1>5 DEF CallCompact, AbortAll, Busy, AbortSignal, RetryInv, OneStarter,
       Typed, Committed, Starting, RunLocs, PcTyped
<1>6. ASSUME CallNavigate PROVE RetryInv'
  BY <1>6 DEF CallNavigate, Busy, RetryInv, OneStarter, Typed, Committed,
       Starting, RunLocs, PcTyped
<1>7. ASSUME AbortRetry PROVE RetryInv'
  BY <1>7 DEF AbortRetry, RetryInv, OneStarter, Typed, Committed, Starting,
       RunLocs, PcTyped
<1>8. ASSUME AbortCompaction PROVE RetryInv'
  BY <1>8 DEF AbortCompaction, AbortSignal, RetryInv, OneStarter, Typed,
       Committed, Starting, RunLocs, PcTyped
<1>9. ASSUME RecordBash PROVE RetryInv'
  BY <1>9 DEF RecordBash, Sent, RetryInv, OneStarter, Typed, Committed,
       Starting, RunLocs, PcTyped
<1>10. ASSUME SendCustom PROVE RetryInv'
  BY <1>10 DEF SendCustom, Sent, RetryInv, OneStarter, Typed, Committed,
       Starting, RunLocs, PcTyped
<1>11. ASSUME ClearQueue PROVE RetryInv'
  BY <1>11 DEF ClearQueue, Agent!Clear, RetryInv, OneStarter, Typed, Committed,
       Starting, RunLocs, PcTyped
<1>12. ASSUME NEW c \in Prompts, QueueInput(c) PROVE RetryInv'
  BY <1>12 DEF QueueInput, Agent!Enqueue, RetryInv, OneStarter, Typed,
       Committed, Starting, RunLocs, PcTyped
<1>13. ASSUME NEW c \in Prompts, InputHandled(c) PROVE RetryInv'
  BY <1>13 DEF InputHandled, RetryInv, OneStarter, Typed, Committed, Starting,
       RunLocs, PcTyped
<1>14. ASSUME NEW c \in Prompts, InputPasses(c) PROVE RetryInv'
  BY <1>14 DEF InputPasses, FlushAll, RetryInv, OneStarter, Typed, Committed,
       Starting, RunLocs, PcTyped
<1>15. ASSUME NEW c \in Prompts, CheckAuth(c) PROVE RetryInv'
  BY <1>15 DEF CheckAuth, Compact, StartAuto, Omit, RetryInv, OneStarter,
       Typed, Committed, Starting, RunLocs, PcTyped
<1>16. ASSUME NEW c \in Prompts, RefuseStart(c) PROVE RetryInv'
  BY <1>16 DEF RefuseStart, RetryInv, OneStarter, Typed, Committed, Starting,
       RunLocs, PcTyped
<1>17. ASSUME NEW c \in Prompts, BeforeStart(c) PROVE RetryInv'
  BY <1>17 DEF BeforeStart, StartRun, Agent!Prompt, Agent!Move, RetryInv,
       OneStarter, Typed, Committed, Starting, RunLocs, PcTyped
<1>18. ASSUME NEW r \in Runners, SaveAuto(r) PROVE RetryInv'
  BY <1>18 DEF SaveAuto, RetryInv, OneStarter, Typed, Committed, Starting,
       RunLocs, PcTyped
<1>19. ASSUME NEW r \in Runners, FinishAuto(r) PROVE RetryInv'
  BY <1>19, FinishAutoChanges DEF RetryInv, Typed, PcTyped, OneStarter, Committed,
       Starting, RunLocs
<1>20. ASSUME NEW c \in Prompts, AgentFinishes(c) PROVE RetryInv'
  BY <1>20 DEF AgentFinishes, Agent!Finish, RetryInv, OneStarter, Typed,
       Committed, Starting, RunLocs, PcTyped
<1>21. ASSUME NEW c \in Prompts, PostAborted(c) PROVE RetryInv'
  BY <1>21 DEF PostAborted, RetryInv, OneStarter, Typed, Committed, Starting,
       RunLocs, PcTyped
<1>22. ASSUME NEW c \in Prompts, PostRetry(c) PROVE RetryInv'
  BY <1>22 DEF PostRetry, Retryable, Omit, RetryInv, OneStarter, Typed,
       Committed, Starting, RunLocs, PcTyped
<1>23. ASSUME NEW c \in Prompts, PostCheck(c) PROVE RetryInv'
  BY <1>23 DEF PostCheck, Retryable, AfterRun, Errors, Compact, StartAuto,
       Omit, RetryInv, OneStarter, Typed, Committed, Starting, RunLocs, PcTyped
<1>24. ASSUME NEW c \in Prompts, SleepOver(c) PROVE RetryInv'
  BY <1>24 DEF SleepOver, RetryInv, OneStarter, Typed, Committed, Starting,
       RunLocs, PcTyped
<1>25. ASSUME NEW c \in Prompts, SleepAborted(c) PROVE RetryInv'
  BY <1>25 DEF SleepAborted, Compact, AfterRun, StartAuto, Omit, RetryInv,
       OneStarter, Typed, Committed, Starting, RunLocs, PcTyped
<1>26. ASSUME NEW c \in Prompts, NEW user \in BOOLEAN, ContinueRun(c, user) PROVE RetryInv'
  BY <1>26 DEF ContinueRun, Agent!Continue, Agent!Move, RetryInv, OneStarter,
       Typed, Committed, Starting, RunLocs, PcTyped
<1>27. ASSUME NEW c \in Prompts, Settle(c) PROVE RetryInv'
  BY <1>27 DEF Settle, RetryInv, OneStarter, Typed, Committed, Starting,
       RunLocs, PcTyped
<1>28. ASSUME NEW c \in Prompts, NEW m \in BOOLEAN, NEW x \in BOOLEAN, BeforeSettle(c, m, x)
      PROVE  RetryInv'
  BY <1>28 DEF BeforeSettle, RetryInv, OneStarter, Typed, Committed, Starting,
       RunLocs, PcTyped
<1>29. ASSUME NEW c \in Prompts, Finally(c) PROVE RetryInv'
  BY <1>29 DEF Finally, FlushAll, RetryInv, OneStarter, Typed, Committed,
       Starting, RunLocs, PcTyped
<1>30. ASSUME NEW c \in Prompts, Settled(c) PROVE RetryInv'
  BY <1>30 DEF Settled, Outcome, Wake, Woken, RetryInv, OneStarter, Typed, Committed,
       Starting, RunLocs, PcTyped
<1>31. ASSUME NEW c \in Prompts, RunDeferred(c) PROVE RetryInv'
  BY <1>31, RunDeferredChanges DEF RetryInv, Typed, PcTyped, OneStarter, Committed,
       Starting, RunLocs, SubmitEffect
<1>32. ASSUME NEW c \in Prompts, DeferredOver(c) PROVE RetryInv'
  BY <1>32, DeferredOverChanges DEF RetryInv, Typed, PcTyped, OneStarter,
       Committed, Starting, RunLocs
<1>33. ASSUME AgentRequests PROVE RetryInv'
  BY <1>33 DEF AgentRequests, Agent!Request, Agent!Move, RetryInv, OneStarter,
       Typed, Committed, Starting, RunLocs, PcTyped
<1>34. ASSUME NEW user \in BOOLEAN, AgentTakes(user) PROVE RetryInv'
  BY <1>34 DEF AgentTakes, Agent!Take, Agent!Move, RetryInv, OneStarter, Typed,
       Committed, Starting, RunLocs, PcTyped
<1>35. ASSUME NEW a \in Answers, NEW calls \in BOOLEAN, AgentResponds(a, calls) PROVE RetryInv'
  BY <1>35 DEF AgentResponds, Agent!Respond, Errors, Agent!FailResponse,
       Agent!Refuse, Answered, Agent!Move, RetryInv, OneStarter, Typed,
       Committed, Starting, RunLocs, PcTyped
<1>36. ASSUME AgentResults PROVE RetryInv'
  BY <1>36 DEF AgentResults, Agent!Results, Agent!Move, RetryInv, OneStarter,
       Typed, Committed, Starting, RunLocs, PcTyped
<1>37. ASSUME AgentTurnEnds PROVE RetryInv'
  BY <1>37 DEF AgentTurnEnds, Agent!TurnEnd, FlushCustom, Agent!Move, RetryInv,
       OneStarter, Typed, Committed, Starting, RunLocs, PcTyped
<1>38. ASSUME NEW n \in 0..1, NEW user \in BOOLEAN, AgentNextTurn(n, user) PROVE RetryInv'
  BY <1>38 DEF AgentNextTurn, Agent!NextTurn, StartAuto, Agent!Move, RetryInv,
       OneStarter, Typed, Committed, Starting, RunLocs, PcTyped
<1>39. ASSUME AgentEndsRun PROVE RetryInv'
  BY <1>39 DEF AgentEndsRun, Agent!EndRun, FlushCustom, Agent!Move, RetryInv,
       OneStarter, Typed, Committed, Starting, RunLocs, PcTyped
<1>40. ASSUME NEW answer \in Answers, AgentThrows(answer) PROVE RetryInv'
  BY <1>40 DEF AgentThrows, Agent!Throw, Agent!Move, RetryInv, OneStarter,
       Typed, Committed, Starting, RunLocs, PcTyped
<1>41. ASSUME "compact" \in Others, StartCompaction PROVE RetryInv'
  BY <1>41 DEF StartCompaction, Compaction, RetryInv, OneStarter, Typed,
       Committed, Starting, RunLocs, PcTyped
<1>42. ASSUME "compact" \in Others, PrepareCompaction PROVE RetryInv'
  BY <1>42 DEF PrepareCompaction, Compaction, RetryInv, OneStarter, Typed,
       Committed, Starting, RunLocs, PcTyped
<1>43. ASSUME "compact" \in Others, SaveCompaction PROVE RetryInv'
  BY <1>43 DEF SaveCompaction, Compaction, RetryInv, OneStarter, Typed,
       Committed, Starting, RunLocs, PcTyped
<1>44. ASSUME "compact" \in Others, FinishCompaction PROVE RetryInv'
  BY <1>44 DEF FinishCompaction, EndCompaction, Wake, Woken, RetryInv,
       OneStarter, Typed, Committed, Starting, RunLocs, PcTyped
<1>45. ASSUME "navigate" \in Others, MoveLeaf PROVE RetryInv'
  BY <1>45 DEF MoveLeaf, RetryInv, OneStarter, Typed, Committed, Starting,
       RunLocs, PcTyped
<1>46. ASSUME "navigate" \in Others, FinishNavigate PROVE RetryInv'
  BY <1>46 DEF FinishNavigate, Wake, Woken, RetryInv, OneStarter, Typed,
       Committed, Starting, RunLocs, PcTyped
<1>47. ASSUME UNCHANGED vars PROVE RetryInv'
  BY <1>47 DEF vars, RetryInv, OneStarter, Typed, Committed, Starting, RunLocs,
       PcTyped
<1>48. ASSUME NEW c \in Prompts, NEW n \in 1..MaxNotes, FlushThrows(c, n) PROVE RetryInv'
  BY <1>48 DEF FlushThrows, RetryInv, OneStarter, Typed, Committed,
       Starting, RunLocs, PcTyped
<1> QED
  BY <1>1, <1>2, <1>3, <1>4, <1>5, <1>6, <1>7, <1>8, <1>9, <1>10, <1>11, <1>12,
       <1>13, <1>14, <1>15, <1>16, <1>17, <1>18, <1>19, <1>20, <1>21, <1>22,
       <1>23, <1>24, <1>25, <1>26, <1>27, <1>28, <1>29, <1>30, <1>31, <1>32,
       <1>33, <1>34, <1>35, <1>36, <1>37, <1>38, <1>39, <1>40, <1>41, <1>42,
       <1>43, <1>44, <1>45, <1>46, <1>47, <1>48
     DEF Next, Client, CallPrompt, Serve, AgentStep, CompactStep, TreeStep

(* A recovery is counted once between two messages of the user.            *)
LEMMA RecoveryStep ==
  ASSUME Typed, DeferInv, SigInv, OneStarter, PhaseInv, RecoveryInv,
         [Next]_vars
  PROVE  RecoveryInv'
<1> USE Names DEF Callers, Runners, At, agentVars, runVars, ctlVars, answerVars, noteVars, placeVars
<1>1. ASSUME NEW c \in Prompts, CallQueued(c) PROVE RecoveryInv'
  BY <1>1 DEF CallQueued, Calls, Agent!Enqueue, Busy, RecoveryInv, OneStarter,
       PhaseInv, Typed, Committed, Starting, RunLocs, PcTyped, AnswerTyped
<1>2. ASSUME NEW c \in Prompts, NEW kind \in Kinds, CallDeferred(c, kind) PROVE RecoveryInv'
  BY <1>2 DEF CallDeferred, Calls, Busy, RecoveryInv, OneStarter, PhaseInv,
       Typed, Committed, Starting, RunLocs, PcTyped, AnswerTyped
<1>3. ASSUME NEW c \in Prompts, NEW kind \in Kinds, CallSubmitted(c, kind) PROVE RecoveryInv'
  BY <1>3, CallChanges DEF RecoveryInv, Typed, PcTyped, AnswerTyped, OneStarter,
       Committed, Starting, RunLocs, SubmitEffect
<1>4. ASSUME CallAbort PROVE RecoveryInv'
  BY <1>4 DEF CallAbort, AbortAll, AbortSignal, RecoveryInv, OneStarter,
       PhaseInv, Typed, Committed, Starting, RunLocs, PcTyped, AnswerTyped
<1>5. ASSUME CallCompact PROVE RecoveryInv'
  BY <1>5 DEF CallCompact, AbortAll, Busy, AbortSignal, RecoveryInv,
       OneStarter, PhaseInv, Typed, Committed, Starting, RunLocs, PcTyped,
       AnswerTyped
<1>6. ASSUME CallNavigate PROVE RecoveryInv'
  BY <1>6 DEF CallNavigate, Busy, RecoveryInv, OneStarter, PhaseInv, Typed,
       Committed, Starting, RunLocs, PcTyped, AnswerTyped
<1>7. ASSUME AbortRetry PROVE RecoveryInv'
  BY <1>7 DEF AbortRetry, RecoveryInv, OneStarter, PhaseInv, Typed, Committed,
       Starting, RunLocs, PcTyped, AnswerTyped
<1>8. ASSUME AbortCompaction PROVE RecoveryInv'
  BY <1>8 DEF AbortCompaction, AbortSignal, RecoveryInv, OneStarter, PhaseInv,
       Typed, Committed, Starting, RunLocs, PcTyped, AnswerTyped
<1>9. ASSUME RecordBash PROVE RecoveryInv'
  BY <1>9 DEF RecordBash, Sent, RecoveryInv, OneStarter, PhaseInv, Typed,
       Committed, Starting, RunLocs, PcTyped, AnswerTyped
<1>10. ASSUME SendCustom PROVE RecoveryInv'
  BY <1>10 DEF SendCustom, Sent, RecoveryInv, OneStarter, PhaseInv, Typed,
       Committed, Starting, RunLocs, PcTyped, AnswerTyped
<1>11. ASSUME ClearQueue PROVE RecoveryInv'
  BY <1>11 DEF ClearQueue, Agent!Clear, RecoveryInv, OneStarter, PhaseInv,
       Typed, Committed, Starting, RunLocs, PcTyped, AnswerTyped
<1>12. ASSUME NEW c \in Prompts, QueueInput(c) PROVE RecoveryInv'
  BY <1>12 DEF QueueInput, Agent!Enqueue, RecoveryInv, OneStarter, PhaseInv,
       Typed, Committed, Starting, RunLocs, PcTyped, AnswerTyped
<1>13. ASSUME NEW c \in Prompts, InputHandled(c) PROVE RecoveryInv'
  BY <1>13 DEF InputHandled, RecoveryInv, OneStarter, PhaseInv, Typed,
       Committed, Starting, RunLocs, PcTyped, AnswerTyped
<1>14. ASSUME NEW c \in Prompts, InputPasses(c) PROVE RecoveryInv'
  BY <1>14 DEF InputPasses, FlushAll, RecoveryInv, OneStarter, PhaseInv, Typed,
       Committed, Starting, RunLocs, PcTyped, AnswerTyped
<1>15. ASSUME NEW c \in Prompts, CheckAuth(c) PROVE RecoveryInv'
  BY <1>15 DEF CheckAuth, Compact, StartAuto, Omit, RecoveryInv, OneStarter,
       PhaseInv, Typed, Committed, Starting, RunLocs, PcTyped, AnswerTyped
<1>16. ASSUME NEW c \in Prompts, RefuseStart(c) PROVE RecoveryInv'
  BY <1>16 DEF RefuseStart, RecoveryInv, OneStarter, PhaseInv, Typed,
       Committed, Starting, RunLocs, PcTyped, AnswerTyped
<1>17. ASSUME NEW c \in Prompts, BeforeStart(c) PROVE RecoveryInv'
  BY <1>17 DEF BeforeStart, StartRun, Agent!Prompt, Agent!Move, RecoveryInv,
       OneStarter, PhaseInv, Typed, Committed, Starting, RunLocs, PcTyped,
       AnswerTyped
<1>18. ASSUME NEW r \in Runners, SaveAuto(r) PROVE RecoveryInv'
  BY <1>18 DEF SaveAuto, RecoveryInv, OneStarter, PhaseInv, Typed, Committed,
       Starting, RunLocs, PcTyped, AnswerTyped
<1>19. ASSUME NEW r \in Runners, FinishAuto(r) PROVE RecoveryInv'
  BY <1>19, FinishAutoChanges DEF RecoveryInv, Typed, PcTyped, AnswerTyped,
       OneStarter, Committed, Starting, RunLocs
<1>20. ASSUME NEW c \in Prompts, AgentFinishes(c) PROVE RecoveryInv'
  BY <1>20 DEF AgentFinishes, Agent!Finish, RecoveryInv, OneStarter, PhaseInv,
       Typed, Committed, Starting, RunLocs, PcTyped, AnswerTyped
<1>21. ASSUME NEW c \in Prompts, PostAborted(c) PROVE RecoveryInv'
  BY <1>21 DEF PostAborted, RecoveryInv, OneStarter, PhaseInv, Typed,
       Committed, Starting, RunLocs, PcTyped, AnswerTyped
<1>22. ASSUME NEW c \in Prompts, PostRetry(c) PROVE RecoveryInv'
  BY <1>22 DEF PostRetry, Retryable, Omit, RecoveryInv, OneStarter, PhaseInv,
       Typed, Committed, Starting, RunLocs, PcTyped, AnswerTyped
<1>23. ASSUME NEW c \in Prompts, PostCheck(c) PROVE RecoveryInv'
  BY <1>23 DEF PostCheck, Retryable, AfterRun, Errors, Compact, StartAuto,
       Omit, RecoveryInv, OneStarter, PhaseInv, Typed, Committed, Starting,
       RunLocs, PcTyped, AnswerTyped
<1>24. ASSUME NEW c \in Prompts, SleepOver(c) PROVE RecoveryInv'
  BY <1>24 DEF SleepOver, RecoveryInv, OneStarter, PhaseInv, Typed, Committed,
       Starting, RunLocs, PcTyped, AnswerTyped
<1>25. ASSUME NEW c \in Prompts, SleepAborted(c) PROVE RecoveryInv'
  BY <1>25 DEF SleepAborted, Compact, AfterRun, StartAuto, Omit, RecoveryInv,
       OneStarter, PhaseInv, Typed, Committed, Starting, RunLocs, PcTyped,
       AnswerTyped
<1>26. ASSUME NEW c \in Prompts, NEW user \in BOOLEAN, ContinueRun(c, user) PROVE RecoveryInv'
  BY <1>26 DEF ContinueRun, Agent!Continue, Agent!Move, RecoveryInv,
       OneStarter, PhaseInv, Typed, Committed, Starting, RunLocs, PcTyped,
       AnswerTyped
<1>27. ASSUME NEW c \in Prompts, Settle(c) PROVE RecoveryInv'
  BY <1>27 DEF Settle, RecoveryInv, OneStarter, PhaseInv, Typed, Committed,
       Starting, RunLocs, PcTyped, AnswerTyped
<1>28. ASSUME NEW c \in Prompts, NEW m \in BOOLEAN, NEW x \in BOOLEAN, BeforeSettle(c, m, x)
      PROVE  RecoveryInv'
  BY <1>28 DEF BeforeSettle, RecoveryInv, OneStarter, PhaseInv, Typed,
       Committed, Starting, RunLocs, PcTyped, AnswerTyped
<1>29. ASSUME NEW c \in Prompts, Finally(c) PROVE RecoveryInv'
  BY <1>29 DEF Finally, FlushAll, RecoveryInv, OneStarter, PhaseInv, Typed,
       Committed, Starting, RunLocs, PcTyped, AnswerTyped
<1>30. ASSUME NEW c \in Prompts, Settled(c) PROVE RecoveryInv'
  BY <1>30 DEF Settled, Outcome, Wake, Woken, RecoveryInv, OneStarter, PhaseInv, Typed,
       Committed, Starting, RunLocs, PcTyped, AnswerTyped
<1>31. ASSUME NEW c \in Prompts, RunDeferred(c) PROVE RecoveryInv'
  BY <1>31, RunDeferredChanges DEF RecoveryInv, Typed, PcTyped, AnswerTyped,
       OneStarter, Committed, Starting, RunLocs, SubmitEffect
<1>32. ASSUME NEW c \in Prompts, DeferredOver(c) PROVE RecoveryInv'
  BY <1>32, DeferredOverChanges DEF RecoveryInv, Typed, PcTyped, AnswerTyped,
       OneStarter, Committed, Starting, RunLocs
<1>33. ASSUME AgentRequests PROVE RecoveryInv'
  BY <1>33 DEF AgentRequests, Agent!Request, Agent!Move, RecoveryInv,
       OneStarter, PhaseInv, Typed, Committed, Starting, RunLocs, PcTyped,
       AnswerTyped
<1>34. ASSUME NEW user \in BOOLEAN, AgentTakes(user) PROVE RecoveryInv'
  BY <1>34 DEF AgentTakes, Agent!Take, Agent!Move, RecoveryInv, OneStarter,
       PhaseInv, Typed, Committed, Starting, RunLocs, PcTyped, AnswerTyped
<1>35. ASSUME NEW a \in Answers, NEW calls \in BOOLEAN, AgentResponds(a, calls)
      PROVE  RecoveryInv'
  BY <1>35 DEF AgentResponds, Agent!Respond, Errors, Agent!FailResponse,
       Agent!Refuse, Answered, Agent!Move, RecoveryInv, OneStarter, PhaseInv,
       Typed, Committed, Starting, RunLocs, PcTyped, AnswerTyped
<1>36. ASSUME AgentResults PROVE RecoveryInv'
  BY <1>36 DEF AgentResults, Agent!Results, Agent!Move, RecoveryInv,
       OneStarter, PhaseInv, Typed, Committed, Starting, RunLocs, PcTyped,
       AnswerTyped
<1>37. ASSUME AgentTurnEnds PROVE RecoveryInv'
  BY <1>37 DEF AgentTurnEnds, Agent!TurnEnd, FlushCustom, Agent!Move,
       RecoveryInv, OneStarter, PhaseInv, Typed, Committed, Starting, RunLocs,
       PcTyped, AnswerTyped
<1>38. ASSUME NEW n \in 0..1, NEW user \in BOOLEAN, AgentNextTurn(n, user) PROVE RecoveryInv'
  BY <1>38 DEF AgentNextTurn, Agent!NextTurn, StartAuto, Agent!Move,
       RecoveryInv, OneStarter, PhaseInv, Typed, Committed, Starting, RunLocs,
       PcTyped, AnswerTyped
<1>39. ASSUME AgentEndsRun PROVE RecoveryInv'
  BY <1>39 DEF AgentEndsRun, Agent!EndRun, FlushCustom, Agent!Move,
       RecoveryInv, OneStarter, PhaseInv, Typed, Committed, Starting, RunLocs,
       PcTyped, AnswerTyped
<1>40. ASSUME NEW answer \in Answers, AgentThrows(answer) PROVE RecoveryInv'
  BY <1>40 DEF AgentThrows, Agent!Throw, Agent!Move, RecoveryInv, OneStarter,
       PhaseInv, Typed, Committed, Starting, RunLocs, PcTyped, AnswerTyped
<1>41. ASSUME "compact" \in Others, StartCompaction PROVE RecoveryInv'
  BY <1>41 DEF StartCompaction, Compaction, RecoveryInv, OneStarter, PhaseInv,
       Typed, Committed, Starting, RunLocs, PcTyped, AnswerTyped
<1>42. ASSUME "compact" \in Others, PrepareCompaction PROVE RecoveryInv'
  BY <1>42 DEF PrepareCompaction, Compaction, RecoveryInv, OneStarter,
       PhaseInv, Typed, Committed, Starting, RunLocs, PcTyped, AnswerTyped
<1>43. ASSUME "compact" \in Others, SaveCompaction PROVE RecoveryInv'
  BY <1>43 DEF SaveCompaction, Compaction, RecoveryInv, OneStarter, PhaseInv,
       Typed, Committed, Starting, RunLocs, PcTyped, AnswerTyped
<1>44. ASSUME "compact" \in Others, FinishCompaction PROVE RecoveryInv'
  BY <1>44 DEF FinishCompaction, EndCompaction, Wake, Woken, RecoveryInv,
       OneStarter, PhaseInv, Typed, Committed, Starting, RunLocs, PcTyped,
       AnswerTyped
<1>45. ASSUME "navigate" \in Others, MoveLeaf PROVE RecoveryInv'
  BY <1>45 DEF MoveLeaf, RecoveryInv, OneStarter, PhaseInv, Typed, Committed,
       Starting, RunLocs, PcTyped, AnswerTyped
<1>46. ASSUME "navigate" \in Others, FinishNavigate PROVE RecoveryInv'
  BY <1>46 DEF FinishNavigate, Wake, Woken, RecoveryInv, OneStarter, PhaseInv,
       Typed, Committed, Starting, RunLocs, PcTyped, AnswerTyped
<1>47. ASSUME UNCHANGED vars PROVE RecoveryInv'
  BY <1>47 DEF vars, RecoveryInv, OneStarter, PhaseInv, Typed, Committed,
       Starting, RunLocs, PcTyped, AnswerTyped
<1>48. ASSUME NEW c \in Prompts, NEW n \in 1..MaxNotes, FlushThrows(c, n) PROVE RecoveryInv'
  BY <1>48 DEF FlushThrows, RecoveryInv, OneStarter, PhaseInv, Typed,
       Committed, Starting, RunLocs, PcTyped, AnswerTyped
<1> QED
  BY <1>1, <1>2, <1>3, <1>4, <1>5, <1>6, <1>7, <1>8, <1>9, <1>10, <1>11, <1>12,
       <1>13, <1>14, <1>15, <1>16, <1>17, <1>18, <1>19, <1>20, <1>21, <1>22,
       <1>23, <1>24, <1>25, <1>26, <1>27, <1>28, <1>29, <1>30, <1>31, <1>32,
       <1>33, <1>34, <1>35, <1>36, <1>37, <1>38, <1>39, <1>40, <1>41, <1>42,
       <1>43, <1>44, <1>45, <1>46, <1>47, <1>48
     DEF Next, Client, CallPrompt, Serve, AgentStep, CompactStep, TreeStep

(* The callers in the lists of deferred actions are prompts.               *)
LEMMA ListedCallers ==
  ASSUME Typed
  PROVE  /\ \A i \in 1..Len(deferred) : deferred[i].caller \in Prompts
         /\ \A c \in Prompts : \A i \in 1..Len(todo[c]) : todo[c][i].caller \in Prompts
         /\ Len(deferred) \in Nat /\ \A c \in Prompts : Len(todo[c]) \in Nat
<1>1. ASSUME NEW s \in Seq(Entries)
      PROVE  Len(s) \in Nat /\ \A i \in 1..Len(s) : s[i].caller \in Prompts
  <2>1. Len(s) \in Nat /\ \A i \in 1..Len(s) : s[i] \in Entries
    OBVIOUS
  <2>2. \A e \in Entries : e.caller \in Prompts
    BY DEF Entries
  <2> QED
    BY <2>1, <2>2
<1> QED
  BY <1>1 DEF Typed, RunTyped

(* The lists are as they were, and so are the calls that wait in them.     *)
LEMMA DeferKept ==
  ASSUME Typed, DeferInv, deferred' = deferred, todo' = todo,
         \A x \in Prompts : pc[x] = "deferred" => pc'[x] = "deferred",
         \A x \in Prompts : pc[x] # "new" => pc'[x] # "new"
  PROVE  DeferInv'
<1>1. ASSUME NEW i \in 1..Len(deferred') PROVE pc'[deferred'[i].caller] = "deferred"
  <2>1. deferred[i].caller \in Prompts
    BY ListedCallers
  <2>2. pc[deferred[i].caller] = "deferred"
    BY DEF DeferInv, Waiting
  <2> QED
    BY <2>1, <2>2
<1>2. ASSUME NEW c \in Prompts, NEW i \in 1..Len(todo'[c])
      PROVE  /\ pc'[todo'[c][i].caller] # "new"
             /\ i \in 2..Len(todo'[c]) => pc'[todo'[c][i].caller] = "deferred"
  <2>1. todo[c][i].caller \in Prompts
    BY ListedCallers
  <2>2. /\ pc[todo[c][i].caller] # "new"
        /\ i \in 2..Len(todo[c]) => pc[todo[c][i].caller] = "deferred"
    BY DEF DeferInv, Waiting
  <2> QED
    BY <2>1, <2>2
<1>3. \A c \in Prompts : \A i \in 2..Len(todo'[c]) : i \in 1..Len(todo'[c])
  BY ListedCallers
<1>4. Waiting'
  BY <1>1, <1>2, <1>3 DEF Waiting
<1>5. OnePlace'
  BY DEF DeferInv, OnePlace
<1> QED
  BY <1>4, <1>5 DEF DeferInv

(* A call joins the end of the list.                                       *)
LEMMA CallDeferredKeeps ==
  ASSUME Typed, DeferInv, NEW c \in Prompts, NEW kind \in Kinds, CallDeferred(c, kind)
  PROVE  DeferInv'
<1>1. /\ pc[c] = "new" /\ pc'[c] = "deferred" /\ todo' = todo
      /\ \A x \in Prompts : x # c => pc'[x] = pc[x]
  BY DEF CallDeferred, Calls, At, Typed, PcTyped, Callers
<1>2. deferred' = Append(deferred, [caller |-> c, kind |-> kind]) /\ deferred \in Seq(Entries)
  BY DEF CallDeferred, Typed, RunTyped
<1>3. /\ Len(deferred') = Len(deferred) + 1 /\ deferred'[Len(deferred) + 1].caller = c
      /\ \A i \in 1..Len(deferred) : deferred'[i] = deferred[i]
  BY <1>2
<1>4. \A i \in 1..Len(deferred) : deferred[i].caller \in Prompts \ {c}
  BY <1>1, ListedCallers DEF DeferInv, Waiting, OnePlace
<1>5. \A d \in Prompts : \A i \in 1..Len(todo[d]) : todo[d][i].caller \in Prompts \ {c}
  BY <1>1, ListedCallers DEF DeferInv, Waiting, OnePlace
<1>6. \A i \in 1..Len(deferred') :
         \/ i \in 1..Len(deferred) /\ deferred'[i].caller = deferred[i].caller
         \/ i = Len(deferred) + 1 /\ deferred'[i].caller = c
  BY <1>3, ListedCallers
<1>7. \A i \in 1..Len(deferred') : pc'[deferred'[i].caller] = "deferred"
  BY <1>1, <1>4, <1>6 DEF DeferInv, Waiting, OnePlace
<1>8. \A i, j \in 1..Len(deferred') : deferred'[i].caller = deferred'[j].caller => i = j
  BY <1>4, <1>6 DEF DeferInv, Waiting, OnePlace
<1>9. \A d \in Prompts : \A i \in 1..Len(todo[d]), j \in 1..Len(deferred') :
         todo[d][i].caller # deferred'[j].caller
  BY <1>5, <1>6 DEF DeferInv, Waiting, OnePlace
<1>10. /\ \A d \in Prompts : \A i \in 1..Len(todo[d]) : pc'[todo[d][i].caller] # "new"
       /\ \A d \in Prompts : \A i \in 2..Len(todo[d]) : pc'[todo[d][i].caller] = "deferred"
  BY <1>1, <1>5, ListedCallers DEF DeferInv, Waiting, OnePlace
<1> QED
  BY <1>1, <1>7, <1>8, <1>9, <1>10 DEF DeferInv, Waiting, OnePlace

(* The list is taken over as a whole.                                      *)
LEMMA SettledKeeps ==
  ASSUME Typed, DeferInv, NEW c \in Prompts, Settled(c)
  PROVE  DeferInv'
<1>1. /\ pc[c] = "settling" /\ pc'[c] # "new"
      /\ \A x \in Prompts : x # c => pc'[x] = pc[x]
  BY Names DEF Settled, Outcome, Wake, Woken, At, Typed, PcTyped, Callers, Busy
<1>2. /\ deferred' = <<>> /\ Len(deferred') = 0
      /\ \A d \in Prompts : todo'[d] = IF d = c THEN deferred ELSE todo[d]
  BY DEF Settled, Typed, RunTyped
<1>3. \A i \in 1..Len(deferred) : deferred[i].caller \in Prompts \ {c} /\ pc[deferred[i].caller] = "deferred"
  BY <1>1, ListedCallers DEF DeferInv, Waiting, OnePlace
<1>4. \A d \in Prompts : \A i \in 1..Len(todo[d]) :
         /\ todo[d][i].caller \in Prompts /\ pc'[todo[d][i].caller] # "new"
         /\ i \in 2..Len(todo[d]) => pc'[todo[d][i].caller] = "deferred"
  BY <1>1, ListedCallers DEF DeferInv, Waiting, OnePlace
<1>5. /\ \A d \in Prompts : \A i \in 1..Len(todo'[d]) : pc'[todo'[d][i].caller] # "new"
      /\ \A d \in Prompts : \A i \in 2..Len(todo'[d]) : pc'[todo'[d][i].caller] = "deferred"
  <2>1. \A i \in 1..Len(deferred) : pc'[deferred[i].caller] = "deferred"
    BY <1>1, <1>3
  <2>2. ASSUME NEW d \in Prompts, NEW i \in 1..Len(todo'[d])
        PROVE  /\ pc'[todo'[d][i].caller] # "new"
               /\ i \in 2..Len(todo'[d]) => pc'[todo'[d][i].caller] = "deferred"
    <3>1. CASE d = c
      BY <1>2, <2>1, <2>2, <3>1
    <3>2. CASE d # c
      BY <1>2, <1>4, <2>2, <3>2
    <3> QED
      BY <3>1, <3>2
  <2>3. \A d \in Prompts : \A i \in 2..Len(todo'[d]) : i \in 1..Len(todo'[d])
    BY <1>2, ListedCallers
  <2> QED
    BY <2>2, <2>3
<1>6. \A d, e \in Prompts : \A i \in 1..Len(todo'[d]), j \in 1..Len(todo'[e]) :
         todo'[d][i].caller = todo'[e][j].caller => d = e /\ i = j
  BY <1>2 DEF DeferInv, Waiting, OnePlace
<1> QED
  BY <1>2, <1>5, <1>6 DEF DeferInv, Waiting, OnePlace

(* The head of a list goes back to the end of the other, or is submitted.  *)
LEMMA RunDeferredKeeps ==
  ASSUME Typed, DeferInv, NEW c \in Prompts, RunDeferred(c)
  PROVE  DeferInv'
<1> DEFINE h == Head(todo[c])
<1>1. todo[c] \in Seq(Entries) /\ todo[c] # <<>> /\ deferred \in Seq(Entries)
  BY DEF RunDeferred, Typed, RunTyped
<1>2. h = todo[c][1] /\ Len(todo[c]) \in Nat /\ Len(todo[c]) >= 1 /\ h \in Entries
  BY <1>1
<1>3. h.caller \in Prompts /\ h.kind \in Kinds /\ pc[h.caller] = "deferred"
  BY <1>2 DEF RunDeferred, Entries
<1>4. CASE Submit(h.caller, h.kind) /\ UNCHANGED <<deferred, todo>>
  <2>1. SubmitEffect(h.caller)
    BY <1>3, <1>4, SubmitChanges DEF RunDeferred
  <2>2. \A x \in Prompts : (x # h.caller => pc'[x] = pc[x]) /\ pc'[h.caller] # "new"
    BY <1>3, <2>1 DEF SubmitEffect, Callers
  <2>3. /\ \A i \in 1..Len(deferred) : deferred[i].caller # h.caller
        /\ \A d \in Prompts : \A i \in 2..Len(todo[d]) : todo[d][i].caller # h.caller
    BY <1>2, ListedCallers DEF DeferInv, Waiting, OnePlace
  <2>4. \A i \in 1..Len(deferred) : pc'[deferred[i].caller] = "deferred"
    BY <2>2, <2>3, ListedCallers DEF DeferInv, Waiting, OnePlace
  <2>5. \A d \in Prompts : \A i \in 1..Len(todo[d]) : pc'[todo[d][i].caller] # "new"
    BY <2>2, ListedCallers DEF DeferInv, Waiting, OnePlace
  <2>6. \A d \in Prompts : \A i \in 2..Len(todo[d]) : pc'[todo[d][i].caller] = "deferred"
    <3> SUFFICES ASSUME NEW d \in Prompts, NEW i \in 2..Len(todo[d])
                 PROVE  pc'[todo[d][i].caller] = "deferred"
      OBVIOUS
    <3>1. i \in 1..Len(todo[d]) /\ todo[d][i].caller \in Prompts
      BY ListedCallers
    <3>2. pc[todo[d][i].caller] = "deferred"
      BY DEF DeferInv, Waiting, OnePlace
    <3> QED
      BY <2>2, <2>3, <3>1, <3>2
  <2>7. UNCHANGED <<deferred, todo>>
    BY <1>4
  <2>8. Waiting'
    BY <2>4, <2>5, <2>6, <2>7 DEF Waiting
  <2>9. OnePlace'
    BY <2>7 DEF DeferInv, OnePlace
  <2> QED
    BY <2>8, <2>9 DEF DeferInv
<1>5. CASE /\ deferred' = Append(deferred, h) /\ todo' = [todo EXCEPT ![c] = Tail(@)]
           /\ pc' = pc
  <2>1. /\ Len(deferred') = Len(deferred) + 1 /\ deferred'[Len(deferred) + 1] = h
        /\ \A i \in 1..Len(deferred) : deferred'[i] = deferred[i]
    BY <1>1, <1>2, <1>5
  <2>2. \A i \in 1..Len(deferred') :
           \/ i \in 1..Len(deferred) /\ deferred'[i].caller = deferred[i].caller
           \/ i = Len(deferred) + 1 /\ deferred'[i].caller = h.caller
    BY <2>1, ListedCallers
  <2>3. /\ Len(todo'[c]) = Len(todo[c]) - 1
        /\ \A i \in 1..Len(todo'[c]) : i + 1 \in 2..Len(todo[c]) /\ todo'[c][i] = todo[c][i + 1]
    BY <1>1, <1>2, <1>5 DEF Typed, RunTyped
  <2>4. \A d \in Prompts : d # c => todo'[d] = todo[d]
    BY <1>5 DEF Typed, RunTyped
  <2>5. \A d \in Prompts : \A i \in 1..Len(todo'[d]) : \E k \in 1..Len(todo[d]) :
           /\ todo'[d][i] = todo[d][k] /\ k = (IF d = c THEN i + 1 ELSE i)
    BY <2>3, <2>4, ListedCallers
  <2>6. \A d \in Prompts : \A i \in 1..Len(todo'[d]) : todo'[d][i].caller # h.caller
    <3> SUFFICES ASSUME NEW d \in Prompts, NEW i \in 1..Len(todo'[d]), todo'[d][i].caller = h.caller
                 PROVE  FALSE
      OBVIOUS
    <3>1. PICK k \in 1..Len(todo[d]) : todo'[d][i] = todo[d][k] /\ k = (IF d = c THEN i + 1 ELSE i)
      BY <2>5
    <3>2. 1 \in 1..Len(todo[c]) /\ todo[c][1].caller = todo[d][k].caller
      BY <1>2, <3>1
    <3>3. d = c /\ k = 1
      BY <3>2 DEF DeferInv, Waiting, OnePlace
    <3>4. i \in Nat /\ i >= 1
      BY <2>3, <3>3, ListedCallers
    <3> QED
      BY <3>1, <3>3, <3>4
  <2>7. \A i \in 1..Len(deferred) : deferred[i].caller # h.caller
    BY <1>2 DEF DeferInv, Waiting, OnePlace
  <2>8. \A i \in 1..Len(deferred') : pc'[deferred'[i].caller] = "deferred"
    BY <1>3, <1>5, <2>2 DEF DeferInv, Waiting, OnePlace
  <2>9. \A i, j \in 1..Len(deferred') : deferred'[i].caller = deferred'[j].caller => i = j
    BY <2>2, <2>7 DEF DeferInv, Waiting, OnePlace
  <2>10. /\ \A d \in Prompts : \A i \in 1..Len(todo'[d]) : pc'[todo'[d][i].caller] # "new"
         /\ \A d \in Prompts : \A i \in 2..Len(todo'[d]) : pc'[todo'[d][i].caller] = "deferred"
    <3>1. ASSUME NEW i \in 1..Len(todo'[c]) PROVE pc'[todo'[c][i].caller] = "deferred"
      BY <1>5, <2>3, <3>1 DEF DeferInv, Waiting, OnePlace
    <3>2. ASSUME NEW d \in Prompts, d # c
          PROVE  /\ \A i \in 1..Len(todo'[d]) : pc'[todo'[d][i].caller] # "new"
                 /\ \A i \in 2..Len(todo'[d]) : pc'[todo'[d][i].caller] = "deferred"
      BY <1>5, <2>4, <3>2 DEF DeferInv, Waiting, OnePlace
    <3>3. \A i \in 2..Len(todo'[c]) : i \in 1..Len(todo'[c])
      BY <1>2, <2>3
    <3> QED
      BY <3>1, <3>2, <3>3
  <2>11. \A d, e \in Prompts : \A i \in 1..Len(todo'[d]), j \in 1..Len(todo'[e]) :
            todo'[d][i].caller = todo'[e][j].caller => d = e /\ i = j
    <3> SUFFICES ASSUME NEW d \in Prompts, NEW e \in Prompts, NEW i \in 1..Len(todo'[d]),
                        NEW j \in 1..Len(todo'[e]), todo'[d][i].caller = todo'[e][j].caller
                 PROVE  d = e /\ i = j
      OBVIOUS
    <3>1. PICK k \in 1..Len(todo[d]) : todo'[d][i] = todo[d][k] /\ k = (IF d = c THEN i + 1 ELSE i)
      BY <2>5
    <3>2. PICK l \in 1..Len(todo[e]) : todo'[e][j] = todo[e][l] /\ l = (IF e = c THEN j + 1 ELSE j)
      BY <2>5
    <3>3. d = e /\ k = l
      BY <3>1, <3>2 DEF DeferInv, Waiting, OnePlace
    <3> QED
      BY <3>1, <3>2, <3>3
  <2>12. \A d \in Prompts : \A i \in 1..Len(todo'[d]), j \in 1..Len(deferred') :
            todo'[d][i].caller # deferred'[j].caller
    <3> SUFFICES ASSUME NEW d \in Prompts, NEW i \in 1..Len(todo'[d]), NEW j \in 1..Len(deferred')
                 PROVE  todo'[d][i].caller # deferred'[j].caller
      OBVIOUS
    <3>1. PICK k \in 1..Len(todo[d]) : todo'[d][i] = todo[d][k]
      BY <2>5
    <3>2. CASE j \in 1..Len(deferred) /\ deferred'[j].caller = deferred[j].caller
      BY <3>1, <3>2 DEF DeferInv, Waiting, OnePlace
    <3> QED
      BY <2>2, <2>6, <3>2
  <2> QED
    BY <2>8, <2>9, <2>10, <2>11, <2>12 DEF DeferInv, Waiting, OnePlace
<1> QED
  BY <1>4, <1>5 DEF RunDeferred

(* A list loses its head, or is dropped.                                   *)
LEMMA DeferredOverKeeps ==
  ASSUME Typed, DeferInv, NEW c \in Prompts, DeferredOver(c)
  PROVE  DeferInv'
<1> USE Names DEF Callers
<1>1. todo[c] \in Seq(Entries) /\ deferred' = deferred
  BY DEF DeferredOver, Typed, RunTyped
<1>2. CASE todo' = todo /\ Wake(c, Outcome(c))
  <2>1. \A x \in Prompts : pc'[x] = pc[x] \/ (pc[x] = "draining" /\ pc'[x] \in {"done", "rejected"})
    BY <1>2 DEF DeferredOver, Outcome, Wake, Woken, Typed, PcTyped, Busy
  <2> QED
    BY <1>1, <1>2, <2>1, DeferKept
<1>3. CASE todo[c] # <<>> /\ todo' = [todo EXCEPT ![c] = Tail(@)] /\ pc' = pc
  <2>1. /\ Len(todo'[c]) = Len(todo[c]) - 1 /\ Len(todo[c]) \in Nat
        /\ \A i \in 1..Len(todo'[c]) : i + 1 \in 2..Len(todo[c]) /\ todo'[c][i] = todo[c][i + 1]
    BY <1>1, <1>3 DEF Typed, RunTyped
  <2>2. \A d \in Prompts : d # c => todo'[d] = todo[d]
    BY <1>3 DEF Typed, RunTyped
  <2>3. \A d \in Prompts : \A i \in 1..Len(todo'[d]) : \E k \in 1..Len(todo[d]) :
           /\ todo'[d][i] = todo[d][k] /\ k = (IF d = c THEN i + 1 ELSE i)
    BY <2>1, <2>2, ListedCallers
  <2>4. /\ \A d \in Prompts : \A i \in 1..Len(todo'[d]) : pc'[todo'[d][i].caller] # "new"
        /\ \A d \in Prompts : \A i \in 2..Len(todo'[d]) : pc'[todo'[d][i].caller] = "deferred"
    BY <1>3, <2>1, <2>2 DEF DeferInv, Waiting, OnePlace
  <2>5. \A d, e \in Prompts : \A i \in 1..Len(todo'[d]), j \in 1..Len(todo'[e]) :
           todo'[d][i].caller = todo'[e][j].caller => d = e /\ i = j
    <3> SUFFICES ASSUME NEW d \in Prompts, NEW e \in Prompts, NEW i \in 1..Len(todo'[d]),
                        NEW j \in 1..Len(todo'[e]), todo'[d][i].caller = todo'[e][j].caller
                 PROVE  d = e /\ i = j
      OBVIOUS
    <3>1. PICK k \in 1..Len(todo[d]) : todo'[d][i] = todo[d][k] /\ k = (IF d = c THEN i + 1 ELSE i)
      BY <2>3
    <3>2. PICK l \in 1..Len(todo[e]) : todo'[e][j] = todo[e][l] /\ l = (IF e = c THEN j + 1 ELSE j)
      BY <2>3
    <3>3. d = e /\ k = l
      BY <3>1, <3>2 DEF DeferInv, Waiting, OnePlace
    <3> QED
      BY <3>1, <3>2, <3>3
  <2>6. \A d \in Prompts : \A i \in 1..Len(todo'[d]), j \in 1..Len(deferred') :
           todo'[d][i].caller # deferred'[j].caller
    <3> SUFFICES ASSUME NEW d \in Prompts, NEW i \in 1..Len(todo'[d]), NEW j \in 1..Len(deferred')
                 PROVE  todo'[d][i].caller # deferred'[j].caller
      OBVIOUS
    <3>1. PICK k \in 1..Len(todo[d]) : todo'[d][i] = todo[d][k]
      BY <2>3
    <3> QED
      BY <1>1, <3>1 DEF DeferInv, Waiting, OnePlace
  <2> QED
    BY <1>1, <1>3, <2>4, <2>5, <2>6 DEF DeferInv, Waiting, OnePlace
<1>4. CASE /\ todo[c] # <<>> /\ todo' = [todo EXCEPT ![c] = <<>>]
           /\ pc' = [x \in Callers |-> IF x = c THEN "rejected"
                                       ELSE IF x \in {a.caller : a \in Range(Tail(todo[c]))} THEN "dropped"
                                       ELSE Woken(x)]
  <2>1. Len(todo'[c]) = 0 /\ \A d \in Prompts : d # c => todo'[d] = todo[d]
    BY <1>4 DEF Typed, RunTyped
  <2>2. \A x \in {a.caller : a \in Range(Tail(todo[c]))} : \E i \in 1..Len(todo[c]) : x = todo[c][i].caller
    <3> SUFFICES ASSUME NEW a \in Range(Tail(todo[c]))
                 PROVE  \E i \in 1..Len(todo[c]) : a.caller = todo[c][i].caller
      OBVIOUS
    <3>1. PICK i \in DOMAIN Tail(todo[c]) : a = Tail(todo[c])[i]
      BY DEF Range
    <3>2. i + 1 \in 1..Len(todo[c]) /\ a = todo[c][i + 1]
      BY <1>1, <1>4, <3>1
    <3> QED
      BY <3>2
  <2>3. pc[c] = "draining"
    BY DEF DeferredOver
  <2>4. \A x \in Prompts :
           /\ pc[x] # "new" => pc'[x] # "new"
           /\ pc[x] = "deferred" /\ (\A i \in 1..Len(todo[c]) : x # todo[c][i].caller) => pc'[x] = "deferred"
    BY <1>4, <2>2, <2>3 DEF Woken, Typed, PcTyped, Busy
  <2>5. \A i \in 1..Len(deferred) : pc'[deferred[i].caller] = "deferred"
    BY <2>4, ListedCallers DEF DeferInv, Waiting, OnePlace
  <2>6. \A d \in Prompts : \A i \in 1..Len(todo'[d]) : d # c /\ todo'[d] = todo[d] /\ i \in 1..Len(todo[d])
    BY <2>1
  <2>7. \A d \in Prompts : \A i \in 1..Len(todo'[d]) : pc'[todo'[d][i].caller] # "new"
    BY <2>4, <2>6, ListedCallers DEF DeferInv, Waiting, OnePlace
  <2>8. \A d \in Prompts : \A i \in 2..Len(todo'[d]) : pc'[todo'[d][i].caller] = "deferred"
    <3> SUFFICES ASSUME NEW d \in Prompts, NEW i \in 2..Len(todo'[d])
                 PROVE  pc'[todo'[d][i].caller] = "deferred"
      OBVIOUS
    <3>1. d # c /\ todo'[d] = todo[d]
      BY <2>1
    <3>2. todo[d][i].caller \in Prompts /\ i \in 1..Len(todo[d]) /\ pc[todo[d][i].caller] = "deferred"
      BY <3>1, ListedCallers DEF DeferInv, Waiting, OnePlace
    <3>3. \A j \in 1..Len(todo[c]) : todo[d][i].caller # todo[c][j].caller
      BY <3>1, <3>2 DEF DeferInv, Waiting, OnePlace
    <3> QED
      BY <2>4, <3>1, <3>2, <3>3
  <2> QED
    BY <1>1, <2>5, <2>6, <2>7, <2>8 DEF DeferInv, Waiting, OnePlace
<1> QED
  BY <1>1, <1>2, <1>3, <1>4 DEF DeferredOver

(* Every step keeps the lists of deferred actions apart.                   *)
LEMMA DeferStep ==
  ASSUME Typed, SigInv, DeferInv, [Next]_vars
  PROVE  DeferInv'
<1> USE Names DEF Callers, Runners, At, agentVars, runVars, ctlVars, answerVars, noteVars, placeVars
<1>1. ASSUME NEW c \in Prompts, CallQueued(c) PROVE DeferInv'
  BY <1>1, DeferKept DEF CallQueued, Calls, Agent!Enqueue, Busy, Typed, PcTyped
<1>2. ASSUME NEW c \in Prompts, NEW kind \in Kinds, CallDeferred(c, kind) PROVE DeferInv'
  BY <1>2, CallDeferredKeeps
<1>3. ASSUME NEW c \in Prompts, NEW kind \in Kinds, CallSubmitted(c, kind) PROVE DeferInv'
  BY <1>3, CallChanges, DeferKept DEF SubmitEffect, CallSubmitted
<1>4. ASSUME CallAbort PROVE DeferInv'
  BY <1>4, DeferKept DEF CallAbort, AbortAll, AbortSignal, Typed, PcTyped
<1>5. ASSUME CallCompact PROVE DeferInv'
  BY <1>5, DeferKept DEF CallCompact, AbortAll, Busy, AbortSignal, Typed, PcTyped
<1>6. ASSUME CallNavigate PROVE DeferInv'
  BY <1>6, DeferKept DEF CallNavigate, Busy, Typed, PcTyped
<1>7. ASSUME AbortRetry PROVE DeferInv'
  BY <1>7, DeferKept DEF AbortRetry, Typed, PcTyped
<1>8. ASSUME AbortCompaction PROVE DeferInv'
  BY <1>8, DeferKept DEF AbortCompaction, AbortSignal, Typed, PcTyped
<1>9. ASSUME RecordBash PROVE DeferInv'
  BY <1>9, DeferKept DEF RecordBash, Sent, Typed, PcTyped
<1>10. ASSUME SendCustom PROVE DeferInv'
  BY <1>10, DeferKept DEF SendCustom, Sent, Typed, PcTyped
<1>11. ASSUME ClearQueue PROVE DeferInv'
  BY <1>11, DeferKept DEF ClearQueue, Agent!Clear, Typed, PcTyped
<1>12. ASSUME NEW c \in Prompts, QueueInput(c) PROVE DeferInv'
  BY <1>12, DeferKept DEF QueueInput, Agent!Enqueue, Typed, PcTyped
<1>13. ASSUME NEW c \in Prompts, InputHandled(c) PROVE DeferInv'
  BY <1>13, DeferKept DEF InputHandled, Typed, PcTyped
<1>14. ASSUME NEW c \in Prompts, InputPasses(c) PROVE DeferInv'
  BY <1>14, DeferKept DEF InputPasses, FlushAll, Typed, PcTyped
<1>15. ASSUME NEW c \in Prompts, CheckAuth(c) PROVE DeferInv'
  BY <1>15, DeferKept DEF CheckAuth, Compact, StartAuto, Omit, Typed, PcTyped
<1>16. ASSUME NEW c \in Prompts, RefuseStart(c) PROVE DeferInv'
  BY <1>16, DeferKept DEF RefuseStart, Typed, PcTyped
<1>17. ASSUME NEW c \in Prompts, BeforeStart(c) PROVE DeferInv'
  BY <1>17, DeferKept DEF BeforeStart, StartRun, Agent!Prompt, Agent!Move, Typed,
       PcTyped
<1>18. ASSUME NEW r \in Runners, SaveAuto(r) PROVE DeferInv'
  BY <1>18, DeferKept DEF SaveAuto, Typed, PcTyped
<1>19. ASSUME NEW r \in Runners, FinishAuto(r) PROVE DeferInv'
  BY <1>19, FinishAutoChanges, DeferKept DEF FinishAuto
<1>20. ASSUME NEW c \in Prompts, AgentFinishes(c) PROVE DeferInv'
  BY <1>20, DeferKept DEF AgentFinishes, Agent!Finish, Typed, PcTyped
<1>21. ASSUME NEW c \in Prompts, PostAborted(c) PROVE DeferInv'
  BY <1>21, DeferKept DEF PostAborted, Typed, PcTyped
<1>22. ASSUME NEW c \in Prompts, PostRetry(c) PROVE DeferInv'
  BY <1>22, DeferKept DEF PostRetry, Retryable, Omit, Typed, PcTyped
<1>23. ASSUME NEW c \in Prompts, PostCheck(c) PROVE DeferInv'
  BY <1>23, DeferKept DEF PostCheck, Retryable, AfterRun, Errors, Compact,
       StartAuto, Omit, Typed, PcTyped
<1>24. ASSUME NEW c \in Prompts, SleepOver(c) PROVE DeferInv'
  BY <1>24, DeferKept DEF SleepOver, Typed, PcTyped
<1>25. ASSUME NEW c \in Prompts, SleepAborted(c) PROVE DeferInv'
  BY <1>25, DeferKept DEF SleepAborted, Compact, AfterRun, StartAuto, Omit, Typed,
       PcTyped
<1>26. ASSUME NEW c \in Prompts, NEW user \in BOOLEAN, ContinueRun(c, user) PROVE DeferInv'
  BY <1>26, DeferKept DEF ContinueRun, Agent!Continue, Agent!Move, Typed, PcTyped
<1>27. ASSUME NEW c \in Prompts, Settle(c) PROVE DeferInv'
  BY <1>27, DeferKept DEF Settle, Typed, PcTyped
<1>28. ASSUME NEW c \in Prompts, NEW m \in BOOLEAN, NEW x \in BOOLEAN, BeforeSettle(c, m, x)
      PROVE  DeferInv'
  BY <1>28, DeferKept DEF BeforeSettle, Typed, PcTyped
<1>29. ASSUME NEW c \in Prompts, Finally(c) PROVE DeferInv'
  BY <1>29, DeferKept DEF Finally, FlushAll, Typed, PcTyped
<1>30. ASSUME NEW c \in Prompts, Settled(c) PROVE DeferInv'
  BY <1>30, SettledKeeps
<1>31. ASSUME NEW c \in Prompts, RunDeferred(c) PROVE DeferInv'
  BY <1>31, RunDeferredKeeps
<1>32. ASSUME NEW c \in Prompts, DeferredOver(c) PROVE DeferInv'
  BY <1>32, DeferredOverKeeps
<1>33. ASSUME AgentRequests PROVE DeferInv'
  BY <1>33, DeferKept DEF AgentRequests, Agent!Request, Agent!Move, Typed, PcTyped
<1>34. ASSUME NEW user \in BOOLEAN, AgentTakes(user) PROVE DeferInv'
  BY <1>34, DeferKept DEF AgentTakes, Agent!Take, Agent!Move, Typed, PcTyped
<1>35. ASSUME NEW a \in Answers, NEW calls \in BOOLEAN, AgentResponds(a, calls) PROVE DeferInv'
  BY <1>35, DeferKept DEF AgentResponds, Agent!Respond, Errors, Agent!FailResponse,
       Agent!Refuse, Answered, Agent!Move, Typed, PcTyped
<1>36. ASSUME AgentResults PROVE DeferInv'
  BY <1>36, DeferKept DEF AgentResults, Agent!Results, Agent!Move, Typed, PcTyped
<1>37. ASSUME AgentTurnEnds PROVE DeferInv'
  BY <1>37, DeferKept DEF AgentTurnEnds, Agent!TurnEnd, FlushCustom, Agent!Move,
       Typed, PcTyped
<1>38. ASSUME NEW n \in 0..1, NEW user \in BOOLEAN, AgentNextTurn(n, user) PROVE DeferInv'
  BY <1>38, DeferKept DEF AgentNextTurn, Agent!NextTurn, StartAuto, Agent!Move,
       Typed, PcTyped
<1>39. ASSUME AgentEndsRun PROVE DeferInv'
  BY <1>39, DeferKept DEF AgentEndsRun, Agent!EndRun, FlushCustom, Agent!Move,
       Typed, PcTyped
<1>40. ASSUME NEW answer \in Answers, AgentThrows(answer) PROVE DeferInv'
  BY <1>40, DeferKept DEF AgentThrows, Agent!Throw, Agent!Move, Typed, PcTyped
<1>41. ASSUME "compact" \in Others, StartCompaction PROVE DeferInv'
  BY <1>41, DeferKept DEF StartCompaction, Compaction, Typed, PcTyped
<1>42. ASSUME "compact" \in Others, PrepareCompaction PROVE DeferInv'
  BY <1>42, DeferKept DEF PrepareCompaction, Compaction, Typed, PcTyped
<1>43. ASSUME "compact" \in Others, SaveCompaction PROVE DeferInv'
  BY <1>43, DeferKept DEF SaveCompaction, Compaction, Typed, PcTyped
<1>44. ASSUME "compact" \in Others, FinishCompaction PROVE DeferInv'
  BY <1>44, DeferKept DEF FinishCompaction, EndCompaction, Wake, Woken, Busy,
       Typed, PcTyped
<1>45. ASSUME "navigate" \in Others, MoveLeaf PROVE DeferInv'
  BY <1>45, DeferKept DEF MoveLeaf, Typed, PcTyped
<1>46. ASSUME "navigate" \in Others, FinishNavigate PROVE DeferInv'
  BY <1>46, DeferKept DEF FinishNavigate, Wake, Woken, Busy, Typed, PcTyped
<1>47. ASSUME UNCHANGED vars PROVE DeferInv'
  BY <1>47, DeferKept DEF vars, Typed, PcTyped
<1>48. ASSUME NEW c \in Prompts, NEW n \in 1..MaxNotes, FlushThrows(c, n) PROVE DeferInv'
  BY <1>48, DeferKept DEF FlushThrows, Typed, PcTyped
<1> QED
  BY <1>1, <1>2, <1>3, <1>4, <1>5, <1>6, <1>7, <1>8, <1>9, <1>10, <1>11, <1>12,
       <1>13, <1>14, <1>15, <1>16, <1>17, <1>18, <1>19, <1>20, <1>21, <1>22,
       <1>23, <1>24, <1>25, <1>26, <1>27, <1>28, <1>29, <1>30, <1>31, <1>32,
       <1>33, <1>34, <1>35, <1>36, <1>37, <1>38, <1>39, <1>40, <1>41, <1>42,
       <1>43, <1>44, <1>45, <1>46, <1>47, <1>48
     DEF Next, Client, CallPrompt, Serve, AgentStep, CompactStep, TreeStep

-----------------------------------------------------------------------------
(* The fields of the session agree with where its prompts are.             *)
Coherent ==
    /\ Typed /\ DeferInv /\ SigInv /\ PhaseInv /\ ActiveInv /\ AutoInv /\ RetryInv /\ RecoveryInv
    /\ NothingLeftPending

(* They do at first.                                                       *)
LEMMA InitCoherent ==
  ASSUME Init
  PROVE  Coherent
<1> USE Names DEF Callers, Runners
<1>1. phase = "idle" /\ signal = FALSE /\ queued = 0
  BY DEF Init, Agent!Init
<1>2. AgentTyped /\ PcTyped
  BY <1>1 DEF Init, AgentTyped, PcTyped, Agent!Phases, Locs, Busy
<1>3. RunTyped
  BY SeqFacts DEF Init, RunTyped
<1>4. CtlTyped /\ AnswerTyped /\ NoteTyped /\ PlaceTyped
  <2>1. CtlTyped
    BY DEF Init, CtlTyped, Signals
  <2>2. AnswerTyped
    <3>1. recovered \in BOOLEAN /\ last \in Answers \cup {"none"} /\ tail \in {"assistant", "other"}
      BY DEF Init
    <3>2. attempt \in 0..MaxRetries /\ turns \in 0..MaxTurns /\ recoveries \in Nat
      BY DEF Init
    <3> QED
      BY <3>1, <3>2 DEF AnswerTyped
  <2>3. NoteTyped /\ PlaceTyped
    BY DEF Init, NoteTyped, PlaceTyped
  <2> QED
    BY <2>1, <2>2, <2>3
<1>5. deferred = <<>> /\ \A c \in Prompts : todo[c] = <<>>
  BY DEF Init
<1>6. Len(<<>>) = 0
  OBVIOUS
<1>7. DeferInv
  BY <1>5, <1>6 DEF DeferInv, Waiting, OnePlace
<1>8. SigInv /\ PhaseInv /\ ActiveInv /\ AutoInv /\ RetryInv /\ RecoveryInv /\ NothingLeftPending
  BY <1>1 DEF Init, SigInv, PhaseInv, ActiveInv, AutoInv, RetryInv, RecoveryInv, NothingLeftPending, RunLocs
<1> QED
  BY <1>2, <1>3, <1>4, <1>7, <1>8 DEF Coherent, Typed

(* As long as one prompt is past its input handlers, every step keeps it.  *)
LEMMA CoherentStep ==
  ASSUME Coherent, OneStarter, [Next]_vars
  PROVE  Coherent'
BY TypedStep, DeferStep, SigStep, PhaseStep, ActiveStep, AutoStep, RetryStep, RecoveryStep, PendingStep
   DEF Coherent

(* So it always holds.                                                     *)
LEMMA CoherentAlways == Spec /\ []OneStarter => []Coherent
<1>1. Init => Coherent
  BY InitCoherent
<1>2. Coherent /\ OneStarter /\ [Next]_vars => Coherent'
  BY CoherentStep
<1> QED
  BY <1>1, <1>2, PTL DEF Spec

-----------------------------------------------------------------------------
(* No bash result and no custom message is left behind when the session is *)
(* not active, whatever prompts, aborts, compactions and navigations       *)
(* overlap: the finally block of _runAgentPrompt and the input handlers    *)
(* append what waits, and nothing is made to wait but while a run is       *)
(* active; when it cannot be written, the session stays active             *)
(* (agent-session.ts:1678).                                                *)
THEOREM PendingCorrect == Spec => []NothingLeftPending
<1>1. Init => Typed /\ NothingLeftPending
  BY InitCoherent DEF Coherent
<1>2. Typed /\ NothingLeftPending /\ [Next]_vars => Typed' /\ NothingLeftPending'
  BY TypedStep, PendingStep
<1> QED
  BY <1>1, <1>2, PTL DEF Spec

(* The fields of the session have their types, and its controllers are     *)
(* installed exactly while their operations are under way, as long as one  *)
(* prompt at a time is past its input handlers.                            *)
THEOREM TypeCorrect == Spec /\ []OneStarter => []TypeOK
<1>1. Coherent => TypeOK
  BY DEF Coherent, Typed, AgentTyped, PcTyped, RunTyped, CtlTyped, AnswerTyped, NoteTyped, PlaceTyped,
       Entries, SigInv, RetryInv, TypeOK
<1> QED
  BY <1>1, CoherentAlways, PTL

(* One overflow is recovered once: _overflowRecoveryAttempted is set while *)
(* a recovery is under way and cleared only with the user's next message   *)
(* or a good response.                                                     *)
THEOREM RecoveryCorrect == Spec /\ []OneStarter => []OneRecovery
<1>1. Coherent => OneRecovery
  BY DEF Coherent, RecoveryInv, OneRecovery
<1> QED
  BY <1>1, CoherentAlways, PTL

(* The finally block is reached when nothing else is under way.            *)
LEMMA SettlesOnce ==
  ASSUME NEW c \in Prompts, Coherent, OneStarter, Finally(c)
  PROVE  phase = "idle" /\ auto = None /\ retry = "none"
<1> USE Names DEF Coherent
<1>1. pc[c] = "finally"
  BY DEF Finally
<1>2. \A d \in Prompts : d # c => pc[d] \notin Committed
  BY <1>1 DEF OneStarter, Committed, RunLocs
<1>3. \A d \in Prompts : pc[d] \notin {"running", "sleep", "precompact", "postcompact", "recovery"}
  BY <1>1, <1>2 DEF Committed, Starting, RunLocs
<1>4. phase = "idle" /\ retry = "none"
  BY <1>3 DEF PhaseInv, RetryInv
<1>5. \A r \in Runners : autoSig[r] = "none"
  BY <1>3, <1>4 DEF SigInv, AutoInv, Runners
<1> QED
  BY <1>4, <1>5 DEF AutoInv, Typed, CtlTyped

(* Only the finally block announces agent_settled.                         *)
LEMMA SettlingStep ==
  ASSUME Coherent, OneStarter, [Next]_vars
  PROVE  settling' /\ ~settling => phase = "idle" /\ auto = None /\ retry = "none"
<1> USE Names DEF Callers, Runners, At, agentVars, runVars, ctlVars, answerVars, noteVars, placeVars
<1>1. ASSUME NEW c \in Prompts, CallQueued(c)
      PROVE  settling' /\ ~settling => phase = "idle" /\ auto = None /\ retry = "none"
  BY <1>1 DEF CallQueued
<1>2. ASSUME NEW c \in Prompts, NEW kind \in Kinds, CallDeferred(c, kind)
      PROVE  settling' /\ ~settling => phase = "idle" /\ auto = None /\ retry = "none"
  BY <1>2 DEF CallDeferred
<1>3. ASSUME NEW c \in Prompts, NEW kind \in Kinds, CallSubmitted(c, kind)
      PROVE  settling' /\ ~settling => phase = "idle" /\ auto = None /\ retry = "none"
  BY <1>3 DEF CallSubmitted, Agent!Move
<1>4. ASSUME CallAbort
      PROVE  settling' /\ ~settling => phase = "idle" /\ auto = None /\ retry = "none"
  BY <1>4 DEF CallAbort, AbortAll
<1>5. ASSUME CallCompact
      PROVE  settling' /\ ~settling => phase = "idle" /\ auto = None /\ retry = "none"
  BY <1>5 DEF CallCompact, AbortAll
<1>6. ASSUME CallNavigate
      PROVE  settling' /\ ~settling => phase = "idle" /\ auto = None /\ retry = "none"
  BY <1>6 DEF CallNavigate
<1>7. ASSUME AbortRetry
      PROVE  settling' /\ ~settling => phase = "idle" /\ auto = None /\ retry = "none"
  BY <1>7 DEF AbortRetry
<1>8. ASSUME AbortCompaction
      PROVE  settling' /\ ~settling => phase = "idle" /\ auto = None /\ retry = "none"
  BY <1>8 DEF AbortCompaction
<1>9. ASSUME RecordBash
      PROVE  settling' /\ ~settling => phase = "idle" /\ auto = None /\ retry = "none"
  BY <1>9 DEF RecordBash
<1>10. ASSUME SendCustom
      PROVE  settling' /\ ~settling => phase = "idle" /\ auto = None /\ retry = "none"
  BY <1>10 DEF SendCustom
<1>11. ASSUME ClearQueue
      PROVE  settling' /\ ~settling => phase = "idle" /\ auto = None /\ retry = "none"
  BY <1>11 DEF ClearQueue
<1>12. ASSUME NEW c \in Prompts, QueueInput(c)
      PROVE  settling' /\ ~settling => phase = "idle" /\ auto = None /\ retry = "none"
  BY <1>12 DEF QueueInput
<1>13. ASSUME NEW c \in Prompts, InputHandled(c)
      PROVE  settling' /\ ~settling => phase = "idle" /\ auto = None /\ retry = "none"
  BY <1>13 DEF InputHandled
<1>14. ASSUME NEW c \in Prompts, InputPasses(c)
      PROVE  settling' /\ ~settling => phase = "idle" /\ auto = None /\ retry = "none"
  BY <1>14 DEF InputPasses
<1>15. ASSUME NEW c \in Prompts, CheckAuth(c)
      PROVE  settling' /\ ~settling => phase = "idle" /\ auto = None /\ retry = "none"
  BY <1>15 DEF CheckAuth
<1>16. ASSUME NEW c \in Prompts, RefuseStart(c)
      PROVE  settling' /\ ~settling => phase = "idle" /\ auto = None /\ retry = "none"
  BY <1>16 DEF RefuseStart
<1>17. ASSUME NEW c \in Prompts, BeforeStart(c)
      PROVE  settling' /\ ~settling => phase = "idle" /\ auto = None /\ retry = "none"
  BY <1>17 DEF BeforeStart, Agent!Move
<1>18. ASSUME NEW r \in Runners, SaveAuto(r)
      PROVE  settling' /\ ~settling => phase = "idle" /\ auto = None /\ retry = "none"
  BY <1>18 DEF SaveAuto
<1>19. ASSUME NEW r \in Runners, FinishAuto(r)
      PROVE  settling' /\ ~settling => phase = "idle" /\ auto = None /\ retry = "none"
  BY <1>19 DEF FinishAuto
<1>20. ASSUME NEW c \in Prompts, AgentFinishes(c)
      PROVE  settling' /\ ~settling => phase = "idle" /\ auto = None /\ retry = "none"
  BY <1>20 DEF AgentFinishes
<1>21. ASSUME NEW c \in Prompts, PostAborted(c)
      PROVE  settling' /\ ~settling => phase = "idle" /\ auto = None /\ retry = "none"
  BY <1>21 DEF PostAborted
<1>22. ASSUME NEW c \in Prompts, PostRetry(c)
      PROVE  settling' /\ ~settling => phase = "idle" /\ auto = None /\ retry = "none"
  BY <1>22 DEF PostRetry
<1>23. ASSUME NEW c \in Prompts, PostCheck(c)
      PROVE  settling' /\ ~settling => phase = "idle" /\ auto = None /\ retry = "none"
  BY <1>23 DEF PostCheck
<1>24. ASSUME NEW c \in Prompts, SleepOver(c)
      PROVE  settling' /\ ~settling => phase = "idle" /\ auto = None /\ retry = "none"
  BY <1>24 DEF SleepOver
<1>25. ASSUME NEW c \in Prompts, SleepAborted(c)
      PROVE  settling' /\ ~settling => phase = "idle" /\ auto = None /\ retry = "none"
  BY <1>25 DEF SleepAborted
<1>26. ASSUME NEW c \in Prompts, NEW user \in BOOLEAN, ContinueRun(c, user)
      PROVE  settling' /\ ~settling => phase = "idle" /\ auto = None /\ retry = "none"
  BY <1>26 DEF ContinueRun, Agent!Move
<1>27. ASSUME NEW c \in Prompts, Settle(c)
      PROVE  settling' /\ ~settling => phase = "idle" /\ auto = None /\ retry = "none"
  BY <1>27 DEF Settle
<1>28. ASSUME NEW c \in Prompts, NEW m \in BOOLEAN, NEW x \in BOOLEAN, BeforeSettle(c, m, x)
      PROVE  settling' /\ ~settling => phase = "idle" /\ auto = None /\ retry = "none"
  BY <1>28 DEF BeforeSettle
<1>29. ASSUME NEW c \in Prompts, Finally(c)
      PROVE  settling' /\ ~settling => phase = "idle" /\ auto = None /\ retry = "none"
  BY <1>29, SettlesOnce
<1>30. ASSUME NEW c \in Prompts, Settled(c)
      PROVE  settling' /\ ~settling => phase = "idle" /\ auto = None /\ retry = "none"
  BY <1>30 DEF Settled
<1>31. ASSUME NEW c \in Prompts, RunDeferred(c)
      PROVE  settling' /\ ~settling => phase = "idle" /\ auto = None /\ retry = "none"
  BY <1>31 DEF RunDeferred, Agent!Move
<1>32. ASSUME NEW c \in Prompts, DeferredOver(c)
      PROVE  settling' /\ ~settling => phase = "idle" /\ auto = None /\ retry = "none"
  BY <1>32 DEF DeferredOver
<1>33. ASSUME AgentRequests
      PROVE  settling' /\ ~settling => phase = "idle" /\ auto = None /\ retry = "none"
  BY <1>33 DEF AgentRequests, Agent!Move
<1>34. ASSUME NEW user \in BOOLEAN, AgentTakes(user)
      PROVE  settling' /\ ~settling => phase = "idle" /\ auto = None /\ retry = "none"
  BY <1>34 DEF AgentTakes, Agent!Move
<1>35. ASSUME NEW a \in Answers, NEW calls \in BOOLEAN, AgentResponds(a, calls)
      PROVE  settling' /\ ~settling => phase = "idle" /\ auto = None /\ retry = "none"
  BY <1>35 DEF AgentResponds, Agent!Move
<1>36. ASSUME AgentResults
      PROVE  settling' /\ ~settling => phase = "idle" /\ auto = None /\ retry = "none"
  BY <1>36 DEF AgentResults, Agent!Move
<1>37. ASSUME AgentTurnEnds
      PROVE  settling' /\ ~settling => phase = "idle" /\ auto = None /\ retry = "none"
  BY <1>37 DEF AgentTurnEnds, Agent!Move
<1>38. ASSUME NEW n \in 0..1, NEW user \in BOOLEAN, AgentNextTurn(n, user)
      PROVE  settling' /\ ~settling => phase = "idle" /\ auto = None /\ retry = "none"
  BY <1>38 DEF AgentNextTurn, Agent!Move
<1>39. ASSUME AgentEndsRun
      PROVE  settling' /\ ~settling => phase = "idle" /\ auto = None /\ retry = "none"
  BY <1>39 DEF AgentEndsRun, Agent!Move
<1>40. ASSUME NEW answer \in Answers, AgentThrows(answer)
      PROVE  settling' /\ ~settling => phase = "idle" /\ auto = None /\ retry = "none"
  BY <1>40 DEF AgentThrows, Agent!Move
<1>41. ASSUME "compact" \in Others, StartCompaction
      PROVE  settling' /\ ~settling => phase = "idle" /\ auto = None /\ retry = "none"
  BY <1>41 DEF StartCompaction, Compaction
<1>42. ASSUME "compact" \in Others, PrepareCompaction
      PROVE  settling' /\ ~settling => phase = "idle" /\ auto = None /\ retry = "none"
  BY <1>42 DEF PrepareCompaction, Compaction
<1>43. ASSUME "compact" \in Others, SaveCompaction
      PROVE  settling' /\ ~settling => phase = "idle" /\ auto = None /\ retry = "none"
  BY <1>43 DEF SaveCompaction, Compaction
<1>44. ASSUME "compact" \in Others, FinishCompaction
      PROVE  settling' /\ ~settling => phase = "idle" /\ auto = None /\ retry = "none"
  BY <1>44 DEF FinishCompaction, EndCompaction
<1>45. ASSUME "navigate" \in Others, MoveLeaf
      PROVE  settling' /\ ~settling => phase = "idle" /\ auto = None /\ retry = "none"
  BY <1>45 DEF MoveLeaf
<1>46. ASSUME "navigate" \in Others, FinishNavigate
      PROVE  settling' /\ ~settling => phase = "idle" /\ auto = None /\ retry = "none"
  BY <1>46 DEF FinishNavigate
<1>47. ASSUME UNCHANGED vars
      PROVE  settling' /\ ~settling => phase = "idle" /\ auto = None /\ retry = "none"
  BY <1>47 DEF vars
<1>48. ASSUME NEW c \in Prompts, NEW n \in 1..MaxNotes, FlushThrows(c, n)
      PROVE  settling' /\ ~settling => phase = "idle" /\ auto = None /\ retry = "none"
  BY <1>48 DEF FlushThrows
<1> QED
  BY <1>1, <1>2, <1>3, <1>4, <1>5, <1>6, <1>7, <1>8, <1>9, <1>10, <1>11, <1>12,
       <1>13, <1>14, <1>15, <1>16, <1>17, <1>18, <1>19, <1>20, <1>21, <1>22,
       <1>23, <1>24, <1>25, <1>26, <1>27, <1>28, <1>29, <1>30, <1>31, <1>32,
       <1>33, <1>34, <1>35, <1>36, <1>37, <1>38, <1>39, <1>40, <1>41, <1>42,
       <1>43, <1>44, <1>45, <1>46, <1>47, <1>48
     DEF Next, Client, CallPrompt, Serve, AgentStep, CompactStep, TreeStep

(* agent_settled is announced when the session has nothing left to do by   *)
(* itself.                                                                 *)
THEOREM SettledCorrect == Spec /\ []OneStarter => SettledMeansDone
<1>1. Coherent /\ OneStarter /\ [Next]_vars
         => [settling' /\ ~settling => phase = "idle" /\ auto = None /\ retry = "none"]_vars
  BY SettlingStep
<1> QED
  BY <1>1, CoherentAlways, PTL DEF Spec, SettledMeansDone

(* The agent is idle when no run is active, and while its prompt is past   *)
(* it.                                                                     *)
LEMMA IdlePhase ==
  ASSUME Coherent, OneStarter
  PROVE  /\ ~active => phase = "idle"
         /\ \A c \in Prompts : pc[c] \in Committed \ {"running"} => phase = "idle"
BY DEF Coherent, OneStarter, PhaseInv, ActiveInv, Committed, Starting, RunLocs

(* Only steps outside a tool exchange append what clients have sent.       *)
LEMMA NotesStep ==
  ASSUME Coherent, OneStarter, [Next]_vars
  PROVE  notes' # notes => phase' # "tools"
<1> USE Names DEF Callers, Runners, At, agentVars, runVars, ctlVars, answerVars, noteVars, placeVars
<1>1. ASSUME NEW c \in Prompts, CallQueued(c) PROVE notes' # notes => phase' # "tools"
  BY <1>1 DEF CallQueued
<1>2. ASSUME NEW c \in Prompts, NEW kind \in Kinds, CallDeferred(c, kind)
      PROVE  notes' # notes => phase' # "tools"
  BY <1>2 DEF CallDeferred
<1>3. ASSUME NEW c \in Prompts, NEW kind \in Kinds, CallSubmitted(c, kind)
      PROVE  notes' # notes => phase' # "tools"
  BY <1>3 DEF CallSubmitted, Agent!Move
<1>4. ASSUME CallAbort PROVE notes' # notes => phase' # "tools"
  BY <1>4 DEF CallAbort, AbortAll
<1>5. ASSUME CallCompact PROVE notes' # notes => phase' # "tools"
  BY <1>5 DEF CallCompact, AbortAll
<1>6. ASSUME CallNavigate PROVE notes' # notes => phase' # "tools"
  BY <1>6 DEF CallNavigate
<1>7. ASSUME AbortRetry PROVE notes' # notes => phase' # "tools"
  BY <1>7 DEF AbortRetry
<1>8. ASSUME AbortCompaction PROVE notes' # notes => phase' # "tools"
  BY <1>8 DEF AbortCompaction
<1>9. ASSUME RecordBash PROVE notes' # notes => phase' # "tools"
  BY <1>9, IdlePhase DEF RecordBash, Coherent, PhaseInv, ActiveInv,
       NothingLeftPending, Typed, NoteTyped
<1>10. ASSUME SendCustom PROVE notes' # notes => phase' # "tools"
  BY <1>10, IdlePhase DEF SendCustom, Coherent, PhaseInv, ActiveInv,
       NothingLeftPending, Typed, NoteTyped
<1>11. ASSUME ClearQueue PROVE notes' # notes => phase' # "tools"
  BY <1>11 DEF ClearQueue
<1>12. ASSUME NEW c \in Prompts, QueueInput(c) PROVE notes' # notes => phase' # "tools"
  BY <1>12 DEF QueueInput
<1>13. ASSUME NEW c \in Prompts, InputHandled(c) PROVE notes' # notes => phase' # "tools"
  BY <1>13 DEF InputHandled
<1>14. ASSUME NEW c \in Prompts, InputPasses(c) PROVE notes' # notes => phase' # "tools"
  BY <1>14, IdlePhase DEF InputPasses, FlushAll, Coherent, PhaseInv, ActiveInv,
       NothingLeftPending, Typed, NoteTyped
<1>15. ASSUME NEW c \in Prompts, CheckAuth(c) PROVE notes' # notes => phase' # "tools"
  BY <1>15 DEF CheckAuth
<1>16. ASSUME NEW c \in Prompts, RefuseStart(c) PROVE notes' # notes => phase' # "tools"
  BY <1>16 DEF RefuseStart
<1>17. ASSUME NEW c \in Prompts, BeforeStart(c) PROVE notes' # notes => phase' # "tools"
  BY <1>17 DEF BeforeStart, Agent!Move
<1>18. ASSUME NEW r \in Runners, SaveAuto(r) PROVE notes' # notes => phase' # "tools"
  BY <1>18 DEF SaveAuto
<1>19. ASSUME NEW r \in Runners, FinishAuto(r) PROVE notes' # notes => phase' # "tools"
  BY <1>19 DEF FinishAuto
<1>20. ASSUME NEW c \in Prompts, AgentFinishes(c) PROVE notes' # notes => phase' # "tools"
  BY <1>20 DEF AgentFinishes
<1>21. ASSUME NEW c \in Prompts, PostAborted(c) PROVE notes' # notes => phase' # "tools"
  BY <1>21 DEF PostAborted
<1>22. ASSUME NEW c \in Prompts, PostRetry(c) PROVE notes' # notes => phase' # "tools"
  BY <1>22 DEF PostRetry
<1>23. ASSUME NEW c \in Prompts, PostCheck(c) PROVE notes' # notes => phase' # "tools"
  BY <1>23 DEF PostCheck
<1>24. ASSUME NEW c \in Prompts, SleepOver(c) PROVE notes' # notes => phase' # "tools"
  BY <1>24 DEF SleepOver
<1>25. ASSUME NEW c \in Prompts, SleepAborted(c) PROVE notes' # notes => phase' # "tools"
  BY <1>25 DEF SleepAborted
<1>26. ASSUME NEW c \in Prompts, NEW user \in BOOLEAN, ContinueRun(c, user)
      PROVE  notes' # notes => phase' # "tools"
  BY <1>26 DEF ContinueRun, Agent!Move
<1>27. ASSUME NEW c \in Prompts, Settle(c) PROVE notes' # notes => phase' # "tools"
  BY <1>27 DEF Settle
<1>28. ASSUME NEW c \in Prompts, NEW m \in BOOLEAN, NEW x \in BOOLEAN, BeforeSettle(c, m, x)
      PROVE  notes' # notes => phase' # "tools"
  BY <1>28, IdlePhase DEF BeforeSettle, Coherent, PhaseInv, ActiveInv,
       NothingLeftPending, Typed, NoteTyped, Committed, RunLocs
<1>29. ASSUME NEW c \in Prompts, Finally(c) PROVE notes' # notes => phase' # "tools"
  BY <1>29, IdlePhase DEF Finally, FlushAll, Coherent, PhaseInv, ActiveInv,
       NothingLeftPending, Typed, NoteTyped, Committed, RunLocs
<1>30. ASSUME NEW c \in Prompts, Settled(c) PROVE notes' # notes => phase' # "tools"
  BY <1>30 DEF Settled
<1>31. ASSUME NEW c \in Prompts, RunDeferred(c) PROVE notes' # notes => phase' # "tools"
  BY <1>31 DEF RunDeferred, Agent!Move
<1>32. ASSUME NEW c \in Prompts, DeferredOver(c) PROVE notes' # notes => phase' # "tools"
  BY <1>32 DEF DeferredOver
<1>33. ASSUME AgentRequests PROVE notes' # notes => phase' # "tools"
  BY <1>33 DEF AgentRequests, Agent!Move
<1>34. ASSUME NEW user \in BOOLEAN, AgentTakes(user) PROVE notes' # notes => phase' # "tools"
  BY <1>34 DEF AgentTakes, Agent!Move
<1>35. ASSUME NEW a \in Answers, NEW calls \in BOOLEAN, AgentResponds(a, calls)
      PROVE  notes' # notes => phase' # "tools"
  BY <1>35 DEF AgentResponds, Agent!Move
<1>36. ASSUME AgentResults PROVE notes' # notes => phase' # "tools"
  BY <1>36 DEF AgentResults, Agent!Move
<1>37. ASSUME AgentTurnEnds PROVE notes' # notes => phase' # "tools"
  BY <1>37, IdlePhase DEF AgentTurnEnds, Agent!TurnEnd, FlushCustom, Agent!Move,
       Coherent, PhaseInv, ActiveInv, NothingLeftPending, Typed, NoteTyped
<1>38. ASSUME NEW n \in 0..1, NEW user \in BOOLEAN, AgentNextTurn(n, user)
      PROVE  notes' # notes => phase' # "tools"
  BY <1>38 DEF AgentNextTurn, Agent!Move
<1>39. ASSUME AgentEndsRun PROVE notes' # notes => phase' # "tools"
  BY <1>39, IdlePhase DEF AgentEndsRun, Agent!EndRun, FlushCustom, Agent!Move,
       Coherent, PhaseInv, ActiveInv, NothingLeftPending, Typed, NoteTyped
<1>40. ASSUME NEW answer \in Answers, AgentThrows(answer) PROVE notes' # notes => phase' # "tools"
  BY <1>40, IdlePhase DEF AgentThrows, Agent!Throw, Agent!Move, Coherent, PhaseInv,
       ActiveInv, NothingLeftPending, Typed, NoteTyped
<1>41. ASSUME "compact" \in Others, StartCompaction PROVE notes' # notes => phase' # "tools"
  BY <1>41 DEF StartCompaction, Compaction
<1>42. ASSUME "compact" \in Others, PrepareCompaction PROVE notes' # notes => phase' # "tools"
  BY <1>42 DEF PrepareCompaction, Compaction
<1>43. ASSUME "compact" \in Others, SaveCompaction PROVE notes' # notes => phase' # "tools"
  BY <1>43 DEF SaveCompaction, Compaction
<1>44. ASSUME "compact" \in Others, FinishCompaction PROVE notes' # notes => phase' # "tools"
  BY <1>44 DEF FinishCompaction, EndCompaction
<1>45. ASSUME "navigate" \in Others, MoveLeaf PROVE notes' # notes => phase' # "tools"
  BY <1>45 DEF MoveLeaf
<1>46. ASSUME "navigate" \in Others, FinishNavigate PROVE notes' # notes => phase' # "tools"
  BY <1>46 DEF FinishNavigate
<1>47. ASSUME UNCHANGED vars PROVE notes' # notes => phase' # "tools"
  BY <1>47 DEF vars
<1>48. ASSUME NEW c \in Prompts, NEW n \in 1..MaxNotes, FlushThrows(c, n)
      PROVE  notes' # notes => phase' # "tools"
  BY <1>48, IdlePhase DEF FlushThrows, Coherent, PhaseInv, ActiveInv,
       NothingLeftPending, Typed, NoteTyped, Committed, RunLocs
<1> QED
  BY <1>1, <1>2, <1>3, <1>4, <1>5, <1>6, <1>7, <1>8, <1>9, <1>10, <1>11, <1>12,
       <1>13, <1>14, <1>15, <1>16, <1>17, <1>18, <1>19, <1>20, <1>21, <1>22,
       <1>23, <1>24, <1>25, <1>26, <1>27, <1>28, <1>29, <1>30, <1>31, <1>32,
       <1>33, <1>34, <1>35, <1>36, <1>37, <1>38, <1>39, <1>40, <1>41, <1>42,
       <1>43, <1>44, <1>45, <1>46, <1>47, <1>48
     DEF Next, Client, CallPrompt, Serve, AgentStep, CompactStep, TreeStep

(* What a client sends while tools run waits until their results are       *)
(* there: a bash result for the end of the run, a custom message for the   *)
(* end of the turn.                                                        *)
THEOREM NotesCorrect == Spec /\ []OneStarter => NotesOutsideExchanges
<1>1. Coherent /\ OneStarter /\ [Next]_vars => [notes' # notes => phase' # "tools"]_vars
  BY NotesStep
<1> QED
  BY <1>1, CoherentAlways, PTL DEF Spec, NotesOutsideExchanges

(* Calls are put off only while agent_settled is announced.                *)
LEMMA DeferringStep ==
  ASSUME Typed, SettlingInv, [Next]_vars
  PROVE  SettlingInv'
<1> USE Names DEF Callers, Runners, At, agentVars, runVars, ctlVars, answerVars, noteVars, placeVars
<1>1. ASSUME NEW c \in Prompts, CallQueued(c) PROVE SettlingInv'
  BY <1>1 DEF CallQueued, Calls, Agent!Enqueue, Busy, SettlingInv, Typed,
       RunTyped
<1>2. ASSUME NEW c \in Prompts, NEW kind \in Kinds, CallDeferred(c, kind) PROVE SettlingInv'
  BY <1>2 DEF CallDeferred, Calls, Busy, SettlingInv, Typed, RunTyped
<1>3. ASSUME NEW c \in Prompts, NEW kind \in Kinds, CallSubmitted(c, kind) PROVE SettlingInv'
  BY <1>3 DEF CallSubmitted, Calls, Submit, StartRun, Input, Busy,
       Agent!Prompt, Agent!Move, SettlingInv, Typed, RunTyped
<1>4. ASSUME CallAbort PROVE SettlingInv'
  BY <1>4 DEF CallAbort, AbortAll, AbortSignal, SettlingInv, Typed, RunTyped
<1>5. ASSUME CallCompact PROVE SettlingInv'
  BY <1>5 DEF CallCompact, AbortAll, Busy, AbortSignal, SettlingInv, Typed,
       RunTyped
<1>6. ASSUME CallNavigate PROVE SettlingInv'
  BY <1>6 DEF CallNavigate, Busy, SettlingInv, Typed, RunTyped
<1>7. ASSUME AbortRetry PROVE SettlingInv'
  BY <1>7 DEF AbortRetry, SettlingInv, Typed, RunTyped
<1>8. ASSUME AbortCompaction PROVE SettlingInv'
  BY <1>8 DEF AbortCompaction, AbortSignal, SettlingInv, Typed, RunTyped
<1>9. ASSUME RecordBash PROVE SettlingInv'
  BY <1>9 DEF RecordBash, Sent, SettlingInv, Typed, RunTyped
<1>10. ASSUME SendCustom PROVE SettlingInv'
  BY <1>10 DEF SendCustom, Sent, SettlingInv, Typed, RunTyped
<1>11. ASSUME ClearQueue PROVE SettlingInv'
  BY <1>11 DEF ClearQueue, Agent!Clear, SettlingInv, Typed, RunTyped
<1>12. ASSUME NEW c \in Prompts, QueueInput(c) PROVE SettlingInv'
  BY <1>12 DEF QueueInput, Agent!Enqueue, SettlingInv, Typed, RunTyped
<1>13. ASSUME NEW c \in Prompts, InputHandled(c) PROVE SettlingInv'
  BY <1>13 DEF InputHandled, SettlingInv, Typed, RunTyped
<1>14. ASSUME NEW c \in Prompts, InputPasses(c) PROVE SettlingInv'
  BY <1>14 DEF InputPasses, FlushAll, SettlingInv, Typed, RunTyped
<1>15. ASSUME NEW c \in Prompts, CheckAuth(c) PROVE SettlingInv'
  BY <1>15 DEF CheckAuth, Compact, StartAuto, Omit, SettlingInv, Typed,
       RunTyped
<1>16. ASSUME NEW c \in Prompts, RefuseStart(c) PROVE SettlingInv'
  BY <1>16 DEF RefuseStart, SettlingInv, Typed, RunTyped
<1>17. ASSUME NEW c \in Prompts, BeforeStart(c) PROVE SettlingInv'
  BY <1>17 DEF BeforeStart, StartRun, Agent!Prompt, Agent!Move, SettlingInv,
       Typed, RunTyped
<1>18. ASSUME NEW r \in Runners, SaveAuto(r) PROVE SettlingInv'
  BY <1>18 DEF SaveAuto, SettlingInv, Typed, RunTyped
<1>19. ASSUME NEW r \in Runners, FinishAuto(r) PROVE SettlingInv'
  BY <1>19 DEF FinishAuto, Wake, AfterRun, Woken, SettlingInv, Typed, RunTyped
<1>20. ASSUME NEW c \in Prompts, AgentFinishes(c) PROVE SettlingInv'
  BY <1>20 DEF AgentFinishes, Agent!Finish, SettlingInv, Typed, RunTyped
<1>21. ASSUME NEW c \in Prompts, PostAborted(c) PROVE SettlingInv'
  BY <1>21 DEF PostAborted, SettlingInv, Typed, RunTyped
<1>22. ASSUME NEW c \in Prompts, PostRetry(c) PROVE SettlingInv'
  BY <1>22 DEF PostRetry, Retryable, Omit, SettlingInv, Typed, RunTyped
<1>23. ASSUME NEW c \in Prompts, PostCheck(c) PROVE SettlingInv'
  BY <1>23 DEF PostCheck, Retryable, AfterRun, Errors, Compact, StartAuto,
       Omit, SettlingInv, Typed, RunTyped
<1>24. ASSUME NEW c \in Prompts, SleepOver(c) PROVE SettlingInv'
  BY <1>24 DEF SleepOver, SettlingInv, Typed, RunTyped
<1>25. ASSUME NEW c \in Prompts, SleepAborted(c) PROVE SettlingInv'
  BY <1>25 DEF SleepAborted, Compact, AfterRun, StartAuto, Omit, SettlingInv,
       Typed, RunTyped
<1>26. ASSUME NEW c \in Prompts, NEW user \in BOOLEAN, ContinueRun(c, user) PROVE SettlingInv'
  BY <1>26 DEF ContinueRun, Agent!Continue, Agent!Move, SettlingInv, Typed,
       RunTyped
<1>27. ASSUME NEW c \in Prompts, Settle(c) PROVE SettlingInv'
  BY <1>27 DEF Settle, SettlingInv, Typed, RunTyped
<1>28. ASSUME NEW c \in Prompts, NEW m \in BOOLEAN, NEW x \in BOOLEAN, BeforeSettle(c, m, x)
      PROVE  SettlingInv'
  BY <1>28 DEF BeforeSettle, SettlingInv, Typed, RunTyped
<1>29. ASSUME NEW c \in Prompts, Finally(c) PROVE SettlingInv'
  BY <1>29 DEF Finally, FlushAll, SettlingInv, Typed, RunTyped
<1>30. ASSUME NEW c \in Prompts, Settled(c) PROVE SettlingInv'
  BY <1>30 DEF Settled, Outcome, Wake, Woken, SettlingInv, Typed, RunTyped
<1>31. ASSUME NEW c \in Prompts, RunDeferred(c) PROVE SettlingInv'
  BY <1>31 DEF RunDeferred, SettlingInv
<1>32. ASSUME NEW c \in Prompts, DeferredOver(c) PROVE SettlingInv'
  BY <1>32 DEF DeferredOver, SettlingInv
<1>33. ASSUME AgentRequests PROVE SettlingInv'
  BY <1>33 DEF AgentRequests, Agent!Request, Agent!Move, SettlingInv, Typed,
       RunTyped
<1>34. ASSUME NEW user \in BOOLEAN, AgentTakes(user) PROVE SettlingInv'
  BY <1>34 DEF AgentTakes, Agent!Take, Agent!Move, SettlingInv, Typed, RunTyped
<1>35. ASSUME NEW a \in Answers, NEW calls \in BOOLEAN, AgentResponds(a, calls)
      PROVE  SettlingInv'
  BY <1>35 DEF AgentResponds, Agent!Respond, Errors, Agent!FailResponse,
       Agent!Refuse, Answered, Agent!Move, SettlingInv, Typed, RunTyped
<1>36. ASSUME AgentResults PROVE SettlingInv'
  BY <1>36 DEF AgentResults, Agent!Results, Agent!Move, SettlingInv, Typed,
       RunTyped
<1>37. ASSUME AgentTurnEnds PROVE SettlingInv'
  BY <1>37 DEF AgentTurnEnds, Agent!TurnEnd, FlushCustom, Agent!Move,
       SettlingInv, Typed, RunTyped
<1>38. ASSUME NEW n \in 0..1, NEW user \in BOOLEAN, AgentNextTurn(n, user) PROVE SettlingInv'
  BY <1>38 DEF AgentNextTurn, Agent!NextTurn, StartAuto, Agent!Move,
       SettlingInv, Typed, RunTyped
<1>39. ASSUME AgentEndsRun PROVE SettlingInv'
  BY <1>39 DEF AgentEndsRun, Agent!EndRun, FlushCustom, Agent!Move,
       SettlingInv, Typed, RunTyped
<1>40. ASSUME NEW answer \in Answers, AgentThrows(answer) PROVE SettlingInv'
  BY <1>40 DEF AgentThrows, Agent!Throw, Agent!Move, SettlingInv, Typed,
       RunTyped
<1>41. ASSUME "compact" \in Others, StartCompaction PROVE SettlingInv'
  BY <1>41 DEF StartCompaction, Compaction, SettlingInv, Typed, RunTyped
<1>42. ASSUME "compact" \in Others, PrepareCompaction PROVE SettlingInv'
  BY <1>42 DEF PrepareCompaction, Compaction, SettlingInv, Typed, RunTyped
<1>43. ASSUME "compact" \in Others, SaveCompaction PROVE SettlingInv'
  BY <1>43 DEF SaveCompaction, Compaction, SettlingInv, Typed, RunTyped
<1>44. ASSUME "compact" \in Others, FinishCompaction PROVE SettlingInv'
  BY <1>44 DEF FinishCompaction, EndCompaction, Wake, Woken, SettlingInv,
       Typed, RunTyped
<1>45. ASSUME "navigate" \in Others, MoveLeaf PROVE SettlingInv'
  BY <1>45 DEF MoveLeaf, SettlingInv, Typed, RunTyped
<1>46. ASSUME "navigate" \in Others, FinishNavigate PROVE SettlingInv'
  BY <1>46 DEF FinishNavigate, Wake, Woken, SettlingInv, Typed, RunTyped
<1>47. ASSUME UNCHANGED vars PROVE SettlingInv'
  BY <1>47 DEF vars, SettlingInv, Typed, RunTyped
<1>48. ASSUME NEW c \in Prompts, NEW n \in 1..MaxNotes, FlushThrows(c, n) PROVE SettlingInv'
  BY <1>48 DEF FlushThrows, SettlingInv, Typed, RunTyped
<1> QED
  BY <1>1, <1>2, <1>3, <1>4, <1>5, <1>6, <1>7, <1>8, <1>9, <1>10, <1>11, <1>12,
       <1>13, <1>14, <1>15, <1>16, <1>17, <1>18, <1>19, <1>20, <1>21, <1>22,
       <1>23, <1>24, <1>25, <1>26, <1>27, <1>28, <1>29, <1>30, <1>31, <1>32,
       <1>33, <1>34, <1>35, <1>36, <1>37, <1>38, <1>39, <1>40, <1>41, <1>42,
       <1>43, <1>44, <1>45, <1>46, <1>47, <1>48
     DEF Next, Client, CallPrompt, Serve, AgentStep, CompactStep, TreeStep

(* While navigateTree is at work, clients that wait make no call.          *)
LEMMA NavigatingNoCalls ==
  ASSUME ~Overlap, NavInv, Navigating
  PROVE  (\A c \in Prompts : ~MayCall(c)) /\ ("compact" \in Others => ~MayCall("compact"))
BY DEF NavInv, Navigating, MayCall, Busy

(* Nothing is called, and nothing starts, while navigateTree is at work.   *)
LEMMA NavStep ==
  ASSUME ~Overlap, Coherent, SettlingInv, NavInv, [Next]_vars
  PROVE  NavInv'
<1> USE Names DEF Callers, Runners, At, agentVars, runVars, ctlVars, answerVars, noteVars, placeVars
<1>1. ASSUME NEW c \in Prompts, CallQueued(c) PROVE NavInv'
  <2>1. UNCHANGED settling /\ \A x \in Callers \ {c} : pc'[x] = pc[x]
    BY <1>1, CallChanges DEF CallQueued, SubmitEffect, Coherent, Typed, PcTyped
  <2>2. MayCall(c)
    BY <1>1 DEF CallQueued, Calls
  <2> QED
    BY <2>1, <2>2, NavigatingNoCalls DEF Navigating, NavInv
<1>2. ASSUME NEW c \in Prompts, NEW kind \in Kinds, CallDeferred(c, kind) PROVE NavInv'
  <2>1. UNCHANGED settling /\ \A x \in Callers \ {c} : pc'[x] = pc[x]
    BY <1>2, CallChanges DEF CallDeferred, SubmitEffect, Coherent, Typed, PcTyped
  <2>2. MayCall(c)
    BY <1>2 DEF CallDeferred, Calls
  <2> QED
    BY <2>1, <2>2, NavigatingNoCalls DEF Navigating, NavInv
<1>3. ASSUME NEW c \in Prompts, NEW kind \in Kinds, CallSubmitted(c, kind) PROVE NavInv'
  <2>1. UNCHANGED settling /\ \A x \in Callers \ {c} : pc'[x] = pc[x]
    BY <1>3, CallChanges DEF CallSubmitted, SubmitEffect, Coherent, Typed, PcTyped
  <2>2. MayCall(c)
    BY <1>3 DEF CallSubmitted, Calls
  <2> QED
    BY <2>1, <2>2, NavigatingNoCalls DEF Navigating, NavInv
<1>4. ASSUME CallAbort PROVE NavInv'
  BY <1>4 DEF CallAbort, AbortAll, AbortSignal, NavInv, Typed, Navigating,
       Busy, Coherent, PcTyped
<1>5. ASSUME CallCompact PROVE NavInv'
  <2>1. MayCall("compact") /\ "compact" \in Others /\ UNCHANGED settling /\ \A x \in Callers \ {"compact"} : pc'[x] = pc[x]
    BY <1>5 DEF CallCompact, OtherCall, AbortAll, Coherent, Typed, PcTyped
  <2> QED
    BY <2>1, NavigatingNoCalls DEF Navigating, NavInv
<1>6. ASSUME CallNavigate PROVE NavInv'
  <2>1. /\ MayCall("navigate") /\ "navigate" \in Others /\ UNCHANGED settling
        /\ \A x \in Callers \ {"navigate"} : pc'[x] = pc[x]
        /\ active => pc'["navigate"] = "rejected"
    BY <1>6 DEF CallNavigate, OtherCall, Idle, Coherent, Typed, PcTyped
  <2>2. /\ ~settling /\ ("compact" \in Others => pc["compact"] \notin Busy)
        /\ \A x \in Prompts : pc[x] \notin Preflight /\ pc[x] \notin {"deferred", "draining"}
    BY <2>1 DEF MayCall
  <2>3. ~active => \A x \in Prompts : pc[x] \notin RunLocs
    BY DEF Coherent, ActiveInv
  <2>4. ~active => \A x \in Prompts : pc[x] \in {"done", "rejected", "dropped", "new", "settling"}
    BY <2>2, <2>3 DEF Coherent, Typed, PcTyped, Locs, Over, Preflight, RunLocs
  <2> QED
    BY <2>1, <2>2, <2>4 DEF Navigating, NavInv
<1>7. ASSUME AbortRetry PROVE NavInv'
  BY <1>7 DEF AbortRetry, NavInv, Typed, Navigating, Busy, Coherent, PcTyped
<1>8. ASSUME AbortCompaction PROVE NavInv'
  BY <1>8 DEF AbortCompaction, AbortSignal, NavInv, Typed, Navigating, Busy,
       Coherent, PcTyped
<1>9. ASSUME RecordBash PROVE NavInv'
  BY <1>9 DEF RecordBash, Sent, NavInv, Typed, Navigating, Busy, Coherent,
       PcTyped
<1>10. ASSUME SendCustom PROVE NavInv'
  BY <1>10 DEF SendCustom, Sent, NavInv, Typed, Navigating, Busy, Coherent,
       PcTyped
<1>11. ASSUME ClearQueue PROVE NavInv'
  BY <1>11 DEF ClearQueue, Agent!Clear, NavInv, Typed, Navigating, Busy,
       Coherent, PcTyped
<1>12. ASSUME NEW c \in Prompts, QueueInput(c) PROVE NavInv'
  BY <1>12 DEF QueueInput, Agent!Enqueue, NavInv, Typed, Navigating, Busy,
       Coherent, PcTyped
<1>13. ASSUME NEW c \in Prompts, InputHandled(c) PROVE NavInv'
  BY <1>13 DEF InputHandled, NavInv, Typed, Navigating, Busy, Coherent, PcTyped
<1>14. ASSUME NEW c \in Prompts, InputPasses(c) PROVE NavInv'
  BY <1>14 DEF InputPasses, FlushAll, NavInv, Typed, Navigating, Busy,
       Coherent, PcTyped
<1>15. ASSUME NEW c \in Prompts, CheckAuth(c) PROVE NavInv'
  BY <1>15 DEF CheckAuth, Compact, StartAuto, Omit, NavInv, Typed, Navigating,
       Busy, Coherent, PcTyped
<1>16. ASSUME NEW c \in Prompts, RefuseStart(c) PROVE NavInv'
  BY <1>16 DEF RefuseStart, NavInv, Typed, Navigating, Busy, Coherent, PcTyped
<1>17. ASSUME NEW c \in Prompts, BeforeStart(c) PROVE NavInv'
  BY <1>17 DEF BeforeStart, StartRun, Agent!Prompt, Agent!Move, NavInv, Typed,
       Navigating, Busy, Coherent, PcTyped
<1>18. ASSUME NEW r \in Runners, SaveAuto(r) PROVE NavInv'
  BY <1>18 DEF SaveAuto, NavInv, Typed, Navigating, Busy, Coherent, PcTyped
<1>19. ASSUME NEW r \in Runners, FinishAuto(r) PROVE NavInv'
  <2>1. "navigate" \in Others => pc'["navigate"] = pc["navigate"] \/ pc'["navigate"] = "done"
    BY <1>19 DEF FinishAuto, Wake, Woken, Coherent, Typed, PcTyped
  <2>2. r \in Prompts => pc[r] \in {"precompact", "postcompact", "recovery"}
    BY <1>19 DEF FinishAuto, Coherent, SigInv
  <2>3. r \notin Prompts => \E x \in Prompts : pc[x] = "running"
    BY <1>19 DEF FinishAuto, Coherent, AutoInv, PhaseInv
  <2> QED
    BY <2>1, <2>2, <2>3 DEF Navigating, NavInv
<1>20. ASSUME NEW c \in Prompts, AgentFinishes(c) PROVE NavInv'
  BY <1>20 DEF AgentFinishes, Agent!Finish, NavInv, Typed, Navigating, Busy,
       Coherent, PcTyped
<1>21. ASSUME NEW c \in Prompts, PostAborted(c) PROVE NavInv'
  BY <1>21 DEF PostAborted, NavInv, Typed, Navigating, Busy, Coherent, PcTyped
<1>22. ASSUME NEW c \in Prompts, PostRetry(c) PROVE NavInv'
  BY <1>22 DEF PostRetry, Retryable, Omit, NavInv, Typed, Navigating, Busy,
       Coherent, PcTyped
<1>23. ASSUME NEW c \in Prompts, PostCheck(c) PROVE NavInv'
  BY <1>23 DEF PostCheck, Retryable, AfterRun, Errors, Compact, StartAuto,
       Omit, NavInv, Typed, Navigating, Busy, Coherent, PcTyped
<1>24. ASSUME NEW c \in Prompts, SleepOver(c) PROVE NavInv'
  BY <1>24 DEF SleepOver, NavInv, Typed, Navigating, Busy, Coherent, PcTyped
<1>25. ASSUME NEW c \in Prompts, SleepAborted(c) PROVE NavInv'
  BY <1>25 DEF SleepAborted, Compact, AfterRun, StartAuto, Omit, NavInv, Typed,
       Navigating, Busy, Coherent, PcTyped
<1>26. ASSUME NEW c \in Prompts, NEW user \in BOOLEAN, ContinueRun(c, user) PROVE NavInv'
  BY <1>26 DEF ContinueRun, Agent!Continue, Agent!Move, NavInv, Typed,
       Navigating, Busy, Coherent, PcTyped
<1>27. ASSUME NEW c \in Prompts, Settle(c) PROVE NavInv'
  BY <1>27 DEF Settle, NavInv, Typed, Navigating, Busy, Coherent, PcTyped
<1>28. ASSUME NEW c \in Prompts, NEW m \in BOOLEAN, NEW x \in BOOLEAN, BeforeSettle(c, m, x)
      PROVE  NavInv'
  BY <1>28 DEF BeforeSettle, NavInv, Typed, Navigating, Busy, Coherent, PcTyped
<1>29. ASSUME NEW c \in Prompts, Finally(c) PROVE NavInv'
  BY <1>29 DEF Finally, FlushAll, NavInv, Typed, Navigating, Busy, Coherent,
       PcTyped
<1>30. ASSUME NEW c \in Prompts, Settled(c) PROVE NavInv'
  <2>1. pc[c] = "settling" /\ settling' = FALSE
    BY <1>30 DEF Settled
  <2>2. Navigating' => Navigating
    BY <1>30 DEF Settled, Outcome, Wake, Woken, Coherent, Typed, PcTyped, Navigating
  <2>3. ASSUME Navigating PROVE deferred = <<>> /\ Wake(c, Outcome(c))
    BY <1>30, <2>3 DEF Settled, NavInv, SettlingInv
  <2>4. ASSUME Navigating
        PROVE  /\ \A x \in Prompts : pc'[x] = pc[x] \/ pc'[x] \in {"done", "rejected"}
               /\ "compact" \in Others => pc'["compact"] = pc["compact"]
    BY <2>1, <2>3, <2>4 DEF Outcome, Wake, Woken, NavInv, Busy
  <2>5. ASSUME Navigating
        PROVE  /\ \A x \in Prompts : pc[x] \in {"done", "rejected", "dropped", "new", "settling"}
               /\ "compact" \in Others => pc["compact"] \notin Busy
    BY <2>5 DEF NavInv
  <2>6. ASSUME Navigating
        PROVE  /\ \A x \in Prompts : pc'[x] \in {"done", "rejected", "dropped", "new", "settling"}
               /\ "compact" \in Others => pc'["compact"] \notin Busy
    BY <2>4, <2>5, <2>6
  <2> QED
    BY <2>1, <2>2, <2>6 DEF NavInv
<1>31. ASSUME NEW c \in Prompts, RunDeferred(c) PROVE NavInv'
  <2>1. pc[c] = "draining" /\ UNCHANGED settling
    BY <1>31 DEF RunDeferred
  <2>2. \A x \in Callers \ Prompts : pc'[x] = pc[x]
    BY <1>31, RunDeferredChanges DEF SubmitEffect, Coherent
  <2> QED
    BY <2>1, <2>2 DEF Navigating, NavInv
<1>32. ASSUME NEW c \in Prompts, DeferredOver(c) PROVE NavInv'
  <2>1. pc[c] = "draining" /\ ("navigate" \in Others => pc'["navigate"] = pc["navigate"] \/ pc'["navigate"] \in {"done", "dropped"})
    BY <1>32 DEF DeferredOver, Outcome, Wake, Woken, Coherent, Typed, PcTyped, Busy
  <2> QED
    BY <2>1 DEF Navigating, NavInv
<1>33. ASSUME AgentRequests PROVE NavInv'
  BY <1>33 DEF AgentRequests, Agent!Request, Agent!Move, NavInv, Typed,
       Navigating, Busy, Coherent, PcTyped
<1>34. ASSUME NEW user \in BOOLEAN, AgentTakes(user) PROVE NavInv'
  BY <1>34 DEF AgentTakes, Agent!Take, Agent!Move, NavInv, Typed, Navigating,
       Busy, Coherent, PcTyped
<1>35. ASSUME NEW a \in Answers, NEW calls \in BOOLEAN, AgentResponds(a, calls) PROVE NavInv'
  BY <1>35 DEF AgentResponds, Agent!Respond, Errors, Agent!FailResponse,
       Agent!Refuse, Answered, Agent!Move, NavInv, Typed, Navigating, Busy,
       Coherent, PcTyped
<1>36. ASSUME AgentResults PROVE NavInv'
  BY <1>36 DEF AgentResults, Agent!Results, Agent!Move, NavInv, Typed,
       Navigating, Busy, Coherent, PcTyped
<1>37. ASSUME AgentTurnEnds PROVE NavInv'
  BY <1>37 DEF AgentTurnEnds, Agent!TurnEnd, FlushCustom, Agent!Move, NavInv,
       Typed, Navigating, Busy, Coherent, PcTyped
<1>38. ASSUME NEW n \in 0..1, NEW user \in BOOLEAN, AgentNextTurn(n, user) PROVE NavInv'
  BY <1>38 DEF AgentNextTurn, Agent!NextTurn, StartAuto, Agent!Move, NavInv,
       Typed, Navigating, Busy, Coherent, PcTyped
<1>39. ASSUME AgentEndsRun PROVE NavInv'
  BY <1>39 DEF AgentEndsRun, Agent!EndRun, FlushCustom, Agent!Move, NavInv,
       Typed, Navigating, Busy, Coherent, PcTyped
<1>40. ASSUME NEW answer \in Answers, AgentThrows(answer) PROVE NavInv'
  BY <1>40 DEF AgentThrows, Agent!Throw, Agent!Move, NavInv, Typed, Navigating,
       Busy, Coherent, PcTyped
<1>41. ASSUME "compact" \in Others, StartCompaction PROVE NavInv'
  BY <1>41 DEF StartCompaction, Compaction, NavInv, Typed, Navigating, Busy,
       Coherent, PcTyped
<1>42. ASSUME "compact" \in Others, PrepareCompaction PROVE NavInv'
  BY <1>42 DEF PrepareCompaction, Compaction, NavInv, Typed, Navigating, Busy,
       Coherent, PcTyped
<1>43. ASSUME "compact" \in Others, SaveCompaction PROVE NavInv'
  BY <1>43 DEF SaveCompaction, Compaction, NavInv, Typed, Navigating, Busy,
       Coherent, PcTyped
<1>44. ASSUME "compact" \in Others, FinishCompaction PROVE NavInv'
  BY <1>44 DEF FinishCompaction, EndCompaction, Wake, Woken, NavInv, Typed,
       Navigating, Busy, Coherent, PcTyped
<1>45. ASSUME "navigate" \in Others, MoveLeaf PROVE NavInv'
  BY <1>45 DEF MoveLeaf, NavInv, Typed, Navigating, Busy, Coherent, PcTyped
<1>46. ASSUME "navigate" \in Others, FinishNavigate PROVE NavInv'
  BY <1>46 DEF FinishNavigate, Wake, Woken, NavInv, Typed, Navigating, Busy,
       Coherent, PcTyped
<1>47. ASSUME UNCHANGED vars PROVE NavInv'
  BY <1>47 DEF vars, NavInv, Typed, Navigating, Busy, Coherent, PcTyped
<1>48. ASSUME NEW c \in Prompts, NEW n \in 1..MaxNotes, FlushThrows(c, n) PROVE NavInv'
  BY <1>48 DEF FlushThrows, NavInv, Typed, Navigating, Busy, Coherent,
       PcTyped
<1> QED
  BY <1>1, <1>2, <1>3, <1>4, <1>5, <1>6, <1>7, <1>8, <1>9, <1>10, <1>11, <1>12,
       <1>13, <1>14, <1>15, <1>16, <1>17, <1>18, <1>19, <1>20, <1>21, <1>22,
       <1>23, <1>24, <1>25, <1>26, <1>27, <1>28, <1>29, <1>30, <1>31, <1>32,
       <1>33, <1>34, <1>35, <1>36, <1>37, <1>38, <1>39, <1>40, <1>41, <1>42,
       <1>43, <1>44, <1>45, <1>46, <1>47, <1>48
     DEF Next, Client, CallPrompt, Serve, AgentStep, CompactStep, TreeStep

(* A navigation moves the leaf only when nobody is at work on a branch.    *)
LEMMA BranchStep ==
  ASSUME Coherent, NavInv, BranchInv, [Next]_vars
  PROVE  BranchInv'
<1> USE Names DEF Callers, Runners, At, agentVars, runVars, ctlVars, answerVars, noteVars, placeVars
<1>1. ASSUME NEW c \in Prompts, CallQueued(c) PROVE BranchInv'
  BY <1>1 DEF CallQueued, Calls, Agent!Enqueue, Busy, BranchInv, Coherent, Typed,
       PcTyped, CtlTyped, PlaceTyped
<1>2. ASSUME NEW c \in Prompts, NEW kind \in Kinds, CallDeferred(c, kind) PROVE BranchInv'
  BY <1>2 DEF CallDeferred, Calls, Busy, BranchInv, Coherent, Typed, PcTyped,
       CtlTyped, PlaceTyped
<1>3. ASSUME NEW c \in Prompts, NEW kind \in Kinds, CallSubmitted(c, kind) PROVE BranchInv'
  BY <1>3, CallChanges DEF CallSubmitted, SubmitEffect, BranchInv, Coherent
<1>4. ASSUME CallAbort PROVE BranchInv'
  BY <1>4 DEF CallAbort, AbortAll, AbortSignal, BranchInv, Coherent, Typed,
       PcTyped, CtlTyped, PlaceTyped
<1>5. ASSUME CallCompact PROVE BranchInv'
  BY <1>5 DEF CallCompact, AbortAll, Busy, AbortSignal, BranchInv, Coherent,
       Typed, PcTyped, CtlTyped, PlaceTyped
<1>6. ASSUME CallNavigate PROVE BranchInv'
  BY <1>6 DEF CallNavigate, Busy, BranchInv, Coherent, Typed, PcTyped, CtlTyped,
       PlaceTyped
<1>7. ASSUME AbortRetry PROVE BranchInv'
  BY <1>7 DEF AbortRetry, BranchInv, Coherent, Typed, PcTyped, CtlTyped,
       PlaceTyped
<1>8. ASSUME AbortCompaction PROVE BranchInv'
  BY <1>8 DEF AbortCompaction, AbortSignal, BranchInv, Coherent, Typed, PcTyped,
       CtlTyped, PlaceTyped
<1>9. ASSUME RecordBash PROVE BranchInv'
  BY <1>9 DEF RecordBash, Sent, BranchInv, Coherent, Typed, PcTyped, CtlTyped,
       PlaceTyped
<1>10. ASSUME SendCustom PROVE BranchInv'
  BY <1>10 DEF SendCustom, Sent, BranchInv, Coherent, Typed, PcTyped, CtlTyped,
       PlaceTyped
<1>11. ASSUME ClearQueue PROVE BranchInv'
  BY <1>11 DEF ClearQueue, Agent!Clear, BranchInv, Coherent, Typed, PcTyped,
       CtlTyped, PlaceTyped
<1>12. ASSUME NEW c \in Prompts, QueueInput(c) PROVE BranchInv'
  BY <1>12 DEF QueueInput, Agent!Enqueue, BranchInv, Coherent, Typed, PcTyped,
       CtlTyped, PlaceTyped
<1>13. ASSUME NEW c \in Prompts, InputHandled(c) PROVE BranchInv'
  BY <1>13 DEF InputHandled, BranchInv, Coherent, Typed, PcTyped, CtlTyped,
       PlaceTyped
<1>14. ASSUME NEW c \in Prompts, InputPasses(c) PROVE BranchInv'
  BY <1>14 DEF InputPasses, FlushAll, BranchInv, Coherent, Typed, PcTyped,
       CtlTyped, PlaceTyped
<1>15. ASSUME NEW c \in Prompts, CheckAuth(c) PROVE BranchInv'
  BY <1>15 DEF CheckAuth, Compact, StartAuto, Omit, BranchInv, Coherent, Typed,
       PcTyped, CtlTyped, PlaceTyped
<1>16. ASSUME NEW c \in Prompts, RefuseStart(c) PROVE BranchInv'
  BY <1>16 DEF RefuseStart, BranchInv, Coherent, Typed, PcTyped, CtlTyped,
       PlaceTyped
<1>17. ASSUME NEW c \in Prompts, BeforeStart(c) PROVE BranchInv'
  BY <1>17 DEF BeforeStart, StartRun, Agent!Prompt, Agent!Move, BranchInv,
       Coherent, Typed, PcTyped, CtlTyped, PlaceTyped
<1>18. ASSUME NEW r \in Runners, SaveAuto(r) PROVE BranchInv'
  BY <1>18 DEF SaveAuto, BranchInv, Coherent, Typed, PcTyped, CtlTyped, PlaceTyped
<1>19. ASSUME NEW r \in Runners, FinishAuto(r) PROVE BranchInv'
  <2>1. /\ UNCHANGED <<phase, place, callPlace, prepPlace>> /\ autoSig' = [autoSig EXCEPT ![r] = "none"]
        /\ "compact" \in Others => pc'["compact"] = pc["compact"] \/ pc'["compact"] = "resumed"
    BY <1>19 DEF FinishAuto, Wake, Woken, Coherent, Typed, PcTyped
  <2> QED
    BY <2>1 DEF BranchInv, Coherent, Typed, CtlTyped
<1>20. ASSUME NEW c \in Prompts, AgentFinishes(c) PROVE BranchInv'
  BY <1>20 DEF AgentFinishes, Agent!Finish, BranchInv, Coherent, Typed, PcTyped,
       CtlTyped, PlaceTyped
<1>21. ASSUME NEW c \in Prompts, PostAborted(c) PROVE BranchInv'
  BY <1>21 DEF PostAborted, BranchInv, Coherent, Typed, PcTyped, CtlTyped,
       PlaceTyped
<1>22. ASSUME NEW c \in Prompts, PostRetry(c) PROVE BranchInv'
  BY <1>22 DEF PostRetry, Retryable, Omit, BranchInv, Coherent, Typed, PcTyped,
       CtlTyped, PlaceTyped
<1>23. ASSUME NEW c \in Prompts, PostCheck(c) PROVE BranchInv'
  BY <1>23 DEF PostCheck, Retryable, AfterRun, Errors, Compact, StartAuto, Omit,
       BranchInv, Coherent, Typed, PcTyped, CtlTyped, PlaceTyped
<1>24. ASSUME NEW c \in Prompts, SleepOver(c) PROVE BranchInv'
  BY <1>24 DEF SleepOver, BranchInv, Coherent, Typed, PcTyped, CtlTyped, PlaceTyped
<1>25. ASSUME NEW c \in Prompts, SleepAborted(c) PROVE BranchInv'
  BY <1>25 DEF SleepAborted, Compact, AfterRun, StartAuto, Omit, BranchInv,
       Coherent, Typed, PcTyped, CtlTyped, PlaceTyped
<1>26. ASSUME NEW c \in Prompts, NEW user \in BOOLEAN, ContinueRun(c, user) PROVE BranchInv'
  BY <1>26 DEF ContinueRun, Agent!Continue, Agent!Move, BranchInv, Coherent, Typed,
       PcTyped, CtlTyped, PlaceTyped
<1>27. ASSUME NEW c \in Prompts, Settle(c) PROVE BranchInv'
  BY <1>27 DEF Settle, BranchInv, Coherent, Typed, PcTyped, CtlTyped, PlaceTyped
<1>28. ASSUME NEW c \in Prompts, NEW m \in BOOLEAN, NEW x \in BOOLEAN, BeforeSettle(c, m, x)
      PROVE  BranchInv'
  BY <1>28 DEF BeforeSettle, BranchInv, Coherent, Typed, PcTyped, CtlTyped,
       PlaceTyped
<1>29. ASSUME NEW c \in Prompts, Finally(c) PROVE BranchInv'
  BY <1>29 DEF Finally, FlushAll, BranchInv, Coherent, Typed, PcTyped, CtlTyped,
       PlaceTyped
<1>30. ASSUME NEW c \in Prompts, Settled(c) PROVE BranchInv'
  BY <1>30 DEF Settled, Outcome, Wake, Woken, BranchInv, Coherent, Typed, PcTyped, CtlTyped,
       PlaceTyped
<1>31. ASSUME NEW c \in Prompts, RunDeferred(c) PROVE BranchInv'
  BY <1>31, RunDeferredChanges DEF RunDeferred, SubmitEffect, BranchInv, Coherent
<1>32. ASSUME NEW c \in Prompts, DeferredOver(c) PROVE BranchInv'
  <2>1. /\ UNCHANGED <<phase, autoSig, place, callPlace, prepPlace>>
        /\ "compact" \in Others => pc'["compact"] = pc["compact"] \/ pc'["compact"] \in {"resumed", "dropped"}
    BY <1>32 DEF DeferredOver, Outcome, Wake, Woken, Coherent, Typed, PcTyped
  <2> QED
    BY <2>1 DEF BranchInv
<1>33. ASSUME AgentRequests PROVE BranchInv'
  BY <1>33 DEF AgentRequests, Agent!Request, Agent!Move, BranchInv, Coherent,
       Typed, PcTyped, CtlTyped, PlaceTyped
<1>34. ASSUME NEW user \in BOOLEAN, AgentTakes(user) PROVE BranchInv'
  BY <1>34 DEF AgentTakes, Agent!Take, Agent!Move, BranchInv, Coherent, Typed,
       PcTyped, CtlTyped, PlaceTyped
<1>35. ASSUME NEW a \in Answers, NEW calls \in BOOLEAN, AgentResponds(a, calls) PROVE BranchInv'
  BY <1>35 DEF AgentResponds, Agent!Respond, Errors, Agent!FailResponse,
       Agent!Refuse, Answered, Agent!Move, BranchInv, Coherent, Typed, PcTyped,
       CtlTyped, PlaceTyped
<1>36. ASSUME AgentResults PROVE BranchInv'
  BY <1>36 DEF AgentResults, Agent!Results, Agent!Move, BranchInv, Coherent, Typed,
       PcTyped, CtlTyped, PlaceTyped
<1>37. ASSUME AgentTurnEnds PROVE BranchInv'
  BY <1>37 DEF AgentTurnEnds, Agent!TurnEnd, FlushCustom, Agent!Move, BranchInv,
       Coherent, Typed, PcTyped, CtlTyped, PlaceTyped
<1>38. ASSUME NEW n \in 0..1, NEW user \in BOOLEAN, AgentNextTurn(n, user) PROVE BranchInv'
  BY <1>38 DEF AgentNextTurn, Agent!NextTurn, StartAuto, Agent!Move, BranchInv,
       Coherent, Typed, PcTyped, CtlTyped, PlaceTyped
<1>39. ASSUME AgentEndsRun PROVE BranchInv'
  BY <1>39 DEF AgentEndsRun, Agent!EndRun, FlushCustom, Agent!Move, BranchInv,
       Coherent, Typed, PcTyped, CtlTyped, PlaceTyped
<1>40. ASSUME NEW answer \in Answers, AgentThrows(answer) PROVE BranchInv'
  BY <1>40 DEF AgentThrows, Agent!Throw, Agent!Move, BranchInv, Coherent, Typed,
       PcTyped, CtlTyped, PlaceTyped
<1>41. ASSUME "compact" \in Others, StartCompaction PROVE BranchInv'
  BY <1>41 DEF StartCompaction, Compaction, BranchInv, Coherent, Typed, PcTyped,
       CtlTyped, PlaceTyped
<1>42. ASSUME "compact" \in Others, PrepareCompaction PROVE BranchInv'
  BY <1>42 DEF PrepareCompaction, Compaction, BranchInv, Coherent, Typed, PcTyped,
       CtlTyped, PlaceTyped
<1>43. ASSUME "compact" \in Others, SaveCompaction PROVE BranchInv'
  BY <1>43 DEF SaveCompaction, Compaction, BranchInv, Coherent, Typed, PcTyped,
       CtlTyped, PlaceTyped
<1>44. ASSUME "compact" \in Others, FinishCompaction PROVE BranchInv'
  BY <1>44 DEF FinishCompaction, EndCompaction, Wake, Woken, BranchInv, Coherent,
       Typed, PcTyped, CtlTyped, PlaceTyped
<1>45. ASSUME "navigate" \in Others, MoveLeaf PROVE BranchInv'
  <2>1. Navigating /\ UNCHANGED <<phase, autoSig>> /\ \A x \in Callers \ {"navigate"} : pc'[x] = pc[x]
    BY <1>45 DEF MoveLeaf, Navigating, Coherent, Typed, PcTyped
  <2>2. \A c \in Prompts : pc[c] \notin {"running", "precompact", "postcompact", "recovery"}
    BY <2>1 DEF NavInv
  <2>3. phase = "idle" /\ \A r \in Runners : autoSig[r] = "none"
    BY <2>2 DEF Coherent, PhaseInv, SigInv, AutoInv
  <2>4. "compact" \in Others => pc["compact"] # "summarizing"
    BY <2>1 DEF NavInv, Busy
  <2> QED
    BY <2>1, <2>3, <2>4 DEF BranchInv
<1>46. ASSUME "navigate" \in Others, FinishNavigate PROVE BranchInv'
  BY <1>46 DEF FinishNavigate, Wake, Woken, BranchInv, Coherent, Typed, PcTyped,
       CtlTyped, PlaceTyped
<1>47. ASSUME UNCHANGED vars PROVE BranchInv'
  BY <1>47 DEF vars, BranchInv, Coherent, Typed, PcTyped, CtlTyped, PlaceTyped
<1>48. ASSUME NEW c \in Prompts, NEW n \in 1..MaxNotes, FlushThrows(c, n) PROVE BranchInv'
  BY <1>48 DEF FlushThrows, BranchInv, Coherent, Typed, PcTyped, CtlTyped,
       PlaceTyped
<1> QED
  BY <1>1, <1>2, <1>3, <1>4, <1>5, <1>6, <1>7, <1>8, <1>9, <1>10, <1>11, <1>12,
       <1>13, <1>14, <1>15, <1>16, <1>17, <1>18, <1>19, <1>20, <1>21, <1>22,
       <1>23, <1>24, <1>25, <1>26, <1>27, <1>28, <1>29, <1>30, <1>31, <1>32,
       <1>33, <1>34, <1>35, <1>36, <1>37, <1>38, <1>39, <1>40, <1>41, <1>42,
       <1>43, <1>44, <1>45, <1>46, <1>47, <1>48
     DEF Next, Client, CallPrompt, Serve, AgentStep, CompactStep, TreeStep

(* A compaction has been saved: it was under way.                          *)
Saves ==
    /\ \A s \in Runners : autoSig'[s] = "saved" => autoSig[s] # "none"
    /\ \A d \in Others : pc'[d] = "compacted" => pc[d] = "compacted" \/ (pc[d] = "summarizing" /\ d = "compact")

(* A compaction is saved only by the step that ends its work.              *)
LEMMA SavesStep ==
  ASSUME Coherent, [Next]_vars
  PROVE  Saves
<1> USE Names DEF Callers, Runners, At, agentVars, runVars, ctlVars, answerVars, noteVars, placeVars
<1>1. ASSUME NEW c \in Prompts, CallQueued(c) PROVE Saves
  BY <1>1 DEF CallQueued, Calls, Agent!Enqueue, Busy, Coherent, Typed, PcTyped,
       CtlTyped, Saves
<1>2. ASSUME NEW c \in Prompts, NEW kind \in Kinds, CallDeferred(c, kind) PROVE Saves
  BY <1>2 DEF CallDeferred, Calls, Busy, Coherent, Typed, PcTyped, CtlTyped, Saves
<1>3. ASSUME NEW c \in Prompts, NEW kind \in Kinds, CallSubmitted(c, kind) PROVE Saves
  BY <1>3, CallChanges DEF SubmitEffect, Coherent, Saves
<1>4. ASSUME CallAbort PROVE Saves
  BY <1>4 DEF CallAbort, AbortAll, AbortSignal, Coherent, Typed, PcTyped, CtlTyped, Saves
<1>5. ASSUME CallCompact PROVE Saves
  BY <1>5 DEF CallCompact, AbortAll, Busy, AbortSignal, Coherent, Typed, PcTyped,
       CtlTyped, Saves
<1>6. ASSUME CallNavigate PROVE Saves
  BY <1>6 DEF CallNavigate, Busy, Coherent, Typed, PcTyped, CtlTyped, Saves
<1>7. ASSUME AbortRetry PROVE Saves
  BY <1>7 DEF AbortRetry, Coherent, Typed, PcTyped, CtlTyped, Saves
<1>8. ASSUME AbortCompaction PROVE Saves
  BY <1>8 DEF AbortCompaction, AbortSignal, Coherent, Typed, PcTyped, CtlTyped, Saves
<1>9. ASSUME RecordBash PROVE Saves
  BY <1>9 DEF RecordBash, Sent, Coherent, Typed, PcTyped, CtlTyped, Saves
<1>10. ASSUME SendCustom PROVE Saves
  BY <1>10 DEF SendCustom, Sent, Coherent, Typed, PcTyped, CtlTyped, Saves
<1>11. ASSUME ClearQueue PROVE Saves
  BY <1>11 DEF ClearQueue, Agent!Clear, Coherent, Typed, PcTyped, CtlTyped, Saves
<1>12. ASSUME NEW c \in Prompts, QueueInput(c) PROVE Saves
  BY <1>12 DEF QueueInput, Agent!Enqueue, Coherent, Typed, PcTyped, CtlTyped, Saves
<1>13. ASSUME NEW c \in Prompts, InputHandled(c) PROVE Saves
  BY <1>13 DEF InputHandled, Coherent, Typed, PcTyped, CtlTyped, Saves
<1>14. ASSUME NEW c \in Prompts, InputPasses(c) PROVE Saves
  BY <1>14 DEF InputPasses, FlushAll, Coherent, Typed, PcTyped, CtlTyped, Saves
<1>15. ASSUME NEW c \in Prompts, CheckAuth(c) PROVE Saves
  BY <1>15 DEF CheckAuth, Compact, StartAuto, Omit, Coherent, Typed, PcTyped,
       CtlTyped, Saves
<1>16. ASSUME NEW c \in Prompts, RefuseStart(c) PROVE Saves
  BY <1>16 DEF RefuseStart, Coherent, Typed, PcTyped, CtlTyped, Saves
<1>17. ASSUME NEW c \in Prompts, BeforeStart(c) PROVE Saves
  BY <1>17 DEF BeforeStart, StartRun, Agent!Prompt, Agent!Move, Coherent, Typed,
       PcTyped, CtlTyped, Saves
<1>18. ASSUME NEW r \in Runners, SaveAuto(r) PROVE Saves
  BY <1>18 DEF SaveAuto, Coherent, Typed, PcTyped, CtlTyped, Saves
<1>19. ASSUME NEW r \in Runners, FinishAuto(r) PROVE Saves
  <2>1. /\ autoSig' = [autoSig EXCEPT ![r] = "none"]
        /\ \A c \in Others : pc'[c] = pc[c] \/ pc'[c] \in {"resumed", "done"}
    BY <1>19 DEF FinishAuto, Wake, Woken, Coherent, Typed, PcTyped
  <2> QED
    BY <2>1 DEF Coherent, Typed, CtlTyped, Saves
<1>20. ASSUME NEW c \in Prompts, AgentFinishes(c) PROVE Saves
  BY <1>20 DEF AgentFinishes, Agent!Finish, Coherent, Typed, PcTyped, CtlTyped, Saves
<1>21. ASSUME NEW c \in Prompts, PostAborted(c) PROVE Saves
  BY <1>21 DEF PostAborted, Coherent, Typed, PcTyped, CtlTyped, Saves
<1>22. ASSUME NEW c \in Prompts, PostRetry(c) PROVE Saves
  BY <1>22 DEF PostRetry, Retryable, Omit, Coherent, Typed, PcTyped, CtlTyped, Saves
<1>23. ASSUME NEW c \in Prompts, PostCheck(c) PROVE Saves
  BY <1>23 DEF PostCheck, Retryable, AfterRun, Errors, Compact, StartAuto, Omit,
       Coherent, Typed, PcTyped, CtlTyped, Saves
<1>24. ASSUME NEW c \in Prompts, SleepOver(c) PROVE Saves
  BY <1>24 DEF SleepOver, Coherent, Typed, PcTyped, CtlTyped, Saves
<1>25. ASSUME NEW c \in Prompts, SleepAborted(c) PROVE Saves
  BY <1>25 DEF SleepAborted, Compact, AfterRun, StartAuto, Omit, Coherent, Typed,
       PcTyped, CtlTyped, Saves
<1>26. ASSUME NEW c \in Prompts, NEW user \in BOOLEAN, ContinueRun(c, user) PROVE Saves
  BY <1>26 DEF ContinueRun, Agent!Continue, Agent!Move, Coherent, Typed, PcTyped,
       CtlTyped, Saves
<1>27. ASSUME NEW c \in Prompts, Settle(c) PROVE Saves
  BY <1>27 DEF Settle, Coherent, Typed, PcTyped, CtlTyped, Saves
<1>28. ASSUME NEW c \in Prompts, NEW m \in BOOLEAN, NEW x \in BOOLEAN, BeforeSettle(c, m, x)
      PROVE  Saves
  BY <1>28 DEF BeforeSettle, Coherent, Typed, PcTyped, CtlTyped, Saves
<1>29. ASSUME NEW c \in Prompts, Finally(c) PROVE Saves
  BY <1>29 DEF Finally, FlushAll, Coherent, Typed, PcTyped, CtlTyped, Saves
<1>30. ASSUME NEW c \in Prompts, Settled(c) PROVE Saves
  BY <1>30 DEF Settled, Outcome, Wake, Woken, Coherent, Typed, PcTyped, CtlTyped, Saves
<1>31. ASSUME NEW c \in Prompts, RunDeferred(c) PROVE Saves
  BY <1>31, RunDeferredChanges DEF SubmitEffect, Coherent, Saves
<1>32. ASSUME NEW c \in Prompts, DeferredOver(c) PROVE Saves
  <2>1. UNCHANGED autoSig /\ \A c1 \in Others : pc'[c1] = pc[c1] \/ pc'[c1] \in {"resumed", "dropped", "done"}
    BY <1>32 DEF DeferredOver, Outcome, Wake, Woken, Coherent, Typed, PcTyped
  <2> QED
    BY <2>1 DEF Saves
<1>33. ASSUME AgentRequests PROVE Saves
  BY <1>33 DEF AgentRequests, Agent!Request, Agent!Move, Coherent, Typed, PcTyped,
       CtlTyped, Saves
<1>34. ASSUME NEW user \in BOOLEAN, AgentTakes(user) PROVE Saves
  BY <1>34 DEF AgentTakes, Agent!Take, Agent!Move, Coherent, Typed, PcTyped,
       CtlTyped, Saves
<1>35. ASSUME NEW a \in Answers, NEW calls \in BOOLEAN, AgentResponds(a, calls) PROVE Saves
  BY <1>35 DEF AgentResponds, Agent!Respond, Errors, Agent!FailResponse,
       Agent!Refuse, Answered, Agent!Move, Coherent, Typed, PcTyped, CtlTyped, Saves
<1>36. ASSUME AgentResults PROVE Saves
  BY <1>36 DEF AgentResults, Agent!Results, Agent!Move, Coherent, Typed, PcTyped,
       CtlTyped, Saves
<1>37. ASSUME AgentTurnEnds PROVE Saves
  BY <1>37 DEF AgentTurnEnds, Agent!TurnEnd, FlushCustom, Agent!Move, Coherent,
       Typed, PcTyped, CtlTyped, Saves
<1>38. ASSUME NEW n \in 0..1, NEW user \in BOOLEAN, AgentNextTurn(n, user) PROVE Saves
  BY <1>38 DEF AgentNextTurn, Agent!NextTurn, StartAuto, Agent!Move, Coherent,
       Typed, PcTyped, CtlTyped, Saves
<1>39. ASSUME AgentEndsRun PROVE Saves
  BY <1>39 DEF AgentEndsRun, Agent!EndRun, FlushCustom, Agent!Move, Coherent,
       Typed, PcTyped, CtlTyped, Saves
<1>40. ASSUME NEW answer \in Answers, AgentThrows(answer) PROVE Saves
  BY <1>40 DEF AgentThrows, Agent!Throw, Agent!Move, Coherent, Typed, PcTyped,
       CtlTyped, Saves
<1>41. ASSUME "compact" \in Others, StartCompaction PROVE Saves
  BY <1>41 DEF StartCompaction, Compaction, Coherent, Typed, PcTyped, CtlTyped, Saves
<1>42. ASSUME "compact" \in Others, PrepareCompaction PROVE Saves
  BY <1>42 DEF PrepareCompaction, Compaction, Coherent, Typed, PcTyped, CtlTyped, Saves
<1>43. ASSUME "compact" \in Others, SaveCompaction PROVE Saves
  BY <1>43 DEF SaveCompaction, Compaction, Coherent, Typed, PcTyped, CtlTyped, Saves
<1>44. ASSUME "compact" \in Others, FinishCompaction PROVE Saves
  BY <1>44 DEF FinishCompaction, EndCompaction, Wake, Woken, Coherent, Typed,
       PcTyped, CtlTyped, Saves
<1>45. ASSUME "navigate" \in Others, MoveLeaf PROVE Saves
  BY <1>45 DEF MoveLeaf, Coherent, Typed, PcTyped, CtlTyped, Saves
<1>46. ASSUME "navigate" \in Others, FinishNavigate PROVE Saves
  BY <1>46 DEF FinishNavigate, Wake, Woken, Coherent, Typed, PcTyped, CtlTyped, Saves
<1>47. ASSUME UNCHANGED vars PROVE Saves
  BY <1>47 DEF vars, Coherent, Typed, PcTyped, CtlTyped, Saves
<1>48. ASSUME NEW c \in Prompts, NEW n \in 1..MaxNotes, FlushThrows(c, n) PROVE Saves
  BY <1>48 DEF FlushThrows, Coherent, Typed, PcTyped, CtlTyped, Saves
<1> QED
  BY <1>1, <1>2, <1>3, <1>4, <1>5, <1>6, <1>7, <1>8, <1>9, <1>10, <1>11, <1>12,
       <1>13, <1>14, <1>15, <1>16, <1>17, <1>18, <1>19, <1>20, <1>21, <1>22,
       <1>23, <1>24, <1>25, <1>26, <1>27, <1>28, <1>29, <1>30, <1>31, <1>32,
       <1>33, <1>34, <1>35, <1>36, <1>37, <1>38, <1>39, <1>40, <1>41, <1>42,
       <1>43, <1>44, <1>45, <1>46, <1>47, <1>48
     DEF Next, Client, CallPrompt, Serve, AgentStep, CompactStep, TreeStep

(* So what is saved is on the branch it was made from.                     *)
LEMMA OwnBranchStep ==
  ASSUME Coherent, BranchInv, [Next]_vars
  PROVE  /\ (phase = "tools" /\ phase' = "finishing") => place = callPlace
         /\ \A r \in Runners : autoSig'[r] = "saved" /\ autoSig[r] # "saved" => place = prepPlace[r]
         /\ \A c \in Others : pc'[c] = "compacted" /\ pc[c] # "compacted" => place = prepPlace[c]
BY SavesStep DEF Saves, BranchInv

(* What is made from a branch is put on that branch, when clients wait for *)
(* each other: tool results, automatic compactions and those of compact    *)
(* never meet a leaf that navigateTree has moved in between.               *)
THEOREM OwnBranchCorrect == ~Overlap => (Spec /\ []OneStarter => OwnBranch)
<1> SUFFICES ASSUME ~Overlap PROVE Spec /\ []OneStarter => OwnBranch
  OBVIOUS
<1>1. Init => SettlingInv /\ NavInv /\ BranchInv
  <2> SUFFICES ASSUME Init PROVE SettlingInv /\ NavInv /\ BranchInv
    OBVIOUS
  <2>1. SettlingInv
    BY DEF Init, SettlingInv
  <2>2. NavInv
    BY DEF Init, NavInv, Navigating, Callers
  <2>3. BranchInv
    BY Names DEF Init, Agent!Init, BranchInv, Callers, Runners
  <2> QED
    BY <2>1, <2>2, <2>3
<1>2. Coherent /\ SettlingInv /\ NavInv /\ BranchInv /\ [Next]_vars => SettlingInv' /\ NavInv' /\ BranchInv'
  BY DeferringStep, NavStep, BranchStep DEF Coherent
<1>3. Coherent /\ BranchInv /\ [Next]_vars =>
         [/\ (phase = "tools" /\ phase' = "finishing") => place = callPlace
          /\ \A r \in Runners : autoSig'[r] = "saved" /\ autoSig[r] # "saved" => place = prepPlace[r]
          /\ \A c \in Others : pc'[c] = "compacted" /\ pc[c] # "compacted" => place = prepPlace[c]]_vars
  BY OwnBranchStep
<1> QED
  BY <1>1, <1>2, <1>3, CoherentAlways, PTL DEF Spec, OwnBranch

-----------------------------------------------------------------------------

(* A call is made when no other is in its preflight.                       *)
LEMMA QuietStep ==
  ASSUME ~Overlap, Coherent, QuietInv, deferred = <<>>, deferred' = <<>>,
         [Next]_vars
  PROVE  QuietInv'
<1> USE Names DEF Callers, Runners, At, agentVars, runVars, ctlVars, answerVars, noteVars, placeVars
<1>1. ASSUME NEW c \in Prompts, CallQueued(c) PROVE QuietInv'
  <2>1. UNCHANGED todo /\ pc'[c] \notin {"deferred", "draining"} /\ \A x \in Prompts \ {c} : pc'[x] = pc[x]
    BY <1>1, CallChanges DEF CallQueued, SubmitEffect, Coherent, Typed, PcTyped
  <2>2. \A x \in Prompts : pc[x] \notin Preflight
    BY <1>1 DEF CallQueued, Calls, MayCall
  <2> QED
    BY <2>1, <2>2 DEF QuietInv
<1>2. ASSUME NEW c \in Prompts, NEW kind \in Kinds, CallDeferred(c, kind) PROVE QuietInv'
  <2>1. deferred' = Append(<<>>, [caller |-> c, kind |-> kind])
    BY <1>2 DEF CallDeferred
  <2>2. deferred' # <<>>
    BY <2>1
  <2> QED
    BY <2>2
<1>3. ASSUME NEW c \in Prompts, NEW kind \in Kinds, CallSubmitted(c, kind) PROVE QuietInv'
  <2>1. UNCHANGED todo /\ pc'[c] \notin {"deferred", "draining"} /\ \A x \in Prompts \ {c} : pc'[x] = pc[x]
    BY <1>3, CallChanges DEF CallSubmitted, SubmitEffect, Coherent, Typed, PcTyped
  <2>2. \A x \in Prompts : pc[x] \notin Preflight
    BY <1>3 DEF CallSubmitted, Calls, MayCall
  <2> QED
    BY <2>1, <2>2 DEF QuietInv
<1>4. ASSUME CallAbort PROVE QuietInv'
  BY <1>4 DEF CallAbort, AbortAll, AbortSignal, QuietInv, Coherent, Typed,
       PcTyped, RunTyped, Preflight
<1>5. ASSUME CallCompact PROVE QuietInv'
  BY <1>5 DEF CallCompact, AbortAll, Busy, AbortSignal, QuietInv, Coherent, Typed,
       PcTyped, RunTyped, Preflight
<1>6. ASSUME CallNavigate PROVE QuietInv'
  BY <1>6 DEF CallNavigate, Busy, QuietInv, Coherent, Typed, PcTyped, RunTyped,
       Preflight
<1>7. ASSUME AbortRetry PROVE QuietInv'
  BY <1>7 DEF AbortRetry, QuietInv, Coherent, Typed, PcTyped, RunTyped, Preflight
<1>8. ASSUME AbortCompaction PROVE QuietInv'
  BY <1>8 DEF AbortCompaction, AbortSignal, QuietInv, Coherent, Typed, PcTyped,
       RunTyped, Preflight
<1>9. ASSUME RecordBash PROVE QuietInv'
  BY <1>9 DEF RecordBash, Sent, QuietInv, Coherent, Typed, PcTyped, RunTyped,
       Preflight
<1>10. ASSUME SendCustom PROVE QuietInv'
  BY <1>10 DEF SendCustom, Sent, QuietInv, Coherent, Typed, PcTyped, RunTyped,
       Preflight
<1>11. ASSUME ClearQueue PROVE QuietInv'
  BY <1>11 DEF ClearQueue, Agent!Clear, QuietInv, Coherent, Typed, PcTyped,
       RunTyped, Preflight
<1>12. ASSUME NEW c \in Prompts, QueueInput(c) PROVE QuietInv'
  BY <1>12 DEF QueueInput, Agent!Enqueue, QuietInv, Coherent, Typed, PcTyped,
       RunTyped, Preflight
<1>13. ASSUME NEW c \in Prompts, InputHandled(c) PROVE QuietInv'
  BY <1>13 DEF InputHandled, QuietInv, Coherent, Typed, PcTyped, RunTyped,
       Preflight
<1>14. ASSUME NEW c \in Prompts, InputPasses(c) PROVE QuietInv'
  BY <1>14 DEF InputPasses, FlushAll, QuietInv, Coherent, Typed, PcTyped, RunTyped,
       Preflight
<1>15. ASSUME NEW c \in Prompts, CheckAuth(c) PROVE QuietInv'
  BY <1>15 DEF CheckAuth, Compact, StartAuto, Omit, QuietInv, Coherent, Typed,
       PcTyped, RunTyped, Preflight
<1>16. ASSUME NEW c \in Prompts, RefuseStart(c) PROVE QuietInv'
  BY <1>16 DEF RefuseStart, QuietInv, Coherent, Typed, PcTyped, RunTyped, Preflight
<1>17. ASSUME NEW c \in Prompts, BeforeStart(c) PROVE QuietInv'
  BY <1>17 DEF BeforeStart, StartRun, Agent!Prompt, Agent!Move, QuietInv, Coherent,
       Typed, PcTyped, RunTyped, Preflight
<1>18. ASSUME NEW r \in Runners, SaveAuto(r) PROVE QuietInv'
  BY <1>18 DEF SaveAuto, QuietInv, Coherent, Typed, PcTyped, RunTyped, Preflight
<1>19. ASSUME NEW r \in Runners, FinishAuto(r) PROVE QuietInv'
  <2>1. UNCHANGED todo
    BY <1>19 DEF FinishAuto
  <2>2. \A x \in Prompts : /\ pc'[x] \in Preflight => pc[x] \in Preflight
                           /\ pc'[x] \in {"deferred", "draining"} => pc[x] \in {"deferred", "draining"}
    BY <1>19, FinishAutoChanges DEF Coherent, Preflight
  <2> QED
    BY <2>1, <2>2 DEF QuietInv
<1>20. ASSUME NEW c \in Prompts, AgentFinishes(c) PROVE QuietInv'
  BY <1>20 DEF AgentFinishes, Agent!Finish, QuietInv, Coherent, Typed, PcTyped,
       RunTyped, Preflight
<1>21. ASSUME NEW c \in Prompts, PostAborted(c) PROVE QuietInv'
  BY <1>21 DEF PostAborted, QuietInv, Coherent, Typed, PcTyped, RunTyped, Preflight
<1>22. ASSUME NEW c \in Prompts, PostRetry(c) PROVE QuietInv'
  BY <1>22 DEF PostRetry, Retryable, Omit, QuietInv, Coherent, Typed, PcTyped,
       RunTyped, Preflight
<1>23. ASSUME NEW c \in Prompts, PostCheck(c) PROVE QuietInv'
  BY <1>23 DEF PostCheck, Retryable, AfterRun, Errors, Compact, StartAuto, Omit,
       QuietInv, Coherent, Typed, PcTyped, RunTyped, Preflight
<1>24. ASSUME NEW c \in Prompts, SleepOver(c) PROVE QuietInv'
  BY <1>24 DEF SleepOver, QuietInv, Coherent, Typed, PcTyped, RunTyped, Preflight
<1>25. ASSUME NEW c \in Prompts, SleepAborted(c) PROVE QuietInv'
  BY <1>25 DEF SleepAborted, Compact, AfterRun, StartAuto, Omit, QuietInv,
       Coherent, Typed, PcTyped, RunTyped, Preflight
<1>26. ASSUME NEW c \in Prompts, NEW user \in BOOLEAN, ContinueRun(c, user) PROVE QuietInv'
  BY <1>26 DEF ContinueRun, Agent!Continue, Agent!Move, QuietInv, Coherent, Typed,
       PcTyped, RunTyped, Preflight
<1>27. ASSUME NEW c \in Prompts, Settle(c) PROVE QuietInv'
  BY <1>27 DEF Settle, QuietInv, Coherent, Typed, PcTyped, RunTyped, Preflight
<1>28. ASSUME NEW c \in Prompts, NEW m \in BOOLEAN, NEW x \in BOOLEAN, BeforeSettle(c, m, x)
      PROVE  QuietInv'
  BY <1>28 DEF BeforeSettle, QuietInv, Coherent, Typed, PcTyped, RunTyped,
       Preflight
<1>29. ASSUME NEW c \in Prompts, Finally(c) PROVE QuietInv'
  BY <1>29 DEF Finally, FlushAll, QuietInv, Coherent, Typed, PcTyped, RunTyped,
       Preflight
<1>30. ASSUME NEW c \in Prompts, Settled(c) PROVE QuietInv'
  <2>1. todo' = [todo EXCEPT ![c] = <<>>] /\ Wake(c, Outcome(c))
    BY <1>30 DEF Settled
  <2>2. \A x \in Prompts : pc'[x] = pc[x] \/ pc'[x] \in {"done", "rejected"}
    BY <2>1 DEF Outcome, Wake, Woken
  <2>3. \A x \in Prompts : todo'[x] = <<>>
    BY <2>1 DEF QuietInv, Coherent, Typed, RunTyped
  <2> QED
    BY <2>2, <2>3 DEF QuietInv, Preflight
<1>31. ASSUME NEW c \in Prompts, RunDeferred(c) PROVE QuietInv'
  BY <1>31 DEF RunDeferred, QuietInv
<1>32. ASSUME NEW c \in Prompts, DeferredOver(c) PROVE QuietInv'
  BY <1>32 DEF DeferredOver, QuietInv
<1>33. ASSUME AgentRequests PROVE QuietInv'
  BY <1>33 DEF AgentRequests, Agent!Request, Agent!Move, QuietInv, Coherent, Typed,
       PcTyped, RunTyped, Preflight
<1>34. ASSUME NEW user \in BOOLEAN, AgentTakes(user) PROVE QuietInv'
  BY <1>34 DEF AgentTakes, Agent!Take, Agent!Move, QuietInv, Coherent, Typed,
       PcTyped, RunTyped, Preflight
<1>35. ASSUME NEW a \in Answers, NEW calls \in BOOLEAN, AgentResponds(a, calls) PROVE QuietInv'
  BY <1>35 DEF AgentResponds, Agent!Respond, Errors, Agent!FailResponse,
       Agent!Refuse, Answered, Agent!Move, QuietInv, Coherent, Typed, PcTyped,
       RunTyped, Preflight
<1>36. ASSUME AgentResults PROVE QuietInv'
  BY <1>36 DEF AgentResults, Agent!Results, Agent!Move, QuietInv, Coherent, Typed,
       PcTyped, RunTyped, Preflight
<1>37. ASSUME AgentTurnEnds PROVE QuietInv'
  BY <1>37 DEF AgentTurnEnds, Agent!TurnEnd, FlushCustom, Agent!Move, QuietInv,
       Coherent, Typed, PcTyped, RunTyped, Preflight
<1>38. ASSUME NEW n \in 0..1, NEW user \in BOOLEAN, AgentNextTurn(n, user) PROVE QuietInv'
  BY <1>38 DEF AgentNextTurn, Agent!NextTurn, StartAuto, Agent!Move, QuietInv,
       Coherent, Typed, PcTyped, RunTyped, Preflight
<1>39. ASSUME AgentEndsRun PROVE QuietInv'
  BY <1>39 DEF AgentEndsRun, Agent!EndRun, FlushCustom, Agent!Move, QuietInv,
       Coherent, Typed, PcTyped, RunTyped, Preflight
<1>40. ASSUME NEW answer \in Answers, AgentThrows(answer) PROVE QuietInv'
  BY <1>40 DEF AgentThrows, Agent!Throw, Agent!Move, QuietInv, Coherent, Typed,
       PcTyped, RunTyped, Preflight
<1>41. ASSUME "compact" \in Others, StartCompaction PROVE QuietInv'
  BY <1>41 DEF StartCompaction, Compaction, QuietInv, Coherent, Typed, PcTyped,
       RunTyped, Preflight
<1>42. ASSUME "compact" \in Others, PrepareCompaction PROVE QuietInv'
  BY <1>42 DEF PrepareCompaction, Compaction, QuietInv, Coherent, Typed, PcTyped,
       RunTyped, Preflight
<1>43. ASSUME "compact" \in Others, SaveCompaction PROVE QuietInv'
  BY <1>43 DEF SaveCompaction, Compaction, QuietInv, Coherent, Typed, PcTyped,
       RunTyped, Preflight
<1>44. ASSUME "compact" \in Others, FinishCompaction PROVE QuietInv'
  BY <1>44 DEF FinishCompaction, EndCompaction, Wake, Woken, Busy, QuietInv,
       Coherent, Typed, PcTyped, RunTyped, Preflight
<1>45. ASSUME "navigate" \in Others, MoveLeaf PROVE QuietInv'
  BY <1>45 DEF MoveLeaf, QuietInv, Coherent, Typed, PcTyped, RunTyped, Preflight
<1>46. ASSUME "navigate" \in Others, FinishNavigate PROVE QuietInv'
  BY <1>46 DEF FinishNavigate, Wake, Woken, Busy, QuietInv, Coherent, Typed,
       PcTyped, RunTyped, Preflight
<1>47. ASSUME UNCHANGED vars PROVE QuietInv'
  BY <1>47 DEF vars, QuietInv, Coherent, Typed, PcTyped, RunTyped, Preflight
<1>48. ASSUME NEW c \in Prompts, NEW n \in 1..MaxNotes, FlushThrows(c, n) PROVE QuietInv'
  BY <1>48 DEF FlushThrows, QuietInv, Coherent, Typed, PcTyped, RunTyped,
       Preflight
<1> QED
  BY <1>1, <1>2, <1>3, <1>4, <1>5, <1>6, <1>7, <1>8, <1>9, <1>10, <1>11, <1>12,
       <1>13, <1>14, <1>15, <1>16, <1>17, <1>18, <1>19, <1>20, <1>21, <1>22,
       <1>23, <1>24, <1>25, <1>26, <1>27, <1>28, <1>29, <1>30, <1>31, <1>32,
       <1>33, <1>34, <1>35, <1>36, <1>37, <1>38, <1>39, <1>40, <1>41, <1>42,
       <1>43, <1>44, <1>45, <1>46, <1>47, <1>48
     DEF Next, Client, CallPrompt, Serve, AgentStep, CompactStep, TreeStep

(* Who passes the input handlers meets no other prompt in its preflight    *)
(* and no active run.                                                      *)
LEMMA StarterStep ==
  ASSUME ~Overlap, Coherent, OneStarter, QuietInv, deferred = <<>>, [Next]_vars
  PROVE  OneStarter'
<1> USE Names DEF Callers, Runners, At, agentVars, runVars, ctlVars, answerVars, noteVars, placeVars
<1>1. ASSUME NEW c \in Prompts, CallQueued(c) PROVE OneStarter'
  BY <1>1 DEF CallQueued, Calls, Agent!Enqueue, Busy, OneStarter, Coherent, Typed,
       PcTyped, Committed, Starting, RunLocs
<1>2. ASSUME NEW c \in Prompts, NEW kind \in Kinds, CallDeferred(c, kind) PROVE OneStarter'
  BY <1>2 DEF CallDeferred, Calls, Busy, OneStarter, Coherent, Typed, PcTyped,
       Committed, Starting, RunLocs
<1>3. ASSUME NEW c \in Prompts, NEW kind \in Kinds, CallSubmitted(c, kind) PROVE OneStarter'
  <2>1. /\ \A x \in Prompts \ {c} : pc'[x] = pc[x]
        /\ pc'[c] \in Committed => ~active
    <3>1. \A x \in Prompts \ {c} : pc'[x] = pc[x]
      BY <1>3, CallChanges DEF SubmitEffect, Coherent
    <3>2. CASE kind = "trigger"
      BY <1>3, <3>1, <3>2 DEF CallSubmitted
    <3>3. CASE kind # "trigger"
      <4>1. Input[kind] \in {"input", "inputSteer", "inputQueue"}
        BY <3>3 DEF Kinds, Input
      <4>2. pc'[c] \in {"rejected", "input", "inputSteer", "inputQueue"}
        BY <1>3, <3>3, <4>1 DEF CallSubmitted, Submit, At, Coherent, Typed, PcTyped
      <4> QED
        BY <3>1, <4>2 DEF Committed, Starting, RunLocs
    <3> QED
      BY <3>2, <3>3
  <2>2. \A x \in Prompts : pc[x] \notin Starting
    BY <1>3 DEF CallSubmitted, Calls, MayCall, Preflight, Starting
  <2>3. ~active => \A x \in Prompts : pc[x] \notin RunLocs
    BY DEF Coherent, ActiveInv
  <2> QED
    BY <2>1, <2>2, <2>3 DEF OneStarter, Committed
<1>4. ASSUME CallAbort PROVE OneStarter'
  BY <1>4 DEF CallAbort, AbortAll, AbortSignal, OneStarter, Coherent, Typed,
       PcTyped, Committed, Starting, RunLocs
<1>5. ASSUME CallCompact PROVE OneStarter'
  BY <1>5 DEF CallCompact, AbortAll, Busy, AbortSignal, OneStarter, Coherent,
       Typed, PcTyped, Committed, Starting, RunLocs
<1>6. ASSUME CallNavigate PROVE OneStarter'
  BY <1>6 DEF CallNavigate, Busy, OneStarter, Coherent, Typed, PcTyped, Committed,
       Starting, RunLocs
<1>7. ASSUME AbortRetry PROVE OneStarter'
  BY <1>7 DEF AbortRetry, OneStarter, Coherent, Typed, PcTyped, Committed,
       Starting, RunLocs
<1>8. ASSUME AbortCompaction PROVE OneStarter'
  BY <1>8 DEF AbortCompaction, AbortSignal, OneStarter, Coherent, Typed, PcTyped,
       Committed, Starting, RunLocs
<1>9. ASSUME RecordBash PROVE OneStarter'
  BY <1>9 DEF RecordBash, Sent, OneStarter, Coherent, Typed, PcTyped, Committed,
       Starting, RunLocs
<1>10. ASSUME SendCustom PROVE OneStarter'
  BY <1>10 DEF SendCustom, Sent, OneStarter, Coherent, Typed, PcTyped, Committed,
       Starting, RunLocs
<1>11. ASSUME ClearQueue PROVE OneStarter'
  BY <1>11 DEF ClearQueue, Agent!Clear, OneStarter, Coherent, Typed, PcTyped,
       Committed, Starting, RunLocs
<1>12. ASSUME NEW c \in Prompts, QueueInput(c) PROVE OneStarter'
  BY <1>12 DEF QueueInput, Agent!Enqueue, OneStarter, Coherent, Typed, PcTyped,
       Committed, Starting, RunLocs
<1>13. ASSUME NEW c \in Prompts, InputHandled(c) PROVE OneStarter'
  BY <1>13 DEF InputHandled, OneStarter, Coherent, Typed, PcTyped, Committed,
       Starting, RunLocs
<1>14. ASSUME NEW c \in Prompts, InputPasses(c) PROVE OneStarter'
  <2>1. pc[c] \in Preflight /\ pc'[c] = "auth" /\ \A x \in Prompts \ {c} : pc'[x] = pc[x]
    BY <1>14 DEF InputPasses, Preflight, Coherent, Typed, PcTyped
  <2>2. \A x \in Prompts \ {c} : pc[x] \notin Starting
    BY <2>1 DEF QuietInv, Preflight, Starting
  <2>3. \A x \in Prompts : pc[x] \notin RunLocs
    BY <1>14 DEF InputPasses, Coherent, ActiveInv
  <2> QED
    BY <2>1, <2>2, <2>3 DEF OneStarter, Committed
<1>15. ASSUME NEW c \in Prompts, CheckAuth(c) PROVE OneStarter'
  BY <1>15 DEF CheckAuth, Compact, StartAuto, Omit, OneStarter, Coherent, Typed,
       PcTyped, Committed, Starting, RunLocs
<1>16. ASSUME NEW c \in Prompts, RefuseStart(c) PROVE OneStarter'
  BY <1>16 DEF RefuseStart, OneStarter, Coherent, Typed, PcTyped, Committed,
       Starting, RunLocs
<1>17. ASSUME NEW c \in Prompts, BeforeStart(c) PROVE OneStarter'
  BY <1>17 DEF BeforeStart, StartRun, Agent!Prompt, Agent!Move, OneStarter,
       Coherent, Typed, PcTyped, Committed, Starting, RunLocs
<1>18. ASSUME NEW r \in Runners, SaveAuto(r) PROVE OneStarter'
  BY <1>18 DEF SaveAuto, OneStarter, Coherent, Typed, PcTyped, Committed, Starting,
       RunLocs
<1>19. ASSUME NEW r \in Runners, FinishAuto(r) PROVE OneStarter'
  <2>1. \A x \in Prompts : pc'[x] \in Committed => pc[x] \in Committed
    BY <1>19, FinishAutoChanges DEF Coherent, Committed, Starting, RunLocs
  <2> QED
    BY <2>1 DEF OneStarter
<1>20. ASSUME NEW c \in Prompts, AgentFinishes(c) PROVE OneStarter'
  BY <1>20 DEF AgentFinishes, Agent!Finish, OneStarter, Coherent, Typed, PcTyped,
       Committed, Starting, RunLocs
<1>21. ASSUME NEW c \in Prompts, PostAborted(c) PROVE OneStarter'
  BY <1>21 DEF PostAborted, OneStarter, Coherent, Typed, PcTyped, Committed,
       Starting, RunLocs
<1>22. ASSUME NEW c \in Prompts, PostRetry(c) PROVE OneStarter'
  BY <1>22 DEF PostRetry, Retryable, Omit, OneStarter, Coherent, Typed, PcTyped,
       Committed, Starting, RunLocs
<1>23. ASSUME NEW c \in Prompts, PostCheck(c) PROVE OneStarter'
  BY <1>23 DEF PostCheck, Retryable, AfterRun, Errors, Compact, StartAuto, Omit,
       OneStarter, Coherent, Typed, PcTyped, Committed, Starting, RunLocs
<1>24. ASSUME NEW c \in Prompts, SleepOver(c) PROVE OneStarter'
  BY <1>24 DEF SleepOver, OneStarter, Coherent, Typed, PcTyped, Committed,
       Starting, RunLocs
<1>25. ASSUME NEW c \in Prompts, SleepAborted(c) PROVE OneStarter'
  BY <1>25 DEF SleepAborted, Compact, AfterRun, StartAuto, Omit, OneStarter,
       Coherent, Typed, PcTyped, Committed, Starting, RunLocs
<1>26. ASSUME NEW c \in Prompts, NEW user \in BOOLEAN, ContinueRun(c, user) PROVE OneStarter'
  BY <1>26 DEF ContinueRun, Agent!Continue, Agent!Move, OneStarter, Coherent,
       Typed, PcTyped, Committed, Starting, RunLocs
<1>27. ASSUME NEW c \in Prompts, Settle(c) PROVE OneStarter'
  BY <1>27 DEF Settle, OneStarter, Coherent, Typed, PcTyped, Committed, Starting,
       RunLocs
<1>28. ASSUME NEW c \in Prompts, NEW m \in BOOLEAN, NEW x \in BOOLEAN, BeforeSettle(c, m, x)
      PROVE  OneStarter'
  BY <1>28 DEF BeforeSettle, OneStarter, Coherent, Typed, PcTyped, Committed,
       Starting, RunLocs
<1>29. ASSUME NEW c \in Prompts, Finally(c) PROVE OneStarter'
  BY <1>29 DEF Finally, FlushAll, OneStarter, Coherent, Typed, PcTyped, Committed,
       Starting, RunLocs
<1>30. ASSUME NEW c \in Prompts, Settled(c) PROVE OneStarter'
  <2>1. \A x \in Prompts : pc'[x] = pc[x] \/ pc'[x] \in {"done", "rejected"}
    BY <1>30 DEF Settled, Outcome, Wake, Woken
  <2> QED
    BY <2>1 DEF OneStarter, Committed, Starting, RunLocs
<1>31. ASSUME NEW c \in Prompts, RunDeferred(c) PROVE OneStarter'
  BY <1>31 DEF RunDeferred, QuietInv
<1>32. ASSUME NEW c \in Prompts, DeferredOver(c) PROVE OneStarter'
  BY <1>32 DEF DeferredOver, QuietInv
<1>33. ASSUME AgentRequests PROVE OneStarter'
  BY <1>33 DEF AgentRequests, Agent!Request, Agent!Move, OneStarter, Coherent,
       Typed, PcTyped, Committed, Starting, RunLocs
<1>34. ASSUME NEW user \in BOOLEAN, AgentTakes(user) PROVE OneStarter'
  BY <1>34 DEF AgentTakes, Agent!Take, Agent!Move, OneStarter, Coherent, Typed,
       PcTyped, Committed, Starting, RunLocs
<1>35. ASSUME NEW a \in Answers, NEW calls \in BOOLEAN, AgentResponds(a, calls)
      PROVE  OneStarter'
  BY <1>35 DEF AgentResponds, Agent!Respond, Errors, Agent!FailResponse,
       Agent!Refuse, Answered, Agent!Move, OneStarter, Coherent, Typed,
       PcTyped, Committed, Starting, RunLocs
<1>36. ASSUME AgentResults PROVE OneStarter'
  BY <1>36 DEF AgentResults, Agent!Results, Agent!Move, OneStarter, Coherent,
       Typed, PcTyped, Committed, Starting, RunLocs
<1>37. ASSUME AgentTurnEnds PROVE OneStarter'
  BY <1>37 DEF AgentTurnEnds, Agent!TurnEnd, FlushCustom, Agent!Move, OneStarter,
       Coherent, Typed, PcTyped, Committed, Starting, RunLocs
<1>38. ASSUME NEW n \in 0..1, NEW user \in BOOLEAN, AgentNextTurn(n, user) PROVE OneStarter'
  BY <1>38 DEF AgentNextTurn, Agent!NextTurn, StartAuto, Agent!Move, OneStarter,
       Coherent, Typed, PcTyped, Committed, Starting, RunLocs
<1>39. ASSUME AgentEndsRun PROVE OneStarter'
  BY <1>39 DEF AgentEndsRun, Agent!EndRun, FlushCustom, Agent!Move, OneStarter,
       Coherent, Typed, PcTyped, Committed, Starting, RunLocs
<1>40. ASSUME NEW answer \in Answers, AgentThrows(answer) PROVE OneStarter'
  BY <1>40 DEF AgentThrows, Agent!Throw, Agent!Move, OneStarter, Coherent, Typed,
       PcTyped, Committed, Starting, RunLocs
<1>41. ASSUME "compact" \in Others, StartCompaction PROVE OneStarter'
  BY <1>41 DEF StartCompaction, Compaction, OneStarter, Coherent, Typed, PcTyped,
       Committed, Starting, RunLocs
<1>42. ASSUME "compact" \in Others, PrepareCompaction PROVE OneStarter'
  BY <1>42 DEF PrepareCompaction, Compaction, OneStarter, Coherent, Typed, PcTyped,
       Committed, Starting, RunLocs
<1>43. ASSUME "compact" \in Others, SaveCompaction PROVE OneStarter'
  BY <1>43 DEF SaveCompaction, Compaction, OneStarter, Coherent, Typed, PcTyped,
       Committed, Starting, RunLocs
<1>44. ASSUME "compact" \in Others, FinishCompaction PROVE OneStarter'
  BY <1>44 DEF FinishCompaction, EndCompaction, Wake, Woken, Busy, OneStarter,
       Coherent, Typed, PcTyped, Committed, Starting, RunLocs
<1>45. ASSUME "navigate" \in Others, MoveLeaf PROVE OneStarter'
  BY <1>45 DEF MoveLeaf, OneStarter, Coherent, Typed, PcTyped, Committed, Starting,
       RunLocs
<1>46. ASSUME "navigate" \in Others, FinishNavigate PROVE OneStarter'
  BY <1>46 DEF FinishNavigate, Wake, Woken, Busy, OneStarter, Coherent, Typed,
       PcTyped, Committed, Starting, RunLocs
<1>47. ASSUME UNCHANGED vars PROVE OneStarter'
  BY <1>47 DEF vars, OneStarter, Coherent, Typed, PcTyped, Committed, Starting,
       RunLocs
<1>48. ASSUME NEW c \in Prompts, NEW n \in 1..MaxNotes, FlushThrows(c, n) PROVE OneStarter'
  BY <1>48 DEF FlushThrows, OneStarter, Coherent, Typed, PcTyped, Committed,
       Starting, RunLocs
<1> QED
  BY <1>1, <1>2, <1>3, <1>4, <1>5, <1>6, <1>7, <1>8, <1>9, <1>10, <1>11, <1>12,
       <1>13, <1>14, <1>15, <1>16, <1>17, <1>18, <1>19, <1>20, <1>21, <1>22,
       <1>23, <1>24, <1>25, <1>26, <1>27, <1>28, <1>29, <1>30, <1>31, <1>32,
       <1>33, <1>34, <1>35, <1>36, <1>37, <1>38, <1>39, <1>40, <1>41, <1>42,
       <1>43, <1>44, <1>45, <1>46, <1>47, <1>48
     DEF Next, Client, CallPrompt, Serve, AgentStep, CompactStep, TreeStep

(* Clients that wait for each other's preflight, and handlers that do not  *)
(* prompt while agent_settled is announced, keep to one prompt past its    *)
(* input handlers: the hypothesis of the theorems above.                   *)
THEOREM OneStarterCorrect == ~Overlap => (Spec /\ [](deferred = <<>>) => []OneStarter)
<1> SUFFICES ASSUME ~Overlap PROVE Spec /\ [](deferred = <<>>) => []OneStarter
  OBVIOUS
<1>1. Init => Coherent /\ OneStarter /\ QuietInv
  <2> SUFFICES ASSUME Init PROVE OneStarter /\ QuietInv
    BY InitCoherent
  <2>1. \A c \in Prompts : pc[c] = "new" /\ todo[c] = <<>>
    BY DEF Init, Callers
  <2> QED
    BY <2>1 DEF OneStarter, QuietInv, Committed, Starting, RunLocs, Preflight
<1>2. /\ Coherent /\ OneStarter /\ QuietInv
      /\ deferred = <<>> /\ (deferred = <<>>)' /\ [Next]_vars
      => Coherent' /\ OneStarter' /\ QuietInv'
  BY CoherentStep, QuietStep, StarterStep
<1> QED
  BY <1>1, <1>2, PTL DEF Spec
=============================================================================
