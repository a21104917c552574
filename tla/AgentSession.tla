---------------------------- MODULE AgentSession ----------------------------
(***************************************************************************)
(* The class AgentSession (agent-session.ts): what happens around the runs *)
(* of the agent.  Prompts pass a preflight of awaited hooks; a run that    *)
(* has ended may be retried after a backoff, recovered by compaction or    *)
(* continued for queued messages; messages that must not enter a running   *)
(* tool exchange are deferred; and abort, compact and navigateTree may be  *)
(* called at any time.                                                     *)
(*                                                                         *)
(* A step is what happens between two awaits.  Each caller makes one call; *)
(* its program counter is the await it is at.  The agent is the abstract   *)
(* AgentRun, which AgentLoop implements.  Of the session's log the model   *)
(* keeps which branch it is on, the last assistant message and how many    *)
(* messages were inserted from outside the run.                            *)
(***************************************************************************)
EXTENDS Naturals, FiniteSets, SequencesExt

CONSTANTS
    Prompts,        \* the callers of prompt, steer, followUp and sendCustomMessage
    Behavior,       \* the calls they may make, see Kinds
    Others,         \* which of "abort", "compact" and "navigate" are called
    Overlap,        \* clients do not wait for a preflight before the next call
    SettleHandlers, \* extensions handle agent_before_settle
    MaxRetries,     \* settings.maxRetries
    MaxTurns,       \* bound on the responses, failures and requests that prolong a run
    MaxOthers,      \* bound on the calls of Others
    MaxNotes,       \* bound on bash results and custom messages
    None            \* nobody

(* prompt without and with a streamingBehavior; steer or followUp;         *)
(* sendCustomMessage with triggerTurn.                                     *)
Kinds == {"plain", "steer", "queue", "trigger"}
Callers == Prompts \cup Others
Runners == Prompts \cup {"agent"}

ASSUME SessionAssumption ==
    /\ Behavior \in [Prompts -> SUBSET Kinds]
    /\ Others \subseteq {"abort", "compact", "navigate"}
    /\ Prompts \cap {"abort", "compact", "navigate", "agent"} = {}
    /\ Overlap \in BOOLEAN /\ SettleHandlers \in BOOLEAN
    /\ MaxRetries \in Nat /\ MaxTurns \in Nat /\ MaxOthers \in Nat /\ MaxNotes \in Nat
    /\ None \notin Runners

VARIABLES
    phase, signal, queued,  \* the agent, see AgentRun
    pc,         \* the await each caller is at
    active,     \* _isAgentRunActive
    abortReq,   \* _agentRunAbortRequested
    settling,   \* _isEmittingAgentSettled
    deferred,   \* _deferredSettledActions
    todo,       \* the deferred actions a caller has taken over
    late,       \* _abortDuringBeforeSettle
    thrown,     \* the prompts whose run an exception has ended
    flushFailed,\* history: the end of a run could not write what was pending
    auto,       \* whose controller is _autoCompactionAbortController
    autoSig,    \* the automatic compaction of each runner
    manual,     \* _compactionAbortController
    tree,       \* _branchSummaryAbortController
    retry,      \* _retryAbortController
    attempt,    \* _retryAttempt
    recovered,  \* _overflowRecoveryAttempted
    last,       \* _lastAssistantMessage: how it ended
    tail,       \* whether the context ends with that message
    bash,       \* _pendingBashMessages
    custom,     \* _pendingCustomMessages
    notes,      \* bash results and custom messages in the log
    place,      \* the branch the leaf is on
    callPlace,  \* the branch of the last assistant message with tool calls
    prepPlace,  \* the branch a compaction was prepared for
    recoveries, \* history: overflow recoveries since the last user message or good response
    turns       \* what MaxTurns bounds

agentVars  == <<phase, signal, queued>>
runVars    == <<active, abortReq, settling, deferred, todo, late, thrown, flushFailed>>
ctlVars    == <<auto, autoSig, manual, tree, retry>>
answerVars == <<attempt, recovered, last, tail, recoveries, turns>>
noteVars   == <<bash, custom, notes>>
placeVars  == <<place, callPlace, prepPlace>>
vars == <<agentVars, pc, runVars, ctlVars, answerVars, noteVars, placeVars>>

Agent == INSTANCE AgentRun

Errors  == {"error", "overflow", "fatal"}
Answers == Errors \cup {"ok", "length", "aborted"}
Input == [plain |-> "input", steer |-> "inputSteer", queue |-> "inputQueue"]
Preflight == {"input", "inputSteer", "inputQueue", "auth", "precompact", "beforeStart"}
Busy == {"waiting", "resumed", "compactAuth", "summarizing", "compacted", "failing", "navigating", "moved"}
Over == {"done", "rejected", "dropped"}

At(c, l) == pc' = [pc EXCEPT ![c] = l]
AbortSignal(s) == IF s = "live" THEN "aborted" ELSE s

-----------------------------------------------------------------------------
(* isCompacting and isIdle.                                                *)
Compacting == auto # None \/ manual # "none" \/ tree # "none"
Idle       == ~active /\ ~Compacting

(* Mutant of Wake: nobody is woken.                                        *)
WakeNobody(c, l) == At(c, l)

(* _resolveIdleWaitIfIdle, at the end of a call: everyone who waits for    *)
(* the session to be idle goes on.                                         *)
Woken(x) ==
    IF pc[x] = "waiting" /\ Idle' THEN (IF x = "compact" THEN "resumed" ELSE "done") ELSE pc[x]
Wake(c, l) == pc' = [x \in Callers |-> IF x = c THEN l ELSE Woken(x)]

(* Messages that wait for the end of the turn, or of the run, are          *)
(* appended to the log.                                                    *)
FlushCustom ==
    /\ notes' = notes + custom /\ custom' = 0
    /\ tail' = IF custom > 0 THEN "other" ELSE tail
FlushAll ==
    /\ notes' = notes + bash + custom /\ bash' = 0 /\ custom' = 0
    /\ tail' = IF bash + custom > 0 THEN "other" ELSE tail

-----------------------------------------------------------------------------
(* Clients that wait do not call while another call is in its preflight or *)
(* replaces the context.  What is called from a handler of agent_settled   *)
(* is deferred by the session itself.                                      *)
MayCall(c) ==
    \/ Overlap
    \/ /\ \A x \in Prompts : pc[x] \notin Preflight
       /\ \/ \A x \in Others \ {"abort"} : pc[x] \notin Busy
          \/ c \in Prompts /\ settling
       /\ c \notin Prompts => ~settling /\ \A x \in Prompts : pc[x] \notin {"deferred", "draining"}

OtherCall(c) ==
    /\ c \in Others /\ pc[c] = "new"
    /\ Cardinality({x \in Others : pc[x] # "new"}) < MaxOthers

(* _runAgentPrompt up to its first await; the agent refuses a prompt while *)
(* it runs.                                                                *)
StartRun(c, user) ==
    /\ active' = TRUE /\ abortReq' = FALSE
    /\ \/ /\ Agent!Prompt /\ At(c, "running")
          /\ tail' = "other"
          /\ recovered' = (recovered /\ ~user) /\ recoveries' = IF user THEN 0 ELSE recoveries
          /\ UNCHANGED thrown
       \/ /\ phase # "idle" /\ At(c, "finally") /\ thrown' = thrown \cup {c}
          /\ UNCHANGED <<agentVars, tail, recovered, recoveries>>

(* The calls up to their first await.                                      *)
Submit(c, kind) ==
    /\ IF kind = "trigger" THEN StartRun(c, FALSE)
       ELSE /\ At(c, IF manual # "none" /\ kind # "queue" THEN "rejected" ELSE Input[kind])
            /\ UNCHANGED <<agentVars, active, abortReq, thrown, tail, recovered, recoveries>>
    /\ UNCHANGED <<attempt, last, turns>>

(* A call is made: a message that triggers a turn is queued while a run is *)
(* active; what is called while agent_settled is announced is deferred.    *)
Calls(c, kind) == pc[c] = "new" /\ MayCall(c) /\ kind \in Behavior[c]

CallQueued(c) ==
    /\ Calls(c, "trigger") /\ active
    /\ Agent!Enqueue /\ At(c, "done")
    /\ UNCHANGED <<runVars, ctlVars, answerVars, noteVars, placeVars>>

CallDeferred(c, kind) ==
    /\ Calls(c, kind) /\ settling /\ kind # "queue" /\ (kind = "trigger" => ~active)
    /\ deferred' = Append(deferred, [caller |-> c, kind |-> kind]) /\ At(c, "deferred")
    /\ UNCHANGED <<agentVars, active, abortReq, settling, todo, late, thrown, flushFailed, ctlVars,
                   answerVars, noteVars, placeVars>>

CallSubmitted(c, kind) ==
    /\ Calls(c, kind) /\ (settling => kind = "queue") /\ (kind = "trigger" => ~active)
    /\ Submit(c, kind)
    /\ UNCHANGED <<settling, deferred, todo, late, flushFailed, ctlVars, noteVars, placeVars>>

CallPrompt(c, kind) ==
    (kind = "trigger" /\ CallQueued(c)) \/ CallDeferred(c, kind) \/ CallSubmitted(c, kind)

(* The prompt is in its preflight: a run was active, or was not, when the  *)
(* input handlers returned.                                                *)
QueueInput(c) ==
    /\ \/ pc[c] = "input" /\ active /\ At(c, "rejected") /\ UNCHANGED agentVars
       \/ /\ pc[c] = "inputQueue" \/ (pc[c] = "inputSteer" /\ active)
          /\ At(c, "done") /\ Agent!Enqueue
    /\ UNCHANGED <<runVars, ctlVars, answerVars, noteVars, placeVars>>

InputHandled(c) ==
    /\ pc[c] \in {"input", "inputSteer", "inputQueue"} /\ At(c, "done")
    /\ UNCHANGED <<agentVars, runVars, ctlVars, answerVars, noteVars, placeVars>>

(* Mutant of InputPasses: the run that may have begun is not looked for.   *)
InputPassesAnyway(c) ==
    /\ pc[c] \in {"input", "inputSteer"} /\ At(c, "auth")
    /\ FlushAll
    /\ UNCHANGED <<agentVars, runVars, ctlVars, attempt, recovered, last, recoveries, turns,
                   placeVars>>

InputPasses(c) ==
    /\ pc[c] \in {"input", "inputSteer"} /\ ~active /\ At(c, "auth")
    /\ FlushAll
    /\ UNCHANGED <<agentVars, runVars, ctlVars, attempt, recovered, last, recoveries, turns,
                   placeVars>>

-----------------------------------------------------------------------------
(* _omitRecoveryAttempt: the failed response stays in the log, hidden.     *)
Omit == tail' = "other"

(* _runAutoCompaction, when there is something to compact.                 *)
StartAuto(r) ==
    /\ autoSig' = [autoSig EXCEPT ![r] = "live"] /\ auto' = r
    /\ prepPlace' = [prepPlace EXCEPT ![r] = place]

(* Mutant of Compact: recovery is attempted as often as it is needed.      *)
CompactAgain(r, answer, none, threshold, recovery) ==
    \/ /\ At(r, none)
       /\ UNCHANGED <<recovered, tail, auto, autoSig, prepPlace>>
    \/ /\ answer \in {"overflow", "length"}
       /\ recovered' = TRUE /\ Omit
       /\ StartAuto(r) /\ At(r, recovery)

(* _checkCompaction of an answer, whose size, model and age are left out:  *)
(* nothing is done; threshold compaction; or, once, the omission of the    *)
(* answer and overflow compaction, if there is something to compact.       *)
Compact(r, answer, none, threshold, recovery) ==
    \/ /\ At(r, none)
       /\ UNCHANGED <<recovered, tail, auto, autoSig, prepPlace>>
    \/ /\ StartAuto(r) /\ At(r, threshold)
       /\ UNCHANGED <<recovered, tail>>
    \/ /\ answer \in {"overflow", "length"} /\ ~recovered
       /\ recovered' = TRUE /\ Omit
       /\ \/ StartAuto(r) /\ At(r, recovery)
          \/ At(r, none) /\ UNCHANGED <<auto, autoSig, prepPlace>>

(* The credentials are checked, then the last response of the context,     *)
(* however it ended.                                                       *)
CheckAuth(c) ==
    /\ pc[c] = "auth"
    /\ \/ At(c, "rejected") /\ UNCHANGED <<recovered, tail, auto, autoSig, prepPlace>>
       \/ \E a \in {"ok", "overflow"} : Compact(c, a, "beforeStart", "precompact", "precompact")
    /\ UNCHANGED <<agentVars, runVars, manual, tree, retry, attempt, last, recoveries, turns,
                   noteVars, place, callPlace>>

(* The hooks before_agent_start and the images are done, or throw.         *)
RefuseStart(c) ==
    /\ pc[c] = "beforeStart" /\ At(c, "rejected")
    /\ UNCHANGED <<agentVars, runVars, ctlVars, answerVars, noteVars, placeVars>>

BeforeStart(c) ==
    /\ pc[c] = "beforeStart" /\ StartRun(c, TRUE)
    /\ UNCHANGED <<settling, deferred, todo, late, flushFailed, ctlVars, attempt, last, turns,
                   bash, custom, notes, placeVars>>

-----------------------------------------------------------------------------
(* The compaction is appended if it was not aborted while it was made.     *)
SaveAuto(r) ==
    /\ autoSig[r] = "live" /\ autoSig' = [autoSig EXCEPT ![r] = "saved"]
    /\ UNCHANGED <<agentVars, pc, runVars, auto, manual, tree, retry, attempt, recovered, last, tail,
                   recoveries, turns, noteVars, placeVars>>

(* After the run: recovery, or queued messages, go on with the agent.      *)
AfterRun(more) == IF ~abortReq /\ (more \/ queued > 0) THEN "continue" ELSE "settle"

(* It is done, has failed or was aborted.                                  *)
FinishAuto(r) ==
    /\ autoSig[r] # "none" /\ autoSig' = [autoSig EXCEPT ![r] = "none"]
    /\ auto' = IF auto = r THEN None ELSE auto
    /\ UNCHANGED <<manual, tree, active>>
    /\ LET again == r \in Prompts /\ pc[r] = "recovery" /\ autoSig[r] = "saved"
       IN  /\ recoveries' = IF again /\ ~abortReq THEN recoveries + 1 ELSE recoveries
           /\ Wake(r, IF r \notin Prompts THEN "none"
                      ELSE IF pc[r] = "precompact" THEN "beforeStart" ELSE AfterRun(again))
    /\ UNCHANGED <<agentVars, abortReq, settling, deferred, todo, late, thrown, flushFailed, retry,
                   attempt, recovered, last, tail, turns, noteVars, placeVars>>

-----------------------------------------------------------------------------
(* The steps of the agent and what _handleAgentEvent does about them.      *)

(* prepareNextTurn and prepareRequest are done, and the request is sent.   *)
AgentRequests ==
    /\ autoSig["agent"] = "none" /\ Agent!Request
    /\ UNCHANGED <<pc, runVars, ctlVars, answerVars, noteVars, placeVars>>

(* A queued message is delivered: from the user or from an extension.      *)
AgentTakes(user) ==
    /\ autoSig["agent"] = "none" /\ Agent!Take(1)
    /\ tail' = IF phase = "turn" THEN "other" ELSE tail
    /\ recovered' = (recovered /\ ~user)
    /\ recoveries' = IF user THEN 0 ELSE recoveries
    /\ UNCHANGED <<pc, runVars, ctlVars, attempt, last, turns, noteVars, placeVars>>

(* The last response is appended and the counters follow.                  *)
Answered(answer) ==
    /\ last' = answer /\ tail' = "assistant"
    /\ recovered' = (recovered /\ answer \notin {"ok", "aborted"})
    /\ attempt' = IF answer \in Errors THEN attempt ELSE 0
    /\ recoveries' = IF answer \in {"ok", "aborted"} THEN 0 ELSE recoveries

AgentResponds(answer, calls) ==
    /\ autoSig["agent"] = "none"
    /\ \/ answer \in {"ok", "length"} /\ Agent!Respond(calls)
       \/ answer \in Errors \cup {"aborted"} /\ ~calls /\ Agent!FailResponse
       \/ answer \in {"fatal", "aborted"} /\ ~calls /\ Agent!Refuse
    /\ answer = "aborted" => signal
    /\ IF calls \/ answer \notin {"ok", "aborted"}
       THEN turns < MaxTurns /\ turns' = turns + 1 ELSE UNCHANGED turns
    /\ Answered(answer)
    /\ callPlace' = IF calls THEN place ELSE callPlace
    /\ UNCHANGED <<pc, runVars, ctlVars, noteVars, place, prepPlace>>

(* The tool results are appended.                                          *)
AgentResults ==
    /\ Agent!Results /\ tail' = "other"
    /\ UNCHANGED <<pc, runVars, ctlVars, attempt, recovered, last, recoveries, turns, noteVars,
                   placeVars>>

(* turn_end: custom messages that waited for it are appended.              *)
AgentTurnEnds ==
    /\ Agent!TurnEnd /\ FlushCustom
    /\ UNCHANGED <<pc, runVars, ctlVars, attempt, recovered, last, recoveries, turns, bash,
                   placeVars>>

(* The run goes on after tool work or with queued messages; before the     *)
(* next request the context may be compacted                               *)
(* (_compactBeforeNextAssistantResponse).                                  *)
AgentNextTurn(n, user) ==
    /\ IF n = 0 THEN tail = "other" /\ ~user ELSE TRUE
    /\ Agent!NextTurn(n)
    /\ tail' = "other"
    /\ \/ StartAuto("agent")
       \/ UNCHANGED <<auto, autoSig, prepPlace>>
    /\ recovered' = (recovered /\ ~user) /\ recoveries' = IF user THEN 0 ELSE recoveries
    /\ UNCHANGED <<pc, runVars, manual, tree, retry, attempt, last, turns, noteVars,
                   place, callPlace>>

AgentEndsRun ==
    /\ Agent!EndRun
    /\ IF phase \in {"finishing", "failed"} THEN FlushCustom ELSE UNCHANGED <<notes, custom, tail>>
    /\ UNCHANGED <<pc, runVars, ctlVars, attempt, recovered, last, recoveries, turns, bash,
                   placeVars>>

(* A hook or a listener throws: handleRunFailure reports a failed answer,  *)
(* whose text may be that of any error.                                    *)
AgentThrows(answer) ==
    /\ autoSig["agent"] = "none" /\ Agent!Throw
    /\ turns < MaxTurns /\ turns' = turns + 1
    /\ answer \in IF signal THEN {"aborted"} ELSE Errors
    /\ last' = answer
    /\ recovered' = (recovered /\ ~signal) /\ recoveries' = IF signal THEN 0 ELSE recoveries
    /\ attempt' = IF signal THEN 0 ELSE attempt
    /\ notes' = notes + custom /\ custom' = 0
    /\ tail' = IF custom > 0 THEN "other" ELSE "assistant"
    /\ UNCHANGED <<pc, runVars, ctlVars, bash, placeVars>>

(* agent.prompt or agent.continue returns to its caller.                   *)
AgentFinishes(c) ==
    /\ pc[c] = "running" /\ Agent!Finish /\ At(c, "post")
    /\ UNCHANGED <<runVars, ctlVars, answerVars, noteVars, placeVars>>

-----------------------------------------------------------------------------
(* _handlePostAgentRun: the last response is retried, recovered or left.   *)
(* _prepareRetry hides it and sleeps.                                      *)
PostAborted(c) ==
    /\ pc[c] = "post" /\ abortReq /\ At(c, "finally")
    /\ UNCHANGED <<agentVars, runVars, ctlVars, answerVars, noteVars, placeVars>>

(* Mutant of Retryable: the attempts are counted from zero.                *)
RetryableOnceMore == last = "error" /\ attempt <= MaxRetries

Retryable == last = "error" /\ attempt < MaxRetries

PostRetry(c) ==
    /\ pc[c] = "post" /\ ~abortReq /\ Retryable
    /\ last' = "none" /\ attempt' = attempt + 1
    /\ Omit /\ retry' = "live" /\ At(c, "sleep")
    /\ UNCHANGED <<agentVars, runVars, auto, autoSig, manual, tree, recovered, recoveries, turns,
                   noteVars, placeVars>>

PostCheck(c) ==
    /\ pc[c] = "post" /\ ~abortReq /\ ~Retryable
    /\ last' = "none"
    /\ IF last = "none"
       THEN At(c, AfterRun(FALSE))
            /\ UNCHANGED <<attempt, recovered, tail, auto, autoSig, prepPlace>>
       ELSE /\ attempt' = IF last \in Errors THEN 0 ELSE attempt
            /\ IF last = "aborted"
               THEN At(c, AfterRun(FALSE))
                    /\ UNCHANGED <<recovered, tail, auto, autoSig, prepPlace>>
               ELSE Compact(c, last, AfterRun(FALSE), "postcompact", "recovery")
    /\ UNCHANGED <<agentVars, runVars, manual, tree, retry, recoveries, turns, noteVars,
                   place, callPlace>>

(* The backoff is over.                                                    *)
SleepOver(c) ==
    /\ pc[c] = "sleep" /\ retry # "aborted" /\ retry' = "none"
    /\ At(c, "continue")
    /\ UNCHANGED <<agentVars, runVars, auto, autoSig, manual, tree, attempt, recovered, last, tail, recoveries,
                   turns, noteVars, placeVars>>

(* It was aborted, by abort or by abortRetry.                              *)
SleepAborted(c) ==
    /\ pc[c] = "sleep" /\ retry = "aborted" /\ retry' = "none"
    /\ attempt' = 0
    /\ IF abortReq
       THEN At(c, "finally") /\ UNCHANGED <<recovered, tail, auto, autoSig, prepPlace>>
       ELSE Compact(c, "error", AfterRun(FALSE), "postcompact", "recovery")
    /\ UNCHANGED <<agentVars, runVars, manual, tree, last, recoveries, turns, noteVars,
                   place, callPlace>>

(* agent.continue, which throws when the agent runs, or when nothing       *)
(* follows the last response; it is not called after an abort.             *)
ContinueRun(c, user) ==
    /\ pc[c] = "continue"
    /\ LET n == IF tail = "assistant" THEN 1 ELSE 0
       IN  \/ /\ abortReq /\ ~user /\ At(c, "finally")
              /\ UNCHANGED <<agentVars, thrown, tail, recovered, recoveries>>
           \/ /\ ~abortReq /\ (phase # "idle" \/ n > queued) /\ ~user
              /\ At(c, "finally") /\ thrown' = thrown \cup {c}
              /\ UNCHANGED <<agentVars, tail, recovered, recoveries>>
           \/ /\ ~abortReq /\ Agent!Continue(n) /\ At(c, "running")
              /\ tail' = "other" /\ UNCHANGED thrown
              /\ user => n = 1
              /\ recovered' = (recovered /\ ~user) /\ recoveries' = IF user THEN 0 ELSE recoveries
    /\ UNCHANGED <<active, abortReq, settling, deferred, todo, late, flushFailed, ctlVars, attempt,
                   last, turns, noteVars, placeVars>>

(* _runBeforeSettleBoundary.                                               *)
Settle(c) ==
    /\ pc[c] = "settle"
    /\ At(c, IF abortReq THEN "finally"
             ELSE IF SettleHandlers THEN "beforeSettle"
             ELSE IF queued > 0 THEN "continue" ELSE "finally")
    /\ UNCHANGED <<agentVars, runVars, ctlVars, answerVars, noteVars, placeVars>>

(* The handlers may ask to continue, with or without a message for it.     *)
BeforeSettle(c, more, message) ==
    /\ pc[c] = "beforeSettle" /\ late' = FALSE
    /\ notes' = notes + custom /\ custom' = 0
    /\ IF more THEN turns < MaxTurns /\ turns' = turns + 1 ELSE UNCHANGED turns
    /\ tail' = IF message \/ custom > 0 THEN "other" ELSE tail
    /\ At(c, IF ~late /\ (more \/ queued > 0) /\ (tail' = "other" \/ queued > 0)
             THEN "continue" ELSE "finally")
    /\ UNCHANGED <<agentVars, active, abortReq, settling, deferred, todo, thrown, flushFailed, ctlVars,
                   attempt, recovered, last, recoveries, bash, placeVars>>

-----------------------------------------------------------------------------
(* Mutant of Finally: bash results stay pending.                           *)
FinallyKeepsBash(c) ==
    /\ pc[c] = "finally" /\ At(c, "settling")
    /\ attempt' = IF abortReq THEN 0 ELSE attempt
    /\ FlushCustom /\ active' = FALSE /\ settling' = TRUE
    /\ UNCHANGED <<agentVars, abortReq, deferred, todo, late, thrown, flushFailed, ctlVars, recovered,
                   last, recoveries, turns, bash, placeVars>>

(* The finally block of _runAgentPrompt up to the await of agent_settled.  *)
Finally(c) ==
    /\ pc[c] = "finally" /\ At(c, "settling")
    /\ attempt' = IF abortReq THEN 0 ELSE attempt
    /\ FlushAll /\ active' = FALSE /\ settling' = TRUE
    /\ UNCHANGED <<agentVars, abortReq, deferred, todo, late, thrown, flushFailed, ctlVars, recovered,
                   last, recoveries, turns, placeVars>>

(* The n-th of the pending messages is in the log, but cannot be written.  *)
(* The run ends there: agent_settled is not announced, the session stays   *)
(* active, and of what is pending only bash results are kept.              *)
FlushThrows(c, n) ==
    /\ pc[c] = "finally" /\ At(c, "rejected")
    /\ attempt' = IF abortReq THEN 0 ELSE attempt
    /\ flushFailed' = TRUE /\ thrown' = thrown \ {c}
    /\ n <= bash + custom /\ notes' = notes + n
    /\ IF n <= bash THEN UNCHANGED <<bash, custom, tail>>
       ELSE /\ bash' = 0 /\ custom' = 0
            /\ tail' = IF n > 1 THEN "other" ELSE tail
    /\ UNCHANGED <<agentVars, active, abortReq, settling, deferred, todo, late, ctlVars, recovered,
                   last, recoveries, turns, placeVars>>

(* The handlers of agent_settled are done; what they asked for is run.     *)
Outcome(c) == IF c \in thrown THEN "rejected" ELSE "done"

Settled(c) ==
    /\ pc[c] = "settling" /\ settling' = FALSE
    /\ todo' = [todo EXCEPT ![c] = deferred] /\ deferred' = <<>>
    /\ UNCHANGED <<agentVars, active, abortReq, late, flushFailed, ctlVars, answerVars, noteVars,
                   placeVars>>
    /\ IF deferred = <<>> THEN Wake(c, Outcome(c)) /\ thrown' = thrown \ {c}
       ELSE At(c, "draining") /\ UNCHANGED thrown

RunDeferred(c) ==
    /\ pc[c] = "draining" /\ todo[c] # <<>>
    /\ LET next == Head(todo[c])
       IN  /\ pc[next.caller] = "deferred"
           /\ IF settling /\ next.kind # "trigger"
              THEN /\ deferred' = Append(deferred, next) /\ todo' = [todo EXCEPT ![c] = Tail(@)]
                   /\ UNCHANGED <<agentVars, pc, active, abortReq, thrown, answerVars>>
              ELSE Submit(next.caller, next.kind) /\ UNCHANGED <<deferred, todo>>
    /\ UNCHANGED <<settling, late, flushFailed, ctlVars, noteVars, placeVars>>

(* A deferred action has returned; one that fails drops those that follow. *)
DeferredOver(c) ==
    /\ pc[c] = "draining"
    /\ UNCHANGED <<agentVars, active, abortReq, settling, deferred, late, flushFailed, ctlVars,
                   answerVars, noteVars, placeVars>>
    /\ \/ todo[c] = <<>> /\ UNCHANGED todo /\ Wake(c, Outcome(c)) /\ thrown' = thrown \ {c}
       \/ /\ todo[c] # <<>> /\ pc[Head(todo[c]).caller] = "done"
          /\ todo' = [todo EXCEPT ![c] = Tail(@)] /\ UNCHANGED <<pc, thrown>>
       \/ /\ todo[c] # <<>> /\ pc[Head(todo[c]).caller] = "rejected"
          /\ todo' = [todo EXCEPT ![c] = <<>>] /\ thrown' = thrown \ {c}
          /\ LET dropped == {a.caller : a \in Range(Tail(todo[c]))}
             IN  pc' = [x \in Callers |-> IF x = c THEN "rejected"
                                          ELSE IF x \in dropped THEN "dropped" ELSE Woken(x)]

-----------------------------------------------------------------------------
(* abort, up to the await of waitForIdle.                                  *)
AbortAll ==
    /\ abortReq' = (abortReq \/ active)
    /\ retry' = AbortSignal(retry) /\ manual' = AbortSignal(manual) /\ tree' = AbortSignal(tree)
    /\ autoSig' = IF auto = None THEN autoSig ELSE [autoSig EXCEPT ![auto] = AbortSignal(@)]
    /\ late' = (late \/ \E c \in Prompts : pc[c] = "beforeSettle")
    /\ signal' = (signal \/ phase # "idle")
    /\ UNCHANGED <<phase, queued, active, settling, deferred, todo, thrown, flushFailed, auto,
                   answerVars, noteVars, placeVars>>

CallAbort ==
    /\ OtherCall("abort")
    /\ AbortAll /\ At("abort", IF Idle THEN "done" ELSE "waiting")

(* abortRetry and abortCompaction by themselves.                           *)
AbortRetry ==
    /\ retry = "live" /\ retry' = "aborted"
    /\ UNCHANGED <<agentVars, pc, runVars, auto, autoSig, manual, tree, answerVars, noteVars, placeVars>>

AbortCompaction ==
    /\ manual = "live" \/ (auto # None /\ autoSig[auto] = "live")
    /\ manual' = AbortSignal(manual)
    /\ autoSig' = IF auto = None THEN autoSig ELSE [autoSig EXCEPT ![auto] = AbortSignal(@)]
    /\ UNCHANGED <<agentVars, pc, runVars, auto, tree, retry, answerVars, noteVars, placeVars>>

(* compact: abort, then the compaction.                                    *)
CallCompact ==
    /\ OtherCall("compact") /\ MayCall("compact")
    /\ AbortAll /\ At("compact", IF Idle THEN "resumed" ELSE "waiting")

Compaction(from, to) ==
    /\ pc["compact"] = from /\ At("compact", to)
    /\ UNCHANGED <<agentVars, runVars, auto, autoSig, tree, retry, attempt, recovered, last, tail,
                   recoveries, turns, noteVars, place, callPlace>>
StartCompaction ==
    /\ Compaction("resumed", "compactAuth") /\ manual' = "live"
    /\ UNCHANGED prepPlace
PrepareCompaction ==
    /\ manual # "none" /\ Compaction("compactAuth", "summarizing")
    /\ prepPlace' = [prepPlace EXCEPT !["compact"] = place]
    /\ UNCHANGED manual
SaveCompaction ==
    /\ manual = "live" /\ Compaction("summarizing", "compacted")
    /\ UNCHANGED <<manual, prepPlace>>

(* _clearManualCompactionState, after success or failure.                  *)
EndCompaction(from, to) ==
    /\ pc["compact"] = from /\ manual' = "none"
    /\ UNCHANGED <<agentVars, runVars, auto, autoSig, tree, retry, answerVars, noteVars, placeVars>>
    /\ Wake("compact", to)
FinishCompaction ==
    \/ EndCompaction("compacted", "done")
    \/ \E from \in {"compactAuth", "summarizing", "compacted"} : EndCompaction(from, "failing")
    \/ EndCompaction("failing", "rejected")

(* Mutant of CallNavigate: a compaction does not keep it from starting.    *)
NavigateWhileCompacting ==
    /\ OtherCall("navigate")
    /\ tree' = "live" /\ At("navigate", "navigating")
    /\ UNCHANGED <<agentVars, runVars, auto, autoSig, manual, retry, answerVars, noteVars, placeVars>>

(* navigateTree.                                                           *)
CallNavigate ==
    /\ OtherCall("navigate") /\ MayCall("navigate")
    /\ IF Idle THEN tree' = "live" /\ At("navigate", "navigating")
       ELSE UNCHANGED tree /\ At("navigate", "rejected")
    /\ UNCHANGED <<agentVars, runVars, auto, autoSig, manual, retry, answerVars, noteVars, placeVars>>

(* The hooks and the summary are done: the leaf moves, and a context       *)
(* status is inserted there.                                               *)
MoveLeaf ==
    /\ pc["navigate"] = "navigating"
    /\ place' = place + 1 /\ tail' = "other"
    /\ At("navigate", "moved")
    /\ UNCHANGED <<agentVars, runVars, ctlVars, attempt, recovered, last, recoveries, turns, noteVars,
                   callPlace, prepPlace>>

(* It ends, also when it was cancelled, has failed or was aborted.         *)
FinishNavigate ==
    /\ pc["navigate"] \in {"navigating", "moved"}
    /\ tree' = "none"
    /\ UNCHANGED <<agentVars, runVars, auto, autoSig, manual, retry, answerVars, noteVars, placeVars>>
    /\ Wake("navigate", IF pc["navigate"] = "moved" THEN "done" ELSE "rejected")

-----------------------------------------------------------------------------
Sent == notes + bash + custom

(* Mutant of RecordBash: never deferred.                                   *)
RecordBashNow ==
    /\ Sent < MaxNotes /\ notes' = notes + 1 /\ tail' = "other" /\ UNCHANGED bash
    /\ UNCHANGED <<agentVars, pc, runVars, ctlVars, attempt, recovered, last, recoveries, turns,
                   custom, placeVars>>

(* recordBashResult.                                                       *)
RecordBash ==
    /\ Sent < MaxNotes
    /\ IF active THEN bash' = bash + 1 /\ UNCHANGED <<notes, tail>>
       ELSE notes' = notes + 1 /\ tail' = "other" /\ UNCHANGED bash
    /\ UNCHANGED <<agentVars, pc, runVars, ctlVars, attempt, recovered, last, recoveries, turns,
                   custom, placeVars>>

(* sendCustomMessage without a turn.                                       *)
SendCustom ==
    /\ Sent < MaxNotes
    /\ \/ active /\ custom' = custom + 1 /\ UNCHANGED <<notes, tail>>
       \/ ~active /\ notes' = notes + 1 /\ tail' = "other" /\ UNCHANGED custom
    /\ UNCHANGED <<agentVars, pc, runVars, ctlVars, attempt, recovered, last, recoveries, turns,
                   bash, placeVars>>

ClearQueue ==
    /\ queued > 0 /\ Agent!Clear
    /\ UNCHANGED <<pc, runVars, ctlVars, answerVars, noteVars, placeVars>>

-----------------------------------------------------------------------------
Init ==
    /\ Agent!Init
    /\ pc = [c \in Callers |-> "new"]
    /\ active = FALSE /\ abortReq = FALSE /\ settling = FALSE /\ late = FALSE
    /\ deferred = <<>> /\ todo = [c \in Prompts |-> <<>>]
    /\ thrown = {} /\ flushFailed = FALSE
    /\ auto = None /\ autoSig = [r \in Runners |-> "none"]
    /\ manual = "none" /\ tree = "none" /\ retry = "none"
    /\ attempt = 0 /\ recovered = FALSE /\ last = "none"
    /\ tail = "assistant"
    /\ bash = 0 /\ custom = 0 /\ notes = 0
    /\ place = 0 /\ callPlace = 0 /\ prepPlace = [r \in Runners \cup {"compact"} |-> 0]
    /\ recoveries = 0 /\ turns = 0

Client ==
    \/ \E c \in Prompts, kind \in Kinds : CallPrompt(c, kind)
    \/ CallAbort \/ CallCompact \/ CallNavigate
    \/ AbortRetry \/ AbortCompaction \/ RecordBash \/ SendCustom \/ ClearQueue

(* What the session does for a caller when an awaited operation returns.   *)
Serve(c) ==
    \/ QueueInput(c) \/ InputHandled(c) \/ InputPasses(c) \/ CheckAuth(c)
    \/ RefuseStart(c) \/ BeforeStart(c)
    \/ SaveAuto(c) \/ FinishAuto(c) \/ AgentFinishes(c)
    \/ PostAborted(c) \/ PostRetry(c) \/ PostCheck(c) \/ SleepOver(c) \/ SleepAborted(c)
    \/ (\E u \in BOOLEAN : ContinueRun(c, u)) \/ Settle(c)
    \/ (\E m, x \in BOOLEAN : BeforeSettle(c, m, x))
    \/ Finally(c) \/ (\E n \in 1..MaxNotes : FlushThrows(c, n))
    \/ Settled(c) \/ RunDeferred(c) \/ DeferredOver(c)

AgentStep ==
    \/ AgentRequests \/ (\E u \in BOOLEAN : AgentTakes(u))
    \/ \E a \in Answers, calls \in BOOLEAN : AgentResponds(a, calls)
    \/ AgentResults \/ AgentTurnEnds \/ (\E n \in 0..1, u \in BOOLEAN : AgentNextTurn(n, u))
    \/ AgentEndsRun
    \/ SaveAuto("agent") \/ FinishAuto("agent")

CompactStep ==
    "compact" \in Others /\ (StartCompaction \/ PrepareCompaction \/ SaveCompaction \/ FinishCompaction)
TreeStep == "navigate" \in Others /\ (MoveLeaf \/ FinishNavigate)

Next ==
    \/ Client \/ AgentStep \/ (\E a \in Answers : AgentThrows(a))
    \/ (\E c \in Prompts : Serve(c)) \/ CompactStep \/ TreeStep

(* Hooks, handlers and summaries return, a backoff ends, and the model     *)
(* does not call tools for ever.                                           *)
Fairness ==
    /\ \A c \in Prompts : WF_vars(Serve(c))
    /\ WF_vars(AgentStep) /\ WF_vars(CompactStep) /\ WF_vars(TreeStep)

Spec == Init /\ [][Next]_vars /\ Fairness

-----------------------------------------------------------------------------
Signals == {"none", "live", "aborted"}
Locs == Preflight \cup Busy \cup Over \cup
    {"new", "deferred", "running", "post", "sleep", "postcompact", "recovery", "continue", "settle",
     "beforeSettle", "finally", "settling", "draining"}

(* Every variable has its type; a controller is installed exactly while    *)
(* its operation is under way.                                             *)
TypeOK ==
    /\ phase \in Agent!Phases /\ signal \in BOOLEAN /\ queued \in Nat
    /\ pc \in [Callers -> Locs]
    /\ active \in BOOLEAN /\ abortReq \in BOOLEAN /\ settling \in BOOLEAN /\ late \in BOOLEAN
    /\ deferred \in Seq([caller : Prompts, kind : Kinds])
    /\ todo \in [Prompts -> Seq([caller : Prompts, kind : Kinds])]
    /\ thrown \subseteq Prompts /\ flushFailed \in BOOLEAN
    /\ auto \in Runners \cup {None} /\ autoSig \in [Runners -> Signals \cup {"saved"}]
    /\ manual \in Signals /\ tree \in Signals /\ retry \in Signals
    /\ attempt \in 0..MaxRetries /\ recovered \in BOOLEAN
    /\ last \in Answers \cup {"none"}
    /\ tail \in {"assistant", "other"}
    /\ bash \in Nat /\ custom \in Nat /\ notes \in Nat
    /\ place \in Nat /\ callPlace \in Nat /\ prepPlace \in [Runners \cup {"compact"} -> Nat]
    /\ recoveries \in Nat /\ turns \in 0..MaxTurns
    /\ \A r \in Prompts : autoSig[r] # "none" <=> pc[r] \in {"precompact", "postcompact", "recovery"}
    /\ retry # "none" <=> \E c \in Prompts : pc[c] = "sleep"

(* agent_settled is announced only when no automatic work of the session   *)
(* is left: no run, no backoff before a retry, no compaction.              *)
SettledMeansDone ==
    [][settling' /\ ~settling => phase = "idle" /\ auto = None /\ retry = "none"]_vars

(* A bash result or a custom message is never put into the log between     *)
(* tool calls and results that are still to come (there are none when a    *)
(* listener has made the run fail).                                        *)
NotesOutsideExchanges == [][notes' # notes => phase' # "tools"]_vars

(* When the session is not active, no bash result and no custom message    *)
(* waits any longer to be put into the log.  (A run that cannot write them *)
(* leaves the session active.)                                             *)
NothingLeftPending == ~active => bash = 0 /\ custom = 0

(* A turn that fails for the size of the context is recovered once: not a  *)
(* second time, whatever retries and messages of extensions come between,  *)
(* before the user writes or aborts or the model answers.                  *)
OneRecovery == recoveries <= 1

(* Tool results, and compactions, are put on the branch with the calls,    *)
(* and the messages, that they were made from.                             *)
OwnBranch ==
    [][/\ (phase = "tools" /\ phase' = "finishing") => place = callPlace
       /\ \A r \in Runners : autoSig'[r] = "saved" /\ autoSig[r] # "saved" => place = prepPlace[r]
       /\ \A c \in Others : pc'[c] = "compacted" /\ pc[c] # "compacted" => place = prepPlace[c]]_vars

(* Every call that was made returns: no prompt, abort, compact or          *)
(* navigateTree waits for ever for one of the others, unless the end of a  *)
(* run could not write what was pending and has left the session active.   *)
(* (Each caller makes one call, so in the end no caller is inside a call.) *)
EveryCallReturns == <>flushFailed \/ <>[](\A c \in Callers : pc[c] \in Over \cup {"new"})
=============================================================================
