----------------------------- MODULE AgentLoop -----------------------------
(***************************************************************************)
(* The class Agent (packages/agent/src/agent.ts) and the loop it runs      *)
(* (packages/agent/src/agent-loop.ts): a run alternates model responses    *)
(* and tool batches, and picks up steering and follow-up messages that the *)
(* user queues while it runs.                                              *)
(*                                                                         *)
(* A step is what the loop does between two awaits.  The user's calls -    *)
(* steer, followUp, abort - come between any two of them; hooks, listeners,*)
(* the provider and the tools are what the loop awaits, and hooks and      *)
(* listeners may throw.  The events that listeners are given are left out. *)
(***************************************************************************)
EXTENDS Naturals, Sequences, FiniteSets, Functions

CONSTANTS
    SteeringMode,   \* "all" or "one-at-a-time"
    FollowUpMode,   \* "all" or "one-at-a-time"
    ToolModes,      \* how a batch of tool calls may be executed
    Hooks,          \* what hooks and listeners do beside letting the loop go on
    MaxMessages,    \* bound on the messages the user ever sends
    MaxPrompts,     \* a prompt is one of the first so many of them
    MaxCalls,       \* bound on the tool calls of one assistant message
    MaxLeft         \* bound on the transcript a run leaves without an answer

ASSUME LoopAssumption ==
    /\ SteeringMode \in {"all", "one-at-a-time"}
    /\ FollowUpMode \in {"all", "one-at-a-time"}
    /\ ToolModes \subseteq {"sequential", "parallel"}
    /\ Hooks \subseteq {"throw", "end", "continue", "status", "system", "terminate"}
    /\ MaxMessages \in Nat /\ MaxPrompts \in Nat
    /\ MaxCalls \in Nat /\ MaxLeft \in Nat

VARIABLES
    pc,         \* where the loop is; "idle" when there is no activeRun
    aborted,    \* the signal of the active run
    steering,   \* steeringQueue
    followUps,  \* followUpQueue
    skipPoll,   \* skipInitialSteeringPoll
    pending,    \* pendingMessages
    status,     \* pendingContextStatus
    outbox,     \* messages the loop is about to emit, one by one
    turn,       \* the transcript from the last assistant message on
    left,       \* history: its length when a run last ended without an answer to it
    mode,       \* how the calls of that message are executed
    calls,      \* the state of each of its tool calls
    terminate,  \* the calls whose result asks to end the run
    more,       \* hasMoreToolCalls
    explicit,   \* explicitContinuation
    completed,  \* lastCompletedTurn is defined
    asked,      \* the messages sent so far
    accepted,   \* history: messages queued, without those cleared or lost
    delivered,  \* history: queued messages that reached the transcript
    wanted      \* history: finishTurn asked to continue after the last turn

loop == <<skipPoll, pending, status, mode, calls, terminate, more, explicit, completed, wanted>>
user == <<steering, followUps, asked, accepted>>
vars == <<pc, aborted, steering, followUps, skipPoll, pending, status, outbox, turn, left, mode,
          calls, terminate, more, explicit, completed, asked, accepted, delivered, wanted>>

(* A message: its role and the number of the user's message, of the calls  *)
(* of an assistant message, or of the call that a tool result answers.     *)
Msg(role, n) == [role |-> role, n |-> n]
Roles == {"prompt", "steer", "followUp", "assistant", "toolResult", "system", "status"}
Message == [role : Roles, n : Nat]

(* "immediate" is a call that was decided without executing its tool.      *)
CallStates == {"new", "started", "prepared", "running", "immediate", "final"}
In(state) == {i \in DOMAIN calls : calls[i] \in state}
Decided == In({"immediate", "final"})

-----------------------------------------------------------------------------
(* Mutant of Peek: takes the second message of a queue, never the first.   *)
PeekSecond(queue, m) ==
    IF m = "all" THEN queue ELSE IF Len(queue) > 1 THEN <<queue[2]>> ELSE <<>>

(* PendingMessageQueue.peek and drain.                                     *)
Peek(queue, m) == IF m = "all" \/ queue = <<>> THEN queue ELSE <<Head(queue)>>
Rest(queue, m) == SubSeq(queue, Len(Peek(queue, m)) + 1, Len(queue))

(* The system messages that declareToolChanges or prepareNextTurn put      *)
(* before the messages to emit.                                            *)
SystemUpdates == {<<>>} \cup (IF "system" \in Hooks THEN {<<Msg("system", 0)>>} ELSE {})

Last(s) == s[Len(s)]

-----------------------------------------------------------------------------
(* runWithLifecycle: a run begins; agent_start is emitted.                 *)
Start(prompts, skip) ==
    /\ pc = "idle" /\ pc' = "started"
    /\ outbox' = prompts /\ skipPoll' = skip
    /\ pending' = <<>> /\ status' = <<>>
    /\ more' = TRUE /\ explicit' = FALSE /\ completed' = FALSE /\ wanted' = FALSE
    /\ UNCHANGED <<aborted, turn, left, mode, calls, terminate, delivered>>

(* prompt; it throws while a run is active.                                *)
Prompt ==
    /\ asked < MaxPrompts /\ asked' = asked + 1
    /\ Start(<<Msg("prompt", asked + 1)>>, FALSE)
    /\ UNCHANGED <<steering, followUps, accepted>>

(* continue: after an assistant message the queued messages are the        *)
(* prompt, steering before follow-ups; without any it throws.              *)
Continue ==
    /\ turn # <<>>
    /\ \/ /\ Last(turn).role = "assistant" /\ steering # <<>>
          /\ Start(Peek(steering, SteeringMode), TRUE)
          /\ steering' = Rest(steering, SteeringMode) /\ UNCHANGED followUps
       \/ /\ Last(turn).role = "assistant" /\ steering = <<>> /\ followUps # <<>>
          /\ Start(Peek(followUps, FollowUpMode), FALSE)
          /\ followUps' = Rest(followUps, FollowUpMode) /\ UNCHANGED steering
       \/ /\ Last(turn).role # "assistant"
          /\ Start(<<>>, FALSE) /\ UNCHANGED <<steering, followUps>>
    /\ UNCHANGED <<asked, accepted>>

(* steer, followUp, clearAllQueues, abort, reset.                          *)
Steer ==
    /\ asked < MaxMessages /\ asked' = asked + 1
    /\ steering' = Append(steering, Msg("steer", asked'))
    /\ accepted' = accepted \cup {Msg("steer", asked')}
    /\ UNCHANGED <<pc, aborted, followUps, outbox, turn, left, delivered, loop>>

FollowUp ==
    /\ asked < MaxMessages /\ asked' = asked + 1
    /\ followUps' = Append(followUps, Msg("followUp", asked'))
    /\ accepted' = accepted \cup {Msg("followUp", asked')}
    /\ UNCHANGED <<pc, aborted, steering, outbox, turn, left, delivered, loop>>

Forget(lost) == accepted' = accepted \ Range(lost)

ClearAllQueues ==
    /\ steering \o followUps # <<>>
    /\ steering' = <<>> /\ followUps' = <<>>
    /\ Forget(steering \o followUps)
    /\ UNCHANGED <<pc, aborted, outbox, turn, left, asked, delivered, loop>>

Abort ==
    /\ pc # "idle" /\ ~aborted /\ aborted' = TRUE
    /\ UNCHANGED <<pc, outbox, turn, left, delivered, loop, user>>

Reset ==
    /\ pc = "idle" /\ turn # <<>> /\ turn' = <<>> /\ left' = 0
    /\ steering' = <<>> /\ followUps' = <<>>
    /\ Forget(steering \o followUps)
    /\ UNCHANGED <<pc, aborted, outbox, asked, delivered, loop>>

-----------------------------------------------------------------------------
(* runAgentLoop and runAgentLoopContinue: turn_start, then the prompts.    *)
TurnStart ==
    /\ pc = "started" /\ pc' = "prompts"
    /\ \E s \in SystemUpdates : outbox' = IF outbox = <<>> THEN <<>> ELSE s \o outbox
    /\ UNCHANGED <<aborted, turn, left, delivered, loop, user>>

(* message_start and message_end; the message enters the transcript before *)
(* the listeners run (processEvents).                                      *)
EmitMessage ==
    /\ pc \in {"prompts", "deliver", "tools", "results"} /\ outbox # <<>>
    /\ turn' = Append(turn, Head(outbox)) /\ outbox' = Tail(outbox)
    /\ delivered' = IF Head(outbox).role \in {"steer", "followUp"} THEN Append(delivered, Head(outbox))
                    ELSE delivered
    /\ UNCHANGED <<pc, aborted, left, loop, user>>

(* The poll at the start of runLoop; the first turn was started already.   *)
InitialPoll ==
    /\ pc = "prompts" /\ outbox = <<>> /\ pc' = "deliver"
    /\ skipPoll' = FALSE
    /\ steering' = IF skipPoll THEN steering ELSE Rest(steering, SteeringMode)
    /\ \E s \in SystemUpdates :
          outbox' = s \o (IF skipPoll THEN <<>> ELSE Peek(steering, SteeringMode))
    /\ UNCHANGED <<aborted, followUps, pending, status, turn, left, mode, calls, terminate, more, explicit,
                   completed, asked, accepted, delivered, wanted>>

(* The hook prepareNextTurn is done.                                       *)
PrepareNextTurn ==
    /\ pc = "prepareNextTurn" /\ pc' = "nextTurn"
    /\ UNCHANGED <<aborted, outbox, turn, left, delivered, loop, user>>

(* Mutants of NextTurn: the second poll replaces, or adds to, the first.   *)
RepollReplaces ==
    /\ pc = "nextTurn" /\ pc' = "deliver"
    /\ outbox' = Peek(steering, SteeringMode) \o status
    /\ steering' = Rest(steering, SteeringMode)
    /\ pending' = <<>> /\ status' = <<>>
    /\ UNCHANGED <<aborted, followUps, skipPoll, turn, left, mode, calls, terminate, more, explicit,
                   completed, asked, accepted, delivered, wanted>>
RepollAdds ==
    /\ pc = "nextTurn" /\ pc' = "deliver"
    /\ outbox' = pending \o Peek(steering, SteeringMode) \o status
    /\ steering' = Rest(steering, SteeringMode)
    /\ pending' = <<>> /\ status' = <<>>
    /\ UNCHANGED <<aborted, followUps, skipPoll, turn, left, mode, calls, terminate, more, explicit,
                   completed, asked, accepted, delivered, wanted>>

(* Steering queued meanwhile is taken only if the earlier poll found none. *)
(* Then the status notes, and turn_start.                                  *)
NextTurn ==
    /\ pc = "nextTurn" /\ pc' = "deliver"
    /\ LET polled == IF pending = <<>> THEN Peek(steering, SteeringMode) ELSE pending
       IN  \E s \in SystemUpdates : outbox' = s \o polled \o status
    /\ steering' = IF pending = <<>> THEN Rest(steering, SteeringMode) ELSE steering
    /\ pending' = <<>> /\ status' = <<>>
    /\ UNCHANGED <<aborted, followUps, skipPoll, turn, left, mode, calls, terminate, more, explicit,
                   completed, asked, accepted, delivered, wanted>>

(* Mutant of PrepareRequest: the request is made without the signal.       *)
RequestWithoutSignal ==
    /\ pc = "deliver" /\ outbox = <<>> /\ pc' = "stream"
    /\ UNCHANGED <<aborted, outbox, turn, left, delivered, loop, user>>

(* The hook prepareRequest is done and the request is sent.                *)
PrepareRequest ==
    /\ pc = "deliver" /\ outbox = <<>>
    /\ pc' = IF aborted THEN "refused" ELSE "stream"
    /\ UNCHANGED <<aborted, outbox, turn, left, delivered, loop, user>>

-----------------------------------------------------------------------------
(* Mutant of Respond: the termination requests of the last batch stay.     *)
RespondKeepingRequests(stop, n) ==
    /\ pc = "stream" /\ stop = "stop"
    /\ turn' = <<Msg("assistant", n)>> /\ left' = 0
    /\ calls' = [i \in 1..n |-> "new"] /\ more' = FALSE /\ mode' = "sequential"
    /\ pc' = IF n = 0 THEN "finishTurn" ELSE "tools"
    /\ UNCHANGED <<aborted, skipPoll, pending, status, outbox, terminate, explicit, completed,
                   delivered, wanted, user>>

(* streamAssistantResponse.  The provider is external: a request made      *)
(* with an aborted signal fails; one that is aborted while it streams may  *)
(* still complete.  The calls of a failed response are never executed.     *)
Respond(stop, n) ==
    /\ pc \in {"stream", "refused"}
    /\ pc = "refused" => stop \in {"error", "aborted"}
    /\ stop = "aborted" => aborted
    /\ stop \in {"error", "aborted"} => n = 0
    /\ turn' = <<Msg("assistant", n)>> /\ left' = 0
    /\ calls' = [i \in 1..n |-> "new"] /\ terminate' = {} /\ more' = FALSE
    /\ mode' \in IF n = 0 THEN {"none"} ELSE IF stop = "length" THEN {"truncated"} ELSE ToolModes
    /\ pc' = IF stop \in {"error", "aborted"} THEN "finishFailed"
             ELSE IF n = 0 THEN "finishTurn" ELSE "tools"
    /\ UNCHANGED <<aborted, skipPoll, pending, status, outbox, explicit, completed, delivered,
                   wanted, user>>

-----------------------------------------------------------------------------
(* The calls of the batch are started in order.  After each one but before *)
(* the next the batch is cut if the run has been aborted.                  *)
Settled == pc = "tools" /\ outbox = <<>> /\ In({"started"}) = {}
                /\ (mode = "sequential" => In({"running"}) = {})
Cut == aborted /\ In({"new"}) # DOMAIN calls
NextCall == CHOOSE i \in In({"new"}) : \A j \in In({"new"}) : i <= j

(* failToolCallsFromTruncatedMessage: one call after the other fails.      *)
FailTruncatedCall ==
    /\ Settled /\ mode = "truncated" /\ In({"new"}) # {}
    /\ calls' = [calls EXCEPT ![NextCall] = "final"]
    /\ outbox' = <<Msg("toolResult", NextCall)>>
    /\ UNCHANGED <<pc, aborted, skipPoll, pending, status, turn, left, mode, terminate, more, explicit,
                   completed, delivered, wanted, user>>

(* tool_execution_start, then prepareToolCall.                             *)
StartCall ==
    /\ Settled /\ mode # "truncated" /\ In({"new"}) # {} /\ ~Cut
    /\ calls' = [calls EXCEPT ![NextCall] = "started"]
    /\ UNCHANGED <<pc, aborted, skipPoll, pending, status, outbox, turn, left, mode, terminate, more,
                   explicit, completed, delivered, wanted, user>>

PrepareCall(i) ==
    /\ pc = "tools" /\ calls[i] = "started" /\ ~aborted
    /\ calls' = [calls EXCEPT ![i] = IF mode = "sequential" THEN "running" ELSE "prepared"]
    /\ UNCHANGED <<pc, aborted, skipPoll, pending, status, outbox, turn, left, mode, terminate, more,
                   explicit, completed, delivered, wanted, user>>

(* A call is finalized: at once, when it is refused, blocked or aborted    *)
(* before its execution, or when the tool has returned.  Its end is        *)
(* reported at once; its result message too, in a sequential batch.        *)
FinalizeCall(i) ==
    /\ pc \in {"tools", "running"} /\ calls[i] \in {"started", "running"}
    /\ calls' = [calls EXCEPT ![i] = IF @ = "started" THEN "immediate" ELSE "final"]
    /\ \/ UNCHANGED terminate
       \/ "terminate" \in Hooks /\ terminate' = terminate \cup {i}
    /\ outbox' = IF mode = "sequential" THEN <<Msg("toolResult", i)>> ELSE outbox
    /\ UNCHANGED <<pc, aborted, skipPoll, pending, status, turn, left, mode, more, explicit, completed,
                   delivered, wanted, user>>

(* executeToolCallsParallel: when every call is prepared, or the batch is  *)
(* cut, the prepared calls begin together, unless the run is aborted.      *)
LaunchCalls ==
    /\ Settled /\ mode = "parallel" /\ (In({"new"}) = {} \/ Cut)
    /\ pc' = "running"
    /\ calls' = [i \in DOMAIN calls |->
                    IF calls[i] = "prepared" THEN (IF aborted THEN "final" ELSE "running")
                    ELSE calls[i]]
    /\ UNCHANGED <<aborted, skipPoll, pending, status, outbox, turn, left, mode, terminate, more, explicit,
                   completed, delivered, wanted, user>>

(* Mutant of CollectResults: does not wait for every call.                 *)
CollectEarly ==
    /\ pc = "running" /\ Decided # {} /\ pc' = "results"
    /\ outbox' = [i \in 1..Cardinality(Decided) |-> Msg("toolResult", i)]
    /\ UNCHANGED <<aborted, turn, left, delivered, loop, user>>

(* Promise.all: the result messages are emitted in the order of the calls. *)
CollectResults ==
    /\ pc = "running" /\ In({"running"}) = {} /\ pc' = "results"
    /\ outbox' = [i \in 1..Cardinality(Decided) |-> Msg("toolResult", i)]
    /\ UNCHANGED <<aborted, turn, left, delivered, loop, user>>

(* The batch is done; it ends the run if all its results ask for it.       *)
EndBatch ==
    /\ outbox = <<>>
    /\ \/ Settled /\ mode = "truncated" /\ In({"new"}) = {}
       \/ Settled /\ mode = "sequential" /\ (In({"new"}) = {} \/ Cut)
       \/ pc = "results"
    /\ pc' = "finishTurn"
    /\ more' = ~(Decided \subseteq terminate)
    /\ UNCHANGED <<aborted, skipPoll, pending, status, outbox, turn, left, mode, calls, terminate, explicit,
                   completed, delivered, wanted, user>>

-----------------------------------------------------------------------------
(* The hook finishTurn and turn_end.  A decision to end is final; after a  *)
(* failed response every decision is ignored.                              *)
FinishTurn(decision) ==
    /\ decision # "none" => decision \in Hooks
    /\ \/ /\ pc = "finishTurn" /\ decision # "end" /\ pc' = "pollSteering"
          /\ explicit' = (decision = "continue") /\ wanted' = explicit' /\ completed' = TRUE
       \/ /\ pc = "finishFailed" \/ (pc = "finishTurn" /\ decision = "end")
          /\ pc' = "agentEnd"
          /\ UNCHANGED <<explicit, wanted, completed>>
    /\ UNCHANGED <<aborted, skipPoll, pending, status, outbox, turn, left, mode, calls, terminate, more,
                   delivered, user>>

PollSteering ==
    /\ pc = "pollSteering" /\ pc' = "contextStatus"
    /\ pending' = Peek(steering, SteeringMode) /\ steering' = Rest(steering, SteeringMode)
    /\ UNCHANGED <<aborted, followUps, skipPoll, status, outbox, turn, left, mode, calls, terminate, more,
                   explicit, completed, asked, accepted, delivered, wanted>>

(* Mutant of ContextStatus: a note after any tool work, queued as steering.*)
StatusAsSteering ==
    /\ pc = "contextStatus"
    /\ \/ UNCHANGED pending
       \/ "status" \in Hooks /\ calls # <<>> /\ pending' = pending \o <<Msg("status", 0)>>
    /\ pc' = IF more \/ pending' # <<>> THEN "prepareNextTurn" ELSE "pollFollowUps"
    /\ explicit' = (explicit /\ ~more /\ pending' = <<>>)
    /\ UNCHANGED <<aborted, skipPoll, status, outbox, turn, left, mode, calls, terminate, more, completed,
                   delivered, wanted, user>>

(* getContextStatusMessages: a note only after tool work that goes on.     *)
ContextStatus ==
    /\ pc = "contextStatus"
    /\ \/ UNCHANGED status
       \/ "status" \in Hooks /\ more /\ status' = <<Msg("status", 0)>>
    /\ pc' = IF more \/ pending # <<>> THEN "prepareNextTurn" ELSE "pollFollowUps"
    /\ explicit' = (explicit /\ ~more /\ pending = <<>>)
    /\ UNCHANGED <<aborted, skipPoll, pending, outbox, turn, left, mode, calls, terminate, more, completed,
                   delivered, wanted, user>>

(* The agent would stop: follow-ups first, then a requested continuation.  *)
PollFollowUps ==
    /\ pc = "pollFollowUps"
    /\ pending' = Peek(followUps, FollowUpMode) /\ followUps' = Rest(followUps, FollowUpMode)
    /\ IF followUps # <<>> \/ explicit
       THEN pc' = "prepareNextTurn" /\ explicit' = FALSE /\ more' = TRUE
       ELSE pc' = "agentEnd" /\ UNCHANGED <<explicit, more>>
    /\ UNCHANGED <<aborted, steering, skipPoll, status, outbox, turn, left, mode, calls, terminate,
                   completed, asked, accepted, delivered, wanted>>

AgentEnd ==
    /\ pc = "agentEnd" /\ pc' = "settling"
    /\ UNCHANGED <<aborted, outbox, turn, left, delivered, loop, user>>

-----------------------------------------------------------------------------
(* A hook or a listener throws; while tools execute, that is a listener of *)
(* a call that is finished.  The run is over; what was taken from the      *)
(* queues and not yet emitted is lost.  The other tools of a parallel      *)
(* batch go on executing, but what they return is dropped: only listeners  *)
(* hear of it.  handleRunFailure emits message_start of a failure message. *)
Throw ==
    /\ "throw" \in Hooks /\ pc \notin {"idle", "failing", "failed", "failureEnd"}
    /\ pc = "tools" => In({"running"}) = {}
    /\ pc = "running" => In({"final"}) # {}
    /\ pc' = "failing"
    /\ calls' = <<>> /\ mode' = "none" /\ terminate' = {} /\ more' = FALSE
    /\ outbox' = <<>> /\ pending' = <<>> /\ Forget(outbox \o pending)
    /\ UNCHANGED <<aborted, steering, followUps, skipPoll, status, turn, left, explicit, completed,
                   asked, delivered, wanted>>

(* message_end of the failure message: it enters the transcript.           *)
FailureMessage ==
    /\ pc = "failing" /\ pc' = "failed"
    /\ turn' = <<Msg("assistant", 0)>> /\ left' = 0
    /\ UNCHANGED <<aborted, outbox, delivered, loop, user>>

(* turn_end and agent_end of a failed run.                                 *)
FailureEnd ==
    /\ pc = "failed" /\ pc' = "failureEnd"
    /\ UNCHANGED <<aborted, outbox, turn, left, delivered, loop, user>>

(* finishRun, when the listeners of agent_end are done.                    *)
FinishRun ==
    /\ pc \in {"settling", "failureEnd"}
    /\ pc' = "idle" /\ aborted' = FALSE
    /\ UNCHANGED <<outbox, turn, left, delivered, loop, user>>

(* A listener throws while the failure is reported: handleRunFailure is    *)
(* left and finishRun ends the run, before message_end without its message.*)
FailReporting ==
    /\ "throw" \in Hooks
    /\ \/ pc = "failing" /\ Len(turn) <= MaxLeft /\ left' = Len(turn)
       \/ pc = "failed" /\ UNCHANGED left
    /\ pc' = "idle" /\ aborted' = FALSE
    /\ UNCHANGED <<outbox, turn, delivered, loop, user>>

-----------------------------------------------------------------------------
Init ==
    /\ pc = "idle" /\ aborted = FALSE
    /\ steering = <<>> /\ followUps = <<>> /\ skipPoll = FALSE
    /\ pending = <<>> /\ status = <<>> /\ outbox = <<>> /\ turn = <<>> /\ left = 0
    /\ mode = "none" /\ calls = <<>> /\ terminate = {}
    /\ more = FALSE /\ explicit = FALSE /\ completed = FALSE
    /\ asked = 0 /\ accepted = {} /\ delivered = <<>> /\ wanted = FALSE

UserStep == Prompt \/ Continue \/ Steer \/ FollowUp \/ ClearAllQueues \/ Abort \/ Reset

(* What the loop does by itself, or when a hook or a listener returns.     *)
LoopStep ==
    \/ TurnStart \/ EmitMessage \/ InitialPoll \/ PrepareNextTurn \/ NextTurn \/ PrepareRequest
    \/ FailTruncatedCall \/ StartCall \/ \E i \in DOMAIN calls : PrepareCall(i)
    \/ LaunchCalls \/ CollectResults \/ EndBatch
    \/ \E d \in {"none", "end", "continue"} : FinishTurn(d)
    \/ PollSteering \/ ContextStatus \/ PollFollowUps \/ AgentEnd
    \/ FailureMessage \/ FailureEnd \/ FinishRun

(* What the provider and the tools do.                                     *)
ExternalStep ==
    \/ \E stop \in {"stop", "length", "error", "aborted"}, n \in 0..MaxCalls : Respond(stop, n)
    \/ \E i \in DOMAIN calls : FinalizeCall(i)

Next == UserStep \/ LoopStep \/ ExternalStep \/ Throw \/ FailReporting

(* The loop goes on as long as hooks and listeners return; the provider    *)
(* and the tools are relied upon only when they have been told to abort.   *)
Fairness == WF_vars(LoopStep) /\ WF_vars(aborted /\ ExternalStep)

Spec == Init /\ [][Next]_vars /\ Fairness

-----------------------------------------------------------------------------
PCs == {"idle", "started", "prompts", "prepareNextTurn", "nextTurn", "deliver", "stream", "refused",
        "tools", "running", "results", "finishTurn", "finishFailed", "pollSteering",
        "contextStatus", "pollFollowUps", "agentEnd", "settling", "failing", "failed", "failureEnd"}

(* Every variable has its type; only calls of the present batch have asked *)
(* to terminate.                                                           *)
TypeOK ==
    /\ pc \in PCs
    /\ aborted \in BOOLEAN /\ skipPoll \in BOOLEAN /\ more \in BOOLEAN /\ explicit \in BOOLEAN
    /\ completed \in BOOLEAN /\ wanted \in BOOLEAN
    /\ steering \in Seq(Message) /\ followUps \in Seq(Message) /\ pending \in Seq(Message)
    /\ status \in Seq(Message) /\ outbox \in Seq(Message) /\ turn \in Seq(Message)
    /\ delivered \in Seq(Message) /\ accepted \subseteq Message
    /\ mode \in {"none", "truncated", "sequential", "parallel"}
    /\ calls \in Seq(CallStates) /\ terminate \subseteq DOMAIN calls
    /\ left \in Nat /\ asked \in Nat

(* Every queued message reaches the transcript once, in the order of its   *)
(* queue: what was delivered, what the loop holds and what is still queued *)
(* is what was accepted, as it was sent.  Only clearing the queues and a   *)
(* hook that throws lose messages (agent.ts:165, agent-loop.ts:207).       *)
OfRole(s, r) == {i \in DOMAIN s : s[i].role = r}
InOrder(s, r) ==
    /\ {s[i] : i \in OfRole(s, r)} = {m \in accepted : m.role = r}
    /\ \A i, j \in OfRole(s, r) : i < j => s[i].n < s[j].n
DeliveredOnceInOrder ==
    /\ InOrder(delivered \o outbox \o pending \o steering, "steer")
    /\ InOrder(delivered \o outbox \o pending \o followUps, "followUp")

(* In one-at-a-time mode no two messages of a queue reach the model        *)
(* between two responses, whatever runs they are delivered in.  Only a run *)
(* that ends with no response and no failure message, because a listener   *)
(* throws while the failure is reported, leaves its messages to the next   *)
(* run (agent-loop.ts:206, agent.ts:544, docs/rpc-commands.md:335).        *)
Unanswered(r) == {i \in OfRole(turn, r) : i > left}
OneAtATime ==
    /\ SteeringMode = "one-at-a-time" => \A i, j \in Unanswered("steer") : i = j
    /\ FollowUpMode = "one-at-a-time" => \A i, j \in Unanswered("followUp") : i = j

(* The tool results in the transcript follow the assistant message of      *)
(* their calls immediately and in the order of the calls, however the      *)
(* tools finish; and the next request of the run goes out with every call  *)
(* answered, unless the run was aborted (agent-loop.ts:664).               *)
ResultsFollowTheirCalls ==
    /\ \A i \in DOMAIN turn : turn[i].role = "toolResult" =>
          turn[1].role = "assistant" /\ turn[i].n = i - 1 /\ turn[i].n <= turn[1].n
    /\ (pc = "stream" /\ completed /\ ~aborted) =>
          \A c \in 1..turn[1].n : c + 1 \in DOMAIN turn /\ turn[c + 1] = Msg("toolResult", c)

(* The model is asked again only if tool work goes on, a queued message    *)
(* was delivered or finishTurn asked for it: a status note never defeats   *)
(* the end of the run (agent-loop.ts:176, 307).                            *)
NoUnrequestedTurn ==
    (pc \in {"stream", "refused"} /\ completed) =>
        \/ calls # <<>> /\ ~(Decided \subseteq terminate)
        \/ OfRole(turn, "steer") \cup OfRole(turn, "followUp") # {}
        \/ wanted

(* An aborted run ends, whatever the model answers and whatever is queued  *)
(* (agent.ts:341).                                                         *)
AbortEndsRun == aborted ~> pc = "idle"

(* As long as the provider and the tools answer, a message that was queued *)
(* while a run is active leaves the queue before the run is over, or the   *)
(* run ends (agent-loop.ts:305, 208).                                      *)
SteeringPickedUp ==
    WF_vars(ExternalStep) => (pc # "idle" /\ steering # <<>> ~> steering = <<>> \/ pc = "idle")

(* The loop implements AgentRun, what its drivers rely on: results only    *)
(* between a response and the end of its turn, no turn after a failure, no *)
(* request after an abort, and an end of every aborted run                 *)
(* (agent.ts:263, 341, agent-loop.ts:162).                                 *)
PhaseOf ==
    CASE pc = "idle"                                              -> "idle"
      [] pc \in {"started", "prompts", "prepareNextTurn",
                 "nextTurn", "deliver", "refused"}                -> "turn"
      [] pc = "stream"                                            -> "stream"
      [] pc \in {"tools", "running", "results"}                   -> "tools"
      [] pc = "finishTurn"                                        -> "finishing"
      [] pc = "finishFailed"                                      -> "failed"
      [] pc \in {"pollSteering", "contextStatus", "pollFollowUps"} -> "turnEnd"
      [] OTHER                                                    -> "ending"
Run == INSTANCE AgentRun WITH
    phase <- PhaseOf, signal <- aborted, queued <- Len(steering) + Len(followUps)
ImplementsRun == Run!Spec
=============================================================================
