------------------------------ MODULE AgentRun ------------------------------
(***************************************************************************)
(* What the class Agent promises to the code that drives it: the phases of *)
(* a run, when tool results may arrive, when queued messages are taken,    *)
(* and that an aborted run ends.  AgentLoop is shown to implement this     *)
(* specification; AgentSession is built on it.                             *)
(*                                                                         *)
(*   turn       between two requests: messages are delivered               *)
(*   stream     the model is answering                                     *)
(*   tools      the calls of the answer are executed; results arrive       *)
(*   finishing  the answer and its results are there; the turn is closed   *)
(*   failed     the answer is an error                                     *)
(*   turnEnd    listeners have been told; is there anything more to do?    *)
(*   ending     the run is over but for its listeners                      *)
(***************************************************************************)
EXTENDS Naturals

VARIABLES
    phase,   \* the phase of the active run, "idle" when there is none
    signal,  \* the run has been told to abort
    queued   \* the number of queued messages

vars == <<phase, signal, queued>>

Phases == {"idle", "turn", "stream", "tools", "finishing", "failed", "turnEnd", "ending"}

(* From one of the phases to another one, taking n queued messages.        *)
Move(from, to, n) ==
    /\ phase \in from /\ phase' = to
    /\ n \in 0..queued /\ queued' = queued - n
    /\ UNCHANGED signal

(* The calls of the driver: prompt, continue, steer or followUp,           *)
(* clearAllQueues, abort.                                                  *)
Prompt      == Move({"idle"}, "turn", 0)
Continue(n) == Move({"idle"}, "turn", n)
Enqueue     == queued' = queued + 1 /\ UNCHANGED <<phase, signal>>
Clear       == queued' = 0 /\ UNCHANGED <<phase, signal>>
Abort       == phase # "idle" /\ signal' = TRUE /\ UNCHANGED <<phase, queued>>

(* The steps of the run.  After an abort no request is sent.               *)
Take(n)        == phase \in {"turn", "turnEnd"} /\ Move({phase}, phase, n)
Request        == ~signal /\ Move({"turn"}, "stream", 0)
Refuse         == signal /\ Move({"turn"}, "failed", 0)
Respond(calls) == Move({"stream"}, IF calls THEN "tools" ELSE "finishing", 0)
FailResponse   == Move({"stream"}, "failed", 0)
Results        == Move({"tools"}, "finishing", 0)
TurnEnd        == Move({"finishing"}, "turnEnd", 0)
NextTurn(n)    == Move({"turnEnd"}, "turn", n)
EndRun         == Move({"finishing", "turnEnd", "failed"}, "ending", 0)
Throw          == Move(Phases \ {"idle"}, "ending", 0)
Finish ==
    /\ phase = "ending" /\ phase' = "idle"
    /\ signal' = FALSE /\ UNCHANGED queued

Init == phase = "idle" /\ signal = FALSE /\ queued = 0

Driver == Prompt \/ (\E n \in 0..queued : Continue(n)) \/ Enqueue \/ Clear \/ Abort
(* What the run does by itself, and what it waits for the model and the    *)
(* tools to do.                                                            *)
Proceed == Request \/ TurnEnd \/ (\E n \in 0..queued : NextTurn(n)) \/ EndRun \/ Finish
Answer  == Refuse \/ (\E calls \in BOOLEAN : Respond(calls)) \/ FailResponse \/ Results

Next == Driver \/ (\E n \in 1..queued : Take(n)) \/ Proceed \/ Answer \/ Throw

(* The run goes on; the model and the tools are relied upon only when the  *)
(* run has been told to abort.                                             *)
Fairness == WF_vars(Proceed) /\ WF_vars(signal /\ Answer)

Spec == Init /\ [][Next]_vars /\ Fairness
=============================================================================
