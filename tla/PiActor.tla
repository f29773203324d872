------------------------------- MODULE PiActor -------------------------------
(***************************************************************************)
(* One call of PiActor.run (packages/pi-actor/src/pi-actor.ts): the agent  *)
(* session of the pi SDK, which streams its turns through broker-provider.ts *)
(* and broker-client.ts to the copilot broker and runs the tools the model  *)
(* calls, the test commands of TestCommand among them.  Requests meet what  *)
(* RelayContract promises: answered, refused, or failed with or without     *)
(* having been executed.  An action is what happens between two awaits.     *)
(***************************************************************************)
EXTENDS TestCommand, FiniteSets

CONSTANT MaxCalls   \* bound: tool calls the model makes in a run

ASSUME CallsAssumption == MaxCalls \in Nat

VARIABLES
    phase,        \* where run stands
    outcome,      \* what its finally block was entered with
    signalled,    \* the signal given to run has been aborted
    agent,        \* where the SDK's agent loop stands
    todo,         \* calls of the last response that have not been executed
    results,      \* calls whose results are in the agent's context
    tested,       \* the trace has a workspace_test without an error
    promptSent, pending, submitted,   \* createBrokerStream's
    message,      \* calls whose results the current turn carries
    sessionKnown, \* BrokerClient.#sessionId is set
    called,       \* number of calls made so far
    owed,         \* calls the broker's session awaits results of
    remote,       \* the session at the broker
    abandoned,    \* the request that creates it got no answer
    closeFailed   \* the request that deletes it failed

runVars == <<phase, outcome, signalled>>
agentVars == <<agent, todo, results, tested>>
streamVars == <<promptSent, pending, submitted, message>>
brokerVars == <<sessionKnown, called, owed, remote, abandoned, closeFailed>>
vars == <<commandVars, runVars, agentVars, streamVars, brokerVars>>

Phases == {"preparing", "prompting", "snapshot", "closing", "deleting", "resolved", "rejected"}
Ended == phase \in {"resolved", "rejected"}

TypeOK ==
    /\ CommandTypeOK
    /\ phase \in Phases
    /\ outcome \in {"none", "resolved", "rejected"}
    /\ agent \in {"none", "starting", "streaming", "creating", "sending", "tools", "over"}
    /\ called \in 0..MaxCalls
    /\ results \subseteq 1..called /\ submitted \subseteq 1..called
    /\ todo \subseteq (1..called) \ results
    /\ pending \subseteq (1..called) \ submitted
    /\ message \subseteq 1..called /\ owed \subseteq 1..called
    /\ remote \in {"none", "open", "gone"}
    /\ {signalled, tested, promptSent, sessionKnown, abandoned, closeFailed} \subseteq BOOLEAN

Init ==
    /\ CommandInit
    /\ phase = "preparing" /\ outcome = "none" /\ signalled = FALSE
    /\ agent = "none" /\ todo = {} /\ results = {} /\ tested = FALSE
    /\ promptSent = FALSE /\ pending = {} /\ submitted = {} /\ message = {}
    /\ sessionKnown = FALSE /\ called = 0 /\ owed = {}
    /\ remote = "none" /\ abandoned = FALSE /\ closeFailed = FALSE

-----------------------------------------------------------------------------
(* run.                                                                     *)

Leave(result) == phase' = "closing" /\ outcome' = result

(* Before the try block: nothing has been opened yet. *)
PrepareFailed ==
    /\ phase = "preparing"
    /\ phase' = "rejected"
    /\ UNCHANGED <<commandVars, outcome, signalled, agentVars, streamVars, brokerVars>>

Prepared ==
    /\ phase = "preparing"
    /\ IF signalled
       THEN Leave("rejected") /\ UNCHANGED agent
       ELSE phase' = "prompting" /\ agent' = "starting" /\ UNCHANGED outcome
    /\ UNCHANGED <<commandVars, signalled, todo, results, tested, streamVars, brokerVars>>

(* The abort listener calls session.abort, which reaches the agent's loop   *)
(* only once it runs.                                                       *)
Signal ==
    /\ ~signalled
    /\ signalled' = TRUE
    /\ \/ phase = "prompting" /\ agent # "over" /\ Abort
       \/ (phase = "prompting" => agent \in {"starting", "over"}) /\ UNCHANGED commandVars
    /\ UNCHANGED <<phase, outcome, agentVars, streamVars, brokerVars>>

PromptThrows ==
    /\ phase = "prompting" /\ agent = "starting"
    /\ Leave("rejected")
    /\ agent' = "over"
    /\ UNCHANGED <<commandVars, signalled, todo, results, tested, streamVars, brokerVars>>

(* session.prompt returns, also from an agent that ended with an error.     *)
PromptReturns ==
    /\ phase = "prompting" /\ agent = "over"
    /\ IF signalled THEN Leave("rejected") ELSE phase' = "snapshot" /\ UNCHANGED outcome
    /\ UNCHANGED <<commandVars, signalled, agentVars, streamVars, brokerVars>>

(* snapshotWorkspace and lastAssistantText may throw. *)
Snapshot ==
    /\ phase = "snapshot"
    /\ Leave("resolved") \/ Leave("rejected")
    /\ UNCHANGED <<commandVars, signalled, agentVars, streamVars, brokerVars>>

(* Bug: the session is only closed after a run that succeeded.              *)
CloseAfterSuccess ==
    /\ phase = "closing"
    /\ sessionKnown' = FALSE
    /\ phase' = IF sessionKnown /\ outcome = "resolved" THEN "deleting" ELSE outcome
    /\ UNCHANGED <<commandVars, outcome, signalled, agentVars, streamVars, called, owed,
                   remote, abandoned, closeFailed>>

(* The finally block: client.close forgets the session before it deletes it. *)
Close ==
    /\ phase = "closing"
    /\ sessionKnown' = FALSE
    /\ phase' = IF sessionKnown THEN "deleting" ELSE outcome
    /\ UNCHANGED <<commandVars, outcome, signalled, agentVars, streamVars, called, owed,
                   remote, abandoned, closeFailed>>

Deleted ==
    /\ phase = "deleting"
    /\ phase' = outcome
    /\ remote' = "gone"
    /\ UNCHANGED <<commandVars, outcome, signalled, agentVars, streamVars, sessionKnown,
                   called, owed, abandoned, closeFailed>>

(* Its error replaces the outcome of the run. *)
DeleteFailed ==
    /\ phase = "deleting"
    /\ phase' = "rejected"
    /\ closeFailed' = TRUE
    /\ remote' \in {remote, "gone"}
    /\ UNCHANGED <<commandVars, outcome, signalled, agentVars, streamVars, sessionKnown,
                   called, owed, abandoned>>

-----------------------------------------------------------------------------
(* The agent's stream.                                                      *)

AgentStarts ==
    /\ phase = "prompting" /\ agent = "starting"
    /\ agent' = "streaming"
    /\ UNCHANGED <<commandVars, runVars, todo, results, tested, streamVars, brokerVars>>

(* collectToolResults *)
CollectToolResults == {c \in results : c \in pending /\ c \notin submitted}

(* Bug: the results of earlier turns are sent again.                        *)
StreamAgain ==
    /\ agent = "streaming"
    /\ message' = IF promptSent THEN results ELSE {}
    /\ pending' = pending \ message'
    /\ submitted' = submitted \union message'
    /\ promptSent' = TRUE
    /\ agent' = IF aborted \/ (promptSent /\ message' = {}) THEN "over"
                ELSE IF sessionKnown THEN "sending" ELSE "creating"
    /\ UNCHANGED <<commandVars, runVars, todo, results, tested, brokerVars>>

(* Bug: what has been submitted stays pending.                              *)
StreamKeepsPending ==
    /\ agent = "streaming"
    /\ message' = IF promptSent THEN CollectToolResults ELSE {}
    /\ pending' = pending
    /\ submitted' = submitted \union message'
    /\ promptSent' = TRUE
    /\ agent' = IF aborted \/ (promptSent /\ message' = {}) THEN "over"
                ELSE IF sessionKnown THEN "sending" ELSE "creating"
    /\ UNCHANGED <<commandVars, runVars, todo, results, tested, brokerVars>>

(* A turn: the prompt, or the results of the pending calls.  A fetch with   *)
(* an aborted signal fails without a request, an empty turn before it.      *)
Stream ==
    /\ agent = "streaming"
    /\ message' = IF promptSent THEN CollectToolResults ELSE {}
    /\ pending' = pending \ message'
    /\ submitted' = submitted \union message'
    /\ promptSent' = TRUE
    /\ agent' = IF aborted \/ (promptSent /\ message' = {}) THEN "over"
                ELSE IF sessionKnown THEN "sending" ELSE "creating"
    /\ UNCHANGED <<commandVars, runVars, todo, results, tested, brokerVars>>

(* #ensureSession *)
SessionCreated ==
    /\ agent = "creating" /\ ~aborted
    /\ remote = "none"
    /\ remote' = "open" /\ sessionKnown' = TRUE
    /\ agent' = "sending"
    /\ UNCHANGED <<commandVars, runVars, todo, results, tested, streamVars,
                   called, owed, abandoned, closeFailed>>

(* Refused, failed or aborted; the request may still reach the broker.      *)
CreateFailed ==
    /\ agent = "creating"
    /\ abandoned' = TRUE
    /\ agent' = "over"
    /\ UNCHANGED <<commandVars, runVars, todo, results, tested, streamVars,
                   sessionKnown, called, owed, remote, closeFailed>>

CreatedLate ==
    /\ abandoned /\ remote = "none"
    /\ remote' = "open"
    /\ UNCHANGED <<commandVars, runVars, agentVars, streamVars,
                   sessionKnown, called, owed, abandoned, closeFailed>>

(* An answer with n calls, or the assistant's last one, when n is 0.        *)
TurnAnswered(n) ==
    /\ agent = "sending" /\ ~aborted
    /\ called + n <= MaxCalls
    /\ LET calls == (called + 1)..(called + n) IN
       /\ called' = called + n
       /\ owed' = (owed \ message) \union calls
       /\ pending' = pending \union calls
       /\ todo' = calls
       /\ agent' = IF n = 0 THEN "over" ELSE "tools"
    /\ UNCHANGED <<commandVars, runVars, results, tested, promptSent, submitted, message,
                   sessionKnown, remote, abandoned, closeFailed>>

(* The stream ends with an error, which ends the agent: retries are off.    *)
TurnFailed ==
    /\ agent = "sending"
    /\ agent' = "over"
    /\ UNCHANGED <<commandVars, runVars, todo, results, tested, streamVars, brokerVars>>

-----------------------------------------------------------------------------
(* The agent's tools, one after the other.                                  *)

NextCall(c) == agent = "tools" /\ c \in todo /\ \A d \in todo : c <= d

Executed(c) == results' = results \union {c} /\ todo' = todo \ {c}

(* workspace_read, workspace_edit, workspace_write. *)
FileTool(c) ==
    /\ NextCall(c) /\ exec = "idle"
    /\ Executed(c)
    /\ UNCHANGED <<commandVars, runVars, agent, tested, streamVars, brokerVars>>

TestTool(c) ==
    /\ NextCall(c)
    /\ Exec
    /\ UNCHANGED <<runVars, agentVars, streamVars, brokerVars>>

(* What exec resolves with may be no error, whatever ended the command.     *)
TestToolEnds(c) ==
    /\ NextCall(c)
    /\ exec \in {"resolved", "rejected"}
    /\ exec' = "idle"
    /\ Executed(c)
    /\ tested' \in {tested, tested \/ exec = "resolved"}
    /\ UNCHANGED <<aborted, processVars, timerVars, runVars, agent, streamVars, brokerVars>>

NextTurn ==
    /\ agent = "tools" /\ todo = {}
    /\ agent' = "streaming"
    /\ UNCHANGED <<commandVars, runVars, todo, results, tested, streamVars, brokerVars>>

(* An aborted agent may leave the calls it has not begun. *)
SkipTools ==
    /\ agent = "tools" /\ aborted /\ exec = "idle"
    /\ agent' = "over"
    /\ UNCHANGED <<commandVars, runVars, todo, results, tested, streamVars, brokerVars>>

-----------------------------------------------------------------------------
RunStep == PrepareFailed \/ Prepared \/ PromptThrows \/ PromptReturns \/ Snapshot
           \/ Close \/ Deleted \/ DeleteFailed

TurnStep == Stream \/ SessionCreated \/ CreateFailed \/ TurnFailed
            \/ \E n \in 0..MaxCalls : TurnAnswered(n)

ToolStep == NextTurn \/ SkipTools
            \/ \E c \in 1..MaxCalls : FileTool(c) \/ TestTool(c) \/ TestToolEnds(c)

Command ==
    /\ CommandStep \/ ProcessStep
    /\ UNCHANGED <<runVars, agentVars, streamVars, brokerVars>>

Next == RunStep \/ Signal \/ AgentStarts \/ TurnStep \/ CreatedLate \/ ToolStep \/ Command

Spec == Init /\ [][Next]_vars

(* Local steps and timers happen; an aborted fetch fails, and a deletion is *)
(* answered or fails, as the relay's own timer sees to.  Neither the model  *)
(* nor any process need ever answer or end.                                 *)
FairSpec ==
    /\ Spec
    /\ WF_vars(AgentStarts \/ PromptThrows)
    /\ WF_vars(PromptReturns) /\ WF_vars(Snapshot) /\ WF_vars(Close)
    /\ WF_vars(Deleted \/ DeleteFailed)
    /\ WF_vars(Stream) /\ WF_vars(aborted /\ CreateFailed) /\ WF_vars(aborted /\ TurnFailed)
    /\ WF_vars(ToolStep)
    /\ WF_vars(Command /\ (Refuse \/ Spawn)) /\ WF_vars(Command /\ Timeout)
    /\ WF_vars(Command /\ KillTimer) /\ WF_vars(Command /\ Closed)

-----------------------------------------------------------------------------
(* A run that is over leaves its session at the broker only if the request  *)
(* that created it got no answer, or the one that deletes it failed, which   *)
(* no result survives: a run whose tests are in the trace and that resolves  *)
(* has left nothing behind.                                                 *)
SessionReleased ==
    /\ Ended /\ remote = "open" => abandoned \/ closeFailed
    /\ phase = "resolved" /\ tested => remote = "gone"

(* Each turn that carries results carries those of exactly the calls that    *)
(* the session awaits results of: none is left out, sent twice, or sent      *)
(* after another turn has been answered.                                    *)
ResultsOnce == agent = "sending" => message = owed

(* When the agent's loop is over - the workspace is about to be hashed and    *)
(* exported - no process is left in any command's group, and no timer or     *)
(* listener that would yet send a signal.                                   *)
CommandsOver == phase # "prompting" => exec = "idle" /\ Quiet

(* Liveness: an aborted agent comes to its end, with its session closed, on  *)
(* timers alone, whatever its commands do with SIGTERM - unless a process    *)
(* that left its group holds a command's output for ever.                   *)
AbortEnds == <>[]HeldByEscaped \/ (aborted ~> Ended)

(* What the safety properties rest on: the agent is at work only within      *)
(* session.prompt, and a command only within a tool of the agent;           *)
Course ==
    /\ agent \notin {"none", "over"} => phase = "prompting"
    /\ phase = "preparing" => agent = "none"
    /\ phase = "prompting" => agent # "none"
    /\ phase \in {"closing", "deleting"} => outcome # "none"
    /\ exec # "idle" => agent = "tools" /\ todo # {}

(* what the session awaits is pending, or in the message on its way;        *)
Conversation ==
    /\ agent \in {"none", "starting"} => ~promptSent
    /\ ~promptSent => pending = {} /\ owed = {}
    /\ agent = "streaming" => owed = pending /\ pending \subseteq results
    /\ agent \in {"creating", "sending"} => promptSent /\ owed = message /\ pending = {}
    /\ agent = "tools" => promptSent /\ owed = pending /\ pending \subseteq results \union todo

(* the session is known until it is deleted, or was never known;            *)
Session ==
    /\ agent \in {"none", "starting", "creating"} \/ phase = "deleting" \/ Ended =>
         ~sessionKnown
    /\ agent \in {"sending", "tools"} => sessionKnown
    /\ abandoned => agent = "over" /\ ~sessionKnown
    /\ sessionKnown => remote = "open"
    /\ remote = "open" => sessionKnown \/ abandoned \/ closeFailed \/ phase = "deleting"
    /\ tested => sessionKnown \/ phase \in {"deleting", "rejected"} \/ remote = "gone"

(* and a command has processes and timers only while it runs.               *)
Commands == exec # "running" => Quiet

IInv == TypeOK /\ Course /\ Conversation /\ Session /\ Commands
=============================================================================
