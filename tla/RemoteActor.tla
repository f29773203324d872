----------------------------- MODULE RemoteActor -----------------------------
(***************************************************************************)
(* One remote actor and the path a job takes to it: the job proxy of the   *)
(* relay (#handleJobProxy in packages/model-relay/src/relay-server.ts)     *)
(* posts the job to the actor's server (packages/remote-actor/src/         *)
(* remote-actor-server.ts), whose process ends itself after a job          *)
(* (remote-actor-cli.ts) and is started again by its container's restart   *)
(* policy.  An action is what a handler does between two awaits.           *)
(***************************************************************************)
EXTENDS Naturals, FiniteSets

CONSTANTS
    Jobs,       \* the jobs the trusted client ever posts
    MaxLives    \* bound: processes the container starts

ASSUME JobsAssumption == IsFiniteSet(Jobs)
ASSUME LivesAssumption == MaxLives \in Nat \ {0}

VARIABLES
    relay,        \* the relay's handler of each job, or the status it answered
    activeJobs,   \* the relay's #activeJobs
    stage,        \* where the actor's handler of each job stands
    status,       \* the status the actor's handler has decided on
    running,      \* the actor's #running
    runRoots,     \* jobs whose run-<id> directory is on the actor's volume
    process,      \* the actor's process
    life,         \* number of the process, counted by the container
    startedIn     \* process in which a job got past the busy check, 0 if none

relayVars == <<relay, activeJobs>>
actorVars == <<stage, status, running, runRoots, startedIn>>
processVars == <<process, life>>
vars == <<relayVars, actorVars, processVars>>

(* 200, 422, 429, 400, 500 and 504 are the actor's; 502 and 413 the relay's. *)
ActorStatuses == {"accepted", "not_accepted", "actor_busy", "invalid_run_request",
                  "actor_run_failed", "actor_timeout"}
RelayStatuses == {"refused", "job_proxy_error"}
Ended == ActorStatuses \union RelayStatuses

(* The awaits of #run that hold #running and, but for the last, the run     *)
(* directory: source archive, agent, its grace period after an abort, patch *)
(* export, acceptance test, removal of the run directory.                   *)
Working == {"source", "agent", "stopping", "export", "acceptance", "cleaning"}
Stages == {"none", "arriving", "body"} \union Working \union {"responding", "finished", "lost"}

TypeOK ==
    /\ relay \in [Jobs -> {"idle", "body", "fetching"} \union Ended]
    /\ activeJobs \in Nat
    /\ stage \in [Jobs -> Stages]
    /\ status \in [Jobs -> {"none"} \union ActorStatuses]
    /\ running \in BOOLEAN
    /\ runRoots \subseteq Jobs
    /\ process \in {"up", "exiting", "down"}
    /\ life \in 1..MaxLives
    /\ startedIn \in [Jobs -> 0..MaxLives]

Init ==
    /\ relay = [j \in Jobs |-> "idle"]
    /\ activeJobs = 0
    /\ stage = [j \in Jobs |-> "none"]
    /\ status = [j \in Jobs |-> "none"]
    /\ running = FALSE
    /\ runRoots = {}
    /\ process = "up"
    /\ life = 1
    /\ startedIn = [j \in Jobs |-> 0]

(* Jobs whose connection from relay to actor still stands. *)
connected == {j \in Jobs : relay[j] = "fetching"}

-----------------------------------------------------------------------------
(* The relay's job proxy.                                                   *)

(* Authorised and addressed to a known actor: the body is awaited. *)
AcceptJob(j) ==
    /\ relay[j] = "idle"
    /\ relay' = [relay EXCEPT ![j] = "body"]
    /\ UNCHANGED <<activeJobs, actorVars, processVars>>

(* 401 or 404 at once; 413, or the client hanging up, while reading. *)
RefuseJob(j) ==
    /\ relay[j] \in {"idle", "body"}
    /\ relay' = [relay EXCEPT ![j] = "refused"]
    /\ UNCHANGED <<activeJobs, actorVars, processVars>>

ForwardJob(j) ==
    /\ relay[j] = "body"
    /\ relay' = [relay EXCEPT ![j] = "fetching"]
    /\ activeJobs' = activeJobs + 1
    /\ stage' = [stage EXCEPT ![j] = "arriving"]
    /\ UNCHANGED <<status, running, runRoots, startedIn, processVars>>

(* Bug: counts a job down that is no longer open. *)
EndFetchTwice(j, code) ==
    /\ relay[j] \notin {"idle", "body"}
    /\ relay' = [relay EXCEPT ![j] = code]
    /\ activeJobs' = activeJobs - 1
    /\ UNCHANGED <<actorVars, processVars>>

(* Bug: the count is given back only for an answer of the actor. *)
EndFetchLeaksJob(j, code) ==
    /\ relay[j] = "fetching"
    /\ relay' = [relay EXCEPT ![j] = code]
    /\ activeJobs' = IF code \in ActorStatuses THEN activeJobs - 1 ELSE activeJobs
    /\ UNCHANGED <<actorVars, processVars>>

EndFetch(j, code) ==
    /\ relay[j] = "fetching"
    /\ relay' = [relay EXCEPT ![j] = code]
    /\ activeJobs' = activeJobs - 1
    /\ UNCHANGED <<actorVars, processVars>>

(* The actor's response was written before its process could end. *)
RelayAnswer(j) == stage[j] = "finished" /\ EndFetch(j, status[j])

(* The connection was refused or reset: the process is or went down. *)
FetchFailed(j) ==
    /\ stage[j] = "lost" \/ (stage[j] = "arriving" /\ process = "down")
    /\ EndFetch(j, "job_proxy_error")

(* The proxy's own timer aborts the fetch; the actor is not told why. *)
ProxyTimeout(j) == EndFetch(j, "job_proxy_error")

-----------------------------------------------------------------------------
(* The actor's server.                                                      *)

Live == process # "down"

(* A handler without a job to run answers; a finished one may still answer  *)
(* while the process is about to exit.                                      *)
Respond(j, code) ==
    /\ status' = [status EXCEPT ![j] = code]
    /\ stage' = [stage EXCEPT ![j] = IF j \in connected THEN "responding" ELSE "lost"]

Busy(j) ==
    /\ Live /\ stage[j] = "arriving"
    /\ running
    /\ Respond(j, "actor_busy")
    /\ UNCHANGED <<relayVars, running, runRoots, startedIn, processVars>>

ReadBody(j) ==
    /\ Live /\ stage[j] = "arriving"
    /\ ~running
    /\ stage' = [stage EXCEPT ![j] = "body"]
    /\ UNCHANGED <<relayVars, status, running, runRoots, startedIn, processVars>>

(* Not JSON, too large, not a run request, or cut off. *)
InvalidBody(j) ==
    /\ Live /\ stage[j] = "body"
    /\ Respond(j, "invalid_run_request")
    /\ UNCHANGED <<relayVars, running, runRoots, startedIn, processVars>>

StartRun(j) ==
    /\ Live /\ stage[j] = "body"
    /\ running' = TRUE
    /\ startedIn' = [startedIn EXCEPT ![j] = life]
    /\ runRoots' = runRoots \union {j}
    /\ stage' = [stage EXCEPT ![j] = "source"]
    /\ UNCHANGED <<relayVars, status, processVars>>

(* An await of #run ends and the next begins ...                            *)
Advance(j, from, to) ==
    /\ Live /\ stage[j] = from
    /\ stage' = [stage EXCEPT ![j] = to]
    /\ UNCHANGED <<relayVars, status, running, runRoots, startedIn, processVars>>

(* ... or #run is left for its finally block.                               *)
Leave(j, code) ==
    /\ Live
    /\ stage' = [stage EXCEPT ![j] = "cleaning"]
    /\ status' = [status EXCEPT ![j] = code]
    /\ UNCHANGED <<relayVars, running, runRoots, startedIn, processVars>>

Materialize(j) == Advance(j, "source", "agent")

(* Bug: the timer is cleared once the agent answers for the first time. *)
RunTimeoutNever(j) == startedIn[j] = 0 /\ Advance(j, "agent", "stopping")

(* The actor's own timer of runTimeoutMs aborts the agent. *)
RunTimeout(j) == Advance(j, "agent", "stopping")

(* The trace holds a successful workspace_test. *)
AgentTested(j) == Advance(j, "agent", "export")

(* The patch names the files the agent reported, and replays cleanly. *)
ReplayPatch(j) == Advance(j, "export", "acceptance")

(* The test passed, and left the patch as it was. *)
Accept(j) == stage[j] = "acceptance" /\ Leave(j, "accepted")

(* No successful test in the trace, other files, a failing test, or a patch *)
(* the test changed.                                                        *)
NotAccepted(j) ==
    stage[j] \in {"agent", "export", "acceptance"} /\ Leave(j, "not_accepted")

(* Anything else thrown on the way. *)
RunFailed(j) ==
    stage[j] \in {"source", "agent", "export", "acceptance"} /\ Leave(j, "actor_run_failed")

(* The agent ended within the grace period, whatever its outcome. *)
StoppedInTime(j) == stage[j] = "stopping" /\ Leave(j, "actor_timeout")

(* Bug: the flag stays up after a run that was not accepted. *)
CleanUpStaysBusy(j) ==
    /\ Live /\ stage[j] = "cleaning"
    /\ runRoots' = runRoots \ {j}
    /\ running' = (status[j] # "accepted")
    /\ Respond(j, status[j])
    /\ UNCHANGED <<relayVars, startedIn, processVars>>

(* Bug: the run directory is kept. *)
CleanUpKeepsRoot(j) ==
    /\ Live /\ stage[j] = "cleaning"
    /\ running' = FALSE
    /\ Respond(j, status[j])
    /\ UNCHANGED <<relayVars, runRoots, startedIn, processVars>>

(* The finally blocks of #run and #handle, and the response. *)
CleanUp(j) ==
    /\ Live /\ stage[j] = "cleaning"
    /\ runRoots' = runRoots \ {j}
    /\ running' = FALSE
    /\ Respond(j, status[j])
    /\ UNCHANGED <<relayVars, startedIn, processVars>>

(* Removal fails, for instance because something the agent left behind      *)
(* still writes there: the error replaces the outcome.                      *)
CleanUpFailed(j) ==
    /\ Live /\ stage[j] = "cleaning"
    /\ running' = FALSE
    /\ Respond(j, "actor_run_failed")
    /\ UNCHANGED <<relayVars, runRoots, startedIn, processVars>>

-----------------------------------------------------------------------------
(* The actor's process.                                                     *)

(* Bug: only an accepted job ends the process. *)
FinishExitsOnSuccess(j) ==
    /\ Live /\ stage[j] = "responding"
    /\ IF j \in connected
       THEN /\ stage' = [stage EXCEPT ![j] = "finished"]
            /\ process' = IF status[j] = "accepted" THEN "exiting" ELSE process
       ELSE /\ stage' = [stage EXCEPT ![j] = "lost"]
            /\ UNCHANGED process
    /\ UNCHANGED <<relayVars, status, running, runRoots, startedIn, life>>

(* The response is flushed: "finish".  Only a job that ran has onJobFinished *)
(* listening, which exits on the next turn of the event loop.               *)
Finish(j) ==
    /\ Live /\ stage[j] = "responding"
    /\ IF j \in connected
       THEN /\ stage' = [stage EXCEPT ![j] = "finished"]
            /\ process' = IF startedIn[j] # 0 THEN "exiting" ELSE process
       ELSE /\ stage' = [stage EXCEPT ![j] = "lost"]
            /\ UNCHANGED process
    /\ UNCHANGED <<relayVars, status, running, runRoots, startedIn, life>>

(* Handlers of a process that ends are gone with it; the volume stays. *)
Die ==
    /\ process' = "down"
    /\ running' = FALSE
    /\ stage' = [j \in Jobs |->
                   IF stage[j] \in {"none", "arriving", "finished"} THEN stage[j] ELSE "lost"]
    /\ UNCHANGED <<relayVars, status, runRoots, startedIn, life>>

Exit == process = "exiting" /\ Die

(* onUnresponsiveRun: the grace period passed, exit 124. *)
ExitUnresponsive(j) == Live /\ stage[j] = "stopping" /\ Die

(* The pod's node kills the container. *)
Crash == process = "up" /\ life < MaxLives /\ Die

Restart ==
    /\ process = "down"
    /\ life < MaxLives
    /\ process' = "up"
    /\ life' = life + 1
    /\ UNCHANGED <<relayVars, actorVars>>

-----------------------------------------------------------------------------
RelayStep(j) ==
    \/ AcceptJob(j) \/ RefuseJob(j) \/ ForwardJob(j)
    \/ RelayAnswer(j) \/ FetchFailed(j) \/ ProxyTimeout(j)

RunStep(j) ==
    \/ Materialize(j) \/ RunTimeout(j) \/ AgentTested(j) \/ ReplayPatch(j)
    \/ Accept(j) \/ NotAccepted(j) \/ RunFailed(j) \/ StoppedInTime(j)
    \/ CleanUp(j) \/ CleanUpFailed(j) \/ ExitUnresponsive(j)

ActorStep(j) ==
    \/ Busy(j) \/ ReadBody(j) \/ InvalidBody(j) \/ StartRun(j)
    \/ RunStep(j) \/ Finish(j)

Next ==
    \/ \E j \in Jobs : RelayStep(j) \/ ActorStep(j)
    \/ Exit \/ Crash \/ Restart

Spec == Init /\ [][Next]_vars

(* Timers fire: the proxy's, the actor's run timeout and its grace period.  *)
(* Files and git come to an end, and so does a process that exits or is to  *)
(* be restarted.  The agent need not ever end; nor need the acceptance test, *)
(* whose end waits for every process that holds its output.                 *)
LocalWork(j) ==
    \/ /\ stage[j] \in {"source", "export"}
       /\ Materialize(j) \/ ReplayPatch(j) \/ NotAccepted(j) \/ RunFailed(j)
    \/ CleanUp(j) \/ CleanUpFailed(j)

FairSpec ==
    /\ Spec
    /\ \A j \in Jobs :
         /\ WF_vars(ProxyTimeout(j)) /\ WF_vars(RunTimeout(j)) /\ WF_vars(ExitUnresponsive(j))
         /\ WF_vars(LocalWork(j)) /\ WF_vars(Finish(j))
    /\ WF_vars(Exit) /\ WF_vars(Restart)

-----------------------------------------------------------------------------
(* Safety.                                                                  *)

(* The relay's activeJobs, which the orchestrator reads from /healthz to    *)
(* know its actors are at work, counts the fetches that are really open.    *)
JobsCounted == activeJobs = Cardinality(connected)

(* An actor never turns jobs away for a job that is not there: while it     *)
(* calls itself busy, a job of this very process still runs.                *)
BusyIsReal == running => Live /\ \E j \in Jobs : stage[j] \in Working /\ startedIn[j] = life

(* A patch is only handed out after the directory of its run is gone.       *)
CleanBeforeAccepted == \A j \in Jobs : relay[j] = "accepted" => j \notin runRoots

(* A run directory outlives its job only if the process died under it or    *)
(* its removal failed; the next process then starts beside it.              *)
RunRootsOwned ==
    \A j \in runRoots :
        \/ stage[j] \in Working /\ startedIn[j] = life /\ Live
        \/ stage[j] = "lost"
        \/ status[j] = "actor_run_failed"

(* Once a job's response has been delivered, whatever its status, its       *)
(* process takes no further turn than the one that exits.                   *)
DeliveryEndsProcess ==
    \A j \in Jobs : stage[j] = "finished" /\ startedIn[j] = life => process # "up"

(* The inductive invariant behind these: how far a job is at the relay and  *)
(* at the actor, and which process it belongs to.                           *)
Placed(j) ==
    /\ stage[j] = "none" <=> relay[j] \in {"idle", "body", "refused"}
    /\ stage[j] \in {"none", "arriving", "body"} => startedIn[j] = 0 /\ j \notin runRoots
    /\ stage[j] \in Working => Live /\ startedIn[j] = life
    /\ stage[j] \in {"body", "responding"} => Live /\ startedIn[j] \in {0, life}
    /\ startedIn[j] <= life

Decided(j) ==
    /\ stage[j] \in {"cleaning", "responding", "finished"} => status[j] # "none"
    /\ relay[j] = "accepted" => stage[j] = "finished" /\ status[j] = "accepted"
    /\ stage[j] \in {"responding", "finished"} /\ status[j] = "accepted" => j \notin runRoots

IInv ==
    /\ TypeOK /\ JobsCounted /\ BusyIsReal /\ RunRootsOwned /\ DeliveryEndsProcess
    /\ \A j \in Jobs : Placed(j) /\ Decided(j)

(* As documented: an actor's process serves one job.                        *)
OneJobPerProcess ==
    \A i, j \in Jobs : startedIn[i] = startedIn[j] /\ startedIn[i] # 0 => i = j

(* Liveness: a job that has started stops holding the actor or comes to its *)
(* acceptance test, even if its agent neither ends nor reacts to its abort. *)
WorkEnds ==
    \A j \in Jobs : stage[j] \in Working ~> stage[j] \notin Working \ {"acceptance"}
=============================================================================
