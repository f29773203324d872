------------------------------ MODULE ActorTask ------------------------------
(***************************************************************************)
(* The task an orchestration gives to one actor.  finishAcceptedActorTask  *)
(* of scripts/smoke-multi-actor.ts (script "two") and runAcceptedActorTask *)
(* of scripts/smoke-remote-actor.ts (script "one") repeat a job that did   *)
(* not pass the test gate; waitForActorRestart, the same in both, is to    *)
(* make sure that the next attempt meets a new process.  Relay and actor   *)
(* are RemoteActor's; the n-th attempt is job n.                           *)
(***************************************************************************)
EXTENDS Naturals

CONSTANTS
    MaxAttempts,       \* maxActorAttempts of the script for two actors
    OneActorAttempts,  \* attempts of the script for one actor, not more
    MaxLives           \* bound: processes the container starts

ASSUME AttemptsAssumption ==
    MaxAttempts \in Nat \ {0} /\ OneActorAttempts \in 1..MaxAttempts
ASSUME LivesAssumption == MaxLives \in Nat \ {0}

VARIABLES
    relay, activeJobs, stage, status, running, runRoots, process, life, startedIn,
    script,    \* which script runs the task
    client,    \* where the task stands
    attempt,   \* number of the current attempt
    reported,  \* what the cluster says of the actor's container
    looked     \* restart count read before each attempt

Attempts == 1..MaxAttempts

(* How many of them the script makes.                                       *)
Limit == IF script = "one" THEN OneActorAttempts ELSE MaxAttempts

Actor == INSTANCE RemoteActor WITH Jobs <- Attempts

jobVars == <<relay, activeJobs, stage, status, running, runRoots, process, life, startedIn>>
clientVars == <<script, client, attempt, reported, looked>>
vars == <<jobVars, clientVars>>

Clients == {"observing", "posting", "posted", "restarting", "accepted", "failed"}

TypeOK ==
    /\ Actor!TypeOK
    /\ script \in {"one", "two"}
    /\ client \in Clients
    /\ attempt \in 1..Limit
    /\ reported \in [life : 1..MaxLives, ready : BOOLEAN]
    /\ looked \in [Attempts -> 0..MaxLives]

Init ==
    /\ Actor!Init
    /\ script \in {"one", "two"}
    /\ client = "observing"
    /\ attempt = 1
    /\ reported = [life |-> 1, ready |-> TRUE]
    /\ looked = [n \in Attempts |-> 0]

-----------------------------------------------------------------------------
(* The cluster's account of the container follows what happens to it, late. *)
Report ==
    /\ reported' = [life |-> life, ready |-> process # "down"]
    /\ UNCHANGED <<jobVars, script, client, attempt, looked>>

(* actorContainerState, before the attempt.  Its readiness is not looked at. *)
Observe ==
    /\ client = "observing"
    /\ looked' = [looked EXCEPT ![attempt] = reported.life]
    /\ client' = "posting"
    /\ UNCHANGED <<jobVars, script, attempt, reported>>

(* requestActorOnce *)
Post ==
    /\ client = "posting"
    /\ Actor!AcceptJob(attempt) \/ Actor!RefuseJob(attempt)
    /\ client' = "posted"
    /\ UNCHANGED <<script, attempt, reported, looked>>

(* Bug: whatever went wrong, the job is posted again. *)
RetryableIfFailed(answer) == answer # "accepted"

(* assertRetryable, and the same test in the script for one actor. *)
Retryable(answer) == answer = "not_accepted"

(* The script for one actor looks at the answer before it waits. *)
Answered ==
    /\ client = "posted"
    /\ relay[attempt] \in Actor!Ended
    /\ script = "one" => relay[attempt] = "accepted" \/ Retryable(relay[attempt])
    /\ client' = "restarting"
    /\ UNCHANGED <<jobVars, script, attempt, reported, looked>>

(* ... and throws on any other, which leaves the actor as it is. *)
ThrowAtOnce ==
    /\ script = "one"
    /\ client = "posted"
    /\ relay[attempt] \in Actor!Ended
    /\ relay[attempt] # "accepted" /\ ~Retryable(relay[attempt])
    /\ client' = "failed"
    /\ UNCHANGED <<jobVars, script, attempt, reported, looked>>

(* Bug: a container that is ready is taken to have been restarted. *)
RestartedIfReady == reported.ready

(* waitForActorRestart, whatever the answer was. *)
Restarted == reported.ready /\ reported.life > looked[attempt]

Accept ==
    /\ client = "restarting" /\ Restarted
    /\ relay[attempt] = "accepted"
    /\ client' = "accepted"
    /\ UNCHANGED <<jobVars, script, attempt, reported, looked>>

(* Bug: one attempt too many. *)
RetryOnceMore ==
    /\ client = "restarting" /\ Restarted
    /\ Retryable(relay[attempt])
    /\ attempt <= Limit
    /\ attempt' = attempt + 1
    /\ client' = "observing"
    /\ UNCHANGED <<jobVars, script, reported, looked>>

Retry ==
    /\ client = "restarting" /\ Restarted
    /\ Retryable(relay[attempt])
    /\ attempt < Limit
    /\ attempt' = attempt + 1
    /\ client' = "observing"
    /\ UNCHANGED <<jobVars, script, reported, looked>>

(* Another answer, or no attempt left. *)
GiveUp ==
    /\ client = "restarting" /\ Restarted
    /\ relay[attempt] # "accepted"
    /\ Retryable(relay[attempt]) => attempt = Limit
    /\ client' = "failed"
    /\ UNCHANGED <<jobVars, script, attempt, reported, looked>>

(* The client's timers, a failing command, or the failure of another actor. *)
Timeout ==
    /\ client \notin {"accepted", "failed"}
    /\ client' = "failed"
    /\ UNCHANGED <<jobVars, script, attempt, reported, looked>>

-----------------------------------------------------------------------------
ClientStep == Observe \/ Post \/ Answered \/ ThrowAtOnce \/ Accept \/ Retry \/ GiveUp \/ Timeout

(* What relay and actor do with a job that has been posted. *)
JobStep ==
    /\ \E n \in Attempts :
         /\ relay[n] # "idle"
         /\ Actor!RelayStep(n) \/ Actor!ActorStep(n)
    /\ UNCHANGED clientVars

ProcessStep == (Actor!Exit \/ Actor!Crash \/ Actor!Restart) /\ UNCHANGED clientVars

Next == ClientStep \/ Report \/ JobStep \/ ProcessStep

Spec == Init /\ [][Next]_vars

-----------------------------------------------------------------------------
(* No two attempts are ever at work at once, not even after an answer that  *)
(* says nothing of the actor (a timeout of the relay), a container that is  *)
(* killed or a late report of its state.                                    *)
OneAttemptAtWork ==
    \A m, n \in Attempts :
        stage[m] \in Actor!Working /\ stage[n] \in Actor!Working => m = n

(* No later attempt starts in the process of an attempt that ran in the very *)
(* process that was looked at before it: waiting for a restart gives the     *)
(* task what the actor's server does not promise by itself.                  *)
FreshProcess ==
    \A m, n \in Attempts :
        /\ n < m
        /\ startedIn[n] # 0 /\ startedIn[n] = looked[n]
        => startedIn[m] # startedIn[n]

(* A task that accepts a result leaves nothing of any attempt at work, and  *)
(* every attempt before the accepted one was turned down by the test gate.  *)
AcceptedAfterRejections ==
    client = "accepted" =>
        /\ \A n \in Attempts : stage[n] \notin Actor!Working
        /\ \A n \in 1..(attempt - 1) :
             relay[n] = "not_accepted" /\ status[n] = "not_accepted"

(* The inductive invariant behind these: attempts follow one another, an     *)
(* answer of the actor means its handler has finished, and the process moves *)
(* on between attempts.                                                      *)
Sequential ==
    /\ \A n \in Attempts :
         /\ n < attempt => relay[n] = "not_accepted"
         /\ n > attempt => relay[n] = "idle"
    /\ client \in {"observing", "posting"} => relay[attempt] = "idle"
    /\ client = "accepted" => relay[attempt] = "accepted"

Answers ==
    \A n \in Attempts :
        /\ relay[n] \in {"idle", "body"} => stage[n] = "none" /\ startedIn[n] = 0
        /\ relay[n] \in {"accepted", "not_accepted"} =>
             stage[n] = "finished" /\ status[n] = relay[n]

Processes ==
    /\ reported.life <= life
    /\ \A n \in Attempts : n < attempt => looked[n] < life
    /\ \A m, n \in Attempts : n < m /\ startedIn[m] # 0 => looked[n] < startedIn[m]
=============================================================================
