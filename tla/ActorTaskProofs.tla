--------------------------- MODULE ActorTaskProofs ---------------------------
(* Theorems of ActorTask. *)
EXTENDS ActorTask, FiniteSetTheorems, TLAPS

(* The types of what the proofs use. *)
Relays == {"none", "idle", "body", "fetching"} \union Actor!Ended

JobTypes ==
    /\ relay \in [Attempts -> Relays]
    /\ stage \in [Attempts -> Actor!Stages]
    /\ status \in [Attempts -> {"none"} \union Actor!ActorStatuses]
    /\ startedIn \in [Attempts -> Nat]
    /\ life \in Nat \ {0}

ClientTypes ==
    /\ client \in Clients
    /\ attempt \in Attempts
    /\ reported \in [life : Nat, ready : BOOLEAN]
    /\ looked \in [Attempts -> Nat]

(* The invariant the theorems rest on. *)
Inv == JobTypes /\ ClientTypes /\ Sequential /\ Answers /\ Processes

(* What a step of relay or actor can do to a job: it answers only a job that *)
(* is open, with the actor's word only if the actor's handler has finished,  *)
(* and a handler that has finished does nothing more.                        *)
JobKept(m) ==
    /\ relay'[m] # relay[m] => relay[m] \in {"body", "fetching"} /\ relay'[m] \notin {"idle", "body"}
    /\ relay'[m] # relay[m] /\ relay'[m] \in {"accepted", "not_accepted"} =>
         stage[m] = "finished" /\ status[m] = relay'[m]
    /\ stage[m] = "finished" => stage'[m] = "finished" /\ status'[m] = status[m]
    /\ stage[m] = "none" /\ relay'[m] = relay[m] => stage'[m] = "none"
    /\ startedIn'[m] # startedIn[m] => stage[m] # "none" /\ startedIn'[m] = life

JobsKept == JobTypes' /\ life' >= life /\ \A m \in Attempts : JobKept(m)

(* A step of the relay's handler of a posted job. *)
LEMMA RelayEffect ==
    ASSUME JobTypes, Answers, NEW n \in Attempts, relay[n] # "idle", Actor!RelayStep(n)
    PROVE  JobsKept
<1> USE DEF JobsKept, JobTypes, Relays, Actor!Ended, Actor!ActorStatuses, Actor!RelayStatuses,
            Actor!Stages, Actor!Working, Actor!actorVars, Actor!processVars, Actor!relayVars
<1>1. CASE Actor!AcceptJob(n)
  BY <1>1 DEF Actor!AcceptJob
<1>2. CASE Actor!RefuseJob(n)
  <2>1. relay[n] = "body" /\ relay' = [relay EXCEPT ![n] = "refused"]
        /\ UNCHANGED <<stage, status, startedIn, life>>
    BY <1>2 DEF Actor!RefuseJob
  <2> QED BY <2>1 DEF JobKept
<1>3. CASE Actor!ForwardJob(n)
  <2>1. relay[n] = "body" /\ relay' = [relay EXCEPT ![n] = "fetching"]
        /\ stage' = [stage EXCEPT ![n] = "arriving"] /\ stage[n] = "none"
        /\ UNCHANGED <<status, startedIn, life>>
    BY <1>3 DEF Actor!ForwardJob, Answers
  <2> QED BY <2>1 DEF JobKept
<1>4. CASE Actor!RelayAnswer(n)
  <2>1. stage[n] = "finished" /\ relay[n] = "fetching" /\ relay' = [relay EXCEPT ![n] = status[n]]
        /\ UNCHANGED <<stage, status, startedIn, life>>
    BY <1>4 DEF Actor!RelayAnswer, Actor!EndFetch
  <2> QED BY <2>1 DEF JobKept
<1>5. CASE Actor!FetchFailed(n) \/ Actor!ProxyTimeout(n)
  <2>1. relay[n] = "fetching" /\ relay' = [relay EXCEPT ![n] = "job_proxy_error"]
        /\ UNCHANGED <<stage, status, startedIn, life>>
    BY <1>5 DEF Actor!FetchFailed, Actor!ProxyTimeout, Actor!EndFetch
  <2> QED BY <2>1 DEF JobKept
<1> QED BY <1>1, <1>2, <1>3, <1>4, <1>5 DEF Actor!RelayStep

(* A step of the actor's handler. *)
LEMMA ActorEffect ==
    ASSUME JobTypes, NEW n \in Attempts, Actor!ActorStep(n)
    PROVE  JobsKept
<1> USE DEF JobsKept, JobTypes, Actor!ActorStatuses, Actor!Stages, Actor!Working,
            Actor!actorVars, Actor!processVars, Actor!relayVars, JobKept
<1>1. ASSUME NEW code \in Actor!ActorStatuses, Actor!Respond(n, code), stage[n] \notin {"none", "finished"},
             UNCHANGED <<relay, startedIn, life>>
      PROVE  JobsKept
  <2>1. stage'[n] \in {"responding", "lost"} /\ stage' = [stage EXCEPT ![n] = stage'[n]]
        /\ status' = [status EXCEPT ![n] = code]
    BY <1>1 DEF Actor!Respond
  <2> QED BY <1>1, <2>1
<1>2. CASE Actor!Busy(n) \/ Actor!InvalidBody(n)
  BY <1>1, <1>2 DEF Actor!Busy, Actor!InvalidBody
<1>3. CASE Actor!ReadBody(n)
  BY <1>3 DEF Actor!ReadBody
<1>4. CASE Actor!StartRun(n)
  BY <1>4 DEF Actor!StartRun
<1>5. ASSUME NEW from \in Actor!Stages \ {"none", "finished"}, NEW to \in Actor!Stages,
             Actor!Advance(n, from, to)
      PROVE  JobsKept
  BY <1>5 DEF Actor!Advance
<1>6. CASE Actor!Materialize(n) \/ Actor!RunTimeout(n) \/ Actor!AgentTested(n) \/ Actor!ReplayPatch(n)
  BY <1>5, <1>6 DEF Actor!Materialize, Actor!RunTimeout, Actor!AgentTested, Actor!ReplayPatch
<1>7. ASSUME NEW code \in Actor!ActorStatuses, Actor!Leave(n, code), stage[n] \notin {"none", "finished"}
      PROVE  JobsKept
  BY <1>7 DEF Actor!Leave
<1>8. CASE Actor!Accept(n) \/ Actor!NotAccepted(n) \/ Actor!RunFailed(n) \/ Actor!StoppedInTime(n)
  BY <1>7, <1>8 DEF Actor!Accept, Actor!NotAccepted, Actor!RunFailed, Actor!StoppedInTime
<1>9. CASE Actor!CleanUp(n)
  <2>1. stage[n] = "cleaning" /\ Actor!Respond(n, status[n]) /\ UNCHANGED <<relay, startedIn, life>>
    BY <1>9 DEF Actor!CleanUp
  <2>2. stage'[n] \in {"responding", "lost"} /\ stage' = [stage EXCEPT ![n] = stage'[n]]
        /\ status' = status
    BY <2>1 DEF Actor!Respond
  <2> QED BY <2>1, <2>2
<1>10. CASE Actor!CleanUpFailed(n)
  BY <1>1, <1>10 DEF Actor!CleanUpFailed
<1>11. ASSUME Actor!Die PROVE JobsKept
  BY <1>11 DEF Actor!Die
<1>12. CASE Actor!ExitUnresponsive(n)
  BY <1>11, <1>12 DEF Actor!ExitUnresponsive
<1>13. CASE Actor!Finish(n)
  <2>1. stage[n] = "responding" /\ stage'[n] \in {"finished", "lost"}
        /\ stage' = [stage EXCEPT ![n] = stage'[n]]
        /\ UNCHANGED <<relay, status, startedIn, life>>
    BY <1>13 DEF Actor!Finish
  <2> QED BY <2>1
<1> QED BY <1>2, <1>3, <1>4, <1>6, <1>8, <1>9, <1>10, <1>12, <1>13 DEF Actor!ActorStep, Actor!RunStep

(* The actor's process exits, is killed or starts again. *)
LEMMA ProcessEffect ==
    ASSUME JobTypes, Actor!Exit \/ Actor!Crash \/ Actor!Restart
    PROVE  JobsKept
<1> USE DEF JobsKept, JobTypes, Actor!Stages, Actor!Working, Actor!actorVars, Actor!relayVars, JobKept
<1>1. ASSUME Actor!Die PROVE JobsKept
  BY <1>1 DEF Actor!Die
<1>2. CASE Actor!Exit \/ Actor!Crash
  BY <1>1, <1>2 DEF Actor!Exit, Actor!Crash
<1>3. CASE Actor!Restart
  BY <1>3 DEF Actor!Restart
<1> QED BY <1>2, <1>3

(* Whatever relay, actor and process do, the task keeps the invariant. *)
LEMMA KeptByJobs ==
    ASSUME Inv, JobsKept, UNCHANGED clientVars
    PROVE  Inv'
<1> USE DEF Inv, clientVars
<1>1. JobTypes' /\ ClientTypes'
  BY DEF JobsKept, ClientTypes
<1>2. \A n \in Attempts :
        relay[n] \in {"idle", "not_accepted", "accepted"} => relay'[n] = relay[n]
  BY DEF JobsKept, JobKept
<1>3. Sequential'
  BY <1>2 DEF Sequential, ClientTypes
<1>4. Answers'
  BY DEF Answers, JobsKept, JobKept
<1>5. Processes'
  <2>1. \A n \in Attempts : n < attempt => looked[n] < life'
    <3> TAKE n \in Attempts
    <3>1. n < attempt => looked[n] < life
      BY DEF Processes
    <3>2. looked[n] \in Nat /\ life \in Nat /\ life' \in Nat /\ life' >= life
      BY <1>1 DEF JobTypes, ClientTypes, JobsKept
    <3> QED BY <3>1, <3>2
  <2>2. reported.life <= life'
    BY <1>1 DEF Processes, JobTypes, ClientTypes, JobsKept
  <2>3. ASSUME NEW m \in Attempts, NEW n \in Attempts, n < m, startedIn'[m] # 0
        PROVE  looked[n] < startedIn'[m]
    <3>1. CASE startedIn'[m] = startedIn[m]
      BY <2>3, <3>1 DEF Processes
    <3>2. CASE startedIn'[m] # startedIn[m]
      <4>1. stage[m] # "none" /\ startedIn'[m] = life
        BY <3>2 DEF JobsKept, JobKept
      <4>2. ~(m > attempt)
        BY <4>1 DEF Answers, Sequential
      <4>3. n < attempt
        BY <4>2, <2>3 DEF ClientTypes, Attempts
      <4> QED BY <4>1, <4>3 DEF Processes
    <3> QED BY <3>1, <3>2
  <2> QED BY <2>1, <2>2, <2>3 DEF Processes
<1> QED BY <1>1, <1>3, <1>4, <1>5

(* The first attempt has not been posted at the start. *)
LEMMA InitInv == Init => Inv
<1> SUFFICES ASSUME Init PROVE Inv
  OBVIOUS
<1> USE DEF Init, Actor!Init
<1>1. 1 \in Attempts
  BY AttemptsAssumption DEF Attempts
<1>2. JobTypes
  BY DEF JobTypes, Relays, Actor!Stages
<1>3. ClientTypes
  BY <1>1 DEF ClientTypes, Clients
<1>4. Sequential
  BY <1>1 DEF Sequential, Attempts
<1>5. Answers
  BY DEF Answers
<1>6. Processes
  BY DEF Processes, Attempts
<1> QED BY <1>2, <1>3, <1>4, <1>5, <1>6 DEF Inv

(* A task that looks at its actor, waits, accepts or gives up leaves the    *)
(* jobs alone, and keeps to its own order of steps.                         *)
LEMMA KeptByClient ==
    ASSUME Inv, ClientStep
    PROVE  Inv'
<1> USE DEF Inv
<1>1. CASE Observe
  <2> USE <1>1 DEF Observe, jobVars
  <2>1. JobTypes' /\ Answers'
    BY DEF JobTypes, Answers
  <2>2. ClientTypes'
    BY DEF ClientTypes, Clients
  <2>3. Sequential'
    BY DEF Sequential
  <2>4. Processes'
    <3>1. \A n \in Attempts : n # attempt => looked'[n] = looked[n]
      BY DEF ClientTypes
    <3>2. \A m \in Attempts : attempt < m => startedIn[m] = 0
      BY DEF Sequential, Answers, ClientTypes, Attempts
    <3>3. \A n \in Attempts : n < attempt => looked'[n] < life
      BY <3>1 DEF Processes, ClientTypes, Attempts
    <3>4. ASSUME NEW m \in Attempts, NEW n \in Attempts, n < m, startedIn[m] # 0
          PROVE  looked'[n] < startedIn[m]
      BY <3>1, <3>2, <3>4 DEF Processes
    <3> QED BY <3>3, <3>4 DEF Processes
  <2> QED BY <2>1, <2>2, <2>3, <2>4
<1>2. CASE Post
  <2>1. PICK answer \in {"body", "refused"} : relay' = [relay EXCEPT ![attempt] = answer]
        /\ UNCHANGED <<stage, status, startedIn, life>> /\ client' = "posted"
        /\ UNCHANGED <<attempt, reported, looked>> /\ relay[attempt] = "idle"
    BY <1>2 DEF Post, Sequential, Actor!AcceptJob, Actor!RefuseJob, Actor!actorVars, Actor!processVars
  <2> USE <2>1
  <2>2. JobTypes' /\ ClientTypes'
    BY DEF JobTypes, ClientTypes, Clients, Relays, Actor!Ended, Actor!RelayStatuses
  <2>3. attempt \in Attempts /\ \A n \in Attempts : n # attempt => relay'[n] = relay[n]
    BY DEF JobTypes, ClientTypes
  <2>4. Sequential'
    BY <2>3 DEF Sequential, Attempts
  <2>5. relay'[attempt] = answer
    BY <2>3 DEF JobTypes
  <2>6. Answers'
    BY <2>3, <2>5 DEF Answers
  <2>7. Processes'
    BY DEF Processes
  <2> QED BY <2>2, <2>4, <2>6, <2>7
<1>3. CASE Answered \/ ThrowAtOnce \/ Accept \/ GiveUp \/ Timeout
  <2>1. UNCHANGED jobVars /\ UNCHANGED <<attempt, reported, looked>>
        /\ client' \in {"restarting", "accepted", "failed"}
        /\ (client' = "accepted" => relay[attempt] = "accepted")
    BY <1>3 DEF Answered, ThrowAtOnce, Accept, GiveUp, Timeout
  <2> USE <2>1 DEF jobVars
  <2>2. JobTypes' /\ Answers' /\ Processes'
    BY DEF JobTypes, Answers, Processes
  <2>3. ClientTypes' /\ Sequential'
    BY DEF ClientTypes, Clients, Sequential
  <2> QED BY <2>2, <2>3
<1>4. CASE Retry
  <2> USE <1>4 DEF Retry, jobVars
  <2>1. attempt' = attempt + 1 /\ attempt + 1 \in Attempts /\ attempt \in Attempts
        /\ relay[attempt] = "not_accepted" /\ looked[attempt] < reported.life
    BY AttemptsAssumption DEF ClientTypes, Attempts, Limit, Restarted, Retryable
  <2>2. JobTypes' /\ Answers'
    BY DEF JobTypes, Answers
  <2>3. ClientTypes'
    BY <2>1 DEF ClientTypes, Clients
  <2>4. Sequential'
    BY <2>1 DEF Sequential, Attempts
  <2>5. \A n \in Attempts : n < attempt + 1 => n < attempt \/ n = attempt
    BY <2>1 DEF Attempts
  <2>6. looked[attempt] < life
    BY <2>1 DEF Processes, ClientTypes, JobTypes
  <2>7. Processes'
    BY <2>1, <2>5, <2>6 DEF Processes
  <2> QED BY <2>2, <2>3, <2>4, <2>7
<1> QED BY <1>1, <1>2, <1>3, <1>4 DEF ClientStep

(* Every step keeps the invariant. *)
LEMMA NextInv == Inv /\ [Next]_vars => Inv'
<1> SUFFICES ASSUME Inv, [Next]_vars PROVE Inv'
  OBVIOUS
<1>1. CASE ClientStep
  BY <1>1, KeptByClient
<1>2. CASE Report
  <2> USE <1>2 DEF Report, jobVars, Inv
  <2>1. reported'.life = life /\ reported' \in [life : Nat, ready : BOOLEAN]
    BY DEF JobTypes
  <2>2. JobTypes' /\ Answers' /\ Sequential'
    BY DEF JobTypes, Answers, Sequential
  <2>3. ClientTypes' /\ Processes'
    BY <2>1 DEF ClientTypes, Processes, JobTypes
  <2> QED BY <2>2, <2>3
<1>3. CASE JobStep
  <2>1. PICK n \in Attempts : relay[n] # "idle" /\ (Actor!RelayStep(n) \/ Actor!ActorStep(n))
    BY <1>3 DEF JobStep
  <2>2. JobsKept
    BY <2>1, RelayEffect, ActorEffect DEF Inv
  <2> QED BY <2>2, <1>3, KeptByJobs DEF JobStep
<1>4. CASE ProcessStep
  BY <1>4, ProcessEffect, KeptByJobs DEF ProcessStep, Inv
<1>5. CASE UNCHANGED vars
  BY <1>5 DEF vars, jobVars, clientVars, Inv, JobTypes, ClientTypes, Sequential, Answers, Processes
<1> QED BY <1>1, <1>2, <1>3, <1>4, <1>5 DEF Next

(* The task's invariant, for any number of attempts and of processes. *)
THEOREM Invariance == Spec => []Inv
BY InitInv, NextInv, PTL DEF Spec

(* No two attempts are at work at once: assertRetryable posts a job again   *)
(* only after an answer of the actor itself, which its handler sends last.  *)
THEOREM AttemptsInTurn == Spec => []OneAttemptAtWork
<1>1. Inv => OneAttemptAtWork
  <2> SUFFICES ASSUME Inv, NEW m \in Attempts, stage[m] \in Actor!Working PROVE m = attempt
    BY DEF OneAttemptAtWork
  <2>1. stage[m] \notin {"none", "finished"}
    BY DEF Actor!Working
  <2>2. relay[m] \notin {"idle", "not_accepted"}
    BY <2>1 DEF Inv, Answers
  <2> QED BY <2>2 DEF Inv, Sequential, ClientTypes, Attempts
<1> QED BY <1>1, Invariance, PTL

(* waitForActorRestart gives the next attempt a process the last attempt    *)
(* did not start in, if it was the process looked at.                       *)
THEOREM ProcessesFresh == Spec => []FreshProcess
<1>1. Inv => FreshProcess
  <2> SUFFICES ASSUME Inv, NEW m \in Attempts, NEW n \in Attempts, n < m,
                      startedIn[n] # 0, startedIn[n] = looked[n], startedIn[m] = startedIn[n]
               PROVE  FALSE
    BY DEF FreshProcess
  <2>1. looked[n] < startedIn[m]
    BY DEF Inv, Processes
  <2> QED BY <2>1 DEF Inv, JobTypes, ClientTypes
<1> QED BY <1>1, Invariance, PTL

(* A result is accepted with no attempt left at work, after rejections only. *)
THEOREM AcceptedCleanly == Spec => []AcceptedAfterRejections
<1>1. Inv => AcceptedAfterRejections
  <2> SUFFICES ASSUME Inv, client = "accepted" PROVE AcceptedAfterRejections
    BY DEF AcceptedAfterRejections
  <2>1. \A n \in Attempts : n = attempt \/ n < attempt \/ n > attempt
    BY DEF Inv, ClientTypes, Attempts
  <2>2. \A n \in Attempts : relay[n] \in {"accepted", "not_accepted", "idle"}
    BY <2>1 DEF Inv, Sequential
  <2>3. \A n \in Attempts : stage[n] \notin Actor!Working
    BY <2>2 DEF Inv, Answers, Actor!Working
  <2>4. \A n \in 1..(attempt - 1) : n \in Attempts /\ n < attempt
    BY AttemptsAssumption DEF Inv, ClientTypes, Attempts
  <2>5. \A n \in 1..(attempt - 1) : relay[n] = "not_accepted" /\ status[n] = "not_accepted"
    BY <2>4 DEF Inv, Sequential, Answers
  <2> QED BY <2>3, <2>5 DEF AcceptedAfterRejections
<1> QED BY <1>1, Invariance, PTL
-----------------------------------------------------------------------------
(* What relay and actor do with the attempts is what RemoteActor lets them  *)
(* do with any jobs.                                                        *)

(* The attempts are a finite set of jobs. *)
LEMMA AttemptsFinite == IsFiniteSet(Attempts)
BY AttemptsAssumption, FS_Interval DEF Attempts

(* Every step of a task is a step of the relay and the actor, or leaves them *)
(* alone.                                                                   *)
LEMMA TaskStepIsJobStep ==
    ASSUME Inv, [Next]_vars
    PROVE  Actor!Next \/ UNCHANGED jobVars
<1>1. CASE Post
  <2>1. attempt \in Attempts /\ (Actor!AcceptJob(attempt) \/ Actor!RefuseJob(attempt))
    BY <1>1 DEF Post, Inv, ClientTypes
  <2> QED BY <2>1 DEF Actor!Next, Actor!RelayStep
<1>2. CASE Observe \/ Answered \/ ThrowAtOnce \/ Accept \/ Retry \/ GiveUp \/ Timeout \/ Report
  BY <1>2 DEF Observe, Answered, ThrowAtOnce, Accept, Retry, GiveUp, Timeout, Report
<1>3. CASE JobStep \/ ProcessStep
  BY <1>3 DEF JobStep, ProcessStep, Actor!Next
<1>4. CASE UNCHANGED vars
  BY <1>4 DEF vars, jobVars
<1> QED BY <1>1, <1>2, <1>3, <1>4 DEF Next, ClientStep

(* A task's behaviours are behaviours of RemoteActor, so that all that is    *)
(* proved of it holds of the attempts.                                      *)
THEOREM ImplementsRemoteActor == Spec => Actor!Spec
<1>1. Init => Actor!Init
  BY DEF Init
<1>2. Inv /\ [Next]_vars => [Actor!Next]_Actor!vars
  BY TaskStepIsJobStep DEF jobVars, Actor!vars, Actor!relayVars, Actor!actorVars, Actor!processVars
<1> QED BY <1>1, <1>2, Invariance, PTL DEF Spec, Actor!Spec

-----------------------------------------------------------------------------
(* Types.                                                                   *)

(* The types of the jobs' variables need the relay's count to be right, and *)
(* a handler to have decided what it is about to answer.                    *)
AnswersDecided ==
    \A n \in Attempts : stage[n] \in {"cleaning", "responding", "finished"} => status[n] # "none"

Counted == Actor!TypeOK /\ Actor!JobsCounted /\ AnswersDecided

(* RemoteActor counts as this module does. *)
LEMMA SameCount ==
    /\ Actor!JobsCounted <=> activeJobs = Cardinality(Actor!connected)
    /\ Actor!JobsCounted' <=> activeJobs' = Cardinality(Actor!connected)'
BY DEF Actor!JobsCounted, Actor!Cardinality, Cardinality

(* A fetch that is opened or ended moves the count of open fetches by one,   *)
(* any other change of a handler leaves it.                                 *)
LEMMA ConnectedCount ==
    ASSUME Actor!TypeOK, NEW n \in Attempts, NEW code, relay' = [relay EXCEPT ![n] = code]
    PROVE  /\ Cardinality(Actor!connected) \in Nat
           /\ relay[n] # "fetching" /\ code = "fetching" =>
                Cardinality(Actor!connected)' = Cardinality(Actor!connected) + 1
           /\ relay[n] = "fetching" /\ code # "fetching" =>
                /\ Cardinality(Actor!connected)' = Cardinality(Actor!connected) - 1
                /\ Cardinality(Actor!connected) - 1 \in Nat
           /\ relay[n] # "fetching" /\ code # "fetching" =>
                Cardinality(Actor!connected)' = Cardinality(Actor!connected)
<1>1. IsFiniteSet(Actor!connected)
  BY FS_Subset, AttemptsFinite DEF Actor!connected
<1>2. Cardinality(Actor!connected) \in Nat
  BY <1>1, FS_CardinalityType
<1>3. CASE relay[n] # "fetching" /\ code = "fetching"
  <2>1. n \notin Actor!connected /\ Actor!connected' = Actor!connected \union {n}
    BY <1>3 DEF Actor!connected, Actor!TypeOK
  <2> QED BY <1>1, <1>2, <1>3, <2>1, FS_AddElement
<1>4. CASE relay[n] = "fetching" /\ code # "fetching"
  <2>1. n \in Actor!connected /\ Actor!connected' = Actor!connected \ {n}
    BY <1>4 DEF Actor!connected, Actor!TypeOK
  <2>2. Cardinality(Actor!connected \ {n}) = Cardinality(Actor!connected) - 1
        /\ IsFiniteSet(Actor!connected \ {n})
    BY <1>1, <2>1, FS_RemoveElement
  <2> QED BY <1>2, <1>4, <2>1, <2>2, FS_CardinalityType
<1>5. CASE relay[n] # "fetching" /\ code # "fetching"
  <2>1. Actor!connected' = Actor!connected
    BY <1>5 DEF Actor!connected, Actor!TypeOK
  <2> QED BY <1>2, <1>5, <2>1
<1>6. CASE relay[n] = "fetching" /\ code = "fetching"
  BY <1>2, <1>6
<1> QED BY <1>3, <1>4, <1>5, <1>6

(* The relay's handlers keep types and count, *)
LEMMA RelayCounted ==
    ASSUME Counted, NEW n \in Attempts, Actor!RelayStep(n)
    PROVE  Counted'
<1> USE DEF Counted
<1>1. CASE Actor!AcceptJob(n) \/ Actor!RefuseJob(n)
  <2>1. PICK code \in {"body", "refused"} :
          /\ relay[n] # "fetching" /\ relay' = [relay EXCEPT ![n] = code]
          /\ UNCHANGED <<activeJobs, stage, status, running, runRoots, startedIn, process, life>>
    BY <1>1 DEF Actor!AcceptJob, Actor!RefuseJob, Actor!actorVars, Actor!processVars
  <2>2. Actor!TypeOK'
    BY <2>1 DEF Actor!TypeOK, Actor!Ended, Actor!RelayStatuses
  <2>3. Actor!JobsCounted'
    BY <2>1, ConnectedCount, SameCount
  <2>4. AnswersDecided'
    BY <2>1 DEF AnswersDecided
  <2> QED BY <2>2, <2>3, <2>4
<1>2. CASE Actor!ForwardJob(n)
  <2>1. /\ relay[n] # "fetching" /\ relay' = [relay EXCEPT ![n] = "fetching"]
        /\ activeJobs' = activeJobs + 1 /\ stage' = [stage EXCEPT ![n] = "arriving"]
        /\ UNCHANGED <<status, running, runRoots, startedIn, process, life>>
    BY <1>2 DEF Actor!ForwardJob, Actor!processVars
  <2>2. Actor!TypeOK'
    BY <2>1 DEF Actor!TypeOK, Actor!Stages
  <2>3. Actor!JobsCounted'
    BY <2>1, ConnectedCount, SameCount
  <2>4. AnswersDecided'
    BY <2>1 DEF AnswersDecided, Actor!TypeOK
  <2> QED BY <2>2, <2>3, <2>4
<1>3. CASE Actor!RelayAnswer(n) \/ Actor!FetchFailed(n) \/ Actor!ProxyTimeout(n)
  <2>1. Actor!RelayAnswer(n) => status[n] \in Actor!ActorStatuses
    BY DEF Actor!RelayAnswer, AnswersDecided, Actor!TypeOK
  <2>2. PICK code \in Actor!ActorStatuses \union {"job_proxy_error"} : Actor!EndFetch(n, code)
    BY <1>3, <2>1 DEF Actor!RelayAnswer, Actor!FetchFailed, Actor!ProxyTimeout
  <2>3. /\ relay[n] = "fetching" /\ code # "fetching" /\ relay' = [relay EXCEPT ![n] = code]
        /\ activeJobs' = activeJobs - 1
        /\ UNCHANGED <<stage, status, running, runRoots, startedIn, process, life>>
    BY <2>2 DEF Actor!EndFetch, Actor!ActorStatuses, Actor!actorVars, Actor!processVars
  <2>4. Actor!JobsCounted' /\ activeJobs' \in Nat
    BY <2>3, ConnectedCount, SameCount
  <2>5. Actor!TypeOK'
    BY <2>3, <2>4 DEF Actor!TypeOK, Actor!Ended, Actor!RelayStatuses
  <2>6. AnswersDecided'
    BY <2>3 DEF AnswersDecided
  <2> QED BY <2>4, <2>5, <2>6
<1> QED BY <1>1, <1>2, <1>3 DEF Actor!RelayStep

(* ... as do the actor's, *)
LEMMA ActorCounted ==
    ASSUME Counted, NEW n \in Attempts, Actor!ActorStep(n)
    PROVE  Counted'
<1> USE DEF Counted, Actor!relayVars, Actor!processVars
<1>0. ASSUME UNCHANGED <<relay, activeJobs>>, Actor!TypeOK', AnswersDecided' PROVE Counted'
  BY <1>0 DEF Actor!JobsCounted, Actor!connected
<1>1. ASSUME NEW code \in Actor!ActorStatuses, Actor!Respond(n, code),
             UNCHANGED <<relay, activeJobs, startedIn, process, life>>,
             running' \in BOOLEAN, runRoots' \subseteq runRoots
      PROVE  Counted'
  <2>1. PICK to \in {"responding", "lost"} :
          stage' = [stage EXCEPT ![n] = to] /\ status' = [status EXCEPT ![n] = code]
    BY <1>1 DEF Actor!Respond
  <2>2. Actor!TypeOK'
    BY <1>1, <2>1 DEF Actor!TypeOK, Actor!Stages
  <2>3. AnswersDecided'
    BY <1>1, <2>1 DEF AnswersDecided, Actor!TypeOK, Actor!ActorStatuses
  <2> QED BY <1>0, <1>1, <2>2, <2>3
<1>2. CASE Actor!Busy(n) \/ Actor!InvalidBody(n)
  BY <1>1, <1>2 DEF Actor!Busy, Actor!InvalidBody, Actor!ActorStatuses, Actor!TypeOK
<1>3. CASE Actor!CleanUp(n) \/ Actor!CleanUpFailed(n)
  <2>1. stage[n] = "cleaning" /\ status[n] \in Actor!ActorStatuses
    BY <1>3 DEF Actor!CleanUp, Actor!CleanUpFailed, AnswersDecided, Actor!TypeOK
  <2> QED BY <1>1, <1>3, <2>1 DEF Actor!CleanUp, Actor!CleanUpFailed, Actor!ActorStatuses
<1>4. ASSUME NEW from \in Actor!Stages, NEW to \in {"body", "agent", "stopping", "export", "acceptance"},
             Actor!Advance(n, from, to)
      PROVE  Counted'
  <2>1. stage' = [stage EXCEPT ![n] = to]
        /\ UNCHANGED <<relay, activeJobs, status, running, runRoots, startedIn, process, life>>
    BY <1>4 DEF Actor!Advance
  <2>2. Actor!TypeOK' /\ AnswersDecided'
    BY <2>1 DEF Actor!TypeOK, Actor!Stages, Actor!Working, AnswersDecided
  <2> QED BY <1>0, <2>1, <2>2
<1>5. CASE Actor!Materialize(n) \/ Actor!RunTimeout(n) \/ Actor!AgentTested(n) \/ Actor!ReplayPatch(n)
  BY <1>4, <1>5 DEF Actor!Materialize, Actor!RunTimeout, Actor!AgentTested, Actor!ReplayPatch,
                    Actor!Stages, Actor!Working
<1>6. CASE Actor!ReadBody(n)
  <2>1. stage' = [stage EXCEPT ![n] = "body"]
        /\ UNCHANGED <<relay, activeJobs, status, running, runRoots, startedIn, process, life>>
    BY <1>6 DEF Actor!ReadBody
  <2>2. Actor!TypeOK' /\ AnswersDecided'
    BY <2>1 DEF Actor!TypeOK, Actor!Stages, AnswersDecided
  <2> QED BY <1>0, <2>1, <2>2
<1>7. CASE Actor!StartRun(n)
  <2>1. /\ stage' = [stage EXCEPT ![n] = "source"] /\ startedIn' = [startedIn EXCEPT ![n] = life]
        /\ running' = TRUE /\ runRoots' = runRoots \union {n}
        /\ UNCHANGED <<relay, activeJobs, status, process, life>>
    BY <1>7 DEF Actor!StartRun
  <2>2. life \in 0..MaxLives
    BY LivesAssumption DEF Actor!TypeOK
  <2>3. Actor!TypeOK' /\ AnswersDecided'
    BY <2>1, <2>2 DEF Actor!TypeOK, Actor!Stages, Actor!Working, AnswersDecided
  <2> QED BY <1>0, <2>1, <2>3
<1>8. ASSUME NEW code \in Actor!ActorStatuses, Actor!Leave(n, code)
      PROVE  Counted'
  <2>1. stage' = [stage EXCEPT ![n] = "cleaning"] /\ status' = [status EXCEPT ![n] = code]
        /\ UNCHANGED <<relay, activeJobs, running, runRoots, startedIn, process, life>>
    BY <1>8 DEF Actor!Leave
  <2>2. Actor!TypeOK'
    BY <2>1 DEF Actor!TypeOK, Actor!Stages, Actor!Working
  <2>3. AnswersDecided'
    BY <2>1 DEF AnswersDecided, Actor!TypeOK, Actor!ActorStatuses
  <2> QED BY <1>0, <2>1, <2>2, <2>3
<1>9. CASE Actor!Accept(n) \/ Actor!NotAccepted(n) \/ Actor!RunFailed(n) \/ Actor!StoppedInTime(n)
  BY <1>8, <1>9 DEF Actor!Accept, Actor!NotAccepted, Actor!RunFailed, Actor!StoppedInTime,
                    Actor!ActorStatuses
<1>10. CASE Actor!ExitUnresponsive(n)
  BY <1>0, <1>10 DEF Actor!ExitUnresponsive, Actor!Die, Actor!TypeOK, Actor!Stages, AnswersDecided
<1>11. CASE Actor!Finish(n)
  <2>1. PICK to \in {"finished", "lost"} :
          /\ stage[n] = "responding" /\ stage' = [stage EXCEPT ![n] = to]
          /\ process' \in {"exiting", process}
          /\ UNCHANGED <<relay, activeJobs, status, running, runRoots, startedIn, life>>
    BY <1>11 DEF Actor!Finish
  <2>2. Actor!TypeOK' /\ AnswersDecided'
    BY <2>1 DEF Actor!TypeOK, Actor!Stages, AnswersDecided
  <2> QED BY <1>0, <2>1, <2>2
<1> QED
  BY <1>2, <1>3, <1>5, <1>6, <1>7, <1>9, <1>10, <1>11 DEF Actor!ActorStep, Actor!RunStep

(* ... and the end and the start of its process. *)
LEMMA ProcessCounted ==
    ASSUME Counted, Actor!Exit \/ Actor!Crash \/ Actor!Restart
    PROVE  Counted'
<1> USE DEF Counted, Actor!relayVars, Actor!actorVars
<1>1. ASSUME UNCHANGED <<relay, activeJobs>>, Actor!TypeOK', AnswersDecided' PROVE Counted'
  BY <1>1 DEF Actor!JobsCounted, Actor!connected
<1>2. CASE Actor!Exit \/ Actor!Crash
  BY <1>1, <1>2 DEF Actor!Exit, Actor!Crash, Actor!Die, Actor!TypeOK, Actor!Stages, AnswersDecided
<1>3. CASE Actor!Restart
  <2>1. process' = "up" /\ life' \in 1..MaxLives
        /\ UNCHANGED <<relay, activeJobs, stage, status, running, runRoots, startedIn>>
    BY <1>3, LivesAssumption DEF Actor!Restart, Actor!TypeOK
  <2> QED BY <1>1, <2>1 DEF Actor!TypeOK, AnswersDecided
<1> QED BY <1>2, <1>3

(* The task reads restart counts the container had. *)
LEMMA ClientTyped ==
    ASSUME TypeOK, Inv, Inv', Counted', [Next]_vars
    PROVE  TypeOK'
<1>1. life \in 1..MaxLives /\ reported \in [life : 1..MaxLives, ready : BOOLEAN]
      /\ looked \in [Attempts -> 0..MaxLives] /\ script \in {"one", "two"}
  BY DEF TypeOK, Actor!TypeOK
<1>2. client' \in Clients /\ attempt' \in Attempts
  BY DEF Inv, ClientTypes
<1>3. script' = script
  BY DEF Next, ClientStep, Observe, Post, Answered, ThrowAtOnce, Accept, Retry, GiveUp, Timeout,
         Report, JobStep, ProcessStep, clientVars, vars
<1>4. reported' \in [life : 1..MaxLives, ready : BOOLEAN]
  <2>1. CASE Report
    BY <1>1, <2>1 DEF Report
  <2>2. CASE reported' = reported
    BY <1>1, <2>2
  <2> QED
    BY <2>1, <2>2 DEF Next, ClientStep, Observe, Post, Answered, ThrowAtOnce, Accept, Retry, GiveUp,
       Timeout, JobStep, ProcessStep, clientVars, vars
<1>5. looked' \in [Attempts -> 0..MaxLives]
  <2>1. CASE Observe
    <3>1. reported.life \in 0..MaxLives /\ looked' = [looked EXCEPT ![attempt] = reported.life]
      BY <1>1, <2>1, LivesAssumption DEF Observe
    <3> QED BY <1>1, <3>1
  <2>2. CASE looked' = looked
    BY <1>1, <2>2
  <2> QED
    BY <2>1, <2>2 DEF Next, ClientStep, Post, Answered, ThrowAtOnce, Accept, Retry, GiveUp,
       Timeout, Report, JobStep, ProcessStep, clientVars, vars
<1>6. attempt' \in 1..Limit'
  <2>1. Limit \in Nat /\ Limit' = Limit /\ attempt \in 1..Limit
    BY <1>3, AttemptsAssumption DEF Limit, TypeOK
  <2>2. CASE Retry
    <3>1. attempt' = attempt + 1 /\ attempt < Limit
      BY <2>2 DEF Retry
    <3> QED BY <2>1, <3>1
  <2>3. CASE attempt' = attempt
    BY <2>1, <2>3
  <2> QED
    BY <2>2, <2>3 DEF Next, ClientStep, Observe, Post, Answered, ThrowAtOnce, Accept, GiveUp,
       Timeout, Report, JobStep, ProcessStep, clientVars, vars
<1> QED BY <1>1, <1>2, <1>3, <1>4, <1>5, <1>6 DEF TypeOK, Counted

(* Every variable of the task, the relay and the actor keeps its type. *)
THEOREM TypeCorrect == Spec => []TypeOK
<1>1. Init => TypeOK /\ Counted
  <2> SUFFICES ASSUME Init PROVE TypeOK /\ Counted
    OBVIOUS
  <2> USE DEF Init, Actor!Init
  <2>1. 1 \in Attempts /\ 1 \in 1..MaxLives /\ 0 \in 0..MaxLives
    BY AttemptsAssumption, LivesAssumption DEF Attempts
  <2>2. Actor!TypeOK
    BY <2>1 DEF Actor!TypeOK, Actor!Stages
  <2>3. Actor!JobsCounted
    <3>1. Actor!connected = {}
      BY DEF Actor!connected
    <3> QED BY <3>1, SameCount, FS_EmptySet
  <2>4. AnswersDecided
    BY DEF AnswersDecided
  <2>5. /\ script \in {"one", "two"} /\ client \in Clients /\ attempt \in 1..Limit
        /\ reported \in [life : 1..MaxLives, ready : BOOLEAN] /\ looked \in [Attempts -> 0..MaxLives]
    BY <2>1, AttemptsAssumption DEF Clients, Limit
  <2> QED BY <2>2, <2>3, <2>4, <2>5 DEF TypeOK, Counted
<1>2. Inv /\ Counted /\ [Next]_vars => Counted'
  <2> SUFFICES ASSUME Inv, Counted, [Next]_vars PROVE Counted'
    OBVIOUS
  <2>1. CASE Actor!Next
    BY <2>1, RelayCounted, ActorCounted, ProcessCounted DEF Actor!Next
  <2>2. CASE UNCHANGED jobVars
    BY <2>2 DEF jobVars, Counted, Actor!TypeOK, Actor!JobsCounted, Actor!connected, AnswersDecided
  <2> QED BY <2>1, <2>2, TaskStepIsJobStep
<1>3. TypeOK /\ Inv /\ Inv' /\ Counted' /\ [Next]_vars => TypeOK'
  BY ClientTyped
<1> QED BY <1>1, <1>2, <1>3, Invariance, PTL DEF Spec

=============================================================================
