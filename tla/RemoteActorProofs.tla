-------------------------- MODULE RemoteActorProofs --------------------------
(* The safety properties of RemoteActor for every set of jobs and every     *)
(* number of restarts, from the inductive invariant IInv.                   *)
EXTENDS RemoteActor, FiniteSetTheorems, TLAPS

(* The fetches the relay has open can be counted: opening one or ending one *)
(* moves the count by one, and any other change of a handler leaves it.     *)
LEMMA ConnectedCount ==
    ASSUME TypeOK, NEW j \in Jobs, NEW code
    PROVE  /\ Cardinality(connected) \in Nat
           /\ relay[j] # "fetching" /\ relay' = [relay EXCEPT ![j] = "fetching"] =>
                 Cardinality(connected)' = Cardinality(connected) + 1
           /\ relay[j] = "fetching" /\ code # "fetching"
                 /\ relay' = [relay EXCEPT ![j] = code] =>
                 /\ Cardinality(connected)' = Cardinality(connected) - 1
                 /\ Cardinality(connected) - 1 \in Nat
           /\ relay[j] # "fetching" /\ code # "fetching"
                 /\ relay' = [relay EXCEPT ![j] = code] =>
                 Cardinality(connected)' = Cardinality(connected)
<1>1. IsFiniteSet(connected)
  BY FS_Subset, JobsAssumption DEF connected
<1>2. Cardinality(connected) \in Nat
  BY <1>1, FS_CardinalityType
<1>3. ASSUME relay[j] # "fetching", relay' = [relay EXCEPT ![j] = "fetching"]
      PROVE  Cardinality(connected)' = Cardinality(connected) + 1
  <2>1. j \notin connected /\ connected' = connected \union {j}
    BY <1>3 DEF connected, TypeOK
  <2>. QED
    BY <2>1, <1>1, FS_AddElement
<1>4. ASSUME relay[j] = "fetching", code # "fetching", relay' = [relay EXCEPT ![j] = code]
      PROVE  /\ Cardinality(connected)' = Cardinality(connected) - 1
             /\ Cardinality(connected) - 1 \in Nat
  <2>1. j \in connected /\ connected' = connected \ {j}
    BY <1>4 DEF connected, TypeOK
  <2>2. Cardinality(connected \ {j}) = Cardinality(connected) - 1
    BY <2>1, <1>1, FS_RemoveElement
  <2>3. Cardinality(connected \ {j}) \in Nat
    BY <1>1, FS_RemoveElement, FS_CardinalityType
  <2>. QED
    BY <2>1, <2>2, <2>3
<1>5. ASSUME relay[j] # "fetching", code # "fetching", relay' = [relay EXCEPT ![j] = code]
      PROVE  Cardinality(connected)' = Cardinality(connected)
  <2>1. connected' = connected
    BY <1>5 DEF connected, TypeOK
  <2>. QED
    BY <2>1
<1>. QED
  BY <1>2, <1>3, <1>4, <1>5

(* Neither relay nor actor has a job at the start. *)
LEMMA InitInductive == Init => IInv
<1> SUFFICES ASSUME Init PROVE IInv
  OBVIOUS
<1> USE DEF Init
<1>1. TypeOK
  <2>1. 1 \in 1..MaxLives /\ 0 \in 0..MaxLives
    BY LivesAssumption
  <2>2. life \in 1..MaxLives /\ startedIn \in [Jobs -> 0..MaxLives]
    BY <2>1
  <2>3. /\ relay \in [Jobs -> {"idle", "body", "fetching"} \union Ended]
        /\ stage \in [Jobs -> Stages]
        /\ status \in [Jobs -> {"none"} \union ActorStatuses]
    BY DEF Stages
  <2>. QED
    BY <2>2, <2>3 DEF TypeOK
<1>2. connected = {}
  BY DEF connected
<1>3. JobsCounted
  BY <1>2, FS_EmptySet DEF JobsCounted
<1>4. BusyIsReal /\ RunRootsOwned /\ DeliveryEndsProcess
  BY DEF BusyIsReal, RunRootsOwned, DeliveryEndsProcess
<1>5. \A j \in Jobs : Placed(j) /\ Decided(j)
  BY DEF Placed, Decided, Working, Live
<1>. QED
  BY <1>1, <1>3, <1>4, <1>5 DEF IInv

(* The relay's handlers keep the invariant. *)
LEMMA RelayInductive ==
    ASSUME IInv, NEW j \in Jobs, RelayStep(j)
    PROVE  IInv'
<1> USE DEF IInv
<1>1. ASSUME NEW code \in {"body", "refused"}, relay[j] \in {"idle", "body"},
             relay' = [relay EXCEPT ![j] = code],
             UNCHANGED <<activeJobs, actorVars, processVars>>
      PROVE  IInv'
  <2> USE <1>1 DEF actorVars, processVars
  <2>1. TypeOK'
    BY DEF TypeOK, Ended, RelayStatuses
  <2>2. JobsCounted'
    BY ConnectedCount DEF JobsCounted
  <2>3. BusyIsReal' /\ RunRootsOwned' /\ DeliveryEndsProcess'
    BY DEF BusyIsReal, RunRootsOwned, DeliveryEndsProcess, Live
  <2>4. \A k \in Jobs : Placed(k)' /\ Decided(k)'
    BY DEF TypeOK, Placed, Decided, Live
  <2>. QED
    BY <2>1, <2>2, <2>3, <2>4
<1>2. CASE AcceptJob(j)
  BY <1>1, <1>2 DEF AcceptJob
<1>3. CASE RefuseJob(j)
  BY <1>1, <1>3 DEF RefuseJob
<1>4. CASE ForwardJob(j)
  <2> USE <1>4 DEF ForwardJob, processVars
  <2>1. TypeOK'
    BY DEF TypeOK, Stages
  <2>2. JobsCounted'
    BY ConnectedCount DEF JobsCounted
  <2>3. stage[j] = "none"
    BY DEF Placed
  <2>4. BusyIsReal' /\ RunRootsOwned' /\ DeliveryEndsProcess'
    BY <2>3 DEF BusyIsReal, RunRootsOwned, DeliveryEndsProcess, TypeOK, Live, Working
  <2>5. \A k \in Jobs : Placed(k)' /\ Decided(k)'
    BY <2>3 DEF TypeOK, Placed, Decided, Live, Working
  <2>. QED
    BY <2>1, <2>2, <2>4, <2>5
<1>5. ASSUME NEW code \in ActorStatuses \union {"job_proxy_error"}, EndFetch(j, code),
             code = "accepted" => stage[j] = "finished" /\ status[j] = "accepted"
      PROVE  IInv'
  <2> USE <1>5 DEF EndFetch, actorVars, processVars
  <2>1. TypeOK'
    BY ConnectedCount DEF TypeOK, JobsCounted, Ended, RelayStatuses, ActorStatuses
  <2>2. code # "fetching"
    BY DEF ActorStatuses
  <2>3. JobsCounted'
    BY <2>2, ConnectedCount DEF JobsCounted
  <2>4. BusyIsReal' /\ RunRootsOwned' /\ DeliveryEndsProcess'
    BY DEF BusyIsReal, RunRootsOwned, DeliveryEndsProcess, Live
  <2>5. \A k \in Jobs : Placed(k)' /\ Decided(k)'
    BY DEF TypeOK, Placed, Decided, Live, ActorStatuses
  <2>. QED
    BY <2>1, <2>3, <2>4, <2>5
<1>6. CASE RelayAnswer(j)
  <2>1. relay[j] = "fetching" /\ stage[j] = "finished"
    BY <1>6 DEF RelayAnswer, EndFetch
  <2>2. status[j] \in ActorStatuses
    BY <2>1 DEF Decided, TypeOK
  <2>. QED
    BY <2>1, <2>2, <1>5, <1>6 DEF RelayAnswer
<1>7. CASE FetchFailed(j)
  BY <1>5, <1>7 DEF FetchFailed
<1>8. CASE ProxyTimeout(j)
  BY <1>5, <1>8 DEF ProxyTimeout
<1>. QED
  BY <1>2, <1>3, <1>4, <1>6, <1>7, <1>8 DEF RelayStep

(* The steps of a run keep the invariant: the run directory is only there   *)
(* while its job works, and is gone before the job is accepted.             *)
LEMMA RunInductive ==
    ASSUME IInv, NEW j \in Jobs, RunStep(j)
    PROVE  IInv'
<1> USE DEF IInv, relayVars, processVars
<1>1. CASE Materialize(j)
  <2> USE <1>1 DEF Materialize, Advance
  <2>1. TypeOK'
    BY DEF TypeOK, Stages, Working, ActorStatuses
  <2>2. JobsCounted'
    BY DEF JobsCounted, connected
  <2>3. BusyIsReal'
    BY DEF TypeOK, BusyIsReal, Placed, Live, Working
  <2>4. RunRootsOwned'
    BY DEF TypeOK, RunRootsOwned, Placed, Live, Working
  <2>5. DeliveryEndsProcess'
    BY DEF TypeOK, DeliveryEndsProcess, Placed, Live, Working
  <2>6. \A k \in Jobs : Placed(k)'
    BY DEF TypeOK, Placed, Live, Working
  <2>7. \A k \in Jobs : Decided(k)'
    BY DEF TypeOK, Placed, Decided, Live, Working
  <2>. QED
    BY <2>1, <2>2, <2>3, <2>4, <2>5, <2>6, <2>7
<1>2. CASE RunTimeout(j)
  <2> USE <1>2 DEF RunTimeout, Advance
  <2>1. TypeOK'
    BY DEF TypeOK, Stages, Working, ActorStatuses
  <2>2. JobsCounted'
    BY DEF JobsCounted, connected
  <2>3. BusyIsReal'
    BY DEF TypeOK, BusyIsReal, Placed, Live, Working
  <2>4. RunRootsOwned'
    BY DEF TypeOK, RunRootsOwned, Placed, Live, Working
  <2>5. DeliveryEndsProcess'
    BY DEF TypeOK, DeliveryEndsProcess, Placed, Live, Working
  <2>6. \A k \in Jobs : Placed(k)'
    BY DEF TypeOK, Placed, Live, Working
  <2>7. \A k \in Jobs : Decided(k)'
    BY DEF TypeOK, Placed, Decided, Live, Working
  <2>. QED
    BY <2>1, <2>2, <2>3, <2>4, <2>5, <2>6, <2>7
<1>3. CASE AgentTested(j)
  <2> USE <1>3 DEF AgentTested, Advance
  <2>1. TypeOK'
    BY DEF TypeOK, Stages, Working, ActorStatuses
  <2>2. JobsCounted'
    BY DEF JobsCounted, connected
  <2>3. BusyIsReal'
    BY DEF TypeOK, BusyIsReal, Placed, Live, Working
  <2>4. RunRootsOwned'
    BY DEF TypeOK, RunRootsOwned, Placed, Live, Working
  <2>5. DeliveryEndsProcess'
    BY DEF TypeOK, DeliveryEndsProcess, Placed, Live, Working
  <2>6. \A k \in Jobs : Placed(k)'
    BY DEF TypeOK, Placed, Live, Working
  <2>7. \A k \in Jobs : Decided(k)'
    BY DEF TypeOK, Placed, Decided, Live, Working
  <2>. QED
    BY <2>1, <2>2, <2>3, <2>4, <2>5, <2>6, <2>7
<1>4. CASE ReplayPatch(j)
  <2> USE <1>4 DEF ReplayPatch, Advance
  <2>1. TypeOK'
    BY DEF TypeOK, Stages, Working, ActorStatuses
  <2>2. JobsCounted'
    BY DEF JobsCounted, connected
  <2>3. BusyIsReal'
    BY DEF TypeOK, BusyIsReal, Placed, Live, Working
  <2>4. RunRootsOwned'
    BY DEF TypeOK, RunRootsOwned, Placed, Live, Working
  <2>5. DeliveryEndsProcess'
    BY DEF TypeOK, DeliveryEndsProcess, Placed, Live, Working
  <2>6. \A k \in Jobs : Placed(k)'
    BY DEF TypeOK, Placed, Live, Working
  <2>7. \A k \in Jobs : Decided(k)'
    BY DEF TypeOK, Placed, Decided, Live, Working
  <2>. QED
    BY <2>1, <2>2, <2>3, <2>4, <2>5, <2>6, <2>7
<1>5. CASE Accept(j)
  <2> USE <1>5 DEF Accept, Leave
  <2>1. TypeOK'
    BY DEF TypeOK, Stages, Working, ActorStatuses
  <2>2. JobsCounted'
    BY DEF JobsCounted, connected
  <2>3. BusyIsReal'
    BY DEF TypeOK, BusyIsReal, Placed, Live, Working
  <2>4. RunRootsOwned'
    BY DEF TypeOK, RunRootsOwned, Placed, Live, Working
  <2>5. DeliveryEndsProcess'
    BY DEF TypeOK, DeliveryEndsProcess, Placed, Live, Working
  <2>6. \A k \in Jobs : Placed(k)'
    BY DEF TypeOK, Placed, Live, Working
  <2>7. \A k \in Jobs : Decided(k)'
    BY DEF TypeOK, Placed, Decided, Live, Working
  <2>. QED
    BY <2>1, <2>2, <2>3, <2>4, <2>5, <2>6, <2>7
<1>6. CASE NotAccepted(j)
  <2> USE <1>6 DEF NotAccepted, Leave
  <2>1. TypeOK'
    BY DEF TypeOK, Stages, Working, ActorStatuses
  <2>2. JobsCounted'
    BY DEF JobsCounted, connected
  <2>3. BusyIsReal'
    BY DEF TypeOK, BusyIsReal, Placed, Live, Working
  <2>4. RunRootsOwned'
    BY DEF TypeOK, RunRootsOwned, Placed, Live, Working
  <2>5. DeliveryEndsProcess'
    BY DEF TypeOK, DeliveryEndsProcess, Placed, Live, Working
  <2>6. \A k \in Jobs : Placed(k)'
    BY DEF TypeOK, Placed, Live, Working
  <2>7. \A k \in Jobs : Decided(k)'
    BY DEF TypeOK, Placed, Decided, Live, Working
  <2>. QED
    BY <2>1, <2>2, <2>3, <2>4, <2>5, <2>6, <2>7
<1>7. CASE RunFailed(j)
  <2> USE <1>7 DEF RunFailed, Leave
  <2>1. TypeOK'
    BY DEF TypeOK, Stages, Working, ActorStatuses
  <2>2. JobsCounted'
    BY DEF JobsCounted, connected
  <2>3. BusyIsReal'
    BY DEF TypeOK, BusyIsReal, Placed, Live, Working
  <2>4. RunRootsOwned'
    BY DEF TypeOK, RunRootsOwned, Placed, Live, Working
  <2>5. DeliveryEndsProcess'
    BY DEF TypeOK, DeliveryEndsProcess, Placed, Live, Working
  <2>6. \A k \in Jobs : Placed(k)'
    BY DEF TypeOK, Placed, Live, Working
  <2>7. \A k \in Jobs : Decided(k)'
    BY DEF TypeOK, Placed, Decided, Live, Working
  <2>. QED
    BY <2>1, <2>2, <2>3, <2>4, <2>5, <2>6, <2>7
<1>8. CASE StoppedInTime(j)
  <2> USE <1>8 DEF StoppedInTime, Leave
  <2>1. TypeOK'
    BY DEF TypeOK, Stages, Working, ActorStatuses
  <2>2. JobsCounted'
    BY DEF JobsCounted, connected
  <2>3. BusyIsReal'
    BY DEF TypeOK, BusyIsReal, Placed, Live, Working
  <2>4. RunRootsOwned'
    BY DEF TypeOK, RunRootsOwned, Placed, Live, Working
  <2>5. DeliveryEndsProcess'
    BY DEF TypeOK, DeliveryEndsProcess, Placed, Live, Working
  <2>6. \A k \in Jobs : Placed(k)'
    BY DEF TypeOK, Placed, Live, Working
  <2>7. \A k \in Jobs : Decided(k)'
    BY DEF TypeOK, Placed, Decided, Live, Working
  <2>. QED
    BY <2>1, <2>2, <2>3, <2>4, <2>5, <2>6, <2>7
<1>9. CASE CleanUp(j)
  <2> USE <1>9 DEF CleanUp, Respond
  <2>1. TypeOK'
    BY DEF TypeOK, Stages, Working, ActorStatuses
  <2>2. JobsCounted'
    BY DEF JobsCounted, connected
  <2>3. BusyIsReal'
    BY DEF TypeOK, BusyIsReal, Placed, Live, Working
  <2>4. RunRootsOwned'
    BY DEF TypeOK, RunRootsOwned, Placed, Live, Working
  <2>5. DeliveryEndsProcess'
    BY DEF TypeOK, DeliveryEndsProcess, Placed, Live, Working
  <2>6. \A k \in Jobs : Placed(k)'
    BY DEF TypeOK, Placed, Live, Working
  <2>7. \A k \in Jobs : Decided(k)'
    BY DEF TypeOK, Placed, Decided, Live, Working
  <2>. QED
    BY <2>1, <2>2, <2>3, <2>4, <2>5, <2>6, <2>7
<1>10. CASE CleanUpFailed(j)
  <2> USE <1>10 DEF CleanUpFailed, Respond
  <2>1. TypeOK'
    BY DEF TypeOK, Stages, Working, ActorStatuses
  <2>2. JobsCounted'
    BY DEF JobsCounted, connected
  <2>3. BusyIsReal'
    BY DEF TypeOK, BusyIsReal, Placed, Live, Working
  <2>4. RunRootsOwned'
    BY DEF TypeOK, RunRootsOwned, Placed, Live, Working
  <2>5. DeliveryEndsProcess'
    BY DEF TypeOK, DeliveryEndsProcess, Placed, Live, Working
  <2>6. \A k \in Jobs : Placed(k)'
    BY DEF TypeOK, Placed, Live, Working
  <2>7. \A k \in Jobs : Decided(k)'
    BY DEF TypeOK, Placed, Decided, Live, Working
  <2>. QED
    BY <2>1, <2>2, <2>3, <2>4, <2>5, <2>6, <2>7
<1>11. CASE ExitUnresponsive(j)
  <2> USE <1>11 DEF ExitUnresponsive, Die
  <2>1. TypeOK'
    BY DEF TypeOK, Stages, Working, ActorStatuses
  <2>2. JobsCounted'
    BY DEF JobsCounted, connected
  <2>3. BusyIsReal'
    BY DEF TypeOK, BusyIsReal, Placed, Live, Working
  <2>4. RunRootsOwned'
    BY DEF TypeOK, RunRootsOwned, Placed, Live, Working
  <2>5. DeliveryEndsProcess'
    BY DEF TypeOK, DeliveryEndsProcess, Placed, Live, Working
  <2>6. \A k \in Jobs : Placed(k)'
    BY DEF TypeOK, Placed, Live, Working
  <2>7. \A k \in Jobs : Decided(k)'
    BY DEF TypeOK, Placed, Decided, Live, Working
  <2>. QED
    BY <2>1, <2>2, <2>3, <2>4, <2>5, <2>6, <2>7
<1>. QED
  BY <1>1, <1>2, <1>3, <1>4, <1>5, <1>6, <1>7, <1>8, <1>9, <1>10, <1>11 DEF RunStep

(* The steps of the actor's server keep the invariant. *)
LEMMA ActorInductive ==
    ASSUME IInv, NEW j \in Jobs, ActorStep(j)
    PROVE  IInv'
<1> USE DEF IInv, relayVars, processVars
<1>1. CASE Busy(j)
  <2> USE <1>1 DEF Busy, Respond
  <2>1. TypeOK'
    BY DEF TypeOK, Stages, Working, ActorStatuses
  <2>2. JobsCounted'
    BY DEF JobsCounted, connected
  <2>3. BusyIsReal'
    BY DEF TypeOK, BusyIsReal, Placed, Live, Working
  <2>4. RunRootsOwned'
    BY DEF TypeOK, RunRootsOwned, Placed, Live, Working
  <2>5. DeliveryEndsProcess'
    BY DEF TypeOK, DeliveryEndsProcess, Placed, Live, Working
  <2>6. \A k \in Jobs : Placed(k)'
    BY DEF TypeOK, Placed, Live, Working
  <2>7. \A k \in Jobs : Decided(k)'
    BY DEF TypeOK, Placed, Decided, Live, Working
  <2>. QED
    BY <2>1, <2>2, <2>3, <2>4, <2>5, <2>6, <2>7
<1>2. CASE ReadBody(j)
  <2> USE <1>2 DEF ReadBody
  <2>1. TypeOK'
    BY DEF TypeOK, Stages, Working, ActorStatuses
  <2>2. JobsCounted'
    BY DEF JobsCounted, connected
  <2>3. BusyIsReal'
    BY DEF TypeOK, BusyIsReal, Placed, Live, Working
  <2>4. RunRootsOwned'
    BY DEF TypeOK, RunRootsOwned, Placed, Live, Working
  <2>5. DeliveryEndsProcess'
    BY DEF TypeOK, DeliveryEndsProcess, Placed, Live, Working
  <2>6. \A k \in Jobs : Placed(k)'
    BY DEF TypeOK, Placed, Live, Working
  <2>7. \A k \in Jobs : Decided(k)'
    BY DEF TypeOK, Placed, Decided, Live, Working
  <2>. QED
    BY <2>1, <2>2, <2>3, <2>4, <2>5, <2>6, <2>7
<1>3. CASE InvalidBody(j)
  <2> USE <1>3 DEF InvalidBody, Respond
  <2>1. TypeOK'
    BY DEF TypeOK, Stages, Working, ActorStatuses
  <2>2. JobsCounted'
    BY DEF JobsCounted, connected
  <2>3. BusyIsReal'
    BY DEF TypeOK, BusyIsReal, Placed, Live, Working
  <2>4. RunRootsOwned'
    BY DEF TypeOK, RunRootsOwned, Placed, Live, Working
  <2>5. DeliveryEndsProcess'
    BY DEF TypeOK, DeliveryEndsProcess, Placed, Live, Working
  <2>6. \A k \in Jobs : Placed(k)'
    BY DEF TypeOK, Placed, Live, Working
  <2>7. \A k \in Jobs : Decided(k)'
    BY DEF TypeOK, Placed, Decided, Live, Working
  <2>. QED
    BY <2>1, <2>2, <2>3, <2>4, <2>5, <2>6, <2>7
<1>4. CASE StartRun(j)
  <2> USE <1>4 DEF StartRun
  <2>1. TypeOK'
    BY DEF TypeOK, Stages, Working, ActorStatuses
  <2>2. JobsCounted'
    BY DEF JobsCounted, connected
  <2>3. BusyIsReal'
    BY DEF TypeOK, BusyIsReal, Placed, Live, Working
  <2>4. RunRootsOwned'
    BY DEF TypeOK, RunRootsOwned, Placed, Live, Working
  <2>5. DeliveryEndsProcess'
    BY DEF TypeOK, DeliveryEndsProcess, Placed, Live, Working
  <2>6. \A k \in Jobs : Placed(k)'
    BY DEF TypeOK, Placed, Live, Working
  <2>7. \A k \in Jobs : Decided(k)'
    BY DEF TypeOK, Placed, Decided, Live, Working
  <2>. QED
    BY <2>1, <2>2, <2>3, <2>4, <2>5, <2>6, <2>7
<1>5. CASE Finish(j)
  <2> USE <1>5 DEF Finish
  <2>1. TypeOK'
    BY DEF TypeOK, Stages, Working, ActorStatuses
  <2>2. JobsCounted'
    BY DEF JobsCounted, connected
  <2>3. BusyIsReal'
    BY DEF TypeOK, BusyIsReal, Placed, Live, Working
  <2>4. RunRootsOwned'
    BY DEF TypeOK, RunRootsOwned, Placed, Live, Working
  <2>5. DeliveryEndsProcess'
    BY DEF TypeOK, DeliveryEndsProcess, Placed, Live, Working
  <2>6. \A k \in Jobs : Placed(k)'
    BY DEF TypeOK, Placed, Live, Working
  <2>7. \A k \in Jobs : Decided(k)'
    BY DEF TypeOK, Placed, Decided, Live, Working
  <2>. QED
    BY <2>1, <2>2, <2>3, <2>4, <2>5, <2>6, <2>7
<1>6. CASE RunStep(j)
  BY <1>6, RunInductive
<1>. QED
  BY <1>1, <1>2, <1>3, <1>4, <1>5, <1>6 DEF ActorStep

(* The end of a process and the start of the next keep the invariant. *)
LEMMA ProcessInductive ==
    ASSUME IInv, Exit \/ Crash \/ Restart
    PROVE  IInv'
<1> USE DEF IInv, relayVars, processVars
<1>1. CASE Exit
  <2> USE <1>1 DEF Exit, Die
  <2>1. TypeOK'
    BY DEF TypeOK, Stages, Working, ActorStatuses
  <2>2. JobsCounted'
    BY DEF JobsCounted, connected
  <2>3. BusyIsReal'
    BY DEF TypeOK, BusyIsReal, Placed, Live, Working
  <2>4. RunRootsOwned'
    BY DEF TypeOK, RunRootsOwned, Placed, Live, Working
  <2>5. DeliveryEndsProcess'
    BY DEF TypeOK, DeliveryEndsProcess, Placed, Live, Working
  <2>6. \A k \in Jobs : Placed(k)'
    BY DEF TypeOK, Placed, Live, Working
  <2>7. \A k \in Jobs : Decided(k)'
    BY DEF TypeOK, Placed, Decided, Live, Working
  <2>. QED
    BY <2>1, <2>2, <2>3, <2>4, <2>5, <2>6, <2>7
<1>2. CASE Crash
  <2> USE <1>2 DEF Crash, Die
  <2>1. TypeOK'
    BY DEF TypeOK, Stages, Working, ActorStatuses
  <2>2. JobsCounted'
    BY DEF JobsCounted, connected
  <2>3. BusyIsReal'
    BY DEF TypeOK, BusyIsReal, Placed, Live, Working
  <2>4. RunRootsOwned'
    BY DEF TypeOK, RunRootsOwned, Placed, Live, Working
  <2>5. DeliveryEndsProcess'
    BY DEF TypeOK, DeliveryEndsProcess, Placed, Live, Working
  <2>6. \A k \in Jobs : Placed(k)'
    BY DEF TypeOK, Placed, Live, Working
  <2>7. \A k \in Jobs : Decided(k)'
    BY DEF TypeOK, Placed, Decided, Live, Working
  <2>. QED
    BY <2>1, <2>2, <2>3, <2>4, <2>5, <2>6, <2>7
<1>3. CASE Restart
  <2> USE <1>3 DEF Restart, actorVars
  <2>1. TypeOK'
    <3>1. life' \in 1..MaxLives
      BY LivesAssumption DEF TypeOK
    <3>. QED
      BY <3>1 DEF TypeOK
  <2>2. JobsCounted'
    BY DEF JobsCounted, connected
  <2>3. BusyIsReal'
    BY DEF TypeOK, BusyIsReal, Placed, Live, Working
  <2>4. RunRootsOwned'
    BY DEF TypeOK, RunRootsOwned, Placed, Live, Working
  <2>5. DeliveryEndsProcess'
    BY DEF TypeOK, DeliveryEndsProcess, Placed, Live, Working
  <2>6. \A k \in Jobs : Placed(k)'
    BY DEF TypeOK, Placed, Live, Working
  <2>7. \A k \in Jobs : Decided(k)'
    BY DEF TypeOK, Placed, Decided, Live, Working
  <2>. QED
    BY <2>1, <2>2, <2>3, <2>4, <2>5, <2>6, <2>7
<1>. QED
  BY <1>1, <1>2, <1>3

(* Steps that change nothing keep the invariant. *)
LEMMA StutterInductive ==
    ASSUME IInv, UNCHANGED vars
    PROVE  IInv'
<1> USE DEF IInv, vars, relayVars, actorVars, processVars
<1>1. TypeOK'
  BY DEF TypeOK
<1>2. JobsCounted'
  BY DEF JobsCounted, connected
<1>3. BusyIsReal' /\ RunRootsOwned' /\ DeliveryEndsProcess'
  BY DEF BusyIsReal, RunRootsOwned, DeliveryEndsProcess, Live
<1>4. \A k \in Jobs : Placed(k)' /\ Decided(k)'
  BY DEF Placed, Decided, Live
<1>. QED
  BY <1>1, <1>2, <1>3, <1>4

(* IInv is an invariant: every step, and every stutter, keeps it. *)
THEOREM Invariance == Spec => []IInv
<1>1. Init => IInv
  BY InitInductive
<1>2. IInv /\ [Next]_vars => IInv'
  BY RelayInductive, ActorInductive, ProcessInductive, StutterInductive DEF Next
<1>. QED
  BY <1>1, <1>2, PTL DEF Spec

(* Every variable keeps its type. *)
THEOREM TypeCorrect == Spec => []TypeOK
<1>1. IInv => TypeOK
  BY DEF IInv
<1>. QED
  BY <1>1, Invariance, PTL

(* activeJobs in the relay's /healthz is the number of its open fetches. *)
THEOREM OpenJobsCounted == Spec => []JobsCounted
<1>1. IInv => JobsCounted
  BY DEF IInv
<1>. QED
  BY <1>1, Invariance, PTL

(* An actor that answers actor_busy has a job of its own process at work. *)
THEOREM ActorBusyForAJob == Spec => []BusyIsReal
<1>1. IInv => BusyIsReal
  BY DEF IInv
<1>. QED
  BY <1>1, Invariance, PTL

(* Whoever holds an accepted patch knows that the directory of its run is  *)
(* off the actor's volume, whatever restarts, resets and other jobs did.   *)
THEOREM CleanedBeforeAcceptance == Spec => []CleanBeforeAccepted
<1>1. IInv => CleanBeforeAccepted
  BY DEF IInv, Decided, CleanBeforeAccepted
<1>. QED
  BY <1>1, Invariance, PTL

(* A run directory without a working job is left by a process that went    *)
(* down or by a removal that failed.                                       *)
THEOREM LeftoverRootsExplained == Spec => []RunRootsOwned
<1>1. IInv => RunRootsOwned
  BY DEF IInv
<1>. QED
  BY <1>1, Invariance, PTL

(* A process whose job has had its answer delivered is no longer up: it    *)
(* exits and the container starts the next one.                            *)
THEOREM DeliveryEnds == Spec => []DeliveryEndsProcess
<1>1. IInv => DeliveryEndsProcess
  BY DEF IInv
<1>. QED
  BY <1>1, Invariance, PTL
=============================================================================
