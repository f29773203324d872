---------------------------- MODULE PiActorProofs ----------------------------
(* Theorems of PiActor. *)
EXTENDS PiActor, TLAPS

(* Processes that survive a signal are still those of the command.          *)
LEMMA SurvivorsTyped ==
    ASSUME CommandTypeOK, NEW procs, Survive(procs)
    PROVE  /\ alive' \subseteq alive
           /\ grouped' \subseteq alive' /\ grouped' \subseteq grouped
           /\ holding' \subseteq alive' /\ holding' \subseteq holding
BY DEF CommandTypeOK, Survive

(* The command ends its processes.                                          *)
LEMMA TerminateTyped ==
    ASSUME CommandTypeOK, Terminate
    PROVE  /\ alive' \subseteq alive /\ grouped' \subseteq alive' /\ holding' \subseteq alive'
           /\ terminating' \in BOOLEAN /\ killTimer' \in BOOLEAN
<1>1. terminating' \in BOOLEAN /\ killTimer' \in BOOLEAN
  BY DEF Terminate, CommandTypeOK
<1>2. CASE terminating
  BY <1>1, <1>2 DEF Terminate, processVars, CommandTypeOK
<1>3. CASE ~terminating
  BY <1>1, <1>3, SurvivorsTyped DEF Terminate, Sigterm
<1> QED BY <1>2, <1>3

(* Steps of the supervision keep the types of its state, leave no process   *)
(* in the group of a command that is over, and begin no command but Exec.   *)
LEMMA SupervisionSafe ==
    ASSUME CommandTypeOK, Commands, Exec \/ CommandStep \/ Abort
    PROVE  CommandTypeOK' /\ Commands' /\ (~Exec /\ exec = "idle" => exec' = "idle")
<1> USE DEF Commands, Quiet, processVars, timerVars
<1>1. CASE Exec \/ Refuse
  BY <1>1 DEF Exec, Refuse, CommandTypeOK
<1>2. CASE Spawn
  BY <1>2 DEF Spawn, CommandTypeOK
<1>3. CASE Timeout
  <2>1. exec = "running" /\ exec' = "running"
    BY <1>3 DEF Timeout
  <2> QED BY <1>3, <2>1, TerminateTyped DEF Timeout, CommandTypeOK
<1>4. CASE Abort
  <2>1. CASE listening /\ ~aborted
    <3>1. exec = "running" /\ exec' = "running"
      BY <1>4, <2>1 DEF Abort
    <3> QED BY <1>4, <2>1, <3>1, TerminateTyped DEF Abort, CommandTypeOK
  <2>2. CASE ~(listening /\ ~aborted)
    BY <1>4, <2>2 DEF Abort, CommandTypeOK
  <2> QED BY <2>1, <2>2
<1>5. CASE KillTimer
  <2>1. exec = "running" /\ exec' = "running"
    BY <1>5 DEF KillTimer
  <2> QED BY <1>5, <2>1, SurvivorsTyped DEF KillTimer, Sigkill, CommandTypeOK
<1>6. CASE Closed
  <2>1. grouped' = {} /\ holding' = {}
    BY <1>6 DEF Closed, Sigkill, Survive
  <2>2. alive' \subseteq alive
    BY <1>6, SurvivorsTyped DEF Closed, Sigkill
  <2> QED BY <1>6, <2>1, <2>2 DEF Closed, CommandTypeOK
<1> QED BY <1>1, <1>2, <1>3, <1>4, <1>5, <1>6 DEF CommandStep

(* ... and so do the processes.                                             *)
LEMMA ProcessesSafe ==
    ASSUME CommandTypeOK, Commands, ProcessStep
    PROVE  CommandTypeOK' /\ Commands' /\ exec' = exec
<1> USE DEF Commands, Quiet, timerVars, ProcessStep
<1>1. ASSUME NEW p \in alive, NEW d \in Descendants, Fork(p, d)
      PROVE  CommandTypeOK' /\ Commands' /\ exec' = exec
  BY <1>1 DEF Fork, CommandTypeOK
<1>2. ASSUME NEW d \in Descendants, Setsid(d)
      PROVE  CommandTypeOK' /\ Commands' /\ exec' = exec
  BY <1>2 DEF Setsid, CommandTypeOK
<1>3. ASSUME NEW p \in alive, ClosePipes(p)
      PROVE  CommandTypeOK' /\ Commands' /\ exec' = exec
  BY <1>3 DEF ClosePipes, CommandTypeOK
<1>4. ASSUME NEW p \in alive, End(p)
      PROVE  CommandTypeOK' /\ Commands' /\ exec' = exec
  BY <1>4, SurvivorsTyped DEF End, CommandTypeOK
<1> QED BY <1>1, <1>2, <1>3, <1>4

(* What stays as it is keeps its types and its quiet.                       *)
LEMMA CommandUnchanged ==
    ASSUME CommandTypeOK, Commands, UNCHANGED commandVars
    PROVE  CommandTypeOK' /\ Commands'
BY DEF CommandTypeOK, Commands, Quiet, commandVars, processVars, timerVars

-----------------------------------------------------------------------------
LEMMA InitInv == Init => IInv
<1> SUFFICES ASSUME Init PROVE IInv
  OBVIOUS
<1>1. CommandTypeOK
  BY DEF Init, CommandInit, CommandTypeOK
<1>2. TypeOK
  <2>1. called \in 0..MaxCalls
    BY CallsAssumption DEF Init
  <2>2. phase \in Phases /\ outcome \in {"none", "resolved", "rejected"}
    BY DEF Init, Phases
  <2>3. results = {} /\ submitted = {} /\ todo = {} /\ pending = {} /\ message = {} /\ owed = {}
        /\ agent = "none" /\ remote = "none"
    BY DEF Init
  <2>4. {signalled, tested, promptSent, sessionKnown, abandoned, closeFailed} \subseteq BOOLEAN
    BY DEF Init
  <2> QED BY <1>1, <2>1, <2>2, <2>3, <2>4 DEF TypeOK
<1>3. Course /\ Conversation
  BY DEF Init, CommandInit, Course, Conversation
<1>4. Session /\ Commands
  BY DEF Init, CommandInit, Session, Ended, Commands, Quiet
<1> QED BY <1>2, <1>3, <1>4 DEF IInv

(* The steps of run itself, around its agent. *)
LEMMA RunKeeps ==
    ASSUME IInv, RunStep \/ AgentStarts
    PROVE  IInv'
<1>1. UNCHANGED commandVars
  BY DEF RunStep, AgentStarts, PrepareFailed, Prepared, PromptThrows, PromptReturns, Snapshot,
         Close, Deleted, DeleteFailed
<1>2. CommandTypeOK' /\ Commands' /\ exec' = exec
  BY <1>1, CommandUnchanged DEF IInv, TypeOK, commandVars
<1> USE <1>2 DEF IInv, streamVars, brokerVars, agentVars, runVars
<1>3. CASE AgentStarts \/ PrepareFailed \/ PromptThrows
  <2> USE <1>3 DEF AgentStarts, PrepareFailed, PromptThrows, Leave
  <2>1. TypeOK'
    BY DEF TypeOK, Phases
  <2>2. Course'
    BY DEF Course
  <2>3. Conversation'
    BY DEF Conversation, Course
  <2>4. Session'
    BY DEF Session, Course, Ended
  <2> QED BY <2>1, <2>2, <2>3, <2>4
<1>4. CASE Prepared
  <2> USE <1>4 DEF Prepared, Leave
  <2>1. TypeOK'
    BY DEF TypeOK, Phases
  <2>2. Course'
    BY DEF Course
  <2>3. Conversation'
    BY DEF Conversation, Course
  <2>4. Session'
    BY DEF Session, Course, Ended
  <2> QED BY <2>1, <2>2, <2>3, <2>4
<1>5. CASE PromptReturns \/ Snapshot
  <2> USE <1>5 DEF PromptReturns, Snapshot, Leave
  <2>1. TypeOK'
    BY DEF TypeOK, Phases
  <2>2. Course'
    BY DEF Course
  <2>3. Conversation'
    BY DEF Conversation
  <2>4. Session'
    BY DEF Session, Ended
  <2> QED BY <2>1, <2>2, <2>3, <2>4
<1>6. CASE Close
  <2> USE <1>6 DEF Close
  <2>0. agent \in {"none", "over"} /\ outcome \in {"resolved", "rejected"}
    BY DEF Course, TypeOK
  <2>1. TypeOK'
    BY <2>0 DEF TypeOK, Phases
  <2>2. Course'
    BY <2>0 DEF Course
  <2>3. Conversation'
    BY DEF Conversation
  <2>4. Session'
    BY <2>0 DEF Session, Ended
  <2> QED BY <2>1, <2>2, <2>3, <2>4
<1>7. CASE Deleted \/ DeleteFailed
  <2> USE <1>7 DEF Deleted, DeleteFailed
  <2>0. agent \in {"none", "over"} /\ outcome \in {"resolved", "rejected"}
    BY DEF Course, TypeOK
  <2>1. TypeOK'
    BY <2>0 DEF TypeOK, Phases
  <2>2. Course'
    BY <2>0 DEF Course
  <2>3. Conversation'
    BY DEF Conversation
  <2>4. Session'
    BY <2>0 DEF Session, Ended
  <2> QED BY <2>1, <2>2, <2>3, <2>4
<1> QED BY <1>3, <1>4, <1>5, <1>6, <1>7 DEF RunStep

(* The caller's signal, and a creation that succeeds after all. *)
LEMMA SignalKeeps ==
    ASSUME IInv, Signal \/ CreatedLate
    PROVE  IInv'
<1>1. CASE Signal
  <2>1. CommandTypeOK' /\ Commands' /\ (exec = "idle" => exec' = "idle")
    <3>1. CASE UNCHANGED commandVars
      BY <3>1, CommandUnchanged DEF IInv, TypeOK, commandVars
    <3>2. CASE Abort
      <4>1. exec' = exec
        BY <3>2 DEF Abort
      <4> QED BY <3>2, <4>1, SupervisionSafe DEF IInv, TypeOK
    <3> QED BY <1>1, <3>1, <3>2 DEF Signal
  <2> USE <1>1, <2>1 DEF Signal, IInv, streamVars, brokerVars, agentVars
  <2>2. TypeOK'
    BY DEF TypeOK
  <2>3. Course' /\ Conversation'
    BY DEF Course, Conversation
  <2>4. Session'
    BY DEF Session, Ended
  <2> QED BY <2>1, <2>2, <2>3, <2>4
<1>2. CASE CreatedLate
  <2>1. CommandTypeOK' /\ Commands' /\ exec' = exec
    BY <1>2, CommandUnchanged DEF IInv, TypeOK, CreatedLate, commandVars
  <2> USE <1>2, <2>1 DEF CreatedLate, IInv, streamVars, brokerVars, agentVars, runVars
  <2>2. TypeOK'
    BY DEF TypeOK
  <2>3. Course' /\ Conversation'
    BY DEF Course, Conversation
  <2>4. Session'
    BY DEF Session, Ended
  <2> QED BY <2>1, <2>2, <2>3, <2>4
<1> QED BY <1>1, <1>2

(* A turn, from the message that is made to its answer. *)
LEMMA TurnKeeps ==
    ASSUME IInv, TurnStep
    PROVE  IInv'
<1>1. UNCHANGED commandVars /\ UNCHANGED runVars /\ agent \in {"streaming", "creating", "sending"}
  BY DEF TurnStep, Stream, SessionCreated, CreateFailed, TurnFailed, TurnAnswered
<1>2. CommandTypeOK' /\ Commands' /\ exec' = "idle" /\ phase' = "prompting" /\ phase = "prompting"
  BY <1>1, CommandUnchanged DEF IInv, TypeOK, commandVars, runVars, Course
<1> USE <1>1, <1>2 DEF IInv, streamVars, brokerVars, agentVars, runVars
<1>3. CASE Stream
  <2> USE <1>3 DEF Stream
  <2>1. message' \subseteq pending
    BY DEF CollectToolResults
  <2>2. TypeOK'
    <3>1. submitted' \subseteq 1..called /\ pending' \subseteq (1..called) \ submitted' /\ message' \subseteq 1..called
      BY <2>1 DEF TypeOK
    <3>2. agent' \in {"over", "sending", "creating"}
      OBVIOUS
    <3> QED BY <3>1, <3>2 DEF TypeOK
  <2>3. Course'
    BY DEF Course
  <2>4. message' = owed /\ pending' = {}
    BY DEF CollectToolResults, Conversation, TypeOK
  <2>5. Conversation'
    BY <2>4 DEF Conversation
  <2>6. Session'
    BY DEF Session, Ended
  <2> QED BY <2>2, <2>3, <2>5, <2>6
<1>4. CASE SessionCreated \/ CreateFailed \/ TurnFailed
  <2> USE <1>4 DEF SessionCreated, CreateFailed, TurnFailed
  <2>1. TypeOK'
    BY DEF TypeOK
  <2>2. Course'
    BY DEF Course
  <2>3. Conversation'
    BY DEF Conversation
  <2>4. Session'
    BY DEF Session, Ended
  <2> QED BY <2>1, <2>2, <2>3, <2>4
<1>5. ASSUME NEW n \in 0..MaxCalls, TurnAnswered(n)
      PROVE  IInv'
  <2> USE <1>5 DEF TurnAnswered
  <2> DEFINE calls == (called + 1)..(called + n)
  <2>1. called \in Nat /\ n \in Nat /\ called' = called + n /\ called' \in 0..MaxCalls
    BY CallsAssumption DEF TypeOK
  <2>2. calls \subseteq 1..called' /\ 1..called \subseteq 1..called' /\ calls \intersect (1..called) = {}
    BY <2>1
  <2>3. todo' = calls /\ pending' = pending \union calls /\ owed' = (owed \ message) \union calls
    BY DEF calls
  <2> HIDE DEF calls
  <2>4. results \subseteq 1..called /\ submitted \subseteq 1..called /\ message \subseteq 1..called
        /\ pending \subseteq (1..called) \ submitted /\ owed \subseteq 1..called
    BY DEF TypeOK
  <2>5. TypeOK'
    <3>1. results' \subseteq 1..called' /\ submitted' \subseteq 1..called' /\ message' \subseteq 1..called'
          /\ owed' \subseteq 1..called'
      BY <2>2, <2>3, <2>4
    <3>2. todo' \subseteq (1..called') \ results' /\ pending' \subseteq (1..called') \ submitted'
      BY <2>2, <2>3, <2>4
    <3>3. agent' \in {"over", "tools"} /\ UNCHANGED <<tested, promptSent, sessionKnown, remote, abandoned, closeFailed>>
      OBVIOUS
    <3> QED BY <2>1, <3>1, <3>2, <3>3 DEF TypeOK
  <2>6. Course'
    BY DEF Course
  <2>7. Conversation'
    BY <2>3 DEF Conversation
  <2>8. Session'
    BY DEF Session, Ended
  <2> QED BY <2>5, <2>6, <2>7, <2>8
<1> QED BY <1>3, <1>4, <1>5 DEF TurnStep

(* The agent's tools. *)
LEMMA ToolKeeps ==
    ASSUME IInv, ToolStep
    PROVE  IInv'
<1>1. UNCHANGED runVars /\ agent = "tools" /\ phase = "prompting" /\ phase' = "prompting"
      /\ UNCHANGED streamVars /\ UNCHANGED brokerVars
  BY DEF ToolStep, NextTurn, SkipTools, FileTool, TestTool, TestToolEnds, NextCall, IInv, Course, runVars
<1> USE <1>1 DEF IInv, streamVars, brokerVars, agentVars, runVars
<1>2. CASE NextTurn \/ SkipTools
  <2>1. CommandTypeOK' /\ Commands' /\ exec' = exec
    BY <1>2, CommandUnchanged DEF TypeOK, NextTurn, SkipTools, commandVars
  <2> USE <1>2, <2>1 DEF NextTurn, SkipTools
  <2>2. TypeOK'
    BY DEF TypeOK
  <2>3. Course'
    BY DEF Course, NextTurn
  <2>4. Conversation'
    BY DEF Conversation
  <2>5. Session'
    BY DEF Session, Ended
  <2> QED BY <2>1, <2>2, <2>3, <2>4, <2>5
<1>3. ASSUME NEW c \in 1..MaxCalls, TestTool(c)
      PROVE  IInv'
  <2>1. CommandTypeOK' /\ Commands'
    BY <1>3, SupervisionSafe DEF TypeOK, TestTool
  <2> USE <1>3, <2>1 DEF TestTool, NextCall
  <2>2. TypeOK'
    BY DEF TypeOK
  <2>3. Course' /\ Conversation'
    BY DEF Course, Conversation
  <2>4. Session'
    BY DEF Session, Ended
  <2> QED BY <2>1, <2>2, <2>3, <2>4
<1>4. ASSUME NEW c \in 1..MaxCalls, FileTool(c) \/ TestToolEnds(c)
      PROVE  IInv'
  <2>1. CommandTypeOK' /\ Commands'
    <3>1. CASE FileTool(c)
      BY <3>1, CommandUnchanged DEF TypeOK, FileTool
    <3>2. CASE TestToolEnds(c)
      BY <3>2 DEF TestToolEnds, TypeOK, CommandTypeOK, Commands, Quiet, processVars, timerVars
    <3> QED BY <1>4, <3>1, <3>2
  <2>2. c \in todo /\ results' = results \union {c} /\ todo' = todo \ {c} /\ UNCHANGED agent
        /\ tested' \in BOOLEAN /\ exec' = "idle"
    BY <1>4 DEF FileTool, TestToolEnds, NextCall, Executed, TypeOK, commandVars
  <2> USE <2>1, <2>2
  <2>3. TypeOK'
    BY DEF TypeOK
  <2>4. Course' /\ Conversation'
    BY DEF Course, Conversation
  <2>5. Session'
    BY DEF Session, Ended
  <2> QED BY <2>1, <2>3, <2>4, <2>5
<1> QED BY <1>2, <1>3, <1>4 DEF ToolStep

(* What happens to the command and its processes. *)
LEMMA CommandKeeps ==
    ASSUME IInv, Command
    PROVE  IInv'
<1>1. CommandTypeOK' /\ Commands' /\ (exec = "idle" => exec' = "idle")
  <2>1. CASE CommandStep
    <3>1. exec = "idle" => exec' = "idle"
      BY <2>1 DEF CommandStep, Refuse, Spawn, Timeout, KillTimer, Closed
    <3> QED BY <2>1, <3>1, SupervisionSafe DEF IInv, TypeOK
  <2>2. CASE ProcessStep
    BY <2>2, ProcessesSafe DEF IInv, TypeOK
  <2> QED BY <2>1, <2>2 DEF Command
<1> USE <1>1 DEF Command, IInv, streamVars, brokerVars, agentVars, runVars
<1>2. TypeOK'
  BY DEF TypeOK
<1>3. Course' /\ Conversation'
  BY DEF Course, Conversation
<1>4. Session'
  BY DEF Session, Ended
<1> QED BY <1>1, <1>2, <1>3, <1>4

LEMMA NextInv == IInv /\ [Next]_vars => IInv'
<1> SUFFICES ASSUME IInv, [Next]_vars PROVE IInv'
  OBVIOUS
<1>1. CASE UNCHANGED vars
  <2>1. CommandTypeOK' /\ Commands'
    BY <1>1, CommandUnchanged DEF vars, IInv, TypeOK
  <2> USE <1>1, <2>1 DEF vars, commandVars, streamVars, brokerVars, agentVars, runVars, IInv
  <2>2. TypeOK'
    BY DEF TypeOK
  <2>3. Course' /\ Conversation' /\ Session'
    BY DEF Course, Conversation, Session, Ended
  <2> QED BY <2>1, <2>2, <2>3
<1> QED BY <1>1, RunKeeps, SignalKeeps, TurnKeeps, ToolKeeps, CommandKeeps DEF Next

(* The inductive invariant of a run, for any number of calls and processes. *)
THEOREM Invariance == Spec => []IInv
BY InitInv, NextInv, PTL DEF Spec

(* A run leaves a session behind only if its creation was not answered or   *)
(* its deletion failed; a tested run that resolves leaves none.             *)
THEOREM SessionsReleased == Spec => []SessionReleased
<1>1. IInv => SessionReleased
  BY DEF IInv, SessionReleased, Session, Ended
<1> QED BY <1>1, Invariance, PTL

(* Each turn carries the results of exactly the calls that are awaited.     *)
THEOREM EachResultOnce == Spec => []ResultsOnce
<1>1. IInv => ResultsOnce
  BY DEF IInv, ResultsOnce, Conversation
<1> QED BY <1>1, Invariance, PTL

(* Outside session.prompt no command runs, none of its processes is left in *)
(* its group and no timer of it is set.                                     *)
THEOREM CommandsEnded == Spec => []CommandsOver
<1>1. IInv => CommandsOver
  <2> SUFFICES ASSUME IInv, phase # "prompting" PROVE exec = "idle" /\ Quiet
    BY DEF CommandsOver
  <2>1. exec = "idle"
    BY DEF IInv, Course
  <2> QED BY <2>1 DEF IInv, Commands
<1> QED BY <1>1, Invariance, PTL
=============================================================================
