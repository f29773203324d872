-------------------------- MODULE CopilotBrokerProofs --------------------------
(* The safety properties of CopilotBroker for every set of requests, actors *)
(* and sessions and every limit, from the inductive invariant IInv.         *)
EXTENDS CopilotBroker, FiniteSetTheorems, TLAPS

(* The open turns can be counted: one that starts and one that ends move    *)
(* the count by one.                                                        *)
LEMMA TurnCount ==
    ASSUME TypeOK, NEW r \in Requests, NEW stage, handler' = [handler EXCEPT ![r] = stage]
    PROVE  /\ Cardinality(Turns) \in Nat
           /\ handler[r] # "sending" /\ stage = "sending" =>
                 Cardinality(Turns)' = Cardinality(Turns) + 1
           /\ handler[r] = "sending" /\ stage # "sending" =>
                 /\ Cardinality(Turns)' = Cardinality(Turns) - 1
                 /\ Cardinality(Turns) - 1 \in Nat
<1>1. IsFiniteSet(Turns)
  BY FS_Subset, RequestsAssumption DEF Turns
<1>2. Cardinality(Turns) \in Nat
  BY <1>1, FS_CardinalityType
<1>3. ASSUME handler[r] # "sending", stage = "sending"
      PROVE  Cardinality(Turns)' = Cardinality(Turns) + 1
  <2>1. r \notin Turns /\ Turns' = Turns \union {r}
    BY <1>3 DEF Turns, TypeOK
  <2>. QED
    BY <2>1, <1>1, FS_AddElement
<1>4. ASSUME handler[r] = "sending", stage # "sending"
      PROVE  /\ Cardinality(Turns)' = Cardinality(Turns) - 1
             /\ Cardinality(Turns) - 1 \in Nat
  <2>1. r \in Turns /\ Turns' = Turns \ {r}
    BY <1>4 DEF Turns, TypeOK
  <2>2. Cardinality(Turns \ {r}) = Cardinality(Turns) - 1
    BY <2>1, <1>1, FS_RemoveElement
  <2>3. Cardinality(Turns \ {r}) \in Nat
    BY <1>1, FS_RemoveElement, FS_CardinalityType
  <2>. QED
    BY <2>1, <2>2, <2>3
<1>. QED
  BY <1>2, <1>3, <1>4

(* The broker starts without sessions and turns. *)
LEMMA InitInductive == Init => IInv
<1> SUFFICES ASSUME Init PROVE IInv
  OBVIOUS
<1> USE DEF Init
<1>1. TypeOK
  BY DEF TypeOK, Awaiting, Answers
<1>2. Turns = {}
  BY DEF Turns
<1>3. SlotsCounted
  BY <1>2, FS_EmptySet DEF SlotsCounted
<1>4. SessionsInStep /\ OwnSession /\ ClosedClean /\ Identified
  BY DEF SessionsInStep, OwnSession, ClosedClean, Identified
<1>. QED
  BY <1>1, <1>3, <1>4 DEF IInv

(* Requests that arrive keep the invariant. *)
LEMMA ArrivalInductive ==
    ASSUME IInv, NEW r \in Requests, Arrival(r)
    PROVE  IInv'
<1> USE DEF IInv, requestVars, sessionVars, serverVars, Step
<1>1. CASE Refuse(r)
  <2> USE <1>1 DEF Refuse, Arrives
  <2>1. TypeOK'
    BY DEF TypeOK, Awaiting, Answers
  <2>2. SlotsCounted'
    <3>1. Turns' = Turns
      BY DEF Turns, TypeOK
    <3>. QED
      BY <3>1 DEF SlotsCounted
  <2>3. SessionsInStep'
    BY NoneAssumption DEF TypeOK, SessionsInStep, Identified, ClosedClean, Awaiting
  <2>4. OwnSession'
    BY NoneAssumption DEF TypeOK, OwnSession, Identified, SessionsInStep
  <2>5. ClosedClean'
    BY DEF TypeOK, ClosedClean, Awaiting
  <2>6. Identified'
    BY NoneAssumption DEF TypeOK, Identified, SessionsInStep
  <2>. QED
    BY <2>1, <2>2, <2>3, <2>4, <2>5, <2>6
<1>2. ASSUME NEW a \in Actors, ReadCreate(r, a) PROVE IInv'
  <2> USE <1>2 DEF ReadCreate, Arrives
  <2>1. TypeOK'
    BY DEF TypeOK, Awaiting, Answers
  <2>2. SlotsCounted'
    <3>1. Turns' = Turns
      BY DEF Turns, TypeOK
    <3>. QED
      BY <3>1 DEF SlotsCounted
  <2>3. SessionsInStep'
    BY NoneAssumption DEF TypeOK, SessionsInStep, Identified, ClosedClean, Awaiting
  <2>4. OwnSession'
    BY NoneAssumption DEF TypeOK, OwnSession, Identified, SessionsInStep
  <2>5. ClosedClean'
    BY DEF TypeOK, ClosedClean, Awaiting
  <2>6. Identified'
    BY NoneAssumption DEF TypeOK, Identified, SessionsInStep
  <2>. QED
    BY <2>1, <2>2, <2>3, <2>4, <2>5, <2>6
<1>3. ASSUME NEW a \in Actors, NEW s \in Sessions, RejectSession(r, a, s) PROVE IInv'
  <2> USE <1>3 DEF RejectSession, Arrives
  <2>1. TypeOK'
    BY DEF TypeOK, Awaiting, Answers
  <2>2. SlotsCounted'
    <3>1. Turns' = Turns
      BY DEF Turns, TypeOK
    <3>. QED
      BY <3>1 DEF SlotsCounted
  <2>3. SessionsInStep'
    BY NoneAssumption DEF TypeOK, SessionsInStep, Identified, ClosedClean, Awaiting
  <2>4. OwnSession'
    BY NoneAssumption DEF TypeOK, OwnSession, Identified, SessionsInStep
  <2>5. ClosedClean'
    BY DEF TypeOK, ClosedClean, Awaiting
  <2>6. Identified'
    BY NoneAssumption DEF TypeOK, Identified, SessionsInStep
  <2>. QED
    BY <2>1, <2>2, <2>3, <2>4, <2>5, <2>6
<1>4. ASSUME NEW a \in Actors, NEW s \in Sessions, RejectBusy(r, a, s) PROVE IInv'
  <2> USE <1>4 DEF RejectBusy, ToSession, Arrives, Owned
  <2>1. TypeOK'
    BY DEF TypeOK, Awaiting, Answers
  <2>2. SlotsCounted'
    <3>1. Turns' = Turns
      BY DEF Turns, TypeOK
    <3>. QED
      BY <3>1 DEF SlotsCounted
  <2>3. SessionsInStep'
    BY NoneAssumption DEF TypeOK, SessionsInStep, Identified, ClosedClean, Awaiting
  <2>4. OwnSession'
    BY NoneAssumption DEF TypeOK, OwnSession, Identified, SessionsInStep
  <2>5. ClosedClean'
    BY DEF TypeOK, ClosedClean, Awaiting
  <2>6. Identified'
    BY NoneAssumption DEF TypeOK, Identified, SessionsInStep
  <2>. QED
    BY <2>1, <2>2, <2>3, <2>4, <2>5, <2>6
<1>5. ASSUME NEW a \in Actors, NEW s \in Sessions, ReadMessage(r, a, s) PROVE IInv'
  <2> USE <1>5 DEF ReadMessage, ToSession, Arrives, Owned
  <2>1. TypeOK'
    BY DEF TypeOK, Awaiting, Answers
  <2>2. SlotsCounted'
    <3>1. Turns' = Turns
      BY DEF Turns, TypeOK
    <3>. QED
      BY <3>1 DEF SlotsCounted
  <2>3. SessionsInStep'
    BY NoneAssumption DEF TypeOK, SessionsInStep, Identified, ClosedClean, Awaiting
  <2>4. OwnSession'
    BY NoneAssumption DEF TypeOK, OwnSession, Identified, SessionsInStep
  <2>5. ClosedClean'
    BY DEF TypeOK, ClosedClean, Awaiting
  <2>6. Identified'
    BY NoneAssumption DEF TypeOK, Identified, SessionsInStep
  <2>. QED
    BY <2>1, <2>2, <2>3, <2>4, <2>5, <2>6
<1>6. ASSUME NEW a \in Actors, NEW s \in Sessions, Delete(r, a, s) PROVE IInv'
  <2> USE <1>6 DEF Delete, ToSession, Arrives, Owned
  <2>1. TypeOK'
    BY DEF TypeOK, Awaiting, Answers
  <2>2. SlotsCounted'
    <3>1. Turns' = Turns
      BY DEF Turns, TypeOK
    <3>. QED
      BY <3>1 DEF SlotsCounted
  <2>3. SessionsInStep'
    BY NoneAssumption DEF TypeOK, SessionsInStep, Identified, ClosedClean, Awaiting
  <2>4. OwnSession'
    BY NoneAssumption DEF TypeOK, OwnSession, Identified, SessionsInStep
  <2>5. ClosedClean'
    BY DEF TypeOK, ClosedClean, Awaiting
  <2>6. Identified'
    BY NoneAssumption DEF TypeOK, Identified, SessionsInStep
  <2>. QED
    BY <2>1, <2>2, <2>3, <2>4, <2>5, <2>6
<1>. QED
  BY <1>1, <1>2, <1>3, <1>4, <1>5, <1>6 DEF Arrival

(* Handlers that go on keep the invariant. *)
LEMMA ProgressInductive ==
    ASSUME IInv, NEW r \in Requests, Progress(r)
    PROVE  IInv'
<1> USE DEF IInv, requestVars, sessionVars, serverVars, Step
<1>1. CASE InvalidBody(r)
  <2> USE <1>1 DEF InvalidBody
  <2>1. TypeOK'
    BY DEF TypeOK, Awaiting, Answers
  <2>2. SlotsCounted'
    <3>1. Turns' = Turns
      BY DEF Turns, TypeOK
    <3>. QED
      BY <3>1 DEF SlotsCounted
  <2>3. SessionsInStep'
    BY NoneAssumption DEF TypeOK, SessionsInStep, Identified, ClosedClean, Awaiting
  <2>4. OwnSession'
    BY NoneAssumption DEF TypeOK, OwnSession, Identified, SessionsInStep
  <2>5. ClosedClean'
    BY DEF TypeOK, ClosedClean, Awaiting
  <2>6. Identified'
    BY NoneAssumption DEF TypeOK, Identified, SessionsInStep
  <2>. QED
    BY <2>1, <2>2, <2>3, <2>4, <2>5, <2>6
<1>2. CASE CreateSession(r)
  <2> USE <1>2 DEF CreateSession
  <2>1. TypeOK'
    BY DEF TypeOK, Awaiting, Answers
  <2>2. SlotsCounted'
    <3>1. Turns' = Turns
      BY DEF Turns, TypeOK
    <3>. QED
      BY <3>1 DEF SlotsCounted
  <2>3. SessionsInStep'
    BY NoneAssumption DEF TypeOK, SessionsInStep, Identified, ClosedClean, Awaiting
  <2>4. OwnSession'
    BY NoneAssumption DEF TypeOK, OwnSession, Identified, SessionsInStep
  <2>5. ClosedClean'
    BY DEF TypeOK, ClosedClean, Awaiting
  <2>6. Identified'
    BY NoneAssumption DEF TypeOK, Identified, SessionsInStep
  <2>. QED
    BY <2>1, <2>2, <2>3, <2>4, <2>5, <2>6
<1>3. CASE CreateFailed(r)
  <2> USE <1>3 DEF CreateFailed
  <2>1. TypeOK'
    BY DEF TypeOK, Awaiting, Answers
  <2>2. SlotsCounted'
    <3>1. Turns' = Turns
      BY DEF Turns, TypeOK
    <3>. QED
      BY <3>1 DEF SlotsCounted
  <2>3. SessionsInStep'
    BY NoneAssumption DEF TypeOK, SessionsInStep, Identified, ClosedClean, Awaiting
  <2>4. OwnSession'
    BY NoneAssumption DEF TypeOK, OwnSession, Identified, SessionsInStep
  <2>5. ClosedClean'
    BY DEF TypeOK, ClosedClean, Awaiting
  <2>6. Identified'
    BY NoneAssumption DEF TypeOK, Identified, SessionsInStep
  <2>. QED
    BY <2>1, <2>2, <2>3, <2>4, <2>5, <2>6
<1>4. CASE DeleteEnds(r)
  <2> USE <1>4 DEF DeleteEnds
  <2>1. TypeOK'
    BY DEF TypeOK, Awaiting, Answers
  <2>2. SlotsCounted'
    <3>1. Turns' = Turns
      BY DEF Turns, TypeOK
    <3>. QED
      BY <3>1 DEF SlotsCounted
  <2>3. SessionsInStep'
    BY NoneAssumption DEF TypeOK, SessionsInStep, Identified, ClosedClean, Awaiting
  <2>4. OwnSession'
    BY NoneAssumption DEF TypeOK, OwnSession, Identified, SessionsInStep
  <2>5. ClosedClean'
    BY DEF TypeOK, ClosedClean, Awaiting
  <2>6. Identified'
    BY NoneAssumption DEF TypeOK, Identified, SessionsInStep
  <2>. QED
    BY <2>1, <2>2, <2>3, <2>4, <2>5, <2>6
<1>5. ASSUME NEW s \in Sessions, Created(r, s) PROVE IInv'
  <2> USE <1>5 DEF Created
  <2>1. TypeOK'
    BY DEF TypeOK, Awaiting, Answers
  <2>2. SlotsCounted'
    <3>1. Turns' = Turns
      BY DEF Turns, TypeOK
    <3>. QED
      BY <3>1 DEF SlotsCounted
  <2>3. SessionsInStep'
    BY NoneAssumption DEF TypeOK, SessionsInStep, Identified, ClosedClean, Awaiting
  <2>4. OwnSession'
    BY NoneAssumption DEF TypeOK, OwnSession, Identified, SessionsInStep
  <2>5. ClosedClean'
    BY DEF TypeOK, ClosedClean, Awaiting
  <2>6. Identified'
    BY NoneAssumption DEF TypeOK, Identified, SessionsInStep
  <2>. QED
    BY <2>1, <2>2, <2>3, <2>4, <2>5, <2>6
<1>6. CASE SendMessage(r)
  <2> USE <1>6 DEF SendMessage
  <2>1. TypeOK'
    BY TurnCount DEF TypeOK, Awaiting, Answers
  <2>2. SlotsCounted'
    <3>1. CASE session[r] \in backend
      BY <3>1, TurnCount DEF SlotsCounted
    <3>2. CASE session[r] \notin backend
      <4>1. Turns' = Turns
        BY <3>2 DEF Turns, TypeOK
      <4>. QED
        BY <3>2, <4>1 DEF SlotsCounted
    <3>. QED
      BY <3>1, <3>2
  <2>3. SessionsInStep'
    BY NoneAssumption DEF TypeOK, SessionsInStep, Identified, ClosedClean, Awaiting
  <2>4. OwnSession'
    BY NoneAssumption DEF TypeOK, OwnSession, Identified, SessionsInStep
  <2>5. ClosedClean'
    BY DEF TypeOK, ClosedClean, Awaiting
  <2>6. Identified'
    BY NoneAssumption DEF TypeOK, Identified, SessionsInStep
  <2>. QED
    BY <2>1, <2>2, <2>3, <2>4, <2>5, <2>6
<1>7. ASSUME NEW code \in {"replied", "backend_error", "request_timeout"}, EndTurn(r, code)
      PROVE  IInv'
  <2> USE <1>7 DEF EndTurn
  <2>1. TypeOK'
    <3>1. activeRequests' \in Nat
      BY TurnCount DEF SlotsCounted
    <3>. QED
      BY <3>1 DEF TypeOK, Answers
  <2>2. SlotsCounted'
    BY TurnCount DEF SlotsCounted
  <2>3. SessionsInStep'
    BY NoneAssumption DEF TypeOK, SessionsInStep, Identified, ClosedClean, Awaiting
  <2>4. OwnSession'
    BY NoneAssumption DEF TypeOK, OwnSession, Identified, SessionsInStep
  <2>5. ClosedClean'
    BY DEF TypeOK, ClosedClean, Awaiting
  <2>6. Identified'
    BY NoneAssumption DEF TypeOK, Identified, SessionsInStep
  <2>. QED
    BY <2>1, <2>2, <2>3, <2>4, <2>5, <2>6
<1>8. CASE HangUp(r)
  <2> USE <1>8 DEF HangUp
  <2>1. TypeOK'
    BY DEF TypeOK
  <2>2. SlotsCounted'
    BY DEF SlotsCounted, Turns
  <2>3. SessionsInStep'
    BY NoneAssumption DEF TypeOK, SessionsInStep, Identified, ClosedClean, Awaiting
  <2>4. OwnSession'
    BY NoneAssumption DEF TypeOK, OwnSession, Identified, SessionsInStep
  <2>5. ClosedClean'
    BY DEF TypeOK, ClosedClean, Awaiting
  <2>6. Identified'
    BY NoneAssumption DEF TypeOK, Identified, SessionsInStep
  <2>. QED
    BY <2>1, <2>2, <2>3, <2>4, <2>5, <2>6
<1>. QED
  BY <1>1, <1>2, <1>3, <1>4, <1>5, <1>6, <1>7, <1>8 DEF Progress, TurnReplies, TurnFails, Timeout

(* Closing the broker, and changing nothing, keeps the invariant. *)
LEMMA CloseInductive ==
    ASSUME IInv, Close \/ DeleteSessions \/ Closed \/ UNCHANGED vars
    PROVE  IInv'
<1> USE DEF IInv, requestVars, sessionVars, serverVars, Step
<1>1. CASE Close
  <2> USE <1>1 DEF Close
  <2>1. TypeOK'
    BY DEF TypeOK, Awaiting, Answers
  <2>2. SlotsCounted'
    BY DEF SlotsCounted, Turns
  <2>3. SessionsInStep'
    BY NoneAssumption DEF TypeOK, SessionsInStep, Identified, ClosedClean, Awaiting
  <2>4. OwnSession'
    BY NoneAssumption DEF TypeOK, OwnSession, Identified, SessionsInStep
  <2>5. ClosedClean'
    BY DEF TypeOK, ClosedClean, Awaiting
  <2>6. Identified'
    BY NoneAssumption DEF TypeOK, Identified, SessionsInStep
  <2>. QED
    BY <2>1, <2>2, <2>3, <2>4, <2>5, <2>6
<1>2. CASE DeleteSessions
  <2> USE <1>2 DEF DeleteSessions
  <2>1. TypeOK'
    BY DEF TypeOK, Awaiting, Answers
  <2>2. SlotsCounted'
    BY DEF SlotsCounted, Turns
  <2>3. SessionsInStep'
    BY NoneAssumption DEF TypeOK, SessionsInStep, Identified, ClosedClean, Awaiting
  <2>4. OwnSession'
    BY NoneAssumption DEF TypeOK, OwnSession, Identified, SessionsInStep
  <2>5. ClosedClean'
    BY DEF TypeOK, ClosedClean, Awaiting, SessionsInStep
  <2>6. Identified'
    BY NoneAssumption DEF TypeOK, Identified, SessionsInStep
  <2>. QED
    BY <2>1, <2>2, <2>3, <2>4, <2>5, <2>6
<1>3. CASE Closed
  <2> USE <1>3 DEF Closed
  <2>1. TypeOK'
    BY DEF TypeOK, Awaiting, Answers
  <2>2. SlotsCounted'
    BY DEF SlotsCounted, Turns
  <2>3. SessionsInStep'
    BY NoneAssumption DEF TypeOK, SessionsInStep, Identified, ClosedClean, Awaiting
  <2>4. OwnSession'
    BY NoneAssumption DEF TypeOK, OwnSession, Identified, SessionsInStep
  <2>5. ClosedClean'
    BY DEF TypeOK, ClosedClean, Awaiting
  <2>6. Identified'
    BY NoneAssumption DEF TypeOK, Identified, SessionsInStep
  <2>. QED
    BY <2>1, <2>2, <2>3, <2>4, <2>5, <2>6
<1>4. CASE UNCHANGED vars
  <2> USE <1>4 DEF vars
  <2>1. TypeOK'
    BY DEF TypeOK, Awaiting, Answers
  <2>2. SlotsCounted'
    BY DEF SlotsCounted, Turns
  <2>3. SessionsInStep'
    BY NoneAssumption DEF TypeOK, SessionsInStep, Identified, ClosedClean, Awaiting
  <2>4. OwnSession'
    BY NoneAssumption DEF TypeOK, OwnSession, Identified, SessionsInStep
  <2>5. ClosedClean'
    BY DEF TypeOK, ClosedClean, Awaiting
  <2>6. Identified'
    BY NoneAssumption DEF TypeOK, Identified, SessionsInStep
  <2>. QED
    BY <2>1, <2>2, <2>3, <2>4, <2>5, <2>6
<1>. QED
  BY <1>1, <1>2, <1>3, <1>4

(* IInv is an invariant: every step, and every stutter, keeps it. *)
THEOREM Invariance == Spec => []IInv
<1>1. Init => IInv
  BY InitInductive
<1>2. IInv /\ [Next]_vars => IInv'
  BY ArrivalInductive, ProgressInductive, CloseInductive DEF Next
<1>. QED
  BY <1>1, <1>2, PTL DEF Spec

(* Every variable keeps its type. *)
THEOREM TypeCorrect == Spec => []TypeOK
<1>1. IInv => TypeOK
  BY DEF IInv
<1>. QED
  BY <1>1, Invariance, PTL

(* activeRequests is the number of turns the backend works on. *)
THEOREM TurnsCounted == Spec => []SlotsCounted
<1>1. IInv => SlotsCounted
  BY DEF IInv
<1>. QED
  BY <1>1, Invariance, PTL

(* The broker lists every session the backend has, and the backend has each *)
(* one a request can still be let into: they come apart only while close    *)
(* awaits its deletions.                                                    *)
THEOREM ListedSessionsExist == Spec => []SessionsInStep
<1>1. IInv => SessionsInStep
  BY DEF IInv
<1>. QED
  BY <1>1, Invariance, PTL

(* No handler works in another actor's session, at any later await either. *)
THEOREM SessionsStayOwned == Spec => []OwnSession
<1>1. IInv => OwnSession
  BY DEF IInv
<1>. QED
  BY <1>1, Invariance, PTL

(* A closed broker leaves nothing behind for a client that waited for it. *)
THEOREM NothingLeftBehind == Spec => []ClosedClean
<1>1. IInv => ClosedClean
  BY DEF IInv
<1>. QED
  BY <1>1, Invariance, PTL
=============================================================================
