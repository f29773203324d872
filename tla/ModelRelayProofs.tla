-------------------------- MODULE ModelRelayProofs --------------------------
(* The safety properties of ModelRelay for every set of requests and every *)
(* limit, from the inductive invariant IInv.                                *)
EXTENDS ModelRelay, FiniteSetTheorems, TLAPS

(* The pending map is finite, so its entries can be counted; taking one     *)
(* entry out or putting one in moves the count by one.                      *)
LEMMA PendingCount ==
    ASSUME pending \subseteq Requests
    PROVE  /\ IsFiniteSet(pending)
           /\ Cardinality(pending) \in Nat
           /\ \A r \in pending : Cardinality(pending \ {r}) = Cardinality(pending) - 1
                                 /\ Cardinality(pending \ {r}) \in Nat
           /\ \A r : r \notin pending =>
                        Cardinality(pending \union {r}) = Cardinality(pending) + 1
<1>1. IsFiniteSet(pending)
  BY FS_Subset, RequestsAssumption
<1>2. Cardinality(pending) \in Nat
  BY <1>1, FS_CardinalityType
<1>3. ASSUME NEW r \in pending
      PROVE  /\ Cardinality(pending \ {r}) = Cardinality(pending) - 1
             /\ Cardinality(pending \ {r}) \in Nat
  BY <1>1, FS_RemoveElement, FS_CardinalityType
<1>4. ASSUME NEW r, r \notin pending
      PROVE  Cardinality(pending \union {r}) = Cardinality(pending) + 1
  BY <1>1, <1>4, FS_AddElement
<1>. QED
  BY <1>1, <1>2, <1>3, <1>4

(* The relay starts with nothing pending and no bridge. *)
LEMMA InitInductive == Init => IInv
<1> SUFFICES ASSUME Init PROVE IInv
  OBVIOUS
<1> USE DEF Init, Refusals, Failures, Replies, Answers, Frames
<1>1. TypeOK
  <2>1. MaxConnections \in Nat
    BY LimitAssumption
  <2>2. http \in [Requests -> {"idle", "body", "proxied"} \union Answers]
    OBVIOUS
  <2>3. frame \in [Requests -> Frames]
    OBVIOUS
  <2>4. sentOn \in [Requests -> 0..MaxConnections]
    BY <2>1
  <2>5. pending \subseteq Requests /\ executed \subseteq Requests /\ activeRequests \in Nat
    OBVIOUS
  <2>6. bridge \in 0..MaxConnections /\ conn \in 0..MaxConnections
    BY <2>1
  <2>7. /\ bridgeState \in {"OPEN", "CLOSING"}
      /\ lastBridgeFailure \in {"none", "disconnected", "unknown_response", "closing"}
      /\ listening \in BOOLEAN /\ linkUp \in BOOLEAN
      /\ socketState \in {"CLOSED", "CONNECTING", "OPEN"}
    OBVIOUS
  <2>. QED
    BY <2>1, <2>2, <2>3, <2>4, <2>5, <2>6, <2>7 DEF TypeOK
<1>2. Accounting
  BY FS_EmptySet DEF Accounting
<1>3. FailClosed /\ Connections /\ DropOnlyAfterTimeout
  BY DEF FailClosed, Connections, DropOnlyAfterTimeout
<1>4. Journeys
  BY DEF Journeys, NeverSent, ReturnsHome, Expected, InTransit, ExecutedTravelled,
         ServedExecuted, ReplyDelivered
<1>. QED
  BY <1>1, <1>2, <1>3, <1>4 DEF IInv

(* When the relay gives its bridge up, every handler that waited has been   *)
(* answered and every slot is free again.                                   *)
LEMMA DisconnectSettlesAll ==
    ASSUME TypeOK, Accounting, NEW error, disconnectBridge(error)
    PROVE  /\ http' \in [Requests -> {"idle", "body", "proxied"} \union Answers]
           /\ frame' \in [Requests -> Frames]
           /\ pending' = {} /\ activeRequests' = 0
           /\ bridge' \in 0..MaxConnections
           /\ \A r \in Requests : http'[r] # "proxied"
<1>1. activeRequests' = 0
  BY PendingCount DEF disconnectBridge, TypeOK, Accounting
<1>2. http' \in [Requests -> {"idle", "body", "proxied"} \union Answers]
  BY DEF disconnectBridge, TypeOK, Answers, Failures
<1>3. frame' \in [Requests -> Frames]
  BY DEF disconnectBridge, TypeOK, Frames
<1>4. pending' = {} /\ \A r \in Requests : http'[r] # "proxied"
  BY DEF disconnectBridge, Accounting
<1>5. bridge' \in 0..MaxConnections
  BY LimitAssumption DEF disconnectBridge
<1>. QED
  BY <1>1, <1>2, <1>3, <1>4, <1>5

(* ... and the state it leaves is well typed. *)
LEMMA DisconnectTyped ==
    ASSUME TypeOK, Accounting,
           NEW error \in {"disconnected", "unknown_response", "closing"},
           disconnectBridge(error), listening' \in BOOLEAN,
           UNCHANGED <<bridgeState, bridgeVars, sentOn, executed>>
    PROVE  TypeOK'
<1>1. lastBridgeFailure' \in {"none", "disconnected", "unknown_response", "closing"}
  BY DEF disconnectBridge
<1>2. linkUp' = FALSE
  BY DEF disconnectBridge
<1>3. UNCHANGED <<bridgeState, conn, socketState, sentOn, executed>>
  BY DEF bridgeVars
<1>4. /\ http' \in [Requests -> {"idle", "body", "proxied"} \union Answers]
      /\ frame' \in [Requests -> Frames]
      /\ pending' = {} /\ activeRequests' = 0
      /\ bridge' \in 0..MaxConnections
  BY DisconnectSettlesAll
<1>. QED
  BY <1>1, <1>2, <1>3, <1>4 DEF TypeOK

(* The HTTP handlers keep the invariant. *)
LEMMA HttpInductive ==
    ASSUME IInv, NEW r \in Requests, HttpStep(r)
    PROVE  IInv'
<1> USE DEF IInv, Refusals, Failures, Replies, Answers, Frames, relayVars, bridgeVars
<1>1. CASE Refuse(r)
  <2> USE <1>1 DEF Refuse, Answer
  <2>1. TypeOK'
    BY DEF TypeOK
  <2>2. Accounting'
    BY DEF TypeOK, Accounting
  <2>3. Journeys'
    BY DEF TypeOK, Accounting, FailClosed, Connections,
           Journeys, NeverSent, ReturnsHome, Expected, InTransit,
           ExecutedTravelled, ServedExecuted, ReplyDelivered
  <2>4. DropOnlyAfterTimeout'
    BY DEF TypeOK, Accounting, DropOnlyAfterTimeout, Journeys, Expected, InTransit, ReturnsHome
  <2>5. FailClosed' /\ Connections'
    BY DEF FailClosed, Connections
  <2>. QED
    BY <2>1, <2>2, <2>3, <2>4, <2>5
<1>2. CASE RejectUnavailable(r)
  <2> USE <1>2 DEF RejectUnavailable, Answer
  <2>1. TypeOK'
    BY DEF TypeOK
  <2>2. Accounting'
    BY DEF TypeOK, Accounting
  <2>3. Journeys'
    BY DEF TypeOK, Accounting, FailClosed, Connections,
           Journeys, NeverSent, ReturnsHome, Expected, InTransit,
           ExecutedTravelled, ServedExecuted, ReplyDelivered
  <2>4. DropOnlyAfterTimeout'
    BY DEF TypeOK, Accounting, DropOnlyAfterTimeout, Journeys, Expected, InTransit, ReturnsHome
  <2>5. FailClosed' /\ Connections'
    BY DEF FailClosed, Connections
  <2>. QED
    BY <2>1, <2>2, <2>3, <2>4, <2>5
<1>3. CASE RejectBusy(r)
  <2> USE <1>3 DEF RejectBusy, Answer
  <2>1. TypeOK'
    BY DEF TypeOK
  <2>2. Accounting'
    BY DEF TypeOK, Accounting
  <2>3. Journeys'
    BY DEF TypeOK, Accounting, FailClosed, Connections,
           Journeys, NeverSent, ReturnsHome, Expected, InTransit,
           ExecutedTravelled, ServedExecuted, ReplyDelivered
  <2>4. DropOnlyAfterTimeout'
    BY DEF TypeOK, Accounting, DropOnlyAfterTimeout, Journeys, Expected, InTransit, ReturnsHome
  <2>5. FailClosed' /\ Connections'
    BY DEF FailClosed, Connections
  <2>. QED
    BY <2>1, <2>2, <2>3, <2>4, <2>5
<1>4. CASE ReadBody(r)
  <2> USE <1>4 DEF ReadBody, Admitted
  <2>1. TypeOK'
    BY DEF TypeOK
  <2>2. Accounting'
    BY DEF TypeOK, Accounting
  <2>3. Journeys'
    BY DEF TypeOK, Accounting, FailClosed, Connections,
           Journeys, NeverSent, ReturnsHome, Expected, InTransit,
           ExecutedTravelled, ServedExecuted, ReplyDelivered
  <2>4. DropOnlyAfterTimeout'
    BY DEF TypeOK, Accounting, DropOnlyAfterTimeout, Journeys, Expected, InTransit, ReturnsHome
  <2>5. FailClosed' /\ Connections'
    BY DEF FailClosed, Connections
  <2>. QED
    BY <2>1, <2>2, <2>3, <2>4, <2>5
<1>5. CASE BodyRejected(r)
  <2> USE <1>5 DEF BodyRejected, Answer
  <2>1. TypeOK'
    BY DEF TypeOK
  <2>2. Accounting'
    BY DEF TypeOK, Accounting
  <2>3. Journeys'
    BY DEF TypeOK, Accounting, FailClosed, Connections,
           Journeys, NeverSent, ReturnsHome, Expected, InTransit,
           ExecutedTravelled, ServedExecuted, ReplyDelivered
  <2>4. DropOnlyAfterTimeout'
    BY DEF TypeOK, Accounting, DropOnlyAfterTimeout, Journeys, Expected, InTransit, ReturnsHome
  <2>5. FailClosed' /\ Connections'
    BY DEF FailClosed, Connections
  <2>. QED
    BY <2>1, <2>2, <2>3, <2>4, <2>5
<1>6. CASE Proxy(r)
  <2> USE <1>6 DEF Proxy, ReadyToProxy, Admitted, bridgeConnected
  <2>1. TypeOK'
    BY PendingCount DEF TypeOK, Accounting
  <2>2. Accounting'
    BY PendingCount DEF TypeOK, Accounting
  <2>3. FailClosed'
    BY DEF TypeOK, Accounting, FailClosed
  <2>4. Connections'
    BY DEF TypeOK, Connections
  <2>5. Journeys'
    BY DEF TypeOK, Accounting, FailClosed, Connections,
           Journeys, NeverSent, ReturnsHome, Expected, InTransit,
           ExecutedTravelled, ServedExecuted, ReplyDelivered
  <2>6. DropOnlyAfterTimeout'
    BY DEF TypeOK, Accounting, DropOnlyAfterTimeout, Journeys, Expected, InTransit, ReturnsHome
  <2>. QED
    BY <2>1, <2>2, <2>3, <2>4, <2>5, <2>6
<1>7. CASE Timeout(r)
  <2> USE <1>7 DEF Timeout, Settle, Answer
  <2>1. TypeOK'
    BY PendingCount DEF TypeOK, Accounting
  <2>2. Accounting'
    BY PendingCount DEF TypeOK, Accounting
  <2>3. FailClosed'
    BY DEF TypeOK, Accounting, FailClosed
  <2>4. Journeys'
    BY DEF TypeOK, Accounting, FailClosed, Connections,
           Journeys, NeverSent, ReturnsHome, Expected, InTransit,
           ExecutedTravelled, ServedExecuted, ReplyDelivered
  <2>5. DropOnlyAfterTimeout'
    BY DEF TypeOK, Accounting, DropOnlyAfterTimeout, Journeys, Expected, InTransit, ReturnsHome
  <2>6. Connections'
    BY DEF Connections
  <2>. QED
    BY <2>1, <2>2, <2>3, <2>4, <2>5, <2>6
<1>8. CASE SendFailed(r)
  <2> USE <1>8 DEF SendFailed, Settle, Answer
  <2>1. TypeOK'
    BY PendingCount DEF TypeOK, Accounting
  <2>2. Accounting'
    BY PendingCount DEF TypeOK, Accounting
  <2>3. FailClosed'
    BY DEF TypeOK, Accounting, FailClosed
  <2>4. Journeys'
    BY DEF TypeOK, Accounting, FailClosed, Connections,
           Journeys, NeverSent, ReturnsHome, Expected, InTransit,
           ExecutedTravelled, ServedExecuted, ReplyDelivered
  <2>5. DropOnlyAfterTimeout'
    BY DEF TypeOK, Accounting, DropOnlyAfterTimeout, Journeys, Expected, InTransit, ReturnsHome
  <2>6. Connections'
    BY DEF Connections
  <2>. QED
    BY <2>1, <2>2, <2>3, <2>4, <2>5, <2>6
<1>. QED
  BY <1>1, <1>2, <1>3, <1>4, <1>5, <1>6, <1>7, <1>8 DEF HttpStep

(* Response frames keep the invariant. *)
LEMMA TunnelInductive ==
    ASSUME IInv, NEW r \in Requests, TunnelStep(r)
    PROVE  IInv'
<1> USE DEF IInv, Refusals, Failures, Replies, Answers, Frames, relayVars, bridgeVars
<1>1. CASE BridgeReply(r)
  <2> USE <1>1 DEF BridgeReply, Settle, Answer, bridgeConnected
  <2>1. TypeOK'
    BY PendingCount DEF TypeOK, Accounting
  <2>2. Accounting'
    BY PendingCount DEF TypeOK, Accounting
  <2>3. FailClosed'
    BY DEF TypeOK, Accounting, FailClosed
  <2>4. Journeys'
    BY DEF TypeOK, Accounting, FailClosed, Connections,
           Journeys, NeverSent, ReturnsHome, Expected, InTransit,
           ExecutedTravelled, ServedExecuted, ReplyDelivered
  <2>5. DropOnlyAfterTimeout'
    BY DEF TypeOK, Accounting, DropOnlyAfterTimeout, Journeys, Expected, InTransit, ReturnsHome
  <2>6. Connections'
    BY DEF Connections
  <2>. QED
    BY <2>1, <2>2, <2>3, <2>4, <2>5, <2>6
<1>2. CASE UnknownReply(r)
  <2> USE <1>2 DEF UnknownReply, bridgeConnected
  <2>1. disconnectBridge("unknown_response")
    OBVIOUS
  <2>2. TypeOK'
    BY <2>1, DisconnectTyped DEF bridgeVars, TypeOK
  <2>3. Accounting'
    BY <2>1, DisconnectSettlesAll, FS_EmptySet DEF TypeOK, Accounting, disconnectBridge
  <2>4. FailClosed'
    BY <2>1 DEF TypeOK, Accounting, FailClosed, disconnectBridge
  <2>5. Connections'
    BY <2>1 DEF TypeOK, Connections, disconnectBridge
  <2>6. Journeys'
    BY <2>1 DEF TypeOK, Accounting, FailClosed, Connections,
           Journeys, NeverSent, ReturnsHome, Expected, InTransit,
           ExecutedTravelled, ServedExecuted, ReplyDelivered, disconnectBridge, Returning
  <2>7. DropOnlyAfterTimeout'
    BY <2>1 DEF TypeOK, Accounting, DropOnlyAfterTimeout, Journeys, Expected, InTransit, ReturnsHome, disconnectBridge, Returning
  <2>. QED
    BY <2>2, <2>3, <2>4, <2>5, <2>6, <2>7
<1>. QED
  BY <1>1, <1>2 DEF TunnelStep

(* The bridge keeps the invariant while it forwards. *)
LEMMA BridgeInductive ==
    ASSUME IInv, NEW r \in Requests, BridgeStep(r)
    PROVE  IInv'
<1> USE DEF IInv, Refusals, Failures, Replies, Answers, Frames, relayVars, bridgeVars
<1>1. CASE HandleMessage(r)
  <2> USE <1>1 DEF HandleMessage
  <2>1. TypeOK'
    BY DEF TypeOK
  <2>2. Journeys'
    BY DEF TypeOK, Accounting, FailClosed, Connections,
           Journeys, NeverSent, ReturnsHome, Expected, InTransit,
           ExecutedTravelled, ServedExecuted, ReplyDelivered
  <2>3. DropOnlyAfterTimeout'
    BY DEF TypeOK, Accounting, DropOnlyAfterTimeout, Journeys, Expected, InTransit, ReturnsHome
  <2>4. Accounting' /\ FailClosed' /\ Connections'
    BY DEF Accounting, FailClosed, Connections
  <2>. QED
    BY <2>1, <2>2, <2>3, <2>4
<1>2. CASE Execute(r)
  <2> USE <1>2 DEF Execute
  <2>1. TypeOK'
    BY DEF TypeOK
  <2>2. Journeys'
    BY DEF TypeOK, Accounting, FailClosed, Connections,
           Journeys, NeverSent, ReturnsHome, Expected, InTransit,
           ExecutedTravelled, ServedExecuted, ReplyDelivered
  <2>3. DropOnlyAfterTimeout'
    BY DEF TypeOK, Accounting, DropOnlyAfterTimeout, Journeys, Expected, InTransit, ReturnsHome
  <2>4. Accounting' /\ FailClosed' /\ Connections'
    BY DEF Accounting, FailClosed, Connections
  <2>. QED
    BY <2>1, <2>2, <2>3, <2>4
<1>3. CASE ForwardReply(r)
  <2> USE <1>3 DEF ForwardReply, Respond
  <2>1. TypeOK'
    BY DEF TypeOK
  <2>2. Journeys'
    BY DEF TypeOK, Accounting, FailClosed, Connections,
           Journeys, NeverSent, ReturnsHome, Expected, InTransit,
           ExecutedTravelled, ServedExecuted, ReplyDelivered
  <2>3. DropOnlyAfterTimeout'
    BY DEF TypeOK, Accounting, DropOnlyAfterTimeout, Journeys, Expected, InTransit, ReturnsHome
  <2>4. Accounting' /\ FailClosed' /\ Connections'
    BY DEF Accounting, FailClosed, Connections
  <2>. QED
    BY <2>1, <2>2, <2>3, <2>4
<1>4. CASE ForwardError(r)
  <2> USE <1>4 DEF ForwardError, Respond
  <2>1. TypeOK'
    BY DEF TypeOK
  <2>2. Journeys'
    BY DEF TypeOK, Accounting, FailClosed, Connections,
           Journeys, NeverSent, ReturnsHome, Expected, InTransit,
           ExecutedTravelled, ServedExecuted, ReplyDelivered
  <2>3. DropOnlyAfterTimeout'
    BY DEF TypeOK, Accounting, DropOnlyAfterTimeout, Journeys, Expected, InTransit, ReturnsHome
  <2>4. Accounting' /\ FailClosed' /\ Connections'
    BY DEF Accounting, FailClosed, Connections
  <2>. QED
    BY <2>1, <2>2, <2>3, <2>4
<1>. QED
  BY <1>1, <1>2, <1>3, <1>4 DEF BridgeStep

(* Connecting, closing and losing the tunnel keep the invariant. *)
LEMMA ConnectionInductive ==
    ASSUME IInv, ConnectionStep
    PROVE  IInv'
<1> USE DEF IInv, Refusals, Failures, Replies, Answers, Frames, relayVars, bridgeVars
<1>1. CASE AcceptUpgrade
  <2> USE <1>1 DEF AcceptUpgrade
  <2>1. TypeOK'
    BY LimitAssumption DEF TypeOK
  <2>2. FailClosed'
    BY DEF TypeOK, Accounting, FailClosed
  <2>3. Connections'
    BY DEF TypeOK, Connections
  <2>4. Journeys'
    BY DEF TypeOK, Accounting, FailClosed, Connections,
           Journeys, NeverSent, ReturnsHome, Expected, InTransit,
           ExecutedTravelled, ServedExecuted, ReplyDelivered
  <2>5. DropOnlyAfterTimeout'
    BY DEF TypeOK, Accounting, DropOnlyAfterTimeout, Journeys, Expected, InTransit, ReturnsHome
  <2>6. Accounting'
    BY DEF Accounting
  <2>. QED
    BY <2>1, <2>2, <2>3, <2>4, <2>5, <2>6
<1>2. CASE RefuseUpgrade
  <2> USE <1>2 DEF RefuseUpgrade
  <2>1. TypeOK'
    BY DEF TypeOK
  <2>2. Connections'
    BY DEF TypeOK, Connections
  <2>3. Accounting' /\ FailClosed' /\ Journeys' /\ DropOnlyAfterTimeout'
    BY DEF Accounting, FailClosed, Journeys, NeverSent, ReturnsHome, Expected, InTransit,
           ExecutedTravelled, ServedExecuted, ReplyDelivered, DropOnlyAfterTimeout
  <2>. QED
    BY <2>1, <2>2, <2>3
<1>3. CASE BridgeClosing
  <2> USE <1>3 DEF BridgeClosing, bridgeConnected
  <2>1. TypeOK'
    BY DEF TypeOK
  <2>2. Accounting' /\ FailClosed' /\ Connections' /\ Journeys' /\ DropOnlyAfterTimeout'
    BY DEF Accounting, FailClosed, Connections, Journeys, NeverSent, ReturnsHome, Expected, InTransit,
           ExecutedTravelled, ServedExecuted, ReplyDelivered, DropOnlyAfterTimeout
  <2>. QED
    BY <2>1, <2>2
<1>4. CASE BridgeClosed
  <2> USE <1>4 DEF BridgeClosed
  <2>1. disconnectBridge("disconnected")
    OBVIOUS
  <2>2. TypeOK'
    BY <2>1, DisconnectTyped DEF bridgeVars, TypeOK
  <2>3. Accounting'
    BY <2>1, DisconnectSettlesAll, FS_EmptySet DEF TypeOK, Accounting, disconnectBridge
  <2>4. FailClosed'
    BY <2>1 DEF TypeOK, Accounting, FailClosed, disconnectBridge
  <2>5. Connections'
    BY <2>1 DEF TypeOK, Connections, disconnectBridge
  <2>6. Journeys'
    BY <2>1 DEF TypeOK, Accounting, FailClosed, Connections,
           Journeys, NeverSent, ReturnsHome, Expected, InTransit,
           ExecutedTravelled, ServedExecuted, ReplyDelivered, disconnectBridge, Returning
  <2>7. DropOnlyAfterTimeout'
    BY <2>1 DEF TypeOK, Accounting, DropOnlyAfterTimeout, Journeys, Expected, InTransit, ReturnsHome, disconnectBridge, Returning
  <2>. QED
    BY <2>2, <2>3, <2>4, <2>5, <2>6, <2>7
<1>5. CASE Close
  <2> USE <1>5 DEF Close
  <2>1. disconnectBridge("closing")
    OBVIOUS
  <2>2. TypeOK'
    BY <2>1, DisconnectTyped DEF bridgeVars, TypeOK
  <2>3. Accounting'
    BY <2>1, DisconnectSettlesAll, FS_EmptySet DEF TypeOK, Accounting, disconnectBridge
  <2>4. FailClosed'
    BY <2>1 DEF TypeOK, Accounting, FailClosed, disconnectBridge
  <2>5. Connections'
    BY <2>1 DEF TypeOK, Connections, disconnectBridge
  <2>6. Journeys'
    BY <2>1 DEF TypeOK, Accounting, FailClosed, Connections,
           Journeys, NeverSent, ReturnsHome, Expected, InTransit,
           ExecutedTravelled, ServedExecuted, ReplyDelivered, disconnectBridge, Returning
  <2>7. DropOnlyAfterTimeout'
    BY <2>1 DEF TypeOK, Accounting, DropOnlyAfterTimeout, Journeys, Expected, InTransit, ReturnsHome, disconnectBridge, Returning
  <2>. QED
    BY <2>2, <2>3, <2>4, <2>5, <2>6, <2>7
<1>6. CASE connect
  <2> USE <1>6 DEF connect
  <2>1. TypeOK'
    BY LimitAssumption DEF TypeOK
  <2>2. Connections'
    BY DEF TypeOK, Connections
  <2>3. Accounting' /\ FailClosed' /\ Journeys' /\ DropOnlyAfterTimeout'
    BY DEF Accounting, FailClosed, Journeys, NeverSent, ReturnsHome, Expected, InTransit,
           ExecutedTravelled, ServedExecuted, ReplyDelivered, DropOnlyAfterTimeout
  <2>. QED
    BY <2>1, <2>2, <2>3
<1>7. CASE SocketClosed
  <2> USE <1>7 DEF SocketClosed, DropUnread
  <2>1. TypeOK'
    BY DEF TypeOK
  <2>2. Connections'
    BY DEF TypeOK, Connections
  <2>3. Journeys'
    BY DEF TypeOK, Accounting, FailClosed, Connections,
           Journeys, NeverSent, ReturnsHome, Expected, InTransit,
           ExecutedTravelled, ServedExecuted, ReplyDelivered
  <2>4. DropOnlyAfterTimeout'
    BY DEF TypeOK, Accounting, DropOnlyAfterTimeout, Journeys, Expected, InTransit, ReturnsHome
  <2>5. Accounting' /\ FailClosed'
    BY DEF Accounting, FailClosed
  <2>. QED
    BY <2>1, <2>2, <2>3, <2>4, <2>5
<1>8. CASE CloseBridge
  <2> USE <1>8 DEF CloseBridge, DropUnread
  <2>1. TypeOK'
    BY DEF TypeOK
  <2>2. Connections'
    BY DEF TypeOK, Connections
  <2>3. Journeys'
    BY DEF TypeOK, Accounting, FailClosed, Connections,
           Journeys, NeverSent, ReturnsHome, Expected, InTransit,
           ExecutedTravelled, ServedExecuted, ReplyDelivered
  <2>4. DropOnlyAfterTimeout'
    BY DEF TypeOK, Accounting, DropOnlyAfterTimeout, Journeys, Expected, InTransit, ReturnsHome
  <2>5. Accounting' /\ FailClosed'
    BY DEF Accounting, FailClosed
  <2>. QED
    BY <2>1, <2>2, <2>3, <2>4, <2>5
<1>9. CASE LinkBreaks
  <2> USE <1>9 DEF LinkBreaks
  <2>1. TypeOK'
    BY DEF TypeOK
  <2>2. Connections'
    BY DEF TypeOK, Connections
  <2>3. Accounting' /\ FailClosed' /\ Journeys' /\ DropOnlyAfterTimeout'
    BY DEF Accounting, FailClosed, Journeys, NeverSent, ReturnsHome, Expected, InTransit,
           ExecutedTravelled, ServedExecuted, ReplyDelivered, DropOnlyAfterTimeout
  <2>. QED
    BY <2>1, <2>2, <2>3
<1>. QED
  BY <1>1, <1>2, <1>3, <1>4, <1>5, <1>6, <1>7, <1>8, <1>9 DEF ConnectionStep

(* Every step of the system keeps the invariant. *)
LEMMA NextInductive == IInv /\ [Next]_vars => IInv'
<1> SUFFICES ASSUME IInv, [Next]_vars PROVE IInv'
  OBVIOUS
<1>1. CASE UNCHANGED vars
  BY <1>1 DEF vars, relayVars, bridgeVars, IInv, TypeOK, Accounting, FailClosed, Connections,
       Journeys, NeverSent, ReturnsHome, Expected, InTransit, ExecutedTravelled,
       ServedExecuted, ReplyDelivered, DropOnlyAfterTimeout
<1>2. CASE Next
  BY <1>2, HttpInductive, TunnelInductive, BridgeInductive, ConnectionInductive DEF Next
<1>. QED
  BY <1>1, <1>2

(* IInv holds in every reachable state. *)
THEOREM Invariance == Spec => []IInv
<1>. QED
  BY InitInductive, NextInductive, PTL DEF Spec

(* Every state of the relay, the bridge and the tunnel is well typed; in    *)
(* particular the count of active requests never goes below zero.           *)
THEOREM TypeCorrect == Spec => []TypeOK
<1>1. IInv => TypeOK
  BY DEF IInv
<1>. QED
  BY <1>1, Invariance, PTL

(* No order of timeouts, send errors, late answers and lost bridges leaks a *)
(* slot of the concurrency limit or frees one twice.                        *)
THEOREM SlotsAccounted == Spec => []Accounting
<1>1. IInv => Accounting
  BY DEF IInv
<1>. QED
  BY <1>1, Invariance, PTL

(* No request waits on a tunnel the relay has given up. *)
THEOREM RelayFailsClosed == Spec => []FailClosed
<1>1. IInv => FailClosed
  BY DEF IInv
<1>. QED
  BY <1>1, Invariance, PTL

(* Only a timeout of the relay's own can make it drop its bridge for an     *)
(* unknown response id.                                                     *)
THEOREM DropsOnlyAfterTimeout == Spec => []DropOnlyAfterTimeout
<1>1. IInv => DropOnlyAfterTimeout
  BY DEF IInv
<1>. QED
  BY <1>1, Invariance, PTL

(* A refused request never reaches the broker. *)
THEOREM RefusedStayUnexecuted == Spec => []RefusedNeverExecuted
<1>1. IInv => RefusedNeverExecuted
  BY DEF IInv, Journeys, NeverSent, ExecutedTravelled, RefusedNeverExecuted, Replies
<1>. QED
  BY <1>1, Invariance, PTL

(* A handler that has answered is never again the one a step answers. *)
LEMMA AnsweredStays ==
    ASSUME IInv, [Next]_vars, NEW q \in Requests, http[q] \in Answers
    PROVE  http'[q] = http[q]
<1> USE DEF IInv, TypeOK, Accounting, Refusals, Failures, Replies, Answers
<1>1. CASE UNCHANGED vars
  BY <1>1 DEF vars, relayVars
<1>2. ASSUME NEW r \in Requests, HttpStep(r)
      PROVE  http'[q] = http[q]
  BY <1>2 DEF HttpStep, Refuse, RejectUnavailable, RejectBusy, ReadBody, BodyRejected, Proxy,
       Timeout, SendFailed, Settle, Answer, ReadyToProxy, Admitted
<1>3. ASSUME NEW r \in Requests, TunnelStep(r)
      PROVE  http'[q] = http[q]
  BY <1>3 DEF TunnelStep, BridgeReply, UnknownReply, disconnectBridge, Settle, Answer
<1>4. ASSUME NEW r \in Requests, BridgeStep(r)
      PROVE  http'[q] = http[q]
  BY <1>4 DEF BridgeStep, HandleMessage, Execute, ForwardReply, ForwardError, Respond, relayVars
<1>5. CASE ConnectionStep
  BY <1>5 DEF ConnectionStep, AcceptUpgrade, RefuseUpgrade, BridgeClosing, BridgeClosed, Close,
       disconnectBridge, connect, SocketClosed, CloseBridge, LinkBreaks, relayVars
<1>. QED
  BY <1>1, <1>2, <1>3, <1>4, <1>5 DEF Next

(* Whatever arrives or fails after an answer, the answer stands. *)
THEOREM AnsweredOnce == Spec => AnswersFinal
<1>1. IInv /\ [Next]_vars
        => [\A r \in Requests : http[r] \in Answers => http'[r] = http[r]]_vars
  BY AnsweredStays
<1>. QED
  BY <1>1, Invariance, PTL DEF Spec, AnswersFinal

-----------------------------------------------------------------------------
(* Refinement: seen through callView, the system takes the contract's steps. *)

LEMMA ContractInit == Init => Contract!Init
<1> SUFFICES ASSUME Init PROVE Contract!Init
  OBVIOUS
<1>1. actorSees("idle") = "waiting"
  BY DEF actorSees, Refusals
<1>2. \A r \in Requests : actorSees(http[r]) = "waiting"
  BY <1>1 DEF Init
<1>3. callView = [r \in Requests |-> "waiting"]
  BY <1>2 DEF callView
<1>. QED
  BY <1>3 DEF Init, Contract!Init

(* A handler step that changes the answer of one request only. *)
LEMMA ViewExcept ==
    ASSUME TypeOK, NEW r \in Requests, NEW code, http' = [http EXCEPT ![r] = code]
    PROVE  callView' = [callView EXCEPT ![r] = callView'[r]]
  BY DEF TypeOK, callView

LEMMA ContractStep ==
    ASSUME IInv, IInv', [Next]_vars
    PROVE  [Contract!Next]_(Contract!vars)
<1> USE DEF IInv
<1> USE DEF Contract!vars
<1>v. TypeOK /\ TypeOK'
  OBVIOUS
<1>1. CASE UNCHANGED vars
  BY <1>1 DEF vars, relayVars, callView
<1>2. ASSUME NEW r \in Requests, HttpStep(r)
      PROVE  [Contract!Next]_(Contract!vars)
  <2>1. ASSUME Refuse(r) \/ RejectUnavailable(r) \/ RejectBusy(r) \/ BodyRejected(r)
        PROVE  Contract!Refuse(r)
    <3>1. /\ http[r] \in {"idle", "body"} /\ UNCHANGED executed
          /\ \E code \in Refusals : http' = [http EXCEPT ![r] = code]
      BY <2>1 DEF Refuse, RejectUnavailable, RejectBusy, BodyRejected, Answer, Refusals
    <3>2. http'[r] \in Refusals
      BY <3>1 DEF TypeOK
    <3>3. callView[r] = "waiting" /\ callView'[r] = "refused"
      BY <3>1, <3>2 DEF callView, actorSees, Refusals
    <3>4. callView' = [callView EXCEPT ![r] = callView'[r]]
      BY <3>1, ViewExcept
    <3>. QED
      BY <3>1, <3>3, <3>4 DEF Contract!Refuse
  <2>2. ASSUME ReadBody(r)
        PROVE  callView' = callView /\ UNCHANGED executed
    <3>1. actorSees("idle") = actorSees("body")
      BY DEF actorSees, Refusals
    <3>2. \A q \in Requests : actorSees(http'[q]) = actorSees(http[q])
      BY <2>2, <3>1 DEF ReadBody, Admitted, TypeOK
    <3>3. callView' = callView
      BY <3>2, Zenon DEF callView
    <3>. QED
      BY <2>2, <3>3 DEF ReadBody
  <2>3. ASSUME Proxy(r)
        PROVE  Contract!Forward(r)
    <3>1. /\ http[r] \in {"idle", "body"} /\ UNCHANGED executed
          /\ http' = [http EXCEPT ![r] = "proxied"]
      BY <2>3 DEF Proxy, ReadyToProxy, Admitted
    <3>2. callView[r] = "waiting" /\ callView'[r] = "forwarded"
      BY <3>1 DEF TypeOK, callView, actorSees, Refusals
    <3>3. callView' = [callView EXCEPT ![r] = callView'[r]]
      BY <3>1, ViewExcept
    <3>. QED
      BY <3>1, <3>2, <3>3 DEF Contract!Forward
  <2>4. ASSUME Timeout(r) \/ SendFailed(r)
        PROVE  Contract!Fail({r})
    <3>1. /\ http[r] = "proxied" /\ UNCHANGED executed
          /\ \E code \in Failures : http' = [http EXCEPT ![r] = code]
      BY <2>4 DEF Timeout, SendFailed, Settle, Answer, Failures, Accounting
    <3>2. http'[r] \in Failures
      BY <3>1 DEF TypeOK
    <3>3. callView[r] = "forwarded" /\ callView'[r] = "failed"
      BY <3>1, <3>2 DEF callView, actorSees, Refusals, Failures
    <3>4. callView' = [callView EXCEPT ![r] = callView'[r]]
      BY <3>1, ViewExcept
    <3>. QED
      BY <3>1, <3>3, <3>4 DEF Contract!Fail, callView
  <2>. QED
    BY <1>2, <2>1, <2>2, <2>3, <2>4 DEF HttpStep, Contract!Next
<1>3. ASSUME NEW error, disconnectBridge(error), UNCHANGED executed
      PROVE  Contract!Fail(pending)
  <2>1. \A r \in pending : callView[r] = "forwarded"
    BY DEF Accounting, callView, actorSees, Refusals, TypeOK
  <2>2. \A r \in Requests : callView'[r] = IF r \in pending THEN "failed" ELSE callView[r]
    BY <1>3 DEF disconnectBridge, callView, actorSees, Refusals, TypeOK
  <2>. QED
    BY <1>3, <2>1, <2>2 DEF Contract!Fail, callView
<1>4. ASSUME NEW r \in Requests, TunnelStep(r)
      PROVE  [Contract!Next]_(Contract!vars)
  <2>1. ASSUME BridgeReply(r)
        PROVE  Contract!Reply(r) \/ Contract!Fail({r})
    <3>1. /\ http[r] = "proxied" /\ UNCHANGED executed
          /\ frame[r] \in Replies /\ http' = [http EXCEPT ![r] = frame[r]]
      BY <2>1 DEF BridgeReply, Settle, Answer, Accounting
    <3>2. callView' = [callView EXCEPT ![r] = callView'[r]]
      BY <3>1, ViewExcept
    <3>3. callView[r] = "forwarded"
      BY <3>1 DEF callView, actorSees, Refusals
    <3>4. CASE frame[r] = "broker_reply"
      <4>1. callView'[r] = "replied" /\ r \in executed
        BY <3>1, <3>4 DEF TypeOK, callView, actorSees, Refusals, Journeys, ServedExecuted
      <4>. QED
        BY <3>1, <3>2, <3>3, <4>1 DEF Contract!Reply
    <3>5. CASE frame[r] = "bridge_reply"
      <4>1. callView'[r] = "failed"
        BY <3>1, <3>5 DEF TypeOK, callView, actorSees, Refusals
      <4>. QED
        BY <3>1, <3>2, <3>3, <4>1 DEF Contract!Fail, callView
    <3>. QED
      BY <3>1, <3>4, <3>5 DEF Replies
  <2>2. ASSUME UnknownReply(r)
        PROVE  Contract!Fail(pending)
    BY <2>2, <1>3 DEF UnknownReply
  <2>. QED
    BY <1>4, <2>1, <2>2 DEF TunnelStep, Contract!Next, TypeOK
<1>5. ASSUME NEW r \in Requests, BridgeStep(r)
      PROVE  [Contract!Next]_(Contract!vars)
  <2>1. callView' = callView
    BY <1>5 DEF BridgeStep, HandleMessage, Execute, ForwardReply, ForwardError, Respond,
         relayVars, callView
  <2>2. ASSUME Execute(r)
        PROVE  Contract!Execute(r)
    <3>1. callView[r] \in {"forwarded", "failed"}
      BY <2>2 DEF Execute, callView, actorSees, Refusals, Journeys, NeverSent, ReplyDelivered, Replies, TypeOK
    <3>2. r \notin executed
      BY <2>2 DEF Execute, Journeys, ExecutedTravelled, Replies
    <3>. QED
      BY <2>1, <2>2, <3>1, <3>2 DEF Execute, Contract!Execute
  <2>3. CASE HandleMessage(r) \/ ForwardReply(r) \/ ForwardError(r)
    BY <2>1, <2>3 DEF HandleMessage, ForwardReply, ForwardError, Respond
  <2>. QED
    BY <1>5, <2>2, <2>3 DEF BridgeStep, Contract!Next
<1>6. CASE ConnectionStep
  <2>1. CASE BridgeClosed \/ Close
    <3>1. Contract!Fail(pending)
      BY <1>3, <2>1 DEF BridgeClosed, Close
    <3>. QED
      BY <3>1 DEF Contract!Next, TypeOK
  <2>2. CASE \/ AcceptUpgrade \/ RefuseUpgrade \/ BridgeClosing \/ connect
             \/ SocketClosed \/ CloseBridge \/ LinkBreaks
    BY <2>2 DEF AcceptUpgrade, RefuseUpgrade, BridgeClosing, connect, SocketClosed, CloseBridge,
         LinkBreaks, relayVars, callView
  <2>. QED
    BY <1>6, <2>1, <2>2 DEF ConnectionStep
<1>. QED
  BY <1>1, <1>2, <1>4, <1>5, <1>6 DEF Next

(* The relay and its bridge give the actors what RelayContract promises:    *)
(* one answer, no execution of a refused call, no broker reply without an   *)
(* execution, at most one execution.  (Its fairness is left to TLC.)        *)
THEOREM KeepsContract == Spec => Contract!Spec
<1>1. Spec => Contract!Init
  BY ContractInit DEF Spec
<1>2. IInv /\ IInv' /\ [Next]_vars => [Contract!Next]_(Contract!vars)
  BY ContractStep
<1>. QED
  BY <1>1, <1>2, Invariance, PTL DEF Spec, Contract!Spec
=============================================================================
