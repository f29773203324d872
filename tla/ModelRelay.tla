----------------------------- MODULE ModelRelay -----------------------------
(***************************************************************************)
(* The brokered model path: untrusted actors send HTTP requests to the     *)
(* relay (packages/model-relay/src/relay-server.ts), which carries them    *)
(* over one WebSocket tunnel to the bridge on the trusted workstation      *)
(* (trusted-bridge.ts), which calls the local broker.                      *)
(*                                                                         *)
(* Both programs are single threaded, so an action is one run of the       *)
(* event loop: everything a handler does up to its next `await`, with the  *)
(* promise continuations it settles.  Frames of one connection are kept as *)
(* the position of each request on its way (frame), not as queues: the     *)
(* bridge forwards concurrently, so answers come back in any order.        *)
(***************************************************************************)
EXTENDS Naturals, FiniteSets

CONSTANTS
    Requests,        \* the HTTP requests actors ever send, by request id
    Deletes,         \* those that are DELETEs: no body to wait for
    MaxConcurrent,   \* RelayServerOptions.maxConcurrentRequests
    MaxConnections   \* bound: tunnel connections the operator attempts

ASSUME RequestsAssumption == IsFiniteSet(Requests) /\ Deletes \subseteq Requests
ASSUME LimitAssumption == MaxConcurrent \in Nat \ {0} /\ MaxConnections \in Nat

VARIABLES
    http,              \* where #handleHttp stands for each request
    pending,           \* the relay's #pending map, by request id
    activeRequests,    \* the relay's #activeRequests
    bridge,            \* the relay's #bridge: a connection number, 0 for undefined
    bridgeState,       \* readyState of the relay's end of #bridge
    lastBridgeFailure, \* the relay's #lastBridgeFailure
    listening,         \* the relay's HTTP server accepts connections
    conn,              \* number of the bridge's latest connection
    socketState,       \* readyState of the bridge's #socket, CLOSED for undefined
    linkUp,            \* the network still carries the tunnel connection
    frame,             \* how far each request has travelled
    sentOn,            \* connection each request was written to, 0 before
    executed           \* requests the broker has acted on

relayVars  == <<http, pending, activeRequests, bridge, bridgeState,
                lastBridgeFailure, listening>>
bridgeVars == <<conn, socketState>>
vars == <<relayVars, bridgeVars, linkUp, frame, sentOn, executed>>

(* Answers an actor can get: the broker's own, the bridge's 403 or 502, and *)
(* the codes of RelayHttpError.                                             *)
Refusals == {"unauthorized", "body_rejected", "concurrency_limit", "relay_unavailable"}
Failures == {"bridge_timeout", "bridge_error"}
Replies  == {"broker_reply", "bridge_reply"}
Answers  == Refusals \union Failures \union Replies

(* Frames: written towards the bridge; in #forward before and after the     *)
(* broker acted; written back with the broker's or the bridge's answer;     *)
(* dropped before the bridge read it; at its end.                           *)
Frames == {"none", "toBridge", "forwarding", "served"} \union Replies
            \union {"lost", "gone"}

TypeOK ==
    /\ http \in [Requests -> {"idle", "body", "proxied"} \union Answers]
    /\ pending \subseteq Requests
    /\ activeRequests \in Nat
    /\ bridge \in 0..MaxConnections
    /\ bridgeState \in {"OPEN", "CLOSING"}
    /\ lastBridgeFailure \in {"none", "disconnected", "unknown_response", "closing"}
    /\ listening \in BOOLEAN
    /\ conn \in 0..MaxConnections
    /\ socketState \in {"CLOSED", "CONNECTING", "OPEN"}
    /\ linkUp \in BOOLEAN
    /\ frame \in [Requests -> Frames]
    /\ sentOn \in [Requests -> 0..MaxConnections]
    /\ executed \subseteq Requests

Init ==
    /\ http = [r \in Requests |-> "idle"]
    /\ pending = {}
    /\ activeRequests = 0
    /\ bridge = 0
    /\ bridgeState = "OPEN"
    /\ lastBridgeFailure = "none"
    /\ listening = TRUE
    /\ conn = 0
    /\ socketState = "CLOSED"
    /\ linkUp = FALSE
    /\ frame = [r \in Requests |-> "none"]
    /\ sentOn = [r \in Requests |-> 0]
    /\ executed = {}

-----------------------------------------------------------------------------
(* The relay's HTTP side.                                                   *)

bridgeConnected == bridge # 0 /\ bridgeState = "OPEN"

Answer(r, code) == http' = [http EXCEPT ![r] = code]

(* No token, or a route the tunnel does not carry. *)
Refuse(r) ==
    /\ listening /\ http[r] = "idle"
    /\ Answer(r, "unauthorized")
    /\ UNCHANGED <<pending, activeRequests, bridge, bridgeState, lastBridgeFailure,
                   listening, bridgeVars, linkUp, frame, sentOn, executed>>

RejectUnavailable(r) ==
    /\ \/ listening /\ http[r] = "idle"
       \/ http[r] = "body"
    /\ ~bridgeConnected
    /\ Answer(r, "relay_unavailable")
    /\ UNCHANGED <<pending, activeRequests, bridge, bridgeState, lastBridgeFailure,
                   listening, bridgeVars, linkUp, frame, sentOn, executed>>

RejectBusy(r) ==
    /\ listening /\ http[r] = "idle"
    /\ bridgeConnected
    /\ activeRequests >= MaxConcurrent
    /\ Answer(r, "concurrency_limit")
    /\ UNCHANGED <<pending, activeRequests, bridge, bridgeState, lastBridgeFailure,
                   listening, bridgeVars, linkUp, frame, sentOn, executed>>

(* What #handleHttp checks before it awaits the body. *)
Admitted(r) ==
    /\ listening /\ http[r] = "idle"
    /\ bridgeConnected
    /\ activeRequests < MaxConcurrent

ReadBody(r) ==
    /\ r \notin Deletes
    /\ Admitted(r)
    /\ http' = [http EXCEPT ![r] = "body"]
    /\ UNCHANGED <<pending, activeRequests, bridge, bridgeState, lastBridgeFailure,
                   listening, bridgeVars, linkUp, frame, sentOn, executed>>

(* The body is too large, or the actor hung up while sending it. *)
BodyRejected(r) ==
    /\ http[r] = "body"
    /\ Answer(r, "body_rejected")
    /\ UNCHANGED <<pending, activeRequests, bridge, bridgeState, lastBridgeFailure,
                   listening, bridgeVars, linkUp, frame, sentOn, executed>>

ReadyToProxy(r) == (r \in Deletes /\ Admitted(r)) \/ http[r] = "body"

(* A write to a connection that is already dead is accepted and lost. *)
Proxy(r) ==
    /\ ReadyToProxy(r)
    /\ bridgeConnected
    /\ activeRequests' = activeRequests + 1
    /\ http' = [http EXCEPT ![r] = "proxied"]
    /\ pending' = pending \union {r}
    /\ sentOn' = [sentOn EXCEPT ![r] = bridge]
    /\ frame' = [frame EXCEPT ![r] = IF linkUp THEN "toBridge" ELSE "lost"]
    /\ UNCHANGED <<bridge, bridgeState, lastBridgeFailure, listening,
                   bridgeVars, linkUp, executed>>

(* Bug: the finally block is forgotten, the slot leaks. *)
SettleLeaksSlot(r, code) ==
    /\ Answer(r, code)
    /\ pending' = pending \ {r}
    /\ UNCHANGED activeRequests

(* One pending promise settles: its entry goes, and the finally block of    *)
(* #handleHttp gives its slot back.                                         *)
Settle(r, code) ==
    /\ Answer(r, code)
    /\ pending' = pending \ {r}
    /\ activeRequests' = activeRequests - 1

Timeout(r) ==
    /\ r \in pending
    /\ Settle(r, "bridge_timeout")
    /\ UNCHANGED <<bridge, bridgeState, lastBridgeFailure, listening,
                   bridgeVars, linkUp, frame, sentOn, executed>>

(* The callback of bridge.send reports an error: the frame never left. *)
SendFailed(r) ==
    /\ r \in pending
    /\ bridgeState = "CLOSING"
    /\ frame[r] \in {"toBridge", "lost"}
    /\ Settle(r, "bridge_error")
    /\ frame' = [frame EXCEPT ![r] = "lost"]
    /\ UNCHANGED <<bridge, bridgeState, lastBridgeFailure, listening,
                   bridgeVars, linkUp, sentOn, executed>>

-----------------------------------------------------------------------------
(* The relay's tunnel side.                                                 *)

Returning == {r \in Requests : frame[r] \in Replies}

(* Bug: the pending requests are left to their timers. *)
disconnectLeavesPending(error) ==
    /\ lastBridgeFailure' = error
    /\ bridge' = 0
    /\ linkUp' = FALSE
    /\ frame' = [r \in Requests |-> IF r \in Returning THEN "gone" ELSE frame[r]]
    /\ UNCHANGED <<http, activeRequests, pending>>

(* Bug: the map and its timers are cleared, the promises never settle. *)
disconnectSettlesNothing(error) ==
    /\ lastBridgeFailure' = error
    /\ bridge' = 0
    /\ linkUp' = FALSE
    /\ pending' = {}
    /\ frame' = [r \in Requests |-> IF r \in Returning THEN "gone" ELSE frame[r]]
    /\ UNCHANGED <<http, activeRequests>>

(* Bug: rejected but neither cleared nor untimed, so settled once more. *)
disconnectKeepsEntries(error) ==
    /\ lastBridgeFailure' = error
    /\ bridge' = 0
    /\ linkUp' = FALSE
    /\ http' = [r \in Requests |-> IF r \in pending THEN "bridge_error" ELSE http[r]]
    /\ activeRequests' = activeRequests - Cardinality(pending)
    /\ frame' = [r \in Requests |-> IF r \in Returning THEN "gone" ELSE frame[r]]
    /\ UNCHANGED pending

disconnectBridge(error) ==
    /\ lastBridgeFailure' = error
    /\ bridge' = 0
    /\ linkUp' = FALSE
    /\ http' = [r \in Requests |-> IF r \in pending THEN "bridge_error" ELSE http[r]]
    /\ activeRequests' = activeRequests - Cardinality(pending)
    /\ pending' = {}
    /\ frame' = [r \in Requests |-> IF r \in Returning THEN "gone" ELSE frame[r]]

AcceptUpgrade ==
    /\ listening
    /\ socketState = "CONNECTING"
    /\ bridge = 0
    /\ bridge' = conn
    /\ bridgeState' = "OPEN"
    /\ lastBridgeFailure' = "none"
    /\ socketState' = "OPEN"
    /\ linkUp' = TRUE
    /\ UNCHANGED <<http, pending, activeRequests, listening, conn, frame, sentOn, executed>>

(* 401 while a bridge is connected, or nobody listens any more. *)
RefuseUpgrade ==
    /\ socketState = "CONNECTING"
    /\ bridge # 0 \/ ~listening
    /\ socketState' = "CLOSED"
    /\ UNCHANGED <<relayVars, conn, linkUp, frame, sentOn, executed>>

(* A response frame whose id is pending settles it. *)
BridgeReply(r) ==
    /\ bridgeConnected
    /\ frame[r] \in Replies
    /\ r \in pending
    /\ Settle(r, frame[r])
    /\ frame' = [frame EXCEPT ![r] = "gone"]
    /\ UNCHANGED <<bridge, bridgeState, lastBridgeFailure, listening,
                   bridgeVars, linkUp, sentOn, executed>>

(* A response frame with any other id disconnects the bridge. *)
UnknownReply(r) ==
    /\ bridgeConnected
    /\ frame[r] \in Replies
    /\ r \notin pending
    /\ disconnectBridge("unknown_response")
    /\ UNCHANGED <<bridgeState, listening, bridgeVars, sentOn, executed>>

BridgeClosing ==
    /\ bridgeConnected
    /\ ~linkUp
    /\ bridgeState' = "CLOSING"
    /\ UNCHANGED <<http, pending, activeRequests, bridge, lastBridgeFailure, listening,
                   bridgeVars, linkUp, frame, sentOn, executed>>

(* The socket's "close" or "error" event. *)
BridgeClosed ==
    /\ bridge # 0 /\ bridgeState = "CLOSING"
    /\ disconnectBridge("disconnected")
    /\ UNCHANGED <<bridgeState, listening, bridgeVars, sentOn, executed>>

(* RelayServer.close: the bridge first, then the HTTP server. *)
Close ==
    /\ listening
    /\ listening' = FALSE
    /\ disconnectBridge("closing")
    /\ UNCHANGED <<bridgeState, bridgeVars, sentOn, executed>>

-----------------------------------------------------------------------------
(* The trusted bridge, the broker behind it and the network between.        *)

connect ==
    /\ socketState = "CLOSED"
    /\ conn < MaxConnections
    /\ conn' = conn + 1
    /\ socketState' = "CONNECTING"
    /\ UNCHANGED <<relayVars, linkUp, frame, sentOn, executed>>

(* #handleMessage up to the fetch. *)
HandleMessage(r) ==
    /\ frame[r] = "toBridge"
    /\ socketState = "OPEN" /\ sentOn[r] = conn
    /\ frame' = [frame EXCEPT ![r] = "forwarding"]
    /\ UNCHANGED <<relayVars, bridgeVars, linkUp, sentOn, executed>>

(* The broker acts on the request and answers it. *)
Execute(r) ==
    /\ frame[r] = "forwarding"
    /\ frame' = [frame EXCEPT ![r] = "served"]
    /\ executed' = executed \union {r}
    /\ UNCHANGED <<relayVars, bridgeVars, linkUp, sentOn>>

(* Bug: the answer goes out on whatever socket is current by then. *)
RespondOnCurrent(r, reply) ==
    /\ frame' = [frame EXCEPT ![r] =
                   IF socketState = "OPEN" /\ linkUp THEN reply ELSE "gone"]
    /\ UNCHANGED <<relayVars, bridgeVars, linkUp, sentOn, executed>>

(* The rest of #handleMessage: the response goes out on the socket the      *)
(* request came in on, if that one is still open.                           *)
Respond(r, reply) ==
    /\ frame' = [frame EXCEPT ![r] =
                   IF socketState = "OPEN" /\ sentOn[r] = conn /\ linkUp
                   THEN reply ELSE "gone"]
    /\ UNCHANGED <<relayVars, bridgeVars, linkUp, sentOn, executed>>

(* Bug: the bridge acknowledges before the broker has answered. *)
ForwardEarlyReply(r) == frame[r] = "forwarding" /\ Respond(r, "broker_reply")

ForwardReply(r) == frame[r] = "served" /\ Respond(r, "broker_reply")

(* 403 for an actor the bridge has no token for, 502 when the fetch fails   *)
(* before or after the broker acted, or its answer is too large.            *)
ForwardError(r) == frame[r] \in {"forwarding", "served"} /\ Respond(r, "bridge_reply")

(* The bridge's socket closes or fails: frames it has not read are dropped. *)
DropUnread == [r \in Requests |->
                 IF frame[r] = "toBridge" /\ sentOn[r] = conn THEN "lost" ELSE frame[r]]

SocketClosed ==
    /\ socketState = "OPEN" /\ ~linkUp
    /\ socketState' = "CLOSED"
    /\ frame' = DropUnread
    /\ UNCHANGED <<relayVars, conn, linkUp, sentOn, executed>>

(* TrustedBridge.close by the operator. *)
CloseBridge ==
    /\ socketState = "OPEN"
    /\ socketState' = "CLOSED"
    /\ linkUp' = FALSE
    /\ frame' = DropUnread
    /\ UNCHANGED <<relayVars, conn, sentOn, executed>>

(* A port-forward or the network dies; neither end has noticed yet. *)
LinkBreaks ==
    /\ linkUp
    /\ linkUp' = FALSE
    /\ UNCHANGED <<relayVars, bridgeVars, frame, sentOn, executed>>

-----------------------------------------------------------------------------
HttpStep(r) ==
    \/ Refuse(r) \/ RejectUnavailable(r) \/ RejectBusy(r)
    \/ ReadBody(r) \/ BodyRejected(r) \/ Proxy(r)
    \/ Timeout(r) \/ SendFailed(r)

TunnelStep(r) == BridgeReply(r) \/ UnknownReply(r)

BridgeStep(r) == HandleMessage(r) \/ Execute(r) \/ ForwardReply(r) \/ ForwardError(r)

ConnectionStep ==
    \/ AcceptUpgrade \/ RefuseUpgrade \/ BridgeClosing \/ BridgeClosed \/ Close
    \/ connect \/ SocketClosed \/ CloseBridge \/ LinkBreaks

Next ==
    \/ \E r \in Requests : HttpStep(r) \/ TunnelStep(r) \/ BridgeStep(r)
    \/ ConnectionStep

Spec == Init /\ [][Next]_vars

(* The only thing the code guarantees to happen is its own timer: nothing   *)
(* makes the broker answer, the bridge reconnect or a dead link show.       *)
FairSpec == Spec /\ \A r \in Requests : WF_vars(Timeout(r))

-----------------------------------------------------------------------------
(* Safety.                                                                  *)

(* The slots counted against the concurrency limit are exactly the entries  *)
(* of the pending map, which are exactly the handlers awaiting the tunnel:  *)
(* neither a timeout, a send error, a late answer nor a lost bridge, in any *)
(* order, leaks a slot or gives one back twice.                             *)
Accounting ==
    /\ pending = {r \in Requests : http[r] = "proxied"}
    /\ activeRequests = Cardinality(pending)

(* Fail closed: no request waits for an answer on a tunnel the relay has    *)
(* already given up, nor on another connection than the current one.        *)
FailClosed == \A r \in pending : bridge # 0 /\ sentOn[r] = bridge

(* The relay drops its bridge for an unknown response id only if one of its *)
(* own timeouts made that id unknown: a bridge that reconnects is never     *)
(* dropped for work left over from its previous connection, nor for an      *)
(* answer that crosses a send error.                                        *)
DropOnlyAfterTimeout ==
    lastBridgeFailure = "unknown_response" =>
        \E r \in Requests : http[r] = "bridge_timeout" /\ frame[r] = "gone"

(* A request answered 401, 404, 413, 429 or 503 has not reached and never   *)
(* reaches the broker, so an actor may send it again.                       *)
RefusedNeverExecuted ==
    \A r \in Requests : http[r] \in Refusals => r \notin executed

(* An answer is final: whatever arrives or fails later, no request is       *)
(* answered twice.                                                          *)
AnswersFinal ==
    [][\A r \in Requests : http[r] \in Answers => http'[r] = http[r]]_vars

(* Liveness: a request that entered the tunnel is answered, though nothing  *)
(* but the relay's own timer can be counted on.                             *)
EventuallyAnswered ==
    \A r \in Requests : http[r] = "proxied" ~> http[r] \in Answers

-----------------------------------------------------------------------------
(* The inductive invariant behind the safety properties.                    *)

(* Connection numbers: nothing is newer than the bridge's latest attempt,   *)
(* and a connection being set up carries nothing yet.                       *)
Connections ==
    /\ bridge <= conn
    /\ \A r \in Requests : sentOn[r] <= conn
    /\ socketState = "CONNECTING" =>
          conn # 0 /\ bridge # conn /\ \A r \in Requests : sentOn[r] # conn
    /\ linkUp => bridge # 0 /\ bridge = conn /\ socketState = "OPEN"

(* Where a request stands at the relay and how far its frame got.           *)
NeverSent(r) == frame[r] = "none" <=> http[r] \in {"idle", "body"} \union Refusals

InTransit(r) == frame[r] \in {"toBridge", "forwarding", "served"} \union Replies

(* An answer on its way comes back on the relay's current connection.       *)
ReturnsHome(r) == frame[r] \in Replies => bridge # 0 /\ sentOn[r] = bridge

(* A frame that can still come back on the current connection is expected,  *)
(* or was given up by a timeout.                                            *)
Expected(r) ==
    InTransit(r) /\ bridge # 0 /\ sentOn[r] = bridge =>
        r \in pending \/ http[r] = "bridge_timeout"

ExecutedTravelled(r) == r \in executed => frame[r] \in {"served", "gone"} \union Replies

(* The broker's own answer exists once it acted, and a delivered answer has *)
(* left the tunnel.                                                         *)
ServedExecuted(r) == frame[r] \in {"served", "broker_reply"} => r \in executed
ReplyDelivered(r) == http[r] \in Replies => frame[r] = "gone"

Journeys ==
    \A r \in Requests :
        /\ NeverSent(r)
        /\ ReturnsHome(r)
        /\ Expected(r)
        /\ ExecutedTravelled(r)
        /\ ServedExecuted(r)
        /\ ReplyDelivered(r)

IInv == TypeOK /\ Accounting /\ FailClosed /\ Connections /\ Journeys /\ DropOnlyAfterTimeout

-----------------------------------------------------------------------------
(* The relay keeps its contract with the actors.                            *)

actorSees(status) ==
    CASE status \in {"idle", "body"} -> "waiting"
      [] status \in Refusals         -> "refused"
      [] status = "proxied"          -> "forwarded"
      [] status = "broker_reply"     -> "replied"
      [] OTHER                       -> "failed"

callView == [r \in Requests |-> actorSees(http[r])]

Contract == INSTANCE RelayContract WITH call <- callView

ImplementsContract == Contract!FairSpec
=============================================================================
