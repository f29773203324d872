---------------------------- MODULE CopilotBroker ----------------------------
(***************************************************************************)
(* The broker on the trusted workstation                                   *)
(* (packages/copilot-broker/src/http-server.ts): actors create model       *)
(* sessions, send turns in them and delete them.  An action is what a      *)
(* handler does between two awaits.  The backend is any ModelBackend, known *)
(* by its contract only: it has a session from createSession until         *)
(* deleteSession, answers or fails each turn, and gives a turn up when its *)
(* signal fires.  CopilotSession models the one that is used.              *)
(***************************************************************************)
EXTENDS Naturals, FiniteSets

CONSTANTS
    Requests,       \* the HTTP requests ever made
    Actors,
    Sessions,       \* the session identifiers ever drawn
    MaxConcurrent,  \* BrokerServerOptions.maxConcurrentRequests
    None            \* no actor, no session

ASSUME RequestsAssumption == IsFiniteSet(Requests)
ASSUME LimitAssumption == MaxConcurrent \in Nat \ {0}
ASSUME NoneAssumption == None \notin Actors \union Sessions

VARIABLES
    handler,         \* where #handle stands for each request, or its answer
    actor,           \* the actor a handler has authenticated
    session,         \* the session a handler has looked up or created
    sessions,        \* the broker's #sessions: the owner of each
    activeRequests,  \* the broker's #activeRequests
    backend,         \* sessions the backend has
    spent,           \* identifiers drawn so far
    server,          \* BrokerServer.close: open, closing, deleting or closed
    hungUp           \* requests whose client went away before the answer

requestVars == <<handler, actor, session>>
sessionVars == <<sessions, backend, spent>>
serverVars == <<server, hungUp>>
vars == <<requestVars, sessionVars, activeRequests, serverVars>>

Awaiting == {"createBody", "creating", "messageBody", "sending", "deleting"}
Answers == {"refused", "created", "replied", "deleted", "concurrency_limit",
            "backend_error", "request_timeout"}

TypeOK ==
    /\ handler \in [Requests -> {"idle"} \union Awaiting \union Answers]
    /\ actor \in [Requests -> Actors \union {None}]
    /\ session \in [Requests -> Sessions \union {None}]
    /\ sessions \in [Sessions -> Actors \union {None}]
    /\ activeRequests \in Nat
    /\ backend \subseteq spent
    /\ spent \subseteq Sessions
    /\ server \in {"open", "closing", "deleting", "closed"}
    /\ hungUp \subseteq Requests

Init ==
    /\ handler = [r \in Requests |-> "idle"]
    /\ actor = [r \in Requests |-> None]
    /\ session = [r \in Requests |-> None]
    /\ sessions = [s \in Sessions |-> None]
    /\ activeRequests = 0
    /\ backend = {}
    /\ spent = {}
    /\ server = "open"
    /\ hungUp = {}

-----------------------------------------------------------------------------
(* A request arrives and is routed.                                         *)

(* A connection kept alive is served while the server closes. *)
Arrives(r, a) ==
    /\ server \in {"open", "closing"}
    /\ handler[r] = "idle"
    /\ actor' = [actor EXCEPT ![r] = a]

Step(r, stage) == handler' = [handler EXCEPT ![r] = stage]

(* 401 without a known token, 404 or 405 without a route. *)
Refuse(r) ==
    /\ Arrives(r, None)
    /\ Step(r, "refused")
    /\ UNCHANGED <<session, sessionVars, activeRequests, serverVars>>

(* POST /v1/session, up to its body. *)
ReadCreate(r, a) ==
    /\ Arrives(r, a)
    /\ Step(r, "createBody")
    /\ UNCHANGED <<session, sessionVars, activeRequests, serverVars>>

(* Bug: any actor's session will do. *)
OwnedByAny(a, s) == sessions[s] # None

Owned(a, s) == sessions[s] = a

(* 404 for a session that is not there (any more), 403 for another actor's. *)
RejectSession(r, a, s) ==
    /\ Arrives(r, a)
    /\ ~Owned(a, s)
    /\ Step(r, "refused")
    /\ UNCHANGED <<session, sessionVars, activeRequests, serverVars>>

ToSession(r, a, s) ==
    /\ Arrives(r, a)
    /\ Owned(a, s)
    /\ session' = [session EXCEPT ![r] = s]

RejectBusy(r, a, s) ==
    /\ ToSession(r, a, s)
    /\ activeRequests >= MaxConcurrent
    /\ Step(r, "concurrency_limit")
    /\ UNCHANGED <<sessionVars, activeRequests, serverVars>>

(* POST /v1/session/<s>/messages, up to its body. *)
ReadMessage(r, a, s) ==
    /\ ToSession(r, a, s)
    /\ activeRequests < MaxConcurrent
    /\ Step(r, "messageBody")
    /\ UNCHANGED <<sessionVars, activeRequests, serverVars>>

(* DELETE, with deleteSession up to its first await. *)
Delete(r, a, s) ==
    /\ ToSession(r, a, s)
    /\ Step(r, "deleting")
    /\ sessions' = [sessions EXCEPT ![s] = None]
    /\ backend' = backend \ {s}
    /\ UNCHANGED <<spent, activeRequests, serverVars>>

(* Too large, not JSON, not a request, or cut off. *)
InvalidBody(r) ==
    /\ handler[r] \in {"createBody", "messageBody"}
    /\ Step(r, "refused")
    /\ UNCHANGED <<actor, session, sessionVars, activeRequests, serverVars>>

-----------------------------------------------------------------------------
(* Sessions.                                                                *)

CreateSession(r) ==
    /\ handler[r] = "createBody"
    /\ Step(r, "creating")
    /\ UNCHANGED <<actor, session, sessionVars, activeRequests, serverVars>>

(* The backend has made the session; its identifier is fresh. *)
Created(r, s) ==
    /\ handler[r] = "creating"
    /\ s \notin spent
    /\ Step(r, "created")
    /\ session' = [session EXCEPT ![r] = s]
    /\ sessions' = [sessions EXCEPT ![s] = actor[r]]
    /\ backend' = backend \union {s}
    /\ spent' = spent \union {s}
    /\ UNCHANGED <<actor, activeRequests, serverVars>>

CreateFailed(r) ==
    /\ handler[r] = "creating"
    /\ Step(r, "backend_error")
    /\ UNCHANGED <<actor, session, sessionVars, activeRequests, serverVars>>

(* deleteSession comes to its end, or rejects. *)
DeleteEnds(r) ==
    /\ handler[r] = "deleting"
    /\ Step(r, "deleted") \/ Step(r, "backend_error")
    /\ UNCHANGED <<actor, session, sessionVars, activeRequests, serverVars>>

-----------------------------------------------------------------------------
(* Turns.                                                                   *)

(* Bug: the slot is taken before the turn's own try block. *)
SendMessageLeaksSlot(r) ==
    /\ handler[r] = "messageBody"
    /\ activeRequests' = activeRequests + 1
    /\ Step(r, IF session[r] \in backend THEN "sending" ELSE "backend_error")
    /\ UNCHANGED <<actor, session, sessionVars, serverVars>>

(* The session may be gone by now: the backend throws at once, and finally  *)
(* gives the slot back.                                                     *)
SendMessage(r) ==
    /\ handler[r] = "messageBody"
    /\ IF session[r] \in backend
       THEN /\ Step(r, "sending")
            /\ activeRequests' = activeRequests + 1
       ELSE /\ Step(r, "backend_error")
            /\ UNCHANGED activeRequests
    /\ UNCHANGED <<actor, session, sessionVars, serverVars>>

(* Bug: the slot is given back with the timer, and once more at the end. *)
EndTurnTwice(r, code) ==
    /\ handler[r] = "sending" \/ (handler[r] = "request_timeout" /\ code = "backend_error")
    /\ Step(r, code)
    /\ activeRequests' = activeRequests - 1
    /\ UNCHANGED <<actor, session, sessionVars, serverVars>>

EndTurn(r, code) ==
    /\ handler[r] = "sending"
    /\ Step(r, code)
    /\ activeRequests' = activeRequests - 1
    /\ UNCHANGED <<actor, session, sessionVars, serverVars>>

TurnReplies(r) == EndTurn(r, "replied")

(* An error of the backend, or the end of the turn's session. *)
TurnFails(r) == EndTurn(r, "backend_error")

(* The timer fires the signal, on which the backend gives up. *)
Timeout(r) == EndTurn(r, "request_timeout")

-----------------------------------------------------------------------------
(* BrokerServer.close.                                                      *)

(* A client goes away: its handler does not notice. *)
HangUp(r) ==
    /\ handler[r] \in {"creating", "sending", "deleting"}
    /\ hungUp' = hungUp \union {r}
    /\ UNCHANGED <<requestVars, sessionVars, activeRequests, server>>

Close ==
    /\ server = "open"
    /\ server' = "closing"
    /\ UNCHANGED <<requestVars, sessionVars, activeRequests, hungUp>>

(* Bug: the sessions are deleted without waiting for the server. *)
DeleteSessionsAtOnce ==
    /\ server = "closing"
    /\ server' = "deleting"
    /\ backend' = {s \in backend : sessions[s] = None}
    /\ UNCHANGED <<requestVars, sessions, spent, activeRequests, hungUp>>

(* The server has closed once no connection is left: handlers whose client  *)
(* hung up may still be at work.  The backend drops each listed session as  *)
(* it is told to; the list is kept while the deletions are awaited.         *)
DeleteSessions ==
    /\ server = "closing"
    /\ \A r \in Requests : handler[r] \in Awaiting => r \in hungUp
    /\ server' = "deleting"
    /\ backend' = {s \in backend : sessions[s] = None}
    /\ UNCHANGED <<requestVars, sessions, spent, activeRequests, hungUp>>

(* Bug: the backend is not closed after its sessions are deleted. *)
ClosedListOnly ==
    /\ server = "deleting"
    /\ server' = "closed"
    /\ sessions' = [s \in Sessions |-> None]
    /\ UNCHANGED <<requestVars, backend, spent, activeRequests, hungUp>>

(* The deletions have settled: the list is cleared, and the backend's close *)
(* drops what a creation brought meanwhile.  One that ends later stays.     *)
Closed ==
    /\ server = "deleting"
    /\ server' = "closed"
    /\ sessions' = [s \in Sessions |-> None]
    /\ backend' = {}
    /\ UNCHANGED <<requestVars, spent, activeRequests, hungUp>>

-----------------------------------------------------------------------------
Arrival(r) ==
    \/ Refuse(r)
    \/ \E a \in Actors :
         \/ ReadCreate(r, a)
         \/ \E s \in Sessions :
              RejectSession(r, a, s) \/ RejectBusy(r, a, s) \/ ReadMessage(r, a, s)
                \/ Delete(r, a, s)

Progress(r) ==
    \/ InvalidBody(r) \/ CreateSession(r) \/ CreateFailed(r) \/ DeleteEnds(r)
    \/ \E s \in Sessions : Created(r, s)
    \/ SendMessage(r) \/ TurnReplies(r) \/ TurnFails(r) \/ Timeout(r)
    \/ HangUp(r)

Next == (\E r \in Requests : Arrival(r) \/ Progress(r)) \/ Close \/ DeleteSessions \/ Closed

Spec == Init /\ [][Next]_vars

-----------------------------------------------------------------------------
(* Properties.                                                              *)

Turns == {r \in Requests : handler[r] = "sending"}

(* The slots taken are those of the turns the backend works on, whatever    *)
(* combination of replies, errors, timers and vanished sessions ended the   *)
(* others.                                                                  *)
SlotsCounted == activeRequests = Cardinality(Turns)

(* The backend keeps no session that no request can reach any more; and it  *)
(* has every session a request can be let into: only while close awaits the *)
(* deletions are there sessions still listed that the backend has dropped,  *)
(* when no request arrives or is still to be looked up.                     *)
SessionsInStep ==
    /\ \A s \in backend : sessions[s] # None
    /\ (\E s \in Sessions \ backend : sessions[s] # None) =>
          /\ server = "deleting"
          /\ \A r \in Requests : handler[r] \notin {"createBody", "messageBody"}

(* The session a handler works in belongs to its own actor, for as long as  *)
(* it is listed: across the await of the body, and whoever else deletes.    *)
OwnSession ==
    \A r \in Requests :
        session[r] # None =>
            /\ session[r] \in spent
            /\ sessions[session[r]] \in {actor[r], None}

(* Once the server has closed, whoever still waits has hung up, and a       *)
(* session is only left behind by a creation whose client hung up.          *)
ClosedClean ==
    server \in {"deleting", "closed"} =>
        /\ \A r \in Requests : handler[r] \in Awaiting => r \in hungUp
        /\ \A s \in backend : \E r \in hungUp : handler[r] = "created" /\ session[r] = s

(* As documented and tested: turns beyond the limit are turned away.        *)
ConcurrencyLimit == activeRequests <= MaxConcurrent

(* The inductive invariant behind the safety properties.                    *)
Identified ==
    /\ \A r \in Requests :
         /\ handler[r] = "idle" => session[r] = None
         /\ handler[r] \in {"createBody", "creating"} => session[r] = None /\ actor[r] \in Actors
         /\ session[r] # None => actor[r] \in Actors
    /\ \A s \in Sessions : s \notin spent => sessions[s] = None
    /\ \A r \in hungUp : handler[r] \notin {"idle", "createBody", "messageBody"}

IInv == TypeOK /\ SlotsCounted /\ SessionsInStep /\ OwnSession /\ ClosedClean /\ Identified
=============================================================================
