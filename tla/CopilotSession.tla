--------------------------- MODULE CopilotSession ---------------------------
(***************************************************************************)
(* One session of the broker's model backend                               *)
(* (packages/copilot-broker/src/copilot-sdk-backend.ts).  A prompt starts a *)
(* run of the Copilot SDK, which calls the actor's tools and in the end    *)
(* answers; each of these events goes through an AsyncResultQueue to some  *)
(* call of sendMessage (a turn).  Turns are cut short by their abort       *)
(* signal: the broker's request timeout.                                   *)
(*                                                                         *)
(* A run is named by the prompt turn that started it.  The SDK is external *)
(* and modelled from how the backend uses it: a run may go on after        *)
(* sendAndWait has given it up on its own timeout, which aborts nothing.   *)
(***************************************************************************)
EXTENDS Naturals, Sequences, FiniteSets

CONSTANTS
    Turns,      \* the calls of sendMessage ever made for this session
    Calls,      \* tool call identifiers the SDK ever uses
    None        \* no turn, no run, no tool call

ASSUME NoneAssumption == None \notin Turns \union Calls

VARIABLES
    turn,         \* where each sendMessage stands, or how it ended
    turnRun,      \* the run a turn belongs to
    got,          \* the run of the event a turn was given
    runActive,    \* state.runActive
    run,          \* the run of the last prompt
    going,        \* runs the SDK may still be at
    pendingTools, \* state.pendingTools, by tool call identifier
    caller,       \* the run that made each tool call, None if not made yet
    told,         \* tool calls the actor has been handed
    values,       \* AsyncResultQueue.#values
    waiters,      \* AsyncResultQueue.#waiters, by turn
    deleted,      \* the session is gone from #sessions
    unattended,   \* history: some run ended between two of its turns
    late          \* history: some run was heard of after it was given up

turnVars == <<turn, turnRun, got, told>>
runVars == <<runActive, run, going, pendingTools, caller>>
queueVars == <<values, waiters>>
history == <<unattended, late>>
vars == <<turnVars, runVars, queueVars, deleted, history>>

(* What the queue carries: a result or an error, of some run. *)
Events == [kind : {"assistant", "tool_calls", "error"},
           run : Turns \union {None}, call : Calls \union {None}]

Ended == {"answered", "failed", "rejected", "aborted"}

TypeOK ==
    /\ turn \in [Turns -> {"idle", "waiting"} \union Ended]
    /\ turnRun \in [Turns -> Turns \union {None}]
    /\ got \in [Turns -> Turns \union {None}]
    /\ runActive \in BOOLEAN
    /\ run \in Turns \union {None}
    /\ going \subseteq Turns
    /\ pendingTools \subseteq Calls
    /\ caller \in [Calls -> Turns \union {None}]
    /\ told \subseteq Calls
    /\ values \in Seq(Events)
    /\ waiters \in Seq(Turns)
    /\ deleted \in BOOLEAN
    /\ unattended \in BOOLEAN
    /\ late \in BOOLEAN

Init ==
    /\ turn = [t \in Turns |-> "idle"]
    /\ turnRun = [t \in Turns |-> None]
    /\ got = [t \in Turns |-> None]
    /\ runActive = FALSE
    /\ run = None
    /\ going = {}
    /\ pendingTools = {}
    /\ caller = [c \in Calls |-> None]
    /\ told = {}
    /\ values = <<>>
    /\ waiters = <<>>
    /\ deleted = FALSE
    /\ unattended = FALSE
    /\ late = FALSE

-----------------------------------------------------------------------------
(* AsyncResultQueue.                                                        *)

(* Bug: hands the entry over as it is, an error like a result. *)
SettleRaw(t, e) ==
    /\ turn' = [turn EXCEPT ![t] = e.kind]
    /\ got' = [got EXCEPT ![t] = e.run]
    /\ told' = told \union ({e.call} \ {None})

(* A turn is handed an event. *)
Settle(t, e) ==
    /\ turn' = [turn EXCEPT ![t] = IF e.kind = "error" THEN "failed" ELSE "answered"]
    /\ got' = [got EXCEPT ![t] = e.run]
    /\ told' = told \union ({e.call} \ {None})

(* push and fail: the event goes to the longest waiter, even one that has   *)
(* been aborted, whose settled promise ignores it, or else into the queue.  *)
Push(e) ==
    IF waiters = <<>>
    THEN /\ values' = Append(values, e)
         /\ UNCHANGED <<waiters, turn, got, told>>
    ELSE /\ waiters' = Tail(waiters)
         /\ UNCHANGED values
         /\ IF turn[Head(waiters)] = "waiting"
            THEN Settle(Head(waiters), e)
            ELSE UNCHANGED <<turn, got, told>>

(* Bug: always queues up behind what is already there. *)
ShiftAlwaysWaits(t) ==
    /\ turn' = [turn EXCEPT ![t] = "waiting"]
    /\ waiters' = Append(waiters, t)
    /\ UNCHANGED <<got, told, values>>

(* shift: the oldest event, or a place among the waiters. *)
Shift(t) ==
    IF values # <<>>
    THEN /\ Settle(t, Head(values))
         /\ values' = Tail(values)
         /\ UNCHANGED waiters
    ELSE /\ turn' = [turn EXCEPT ![t] = "waiting"]
         /\ waiters' = Append(waiters, t)
         /\ UNCHANGED <<got, told, values>>

(* Bug: the waiter is taken out, but nobody tells its turn. *)
AbortSilently(t) ==
    /\ waiters' = SelectSeq(waiters, LAMBDA u : u # t)
    /\ UNCHANGED <<turn, values, got, told>>

(* Bug, and how the listener reads: the entry is taken out.  Nobody takes   *)
(* the end of the aborted run then.                                         *)
AbortTakesEntry(t) ==
    /\ turn' = [turn EXCEPT ![t] = "aborted"]
    /\ waiters' = SelectSeq(waiters, LAMBDA u : u # t)
    /\ UNCHANGED <<values, got, told>>

(* The abort listener of shift looks for the waiter it created, but another *)
(* object stands in the list: the entry stays.                              *)
AbortWaiter(t) ==
    /\ turn' = [turn EXCEPT ![t] = "aborted"]
    /\ UNCHANGED <<values, waiters, got, told>>

-----------------------------------------------------------------------------
(* sendMessage.                                                             *)

Reject(t) ==
    /\ turn[t] = "idle"
    /\ turn' = [turn EXCEPT ![t] = "rejected"]
    /\ UNCHANGED <<turnRun, got, told, runVars, queueVars, deleted, history>>

(* Unknown session, or a prompt while a run is active. *)
RejectPrompt(t) == (deleted \/ runActive) /\ Reject(t)

SendPrompt(t) ==
    /\ turn[t] = "idle"
    /\ ~deleted /\ ~runActive
    /\ runActive' = TRUE
    /\ run' = t
    /\ going' = going \union {t}
    /\ turnRun' = [turnRun EXCEPT ![t] = t]
    /\ Shift(t)
    /\ UNCHANGED <<pendingTools, caller, deleted, history>>

(* Tool results without an active run, for no call, or for one that is not  *)
(* pending any more.  An actor answers calls it has been handed.            *)
RejectResults(t, results) ==
    /\ deleted \/ ~runActive \/ results = {} \/ ~(results \subseteq pendingTools)
    /\ Reject(t)

SendResults(t, results) ==
    /\ turn[t] = "idle"
    /\ ~deleted /\ runActive
    /\ results # {} /\ results \subseteq pendingTools
    /\ pendingTools' = pendingTools \ results
    /\ turnRun' = [turnRun EXCEPT ![t] = run]
    /\ Shift(t)
    /\ UNCHANGED <<runActive, run, going, caller, deleted, history>>

(* The signal fires: sendMessage rejects, and the SDK is asked to abort. *)
Abort(t) ==
    /\ turn[t] = "waiting"
    /\ AbortWaiter(t)
    /\ UNCHANGED <<turnRun, runVars, deleted, history>>

-----------------------------------------------------------------------------
(* The SDK.                                                                 *)

Event(kind, r, c) == [kind |-> kind, run |-> r, call |-> c]

(* A run that sendAndWait has given up, or of which a turn was aborted. *)
GivenUp(r) == r # run \/ ~runActive \/ \E t \in Turns : turnRun[t] = r /\ turn[t] = "aborted"

(* The handler of an actor's tool, which looks neither at the run nor at    *)
(* the session.  Identifiers are fresh: one that is pending is refused.     *)
ToolCall(c, r) ==
    /\ r \in going
    /\ caller[c] = None
    /\ caller' = [caller EXCEPT ![c] = r]
    /\ pendingTools' = pendingTools \union {c}
    /\ Push(Event("tool_calls", r, c))
    /\ late' = (late \/ GivenUp(r))
    /\ UNCHANGED <<turnRun, runActive, run, going, deleted, unattended>>

(* sendAndWait settles. *)
EndRun(e) ==
    /\ runActive
    /\ runActive' = FALSE
    /\ Push(e)
    /\ UNCHANGED <<turnRun, run, pendingTools, caller, deleted>>

(* It resolves with an answer of the session, when the run that gives it    *)
(* has the results of all its calls: its own run, or one still going.       *)
RunReplies(r) ==
    /\ r \in going
    /\ \A c \in pendingTools : caller[c] # r
    /\ EndRun(Event("assistant", r, None))
    /\ going' = going \ {r}
    /\ late' = (late \/ r # run)
    /\ UNCHANGED unattended

Waiting == {t \in Turns : turn[t] = "waiting"}

(* Each turn of the run has had its event: the actor is at work.            *)
BetweenTurns == \A t \in Turns : turnRun[t] = run => turn[t] \notin {"waiting", "aborted"}

(* It rejects or says nothing: an error of the model, an abort, or its own  *)
(* ten minutes, after which the run may go on.                              *)
RunFails ==
    /\ EndRun(Event("error", run, None))
    /\ going' = going \/ going' = going \ {run}
    /\ unattended' = (unattended \/ BetweenTurns)
    /\ UNCHANGED late

(* Bug: deletion does not fail the queue. *)
DeleteQuietly ==
    /\ ~deleted
    /\ deleted' = TRUE
    /\ pendingTools' = {}
    /\ UNCHANGED <<turnVars, queueVars, runActive, run, going, caller, history>>

(* deleteSession up to its first await. *)
Delete ==
    /\ ~deleted
    /\ deleted' = TRUE
    /\ pendingTools' = {}
    /\ Push(Event("error", None, None))
    /\ UNCHANGED <<turnRun, runActive, run, going, caller, history>>

-----------------------------------------------------------------------------
TurnStep(t) ==
    \/ RejectPrompt(t) \/ SendPrompt(t)
    \/ \E results \in SUBSET told : RejectResults(t, results) \/ SendResults(t, results)
    \/ Abort(t)

SdkStep ==
    \/ \E r \in Turns : RunReplies(r) \/ \E c \in Calls : ToolCall(c, r)
    \/ RunFails

Next == (\E t \in Turns : TurnStep(t)) \/ SdkStep \/ Delete

Spec == Init /\ [][Next]_vars

(* The request timeout of a waiting turn fires. *)
FairSpec == Spec /\ \A t \in Turns : WF_vars(Abort(t))

-----------------------------------------------------------------------------
(* Properties.                                                              *)

(* An actor that answers the calls it is handed never has two turns waiting *)
(* in one session, and events queue up only while none does.                *)
OneWaiter ==
    /\ Cardinality(Waiting) <= 1
    /\ values # <<>> => Waiting = {}

(* A turn is given an event of its own run, unless a run of the session     *)
(* failed between two of its turns, or was heard of after it was given up.  *)
(* After an abort it is the entry the aborted turn left that takes the end  *)
(* of its run out of the next prompt's way.                                 *)
OwnEvents ==
    unattended \/ late \/ \A t \in Turns : got[t] # None => got[t] = turnRun[t]

(* Deleting a session releases the turn that waits in it, whichever turns   *)
(* were aborted before, and none waits in it later.                         *)
DeleteReleases == deleted => Waiting = {}

(* The inductive invariant behind these: the turn that waits is the one the *)
(* queue would hand its next event to.  A turn gets to wait only by a prompt *)
(* that starts the run or by answering a pending call, whose event has been *)
(* handed over: so there is never more than one, and none in a session that *)
(* is deleted.                                                              *)
Issued == {c \in Calls : caller[c] # None}
Queued == {values[i].call : i \in DOMAIN values}

Balanced ==
    /\ \A t \in Waiting : waiters = <<t>>
    /\ waiters = <<>> \/ (values = <<>> /\ Len(waiters) = 1 /\ ~deleted)
    /\ (told \union pendingTools \union Queued) \ {None} \subseteq Issued
    /\ IsFiniteSet(pendingTools)
    /\ runActive => run # None
    /\ ~deleted =>
         Len(waiters) + Cardinality(pendingTools) <= Len(values) + (IF runActive THEN 1 ELSE 0)

(* While no run failed between two turns or was heard of too late: what     *)
(* queues up are calls of the active run that nobody was handed, and of     *)
(* those that were handed over one is pending, unless a turn of the run     *)
(* waits or has left its entry behind.                                      *)
Orderly ==
    /\ \A t \in Turns : got[t] # None => turn[t] # "idle" /\ got[t] = turnRun[t]
    /\ ~deleted /\ ~runActive => values = <<>> /\ waiters = <<>> /\ pendingTools = {}
    /\ ~deleted /\ runActive =>
         /\ \A c \in pendingTools : caller[c] = run
         /\ pendingTools \subseteq told \union Queued
         /\ \A i \in DOMAIN values :
              /\ values[i].run = run /\ values[i].call \in pendingTools \ told
              /\ \A j \in DOMAIN values : values[j].call = values[i].call => j = i
         /\ IF waiters = <<>>
            THEN BetweenTurns /\ \E c \in told : pendingTools \intersect told = {c}
            ELSE /\ pendingTools = {}
                 /\ turn[Head(waiters)] \in {"waiting", "aborted"}
                 /\ turnRun[Head(waiters)] = run

IInv == TypeOK /\ Balanced /\ (unattended \/ late \/ Orderly)

(* Liveness: a turn that waits ends. *)
TurnEnds == \A t \in Turns : turn[t] = "waiting" ~> turn[t] \in Ended
=============================================================================
