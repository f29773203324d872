----------------------------- MODULE TestCommand -----------------------------
(***************************************************************************)
(* One allowlisted command at a time, as WorkspacePolicy.bashOperations    *)
(* (packages/pi-actor/src/workspace-policy.ts) supervises it: a leader in  *)
(* a process group of its own, its descendants, the pipes they write to,   *)
(* and the timers and signals that are to end them.  A process may leave   *)
(* the group (setsid), close the pipes, start another or end at any time.  *)
(***************************************************************************)
EXTENDS Naturals

CONSTANTS
    Leader,       \* the process that is spawned
    Descendants   \* bound: processes it may start, at one time

ASSUME ProcessAssumption == Leader \notin Descendants

VARIABLES
    aborted,      \* options.signal.aborted
    exec,         \* where the call of exec stands
    alive,        \* processes there are, of this command or escaped from any
    grouped,      \* those in the command's process group
    holding,      \* those that hold the command's stdout or stderr
    terminating,  \* as in the code: the group has been sent SIGTERM
    timer,        \* the timer of timeoutMs is set
    killTimer,    \* the timer of 250 ms is set
    listening     \* abort is a listener of options.signal

processVars == <<alive, grouped, holding>>
timerVars == <<terminating, timer, killTimer, listening>>
commandVars == <<aborted, exec, processVars, timerVars>>

CommandTypeOK ==
    /\ aborted \in BOOLEAN
    /\ exec \in {"idle", "resolving", "running", "resolved", "rejected"}
    /\ alive \subseteq {Leader} \union Descendants
    /\ grouped \subseteq alive /\ holding \subseteq alive
    /\ terminating \in BOOLEAN /\ timer \in BOOLEAN
    /\ killTimer \in BOOLEAN /\ listening \in BOOLEAN

CommandInit ==
    /\ aborted = FALSE
    /\ exec = "idle"
    /\ alive = {} /\ grouped = {} /\ holding = {}
    /\ terminating = FALSE /\ timer = FALSE /\ killTimer = FALSE /\ listening = FALSE

-----------------------------------------------------------------------------
(* signalProcessTree: the members of the group end, but for those that      *)
(* catch the signal; a group without members is no error (ESRCH).           *)
Survive(procs) ==
    /\ alive' = alive \intersect procs
    /\ grouped' = grouped \intersect procs
    /\ holding' = holding \intersect procs

Sigterm == \E catching \in SUBSET grouped : Survive((alive \ grouped) \union catching)
Sigkill == Survive(alive \ grouped)

(* Bug: nothing follows a SIGTERM that is caught. *)
TerminateOnce ==
    /\ terminating' = TRUE
    /\ UNCHANGED killTimer
    /\ IF terminating THEN UNCHANGED processVars ELSE Sigterm

Terminate ==
    /\ terminating' = TRUE
    /\ killTimer' = (terminating => killTimer)
    /\ IF terminating THEN UNCHANGED processVars ELSE Sigterm

-----------------------------------------------------------------------------
(* exec, up to the first await: its signal is not looked at.                *)
Exec ==
    /\ exec = "idle"
    /\ exec' = "resolving"
    /\ UNCHANGED <<aborted, processVars, timerVars>>

(* Not in the allowlist, no such directory, or no such executable.          *)
Refuse ==
    /\ exec = "resolving"
    /\ exec' = "rejected"
    /\ UNCHANGED <<aborted, processVars, timerVars>>

Spawn ==
    /\ exec = "resolving"
    /\ exec' = "running"
    /\ alive' = alive \union {Leader}
    /\ grouped' = {Leader} /\ holding' = {Leader}
    /\ timer' = TRUE /\ listening' = TRUE
    /\ terminating' = FALSE
    /\ UNCHANGED <<aborted, killTimer>>

Timeout ==
    /\ timer
    /\ timer' = FALSE
    /\ Terminate
    /\ UNCHANGED <<aborted, exec, listening>>

(* The signal's abort event reaches only listeners that are there: a        *)
(* command that still resolves its directory does not hear of it.           *)
Abort ==
    /\ aborted' = TRUE
    /\ IF listening /\ ~aborted
       THEN Terminate /\ listening' = FALSE
       ELSE UNCHANGED <<processVars, terminating, killTimer, listening>>
    /\ UNCHANGED <<exec, timer>>

KillTimer ==
    /\ killTimer
    /\ killTimer' = FALSE
    /\ Sigkill
    /\ UNCHANGED <<aborted, exec, terminating, timer, listening>>

(* Bug: what the leader left in its group lives on.                         *)
ClosedLeavesGroup ==
    /\ exec = "running"
    /\ Leader \notin alive /\ holding = {}
    /\ exec' = "resolved"
    /\ timer' = FALSE /\ killTimer' = FALSE /\ listening' = FALSE
    /\ UNCHANGED <<aborted, processVars, terminating>>

(* The close event: the leader has ended and nobody holds its pipes.        *)
Closed ==
    /\ exec = "running"
    /\ Leader \notin alive /\ holding = {}
    /\ exec' = "resolved"
    /\ timer' = FALSE /\ killTimer' = FALSE /\ listening' = FALSE
    /\ Sigkill
    /\ UNCHANGED <<aborted, terminating>>

-----------------------------------------------------------------------------
(* What processes do by themselves.                                         *)

Fork(p, d) ==
    /\ p \in alive /\ d \notin alive
    /\ alive' = alive \union {d}
    /\ grouped' = IF p \in grouped THEN grouped \union {d} ELSE grouped
    /\ holding' = IF p \in holding THEN holding \union {d} ELSE holding

(* A group's leader cannot leave it. *)
Setsid(d) == d \in grouped /\ grouped' = grouped \ {d} /\ UNCHANGED <<alive, holding>>
ClosePipes(p) == p \in holding /\ holding' = holding \ {p} /\ UNCHANGED <<alive, grouped>>
End(p) == p \in alive /\ Survive(alive \ {p})

ProcessStep ==
    /\ \/ \E p \in alive, d \in Descendants : Fork(p, d)
       \/ \E d \in Descendants : Setsid(d)
       \/ \E p \in alive : ClosePipes(p) \/ End(p)
    /\ UNCHANGED <<aborted, exec, timerVars>>

CommandStep == Refuse \/ Spawn \/ Timeout \/ KillTimer \/ Closed

-----------------------------------------------------------------------------
(* A process that escaped the group holds the pipes: nothing the code does  *)
(* brings the close event about.                                            *)
HeldByEscaped == holding \ grouped # {}

(* A call of exec that has come to its end has no process left in its group, *)
(* and nothing that would signal a group of that number later.              *)
Quiet == grouped = {} /\ holding = {} /\ ~timer /\ ~killTimer /\ ~listening
=============================================================================
