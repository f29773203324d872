---------------------------- MODULE RelayContract ----------------------------
(***************************************************************************)
(* What an actor may rely on when it calls the broker through the relay,   *)
(* without the tunnel: a call is answered once; a refused call never       *)
(* reaches the broker; a call answered with the broker's reply has reached *)
(* it; a failed call says nothing, and may still reach it afterwards; the  *)
(* broker acts on a call at most once; a forwarded call ends.              *)
(***************************************************************************)
CONSTANT Requests

VARIABLES
    call,       \* the actor's view: waiting, sent on, or its answer
    executed    \* calls the broker has acted on

vars == <<call, executed>>

Init ==
    /\ call = [r \in Requests |-> "waiting"]
    /\ executed = {}

Refuse(r) ==
    /\ call[r] = "waiting"
    /\ call' = [call EXCEPT ![r] = "refused"]
    /\ UNCHANGED executed

Forward(r) ==
    /\ call[r] = "waiting"
    /\ call' = [call EXCEPT ![r] = "forwarded"]
    /\ UNCHANGED executed

Execute(r) ==
    /\ call[r] \in {"forwarded", "failed"}
    /\ r \notin executed
    /\ executed' = executed \union {r}
    /\ UNCHANGED call

Reply(r) ==
    /\ call[r] = "forwarded"
    /\ r \in executed
    /\ call' = [call EXCEPT ![r] = "replied"]
    /\ UNCHANGED executed

(* Calls fail alone, or together when what carries them goes. *)
Fail(S) ==
    /\ \A r \in S : call[r] = "forwarded"
    /\ call' = [r \in Requests |-> IF r \in S THEN "failed" ELSE call[r]]
    /\ UNCHANGED executed

Next ==
    \/ \E r \in Requests : Refuse(r) \/ Forward(r) \/ Execute(r) \/ Reply(r)
    \/ \E S \in SUBSET Requests : Fail(S)

End(r) == Reply(r) \/ \E S \in SUBSET Requests : r \in S /\ Fail(S)

Spec == Init /\ [][Next]_vars

FairSpec == Spec /\ \A r \in Requests : WF_vars(End(r))
=============================================================================
