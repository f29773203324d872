----------------------------- MODULE MCActorTask -----------------------------
(* Either script; three attempts against a container that is started four times. *)
EXTENDS ActorTask
=============================================================================
