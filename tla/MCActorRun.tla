------------------------------ MODULE MCActorRun ------------------------------
(* Files that any actor may have, one of node_modules, one of protected path *)
(* (in a directory whose name any file may take) and one of credential path; *)
(* sources of at most three files, of which the actor takes two.            *)
EXTENDS ActorRun

MCInside == {<<"policy", "math">>}
MCClientOptions == [maxFiles |-> 3, overMaxFileBytes |-> {}, maxPatchFiles |-> 2]
MCActorOptions == [maxFiles |-> 2, overMaxFileBytes |-> {"huge"}, maxPatchFiles |-> 2]
=============================================================================
