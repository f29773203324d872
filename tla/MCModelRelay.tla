---------------------------- MODULE MCModelRelay ----------------------------
(* Small instances of ModelRelay for TLC. *)
EXTENDS ModelRelay, TLC

(* Requests of one kind, POST or DELETE, are interchangeable. *)
PostSymmetry == Permutations(Requests \ Deletes)
=============================================================================
