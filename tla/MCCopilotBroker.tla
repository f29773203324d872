--------------------------- MODULE MCCopilotBroker ---------------------------
(* Small instances of CopilotBroker for TLC. *)
EXTENDS CopilotBroker, TLC

(* Requests, actors and session identifiers are interchangeable. *)
Symmetry == Permutations(Requests) \union Permutations(Actors) \union Permutations(Sessions)
=============================================================================
