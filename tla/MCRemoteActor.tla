--------------------------- MODULE MCRemoteActor ---------------------------
(* Small instances of RemoteActor for TLC. *)
EXTENDS RemoteActor
=============================================================================
