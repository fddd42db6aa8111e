--------------------------- MODULE MCNegSessions ---------------------------
(* Instances of NegSessions for TLC. *)
EXTENDS NegSessions
=============================================================================
