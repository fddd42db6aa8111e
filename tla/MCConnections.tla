-------------------------- MODULE MCConnections ---------------------------
(* Three upgrade requests, two of them from one address. *)
EXTENDS Connections, TLC
CONSTANTS k1, k2, k3, ip1, ip2

MCIPOf == (k1 :> ip1) @@ (k2 :> ip1) @@ (k3 :> ip2)
=============================================================================
