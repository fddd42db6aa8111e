---------------------------- MODULE MCRelaySync ----------------------------
(***************************************************************************)
(* Instances of RelaySync for TLC.  Of four events, 1 and 4 are versions   *)
(* of one product and 3 is a deletion.  Of two, both are versions of one   *)
(* product, and so far apart that they lie in different windows.           *)
(***************************************************************************)
EXTENDS RelaySync

FourAt   == [e \in 1 .. 4 |-> CASE e \in {1, 2} -> 1 [] e = 3 -> 2 [] e = 4 -> 3]
FourAddr == [e \in 1 .. 4 |-> IF e = 4 THEN 1 ELSE e]
OneHolds == [r \in {"r1"} |-> 1 .. 4]

TwoAt   == [e \in 1 .. 2 |-> IF e = 1 THEN 1 ELSE 3]
TwoAddr == [e \in 1 .. 2 |-> 1]
TwoHold == [r \in {"r1", "r2"} |-> IF r = "r1" THEN {1, 2} ELSE {2}]
=============================================================================
