---------------------------- MODULE LatestStore ----------------------------
(***************************************************************************)
(* What an event store promises a publisher, in one atomic step per event: *)
(* of the events with one address only the newest is kept, whatever the    *)
(* order they arrive in, and an event acknowledged with OK true is kept or *)
(* has given way to a newer version.  EventStore implements this with      *)
(* transactions of several statements, of several relay processes.         *)
(***************************************************************************)
EXTENDS EventOrder

VARIABLES
  kept,   \* the events a query finds
  acked   \* the stored-kind events answered OK true

vars == <<kept, acked>>

Init == kept = {} /\ acked = {}

\* e is stored, and replaces the older versions of itself.
Put(e) ==
  /\ ~KeptIn(e, kept)
  /\ kept' = (kept \ Older(e, kept)) \cup {e}
  /\ UNCHANGED acked

\* The publisher of e is told that the relay has it.
Ack(e) ==
  /\ KeptIn(e, kept)
  /\ acked' = acked \cup {e}
  /\ UNCHANGED kept

Next == \E e \in Events \ Ephemeral : Put(e) \/ Ack(e)

Spec == Init /\ [][Next]_vars
=============================================================================
