-------------------------- MODULE MCSubscriptions --------------------------
(* Instances of Subscriptions for TLC. *)
EXTENDS Subscriptions

\* Every event, without a limit.
AllEvents == {[set |-> Events, limit |-> 0]}

\* The gift wraps alone, without a limit or with one that two pages use up,
\* the other events alone, and, which is refused, all together.
PerKind == {[set |-> Private, limit |-> 0], [set |-> Private, limit |-> 2],
            [set |-> Events \ Private, limit |-> 0], [set |-> Events, limit |-> 0]}

NoSelector == {}
FirstTwo   == {1, 2}
=============================================================================
