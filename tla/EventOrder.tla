---------------------------- MODULE EventOrder ----------------------------
(***************************************************************************)
(* What storage and publishing distinguish in a Nostr event: its storage   *)
(* address, its creation time and the place of its id in the order of ids. *)
(* Signature, content and tags are left out: an event is a value of        *)
(* Events.                                                                 *)
(***************************************************************************)
EXTENDS Integers

CONSTANTS
  Events,     \* the valid events clients, importers and the relay publish
  Ephemeral,  \* the events of an ephemeral kind (20000..29999)
  Regular,    \* the address of the events that never replace one another
  AddrOf,     \* [Events -> address]: pubkey+kind, or pubkey+kind+d tag
  CreatedAt,  \* [Events -> Nat]
  IdRank      \* [Events -> Nat]: the position of the id in the order of ids

ASSUME EventAssumption ==
  /\ Ephemeral \subseteq Events
  /\ CreatedAt \in [Events -> Nat]
  /\ IdRank \in [Events -> Nat]
  /\ \A e, f \in Events : IdRank[e] = IdRank[f] => e = f
  /\ \A e \in Ephemeral : AddrOf[e] = Regular

\* The events that compete for one place: the WHERE of the DELETE and of the
\* NOT EXISTS (a regular kind has neither).
SameAddress(e, f) == AddrOf[e] # Regular /\ AddrOf[e] = AddrOf[f]

\* e supersedes f: "created_at < ? OR (created_at = ? AND id > ?)".
Newer(e, f) ==
  \/ CreatedAt[e] > CreatedAt[f]
  \/ CreatedAt[e] = CreatedAt[f] /\ IdRank[e] < IdRank[f]

\* The rows of `rows` that event e supersedes.
Older(e, rows) == {r \in rows : SameAddress(r, e) /\ Newer(e, r)}

\* e is stored, or gave way to a newer version of itself.
KeptIn(e, rows) ==
  e \in rows \/ \E r \in rows : SameAddress(r, e) /\ Newer(r, e)
=============================================================================
