--------------------------- MODULE MCMigrateCopy ---------------------------
(* Two versions of one addressable event and a regular event; two audit    *)
(* rows about one event, and a row of each other operational table.        *)
EXTENDS MigrateCopy

CONSTANTS a1, a2, b, addr

MCAddrOf == [e \in Events |-> IF e \in {a1, a2} THEN addr ELSE Regular]
MCCreatedAt == [e \in Events |-> IF e = a2 THEN 2 ELSE 1]
MCIdRank == [e \in Events |-> CASE e = a1 -> 1 [] e = a2 -> 2 [] OTHER -> 3]
MCTableOf == <<"audit", "audit", "changelog", "buckets", "sessions">>
MCAboutOf == <<b, b, NoEvent, NoEvent, NoEvent>>
MCArrivals == [d \in {"primary", "target"} |-> IF d = "primary" THEN {a2} ELSE {a2, b}]

\* A new file, one of version 6, one up to date that has an event, one of a
\* newer release, one whose search index is of another build and one whose
\* version cannot be read.
MCTargets ==
  {Schema("turso", 0, {}, {}, Exact({})),
   Schema("turso", 6, OldParts("turso", 6), {}, Exact({})),
   Schema("postgres", 7, OldParts("postgres", 7), {b}, Exact({b})),
   Schema("turso", 9, OldParts("turso", 8), {}, Exact({})),
   Schema("turso", 8, {"events", "tags", "search"}, {}, Exact({})),
   Schema("postgres", 0, {"events", "tags"}, {}, Exact({}))}
=============================================================================
