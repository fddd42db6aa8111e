------------------------------ MODULE Filters ------------------------------
(***************************************************************************)
(* NIP-01 filters: what a live event has to satisfy (nostr/filter.go), and *)
(* the SELECTs both SQL stores build from a filter (storage/sqlevent,      *)
(* storage/postgres, storage/count_filter.go).  A filter is a record;      *)
(* an empty set of ids, authors or kinds, or Absent, leaves a condition    *)
(* out.  A cursor is the (created_at, id) of an event.                     *)
(***************************************************************************)
EXTENDS EventOrder, SortedSets, SequencesExt

CONSTANTS
  Absent,    \* nil
  PubkeyOf,  \* [Events -> pubkey]
  KindOf,    \* [Events -> kind]
  TagsOf,    \* [Events -> sequence of tags, each a sequence of strings]
  Score      \* [search text -> [Events -> Nat]]: 0 is no hit (FTS5, tsquery)

AnyEvent == [ids |-> {}, authors |-> {}, kinds |-> {}, since |-> Absent,
             until |-> Absent, limit |-> Absent, cursor |-> Absent,
             tag |-> <<>>, search |-> Absent]

\* A filter of a client: it has no cursor, and a limit may be any number.
IsFilter(f) ==
  /\ f = [ids |-> f.ids, authors |-> f.authors, kinds |-> f.kinds, since |-> f.since,
          until |-> f.until, limit |-> f.limit, cursor |-> f.cursor, tag |-> f.tag,
          search |-> f.search]
  /\ f.cursor = Absent /\ f.limit \in Int \cup {Absent}
  /\ f.search \in DOMAIN Score \cup {Absent}

ASSUME FilterAssumption ==
  /\ IsFiniteSet(Events)
  /\ Absent \notin Events /\ Absent \notin Int
  /\ \A text \in DOMAIN Score : Score[text] \in [Events -> Nat]
  /\ \A e \in Events : TagsOf[e] \in Seq(Range(TagsOf[e]))
                       /\ \A t \in Range(TagsOf[e]) : t \in Seq(Range(t))

HasSearch(f) == f.search # Absent
WithoutSearch(f) == [f EXCEPT !.search = Absent]

\* Some tag with this name has one of the wanted values first.
EventTagMatches(e, name, vals) ==
  \E i \in DOMAIN TagsOf[e] :
    LET t == TagsOf[e][i] IN Len(t) >= 2 /\ t[1] = name /\ t[2] \in vals

\* Filter.Matches: the live path.
Matches(f, e) ==
  /\ ~HasSearch(f)
  /\ f.ids # {} => e \in f.ids
  /\ f.authors # {} => PubkeyOf[e] \in f.authors
  /\ f.kinds # {} => KindOf[e] \in f.kinds
  /\ f.since # Absent => CreatedAt[e] >= f.since
  /\ f.until # Absent => CreatedAt[e] <= f.until
  /\ f.cursor # Absent => ~(Newer(e, f.cursor) \/ e = f.cursor)
  /\ \A name \in DOMAIN f.tag : EventTagMatches(e, name, f.tag[name])

\* The event_tags rows of an event: a missing name or value is stored as "".
Missing == ""
TagRows(e) ==
  {<<IF Len(t) > 0 THEN t[1] ELSE Missing, IF Len(t) > 1 THEN t[2] ELSE Missing>> :
     t \in Range(TagsOf[e])}

\* Mutant: the cursor continues with older events only.
ApplyFilterQueryNoTies(f, rows) ==
  {e \in rows :
     /\ f.ids # {} => e \in f.ids
     /\ f.authors # {} => PubkeyOf[e] \in f.authors
     /\ f.kinds # {} => KindOf[e] \in f.kinds
     /\ f.since # Absent => CreatedAt[e] >= f.since
     /\ f.until # Absent => CreatedAt[e] <= f.until
     /\ f.cursor # Absent => CreatedAt[e] < CreatedAt[f.cursor]
     /\ \A name \in DOMAIN f.tag : \E v \in f.tag[name] : <<name, v>> \in TagRows(e)}

\* applyFilterQueryPrefix: the WHERE clauses, on the rows of the events table.
ApplyFilterQuery(f, rows) ==
  {e \in rows :
     /\ f.ids # {} => e \in f.ids
     /\ f.authors # {} => PubkeyOf[e] \in f.authors
     /\ f.kinds # {} => KindOf[e] \in f.kinds
     /\ f.since # Absent => CreatedAt[e] >= f.since
     /\ f.until # Absent => CreatedAt[e] <= f.until
     /\ f.cursor # Absent => Newer(f.cursor, e)
     /\ \A name \in DOMAIN f.tag : \E v \in f.tag[name] : <<name, v>> \in TagRows(e)}

\* FilterSQLLimit: a limit that is absent or not positive is no LIMIT.
FilterSQLLimit(f, rows) ==
  IF f.limit # Absent /\ f.limit > 0 THEN f.limit ELSE Len(rows)
Limited(f, rows) ==
  LET n == FilterSQLLimit(f, rows)
  IN  SubSeq(rows, 1, IF n < Len(rows) THEN n ELSE Len(rows))

\* selectRows: ORDER BY created_at DESC, id ASC.
SelectRows(f, rows) ==
  IF HasSearch(f) THEN <<>>
  ELSE Limited(f, SortedBy(ApplyFilterQuery(f, rows), Newer))

\* QueryEvents: the union over the filters, newest first.
QueryEvents(filters, rows) ==
  SortedBy(UNION {Range(SelectRows(filters[i], rows)) : i \in DOMAIN filters}, Newer)

\* QueryEventSyncItems: all matches, oldest first, as NIP-77 needs them.
QueryEventSyncItems(f, rows) ==
  IF HasSearch(f) THEN <<>>
  ELSE SortedBy(ApplyFilterQuery(f, rows),
         LAMBDA e, g : \/ CreatedAt[e] < CreatedAt[g]
                       \/ CreatedAt[e] = CreatedAt[g] /\ IdRank[e] < IdRank[g])

\* Mutant: the lower bound of the time range is left out.
CountFilterSubQueryOpen(f, rows) ==
  IF HasSearch(f) THEN {}
  ELSE ApplyFilterQuery([f EXCEPT !.cursor = Absent, !.since = Absent], rows)

\* CountFilterSubQuery: the same clauses without the cursor; a filter with a
\* search text counts nothing.
CountFilterSubQuery(f, rows) ==
  IF HasSearch(f) THEN {} ELSE ApplyFilterQuery([f EXCEPT !.cursor = Absent], rows)

\* CountEvents: distinct events (UNION), or the whole table.
CountEvents(filters, rows) ==
  IF filters = <<>> THEN Cardinality(rows)
  ELSE Cardinality(UNION {CountFilterSubQuery(filters[i], rows) : i \in DOMAIN filters})

\* sqliteAppendSearchFilter: the clauses of a search, again without cursor.
SearchConstraints(f, rows) == ApplyFilterQuery([f EXCEPT !.cursor = Absent], rows)

\* SearchEvents: hits of the text, best first.
Better(text, e, g) ==
  \/ Score[text][e] > Score[text][g]
  \/ Score[text][e] = Score[text][g] /\ IdRank[e] < IdRank[g]
SearchEvents(text, f, rows) ==
  Limited(f, SortedBy({e \in SearchConstraints(WithoutSearch(f), rows) : Score[text][e] > 0},
                          LAMBDA e, g : Better(text, e, g)))
=============================================================================
