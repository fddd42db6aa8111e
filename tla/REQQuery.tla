------------------------------ MODULE REQQuery ------------------------------
(***************************************************************************)
(* The snapshot of a REQ with several filters (relay/req_query.go):        *)
(* searches run once, the other filters are paged with a cursor each, one  *)
(* statement after the other while other connections change the store.     *)
(* Subscriptions models who runs the pages and how they meet live events;  *)
(* here a page is sent where it is merged.                                 *)
(***************************************************************************)
EXTENDS Filters

CONSTANTS
  Requests,       \* the lists of filters a client may send
  PageSizes,      \* the configured page sizes; 0 reads everything at once
  DefaultLimit,   \* default_query_limit; 0 is none
  MaxSaves        \* bound: events saved during one snapshot

\* A REQ message has at least one filter.
ASSUME QueryAssumption ==
  /\ \A fs \in Requests : fs \in Seq(Range(fs)) /\ fs # <<>> /\ \A f \in Range(fs) : IsFilter(f)
  /\ PageSizes \subseteq Int /\ DefaultLimit \in Int /\ MaxSaves \in Nat

VARIABLES
  rows,      \* the events table
  pageSize,
  filters,   \* the request, with default limits
  cur,       \* [index of a filter -> its filterCursor]
  phase,     \* "search", "query" (reading a page), "done", "failed"
  at,        \* the filter whose turn it is
  page,      \* pageByID: the events of the page being read
  order,     \* searchOrder
  sent,      \* the events sent, which are also the ids in `seen`
  ever,      \* rows that were there at some moment of the snapshot
  always,    \* rows that were there all the time
  saves

queryVars == <<rows, pageSize, filters, cur, phase, at, page, order, sent, ever, always, saves>>

\* applyDefaultQueryLimit: only where the client gave no limit.
ApplyDefaultQueryLimit(fs) ==
  [i \in DOMAIN fs |-> IF DefaultLimit > 0 /\ fs[i].limit = Absent
                       THEN [fs[i] EXCEPT !.limit = DefaultLimit] ELSE fs[i]]

\* newREQQueryState: no cursor, and what the limit leaves.
NewCursor(f) ==
  [cursor |-> Absent, exhausted |-> HasSearch(f),
   remaining |-> IF f.limit # Absent /\ f.limit > 0 THEN f.limit ELSE 0]

QueryInit ==
  /\ rows \in {s \in SUBSET (Events \ Ephemeral) : \A e \in s : Older(e, s) = {}}
  /\ pageSize \in PageSizes
  /\ filters \in {ApplyDefaultQueryLimit(fs) : fs \in Requests}
  /\ cur = [i \in DOMAIN filters |-> NewCursor(filters[i])]
  /\ phase = "search" /\ at = 1
  /\ page = {} /\ order = <<>> /\ sent = <<>>
  /\ ever = rows /\ always = rows /\ saves = 0

----------------------------------------------------------------------------
\* mergePageEvents: search hits as SearchEvents ordered them, then the other
\* events newest first, and nothing twice.
Fresh(s) ==
  LET first(i) == s[i] \notin Range(sent) /\ \A j \in 1 .. i - 1 : s[j] # s[i]
      index == SortedBy({i \in DOMAIN s : first(i)}, <)
  IN  [k \in DOMAIN index |-> s[index[k]]]
MergePageEvents ==
  Fresh(order) \o SortedBy(page \ (Range(sent) \cup Range(order)), Newer)

\* The searches of the first page.
SearchNext ==
  /\ phase = "search" /\ at <= Len(filters)
  /\ LET f == filters[at]
         hits == IF HasSearch(f) THEN SearchEvents(f.search, f, rows) ELSE <<>>
     IN  page' = page \cup Range(hits) /\ order' = order \o hits
  /\ at' = at + 1
  /\ UNCHANGED <<rows, pageSize, filters, cur, phase, sent, ever, always, saves>>

SearchDone ==
  /\ phase = "search" /\ at > Len(filters)
  /\ phase' = "query" /\ at' = 1
  /\ UNCHANGED <<rows, pageSize, filters, cur, page, order, sent, ever, always, saves>>

Lim(c) == IF c.remaining > 0 /\ c.remaining < pageSize THEN c.remaining ELSE pageSize

\* The filter a page asks the store for; fetchREQAll asks for its base.
PageFilter(i) ==
  IF pageSize <= 0 THEN filters[i]
  ELSE [filters[i] EXCEPT !.limit = Lim(cur[i]), !.cursor = cur[i].cursor]

\* The cursor after a page: a short page or a used-up limit is the last one.
Advanced(c, evs) ==
  LET rest == IF c.remaining > 0 THEN c.remaining - Len(evs) ELSE c.remaining
  IN  IF pageSize <= 0 THEN [c EXCEPT !.exhausted = TRUE]
      ELSE [cursor |-> IF evs = <<>> THEN c.cursor ELSE Last(evs),
            remaining |-> rest,
            exhausted |-> (c.remaining > 0 /\ rest <= 0) \/ Len(evs) < Lim(c)]

QueryNext ==
  /\ phase = "query" /\ at <= Len(filters)
  /\ IF cur[at].exhausted THEN UNCHANGED <<cur, page>>
     ELSE LET evs == QueryEvents(<<PageFilter(at)>>, rows)
          IN  /\ cur' = [cur EXCEPT ![at] = Advanced(@, evs)]
              /\ page' = page \cup Range(evs)
  /\ at' = at + 1
  /\ UNCHANGED <<rows, pageSize, filters, phase, order, sent, ever, always, saves>>

\* The page is complete; hasMore asks for another.
PageDone ==
  /\ phase = "query" /\ at > Len(filters)
  /\ sent' = sent \o MergePageEvents
  /\ phase' = IF \E i \in DOMAIN filters : ~cur[i].exhausted THEN "query" ELSE "done"
  /\ at' = 1 /\ page' = {} /\ order' = <<>>
  /\ UNCHANGED <<rows, pageSize, filters, cur, ever, always, saves>>

\* A statement fails: the subscription is closed with what was sent.
QueryFails ==
  /\ phase \in {"search", "query"} /\ at <= Len(filters)
  /\ phase = "search" => HasSearch(filters[at])
  /\ phase = "query" => ~cur[at].exhausted
  /\ phase' = "failed"
  /\ UNCHANGED <<rows, pageSize, filters, cur, at, page, order, sent, ever, always, saves>>

\* Another handler stores an event (EventStore has the steps of SaveEvent).
SaveOther(e) ==
  /\ phase \in {"search", "query"} /\ saves < MaxSaves
  /\ ~KeptIn(e, rows)
  /\ rows' = (rows \ Older(e, rows)) \cup {e}
  /\ ever' = ever \cup {e} /\ always' = always \ Older(e, rows)
  /\ saves' = saves + 1
  /\ UNCHANGED <<pageSize, filters, cur, phase, at, page, order, sent>>

QueryStep ==
  \/ SearchNext \/ SearchDone \/ QueryNext \/ PageDone \/ QueryFails
  \/ \E e \in Events \ Ephemeral : SaveOther(e)

QuerySpec == QueryInit /\ [][QueryStep]_queryVars

----------------------------------------------------------------------------
\* Row e belongs to filter f.
Fits(f, e) ==
  /\ e \in ApplyFilterQuery(WithoutSearch(f), {e})
  /\ HasSearch(f) => Score[f.search][e] > 0
\* g comes before e in the answer to f.
Outranks(f, g, e) ==
  Fits(f, g) /\ IF HasSearch(f) THEN Better(f.search, g, e) ELSE Newer(g, e)
Unlimited(f) == f.limit = Absent \/ f.limit <= 0

\* What an unchanging store would have to answer for f: the rows that were
\* there throughout and that no limit can have cut off.
Promised(f) ==
  {e \in always : Fits(f, e) /\ (Unlimited(f) \/
                    Cardinality({g \in ever : Outranks(f, g, e)}) < f.limit)}

\* Every event is sent once at most and was stored; each one fits a filter
\* that can answer for it without going beyond its limit; and a snapshot that
\* ends has left out no promised event: not one with the cursor's time, not
\* one a filter of the same request shares, whatever is stored or replaced
\* between the pages.
SnapshotExact ==
  /\ IsInjective(sent) /\ Range(sent) \subseteq ever
  /\ \E owner \in [Range(sent) -> DOMAIN filters] : \A i \in DOMAIN filters :
       LET own == {e \in Range(sent) : owner[e] = i}
       IN  /\ \A e \in own : Fits(filters[i], e)
           /\ Unlimited(filters[i]) \/ Cardinality(own) <= filters[i].limit
  /\ phase = "done" => \A i \in DOMAIN filters : Promised(filters[i]) \subseteq Range(sent)

\* A tag without a value is stored with the value "" and never matches live.
WantsBareTag(f) == \E name \in DOMAIN f.tag : Missing \in f.tag[name]

\* A filter means the same everywhere: what live events match (Matches), what
\* CountEvents counts, on which NEG-OPEN and the admin pages rely, and what
\* NIP-77 reconciles are the same events, except for the value of a tag that
\* has none; a search matches nothing live and counts nothing.
AnswersAgree ==
  \A fs \in Requests : (\A i \in DOMAIN fs : ~WantsBareTag(fs[i])) =>
    LET live == {e \in rows : \E i \in DOMAIN fs : Matches(fs[i], e)}
    IN  /\ CountEvents(fs, rows) = Cardinality(live)
        /\ UNION {Range(QueryEventSyncItems(fs[i], rows)) : i \in DOMAIN fs} = live
=============================================================================
