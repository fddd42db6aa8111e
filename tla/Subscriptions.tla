--------------------------- MODULE Subscriptions ---------------------------
(***************************************************************************)
(* The relay's REQ subscriptions: the subscription manager shared by every *)
(* connection, the read loop that answers REQ and CLOSE, the reader queue  *)
(* whose single worker sends the remaining pages of long snapshots, and    *)
(* the publishers that save an event and then broadcast it.                *)
(*                                                                         *)
(* An event is its rank in snapshot order (created_at DESC, id ASC), so a  *)
(* page is "the first k matching events after the cursor".  A filter is    *)
(* the set of events it matches and its limit (0: none).  The manager's    *)
(* mutex makes each withSnapshot callback, each Broadcast delivery and     *)
(* each map update one step; everything between two lock regions (store    *)
(* queries, visibility checks, queue operations) is a step of its own.     *)
(***************************************************************************)
EXTENDS Naturals, Sequences, FiniteSets

CONSTANTS
    Conns,       \* connections (connection ids are random, never reused)
    Worker,      \* the reader queue's worker goroutine
    SubIDs,      \* subscription ids a client uses
    NumEvents,   \* events are 1..NumEvents
    Private,     \* gift wraps to one recipient (NIP-17)
    Busy,        \* connections whose channel carries other traffic too
    Filters,     \* the REQ filters clients use: [set, limit]
    PageSize,    \* query_page_size (paging enabled)
    PendingCap,  \* pendingLiveCap
    SendCap,     \* capacity of a connection's send channel
    QueueCap,    \* readerQueueCapacity
    MaxSubs,     \* max_subscriptions_per_connection
    MaxGen       \* bound of the model: accepted REQs

Events == 1 .. NumEvents
Gens   == 1 .. MaxGen
Actors == Conns \cup {Worker}

ASSUME ConstantsAssumption ==
    /\ Conns # {}
    /\ Worker \notin Conns
    /\ SubIDs # {}
    /\ IsFiniteSet(SubIDs)
    /\ NumEvents \in Nat
    /\ Private \subseteq Events
    /\ Busy \subseteq Conns
    /\ Filters \subseteq [set : SUBSET Events, limit : Nat]
    /\ PageSize \in Nat \ {0}
    /\ PendingCap \in Nat
    /\ SendCap \in Nat
    /\ QueueCap \in Nat
    /\ MaxSubs \in Nat
    /\ MaxGen \in Nat

VARIABLES
    subs,       \* subs[c][s]: the entry of subscription s, or NoEntry
    nextGen,    \* nextGeneration
    closed,     \* generations whose entry has its closed flag set
    senders,    \* connections with a registered sender
    cancelled,  \* connections on which initiateShutdown has run
    queued,     \* queued[c]: frames waiting in the send channel
    wire,       \* wire[c]: every subscription frame accepted by the channel
    auth,       \* auth[c]: c's current AUTH key, see NewAuth
    idle,       \* idle[c]: "clock" or "subs" (idleActiveSubs)
    pc,         \* where each read loop and the worker are
    job,        \* the snapshot each of them works on
    jobs,       \* the reader queue
    stored,     \* events in the store
    pub         \* pub[e]: progress of e's publisher

mgr    == <<subs, nextGen, closed, senders>>
out    == <<cancelled, queued, wire>>
tasks  == <<pc, job, jobs>>
events == <<stored, pub>>
vars   == <<mgr, out, auth, idle, tasks, events>>

-----------------------------------------------------------------------------
(* Records. *)

NewEntry(g, f) == [gen |-> g, filter |-> f, done |-> FALSE, pending |-> <<>>,
                   skipped |-> FALSE, eoseLost |-> FALSE]

\* The current AUTH key; late is history: the events not yet saved when the
\* connection last stopped (or before it ever began) to be the recipient.
NewAuth(k, l) == [key |-> k, late |-> l]

NoFilter == [set |-> {}, limit |-> 0]
NoEntry  == NewEntry(0, NoFilter)

Frame(k, s, g, e) == [kind |-> k, sub |-> s, gen |-> g, ev |-> e]

\* reqQueryState and reqPageJob: cursor, remaining budget, page in hand.
NewJob(c, s, f) == [conn |-> c, sub |-> s, gen |-> 0, filter |-> f.set,
                    cursor |-> 0, left |-> f.limit, page |-> {},
                    more |-> TRUE, sync |-> FALSE]

\* The locals of a goroutine that works on no snapshot.
NoJob == NewJob(CHOOSE c \in Conns : TRUE, CHOOSE s \in SubIDs : TRUE, NoFilter)

Init ==
    /\ subs = [c \in Conns |-> [s \in SubIDs |-> NoEntry]]
    /\ nextGen = 0
    /\ closed = {}
    /\ senders = {}
    /\ cancelled = {}
    /\ queued = [c \in Conns |-> 0]
    /\ wire = [c \in Conns |-> <<>>]
    /\ auth = [c \in Conns |-> NewAuth("none", Events)]
    /\ idle = [c \in Conns |-> "clock"]
    /\ pc = [a \in Actors |-> "idle"]
    /\ job = [a \in Actors |-> NoJob]
    /\ jobs = <<>>
    /\ stored = {}
    /\ pub = [e \in Events |-> [st |-> "new", todo |-> {}, cur |-> {}]]

-----------------------------------------------------------------------------
(* Helpers of the manager and of the send channel. *)

OpenSubs(c) == {s \in SubIDs : subs[c][s].gen # 0}
SubCount(c) == Cardinality(OpenSubs(c))

\* IsSameSnapshot, and the check at the top of withSnapshot.
SameSnapshot(c, s, g) ==
    /\ c \in senders
    /\ subs[c][s].gen # 0
    /\ subs[c][s].gen \notin closed
    /\ subs[c][s].gen = g

\* EventVisibleToSubscription: a gift wrap is for the current AUTH key only.
Visible(c, e) == e \in Private => auth[c].key = "recipient"

\* validateNIP17REQ: gift wraps are asked for alone, and by their recipient.
Allowed(c, f) == f.set \cap Private # {} => /\ f.set \subseteq Private
                                           /\ auth[c].key = "recipient"

\* Free places of c's send channel; none once the channel is closed.
Room(c) == IF c \in cancelled THEN 0 ELSE SendCap - queued[c]

\* Conn.enqueue of one frame, and its two ways to fail.
Enqueue(c, f) ==
    /\ Room(c) > 0
    /\ wire' = [wire EXCEPT ![c] = Append(@, f)]
    /\ queued' = [queued EXCEPT ![c] = @ + 1]
EnqueueFails(c) ==
    /\ Room(c) = 0
    /\ UNCHANGED <<wire, queued>>

\* enqueueSubscriptionFrame: a frame that does not fit shuts the connection.
EnqueueSubscriptionFrame(c, f) ==
    \/ Enqueue(c, f) /\ UNCHANGED cancelled
    \/ EnqueueFails(c) /\ cancelled' = cancelled \cup {c}

\* removeLocked: the map update and the entry's closed flag.
RemoveLocked(c, s) ==
    /\ subs' = [subs EXCEPT ![c][s] = NoEntry]
    /\ closed' = closed \cup ({subs[c][s].gen} \ {0})

-----------------------------------------------------------------------------
(* Connections. *)

\* serveWS up to the read loop: the connection registers its sender.
RegisterSender(c) ==
    /\ c \notin senders \cup cancelled
    /\ senders' = senders \cup {c}
    /\ UNCHANGED <<subs, nextGen, closed, out, auth, idle, tasks, events>>

\* AUTH accepted as the recipient of the gift wraps ...
Authenticate(c) ==
    /\ Private # {}
    /\ pc[c] = "idle"
    /\ c \in senders \ cancelled
    /\ auth[c].key # "recipient"
    /\ auth' = [auth EXCEPT ![c] = NewAuth("recipient", {})]
    /\ UNCHANGED <<mgr, out, idle, tasks, events>>

\* A subscription to gift wraps may have to skip some from now on (history).
Withholding(en) ==
    IF en.filter.set \cap Private = {} THEN en ELSE [en EXCEPT !.skipped = TRUE]

\* ... or as somebody else, which replaces the current key.
SwitchIdentity(c) ==
    /\ Private # {}
    /\ pc[c] = "idle"
    /\ c \in senders \ cancelled
    /\ auth[c].key # "other"
    /\ auth' = [auth EXCEPT ![c] = NewAuth("other",
                  IF @.key = "recipient" THEN Events \ stored ELSE @.late)]
    /\ subs' = [subs EXCEPT ![c] = [s \in SubIDs |-> Withholding(subs[c][s])]]
    /\ UNCHANGED <<nextGen, closed, senders, out, idle, tasks, events>>

\* writeLoop: one frame leaves the send channel.
WriteFrame(c) ==
    /\ c \notin cancelled
    /\ queued[c] > 0
    /\ queued' = [queued EXCEPT ![c] = @ - 1]
    /\ UNCHANGED <<mgr, cancelled, wire, auth, idle, tasks, events>>

\* ... or its write fails: writeLoop returns and shuts the connection.
WriteFails(c) ==
    /\ c \notin cancelled
    /\ queued[c] > 0
    /\ cancelled' = cancelled \cup {c}
    /\ UNCHANGED <<mgr, queued, wire, auth, idle, tasks, events>>

\* OK, NOTICE, AUTH, COUNT and NEG frames, and the CLOSED of a refused REQ or
\* of a CLOSE for an unknown id, share the channel and are not recorded.
OtherFrame(c) ==
    /\ c \in senders \cap Busy
    /\ Room(c) > 0
    /\ queued' = [queued EXCEPT ![c] = @ + 1]
    /\ UNCHANGED <<mgr, cancelled, wire, auth, idle, tasks, events>>

\* sweepIdleConnections (the configured seconds have passed).
SweepIdle(c) ==
    /\ c \in senders \ cancelled
    /\ idle[c] = "clock"
    /\ SubCount(c) = 0
    /\ cancelled' = cancelled \cup {c}
    /\ UNCHANGED <<mgr, queued, wire, auth, idle, tasks, events>>

\* The orders in which a map iteration can produce the set S.
Orders(S) == {o \in [1 .. Cardinality(S) -> S] :
                 \A i, j \in 1 .. Cardinality(S) : o[i] = o[j] => i = j}

\* The read loop has returned (the client left, or shutdown was initiated):
\* UnregisterSender, a CLOSED per subscription while it fits, initiateShutdown.
Teardown(c) ==
    /\ c \in senders
    /\ pc[c] = "idle"
    /\ senders' = senders \ {c}
    /\ subs' = [subs EXCEPT ![c] = [s \in SubIDs |-> NoEntry]]
    /\ closed' = closed \cup {subs[c][s].gen : s \in OpenSubs(c)}
    /\ \E o \in Orders(OpenSubs(c)) :
          LET fits == SubSeq(o, 1, IF Room(c) < Len(o) THEN Room(c) ELSE Len(o))
          IN  /\ wire' = [wire EXCEPT ![c] = @ \o
                    [i \in 1 .. Len(fits) |->
                        Frame("closed", fits[i], subs[c][fits[i]].gen, 0)]]
              /\ queued' = [queued EXCEPT ![c] = @ + Len(fits)]
    /\ cancelled' = cancelled \cup {c}
    /\ UNCHANGED <<nextGen, auth, idle, tasks, events>>

-----------------------------------------------------------------------------
(* The read loop: REQ and CLOSE. *)

Goto(a, label) == pc' = [pc EXCEPT ![a] = label]

\* The handler, or the worker's job, returns.
Return(a) ==
    /\ pc' = [pc EXCEPT ![a] = "idle"]
    /\ job' = [job EXCEPT ![a] = NoJob]

\* An admitted REQ reaches Add: a new generation replaces and closes the previous entry.
ReqAdd(c, s, f) ==
    /\ pc[c] = "idle"
    /\ c \in senders \ cancelled
    /\ nextGen < MaxGen
    /\ Allowed(c, f)
    /\ subs[c][s].gen # 0 \/ SubCount(c) < MaxSubs
    /\ nextGen' = nextGen + 1
    /\ closed' = closed \cup ({subs[c][s].gen} \ {0})
    /\ subs' = [subs EXCEPT ![c][s] = NewEntry(nextGen + 1, f)]
    /\ job' = [job EXCEPT ![c] = NewJob(c, s, f)]
    /\ Goto(c, "gen")
    /\ UNCHANGED <<senders, out, auth, idle, jobs, events>>

\* SubGeneration takes the lock again: the entry may already be gone.
ReqGeneration(c) ==
    /\ pc[c] = "gen"
    /\ LET g == subs[c][job[c].sub].gen
       IN  job' = [job EXCEPT ![c].gen = IF g \in closed THEN 0 ELSE g]
    /\ Goto(c, "note")
    /\ UNCHANGED <<mgr, out, auth, idle, jobs, events>>

NoteCount(c) ==
    idle' = [idle EXCEPT ![c] = IF SubCount(c) > 0 THEN "subs" ELSE "clock"]

\* noteSubscriptionCount on the REQ path.
ReqNote(c) ==
    /\ pc[c] = "note"
    /\ NoteCount(c)
    /\ Goto(c, "fetch")
    /\ UNCHANGED <<mgr, out, auth, job, jobs, events>>

\* handleCLOSE: the CLOSED frame (dropped when the channel is full) ...
CloseSend(c, s) ==
    /\ pc[c] = "idle"
    /\ c \in senders \ cancelled
    /\ subs[c][s].gen # 0
    /\ \/ Enqueue(c, Frame("ack", s, subs[c][s].gen, 0))
       \/ EnqueueFails(c)
    /\ job' = [job EXCEPT ![c].sub = s]
    /\ Goto(c, "remove")
    /\ UNCHANGED <<mgr, cancelled, auth, idle, jobs, events>>

\* ... then Remove ...
CloseRemove(c) ==
    /\ pc[c] = "remove"
    /\ RemoveLocked(c, job[c].sub)
    /\ Goto(c, "noteClose")
    /\ UNCHANGED <<nextGen, senders, out, auth, idle, job, jobs, events>>

\* ... then noteSubscriptionCount.
CloseNote(c) ==
    /\ pc[c] = "noteClose"
    /\ NoteCount(c)
    /\ Return(c)
    /\ UNCHANGED <<mgr, out, auth, jobs, events>>

-----------------------------------------------------------------------------
(* One snapshot, worked on by a read loop (first page, or every page when    *)
(* the queue is full) or by the worker (one page per job).                   *)

\* Mutant: the job stays in the queue while the worker runs it.
WorkerPeek ==
    /\ pc[Worker] = "idle"
    /\ jobs # <<>>
    /\ job' = [job EXCEPT ![Worker] = Head(jobs)]
    /\ Goto(Worker, "fetch")
    /\ UNCHANGED <<mgr, out, auth, idle, jobs, events>>

\* runJob: the head of the queue, skipped when its snapshot is gone.
WorkerTake ==
    /\ pc[Worker] = "idle"
    /\ jobs # <<>>
    /\ jobs' = Tail(jobs)
    /\ IF SameSnapshot(Head(jobs).conn, Head(jobs).sub, Head(jobs).gen)
       THEN /\ job' = [job EXCEPT ![Worker] = Head(jobs)]
            /\ Goto(Worker, "fetch")
       ELSE UNCHANGED <<pc, job>>
    /\ UNCHANGED <<mgr, out, auth, idle, events>>

PageLimit(j) == IF j.left > 0 /\ j.left < PageSize THEN j.left ELSE PageSize
Candidates(j) == {e \in stored \cap j.filter : e > j.cursor}

\* QueryEvents: the first events after the cursor, at most PageLimit(j).
Page(j) == {e \in Candidates(j) :
               Cardinality({d \in Candidates(j) : d < e}) < PageLimit(j)}

\* The new cursor: the last event of a non-empty page.
AdvancedCursor(j) ==
    IF Page(j) = {} THEN j.cursor
    ELSE CHOOSE e \in Page(j) : \A d \in Page(j) : d <= e

\* fetchREQPage: page, cursor, budget and hasMore.
Fetched(j) ==
    LET n == Cardinality(Page(j))
    IN  [j EXCEPT !.page   = Page(j),
                  !.cursor = AdvancedCursor(j),
                  !.left   = IF j.left > n THEN j.left - n ELSE 0,
                  !.more   = ~(n < PageLimit(j) \/ (j.left > 0 /\ j.left <= n))]

FetchPage(a) ==
    /\ pc[a] = "fetch"
    /\ job' = [job EXCEPT ![a] = Fetched(@)]
    /\ Goto(a, "send")
    /\ UNCHANGED <<mgr, out, auth, idle, jobs, events>>

\* The store fails, times out, or the connection's context is cancelled.
FetchFails(a) ==
    /\ pc[a] = "fetch"
    /\ Goto(a, "qerr")
    /\ UNCHANGED <<mgr, out, auth, idle, job, jobs, events>>

\* closeSnapshotOnQueryError: CLOSED (dropped when it does not fit) and removal.
CloseOnQueryError(a) ==
    LET c == job[a].conn
        s == job[a].sub
    IN  /\ pc[a] = "qerr"
        /\ IF SameSnapshot(c, s, job[a].gen)
           THEN /\ \/ Enqueue(c, Frame("closed", s, job[a].gen, 0))
                   \/ EnqueueFails(c)
                /\ RemoveLocked(c, s)
           ELSE UNCHANGED <<wire, queued, subs, closed>>
        /\ Return(a)
        /\ UNCHANGED <<nextGen, senders, cancelled, auth, idle, jobs, events>>

\* sendSnapshotEvents, next event withheld from this connection.
SendInvisible(a, e) ==
    /\ pc[a] = "send"
    /\ e \in job[a].page
    /\ \A d \in job[a].page : e <= d
    /\ job[a].conn \notin cancelled
    /\ ~Visible(job[a].conn, e)
    /\ job' = [job EXCEPT ![a].page = @ \ {e}]
    /\ UNCHANGED <<mgr, out, auth, idle, pc, jobs, events>>

\* sendSnapshotEvents, next event may be sent; checked without the lock.
SendVisible(a, e) ==
    /\ pc[a] = "send"
    /\ e \in job[a].page
    /\ \A d \in job[a].page : e <= d
    /\ job[a].conn \notin cancelled
    /\ Visible(job[a].conn, e)
    /\ Goto(a, "push")
    /\ UNCHANGED <<mgr, out, auth, idle, job, jobs, events>>

\* ... it is enqueued under the manager lock; when the channel is full it is
\* skipped and the snapshot goes on.
SendEvent(a, e) ==
    LET c == job[a].conn
        s == job[a].sub
        g == job[a].gen
    IN  /\ pc[a] = "push"
        /\ e \in job[a].page
        /\ \A d \in job[a].page : e <= d
        /\ c \notin cancelled
        /\ SameSnapshot(c, s, g)
        /\ \/ Enqueue(c, Frame("snap", s, g, e)) /\ UNCHANGED subs
           \/ EnqueueFails(c) /\ subs' = [subs EXCEPT ![c][s].skipped = TRUE]
        /\ job' = [job EXCEPT ![a].page = @ \ {e}]
        /\ Goto(a, "send")
        /\ UNCHANGED <<nextGen, closed, senders, cancelled, auth, idle, jobs, events>>

\* sendSnapshotEvents returns false: cancelled, replaced, closed or removed.
SendStops(a) ==
    /\ pc[a] \in {"send", "push"}
    /\ \/ job[a].conn \in cancelled
       \/ ~SameSnapshot(job[a].conn, job[a].sub, job[a].gen)
    /\ Return(a)
    /\ UNCHANGED <<mgr, out, auth, idle, jobs, events>>

\* The page is sent: complete the snapshot or arrange for the next page.
PageSent(a) ==
    /\ pc[a] = "send"
    /\ job[a].page = {}
    /\ job[a].conn \notin cancelled
    /\ SameSnapshot(job[a].conn, job[a].sub, job[a].gen)
    /\ Goto(a, IF ~job[a].more THEN "complete"
               ELSE IF job[a].sync THEN "drain" ELSE "enqueue")
    /\ UNCHANGED <<mgr, out, auth, idle, job, jobs, events>>

\* Mutant: a job the queue has no room for is dropped.
EnqueueJobOrDrop(a) ==
    /\ pc[a] = "enqueue"
    /\ jobs' = IF Len(jobs) < QueueCap THEN Append(jobs, job[a]) ELSE jobs
    /\ Return(a)
    /\ UNCHANGED <<mgr, out, auth, idle, events>>

\* ReaderQueue.Enqueue; a full queue makes the caller drain the pages itself.
EnqueueJob(a) ==
    /\ pc[a] = "enqueue"
    /\ IF Len(jobs) < QueueCap
       THEN /\ jobs' = Append(jobs, job[a])
            /\ Return(a)
       ELSE /\ job' = [job EXCEPT ![a].sync = TRUE]
            /\ Goto(a, "drain")
            /\ UNCHANGED jobs
    /\ UNCHANGED <<mgr, out, auth, idle, events>>

\* drainRemainingPages, top of its loop.
DrainNext(a) ==
    /\ pc[a] = "drain"
    /\ IF SameSnapshot(job[a].conn, job[a].sub, job[a].gen)
       THEN Goto(a, "fetch") /\ UNCHANGED job
       ELSE Return(a)
    /\ UNCHANGED <<mgr, out, auth, idle, jobs, events>>

LiveFrames(s, en) == [i \in 1 .. Len(en.pending) |->
                         Frame("live", s, en.gen, en.pending[i])]

\* completeSnapshot with room for EOSE: EOSE, then the buffered live events;
\* one that does not fit shuts the connection (finishSnapshotLocked).
CompleteSnapshot(a) ==
    LET c  == job[a].conn
        s  == job[a].sub
        fs == <<Frame("eose", s, job[a].gen, 0)>> \o LiveFrames(s, subs[c][s])
        n  == IF Room(c) < Len(fs) THEN Room(c) ELSE Len(fs)
    IN  /\ pc[a] = "complete"
        /\ SameSnapshot(c, s, job[a].gen)
        /\ Room(c) > 0
        /\ wire' = [wire EXCEPT ![c] = @ \o SubSeq(fs, 1, n)]
        /\ queued' = [queued EXCEPT ![c] = @ + n]
        /\ cancelled' = IF n < Len(fs) THEN cancelled \cup {c} ELSE cancelled
        /\ subs' = [subs EXCEPT ![c][s] = [@ EXCEPT !.done = TRUE, !.pending = <<>>]]
        /\ Return(a)
        /\ UNCHANGED <<nextGen, closed, senders, auth, idle, jobs, events>>

\* completeSnapshot when the channel is full: no EOSE, the buffer stays.
CompleteLost(a) ==
    LET c == job[a].conn
        s == job[a].sub
    IN  /\ pc[a] = "complete"
        /\ SameSnapshot(c, s, job[a].gen)
        /\ Room(c) = 0
        /\ subs' = [subs EXCEPT ![c][s].eoseLost = TRUE]
        /\ Return(a)
        /\ UNCHANGED <<nextGen, closed, senders, out, auth, idle, jobs, events>>

\* completeSnapshot of a generation that is gone.
CompleteStale(a) ==
    /\ pc[a] = "complete"
    /\ ~SameSnapshot(job[a].conn, job[a].sub, job[a].gen)
    /\ Return(a)
    /\ UNCHANGED <<mgr, out, auth, idle, jobs, events>>

-----------------------------------------------------------------------------
(* Publishing: handleEVENT saves, then its post-store hook broadcasts.       *)

\* SaveEvent succeeded (an event that is not saved is never broadcast).
SaveEvent(e) ==
    /\ pub[e].st = "new"
    /\ stored' = stored \cup {e}
    /\ pub' = [pub EXCEPT ![e].st = "saved"]
    /\ UNCHANGED <<mgr, out, auth, idle, tasks>>

Targets == [conn : Conns, sub : SubIDs, gen : Gens]

\* Mutant: subscriptions still in their snapshot are not matched.
BroadcastMatchDone(e) ==
    /\ pub[e].st = "saved"
    /\ pub' = [pub EXCEPT ![e] =
          [st |-> "bcast", cur |-> {},
           todo |-> {t \in Targets :
                        /\ t.conn \in senders
                        /\ t.gen = subs[t.conn][t.sub].gen
                        /\ subs[t.conn][t.sub].done
                        /\ e \in subs[t.conn][t.sub].filter.set}]]
    /\ UNCHANGED <<mgr, out, auth, idle, tasks, stored>>

\* Broadcast, first pass: the matching entries, under the read lock.
BroadcastMatch(e) ==
    /\ pub[e].st = "saved"
    /\ pub' = [pub EXCEPT ![e] =
          [st |-> "bcast", cur |-> {},
           todo |-> {t \in Targets :
                        /\ t.conn \in senders
                        /\ t.gen = subs[t.conn][t.sub].gen
                        /\ t.gen \notin closed
                        /\ e \in subs[t.conn][t.sub].filter.set}]]
    /\ UNCHANGED <<mgr, out, auth, idle, tasks, stored>>

\* Mutant: live events skip the visibility check.
BroadcastConnUnchecked(e, c) ==
    LET mine == {t \in pub[e].todo : t.conn = c}
    IN  /\ pub[e].cur = {}
        /\ mine # {}
        /\ pub' = [pub EXCEPT ![e].todo = @ \ mine, ![e].cur = mine]
        /\ UNCHANGED <<mgr, out, auth, idle, tasks, stored>>

\* Broadcast, visibility of e for one connection, checked without the lock.
BroadcastConn(e, c) ==
    LET mine == {t \in pub[e].todo : t.conn = c}
    IN  /\ pub[e].cur = {}
        /\ mine # {}
        /\ pub' = [pub EXCEPT ![e].todo = @ \ mine,
                              ![e].cur  = IF Visible(c, e) THEN mine ELSE {}]
        /\ UNCHANGED <<mgr, out, auth, idle, tasks, stored>>

DoneWith(e, t) == pub' = [pub EXCEPT ![e].cur = @ \ {t}]

\* Broadcast, delivery under the lock: the entry is no longer the matched one.
DeliverStale(e, t) ==
    /\ t \in pub[e].cur
    /\ ~SameSnapshot(t.conn, t.sub, t.gen)
    /\ DoneWith(e, t)
    /\ UNCHANGED <<mgr, out, auth, idle, tasks, stored>>

\* ... the snapshot is still running: buffer.
DeliverBuffered(e, t) ==
    /\ t \in pub[e].cur
    /\ SameSnapshot(t.conn, t.sub, t.gen)
    /\ ~subs[t.conn][t.sub].done
    /\ Len(subs[t.conn][t.sub].pending) < PendingCap
    /\ subs' = [subs EXCEPT ![t.conn][t.sub].pending = Append(@, e)]
    /\ DoneWith(e, t)
    /\ UNCHANGED <<nextGen, closed, senders, out, auth, idle, tasks, stored>>

\* Mutant: CLOSED is sent and the entry stays.
DeliverOverflowKeeps(e, t) ==
    /\ t \in pub[e].cur
    /\ SameSnapshot(t.conn, t.sub, t.gen)
    /\ ~subs[t.conn][t.sub].done
    /\ Len(subs[t.conn][t.sub].pending) >= PendingCap
    /\ EnqueueSubscriptionFrame(t.conn, Frame("closed", t.sub, t.gen, 0))
    /\ DoneWith(e, t)
    /\ UNCHANGED <<mgr, auth, idle, tasks, stored>>

\* ... the buffer is full: remove the subscription and say CLOSED.
DeliverOverflow(e, t) ==
    /\ t \in pub[e].cur
    /\ SameSnapshot(t.conn, t.sub, t.gen)
    /\ ~subs[t.conn][t.sub].done
    /\ Len(subs[t.conn][t.sub].pending) >= PendingCap
    /\ RemoveLocked(t.conn, t.sub)
    /\ EnqueueSubscriptionFrame(t.conn, Frame("closed", t.sub, t.gen, 0))
    /\ DoneWith(e, t)
    /\ UNCHANGED <<nextGen, senders, auth, idle, tasks, stored>>

\* Mutant: live events do not wait for the snapshot.
DeliverLiveEarly(e, t) ==
    /\ t \in pub[e].cur
    /\ SameSnapshot(t.conn, t.sub, t.gen)
    /\ EnqueueSubscriptionFrame(t.conn, Frame("live", t.sub, t.gen, e))
    /\ DoneWith(e, t)
    /\ UNCHANGED <<mgr, auth, idle, tasks, stored>>

\* Mutant: the entry matched earlier is served without checking it is current.
DeliverLiveStale(e, t) ==
    /\ t \in pub[e].cur
    /\ subs[t.conn][t.sub].done
    /\ EnqueueSubscriptionFrame(t.conn, Frame("live", t.sub, t.gen, e))
    /\ DoneWith(e, t)
    /\ UNCHANGED <<mgr, auth, idle, tasks, stored>>

\* ... the snapshot is complete: send.
DeliverLive(e, t) ==
    /\ t \in pub[e].cur
    /\ SameSnapshot(t.conn, t.sub, t.gen)
    /\ subs[t.conn][t.sub].done
    /\ EnqueueSubscriptionFrame(t.conn, Frame("live", t.sub, t.gen, e))
    /\ DoneWith(e, t)
    /\ UNCHANGED <<mgr, auth, idle, tasks, stored>>

-----------------------------------------------------------------------------
Snapshot(a) ==
    \/ FetchPage(a) \/ FetchFails(a) \/ CloseOnQueryError(a)
    \/ \E e \in Events : \/ SendInvisible(a, e) \/ SendVisible(a, e)
                        \/ SendEvent(a, e)
    \/ SendStops(a) \/ PageSent(a) \/ EnqueueJob(a) \/ DrainNext(a)
    \/ CompleteSnapshot(a) \/ CompleteLost(a) \/ CompleteStale(a)

\* What a read loop does without waiting for its client.
ReadLoop(c) ==
    \/ ReqGeneration(c) \/ ReqNote(c) \/ CloseRemove(c) \/ CloseNote(c)
    \/ Snapshot(c)

Client(c) ==
    \/ RegisterSender(c) \/ Authenticate(c) \/ SwitchIdentity(c) \/ OtherFrame(c)
    \/ \E s \in SubIDs : CloseSend(c, s) \/ \E f \in Filters : ReqAdd(c, s, f)

ReaderQueue == WorkerTake \/ Snapshot(Worker)

Broadcast(e) ==
    \/ BroadcastMatch(e)
    \/ \E c \in Conns : BroadcastConn(e, c)
    \/ \E t \in Targets : \/ DeliverStale(e, t) \/ DeliverBuffered(e, t)
                           \/ DeliverOverflow(e, t) \/ DeliverLive(e, t)

Next ==
    \/ \E c \in Conns : \/ Client(c) \/ ReadLoop(c) \/ Teardown(c)
                        \/ WriteFrame(c) \/ WriteFails(c) \/ SweepIdle(c)
    \/ ReaderQueue
    \/ \E e \in Events : SaveEvent(e) \/ Broadcast(e)

Spec == Init /\ [][Next]_vars

\* Goroutines run; clients, the store's publishers and the writer owe nothing.
\* A cancelled connection's read loop returns, a started broadcast finishes.
Fairness ==
    /\ \A c \in Conns : /\ WF_vars(ReadLoop(c))
                        /\ WF_vars(Teardown(c) /\ c \in cancelled)
    /\ WF_vars(ReaderQueue)
    /\ \A e \in Events : WF_vars(Broadcast(e))

FairSpec == Spec /\ Fairness

-----------------------------------------------------------------------------
(* Types. *)

Entries == [gen : 0 .. MaxGen, filter : Filters \cup {NoFilter}, done : BOOLEAN,
            pending : Seq(Events), skipped : BOOLEAN, eoseLost : BOOLEAN]
Frames  == [kind : {"snap", "live", "eose", "closed", "ack"},
            sub : SubIDs, gen : Gens, ev : 0 .. NumEvents]
Jobs    == [conn : Conns, sub : SubIDs, gen : 0 .. MaxGen, filter : SUBSET Events,
            cursor : 0 .. NumEvents, left : Nat, page : SUBSET Events,
            more : BOOLEAN, sync : BOOLEAN]
Labels  == {"idle", "gen", "note", "remove", "noteClose", "fetch", "send",
            "push", "qerr", "enqueue", "drain", "complete"}

\* Every variable has its type.
TypeOK ==
    /\ subs \in [Conns -> [SubIDs -> Entries]]
    /\ nextGen \in 0 .. MaxGen
    /\ closed \subseteq Gens
    /\ senders \subseteq Conns
    /\ cancelled \subseteq Conns
    /\ queued \in [Conns -> 0 .. SendCap]
    /\ wire \in [Conns -> Seq(Frames)]
    /\ auth \in [Conns -> [key : {"none", "recipient", "other"}, late : SUBSET Events]]
    /\ idle \in [Conns -> {"clock", "subs"}]
    /\ pc \in [Actors -> Labels]
    /\ job \in [Actors -> Jobs]
    /\ jobs \in Seq(Jobs)
    /\ Len(jobs) <= QueueCap
    /\ stored \subseteq Events
    /\ pub \in [Events -> [st : {"new", "saved", "bcast"},
                           todo : SUBSET Targets, cur : SUBSET Targets]]

-----------------------------------------------------------------------------
(* Properties. *)

\* No frame of a replaced subscription follows a frame of its replacement:
\* Add closes the previous generation, and the worker's page jobs, the read
\* loop and Broadcast all check the generation under the manager lock.
GenerationsInOrder ==
    \A c \in Conns : \A i, j \in DOMAIN wire[c] :
        i < j /\ wire[c][i].sub = wire[c][j].sub => wire[c][i].gen <= wire[c][j].gen

\* EOSE separates stored events from live ones: a live event only follows the
\* EOSE of its own generation (pendingLive, finishSnapshotLocked).
LiveAfterEOSE ==
    \A c \in Conns : \A i \in DOMAIN wire[c] :
        wire[c][i].kind = "live" =>
            \E j \in 1 .. i - 1 : /\ wire[c][j].kind = "eose"
                                 /\ wire[c][j].gen = wire[c][i].gen

\* ... and after EOSE no page of that snapshot and no second EOSE is sent,
\* whoever runs the pages: read loop, worker, or the drain fallback.
SnapshotEndsAtEOSE ==
    \A c \in Conns : \A i, j \in DOMAIN wire[c] :
        i < j /\ wire[c][i].kind = "eose" /\ wire[c][j].kind \in {"snap", "eose"}
            => wire[c][i].gen # wire[c][j].gen

\* Frames keep the order of generations and of snapshot and EOSE.
SnapshotFrames == GenerationsInOrder /\ SnapshotEndsAtEOSE

\* When the relay itself closes a subscription (query error, live buffer
\* overflow, teardown), nothing of that generation is sent after the CLOSED.
ClosedIsFinal ==
    \A c \in Conns : \A i, j \in DOMAIN wire[c] :
        i < j /\ wire[c][i].kind = "closed" => wire[c][i].gen # wire[c][j].gen

\* The hand-over from snapshot to live stream loses no event: once a
\* subscription without limit is live, every stored matching event has been
\* sent on it, or its broadcast has yet to reach it.  Exempt are snapshots
\* that met a full channel, and gift wraps once their recipient has changed
\* its identity.
NoGap ==
    \A c \in Conns \ cancelled, s \in SubIDs :
        LET en == subs[c][s]
        IN  en.gen # 0 /\ en.done /\ ~en.skipped /\ en.filter.limit = 0 =>
              \A e \in stored \cap en.filter.set :
                \/ \E i \in DOMAIN wire[c] : wire[c][i].gen = en.gen /\ wire[c][i].ev = e
                \/ pub[e].st = "saved"
                \/ [conn |-> c, sub |-> s, gen |-> en.gen] \in pub[e].todo \cup pub[e].cur

\* A snapshot has one owner: a generation is in the hands of at most one read
\* loop, worker or queued page job at any time.
Working(a) == pc[a] \in {"fetch", "send", "push", "qerr", "enqueue", "drain", "complete"}
OneOwner ==
    /\ \A a, b \in Actors : a # b /\ Working(a) /\ Working(b) /\ job[a].gen # 0
                               => job[a].gen # job[b].gen
    /\ \A a \in Actors : \A i \in DOMAIN jobs : Working(a) => job[a].gen # jobs[i].gen
    /\ \A i, j \in DOMAIN jobs : i # j => jobs[i].gen # jobs[j].gen

\* A gift wrap is only sent to a connection that was authenticated as its
\* recipient at some time since the wrap was saved: a subscription opened under
\* one identity shows nothing published after the client switched to another.
PrivateOnlyToRecipient ==
    \A c \in Conns : \A i \in DOMAIN wire[c] :
        wire[c][i].ev \in Private => wire[c][i].ev \notin auth[c].late

\* Every accepted REQ is answered: its generation becomes live, or is closed,
\* replaced or its connection shut down, or its EOSE found the channel full.
SnapshotEnds ==
    \A c \in Conns, s \in SubIDs, g \in Gens :
        subs[c][s].gen = g ~> \/ subs[c][s].gen # g
                              \/ subs[c][s].done
                              \/ subs[c][s].eoseLost
                              \/ c \in cancelled

=============================================================================
