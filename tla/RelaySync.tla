----------------------------- MODULE RelaySync -----------------------------
(***************************************************************************)
(* The product cache of the Conduit relay: a backfill that pages through   *)
(* the history of the source relays in windows of time and keeps a         *)
(* watermark on disk, a live subscription beside it, restarts, and the two *)
(* ways a process ends: it dies, or a signal cancels the context of both   *)
(* goroutines, which go on until main returns.                             *)
(*                                                                         *)
(* Time is counted in whole seconds and an event is available upstream     *)
(* from the second of its created_at on.  Event ids are numbers, their     *)
(* order is the tie-break of IsOlder.  A deletion is an event with an      *)
(* address of its own.  The store is durable and holds what the latest     *)
(* version of each address is.                                             *)
(***************************************************************************)
EXTENDS Integers, FiniteSets

CONSTANTS
    Events,      \* event ids
    At,          \* At[e]: created_at
    Addr,        \* Addr[e]: the address it replaces
    Bad,         \* events the relay ignores or refuses
    Deletions,   \* regular events, of kind 5
    Relays,      \* source relays
    Holds,       \* Holds[r]: events published on relay r
    FetchLimit,
    Window,      \* BackfillWindow
    Since,       \* BackfillSince
    Lookback,    \* LiveLookback
    MaxTime,     \* bound of the model: the clock
    MaxCrashes,  \* bound of the model: ends of the process
    MaxFaults    \* bound of the model: faults, which are that a source relay does
                 \* not answer or drops an event of the subscription, the event
                 \* store refuses a write, the state file cannot be written, or
                 \* the process dies while the state file is being written

ASSUME SyncAssumption ==
    /\ Events \subseteq Nat /\ Bad \subseteq Events /\ Deletions \subseteq Events
    /\ IsFiniteSet(Events) /\ IsFiniteSet(Relays)
    /\ MaxTime \in Nat /\ MaxCrashes \in Nat /\ MaxFaults \in Nat
    /\ At \in [Events -> 1 .. MaxTime]
    /\ DOMAIN Addr = Events
    /\ Holds \in [Relays -> SUBSET Events]
    /\ FetchLimit \in Nat \ {0} /\ Window \in Nat \ {0} /\ Lookback \in Nat \ {0}
    /\ Since \in 1 .. MaxTime

Procs  == {"backfill", "live"}
None   == -1   \* no event
Torn   == -1   \* a state file that was opened for writing and not written

VARIABLES
    now,       \* the clock
    store,     \* stored events
    disk,      \* synced_until in the state file, 0 if there is none
    process,   \* "up", "stopping" once its context is cancelled, "down", or
               \* "refused": it does not start any more
    crashes, faults,
    mem,       \* RelaySyncer.state.SyncedUntil
    imported,  \* RelaySyncer.stats.Imported
    inbox,     \* inbox[p]: events goroutine p has yet to handle
    held,      \* held[p]: the event it has looked up and is about to add
    bpc,       \* where backfill is
    start, end, window, next, before,   \* its local variables
    lpc,       \* where streamLive is
    since,     \* its filter
    sent,      \* events the subscription has delivered
    missed,    \* history: events lost to the limit of a reply or to a fault
    cut        \* history: events a stopping process dropped from its window, and
               \* did so for good if the state file has the window behind it

disks    == <<store, disk>>
stats    == <<mem, imported>>
handling == <<inbox, held>>
backfill == <<bpc, start, end, window, next, before>>
live     == <<lpc, since, sent>>
vars     == <<now, disks, process, crashes, faults, stats, handling, backfill, live, missed, cut>>

\* No state file yet; both goroutines are about to run.
Init ==
    /\ now \in Since .. MaxTime
    /\ store = {} /\ disk = 0
    /\ process = "up" /\ crashes = 0 /\ faults = 0
    /\ mem = 0 /\ imported = 0
    /\ inbox = [p \in Procs |-> {}] /\ held = [p \in Procs |-> None]
    /\ bpc = "begin"
    /\ start = 0 /\ end = 0 /\ window = Window /\ next = 0 /\ before = 0
    /\ lpc = "begin" /\ since = 0 /\ sent = {}
    /\ missed = {} /\ cut = {}

\* The goroutines run on in a process that is stopping.
Running == process \in {"up", "stopping"}

Min2(a, b) == IF a < b THEN a ELSE b
Max2(a, b) == IF a < b THEN b ELSE a

-----------------------------------------------------------------------------
(* The source relays. *)

\* Events relay r has with since <= created_at <= until.
Matching(r, from, until) ==
    {e \in Holds[r] : At[e] >= from /\ At[e] <= until /\ At[e] <= now}

\* What relay r may answer to a query with a limit: its newest events.
Replies(r, from, until) ==
    LET M == Matching(r, from, until) IN
    {S \in SUBSET M :
        /\ Cardinality(S) = Min2(FetchLimit, Cardinality(M))
        /\ \A e \in S, f \in M \ S : At[e] >= At[f]}

Fault == faults < MaxFaults /\ faults' = faults + 1

-----------------------------------------------------------------------------
(* handleIncomingEvent, in either goroutine. *)

IsOlder(f, e) == At[f] < At[e] \/ (At[f] = At[e] /\ f < e)

Stored(e) == \E f \in store : Addr[f] = Addr[e] /\ ~IsOlder(f, e)

\* Checks of the event and lookup of what is stored under its address.
Lookup(p) ==
    /\ Running
    /\ held[p] = None
    /\ \E e \in inbox[p] :
          /\ inbox' = [inbox EXCEPT ![p] = @ \ {e}]
          /\ held' = IF e \in Bad \/ Stored(e) THEN held ELSE [held EXCEPT ![p] = e]
    /\ UNCHANGED <<now, disks, process, crashes, faults, stats, backfill, live, missed, cut>>

\* Mutant: the store trusts the lookup and replaces what it has.
AddBlind(p) ==
    /\ Running
    /\ held[p] # None
    /\ store' = {f \in store : Addr[f] # Addr[held[p]]} \cup {held[p]}
    /\ imported' = imported + 1
    /\ held' = [held EXCEPT ![p] = None]
    /\ UNCHANGED <<now, disk, process, crashes, faults, mem, inbox, backfill, live, missed, cut>>

\* AddEvent; the store replaces older versions and drops a stale one.  Only a
\* deletion the other goroutine has stored meanwhile counts as a duplicate.
Add(p) ==
    /\ Running
    /\ held[p] # None
    /\ store' = IF Stored(held[p]) THEN store
                ELSE {f \in store : Addr[f] # Addr[held[p]]} \cup {held[p]}
    /\ imported' = IF held[p] \in Deletions /\ Stored(held[p]) THEN imported ELSE imported + 1
    /\ held' = [held EXCEPT ![p] = None]
    /\ UNCHANGED <<now, disk, process, crashes, faults, mem, inbox, backfill, live, missed, cut>>

\* AddEvent fails: the event is counted as rejected and forgotten.
AddFails(p) ==
    /\ Running
    /\ Fault
    /\ held[p] # None
    /\ missed' = missed \cup {held[p]}
    /\ held' = [held EXCEPT ![p] = None]
    /\ UNCHANGED <<now, disks, process, crashes, stats, inbox, backfill, live, cut>>

Cut(p, S) == cut' = IF p = "backfill" THEN cut \cup S ELSE cut

\* The context is cancelled: the channel of events ends early, or main has
\* closed the event store and AddEvent fails.  fetchWindow reports neither.
Drop(p) ==
    /\ process = "stopping"
    /\ \/ /\ inbox[p] # {} /\ Cut(p, inbox[p])
          /\ inbox' = [inbox EXCEPT ![p] = {}] /\ UNCHANGED held
       \/ /\ held[p] # None /\ Cut(p, {held[p]})
          /\ held' = [held EXCEPT ![p] = None] /\ UNCHANGED inbox
    /\ UNCHANGED <<now, disks, process, crashes, faults, stats, backfill, live, missed>>

-----------------------------------------------------------------------------
(* backfill. *)

\* initialBackfillStart.
InitialBackfillStart == IF mem <= 0 THEN Since ELSE Max2(Since, mem)

BackfillBegins ==
    /\ Running
    /\ bpc = "begin"
    /\ start' = InitialBackfillStart
    /\ end' = now
    /\ bpc' = IF InitialBackfillStart < now THEN "loop" ELSE "done"
    /\ UNCHANGED <<now, disks, process, crashes, faults, stats, handling, window, next, before,
                   live, missed, cut>>

\* fetchWindow: since is the start, until the second before the end.
Fetch(from, to) ==
    \E down \in SUBSET Relays, reply \in [Relays -> SUBSET Events] :
       /\ faults' = faults + Cardinality(down) /\ faults' <= MaxFaults
       /\ \A r \in Relays : reply[r] \in IF r \in down THEN {{}} ELSE Replies(r, from, to - 1)
       /\ inbox' = [inbox EXCEPT !["backfill"] = UNION {reply[r] : r \in Relays}]
       /\ missed' = missed \cup
             UNION {Matching(r, from, to - 1) \ reply[r] : r \in Relays}

\* Mutant: both ends of the window are excluded.
BackfillFetchOpen ==
    /\ process = "up"
    /\ bpc = "loop"
    /\ next' = Min2(start + window, end)
    /\ before' = imported
    /\ Fetch(start + 1, Min2(start + window, end))
    /\ bpc' = "fetching"
    /\ UNCHANGED <<now, disks, process, crashes, stats, held, start, end, window, live, cut>>

BackfillFetch ==
    /\ process = "up"
    /\ bpc = "loop"
    /\ next' = Min2(start + window, end)
    /\ before' = imported
    /\ Fetch(start, Min2(start + window, end))
    /\ bpc' = "fetching"
    /\ UNCHANGED <<now, disks, process, crashes, stats, held, start, end, window, live, cut>>

\* The loop reads the context before a window, and nowhere else.
BackfillCancelled ==
    /\ process = "stopping"
    /\ bpc = "loop"
    /\ bpc' = "stopped"
    /\ UNCHANGED <<now, disks, process, crashes, faults, stats, handling, start, end, window, next,
                   before, live, missed, cut>>

\* The window is full when it brought FetchLimit imports, those of the live
\* subscription included; it is then repeated with half its length.
WindowDone ==
    /\ Running
    /\ bpc = "fetching"
    /\ inbox["backfill"] = {} /\ held["backfill"] = None
    /\ IF imported - before >= FetchLimit /\ next - start > 1
       THEN window' = Max2(window \div 2, 1) /\ bpc' = "loop"
       ELSE bpc' = "advance" /\ UNCHANGED window
    /\ UNCHANGED <<now, disks, process, crashes, faults, stats, handling, start, end, next, before,
                   live, missed, cut>>

\* Mutant: the loop does not move on.
NextWindowStays ==
    /\ start' = start
    /\ bpc' = IF next < end THEN "loop" ELSE "done"

NextWindow ==
    /\ start' = next
    /\ bpc' = IF next < end THEN "loop" ELSE "done"

\* advanceState; os.WriteFile truncates the file before it writes.
AdvanceState ==
    /\ Running
    /\ bpc = "advance"
    /\ IF next <= mem THEN NextWindow /\ UNCHANGED <<mem, disk>>
       ELSE /\ mem' = next
            /\ disk' = Torn
            /\ bpc' = "write"
            /\ UNCHANGED start
    /\ UNCHANGED <<now, store, process, crashes, faults, imported, handling, end, window, next, before,
                   live, missed, cut>>

StateWritten ==
    /\ Running
    /\ bpc = "write"
    /\ disk' = mem
    /\ NextWindow
    /\ UNCHANGED <<now, store, process, crashes, faults, stats, handling, end, window, next, before,
                   live, missed, cut>>

\* The directory cannot be made, or the file not be written: backfill stops.
WriteFails ==
    /\ Running
    /\ Fault
    /\ \/ bpc = "advance" /\ next > mem /\ mem' = next
       \/ bpc = "write" /\ UNCHANGED mem
    /\ bpc' = "stopped"
    /\ UNCHANGED <<now, disks, process, crashes, imported, handling, start, end, window, next,
                   before, live, missed, cut>>

-----------------------------------------------------------------------------
(* streamLive. *)

\* Mutant: the subscription starts after the newest event of the clock.
LiveBeginsNow ==
    /\ process = "up"
    /\ lpc = "begin"
    /\ lpc' = "on"
    /\ since' = now + 1
    /\ UNCHANGED <<now, disks, process, crashes, faults, stats, handling, backfill, sent, missed, cut>>

LiveBegins ==
    /\ process = "up"
    /\ lpc = "begin"
    /\ lpc' = "on"
    /\ since' = IF mem > 0 THEN Max2(now, mem) - Lookback ELSE now - Lookback
    /\ UNCHANGED <<now, disks, process, crashes, faults, stats, handling, backfill, sent, missed, cut>>

Subscribed == {e \in UNION {Holds[r] : r \in Relays} : At[e] >= since /\ At[e] <= now}

LiveReceives ==
    /\ process = "up"
    /\ lpc = "on"
    /\ \E e \in Subscribed \ sent :
          /\ inbox' = [inbox EXCEPT !["live"] = @ \cup {e}]
          /\ sent' = sent \cup {e}
    /\ UNCHANGED <<now, disks, process, crashes, faults, stats, held, backfill, lpc, since, missed, cut>>

LiveLoses ==
    /\ process = "up"
    /\ Fault
    /\ lpc = "on"
    /\ \E e \in Subscribed \ sent :
          /\ missed' = missed \cup {e}
          /\ sent' = sent \cup {e}
    /\ UNCHANGED <<now, disks, process, crashes, stats, handling, backfill, lpc, since, cut>>

-----------------------------------------------------------------------------
(* The environment: the clock, the process. *)

\* The goroutines of run start together: streamLive subscribes before the
\* look-back behind backfill's end has passed.
Tick ==
    /\ now < MaxTime
    /\ process = "up" /\ lpc = "begin" /\ bpc # "begin" => now < end + Lookback
    /\ now' = now + 1
    /\ UNCHANGED <<disks, process, crashes, faults, stats, handling, backfill, live, missed, cut>>

\* Memory is back to what it is at the start.  What was cut from a window the
\* state file does not have behind it is fetched again.
Ends ==
    /\ IF bpc = "write" THEN Fault ELSE UNCHANGED faults
    /\ process' = "down"
    /\ mem' = 0 /\ imported' = 0
    /\ inbox' = [p \in Procs |-> {}] /\ held' = [p \in Procs |-> None]
    /\ bpc' = "begin"
    /\ start' = 0 /\ end' = 0 /\ window' = Window /\ next' = 0 /\ before' = 0
    /\ lpc' = "begin" /\ since' = 0 /\ sent' = {}
    /\ cut' = {e \in cut : At[e] < disk}
    /\ UNCHANGED <<now, disks, missed>>

\* The process dies.
Crash ==
    /\ process = "up"
    /\ crashes < MaxCrashes
    /\ crashes' = crashes + 1
    /\ Ends

\* A signal cancels the context that StartRelaySync was given.
Stop ==
    /\ process = "up"
    /\ crashes < MaxCrashes
    /\ crashes' = crashes + 1
    /\ process' = "stopping"
    /\ UNCHANGED <<now, disks, faults, stats, handling, backfill, live, missed, cut>>

\* main returns when the server has stopped; it does not wait for the syncer.
Exit ==
    /\ process = "stopping"
    /\ UNCHANGED crashes
    /\ Ends

\* loadState refuses a file it cannot decode, and the relay does not start.
Restart ==
    /\ process = "down"
    /\ IF disk = Torn THEN process' = "refused" /\ UNCHANGED mem
       ELSE process' = "up" /\ mem' = disk
    /\ UNCHANGED <<now, disks, crashes, faults, imported, handling, backfill, live, missed, cut>>

Backfill ==
    BackfillBegins \/ BackfillFetch \/ BackfillCancelled \/ WindowDone \/ AdvanceState
    \/ StateWritten

Handle(p) == Lookup(p) \/ Add(p)

Next ==
    \/ Backfill \/ WriteFails
    \/ LiveBegins \/ LiveReceives \/ LiveLoses
    \/ \E p \in Procs : Handle(p) \/ AddFails(p) \/ Drop(p)
    \/ Tick \/ Crash \/ Stop \/ Exit \/ Restart

Spec == Init /\ [][Next]_vars

\* Goroutines run, relays answer, main returns after a signal and a process
\* that has ended is started again; time need not pass and nothing has to fail.
Fairness ==
    /\ WF_vars(Backfill)
    /\ WF_vars(LiveBegins \/ LiveReceives)
    /\ \A p \in Procs : WF_vars(Handle(p))
    /\ WF_vars(Exit) /\ WF_vars(Restart)

FairSpec == Spec /\ Fairness

-----------------------------------------------------------------------------
(* Properties. *)

\* Types.
TypeOK ==
    /\ now \in Since .. MaxTime
    /\ store \subseteq Events /\ missed \subseteq Events /\ cut \subseteq Events /\ sent \subseteq Events
    /\ disk \in 0 .. MaxTime \cup {Torn}
    /\ process \in {"up", "stopping", "down", "refused"}
    /\ crashes \in 0 .. MaxCrashes /\ faults \in 0 .. MaxFaults
    /\ mem \in 0 .. MaxTime /\ imported \in Nat
    /\ inbox \in [Procs -> SUBSET Events] /\ held \in [Procs -> Events \cup {None}]
    /\ bpc \in {"begin", "loop", "fetching", "advance", "write", "stopped", "done"}
    /\ start \in 0 .. MaxTime /\ end \in 0 .. MaxTime /\ next \in 0 .. MaxTime
    /\ window \in 1 .. Window /\ before \in Nat
    /\ lpc \in {"begin", "on"} /\ since \in Int

\* The cache holds e, a later version of it, or has no use for it.
Cached(e) == e \in Bad \/ Stored(e)

Upstream == UNION {Holds[r] : r \in Relays}

\* Whatever the source relays held before the watermark, on disk or in
\* memory, is in the cache, unless a reply was cut at its limit, a fault took
\* the event, or the process was told to stop while it fetched the window the
\* event lies in: advanceState then takes the window for complete.  A crash, a
\* window boundary or a race with the live subscription never loses one, and
\* a stop loses none but those of that window.
NothingSkipped ==
    \A e \in Upstream \ (missed \cup cut) :
       At[e] >= Since /\ At[e] < Max2(mem, disk) => Cached(e)

\* The watermark stays within the horizon and passes nothing by.
WatermarkSound == TypeOK /\ NothingSkipped

\* The store keeps one version of an address, and a version that was stored
\* is only ever replaced by a later one.
NeverOlder == [][\A e \in store : \E f \in store' : Addr[f] = Addr[e] /\ ~IsOlder(f, e)]_vars

\* Nobody fetches e any more: the watermark passed it while the process was
\* stopping, or backfill gave up because the state file could not be written,
\* and the live subscription of this process began after e.
Abandoned(e) ==
    \/ e \in cut
    \/ process = "up" /\ bpc = "stopped" /\ lpc = "on" /\ At[e] < since

\* Every event since BackfillSince reaches the cache unless a reply was cut, a
\* fault took the event, or it is abandoned for good: a restart resumes where
\* the watermark is, and what is published while the process is down or the
\* backfill runs is caught by one of the two.  A crash that tears the state
\* file keeps the relay from starting (loadState, cmd/demo).
EventuallyCached ==
    \A e \in Upstream :
       (At[e] >= Since /\ At[e] <= now) ~>
          (Cached(e) \/ e \in missed \/ process = "refused" \/ []Abandoned(e))

\* A backfill that begins comes to its end, or the process does.
BackfillEnds == bpc = "loop" ~> (bpc \in {"done", "stopped"} \/ process # "up")

\* The backfill comes to its end, and it and the live subscription together
\* bring every event.
SyncProgress == EventuallyCached /\ BackfillEnds

\* When no second holds more events than FetchLimit, a backfill that reports
\* its completion has cached every product of its horizon.
BackfillComplete ==
    bpc = "done" =>
       \A e \in Upstream : At[e] >= Since /\ At[e] < end => Cached(e)
=============================================================================
