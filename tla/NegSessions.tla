---------------------------- MODULE NegSessions ----------------------------
(***************************************************************************)
(* Inbound negentropy (NIP-77) sessions: each connection's session map and *)
(* its read loop (NEG-OPEN, NEG-MSG, NEG-CLOSE), the queue and the single  *)
(* worker that load what a session reconciles, the idle timers, and the    *)
(* relay-wide counter of open sessions.                                    *)
(*                                                                         *)
(* A session is the number of the NEG-OPEN that asked for it: the larger   *)
(* of two sessions is the newer.  A step is a lock region of a session map *)
(* or one operation on the counter, the queue or the send channel.  What a *)
(* reconciliation contains is left out: it continues, ends or fails.       *)
(***************************************************************************)
EXTENDS Naturals, Sequences, FiniteSets

CONSTANTS
    Conns,        \* connections
    SubIDs,       \* negentropy subscription ids
    MaxSessions,  \* max_concurrent_sessions
    QueueCap,     \* capacity of NegQueue.jobs
    MaxOpens,     \* bound of the model: NEG-OPENs that reach reserve
    MaxMsgs       \* bound of the model: NEG-MSGs sent; then clients are quiet

ASSUME NegAssumption ==
    /\ Conns # {} /\ IsFiniteSet(Conns)
    /\ SubIDs # {} /\ IsFiniteSet(SubIDs)
    /\ MaxSessions \in Nat
    /\ QueueCap \in Nat
    /\ MaxOpens \in Nat
    /\ MaxMsgs \in Nat

Sessions == 1 .. MaxOpens
Keys     == Conns \X SubIDs
AnyKey   == CHOOSE k \in Keys : TRUE

VARIABLES
    byID,    \* byID[<<c, s>>]: the session in c's map under s, 0 if none
    active,  \* Server.negActiveSessions
    opened,  \* NEG-OPENs that reached reserve so far
    key,     \* key[x]: connection and subscription id of session x
    ready,   \* sessions whose vector is built (neg # nil)
    timer,   \* sessions with a pending idle timer (idleCancel)
    fired,   \* sessions one of whose timers fired and can no longer be cancelled
    late,    \* sessions removed by a timer whose NEG-ERR is not yet sent
    jobs,    \* NegQueue.jobs
    load,    \* session the worker loads, 0 if it waits
    loaded,  \* the worker has published it and is about to arm its timer
    pc,      \* where each read loop is
    cur,     \* the key and session its handler works on
    msgs,    \* NEG-MSGs sent so far
    wire     \* wire[c]: negentropy frames accepted by c's send channel

maps    == <<byID, active, opened, key, ready>>
timers  == <<timer, fired, late>>
worker  == <<jobs, load, loaded>>
readers == <<pc, cur, msgs>>
vars    == <<maps, timers, worker, readers, wire>>

Init ==
    /\ byID = [k \in Keys |-> 0]
    /\ active = 0
    /\ opened = 0
    /\ key = [x \in Sessions |-> AnyKey]
    /\ ready = {}
    /\ timer = {}
    /\ fired = {}
    /\ late = {}
    /\ jobs = <<>>
    /\ load = 0
    /\ loaded = FALSE
    /\ pc = [c \in Conns |-> "idle"]
    /\ cur = [c \in Conns |-> [sub |-> AnyKey[2], sess |-> 0]]
    /\ msgs = 0
    /\ wire = [c \in Conns |-> <<>>]

-----------------------------------------------------------------------------
(* Session maps, timers, frames. *)

Current(x) == x \in 1 .. opened /\ byID[key[x]] = x

\* reserve holds its map's lock while it waits for a slot.
Unlocked(c) == pc[c] # "take"

\* negSession.close and the deletion from the map.
CloseSession(x) ==
    /\ byID' = [byID EXCEPT ![key[x]] = 0]
    /\ active' = active - 1
    /\ timer' = timer \ {x}

\* removeIf: only when the map still holds this very session.
RemoveIf(x) ==
    IF Current(x) THEN CloseSession(x) ELSE UNCHANGED <<byID, active, timer>>

\* scheduleNegIdle: the previous timer is cancelled, a new one started.
ScheduleNegIdle(x) ==
    timer' = IF Current(x) THEN timer \cup {x} ELSE timer

\* Conn.enqueue of a frame; the channel may be full or closed.
Enqueue(c, kind, s, x) ==
    \/ wire' = [wire EXCEPT ![c] = Append(@, [kind |-> kind, sub |-> s, sess |-> x])]
    \/ UNCHANGED wire

Goto(c, label) == pc' = [pc EXCEPT ![c] = label]

-----------------------------------------------------------------------------
(* NEG-OPEN in the read loop. *)

\* reserve: the previous session under this id is closed ...
OpenReplace(c, s) ==
    /\ pc[c] = "idle"
    /\ opened < MaxOpens
    /\ opened' = opened + 1
    /\ key' = [key EXCEPT ![opened + 1] = <<c, s>>]
    /\ IF byID[<<c, s>>] = 0 THEN UNCHANGED <<byID, active, timer>>
       ELSE CloseSession(byID[<<c, s>>])
    /\ cur' = [cur EXCEPT ![c] = [sub |-> s, sess |-> opened + 1]]
    /\ Goto(c, "take")
    /\ UNCHANGED <<ready, fired, late, worker, msgs, wire>>

\* Mutant: one session more than the limit is let in.
OpenTakeOffByOne(c) ==
    /\ pc[c] = "take"
    /\ active <= MaxSessions
    /\ active' = active + 1
    /\ byID' = [byID EXCEPT ![<<c, cur[c].sub>>] = cur[c].sess]
    /\ Goto(c, "enqueue")
    /\ UNCHANGED <<opened, key, ready, timers, worker, cur, msgs, wire>>

\* ... a slot is taken by compare-and-swap, which other connections may have
\* used up meanwhile, and the pending session enters the map.
OpenTake(c) ==
    /\ pc[c] = "take"
    /\ active < MaxSessions
    /\ active' = active + 1
    /\ byID' = [byID EXCEPT ![<<c, cur[c].sub>>] = cur[c].sess]
    /\ Goto(c, "enqueue")
    /\ UNCHANGED <<opened, key, ready, timers, worker, cur, msgs, wire>>

OpenRefused(c) ==
    /\ pc[c] = "take"
    /\ active >= MaxSessions
    /\ Goto(c, "error")
    /\ UNCHANGED <<maps, timers, worker, cur, msgs, wire>>

\* Mutant: a full queue is answered without releasing the reservation.
OpenEnqueueLeaks(c) ==
    /\ pc[c] = "enqueue"
    /\ IF Len(jobs) < QueueCap
       THEN jobs' = Append(jobs, cur[c].sess) /\ Goto(c, "idle")
       ELSE UNCHANGED jobs /\ Goto(c, "error")
    /\ UNCHANGED <<maps, timers, load, loaded, cur, msgs, wire>>

\* NegQueue.Enqueue; a full queue gives the reservation up again.
OpenEnqueue(c) ==
    /\ pc[c] = "enqueue"
    /\ IF Len(jobs) < QueueCap
       THEN jobs' = Append(jobs, cur[c].sess) /\ Goto(c, "idle")
       ELSE UNCHANGED jobs /\ Goto(c, "drop")
    /\ UNCHANGED <<maps, timers, load, loaded, cur, msgs, wire>>

-----------------------------------------------------------------------------
(* NEG-MSG, NEG-CLOSE and teardown in the read loop. *)

\* getReady: unknown, still pending (removed), or ready.
MsgGet(c, s) ==
    LET x == byID[<<c, s>>]
    IN  /\ pc[c] = "idle"
        /\ msgs < MaxMsgs
        /\ msgs' = msgs + 1
        /\ cur' = [cur EXCEPT ![c] = [sub |-> s, sess |-> x]]
        /\ Goto(c, IF x = 0 THEN "error" ELSE IF x \in ready THEN "schedule" ELSE "drop")
        /\ UNCHANGED <<maps, timers, worker, wire>>

MsgSchedule(c) ==
    /\ pc[c] = "schedule"
    /\ ScheduleNegIdle(cur[c].sess)
    /\ Goto(c, "reconcile")
    /\ UNCHANGED <<maps, fired, late, worker, cur, msgs, wire>>

\* Reconcile continues, ends the session, or fails; no lock is held.
MsgReconcile(c) ==
    /\ pc[c] = "reconcile"
    /\ \E next \in {"reply", "finish", "drop"} : Goto(c, next)
    /\ UNCHANGED <<maps, timers, worker, cur, msgs, wire>>

\* removeIf before an error is reported ...
MsgDrop(c) ==
    /\ pc[c] = "drop"
    /\ RemoveIf(cur[c].sess)
    /\ Goto(c, "error")
    /\ UNCHANGED <<opened, key, ready, fired, late, worker, cur, msgs, wire>>

\* ... or before the last message of a finished session.
MsgFinish(c) ==
    /\ pc[c] = "finish"
    /\ RemoveIf(cur[c].sess)
    /\ Goto(c, "reply")
    /\ UNCHANGED <<opened, key, ready, fired, late, worker, cur, msgs, wire>>

\* The handler's frame: NEG-MSG or NEG-ERR.  One that answers a NEG-MSG for an
\* unknown id is not recorded.
Answer(c) ==
    /\ pc[c] \in {"reply", "error"}
    /\ IF cur[c].sess = 0 THEN UNCHANGED wire
       ELSE Enqueue(c, IF pc[c] = "reply" THEN "msg" ELSE "err", cur[c].sub, cur[c].sess)
    /\ Goto(c, "idle")
    /\ UNCHANGED <<maps, timers, worker, cur, msgs>>

\* handleNEGClose.
NegClose(c, s) ==
    /\ pc[c] = "idle"
    /\ byID[<<c, s>>] # 0
    /\ CloseSession(byID[<<c, s>>])
    /\ UNCHANGED <<opened, key, ready, fired, late, worker, readers, wire>>

\* The read loop has returned: closeAll.
CloseAll(c) ==
    LET mine == {k \in {c} \X SubIDs : byID[k] # 0}
    IN  /\ pc[c] = "idle"
        /\ byID' = [k \in Keys |-> IF k \in mine THEN 0 ELSE byID[k]]
        /\ active' = active - Cardinality(mine)
        /\ timer' = timer \ {byID[k] : k \in mine}
        /\ Goto(c, "gone")
        /\ UNCHANGED <<opened, key, ready, fired, late, worker, cur, msgs, wire>>

-----------------------------------------------------------------------------
(* The worker: runNegOpenJob. *)

\* The head of the queue, skipped when its session is gone.
LoadTake ==
    /\ load = 0
    /\ jobs # <<>>
    /\ Unlocked(key[Head(jobs)][1])
    /\ jobs' = Tail(jobs)
    /\ load' = IF Current(Head(jobs)) THEN Head(jobs) ELSE 0
    /\ UNCHANGED <<maps, timers, loaded, readers, wire>>

\* Mutant: the failure is reported whoever holds the id by now.
LoadFailsAnyway ==
    /\ load # 0
    /\ ~loaded
    /\ Unlocked(key[load][1])
    /\ RemoveIf(load)
    /\ Enqueue(key[load][1], "err", key[load][2], load)
    /\ load' = 0
    /\ UNCHANGED <<opened, key, ready, fired, late, jobs, loaded, readers>>

\* fail, under the map's lock: count, limit, query, visibility or reconcile.
LoadFails ==
    /\ load # 0
    /\ ~loaded
    /\ Unlocked(key[load][1])
    /\ RemoveIf(load)
    /\ \/ Current(load) /\ Enqueue(key[load][1], "err", key[load][2], load)
       \/ ~Current(load) /\ UNCHANGED wire
    /\ load' = 0
    /\ UNCHANGED <<opened, key, ready, fired, late, jobs, loaded, readers>>

\* The first answer, under the map's lock: the session stays when there is more
\* to come and its frame was accepted.
LoadAnswers ==
    /\ load # 0
    /\ ~loaded
    /\ Unlocked(key[load][1])
    /\ Current(load)
    /\ ready' = ready \cup {load}
    /\ \E more \in BOOLEAN :
          /\ Enqueue(key[load][1], "msg", key[load][2], load)
          /\ IF more /\ wire' # wire THEN UNCHANGED <<byID, active, timer>>
             ELSE CloseSession(load)
          /\ loaded' = more
          /\ load' = IF more THEN load ELSE 0
    /\ UNCHANGED <<opened, key, fired, late, jobs, readers>>

\* The session was closed or replaced while it was loaded: silence.
LoadStale ==
    /\ load # 0
    /\ ~loaded
    /\ Unlocked(key[load][1])
    /\ ~Current(load)
    /\ load' = 0
    /\ UNCHANGED <<maps, timers, jobs, loaded, readers, wire>>

LoadSchedule ==
    /\ loaded
    /\ Unlocked(key[load][1])
    /\ ScheduleNegIdle(load)
    /\ load' = 0
    /\ loaded' = FALSE
    /\ UNCHANGED <<maps, fired, late, jobs, readers, wire>>

-----------------------------------------------------------------------------
(* Idle timers. *)

\* The timeout passes before the timer is cancelled: its goroutine goes on.
TimerFires(x) ==
    /\ x \in timer
    /\ timer' = timer \ {x}
    /\ fired' = fired \cup {x}
    /\ UNCHANGED <<maps, late, worker, readers, wire>>

\* Mutant: the timer removes whatever its subscription id names by now.
IdleRemoveByID(x) ==
    /\ x \in fired
    /\ Unlocked(key[x][1])
    /\ fired' = fired \ {x}
    /\ IF byID[key[x]] # 0
       THEN CloseSession(byID[key[x]]) /\ late' = late \cup {x}
       ELSE UNCHANGED <<byID, active, timer, late>>
    /\ UNCHANGED <<opened, key, ready, worker, readers, wire>>

\* removeIf ...
IdleRemove(x) ==
    /\ x \in fired
    /\ Unlocked(key[x][1])
    /\ fired' = fired \ {x}
    /\ RemoveIf(x)
    /\ late' = IF Current(x) THEN late \cup {x} ELSE late
    /\ UNCHANGED <<opened, key, ready, worker, readers, wire>>

\* ... then, without the lock, NEG-ERR.
IdleError(x) ==
    /\ x \in late
    /\ late' = late \ {x}
    /\ Enqueue(key[x][1], "idle", key[x][2], x)
    /\ UNCHANGED <<maps, timer, fired, worker, readers>>

-----------------------------------------------------------------------------
\* What a read loop does without waiting for its client.
Handle(c) ==
    \/ OpenTake(c) \/ OpenRefused(c) \/ OpenEnqueue(c)
    \/ MsgSchedule(c) \/ MsgReconcile(c) \/ MsgDrop(c) \/ MsgFinish(c)
    \/ Answer(c)

Client(c) ==
    \/ \E s \in SubIDs : OpenReplace(c, s) \/ MsgGet(c, s) \/ NegClose(c, s)
    \/ CloseAll(c)

Worker == LoadTake \/ LoadFails \/ LoadAnswers \/ LoadStale \/ LoadSchedule

Timer(x) == TimerFires(x) \/ IdleRemove(x) \/ IdleError(x)

Next ==
    \/ \E c \in Conns : Client(c) \/ Handle(c)
    \/ Worker
    \/ \E x \in Sessions : Timer(x)

Spec == Init /\ [][Next]_vars

\* Goroutines run and time passes; clients owe nothing.
Fairness ==
    /\ \A c \in Conns : WF_vars(Handle(c))
    /\ WF_vars(Worker)
    /\ \A x \in Sessions : WF_vars(Timer(x))

FairSpec == Spec /\ Fairness

-----------------------------------------------------------------------------
Labels == {"idle", "take", "enqueue", "schedule", "reconcile", "drop", "finish",
           "reply", "error", "gone"}

\* Every variable has its type.
TypeOK ==
    /\ byID \in [Keys -> 0 .. MaxOpens]
    /\ active \in Nat
    /\ opened \in 0 .. MaxOpens
    /\ key \in [Sessions -> Keys]
    /\ ready \subseteq Sessions
    /\ timer \subseteq Sessions
    /\ fired \subseteq Sessions
    /\ late \subseteq Sessions
    /\ jobs \in Seq(Sessions)
    /\ load \in 0 .. MaxOpens
    /\ loaded \in BOOLEAN
    /\ pc \in [Conns -> Labels]
    /\ cur \in [Conns -> [sub : SubIDs, sess : 0 .. MaxOpens]]
    /\ msgs \in 0 .. MaxMsgs
    /\ wire \in [Conns -> Seq([kind : {"msg", "err", "idle"}, sub : SubIDs,
                               sess : Sessions])]

-----------------------------------------------------------------------------
(* Properties. *)

Held == {k \in Keys : byID[k] # 0}

\* Slots are neither leaked nor released twice, whoever ends a session: the
\* counter equals the sessions in all maps, and respects the limit.
SlotsExact ==
    /\ active = Cardinality(Held)
    /\ active <= MaxSessions

\* "Replaced or closed jobs must neither release a newer slot nor emit a
\* response for its ID": once a newer session has been answered under an id,
\* neither the worker nor a handler answers an older one there.
AnswersInOrder ==
    \A c \in Conns : \A i, j \in DOMAIN wire[c] :
        /\ i < j
        /\ wire[c][i].sub = wire[c][j].sub
        /\ wire[c][j].kind # "idle"
        => wire[c][i].sess <= wire[c][j].sess

\* A session that a timer or a load job ends is its own: a stale timer or job
\* spares the session that reused its id.  (Steps of read loops are not
\* constrained.)
OnlyOwnEnds ==
    [][\A x \in Sessions : Current(x) /\ byID'[key[x]] # x =>
          /\ fired' # fired => x \in fired \ fired'
          /\ load' # load => x = load]_vars

\* Every session gives its slot back once clients are quiet: the queue answers
\* or drops it, and its timer is armed whatever raced with arming it.
SlotReleased == \A x \in Sessions : Current(x) ~> ~Current(x)

=============================================================================
