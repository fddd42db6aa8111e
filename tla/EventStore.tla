---------------------------- MODULE EventStore ----------------------------
(***************************************************************************)
(* Publishing: the EVENT handler (relay/nip01.go) and the import of        *)
(* upstream events (nip77/upstream) of one or more relay processes, the    *)
(* store's SaveEvent as the statements of one transaction                  *)
(* (storage/postgres, storage/sqlevent), and the notifications by which    *)
(* one process tells the others (postgres/notifier.go,                     *)
(* relay/notifier_fanout.go).                                              *)
(*                                                                         *)
(* Transactions run at READ COMMITTED: a statement sees the committed rows *)
(* and the transaction's own changes.  On PostgreSQL a transaction on a    *)
(* replaceable or addressable event holds an advisory lock on the address; *)
(* on SQLite the writer queue runs one write at a time, which is a lock    *)
(* every write takes, and there is one process and no notifier.            *)
(***************************************************************************)
EXTENDS EventOrder, Sequences

CONSTANTS
  Instances,   \* relay processes on one database
  Single,      \* the one process of a SQLite relay
  Handlers,    \* goroutines that publish: connection readers and importers
  Importers,   \* the handlers that pull from an upstream relay
  InstanceOf,  \* [Handlers -> Instances]
  Engines,     \* the engines of this model: "postgres", "sqlite"
  NoEvent,
  ChanCap,     \* capacity of the notifier's channel (256)
  Offers,      \* bound: [Handlers -> the events it may publish]
  MaxSends,    \* bound: events a handler publishes
  MaxFaults    \* bound: failures of the database, the network, a process

ASSUME StoreAssumption ==
  /\ Single \in Instances
  /\ Importers \subseteq Handlers
  /\ InstanceOf \in [Handlers -> Instances]
  /\ Engines \subseteq {"postgres", "sqlite"}
  /\ NoEvent \notin Events /\ Regular # "writer"
  /\ Offers \in [Handlers -> SUBSET Events]
  /\ ChanCap \in Nat \ {0} /\ MaxSends \in Nat /\ MaxFaults \in Nat

VARIABLES
  engine,     \* the configured engine
  stored,     \* the committed rows of events (their tag rows go with them)
  pc,         \* [Handlers -> where the handler is in handleEVENT]
  ev,         \* [Handlers -> the event it handles]
  gone,       \* [Handlers -> the rows its open transaction deleted]
  left,       \* [Handlers -> events it will still publish]
  acked,      \* events of a stored kind answered OK true
  listening,  \* [Instances -> the LISTEN connection is up]
  notes,      \* [Instances -> notifications on the LISTEN connection]
  ch,         \* [Instances -> event ids in the notifier's channel]
  fan,        \* [Instances -> the event whose row the fan-out has read]
  shown,      \* [Instances -> [Events -> times broadcast to subscriptions]]
  lost,       \* <<i, e>>: process i cannot learn of e any more
  faults

tx == <<pc, ev, gone, left>>
wire == <<listening, notes, ch, fan>>
vars == <<engine, stored, tx, acked, wire, shown, lost, faults>>

InTx == {"insert", "commit"}
Pcs == {"idle", "check", "begin", "relook", "notify", "hooks"} \cup InTx

\* The relays have started: every notifier listens (until its connection
\* breaks).
Init ==
  /\ engine \in Engines
  /\ stored = {} /\ acked = {} /\ lost = {} /\ faults = 0
  /\ pc = [h \in Handlers |-> "idle"]
  /\ ev = [h \in Handlers |-> NoEvent]
  /\ gone = [h \in Handlers |-> {}]
  /\ left = [h \in Handlers |-> MaxSends]
  /\ listening = [i \in Instances |-> engine = "postgres"]
  /\ notes = [i \in Instances |-> <<>>]
  /\ ch = [i \in Instances |-> <<>>]
  /\ fan = [i \in Instances |-> NoEvent]
  /\ shown = [i \in Instances |-> [e \in Events |-> 0]]

\* The processes that run: several share a PostgreSQL database only.
Active == IF engine = "sqlite" THEN {Single} ELSE Instances

Fault == faults < MaxFaults /\ faults' = faults + 1

\* broadcastEvent on process i: the live subscriptions see e.
Show(i, e) == shown' = [shown EXCEPT ![i][e] = @ + 1]

At(h, where) == pc' = [pc EXCEPT ![h] = where]

\* The handler's last step.  The client is answered OK, the importer is not.
Finish(h, ok) ==
  /\ At(h, "idle")
  /\ ev' = [ev EXCEPT ![h] = NoEvent]
  /\ gone' = [gone EXCEPT ![h] = {}]
  /\ acked' = IF ok /\ h \notin Importers THEN acked \cup {ev[h]} ELSE acked
  /\ UNCHANGED left

---------------------------------------------------------------------------
(* handleEVENT and persistImportedEvent. *)

\* A valid event of a stored kind arrives; the handler looks its id up first.
Receive(h, e) ==
  /\ pc[h] = "idle" /\ left[h] > 0 /\ InstanceOf[h] \in Active
  /\ e \notin Ephemeral
  /\ left' = [left EXCEPT ![h] = @ - 1]
  /\ ev' = [ev EXCEPT ![h] = e]
  /\ At(h, "check")
  /\ UNCHANGED <<engine, stored, gone, acked, wire, shown, lost, faults>>

\* An ephemeral event is acknowledged and shown, and never stored, nor
\* notified to the other processes.
ReceiveEphemeral(h, e) ==
  /\ pc[h] = "idle" /\ left[h] > 0 /\ InstanceOf[h] \in Active
  /\ e \in Ephemeral /\ h \notin Importers
  /\ left' = [left EXCEPT ![h] = @ - 1]
  /\ Show(InstanceOf[h], e)
  /\ UNCHANGED <<engine, stored, pc, ev, gone, acked, wire, lost, faults>>

\* HasEventID: an exact replay is acknowledged without hooks.  The lookup may
\* fail, and the client is refused.
CheckStored(h) ==
  /\ pc[h] = "check" /\ ev[h] \in stored
  /\ Finish(h, TRUE)
  /\ UNCHANGED <<engine, stored, wire, shown, lost, faults>>

CheckNew(h) ==
  /\ pc[h] = "check" /\ ev[h] \notin stored
  /\ At(h, "begin")
  /\ UNCHANGED <<engine, stored, ev, gone, left, acked, wire, shown, lost, faults>>

CheckFails(h) ==
  /\ pc[h] = "check" /\ Fault
  /\ Finish(h, FALSE)
  /\ UNCHANGED <<engine, stored, wire, shown, lost>>

\* SaveEvent failed: a client's handler looks again, because a concurrent
\* publisher may have stored the same event.  The importer gives up.
Relook(h) ==
  /\ pc[h] = "relook"
  /\ Finish(h, ev[h] \in stored)
  /\ UNCHANGED <<engine, stored, wire, shown, lost, faults>>

RelookFails(h) ==
  /\ pc[h] = "relook" /\ Fault
  /\ Finish(h, FALSE)
  /\ UNCHANGED <<engine, stored, wire, shown, lost>>

\* The post-store hooks (DeliverImportedEvent for an import), then OK.
RunHooks(h) ==
  /\ pc[h] = "hooks"
  /\ Show(InstanceOf[h], ev[h])
  /\ Finish(h, TRUE)
  /\ UNCHANGED <<engine, stored, wire, lost, faults>>

---------------------------------------------------------------------------
(* SaveEvent. *)

LockKey(e) == IF engine = "sqlite" THEN "writer" ELSE AddrOf[e]

\* Mutant: no advisory lock is taken.
LockFreeAlways(h) == TRUE

\* pg_advisory_xact_lock, or the writer queue: wait for the open transaction
\* on the same key.  A regular event on PostgreSQL takes no lock.
LockFree(h) ==
  \/ LockKey(ev[h]) = Regular
  \/ \A o \in Handlers \ {h} :
       pc[o] \in InTx => LockKey(ev[o]) # LockKey(ev[h])

\* The lock is granted and the DELETE of the older versions of this event
\* runs, on the rows committed by then.
BeginDelete(h) ==
  /\ pc[h] = "begin" /\ LockFree(h)
  /\ gone' = [gone EXCEPT ![h] = Older(ev[h], stored)]
  /\ At(h, "insert")
  /\ UNCHANGED <<engine, stored, ev, left, acked, wire, shown, lost, faults>>

\* The INSERT inserts no row: another version is stored (WHERE NOT EXISTS,
\* ErrStaleReplaceable), or this very id (the primary key).
Refused(h) ==
  \/ ev[h] \in stored
  \/ \E r \in stored \ gone[h] : SameAddress(r, ev[h])

\* Mutant: a refused insert starts the transaction again.
InsertRetries(h) ==
  /\ pc[h] = "insert"
  /\ \A o \in Handlers \ {h} : ~(pc[o] = "commit" /\ ev[o] = ev[h])
  /\ \/ Refused(h) /\ At(h, "begin") /\ gone' = [gone EXCEPT ![h] = {}]
     \/ ~Refused(h) /\ At(h, "commit") /\ UNCHANGED gone
  /\ UNCHANGED <<engine, stored, ev, left, acked, wire, shown, lost, faults>>

\* INSERT.  An uncommitted row with the same id makes it wait for that
\* transaction.
Insert(h) ==
  /\ pc[h] = "insert"
  /\ \A o \in Handlers \ {h} : ~(pc[o] = "commit" /\ ev[o] = ev[h])
  /\ \/ Refused(h) /\ At(h, "relook") /\ gone' = [gone EXCEPT ![h] = {}]
     \/ ~Refused(h) /\ At(h, "commit") /\ UNCHANGED gone
  /\ UNCHANGED <<engine, stored, ev, left, acked, wire, shown, lost, faults>>

Commit(h) ==
  /\ pc[h] = "commit"
  /\ stored' = (stored \ gone[h]) \cup {ev[h]}
  /\ At(h, "notify")
  /\ UNCHANGED <<engine, ev, gone, left, acked, wire, shown, lost, faults>>

\* A statement fails, or the connection's context ends: the transaction is
\* rolled back and SaveEvent returns the error.
TxFails(h) ==
  /\ pc[h] \in {"begin"} \cup InTx /\ Fault
  /\ At(h, "relook")
  /\ gone' = [gone EXCEPT ![h] = {}]
  /\ UNCHANGED <<engine, stored, ev, left, acked, wire, shown, lost>>

\* The commit reaches the database and its answer is lost: SaveEvent returns
\* an error although the event is stored, so nobody hears of it.
CommitUnknown(h) ==
  /\ pc[h] = "commit" /\ Fault
  /\ stored' = (stored \ gone[h]) \cup {ev[h]}
  /\ At(h, "relook")
  /\ gone' = [gone EXCEPT ![h] = {}]
  /\ lost' = lost \cup {<<i, ev[h]>> : i \in Instances}
  /\ UNCHANGED <<engine, ev, left, acked, wire, shown>>

---------------------------------------------------------------------------
(* Notify, the LISTEN loop and the fan-out. *)

\* pg_notify after the commit: every process that listens gets the id with
\* its origin.  SQLite's notifier does nothing.
Notify(h) ==
  LET from == InstanceOf[h] IN
  /\ pc[h] = "notify"
  /\ notes' = [i \in Instances |->
                 IF engine = "postgres" /\ listening[i]
                   THEN Append(notes[i], [origin |-> from, id |-> ev[h]])
                   ELSE notes[i]]
  /\ lost' = lost \cup {<<i, ev[h]>> : i \in {j \in Instances \ {from} : ~listening[j]}}
  /\ At(h, "hooks")
  /\ UNCHANGED <<engine, stored, ev, gone, left, acked, listening, ch, fan, shown, faults>>

\* Notification is best effort: a failure is logged.
NotifyFails(h) ==
  /\ pc[h] = "notify" /\ engine = "postgres" /\ Fault
  /\ lost' = lost \cup {<<i, ev[h]>> : i \in Instances \ {InstanceOf[h]}}
  /\ At(h, "hooks")
  /\ UNCHANGED <<engine, stored, ev, gone, left, acked, wire, shown>>

\* listenLoop connects, or connects again after its connection broke.
Relisten(i) ==
  /\ engine = "postgres" /\ ~listening[i]
  /\ listening' = [listening EXCEPT ![i] = TRUE]
  /\ UNCHANGED <<engine, stored, tx, acked, notes, ch, fan, shown, lost, faults>>

\* Mutant: the notifier does not recognise its own notifications.
ForwardAll(i) ==
  /\ notes[i] # <<>>
  /\ Len(ch[i]) < ChanCap
  /\ ch' = [ch EXCEPT ![i] = Append(@, Head(notes[i]).id)]
  /\ notes' = [notes EXCEPT ![i] = Tail(@)]
  /\ UNCHANGED <<engine, stored, tx, acked, listening, fan, shown, lost, faults>>

\* Mutant: a full channel drops the id instead of holding the loop.
ForwardOrDrop(i) ==
  /\ notes[i] # <<>>
  /\ ch' = [ch EXCEPT ![i] = IF Head(notes[i]).origin = i \/ Len(@) = ChanCap
                               THEN @ ELSE Append(@, Head(notes[i]).id)]
  /\ notes' = [notes EXCEPT ![i] = Tail(@)]
  /\ UNCHANGED <<engine, stored, tx, acked, listening, fan, shown, lost, faults>>

\* listenLoop takes a notification: its own are skipped, the others go to the
\* channel, which holds the loop while it is full.
Forward(i) ==
  /\ notes[i] # <<>>
  /\ \/ Head(notes[i]).origin = i /\ UNCHANGED ch
     \/ /\ Head(notes[i]).origin # i
        /\ Len(ch[i]) < ChanCap
        /\ ch' = [ch EXCEPT ![i] = Append(@, Head(notes[i]).id)]
  /\ notes' = [notes EXCEPT ![i] = Tail(@)]
  /\ UNCHANGED <<engine, stored, tx, acked, listening, fan, shown, lost, faults>>

\* What the LISTEN connection of process i carries from other processes.
Pending(i) ==
  {notes[i][k].id : k \in {n \in DOMAIN notes[i] : notes[i][n].origin # i}}

\* The LISTEN connection breaks: what it carried is gone.
ListenLost(i) ==
  /\ listening[i] /\ Fault
  /\ listening' = [listening EXCEPT ![i] = FALSE]
  /\ notes' = [notes EXCEPT ![i] = <<>>]
  /\ lost' = lost \cup {<<i, e>> : e \in Pending(i)}
  /\ UNCHANGED <<engine, stored, tx, acked, ch, fan, shown>>

\* RunImportedEventFanout takes an id and QueryEvents reads its row: an event
\* replaced in the meantime is skipped.
FanRow(i) ==
  /\ fan[i] = NoEvent /\ ch[i] # <<>>
  /\ fan' = [fan EXCEPT ![i] = IF Head(ch[i]) \in stored THEN Head(ch[i]) ELSE NoEvent]
  /\ ch' = [ch EXCEPT ![i] = Tail(@)]
  /\ UNCHANGED <<engine, stored, tx, acked, listening, notes, shown, lost, faults>>

\* QueryEvents fails (15 s): the id is dropped.
FanFails(i) ==
  /\ fan[i] = NoEvent /\ ch[i] # <<>> /\ Fault
  /\ lost' = lost \cup {<<i, Head(ch[i])>>}
  /\ ch' = [ch EXCEPT ![i] = Tail(@)]
  /\ UNCHANGED <<engine, stored, tx, acked, listening, notes, fan, shown>>

\* QueryEvents reads the tag rows in a second statement (an event replaced
\* since the first comes without them), then DeliverImportedEvent shows it.
FanTags(i) ==
  /\ fan[i] # NoEvent
  /\ Show(i, fan[i])
  /\ fan' = [fan EXCEPT ![i] = NoEvent]
  /\ UNCHANGED <<engine, stored, tx, acked, listening, notes, ch, lost, faults>>

\* Process i dies: its open transactions are rolled back, and what it had not
\* yet told or shown is lost.  It starts again with no LISTEN connection.
Crash(i) ==
  LET mine == {h \in Handlers : InstanceOf[h] = i}
      untold == {ev[h] : h \in {x \in mine : pc[x] = "notify"}}
      unshown == {ev[h] : h \in {x \in mine : pc[x] = "hooks"}}
  IN
  /\ Fault
  /\ pc' = [h \in Handlers |-> IF h \in mine THEN "idle" ELSE pc[h]]
  /\ ev' = [h \in Handlers |-> IF h \in mine THEN NoEvent ELSE ev[h]]
  /\ gone' = [h \in Handlers |-> IF h \in mine THEN {} ELSE gone[h]]
  /\ listening' = [listening EXCEPT ![i] = FALSE]
  /\ notes' = [notes EXCEPT ![i] = <<>>]
  /\ ch' = [ch EXCEPT ![i] = <<>>]
  /\ fan' = [fan EXCEPT ![i] = NoEvent]
  /\ lost' = lost \cup (Instances \X untold) \cup ({i} \X unshown)
                  \cup ({i} \X (Pending(i) \cup {ch[i][k] : k \in DOMAIN ch[i]}
                                          \cup ({fan[i]} \ {NoEvent})))
  /\ UNCHANGED <<engine, stored, left, acked, shown>>

---------------------------------------------------------------------------
HandlerStep(h) ==
  \/ CheckStored(h) \/ CheckNew(h) \/ Relook(h) \/ RunHooks(h)
  \/ BeginDelete(h) \/ Insert(h) \/ Commit(h) \/ Notify(h)

ListenStep(i) == Relisten(i) \/ Forward(i)

FanStep(i) == FanRow(i) \/ FanTags(i)

Next ==
  \/ \E h \in Handlers :
       \/ \E e \in Offers[h] : Receive(h, e) \/ ReceiveEphemeral(h, e)
       \/ HandlerStep(h)
       \/ CheckFails(h) \/ RelookFails(h) \/ TxFails(h) \/ CommitUnknown(h) \/ NotifyFails(h)
  \/ \E i \in Instances :
       ListenStep(i) \/ FanStep(i) \/ ListenLost(i) \/ FanFails(i) \/ Crash(i)

Spec == Init /\ [][Next]_vars

\* Goroutines run and statements return; nothing makes a client send, and
\* nothing has to fail.
FairSpec ==
  /\ Spec
  /\ \A h \in Handlers : WF_vars(HandlerStep(h))
  /\ \A i \in Instances : WF_vars(ListenStep(i)) /\ WF_vars(FanStep(i))

---------------------------------------------------------------------------
TypeOK ==
  /\ engine \in Engines
  /\ stored \in SUBSET (Events \ Ephemeral)
  /\ pc \in [Handlers -> Pcs]
  /\ ev \in [Handlers -> (Events \ Ephemeral) \cup {NoEvent}]
  /\ gone \in [Handlers -> SUBSET Events]
  /\ left \in [Handlers -> 0..MaxSends]
  /\ acked \in SUBSET Events
  /\ listening \in [Instances -> BOOLEAN]
  /\ notes \in [Instances -> Seq([origin : Instances, id : Events])]
  /\ ch \in [Instances -> Seq(Events)]
  /\ fan \in [Instances -> Events \cup {NoEvent}]
  /\ shown \in [Instances -> [Events -> Nat]]
  /\ lost \in SUBSET (Instances \X Events)
  /\ faults \in 0..MaxFaults

\* The transactions of SaveEvent behave like the one atomic step of
\* LatestStore: the newest version of an address survives every interleaving
\* of publishers, and OK true is never sent for an event the store dropped.
Latest == INSTANCE LatestStore WITH kept <- stored
ImplementsLatest == Latest!Spec

\* A stored event is shown on each process at most once, however often it is
\* published, imported and notified, and never before it is stored: only the
\* successful insert runs the hooks.
ShownOnceStored ==
  \A i \in Instances, e \in Events \ Ephemeral :
    shown[i][e] <= 1 /\ (shown[i][e] = 1 => KeptIn(e, stored))

\* Every process comes to show every stored event, unless a newer version
\* replaced it first or one of the losses the code accepts ("notification is
\* best effort") happened to exactly this event and this process.
ReachesEveryone ==
  \A e \in UNION {Offers[h] : h \in Handlers} \ Ephemeral :
    e \in stored
      ~> (e \in stored => \A i \in Active : shown[i][e] = 1 \/ <<i, e>> \in lost)

\* Every publisher is answered: no handler waits for ever on a lock, a
\* duplicate insert or a notification.
Answered == \A h \in Handlers : pc[h] # "idle" ~> pc[h] = "idle"
=============================================================================
