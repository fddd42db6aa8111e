-------------------------- MODULE EventStoreProofs --------------------------
(***************************************************************************)
(* Proofs about EventStore for any number of processes, handlers, events   *)
(* and addresses and any bounds: the transactions implement LatestStore,   *)
(* and every process shows an event at most once, after it was stored.     *)
(***************************************************************************)
EXTENDS EventStore, TLAPS

\* What the refinement needs to know of the types.
CoreType ==
  /\ engine \in Engines
  /\ stored \in SUBSET (Events \ Ephemeral)
  /\ pc \in [Handlers -> Pcs]
  /\ ev \in [Handlers -> (Events \ Ephemeral) \cup {NoEvent}]
  /\ gone \in [Handlers -> SUBSET Events]

\* A handler that is busy has an event.
HasEvent == \A h \in Handlers : pc[h] # "idle" => ev[h] \in Events \ Ephemeral

\* At most one open transaction per lock.
LockHeld ==
  \A h, o \in Handlers :
    (h # o /\ pc[h] \in InTx /\ pc[o] \in InTx /\ LockKey(ev[h]) # Regular)
      => LockKey(ev[o]) # LockKey(ev[h])

\* What an open transaction deleted is still exactly what it had to delete.
GoneExact ==
  \A h \in Handlers : pc[h] \in InTx => gone[h] = Older(ev[h], stored)

\* An event about to be committed is still neither stored nor superseded.
StillNew ==
  \A h \in Handlers : pc[h] = "commit" =>
    /\ ev[h] \notin stored
    /\ \A r \in stored : SameAddress(r, ev[h]) => Newer(ev[h], r)

\* No two transactions have inserted the same id.
InsertedOnce ==
  \A h, o \in Handlers :
    (h # o /\ pc[h] = "commit" /\ pc[o] = "commit") => ev[h] # ev[o]

\* After the commit the event is stored or superseded.
SavedKept ==
  \A h \in Handlers : pc[h] \in {"notify", "hooks"} => KeptIn(ev[h], stored)

TxInv == CoreType /\ HasEvent /\ LockHeld /\ GoneExact /\ StillNew /\ InsertedOnce /\ SavedKept

---------------------------------------------------------------------------
(* The order of versions. *)

\* Newer is transitive, as the order of two numbers.
LEMMA NewerTransitive ==
  ASSUME NEW e \in Events, NEW f \in Events, NEW g \in Events, Newer(e, f), Newer(f, g)
  PROVE  Newer(e, g)
BY EventAssumption DEF Newer

\* No event is newer than one that is newer than it.
LEMMA NewerAsymmetric ==
  ASSUME NEW e \in Events, NEW f \in Events, Newer(e, f)
  PROVE  ~Newer(f, e)
BY EventAssumption DEF Newer

\* A replacement does not lose what was kept.
LEMMA KeptStable ==
  ASSUME NEW rows \in SUBSET Events, NEW e \in Events, NEW f \in Events, KeptIn(f, rows)
  PROVE  KeptIn(f, (rows \ Older(e, rows)) \cup {e})
<1> DEFINE after == (rows \ Older(e, rows)) \cup {e}
<1>1. CASE f \in rows
  <2>1. CASE f \in Older(e, rows)
    BY <2>1 DEF Older, KeptIn, SameAddress
  <2>2. CASE f \notin Older(e, rows)
    BY <1>1, <2>2 DEF KeptIn
  <2> QED BY <2>1, <2>2
<1>2. CASE \E r \in rows : SameAddress(r, f) /\ Newer(r, f)
  <2>1. PICK r \in rows : SameAddress(r, f) /\ Newer(r, f)
    BY <1>2
  <2>2. CASE r \in Older(e, rows)
    <3>1. SameAddress(r, e) /\ Newer(e, r)
      BY <2>2 DEF Older
    <3>2. Newer(e, f)
      BY <3>1, <2>1, NewerTransitive
    <3>3. SameAddress(e, f)
      BY <3>1, <2>1 DEF SameAddress
    <3> QED BY <3>2, <3>3 DEF KeptIn
  <2>3. CASE r \notin Older(e, rows)
    BY <2>1, <2>3 DEF KeptIn
  <2> QED BY <2>2, <2>3
<1> QED BY <1>1, <1>2 DEF KeptIn

\* A replacement at one address leaves the competitors of another alone.
LEMMA OtherAddress ==
  ASSUME NEW rows \in SUBSET Events, NEW e \in Events, NEW f \in Events,
         ~SameAddress(e, f)
  PROVE  Older(f, (rows \ Older(e, rows)) \cup {e}) = Older(f, rows)
<1>1. \A r \in Older(e, rows) : ~SameAddress(r, f)
  BY DEF Older, SameAddress
<1> QED BY <1>1 DEF Older

---------------------------------------------------------------------------
(* The inductive invariant. *)

\* No transaction is open initially.
LEMMA InitTx == Init => TxInv
BY DEF Init, TxInv, CoreType, HasEvent, LockHeld, GoneExact, StillNew, InsertedOnce,
       SavedKept, Pcs, InTx

\* A handler that leaves its transaction, or is in none, disturbs nobody.
LEMMA QuietStep ==
  ASSUME TxInv, NEW h \in Handlers,
         NEW w \in Pcs \ InTx, NEW x \in (Events \ Ephemeral) \cup {NoEvent},
         w # "idle" => x \in Events \ Ephemeral,
         w \in {"notify", "hooks"} => KeptIn(x, stored),
         engine' = engine, stored' = stored,
         pc' = [pc EXCEPT ![h] = w], ev' = [ev EXCEPT ![h] = x],
         gone' \in [Handlers -> SUBSET Events],
         \A o \in Handlers \ {h} : gone'[o] = gone[o]
  PROVE  TxInv'
<1> USE DEF TxInv
<1>1. /\ pc'[h] = w /\ ev'[h] = x
      /\ \A o \in Handlers \ {h} : pc'[o] = pc[o] /\ ev'[o] = ev[o]
  BY DEF CoreType
<1>2. CoreType'
  BY DEF CoreType
<1>3. HasEvent'
  BY <1>1 DEF HasEvent
<1>4. \A o \in Handlers : pc'[o] \in InTx => o # h
  BY <1>1
<1>5. LockHeld'
  BY <1>1, <1>4 DEF LockHeld, LockKey
<1>6. GoneExact'
  BY <1>1, <1>4 DEF GoneExact
<1>7. StillNew'
  BY <1>1, <1>4 DEF StillNew, InTx
<1>8. InsertedOnce'
  BY <1>1, <1>4 DEF InsertedOnce, InTx
<1>9. SavedKept'
  BY <1>1 DEF SavedKept
<1> QED BY <1>2, <1>3, <1>5, <1>6, <1>7, <1>8, <1>9

\* A step that leaves the handlers and the rows alone.
LEMMA OtherStep ==
  ASSUME TxInv, UNCHANGED <<engine, stored, pc, ev, gone>>
  PROVE  TxInv'
BY DEF TxInv, CoreType, HasEvent, LockHeld, GoneExact, StillNew, InsertedOnce, SavedKept, LockKey

\* BeginDelete takes the lock and deletes every older version of its event.
LEMMA BeginStep ==
  ASSUME TxInv, NEW h \in Handlers, BeginDelete(h)
  PROVE  TxInv'
<1> USE DEF TxInv
<1>1. /\ pc[h] = "begin" /\ pc'[h] = "insert" /\ ev' = ev /\ engine' = engine /\ stored' = stored
      /\ \A o \in Handlers \ {h} : pc'[o] = pc[o] /\ gone'[o] = gone[o]
      /\ gone'[h] = Older(ev[h], stored)
  BY DEF BeginDelete, CoreType, At
<1>2. CoreType'
  BY <1>1 DEF CoreType, BeginDelete, At, Pcs, InTx, Older
<1>3. HasEvent'
  BY <1>1 DEF HasEvent
<1>4. LockHeld'
  BY <1>1 DEF LockHeld, LockKey, BeginDelete, LockFree
<1>5. GoneExact'
  BY <1>1 DEF GoneExact
<1>6. StillNew'
  BY <1>1 DEF StillNew
<1>7. InsertedOnce'
  BY <1>1 DEF InsertedOnce
<1>8. SavedKept'
  BY <1>1 DEF SavedKept
<1> QED BY <1>2, <1>3, <1>4, <1>5, <1>6, <1>7, <1>8

\* Insert keeps the locks and the deleted versions, or gives them up.
LEMMA InsertStep ==
  ASSUME TxInv, NEW h \in Handlers, Insert(h)
  PROVE  TxInv'
<1> USE DEF TxInv
<1>1. CASE Refused(h) /\ At(h, "relook") /\ gone' = [gone EXCEPT ![h] = {}]
  <2>1. ev[h] \in Events \ Ephemeral
    BY DEF Insert, HasEvent
  <2>2. ev' = [ev EXCEPT ![h] = ev[h]]
    BY DEF Insert, CoreType
  <2>3. gone' \in [Handlers -> SUBSET Events] /\ \A o \in Handlers \ {h} : gone'[o] = gone[o]
    BY <1>1 DEF CoreType
  <2> QED BY <1>1, <2>1, <2>2, <2>3, QuietStep DEF Insert, At, Pcs, InTx
<1>2. CASE ~Refused(h) /\ At(h, "commit") /\ UNCHANGED gone
  <2>1. /\ pc[h] = "insert" /\ pc'[h] = "commit" /\ ev' = ev /\ engine' = engine
        /\ stored' = stored /\ gone' = gone
        /\ \A o \in Handlers \ {h} : pc'[o] = pc[o]
    BY <1>2 DEF Insert, CoreType, At
  <2>2. CoreType'
    BY <1>2, <2>1 DEF CoreType, At, Pcs, InTx
  <2>3. HasEvent'
    BY <2>1 DEF HasEvent
  <2>4. LockHeld'
    BY <2>1 DEF LockHeld, LockKey, InTx
  <2>5. GoneExact'
    BY <2>1 DEF GoneExact, InTx
  <2>6. ev[h] \notin stored /\ \A r \in stored : SameAddress(r, ev[h]) => Newer(ev[h], r)
    BY <1>2, <2>1 DEF Refused, GoneExact, Older, InTx
  <2>7. StillNew'
    BY <2>1, <2>6 DEF StillNew
  <2>8. InsertedOnce'
    BY <2>1 DEF InsertedOnce, Insert
  <2>9. SavedKept'
    BY <2>1 DEF SavedKept
  <2> QED BY <2>2, <2>3, <2>4, <2>5, <2>7, <2>8, <2>9
<1> QED BY <1>1, <1>2 DEF Insert

\* Two open transactions never compete for one address.
LEMMA NoRival ==
  ASSUME TxInv, NEW h \in Handlers, NEW o \in Handlers, h # o,
         pc[h] \in InTx, pc[o] \in InTx
  PROVE  ~SameAddress(ev[h], ev[o])
<1>1. CASE engine = "sqlite"
  BY <1>1, StoreAssumption DEF TxInv, LockHeld, LockKey
<1>2. CASE engine # "sqlite"
  BY <1>2 DEF TxInv, LockHeld, LockKey, SameAddress
<1> QED BY <1>1, <1>2

\* The commit, whatever SaveEvent returns.
LEMMA CommitStep ==
  ASSUME TxInv, NEW h \in Handlers, pc[h] = "commit", NEW w \in {"notify", "relook"},
         engine' = engine, ev' = ev,
         stored' = (stored \ gone[h]) \cup {ev[h]},
         pc' = [pc EXCEPT ![h] = w],
         gone' \in [Handlers -> SUBSET Events],
         \A o \in Handlers \ {h} : gone'[o] = gone[o]
  PROVE  TxInv'
<1> USE DEF TxInv
<1>1. /\ pc'[h] = w /\ \A o \in Handlers \ {h} : pc'[o] = pc[o]
      /\ \A o \in Handlers : pc'[o] \in InTx => o # h /\ pc[o] \in InTx
  BY DEF CoreType, InTx
<1>2. ev[h] \in Events \ Ephemeral /\ stored \in SUBSET Events
  BY DEF HasEvent, CoreType
<1>3. gone[h] = Older(ev[h], stored)
  BY DEF GoneExact, InTx
<1>4. stored' = (stored \ Older(ev[h], stored)) \cup {ev[h]}
  BY <1>3
<1>5. CoreType'
  BY <1>2 DEF CoreType, Pcs, InTx
<1>6. HasEvent'
  BY <1>1, <1>2 DEF HasEvent
<1>7. LockHeld'
  BY <1>1 DEF LockHeld, LockKey
<1>8. ASSUME NEW o \in Handlers, pc'[o] \in InTx
      PROVE  /\ o # h /\ pc'[o] = pc[o] /\ gone'[o] = gone[o]
             /\ ev[o] \in Events \ Ephemeral
             /\ ~SameAddress(ev[h], ev[o])
  <2>1. o # h /\ pc[o] \in InTx /\ pc'[o] = pc[o] /\ gone'[o] = gone[o]
    BY <1>1, <1>8
  <2>2. ev[o] \in Events \ Ephemeral
    BY <2>1 DEF HasEvent, InTx
  <2> QED BY <2>1, <2>2, NoRival DEF InTx
<1>9. GoneExact'
  <2> SUFFICES ASSUME NEW o \in Handlers, pc'[o] \in InTx
               PROVE  gone'[o] = Older(ev'[o], stored')
    BY DEF GoneExact
  <2>1. Older(ev[o], stored') = Older(ev[o], stored)
    BY <1>2, <1>4, <1>8, OtherAddress
  <2> QED BY <2>1, <1>8 DEF GoneExact
<1>10. StillNew'
  <2> SUFFICES ASSUME NEW o \in Handlers, pc'[o] = "commit"
               PROVE  /\ ev[o] \notin stored'
                      /\ \A r \in stored' : SameAddress(r, ev[o]) => Newer(ev[o], r)
    BY DEF StillNew
  <2>1. o # h /\ pc[o] = "commit" /\ ~SameAddress(ev[h], ev[o])
    BY <1>8 DEF InTx
  <2>2. ev[o] # ev[h]
    BY <2>1 DEF InsertedOnce
  <2> QED BY <2>1, <2>2 DEF StillNew
<1>11. InsertedOnce'
  BY <1>1, <1>8 DEF InsertedOnce, InTx
<1>12. SavedKept'
  <2> SUFFICES ASSUME NEW o \in Handlers, pc'[o] \in {"notify", "hooks"}
               PROVE  KeptIn(ev[o], stored')
    BY DEF SavedKept
  <2>1. CASE o = h
    BY <2>1 DEF KeptIn
  <2>2. CASE o # h
    <3>1. pc[o] \in {"notify", "hooks"} /\ ev[o] \in Events
      BY <2>2, <1>1 DEF HasEvent
    <3> QED BY <3>1, <1>2, <1>4, KeptStable DEF SavedKept
  <2> QED BY <2>1, <2>2
<1> QED BY <1>5, <1>6, <1>7, <1>9, <1>10, <1>11, <1>12

\* A crash ends every transaction of one process.
LEMMA CrashStep ==
  ASSUME TxInv, NEW i \in Instances, Crash(i)
  PROVE  TxInv'
<1> USE DEF TxInv
<1>1. /\ engine' = engine /\ stored' = stored
      /\ \A h \in Handlers :
           \/ pc'[h] = "idle" /\ ev'[h] = NoEvent /\ gone'[h] = {}
           \/ pc'[h] = pc[h] /\ ev'[h] = ev[h] /\ gone'[h] = gone[h]
  BY DEF Crash
<1>2. CoreType'
  BY DEF Crash, CoreType, Pcs
<1>3. HasEvent' /\ GoneExact' /\ StillNew' /\ SavedKept'
  BY <1>1 DEF HasEvent, GoneExact, StillNew, SavedKept, InTx
<1>4. LockHeld'
  BY <1>1 DEF LockHeld, LockKey, InTx
<1>5. InsertedOnce'
  BY <1>1 DEF InsertedOnce
<1> QED BY <1>2, <1>3, <1>4, <1>5

\* The last step of a handler.
LEMMA FinishStep ==
  ASSUME TxInv, NEW h \in Handlers, NEW ok, Finish(h, ok), engine' = engine, stored' = stored
  PROVE  TxInv'
<1>1. /\ pc' = [pc EXCEPT ![h] = "idle"] /\ ev' = [ev EXCEPT ![h] = NoEvent]
      /\ gone' \in [Handlers -> SUBSET Events] /\ \A o \in Handlers \ {h} : gone'[o] = gone[o]
  BY DEF Finish, At, TxInv, CoreType
<1> QED BY <1>1, QuietStep DEF Pcs, InTx

\* A handler moves on without its transaction.
LEMMA MoveStep ==
  ASSUME TxInv, NEW h \in Handlers, NEW w \in {"begin", "relook", "hooks"},
         pc[h] # "idle", w = "hooks" => pc[h] = "notify",
         At(h, w), ev' = ev, engine' = engine, stored' = stored,
         gone' \in [Handlers -> SUBSET Events],
         \A o \in Handlers \ {h} : gone'[o] = gone[o]
  PROVE  TxInv'
<1>1. ev[h] \in Events \ Ephemeral /\ ev' = [ev EXCEPT ![h] = ev[h]]
  BY DEF TxInv, HasEvent, CoreType
<1>2. w \in Pcs \ InTx /\ w # "notify"
  BY DEF Pcs, InTx
<1>3. w = "hooks" => KeptIn(ev[h], stored)
  BY DEF TxInv, SavedKept
<1> QED BY <1>1, <1>2, <1>3, QuietStep DEF At

\* Every step keeps what the open transactions rely on.
LEMMA NextTx == TxInv /\ [Next]_vars => TxInv'
<1> SUFFICES ASSUME TxInv, [Next]_vars PROVE TxInv'
  OBVIOUS
<1>0. /\ gone \in [Handlers -> SUBSET Events]
      /\ \A h \in Handlers : [gone EXCEPT ![h] = {}] \in [Handlers -> SUBSET Events]
  BY DEF TxInv, CoreType
<1>1. CASE UNCHANGED vars
  BY <1>1, OtherStep DEF vars, tx
<1>2. ASSUME NEW h \in Handlers, NEW e \in Offers[h], Receive(h, e)
      PROVE  TxInv'
  <2>1. e \in Events \ Ephemeral
    BY <1>2, StoreAssumption DEF Receive
  <2> QED BY <1>0, <1>2, <2>1, QuietStep DEF Receive, At, Pcs, InTx
<1>3. ASSUME NEW h \in Handlers, NEW e \in Offers[h], ReceiveEphemeral(h, e)
      PROVE  TxInv'
  BY <1>3, OtherStep DEF ReceiveEphemeral
<1>4. ASSUME NEW h \in Handlers, CheckStored(h) PROVE TxInv'
  BY <1>4, FinishStep DEF CheckStored
<1>5. ASSUME NEW h \in Handlers, CheckNew(h) PROVE TxInv'
  BY <1>0, <1>5, MoveStep DEF CheckNew
<1>6. ASSUME NEW h \in Handlers, CheckFails(h) PROVE TxInv'
  BY <1>6, FinishStep DEF CheckFails
<1>7. ASSUME NEW h \in Handlers, Relook(h) PROVE TxInv'
  BY <1>7, FinishStep DEF Relook
<1>8. ASSUME NEW h \in Handlers, RelookFails(h) PROVE TxInv'
  BY <1>8, FinishStep DEF RelookFails
<1>9. ASSUME NEW h \in Handlers, RunHooks(h) PROVE TxInv'
  BY <1>9, FinishStep DEF RunHooks
<1>10. ASSUME NEW h \in Handlers, BeginDelete(h) PROVE TxInv'
  BY <1>10, BeginStep
<1>11. ASSUME NEW h \in Handlers, Insert(h) PROVE TxInv'
  BY <1>11, InsertStep
<1>12. ASSUME NEW h \in Handlers, Commit(h) PROVE TxInv'
  BY <1>0, <1>12, CommitStep DEF Commit, At
<1>13. ASSUME NEW h \in Handlers, TxFails(h) PROVE TxInv'
  <2>1. \A o \in Handlers \ {h} : gone'[o] = gone[o]
    BY <1>0, <1>13 DEF TxFails
  <2> QED BY <1>0, <1>13, <2>1, MoveStep DEF TxFails, InTx
<1>14. ASSUME NEW h \in Handlers, CommitUnknown(h) PROVE TxInv'
  <2>1. \A o \in Handlers \ {h} : gone'[o] = gone[o]
    BY <1>0, <1>14 DEF CommitUnknown
  <2> QED BY <1>0, <1>14, <2>1, CommitStep DEF CommitUnknown, At
<1>15. ASSUME NEW h \in Handlers, Notify(h) PROVE TxInv'
  BY <1>0, <1>15, MoveStep DEF Notify
<1>16. ASSUME NEW h \in Handlers, NotifyFails(h) PROVE TxInv'
  BY <1>0, <1>16, MoveStep DEF NotifyFails
<1>17. ASSUME NEW i \in Instances,
              ListenStep(i) \/ FanStep(i) \/ ListenLost(i) \/ FanFails(i)
       PROVE  TxInv'
  BY <1>17, OtherStep DEF ListenStep, Relisten, Forward, FanStep, FanRow, FanTags,
                          ListenLost, FanFails, tx
<1>18. ASSUME NEW i \in Instances, Crash(i) PROVE TxInv'
  BY <1>18, CrashStep
<1> QED
  BY <1>1, <1>2, <1>3, <1>4, <1>5, <1>6, <1>7, <1>8, <1>9, <1>10, <1>11, <1>12, <1>13,
     <1>14, <1>15, <1>16, <1>17, <1>18 DEF Next, HandlerStep

---------------------------------------------------------------------------
(* Refinement. *)

\* Both specifications read the same order of versions.
LEMMA SameOrder ==
  /\ \A e, rows : Latest!KeptIn(e, rows) <=> KeptIn(e, rows)
  /\ \A e, rows : Latest!Older(e, rows) = Older(e, rows)
BY DEF Latest!KeptIn, Latest!Older, Latest!SameAddress, Latest!Newer,
       KeptIn, Older, SameAddress, Newer

\* A commit is the abstract Put.
LEMMA CommitIsPut ==
  ASSUME TxInv, NEW h \in Handlers, pc[h] = "commit",
         stored' = (stored \ gone[h]) \cup {ev[h]}, acked' = acked
  PROVE  Latest!Next
<1>1. ev[h] \in Events \ Ephemeral /\ stored \in SUBSET Events
  BY DEF TxInv, HasEvent, CoreType
<1>2. gone[h] = Older(ev[h], stored)
  BY DEF TxInv, GoneExact, InTx
<1>3. ev[h] \notin stored /\ \A r \in stored : SameAddress(r, ev[h]) => Newer(ev[h], r)
  BY DEF TxInv, StillNew
<1>4. ~KeptIn(ev[h], stored)
  BY <1>1, <1>3, NewerAsymmetric DEF KeptIn
<1>5. Latest!Put(ev[h])
  BY <1>2, <1>4, SameOrder DEF Latest!Put
<1> QED BY <1>1, <1>5 DEF Latest!Next

\* The end of a handler is the abstract Ack, or nothing.
LEMMA FinishIsAck ==
  ASSUME TxInv, NEW h \in Handlers, pc[h] # "idle", NEW ok \in BOOLEAN, Finish(h, ok),
         ok => KeptIn(ev[h], stored), stored' = stored
  PROVE  Latest!Next \/ UNCHANGED Latest!vars
<1>1. ev[h] \in Events \ Ephemeral
  BY DEF TxInv, HasEvent
<1>2. CASE ok /\ h \notin Importers
  <2>1. Latest!Ack(ev[h])
    BY <1>2, SameOrder DEF Latest!Ack, Finish
  <2> QED BY <1>1, <2>1 DEF Latest!Next
<1>3. CASE ~(ok /\ h \notin Importers)
  BY <1>3 DEF Finish, Latest!vars
<1> QED BY <1>2, <1>3

\* Every step of the code is one of LatestStore or leaves its state alone.
LEMMA StepRefines == TxInv /\ [Next]_vars => [Latest!Next]_(Latest!vars)
<1> SUFFICES ASSUME TxInv, [Next]_vars PROVE Latest!Next \/ UNCHANGED Latest!vars
  OBVIOUS
<1>1. CASE UNCHANGED vars
  BY <1>1 DEF vars, Latest!vars
<1>2. ASSUME NEW h \in Handlers, CheckStored(h) PROVE Latest!Next \/ UNCHANGED Latest!vars
  BY <1>2, FinishIsAck DEF CheckStored, KeptIn
<1>3. ASSUME NEW h \in Handlers, CheckFails(h) \/ RelookFails(h)
      PROVE  Latest!Next \/ UNCHANGED Latest!vars
  BY <1>3, FinishIsAck DEF CheckFails, RelookFails
<1>4. ASSUME NEW h \in Handlers, Relook(h) PROVE Latest!Next \/ UNCHANGED Latest!vars
  <2> DEFINE ok == ev[h] \in stored
  <2>1. ok \in BOOLEAN /\ (ok => KeptIn(ev[h], stored))
    BY DEF KeptIn
  <2>2. pc[h] # "idle" /\ Finish(h, ok) /\ stored' = stored
    BY <1>4 DEF Relook
  <2> HIDE DEF ok
  <2> QED BY <2>1, <2>2, FinishIsAck
<1>5. ASSUME NEW h \in Handlers, RunHooks(h) PROVE Latest!Next \/ UNCHANGED Latest!vars
  <2>1. KeptIn(ev[h], stored)
    BY <1>5 DEF RunHooks, TxInv, SavedKept
  <2> QED BY <1>5, <2>1, FinishIsAck DEF RunHooks
<1>6. ASSUME NEW h \in Handlers, Commit(h) \/ CommitUnknown(h)
      PROVE  Latest!Next \/ UNCHANGED Latest!vars
  BY <1>6, CommitIsPut DEF Commit, CommitUnknown
<1>7. ASSUME UNCHANGED <<stored, acked>>
      PROVE  Latest!Next \/ UNCHANGED Latest!vars
  BY <1>7 DEF Latest!vars
<1>8. ASSUME NEW h \in Handlers,
             \/ \E e \in Offers[h] : Receive(h, e) \/ ReceiveEphemeral(h, e)
             \/ CheckNew(h) \/ BeginDelete(h) \/ Insert(h) \/ Notify(h)
             \/ TxFails(h) \/ NotifyFails(h)
      PROVE  UNCHANGED <<stored, acked>>
  BY <1>8 DEF Receive, ReceiveEphemeral, CheckNew, BeginDelete, Insert, Notify, TxFails,
              NotifyFails
<1>9. ASSUME NEW i \in Instances,
             ListenStep(i) \/ FanStep(i) \/ ListenLost(i) \/ FanFails(i) \/ Crash(i)
      PROVE  UNCHANGED <<stored, acked>>
  BY <1>9 DEF ListenStep, Relisten, Forward, FanStep, FanRow, FanTags, ListenLost,
              FanFails, Crash
<1> QED
  BY <1>1, <1>2, <1>3, <1>4, <1>5, <1>6, <1>7, <1>8, <1>9 DEF Next, HandlerStep

\* The transactions of SaveEvent implement the atomic store: whatever the
\* interleaving of publishers, failures and crashes, the newest version of an
\* address survives and OK true is only sent for an event that is kept.
THEOREM StoreRefines == Spec => ImplementsLatest
<1>1. Init => Latest!Init
  BY DEF Init, Latest!Init
<1> QED BY <1>1, InitTx, NextTx, StepRefines, PTL DEF Spec, ImplementsLatest, Latest!Spec

\* No open transaction competes with another for an address, and what it has
\* deleted and checked stays true until it commits.
THEOREM TxCorrect == Spec => []TxInv
BY InitTx, NextTx, PTL DEF Spec

---------------------------------------------------------------------------
(* Types. *)

\* The parts of TypeOK that TxInv does not already give.
LEMMA SeqSteps ==
  ASSUME NEW T, NEW s \in Seq(T)
  PROVE  /\ \A x \in T : Append(s, x) \in Seq(T)
         /\ s # <<>> => Head(s) \in T /\ Tail(s) \in Seq(T)
         /\ \A k \in DOMAIN s : s[k] \in T
         /\ <<>> \in Seq(T)
OBVIOUS

\* One entry of a function changes within its range.
LEMMA UpdateType ==
  ASSUME NEW D, NEW R, NEW f \in [D -> R], NEW d \in D, NEW v \in R
  PROVE  [f EXCEPT ![d] = v] \in [D -> R]
OBVIOUS

\* Showing an event keeps the types.
LEMMA ShowType ==
  ASSUME shown \in [Instances -> [Events -> Nat]], NEW i \in Instances, NEW e \in Events,
         Show(i, e)
  PROVE  shown' \in [Instances -> [Events -> Nat]]
<1>1. shown[i][e] + 1 \in Nat
  OBVIOUS
<1>2. [shown[i] EXCEPT ![e] = shown[i][e] + 1] \in [Events -> Nat]
  BY <1>1
<1> QED BY <1>2 DEF Show

Notes == [origin : Instances, id : Events]

\* Every step keeps the types.
LEMMA NextType == TypeOK /\ TxInv /\ [Next]_vars => TypeOK'
<1> SUFFICES ASSUME TypeOK, TxInv, [Next]_vars PROVE TypeOK'
  OBVIOUS
<1> USE DEF TypeOK
<1>0. CoreType'
  BY NextTx DEF TxInv
<1>1. CASE UNCHANGED vars
  BY <1>1 DEF vars, tx, wire
<1>2. ASSUME NEW h \in Handlers, NEW e \in Offers[h], Receive(h, e) PROVE TypeOK'
  <2>1. left' \in [Handlers -> 0..MaxSends]
    <3>1. left[h] - 1 \in 0..MaxSends
      BY <1>2, StoreAssumption DEF Receive
    <3> QED BY <1>2, <3>1, UpdateType DEF Receive
  <2> QED BY <1>0, <1>2, <2>1 DEF Receive, wire, CoreType
<1>3. ASSUME NEW h \in Handlers, NEW e \in Offers[h], ReceiveEphemeral(h, e) PROVE TypeOK'
  <2>1. left' \in [Handlers -> 0..MaxSends]
    <3>1. left[h] - 1 \in 0..MaxSends
      BY <1>3, StoreAssumption DEF ReceiveEphemeral
    <3> QED BY <1>3, <3>1, UpdateType DEF ReceiveEphemeral
  <2>2. InstanceOf[h] \in Instances /\ e \in Events
    BY StoreAssumption
  <2>3. shown' \in [Instances -> [Events -> Nat]]
    BY <1>3, <2>2, ShowType DEF ReceiveEphemeral
  <2> QED BY <1>0, <1>3, <2>1, <2>3 DEF ReceiveEphemeral, wire, CoreType
<1>f. ASSUME Fault PROVE faults' \in 0..MaxFaults
  BY <1>f, StoreAssumption DEF Fault
<1>n. ASSUME NEW i \in Instances PROVE notes[i] \in Seq(Notes) /\ ch[i] \in Seq(Events)
  BY DEF Notes
<1>4. ASSUME NEW h \in Handlers, pc[h] # "idle", NEW ok, Finish(h, ok)
      PROVE  acked' \in SUBSET Events /\ left' = left
  BY <1>4 DEF Finish, TxInv, HasEvent
<1>5. ASSUME NEW h \in Handlers,
             CheckStored(h) \/ CheckFails(h) \/ Relook(h) \/ RelookFails(h)
      PROVE  TypeOK'
  <2>1. acked' \in SUBSET Events /\ left' = left
    BY <1>4, <1>5 DEF CheckStored, CheckFails, Relook, RelookFails
  <2>2. UNCHANGED <<wire, shown, lost>> /\ faults' \in 0..MaxFaults
    BY <1>5, <1>f DEF CheckStored, CheckFails, Relook, RelookFails
  <2> QED BY <1>0, <2>1, <2>2 DEF wire, CoreType
<1>6. ASSUME NEW h \in Handlers, RunHooks(h) PROVE TypeOK'
  <2>1. acked' \in SUBSET Events /\ left' = left
    BY <1>4, <1>6 DEF RunHooks
  <2>2. ev[h] \in Events
    BY <1>6 DEF RunHooks, TxInv, HasEvent
  <2>3. shown' \in [Instances -> [Events -> Nat]]
    BY <1>6, <2>2, ShowType, StoreAssumption DEF RunHooks
  <2> QED BY <1>0, <1>6, <2>1, <2>3 DEF RunHooks, wire, CoreType
<1>7. ASSUME NEW h \in Handlers,
             CheckNew(h) \/ BeginDelete(h) \/ Insert(h) \/ Commit(h) \/ TxFails(h)
      PROVE  TypeOK'
  <2>1. UNCHANGED <<left, acked, wire, shown, lost>> /\ faults' \in 0..MaxFaults
    BY <1>7, <1>f DEF CheckNew, BeginDelete, Insert, Commit, TxFails
  <2> QED BY <1>0, <2>1 DEF wire, CoreType
<1>8. ASSUME NEW h \in Handlers, CommitUnknown(h) \/ NotifyFails(h)
      PROVE  TypeOK'
  <2>1. ev[h] \in Events
    BY <1>8 DEF CommitUnknown, NotifyFails, TxInv, HasEvent
  <2>2. UNCHANGED <<left, acked, wire, shown>> /\ faults' \in 0..MaxFaults
    BY <1>8, <1>f DEF CommitUnknown, NotifyFails
  <2>3. lost' \in SUBSET (Instances \X Events)
    BY <1>8, <2>1 DEF CommitUnknown, NotifyFails
  <2> QED BY <1>0, <2>2, <2>3 DEF wire, CoreType
<1>9. ASSUME NEW h \in Handlers, Notify(h) PROVE TypeOK'
  <2>1. ev[h] \in Events
    BY <1>9 DEF Notify, TxInv, HasEvent
  <2>2. [origin |-> InstanceOf[h], id |-> ev[h]] \in Notes
    BY <2>1, StoreAssumption DEF Notes
  <2>3. notes' \in [Instances -> Seq(Notes)]
    <3>1. \A i \in Instances : Append(notes[i], [origin |-> InstanceOf[h], id |-> ev[h]]) \in Seq(Notes)
      BY <1>n, <2>2, SeqSteps
    <3> QED BY <1>9, <1>n, <3>1 DEF Notify
  <2>4. lost' \in SUBSET (Instances \X Events)
    BY <1>9, <2>1 DEF Notify
  <2> QED BY <1>0, <1>9, <2>3, <2>4 DEF Notify, CoreType, Notes
<1>10. ASSUME NEW i \in Instances, Relisten(i) PROVE TypeOK'
  BY <1>0, <1>10 DEF Relisten, tx, CoreType
<1>11. ASSUME NEW i \in Instances, Forward(i) PROVE TypeOK'
  <2>1. Head(notes[i]) \in Notes /\ Tail(notes[i]) \in Seq(Notes)
    BY <1>11, <1>n, SeqSteps DEF Forward
  <2>2. notes' \in [Instances -> Seq(Notes)]
    BY <1>11, <2>1, UpdateType DEF Forward, Notes
  <2>3. Append(ch[i], Head(notes[i]).id) \in Seq(Events)
    BY <1>n, <2>1, SeqSteps DEF Notes
  <2>4. ch' \in [Instances -> Seq(Events)]
    <3>1. ch' = ch \/ ch' = [ch EXCEPT ![i] = Append(ch[i], Head(notes[i]).id)]
      BY <1>11 DEF Forward
    <3>2. [ch EXCEPT ![i] = Append(ch[i], Head(notes[i]).id)] \in [Instances -> Seq(Events)]
      BY <2>3, UpdateType
    <3> QED BY <3>1, <3>2
  <2> QED BY <1>0, <1>11, <2>2, <2>4 DEF Forward, tx, CoreType, Notes
<1>12. ASSUME NEW i \in Instances PROVE Pending(i) \in SUBSET Events
  <2>1. \A k \in DOMAIN notes[i] : notes[i][k] \in Notes
    BY <1>n, SeqSteps
  <2> QED BY <2>1 DEF Pending, Notes
<1>13. ASSUME NEW i \in Instances, ListenLost(i) PROVE TypeOK'
  <2>1. lost' \in SUBSET (Instances \X Events)
    BY <1>12, <1>13 DEF ListenLost
  <2>2. notes' \in [Instances -> Seq(Notes)]
    <3>1. <<>> \in Seq(Notes)
      OBVIOUS
    <3> QED BY <1>13, <3>1, UpdateType DEF ListenLost, Notes
  <2>3. listening' \in [Instances -> BOOLEAN] /\ faults' \in 0..MaxFaults
    BY <1>13, <1>f DEF ListenLost
  <2> QED BY <1>0, <1>13, <2>1, <2>2, <2>3 DEF ListenLost, tx, CoreType, Notes
<1>14. ASSUME NEW i \in Instances, FanRow(i) PROVE TypeOK'
  <2>1. Head(ch[i]) \in Events /\ Tail(ch[i]) \in Seq(Events)
    BY <1>14, <1>n, SeqSteps DEF FanRow
  <2>2. ch' \in [Instances -> Seq(Events)] /\ fan' \in [Instances -> Events \cup {NoEvent}]
    BY <1>14, <2>1 DEF FanRow
  <2> QED BY <1>0, <1>14, <2>2 DEF FanRow, tx, CoreType
<1>15. ASSUME NEW i \in Instances, FanFails(i) PROVE TypeOK'
  <2>1. Head(ch[i]) \in Events /\ Tail(ch[i]) \in Seq(Events)
    BY <1>15, <1>n, SeqSteps DEF FanFails
  <2>2. ch' \in [Instances -> Seq(Events)] /\ lost' \in SUBSET (Instances \X Events)
    BY <1>15, <2>1 DEF FanFails
  <2> QED BY <1>0, <1>15, <2>2, <1>f DEF FanFails, tx, CoreType
<1>16. ASSUME NEW i \in Instances, FanTags(i) PROVE TypeOK'
  <2>1. fan[i] \in Events
    BY <1>16 DEF FanTags
  <2>2. shown' \in [Instances -> [Events -> Nat]]
    BY <1>16, <2>1, ShowType DEF FanTags
  <2>3. fan' \in [Instances -> Events \cup {NoEvent}]
    BY <1>16, <2>1 DEF FanTags
  <2> QED BY <1>0, <1>16, <2>2, <2>3 DEF FanTags, tx, CoreType
<1>17. ASSUME NEW i \in Instances, Crash(i) PROVE TypeOK'
  <2>1. \A h \in Handlers : pc[h] # "idle" => ev[h] \in Events
    BY DEF TxInv, HasEvent
  <2>2. lost' \in SUBSET (Instances \X Events)
    BY <1>12, <1>17, <2>1 DEF Crash
  <2>3. notes' \in [Instances -> Seq(Notes)] /\ ch' \in [Instances -> Seq(Events)]
    <3>1. <<>> \in Seq(Notes) /\ <<>> \in Seq(Events)
      OBVIOUS
    <3> QED BY <1>17, <3>1, UpdateType DEF Crash, Notes
  <2>4. /\ listening' \in [Instances -> BOOLEAN]
        /\ fan' \in [Instances -> Events \cup {NoEvent}]
        /\ faults' \in 0..MaxFaults
    BY <1>17, <1>f DEF Crash
  <2> QED BY <1>0, <1>17, <2>2, <2>3, <2>4 DEF Crash, CoreType, Notes
<1> QED
  BY <1>1, <1>2, <1>3, <1>5, <1>6, <1>7, <1>8, <1>9, <1>10, <1>11, <1>13, <1>14, <1>15,
     <1>16, <1>17 DEF Next, HandlerStep, ListenStep, FanStep

\* Every variable of the store keeps its type.
THEOREM StoreTypeCorrect == Spec => []TypeOK
<1>1. Init => TypeOK
  BY StoreAssumption DEF Init, TypeOK, Pcs
<1> QED BY <1>1, InitTx, NextTx, NextType, PTL DEF Spec

---------------------------------------------------------------------------
(* Shown once.  On its way to the subscriptions of a process an event is in   *)
(* the hands of the handler that saved it, on the LISTEN connection, in the   *)
(* channel or in the hands of the fan-out: never in two of these places, and  *)
(* in none once it was shown.                                                 *)

Storable == Events \ Ephemeral
Saving == {"notify", "hooks"}
Channel(i) == {ch[i][k] : k \in DOMAIN ch[i]}

\* Process i has heard of e from another one and not shown it yet.
Announced(i, e) == e \in Pending(i) \/ e \in Channel(i) \/ e = fan[i]

Untouched(i, e) == ~Announced(i, e) /\ shown[i][e] = 0

\* One handler in all processes has saved an event and not finished.
OneSaver ==
  \A h, o \in Handlers : h # o /\ pc[h] \in Saving /\ pc[o] \in Saving => ev[h] # ev[o]

\* Before the notification nobody else has heard of the event, and before the
\* hooks nobody on the same process has seen it.
NotifyFirst ==
  \A h \in Handlers : pc[h] = "notify" => \A i \in Instances : Untouched(i, ev[h])
HooksFirst ==
  \A h \in Handlers : pc[h] = "hooks" => Untouched(InstanceOf[h], ev[h])

\* No event comes twice on the LISTEN connection or in the channel, nor is in
\* two of the three places.
NotesOnce ==
  \A i \in Instances : \A n, m \in DOMAIN notes[i] :
    n # m /\ notes[i][n].origin # i /\ notes[i][m].origin # i => notes[i][n].id # notes[i][m].id
ChannelOnce ==
  \A i \in Instances : \A n, m \in DOMAIN ch[i] : n # m => ch[i][n] # ch[i][m]
Apart ==
  \A i \in Instances :
    Pending(i) \cap Channel(i) = {} /\ fan[i] \notin Pending(i) \cup Channel(i)

\* What is announced was saved, and is still to be shown.
AnnouncedKept ==
  \A i \in Instances, e \in Storable :
    Announced(i, e) => shown[i][e] = 0 /\ KeptIn(e, stored)

ShowInv ==
  OneSaver /\ NotifyFirst /\ HooksFirst /\ NotesOnce /\ ChannelOnce /\ Apart /\ AnnouncedKept
  /\ ShownOnceStored

QueuesOnce == NotesOnce /\ ChannelOnce /\ Apart

\* Nobody hears of anything new.
Quieter ==
  \A i \in Instances, e \in Storable : Announced(i, e)' => Announced(i, e)

\* What was kept stays kept.
KeepsAll == \A e \in Storable : KeptIn(e, stored) => KeptIn(e, stored')

\* Queues that do not move stay free of repetitions, and say nothing new.
LEMMA SameQueues ==
  ASSUME UNCHANGED <<notes, ch, fan>>
  PROVE  Quieter /\ (QueuesOnce => QueuesOnce')
BY DEF Quieter, Announced, Pending, Channel, QueuesOnce, NotesOnce, ChannelOnce, Apart

\* No step loses a kept event: a commit replaces it by a newer version only.
LEMMA StepKeeps ==
  ASSUME TxInv, [Next]_vars
  PROVE  KeepsAll
<1>1. CASE stored' = stored
  BY <1>1 DEF KeepsAll
<1>2. ASSUME NEW h \in Handlers, Commit(h) \/ CommitUnknown(h) PROVE KeepsAll
  <2>1. ev[h] \in Events /\ stored \in SUBSET Events /\ gone[h] = Older(ev[h], stored)
    BY <1>2 DEF Commit, CommitUnknown, TxInv, HasEvent, CoreType, GoneExact, InTx
  <2>2. stored' = (stored \ Older(ev[h], stored)) \cup {ev[h]}
    BY <1>2, <2>1 DEF Commit, CommitUnknown
  <2> QED BY <2>1, <2>2, KeptStable DEF KeepsAll, Storable
<1>3. ASSUME NEW h \in Handlers,
             \/ \E e \in Offers[h] : Receive(h, e) \/ ReceiveEphemeral(h, e)
             \/ CheckStored(h) \/ CheckNew(h) \/ CheckFails(h) \/ Relook(h) \/ RelookFails(h)
             \/ RunHooks(h) \/ BeginDelete(h) \/ Insert(h) \/ Notify(h)
             \/ TxFails(h) \/ NotifyFails(h)
      PROVE  stored' = stored
  BY <1>3 DEF Receive, ReceiveEphemeral, CheckStored, CheckNew, CheckFails, Relook, RelookFails,
              RunHooks, BeginDelete, Insert, Notify, TxFails, NotifyFails
<1>4. ASSUME NEW i \in Instances,
             ListenStep(i) \/ FanStep(i) \/ ListenLost(i) \/ FanFails(i) \/ Crash(i)
      PROVE  stored' = stored
  BY <1>4 DEF ListenStep, Relisten, Forward, FanStep, FanRow, FanTags, ListenLost,
              FanFails, Crash
<1>5. CASE UNCHANGED vars
  BY <1>1, <1>5 DEF vars
<1> QED BY <1>1, <1>2, <1>3, <1>4, <1>5 DEF Next, HandlerStep

\* A step after which nobody has saved or heard of anything new, and nothing was
\* shown.
LEMMA QuieterStep ==
  ASSUME TxInv, ShowInv, Quieter, KeepsAll, shown' = shown,
         \A h \in Handlers : pc'[h] \in Saving => pc'[h] = pc[h] /\ ev'[h] = ev[h]
  PROVE  OneSaver' /\ NotifyFirst' /\ HooksFirst' /\ AnnouncedKept' /\ ShownOnceStored'
<1>1. OneSaver'
  BY DEF ShowInv, OneSaver
<1>2. \A h \in Handlers : pc[h] \in Saving => ev[h] \in Storable /\ InstanceOf[h] \in Instances
  BY StoreAssumption DEF TxInv, HasEvent, Storable, Saving
<1>3. ASSUME NEW h \in Handlers, pc'[h] = "notify", NEW i \in Instances
      PROVE  Untouched(i, ev[h])'
  <2>1. PICK e \in Storable : e = ev[h] /\ e = ev'[h]
    BY <1>2, <1>3 DEF Saving
  <2>2. Untouched(i, e)
    BY <1>3, <2>1 DEF ShowInv, NotifyFirst, Saving
  <2>3. Untouched(i, e)'
    BY <2>2 DEF Untouched, Quieter
  <2> QED BY <2>1, <2>3
<1>4. ASSUME NEW h \in Handlers, pc'[h] = "hooks"
      PROVE  Untouched(InstanceOf[h], ev[h])'
  <2>1. PICK e \in Storable : e = ev[h] /\ e = ev'[h]
    BY <1>2, <1>4 DEF Saving
  <2>2. InstanceOf[h] \in Instances /\ Untouched(InstanceOf[h], e)
    BY <1>2, <1>4, <2>1 DEF ShowInv, HooksFirst, Saving
  <2>3. Untouched(InstanceOf[h], e)'
    BY <2>2 DEF Untouched, Quieter
  <2> QED BY <2>1, <2>3
<1>5. AnnouncedKept'
  BY DEF ShowInv, AnnouncedKept, Quieter, KeepsAll
<1>6. ShownOnceStored'
  BY DEF ShowInv, ShownOnceStored, KeepsAll, Storable
<1> QED BY <1>1, <1>3, <1>4, <1>5, <1>6 DEF NotifyFirst, HooksFirst

\* A commit puts the event into the hands of one handler: nobody had saved it
\* before, so nobody was told of it or saw it.
LEMMA CommitShows ==
  ASSUME TxInv, TypeOK, ShowInv, KeepsAll, NEW h \in Handlers, Commit(h)
  PROVE  ShowInv'
<1>1. /\ UNCHANGED <<notes, ch, fan, shown, ev>> /\ pc[h] = "commit"
      /\ pc'[h] = "notify" /\ \A o \in Handlers \ {h} : pc'[o] = pc[o]
  BY DEF Commit, At, wire, TypeOK
<1>2. PICK e \in Storable : e = ev[h] /\ e = ev'[h]
  BY <1>1 DEF TxInv, HasEvent, Storable
<1>3. ~KeptIn(e, stored)
  <2>1. stored \in SUBSET Events /\ e \notin stored
        /\ \A r \in stored : SameAddress(r, e) => Newer(e, r)
    BY <1>1, <1>2 DEF TxInv, StillNew, CoreType
  <2> QED BY <2>1, NewerAsymmetric DEF KeptIn, Storable
<1>4. \A i \in Instances : ~Announced(i, e) /\ shown[i][e] = 0
  <2>1. \A i \in Instances : shown[i][e] \in Nat
    BY DEF TypeOK, Storable
  <2> QED BY <1>3, <2>1 DEF ShowInv, AnnouncedKept, ShownOnceStored, Storable
<1>5. \A o \in Handlers : pc[o] \in Saving => ev[o] # e
  BY <1>3 DEF TxInv, SavedKept, Saving
<1>6. Quieter /\ QueuesOnce'
  BY <1>1, SameQueues DEF ShowInv, QueuesOnce
<1>7. \A o \in Handlers : pc[o] \in Saving => ev[o] \in Storable /\ InstanceOf[o] \in Instances
  BY StoreAssumption DEF TxInv, HasEvent, Storable, Saving
<1>8. OneSaver'
  BY <1>1, <1>2, <1>5 DEF ShowInv, OneSaver
<1>9. \A i \in Instances : Untouched(i, e)'
  BY <1>1, <1>4, <1>6 DEF Untouched, Quieter
<1>10. ASSUME NEW o \in Handlers \ {h}, pc'[o] = "notify", NEW i \in Instances
       PROVE  Untouched(i, ev[o])'
  <2>1. PICK f \in Storable : f = ev[o] /\ f = ev'[o]
    BY <1>1, <1>7, <1>10 DEF Saving
  <2>2. Untouched(i, f)
    BY <1>1, <1>10, <2>1 DEF ShowInv, NotifyFirst
  <2>3. Untouched(i, f)'
    BY <1>1, <1>6, <2>2 DEF Untouched, Quieter
  <2> QED BY <2>1, <2>3
<1>11. NotifyFirst'
  <2>1. \A i \in Instances : Untouched(i, ev[h])'
    BY <1>2, <1>9
  <2> QED BY <1>10, <2>1 DEF NotifyFirst
<1>12. ASSUME NEW o \in Handlers, pc'[o] = "hooks"
       PROVE  Untouched(InstanceOf[o], ev[o])'
  <2>1. PICK f \in Storable : f = ev[o] /\ f = ev'[o]
    BY <1>1, <1>7, <1>12 DEF Saving
  <2>2. Untouched(InstanceOf[o], f) /\ InstanceOf[o] \in Instances
    BY <1>1, <1>7, <1>12, <2>1 DEF ShowInv, HooksFirst, Saving
  <2>3. Untouched(InstanceOf[o], f)'
    BY <1>1, <1>6, <2>2 DEF Untouched, Quieter
  <2> QED BY <2>1, <2>3
<1>13. AnnouncedKept'
  BY <1>1, <1>6 DEF ShowInv, AnnouncedKept, Quieter, KeepsAll
<1>14. ShownOnceStored'
  BY <1>1 DEF ShowInv, ShownOnceStored, KeepsAll, Storable
<1> QED BY <1>6, <1>8, <1>11, <1>12, <1>13, <1>14 DEF ShowInv, QueuesOnce, HooksFirst

\* One more note on a LISTEN connection.
LEMMA PendingAppend ==
  ASSUME TypeOK, NEW i \in Instances, NEW from \in Instances, NEW e \in Events,
         notes'[i] = Append(notes[i], [origin |-> from, id |-> e])
  PROVE  Pending(i)' = Pending(i) \cup (IF from = i THEN {} ELSE {e})
<1> DEFINE s == notes[i]
           note == [origin |-> from, id |-> e]
<1>1. s \in Seq(Notes) /\ note \in Notes
  BY DEF TypeOK, Notes
<1>2. /\ Len(s) \in Nat /\ DOMAIN s = 1 .. Len(s)
      /\ DOMAIN Append(s, note) = 1 .. (Len(s) + 1)
      /\ \A k \in 1 .. Len(s) : Append(s, note)[k] = s[k]
      /\ Append(s, note)[Len(s) + 1] = note
  BY <1>1
<1>3. notes'[i] = Append(s, note)
  OBVIOUS
<1> HIDE DEF s
<1>4. \A k \in 1 .. (Len(s) + 1) : k \in 1 .. Len(s) \/ k = Len(s) + 1
  BY <1>2
<1>5. \A k \in 1 .. Len(s) : k \in 1 .. (Len(s) + 1)
  BY <1>2
<1>6. Len(s) + 1 \in 1 .. (Len(s) + 1)
  BY <1>2
<1>7. Pending(i) = {s[k].id : k \in {n \in 1 .. Len(s) : s[n].origin # i}}
  BY <1>2 DEF Pending, s
<1>8. Pending(i)' = {notes'[i][k].id : k \in {n \in 1 .. (Len(s) + 1) : notes'[i][n].origin # i}}
  BY <1>2, <1>3 DEF Pending
<1>9. ASSUME NEW x PROVE x \in Pending(i)' <=> x \in Pending(i) \/ (from # i /\ x = e)
  <2>1. x \in Pending(i)' <=> \E k \in 1 .. (Len(s) + 1) : notes'[i][k].origin # i /\ x = notes'[i][k].id
    BY <1>8
  <2>2. x \in Pending(i) <=> \E k \in 1 .. Len(s) : s[k].origin # i /\ x = s[k].id
    BY <1>7
  <2>3. notes'[i][Len(s) + 1].origin = from /\ notes'[i][Len(s) + 1].id = e
    BY <1>2, <1>3
  <2>4. \A k \in 1 .. Len(s) : notes'[i][k] = s[k]
    BY <1>2, <1>3
  <2> QED BY <1>4, <1>5, <1>6, <2>1, <2>2, <2>3, <2>4
<1> QED BY <1>9

\* The same note at the end of a LISTEN connection repeats none that is on it.
LEMMA NotesAppend ==
  ASSUME TypeOK, NotesOnce, NEW i \in Instances, NEW from \in Instances, NEW e \in Events,
         e \notin Pending(i),
         notes'[i] = Append(notes[i], [origin |-> from, id |-> e])
  PROVE  \A n, m \in DOMAIN notes'[i] :
           n # m /\ notes'[i][n].origin # i /\ notes'[i][m].origin # i
             => notes'[i][n].id # notes'[i][m].id
<1> DEFINE s == notes[i]
           note == [origin |-> from, id |-> e]
<1>1. s \in Seq(Notes) /\ note \in Notes
  BY DEF TypeOK, Notes
<1>2. /\ Len(s) \in Nat /\ DOMAIN s = 1 .. Len(s)
      /\ DOMAIN notes'[i] = 1 .. (Len(s) + 1)
      /\ \A k \in 1 .. Len(s) : notes'[i][k] = s[k]
      /\ notes'[i][Len(s) + 1] = note
  BY <1>1
<1>3. \A n, m \in DOMAIN s : n # m /\ s[n].origin # i /\ s[m].origin # i => s[n].id # s[m].id
  BY DEF NotesOnce
<1>4. \A n \in DOMAIN s : s[n].origin # i => s[n].id # e
  BY DEF Pending
<1> HIDE DEF s
<1>5. \A k \in 1 .. (Len(s) + 1) : k \in 1 .. Len(s) \/ k = Len(s) + 1
  BY <1>2
<1> SUFFICES ASSUME NEW n \in 1 .. (Len(s) + 1), NEW m \in 1 .. (Len(s) + 1), n # m,
                    notes'[i][n].origin # i, notes'[i][m].origin # i
             PROVE  notes'[i][n].id # notes'[i][m].id
  BY <1>2
<1>6. notes'[i][Len(s) + 1].id = e
  BY <1>2
<1>7. CASE n \in 1 .. Len(s) /\ m \in 1 .. Len(s)
  BY <1>2, <1>3, <1>7
<1>8. CASE n = Len(s) + 1 /\ m \in 1 .. Len(s)
  BY <1>2, <1>4, <1>6, <1>8
<1>9. CASE n \in 1 .. Len(s) /\ m = Len(s) + 1
  BY <1>2, <1>4, <1>6, <1>9
<1> QED BY <1>5, <1>7, <1>8, <1>9

\* The handler tells the other processes: each hears of the event for the first
\* time, and its own process skips the note.
LEMMA NotifyShows ==
  ASSUME TxInv, TypeOK, ShowInv, NEW h \in Handlers, Notify(h) \/ NotifyFails(h)
  PROVE  ShowInv'
<1> DEFINE from == InstanceOf[h]
<1>1. /\ UNCHANGED <<ch, fan, shown, ev, stored>> /\ pc[h] = "notify"
      /\ pc'[h] = "hooks" /\ \A o \in Handlers \ {h} : pc'[o] = pc[o]
  BY DEF Notify, NotifyFails, At, wire, TypeOK
<1>2. PICK e \in Storable : e = ev[h] /\ e = ev'[h]
  BY <1>1 DEF TxInv, HasEvent, Storable
<1>3. from \in Instances /\ e \in Events
  BY StoreAssumption DEF Storable
<1>4. \A i \in Instances : Untouched(i, e)
  BY <1>1, <1>2 DEF ShowInv, NotifyFirst
<1>5. \A i \in Instances :
        \/ notes'[i] = notes[i]
        \/ notes'[i] = Append(notes[i], [origin |-> from, id |-> e])
  BY <1>2 DEF Notify, NotifyFails, wire
<1>6. \A i \in Instances : e \notin Pending(i) /\ e \notin Channel(i) /\ e # fan[i]
  BY <1>4 DEF Untouched, Announced
<1> HIDE DEF from
<1>7. ASSUME NEW i \in Instances
      PROVE  Pending(i)' = Pending(i) \/ (i # from /\ Pending(i)' = Pending(i) \cup {e})
  <2>1. CASE notes'[i] = notes[i]
    BY <2>1 DEF Pending
  <2>2. CASE notes'[i] = Append(notes[i], [origin |-> from, id |-> e])
    <3>1. Pending(i)' = Pending(i) \cup (IF from = i THEN {} ELSE {e})
      BY <1>3, <2>2, PendingAppend
    <3>2. CASE from = i
      <4>1. Pending(i)' = Pending(i) \cup {}
        BY <3>1, <3>2
      <4> QED BY <4>1
    <3>3. CASE from # i
      BY <3>1, <3>3
    <3> QED BY <3>2, <3>3
  <2> QED BY <1>5, <2>1, <2>2
<1>8. \A i \in Instances : Channel(i)' = Channel(i) /\ fan'[i] = fan[i]
  BY <1>1 DEF Channel
<1>9. ASSUME NEW i \in Instances, NEW f \in Storable, Announced(i, f)'
      PROVE  Announced(i, f) \/ (f = e /\ i # from)
  BY <1>7, <1>8, <1>9 DEF Announced
<1>10. NotesOnce'
  <2>1. ASSUME NEW i \in Instances
        PROVE  \A n, m \in DOMAIN notes'[i] :
                 n # m /\ notes'[i][n].origin # i /\ notes'[i][m].origin # i
                   => notes'[i][n].id # notes'[i][m].id
    <3>1. CASE notes'[i] = notes[i]
      BY <3>1 DEF ShowInv, NotesOnce
    <3>2. CASE notes'[i] = Append(notes[i], [origin |-> from, id |-> e])
      BY <1>3, <1>6, <3>2, NotesAppend DEF ShowInv
    <3> QED BY <1>5, <3>1, <3>2
  <2> QED BY <2>1 DEF NotesOnce
<1>11. ChannelOnce' /\ Apart'
  <2>1. ChannelOnce'
    BY <1>1 DEF ShowInv, ChannelOnce
  <2>2. Apart'
    BY <1>6, <1>7, <1>8 DEF ShowInv, Apart
  <2> QED BY <2>1, <2>2
<1>12. \A o \in Handlers : pc[o] \in Saving => ev[o] \in Storable /\ InstanceOf[o] \in Instances
  BY StoreAssumption DEF TxInv, HasEvent, Storable, Saving
<1>13. \A o \in Handlers \ {h} : pc[o] \in Saving => ev[o] # e
  BY <1>1, <1>2 DEF ShowInv, OneSaver, Saving
<1>14. OneSaver'
  BY <1>1 DEF ShowInv, OneSaver, Saving
<1>15. ASSUME NEW o \in Handlers, pc'[o] = "notify", NEW i \in Instances
       PROVE  Untouched(i, ev[o])'
  <2>1. o # h /\ pc[o] = "notify"
    BY <1>1, <1>15
  <2>2. PICK f \in Storable : f = ev[o] /\ f = ev'[o]
    BY <1>1, <1>12, <2>1 DEF Saving
  <2>3. Untouched(i, f) /\ f # e
    BY <1>13, <2>1, <2>2 DEF ShowInv, NotifyFirst, Saving
  <2>4. Untouched(i, f)'
    BY <1>1, <1>9, <2>3 DEF Untouched
  <2> QED BY <2>2, <2>4
<1>16. ASSUME NEW o \in Handlers, pc'[o] = "hooks"
       PROVE  Untouched(InstanceOf[o], ev[o])'
  <2>1. CASE o = h
    <3>1. Untouched(from, e)'
      BY <1>1, <1>3, <1>4, <1>9 DEF Untouched
    <3> QED BY <1>2, <2>1, <3>1 DEF from
  <2>2. CASE o # h
    <3>1. pc[o] = "hooks"
      BY <1>1, <1>16, <2>2
    <3>2. PICK f \in Storable : f = ev[o] /\ f = ev'[o]
      BY <1>1, <1>12, <3>1 DEF Saving
    <3>3. Untouched(InstanceOf[o], f) /\ f # e /\ InstanceOf[o] \in Instances
      BY <1>12, <1>13, <2>2, <3>1, <3>2 DEF ShowInv, HooksFirst, Saving
    <3>4. Untouched(InstanceOf[o], f)'
      BY <1>1, <1>9, <3>3 DEF Untouched
    <3> QED BY <3>2, <3>4
  <2> QED BY <2>1, <2>2
<1>17. AnnouncedKept'
  <2>1. \A i \in Instances : shown[i][e] = 0
    BY <1>4 DEF Untouched
  <2>2. KeptIn(e, stored)
    BY <1>1, <1>2 DEF TxInv, SavedKept
  <2>3. ASSUME NEW i \in Instances, NEW f \in Storable, Announced(i, f)'
        PROVE  shown'[i][f] = 0 /\ KeptIn(f, stored)
    BY <1>1, <1>9, <2>1, <2>2, <2>3 DEF ShowInv, AnnouncedKept
  <2> QED BY <1>1, <2>3 DEF AnnouncedKept
<1>18. ShownOnceStored'
  BY <1>1 DEF ShowInv, ShownOnceStored
<1> QED BY <1>10, <1>11, <1>14, <1>15, <1>16, <1>17, <1>18 DEF ShowInv, NotifyFirst, HooksFirst

\* An event is shown for the first time, to whoever alone had it in hand, and an
\* ephemeral one whenever it comes.
LEMMA ShowStep ==
  ASSUME TxInv, TypeOK, ShowInv, Quieter, stored' = stored,
         NEW i \in Instances, NEW e \in Events, Show(i, e),
         e \in Storable => /\ shown[i][e] = 0 /\ KeptIn(e, stored)
                           /\ ~Announced(i, e)',
         \A h \in Handlers : pc'[h] \in Saving =>
           /\ pc'[h] = pc[h] /\ ev'[h] = ev[h]
           /\ ev[h] # e \/ (pc[h] = "hooks" /\ InstanceOf[h] # i)
  PROVE  OneSaver' /\ NotifyFirst' /\ HooksFirst' /\ AnnouncedKept' /\ ShownOnceStored'
<1>1. OneSaver'
  BY DEF ShowInv, OneSaver
<1>2. \A h \in Handlers : pc[h] \in Saving => ev[h] \in Storable /\ InstanceOf[h] \in Instances
  BY StoreAssumption DEF TxInv, HasEvent, Storable, Saving
<1>3. /\ shown'[i][e] = shown[i][e] + 1
      /\ \A j \in Instances, f \in Events : j # i \/ f # e => shown'[j][f] = shown[j][f]
  BY DEF Show, TypeOK
<1>4. ASSUME NEW h \in Handlers, pc'[h] = "notify", NEW j \in Instances
      PROVE  Untouched(j, ev[h])'
  <2>1. PICK f \in Storable : f = ev[h] /\ f = ev'[h]
    BY <1>2, <1>4 DEF Saving
  <2>2. Untouched(j, f) /\ f # e /\ f \in Events
    BY <1>4, <2>1 DEF ShowInv, NotifyFirst, Saving, Storable
  <2>3. Untouched(j, f)'
    BY <1>3, <2>2 DEF Untouched, Quieter
  <2> QED BY <2>1, <2>3
<1>5. ASSUME NEW h \in Handlers, pc'[h] = "hooks"
      PROVE  Untouched(InstanceOf[h], ev[h])'
  <2>1. PICK f \in Storable : f = ev[h] /\ f = ev'[h]
    BY <1>2, <1>5 DEF Saving
  <2>2. PICK j \in Instances : j = InstanceOf[h]
    BY <1>2, <1>5 DEF Saving
  <2>3. Untouched(j, f) /\ (f # e \/ j # i) /\ f \in Events
    BY <1>5, <2>1, <2>2 DEF ShowInv, HooksFirst, Saving, Storable
  <2>4. Untouched(j, f)'
    BY <1>3, <2>3 DEF Untouched, Quieter
  <2> QED BY <2>1, <2>2, <2>4
<1>6. AnnouncedKept'
  <2>1. ASSUME NEW j \in Instances, NEW f \in Storable, Announced(j, f)'
        PROVE  shown'[j][f] = 0 /\ KeptIn(f, stored)
    <3>1. Announced(j, f) /\ (j # i \/ f # e) /\ f \in Events
      BY <2>1 DEF Quieter, Storable
    <3> QED BY <1>3, <3>1 DEF ShowInv, AnnouncedKept
  <2> QED BY <2>1 DEF AnnouncedKept
<1>7. ShownOnceStored'
  <2>1. ASSUME NEW j \in Instances, NEW f \in Events \ Ephemeral
        PROVE  shown'[j][f] <= 1 /\ (shown'[j][f] = 1 => KeptIn(f, stored))
    <3>1. CASE j = i /\ f = e
      BY <1>3, <3>1 DEF Storable
    <3>2. CASE j # i \/ f # e
      BY <1>3, <3>2 DEF ShowInv, ShownOnceStored
    <3> QED BY <3>1, <3>2
  <2> QED BY <2>1 DEF ShownOnceStored
<1> QED BY <1>1, <1>4, <1>5, <1>6, <1>7 DEF NotifyFirst, HooksFirst

\* The hooks run: the handler alone had the event in hand.
LEMMA HooksShow ==
  ASSUME TxInv, TypeOK, ShowInv, NEW h \in Handlers, RunHooks(h)
  PROVE  ShowInv'
<1>1. /\ UNCHANGED <<notes, ch, fan, stored>> /\ pc[h] = "hooks" /\ Show(InstanceOf[h], ev[h])
      /\ pc'[h] = "idle" /\ \A o \in Handlers \ {h} : pc'[o] = pc[o] /\ ev'[o] = ev[o]
  BY DEF RunHooks, Finish, At, wire, TypeOK
<1>2. PICK e \in Storable, i \in Instances : e = ev[h] /\ i = InstanceOf[h]
  BY <1>1, StoreAssumption DEF TxInv, HasEvent, Storable
<1>3. e \in Events /\ Show(i, e) /\ Untouched(i, e) /\ KeptIn(e, stored)
  BY <1>1, <1>2 DEF ShowInv, HooksFirst, TxInv, SavedKept, Storable
<1>4. Quieter /\ QueuesOnce'
  BY <1>1, SameQueues DEF ShowInv, QueuesOnce
<1>5. shown[i][e] = 0 /\ ~Announced(i, e)'
  BY <1>3, <1>4 DEF Untouched, Quieter
<1>6. \A o \in Handlers : pc'[o] \in Saving =>
        /\ pc'[o] = pc[o] /\ ev'[o] = ev[o]
        /\ ev[o] # e
  BY <1>1, <1>2 DEF ShowInv, OneSaver, Saving
<1>7. OneSaver' /\ NotifyFirst' /\ HooksFirst' /\ AnnouncedKept' /\ ShownOnceStored'
  BY <1>1, <1>3, <1>4, <1>5, <1>6, ShowStep
<1> QED BY <1>4, <1>7 DEF ShowInv, QueuesOnce

\* An ephemeral event is of no concern here.
LEMMA EphemeralShows ==
  ASSUME TxInv, TypeOK, ShowInv, NEW h \in Handlers, NEW e \in Ephemeral, ReceiveEphemeral(h, e)
  PROVE  ShowInv'
<1>1. /\ UNCHANGED <<notes, ch, fan, stored, pc, ev>> /\ Show(InstanceOf[h], e)
  BY DEF ReceiveEphemeral, wire
<1>2. InstanceOf[h] \in Instances /\ e \in Events /\ e \notin Storable
  BY StoreAssumption, EventAssumption DEF Storable
<1>3. Quieter /\ QueuesOnce'
  BY <1>1, SameQueues DEF ShowInv, QueuesOnce
<1>4. \A o \in Handlers : pc'[o] \in Saving =>
        pc'[o] = pc[o] /\ ev'[o] = ev[o] /\ ev[o] # e
  BY <1>1, <1>2 DEF TxInv, HasEvent, Saving, Storable
<1>5. OneSaver' /\ NotifyFirst' /\ HooksFirst' /\ AnnouncedKept' /\ ShownOnceStored'
  BY <1>1, <1>2, <1>3, <1>4, ShowStep
<1> QED BY <1>3, <1>5 DEF ShowInv, QueuesOnce

\* The queues carry events.
LEMMA QueuesHoldEvents ==
  ASSUME TypeOK
  PROVE  \A i \in Instances : Pending(i) \subseteq Events /\ Channel(i) \subseteq Events
<1> SUFFICES ASSUME NEW i \in Instances
             PROVE  Pending(i) \subseteq Events /\ Channel(i) \subseteq Events
  OBVIOUS
<1>1. ch[i] \in Seq(Events) /\ notes[i] \in Seq(Notes)
  BY DEF TypeOK, Notes
<1>2. \A k \in DOMAIN ch[i] : ch[i][k] \in Events
  BY <1>1
<1>3. \A k \in DOMAIN notes[i] : notes[i][k] \in Notes
  BY <1>1
<1>4. \A k \in DOMAIN notes[i] : notes[i][k].id \in Events
  BY <1>3 DEF Notes
<1> QED BY <1>2, <1>4 DEF Pending, Channel

\* The fan-out shows the event it holds: it is in no other place.
LEMMA FanShows ==
  ASSUME TxInv, TypeOK, ShowInv, NEW i \in Instances, FanTags(i)
  PROVE  ShowInv'
<1>1. /\ UNCHANGED <<notes, ch, stored, pc, ev>> /\ fan[i] # NoEvent /\ Show(i, fan[i])
      /\ fan'[i] = NoEvent /\ \A j \in Instances \ {i} : fan'[j] = fan[j]
  BY DEF FanTags, tx, TypeOK
<1>2. PICK e \in Events : e = fan[i]
  BY <1>1 DEF TypeOK
<1>3. /\ \A j \in Instances : Pending(j)' = Pending(j) /\ Channel(j)' = Channel(j)
      /\ NoEvent \notin Events
  BY <1>1, StoreAssumption DEF Pending, Channel
<1>4. Quieter
  BY <1>1, <1>3 DEF Quieter, Announced, Storable
<1>5. ~Announced(i, e)' /\ Announced(i, e)
  BY <1>1, <1>2, <1>3 DEF ShowInv, Apart, Announced
<1>6. e \in Storable => shown[i][e] = 0 /\ KeptIn(e, stored)
  BY <1>5 DEF ShowInv, AnnouncedKept
<1>7. ASSUME NEW h \in Handlers, pc[h] \in Saving
      PROVE  ev[h] # e \/ (pc[h] = "hooks" /\ InstanceOf[h] # i)
  BY <1>5, <1>7 DEF ShowInv, NotifyFirst, HooksFirst, Untouched, Saving
<1>8. OneSaver' /\ NotifyFirst' /\ HooksFirst' /\ AnnouncedKept' /\ ShownOnceStored'
  BY <1>1, <1>2, <1>4, <1>5, <1>6, <1>7, ShowStep
<1>9. NotesOnce' /\ ChannelOnce'
  BY <1>1 DEF ShowInv, NotesOnce, ChannelOnce
<1>10. Apart'
  <2> QED BY <1>1, <1>3, QueuesHoldEvents DEF ShowInv, Apart
<1> QED BY <1>8, <1>9, <1>10 DEF ShowInv

---------------------------------------------------------------------------
(* The queues of a process. *)

\* What a sequence has behind its head.
LEMMA TailIndex ==
  ASSUME NEW T, NEW s \in Seq(T), s # <<>>
  PROVE  /\ Len(s) \in Nat \ {0} /\ DOMAIN s = 1 .. Len(s) /\ Head(s) = s[1]
         /\ DOMAIN Tail(s) = 1 .. (Len(s) - 1)
         /\ \A k \in DOMAIN Tail(s) : k + 1 \in DOMAIN s /\ Tail(s)[k] = s[k + 1] /\ k + 1 # 1
         /\ 1 \in DOMAIN s
OBVIOUS

\* The loop takes a note: nothing is added to the others, and the event of the
\* note is not among them.
LEMMA NotesTail ==
  ASSUME TypeOK, NotesOnce, NEW i \in Instances, notes[i] # <<>>, notes'[i] = Tail(notes[i])
  PROVE  /\ \A n, m \in DOMAIN notes'[i] :
              n # m /\ notes'[i][n].origin # i /\ notes'[i][m].origin # i
                => notes'[i][n].id # notes'[i][m].id
         /\ Pending(i)' \subseteq Pending(i)
         /\ Head(notes[i]).origin # i =>
              /\ Head(notes[i]).id \in Pending(i)
              /\ Head(notes[i]).id \notin Pending(i)'
<1> DEFINE s == notes[i]
<1>0. s \in Seq(Notes) /\ s # <<>>
  BY DEF TypeOK, Notes
<1>1. /\ Len(s) \in Nat \ {0} /\ DOMAIN s = 1 .. Len(s) /\ Head(s) = s[1]
      /\ DOMAIN notes'[i] = 1 .. (Len(s) - 1)
      /\ \A k \in DOMAIN notes'[i] : k + 1 \in DOMAIN s /\ notes'[i][k] = s[k + 1] /\ k + 1 # 1
      /\ 1 \in DOMAIN s
  BY <1>0, TailIndex
<1>2. \A n, m \in DOMAIN s : n # m /\ s[n].origin # i /\ s[m].origin # i => s[n].id # s[m].id
  BY DEF NotesOnce
<1>3. \A x : x \in Pending(i) <=> \E k \in DOMAIN s : s[k].origin # i /\ x = s[k].id
  BY DEF Pending
<1>4. \A x : x \in Pending(i)' <=>
        \E k \in DOMAIN notes'[i] : notes'[i][k].origin # i /\ x = notes'[i][k].id
  BY DEF Pending
<1> HIDE DEF s
<1>5. ASSUME NEW n \in DOMAIN notes'[i], NEW m \in DOMAIN notes'[i], n # m,
             notes'[i][n].origin # i, notes'[i][m].origin # i
      PROVE  notes'[i][n].id # notes'[i][m].id
  <2>1. n + 1 # m + 1
    BY <1>1, <1>5
  <2> QED BY <1>1, <1>2, <1>5, <2>1
<1>6. Pending(i)' \subseteq Pending(i)
  BY <1>1, <1>3, <1>4
<1>7. ASSUME s[1].origin # i PROVE s[1].id \in Pending(i) /\ s[1].id \notin Pending(i)'
  BY <1>1, <1>2, <1>3, <1>4, <1>7
<1> QED BY <1>1, <1>5, <1>6, <1>7 DEF s

\* One more id in the channel.
LEMMA ChannelAppend ==
  ASSUME TypeOK, ChannelOnce, NEW i \in Instances, NEW e \in Events, e \notin Channel(i),
         ch'[i] = Append(ch[i], e)
  PROVE  /\ Channel(i)' = Channel(i) \cup {e}
         /\ \A n, m \in DOMAIN ch'[i] : n # m => ch'[i][n] # ch'[i][m]
<1> DEFINE s == ch[i]
<1>0. s \in Seq(Events)
  BY DEF TypeOK
<1>1. /\ Len(s) \in Nat /\ DOMAIN s = 1 .. Len(s)
      /\ DOMAIN ch'[i] = 1 .. (Len(s) + 1)
      /\ \A k \in 1 .. Len(s) : ch'[i][k] = s[k]
      /\ ch'[i][Len(s) + 1] = e
  BY <1>0
<1>2. \A x : x \in Channel(i) <=> \E k \in DOMAIN s : x = s[k]
  BY DEF Channel
<1>3. \A x : x \in Channel(i)' <=> \E k \in DOMAIN ch'[i] : x = ch'[i][k]
  BY DEF Channel
<1>4. \A n, m \in DOMAIN s : n # m => s[n] # s[m]
  BY DEF ChannelOnce
<1> HIDE DEF s
<1>5. /\ \A k \in 1 .. (Len(s) + 1) : k \in 1 .. Len(s) \/ k = Len(s) + 1
      /\ \A k \in 1 .. Len(s) : k \in 1 .. (Len(s) + 1)
      /\ Len(s) + 1 \in 1 .. (Len(s) + 1)
  BY <1>1
<1>6. Channel(i)' = Channel(i) \cup {e}
  BY <1>1, <1>2, <1>3, <1>5
<1>7. \A k \in 1 .. Len(s) : s[k] # e
  BY <1>1, <1>2
<1>8. ASSUME NEW n \in 1 .. (Len(s) + 1), NEW m \in 1 .. (Len(s) + 1), n # m
      PROVE  ch'[i][n] # ch'[i][m]
  BY <1>1, <1>4, <1>5, <1>7, <1>8
<1> QED BY <1>1, <1>6, <1>8

\* The fan-out takes an id out of the channel, where it was once.
LEMMA ChannelTail ==
  ASSUME TypeOK, ChannelOnce, NEW i \in Instances, ch[i] # <<>>, ch'[i] = Tail(ch[i])
  PROVE  /\ \A n, m \in DOMAIN ch'[i] : n # m => ch'[i][n] # ch'[i][m]
         /\ Channel(i)' \subseteq Channel(i)
         /\ Head(ch[i]) \in Channel(i) /\ Head(ch[i]) \notin Channel(i)'
<1> DEFINE s == ch[i]
<1>0. s \in Seq(Events) /\ s # <<>>
  BY DEF TypeOK
<1>1. /\ Len(s) \in Nat \ {0} /\ DOMAIN s = 1 .. Len(s) /\ Head(s) = s[1]
      /\ DOMAIN ch'[i] = 1 .. (Len(s) - 1)
      /\ \A k \in DOMAIN ch'[i] : k + 1 \in DOMAIN s /\ ch'[i][k] = s[k + 1] /\ k + 1 # 1
      /\ 1 \in DOMAIN s
  BY <1>0, TailIndex
<1>2. \A x : x \in Channel(i) <=> \E k \in DOMAIN s : x = s[k]
  BY DEF Channel
<1>3. \A x : x \in Channel(i)' <=> \E k \in DOMAIN ch'[i] : x = ch'[i][k]
  BY DEF Channel
<1>4. \A n, m \in DOMAIN s : n # m => s[n] # s[m]
  BY DEF ChannelOnce
<1> HIDE DEF s
<1>5. ASSUME NEW n \in DOMAIN ch'[i], NEW m \in DOMAIN ch'[i], n # m
      PROVE  ch'[i][n] # ch'[i][m]
  <2>1. n + 1 # m + 1
    BY <1>1, <1>5
  <2> QED BY <1>1, <1>4, <2>1
<1>6. Channel(i)' \subseteq Channel(i) /\ s[1] \in Channel(i) /\ s[1] \notin Channel(i)'
  BY <1>1, <1>2, <1>3, <1>4
<1> QED BY <1>1, <1>5, <1>6 DEF s

\* The queues of the processes but i do not move.
OthersStill(i) ==
  \A j \in Instances \ {i} : notes'[j] = notes[j] /\ ch'[j] = ch[j] /\ fan'[j] = fan[j]

\* What is left to see at one process when the others do not move.
LEMMA OneProcess ==
  ASSUME QueuesOnce, NEW i \in Instances, OthersStill(i),
         \A n, m \in DOMAIN notes'[i] :
           n # m /\ notes'[i][n].origin # i /\ notes'[i][m].origin # i
             => notes'[i][n].id # notes'[i][m].id,
         \A n, m \in DOMAIN ch'[i] : n # m => ch'[i][n] # ch'[i][m],
         Pending(i)' \cap Channel(i)' = {},
         fan'[i] \notin Pending(i)' \cup Channel(i)',
         \A e \in Storable : Announced(i, e)' => Announced(i, e)
  PROVE  QueuesOnce' /\ Quieter
<1>1. \A j \in Instances \ {i} :
        Pending(j)' = Pending(j) /\ Channel(j)' = Channel(j) /\ fan'[j] = fan[j]
  BY DEF OthersStill, Pending, Channel
<1>2. NotesOnce' /\ ChannelOnce'
  BY DEF QueuesOnce, NotesOnce, ChannelOnce, OthersStill
<1>3. Apart'
  BY <1>1 DEF QueuesOnce, Apart
<1>4. Quieter
  BY <1>1 DEF Quieter, Announced
<1> QED BY <1>2, <1>3, <1>4 DEF QueuesOnce

\* listenLoop moves an id from the connection to the channel, or skips its own.
LEMMA ForwardQueues ==
  ASSUME TypeOK, QueuesOnce, NEW i \in Instances, Forward(i)
  PROVE  QueuesOnce' /\ Quieter
<1> USE DEF QueuesOnce
<1>1. /\ notes[i] # <<>> /\ notes'[i] = Tail(notes[i]) /\ fan' = fan /\ OthersStill(i)
      /\ \/ Head(notes[i]).origin = i /\ ch'[i] = ch[i]
         \/ Head(notes[i]).origin # i /\ ch'[i] = Append(ch[i], Head(notes[i]).id)
  BY DEF Forward, OthersStill, TypeOK
<1>2. /\ \A n, m \in DOMAIN notes'[i] :
           n # m /\ notes'[i][n].origin # i /\ notes'[i][m].origin # i
             => notes'[i][n].id # notes'[i][m].id
      /\ Pending(i)' \subseteq Pending(i)
      /\ Head(notes[i]).origin # i =>
           /\ Head(notes[i]).id \in Pending(i)
           /\ Head(notes[i]).id \notin Pending(i)'
  BY <1>1, NotesTail
<1>3. Pending(i) \cap Channel(i) = {} /\ fan[i] \notin Pending(i) \cup Channel(i)
      /\ fan'[i] = fan[i]
  BY <1>1 DEF Apart
<1>4. CASE Head(notes[i]).origin = i
  <2>1. Channel(i)' = Channel(i)
        /\ \A n, m \in DOMAIN ch'[i] : n # m => ch'[i][n] # ch'[i][m]
    BY <1>1, <1>4 DEF Channel, ChannelOnce
  <2>2. \A e \in Storable : Announced(i, e)' => Announced(i, e)
    BY <1>2, <1>3, <2>1 DEF Announced
  <2> QED BY <1>1, <1>2, <1>3, <2>1, <2>2, OneProcess
<1>5. CASE Head(notes[i]).origin # i
  <2>1. PICK e \in Events : e = Head(notes[i]).id
    BY <1>2, <1>5, QueuesHoldEvents
  <2>2. e \notin Channel(i) /\ e # fan[i] /\ e \in Pending(i) /\ e \notin Pending(i)'
    BY <1>2, <1>3, <1>5, <2>1
  <2>3. /\ Channel(i)' = Channel(i) \cup {e}
        /\ \A n, m \in DOMAIN ch'[i] : n # m => ch'[i][n] # ch'[i][m]
    BY <1>1, <1>5, <2>1, <2>2, ChannelAppend
  <2>4. \A f \in Storable : Announced(i, f)' => Announced(i, f)
    BY <1>2, <1>3, <2>2, <2>3 DEF Announced
  <2>5. Pending(i)' \cap Channel(i)' = {} /\ fan'[i] \notin Pending(i)' \cup Channel(i)'
    BY <1>2, <1>3, <2>2, <2>3
  <2> QED BY <1>1, <1>2, <2>3, <2>4, <2>5, OneProcess
<1> QED BY <1>4, <1>5

\* The fan-out takes an id and reads its row, or drops it.
LEMMA FanQueues ==
  ASSUME TypeOK, QueuesOnce, NEW i \in Instances, FanRow(i) \/ FanFails(i)
  PROVE  QueuesOnce' /\ Quieter
<1> USE DEF QueuesOnce
<1>1. /\ ch[i] # <<>> /\ ch'[i] = Tail(ch[i]) /\ notes' = notes /\ OthersStill(i)
      /\ fan'[i] \in {NoEvent, Head(ch[i])}
  BY DEF FanRow, FanFails, OthersStill, TypeOK
<1>2. /\ \A n, m \in DOMAIN ch'[i] : n # m => ch'[i][n] # ch'[i][m]
      /\ Channel(i)' \subseteq Channel(i)
      /\ Head(ch[i]) \in Channel(i) /\ Head(ch[i]) \notin Channel(i)'
  BY <1>1, ChannelTail
<1>3. Pending(i)' = Pending(i) /\ Pending(i) \cap Channel(i) = {}
  BY <1>1 DEF Pending, Apart
<1>4. NoEvent \notin Pending(i) /\ NoEvent \notin Channel(i) /\ NoEvent \notin Storable
  BY QueuesHoldEvents, StoreAssumption DEF Storable
<1>5. Pending(i)' \cap Channel(i)' = {} /\ fan'[i] \notin Pending(i)' \cup Channel(i)'
  BY <1>1, <1>2, <1>3, <1>4
<1>6. \A f \in Storable : Announced(i, f)' => Announced(i, f)
  BY <1>1, <1>2, <1>3, <1>4 DEF Announced
<1>7. \A n, m \in DOMAIN notes'[i] :
        n # m /\ notes'[i][n].origin # i /\ notes'[i][m].origin # i
          => notes'[i][n].id # notes'[i][m].id
  BY <1>1 DEF NotesOnce
<1> QED BY <1>1, <1>2, <1>5, <1>6, <1>7, OneProcess

\* The connection breaks, or the process dies: its queues are emptied.
LEMMA LossQueues ==
  ASSUME TypeOK, QueuesOnce, NEW i \in Instances, ListenLost(i) \/ Crash(i)
  PROVE  QueuesOnce' /\ Quieter
<1> USE DEF QueuesOnce
<1>1. /\ notes'[i] = <<>> /\ OthersStill(i)
      /\ \/ ch'[i] = ch[i] /\ fan'[i] = fan[i]
         \/ ch'[i] = <<>> /\ fan'[i] = NoEvent
  BY DEF ListenLost, Crash, OthersStill, TypeOK
<1>2. DOMAIN notes'[i] = {} /\ Pending(i)' = {}
  BY <1>1 DEF Pending
<1>3. NoEvent \notin Storable
  BY StoreAssumption DEF Storable
<1>4. /\ \/ Channel(i)' = Channel(i) /\ fan'[i] = fan[i]
         \/ Channel(i)' = {} /\ fan'[i] = NoEvent
      /\ \A n, m \in DOMAIN ch'[i] : n # m => ch'[i][n] # ch'[i][m]
  <2>1. CASE ch'[i] = ch[i] /\ fan'[i] = fan[i]
    BY <2>1 DEF Channel, ChannelOnce
  <2>2. CASE ch'[i] = <<>> /\ fan'[i] = NoEvent
    BY <2>2 DEF Channel
  <2> QED BY <1>1, <2>1, <2>2
<1>5. Pending(i)' \cap Channel(i)' = {} /\ fan'[i] \notin Pending(i)' \cup Channel(i)'
  BY <1>2, <1>4 DEF Apart
<1>6. \A f \in Storable : Announced(i, f)' => Announced(i, f)
  BY <1>2, <1>3, <1>4 DEF Announced
<1> QED BY <1>1, <1>2, <1>4, <1>5, <1>6, OneProcess

---------------------------------------------------------------------------
\* Every step keeps the invariant.
LEMMA NextShow == TxInv /\ TypeOK /\ ShowInv /\ [Next]_vars => ShowInv'
<1> SUFFICES ASSUME TxInv, TypeOK, ShowInv, [Next]_vars PROVE ShowInv'
  OBVIOUS
<1>0. KeepsAll
  BY StepKeeps
<1>1. QueuesOnce /\ pc \in [Handlers -> Pcs] /\ ev \in [Handlers -> Storable \cup {NoEvent}]
  BY DEF ShowInv, QueuesOnce, TypeOK, Storable
<1>2. ASSUME QueuesOnce', Quieter, shown' = shown,
             \A h \in Handlers : pc'[h] \in Saving => pc'[h] = pc[h] /\ ev'[h] = ev[h]
      PROVE  ShowInv'
  BY <1>0, <1>2, QuieterStep DEF ShowInv, QueuesOnce
<1>3. ASSUME UNCHANGED <<notes, ch, fan, shown>>,
             \A h \in Handlers : pc'[h] \in Saving => pc'[h] = pc[h] /\ ev'[h] = ev[h]
      PROVE  ShowInv'
  BY <1>1, <1>2, <1>3, SameQueues
<1>4. CASE UNCHANGED vars
  BY <1>3, <1>4 DEF vars, wire, tx
<1>5. ASSUME NEW h \in Handlers, Commit(h) PROVE ShowInv'
  BY <1>0, <1>5, CommitShows
<1>6. ASSUME NEW h \in Handlers, Notify(h) \/ NotifyFails(h) PROVE ShowInv'
  BY <1>6, NotifyShows
<1>7. ASSUME NEW h \in Handlers, RunHooks(h) PROVE ShowInv'
  BY <1>7, HooksShow
<1>8. ASSUME NEW h \in Handlers, NEW e \in Offers[h], ReceiveEphemeral(h, e) PROVE ShowInv'
  <2>1. e \in Ephemeral
    BY <1>8 DEF ReceiveEphemeral
  <2> QED BY <1>8, <2>1, EphemeralShows
<1>9. ASSUME NEW h \in Handlers, NEW e \in Offers[h], Receive(h, e) PROVE ShowInv'
  BY <1>1, <1>3, <1>9 DEF Receive, At, wire, Saving
<1>10. ASSUME NEW h \in Handlers, CheckStored(h) \/ CheckFails(h) \/ Relook(h) \/ RelookFails(h)
       PROVE  ShowInv'
  BY <1>1, <1>3, <1>10 DEF CheckStored, CheckFails, Relook, RelookFails, Finish, At, wire, Saving
<1>11. ASSUME NEW h \in Handlers,
              CheckNew(h) \/ BeginDelete(h) \/ Insert(h) \/ TxFails(h) \/ CommitUnknown(h)
       PROVE  ShowInv'
  BY <1>1, <1>3, <1>11 DEF CheckNew, BeginDelete, Insert, TxFails, CommitUnknown, At, wire, Saving
<1>12. ASSUME NEW i \in Instances, FanTags(i) PROVE ShowInv'
  BY <1>12, FanShows
<1>13. ASSUME NEW i \in Instances, Relisten(i) PROVE ShowInv'
  BY <1>3, <1>13 DEF Relisten, tx
<1>14. ASSUME NEW i \in Instances, Forward(i) \/ FanRow(i) \/ FanFails(i) \/ ListenLost(i)
       PROVE  ShowInv'
  <2>1. QueuesOnce' /\ Quieter
    BY <1>1, <1>14, ForwardQueues, FanQueues, LossQueues
  <2> QED BY <1>2, <1>14, <2>1 DEF Forward, FanRow, FanFails, ListenLost, tx
<1>15. ASSUME NEW i \in Instances, Crash(i) PROVE ShowInv'
  <2>1. QueuesOnce' /\ Quieter
    BY <1>1, <1>15, LossQueues
  <2> QED BY <1>2, <1>15, <2>1 DEF Crash, Saving
<1> QED BY <1>4, <1>5, <1>6, <1>7, <1>8, <1>9, <1>10, <1>11, <1>12, <1>13, <1>14, <1>15
        DEF Next, HandlerStep, ListenStep, FanStep

\* However often an event is published, imported and notified, and whatever
\* fails meanwhile, each process shows it at most once, and only after some
\* transaction stored it.
THEOREM EachProcessShowsOnce == Spec => []ShownOnceStored
<1>1. Init => ShowInv
  BY StoreAssumption
     DEF Init, ShowInv, OneSaver, NotifyFirst, HooksFirst, NotesOnce, ChannelOnce, Apart,
         AnnouncedKept, ShownOnceStored, Announced, Pending, Channel, Storable, Saving
<1>2. ShowInv => ShownOnceStored
  BY DEF ShowInv
<1> QED BY <1>1, <1>2, NextShow, TxCorrect, StoreTypeCorrect, PTL DEF Spec

=============================================================================
