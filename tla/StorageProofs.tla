--------------------------- MODULE StorageProofs ---------------------------
(***************************************************************************)
(* Proofs about two parts of the storage.  WriterQueue, for every finite   *)
(* set of writers and every queue capacity.  Start-up and the migration    *)
(* job (SchemaUpgrade, MigrateCopy), for every set of events, legacy rows  *)
(* and targets, and any number of crashes and jobs: no row of an older     *)
(* release is lost, a copy that reports success is complete and takes      *)
(* nothing back, and a store that is opened can be used.                   *)
(***************************************************************************)
EXTENDS WriterQueue, MigrateCopy, WellFoundedInduction, TLAPS

--------------------------------------------------------------------------
(* The SQLite writer. *)

\* A task is queued once, or executed, or neither; it can be answered as long
\* as it is queued, and nobody knows it before its caller has enqueued it.
PlacesAgree ==
    /\ \A i \in 1 .. Len(writes) :
          /\ caller[writes[i]] \in {"wait", "returned"}
          /\ done[writes[i]] = "none"
          /\ writes[i] # cur
    /\ \A i, j \in 1 .. Len(writes) : i # j => writes[i] # writes[j]
    /\ \A t \in Tasks : caller[t] \in {"idle", "enqueue"} => done[t] = "none" /\ t # cur

\* What the writer remembers of its task at each of its stages.
StagesAgree ==
    /\ cur = NoTask <=> stage \in {"loop", "drain", "exited"}
    /\ cur = NoTask => ~notified /\ attempt = 0
    /\ stage \in {"taken", "checked", "ping"} => attempt = 0
    /\ stage = "once" => attempt <= 1 /\ handle = "open"
    /\ stage \in {"reconnect", "reopen"} =>
          \/ reason = "ping" /\ attempt = 0
          \/ reason = "retry" /\ attempt = 1
          \/ reason = "timeout"
    /\ notified =>
          \/ stage = "await"
          \/ stage \in {"reconnect", "reopen"} /\ reason = "timeout"
    /\ stage = "await" => notified
    /\ stage \in {"reconnect", "reopen"} /\ reason = "timeout" => notified
    /\ cur # NoTask /\ ~notified => done[cur] = "none"

\* A native call belongs to the task the writer waits for, on an open handle.
CallsAgree ==
    /\ calls \subseteq {cur}
    /\ NoTask \notin calls
    /\ calls # {} => stage \in {"call", "await"}
    /\ stage \in {"call", "await"} => handle = "open"
    /\ \A t \in Tasks : returned[t] # "none" => t = cur /\ stage \in {"call", "await"} /\ calls = {}

\* Every report of success, on its way to the caller, follows a commit.
ReportsAgree ==
    \A t \in Tasks : "ok" \in {returned[t], done[t], result[t]} => t \in committed

\* The writer stops because of Close, and Close ends when it has stopped.
ClosingAgrees ==
    /\ stage \in {"drain", "exited"} => closing \in {"cancelled", "closed"}
    /\ closing = "closed" => stage = "exited"

WriterInv == TypeOK /\ PlacesAgree /\ StagesAgree /\ CallsAgree /\ ReportsAgree /\ ClosingAgrees
-----------------------------------------------------------------------------
(* One lemma per part of the invariant; one step per action. *)

\* What the end of a task leaves behind is well typed.
LEMMA FinishTypes ==
  ASSUME TypeOK, cur \in Tasks, NEW e \in Results, Finish(e)
  PROVE  /\ done' \in [Tasks -> Results \cup {"none"}]
         /\ stage' = "loop" /\ cur' = NoTask /\ attempt' \in 0 .. 2
         /\ notified' \in BOOLEAN /\ linked' \in BOOLEAN /\ reason' = "none"
  <1>1. done' \in [Tasks -> Results \cup {"none"}]
    BY DEF Finish, Notify, TypeOK
  <1>2. 0 \in 0 .. 2
    OBVIOUS
  <1> QED BY <1>1, <1>2 DEF Finish

\* Every action keeps the types.
LEMMA TypeStep ==
  ASSUME WriterInv, WriterNext
  PROVE  TypeOK'
  <1> USE WriterAssumption DEF WriterInv, TypeOK, Results, Outcomes, StagesAgree, callers, task, native
  <1>1. ASSUME NEW t \in Tasks, Caller(t) \/ CancelCaller(t) \/ CallReturns(t) PROVE TypeOK'
    <2>1. CASE RunWrite(t)
      <3>1. CASE caller' = [caller EXCEPT ![t] = "enqueue"] /\ UNCHANGED result
        BY <2>1, <3>1 DEF RunWrite
      <3>2. CASE \E e \in Results : Return(t, e)
        BY <2>1, <3>2 DEF RunWrite, Return
      <3> QED BY <2>1, <3>1, <3>2 DEF RunWrite
    <2>2. CASE Enqueue(t)
      BY <2>2 DEF Enqueue
    <2>3. CASE Answered(t)
      BY <2>3 DEF Answered, Return
    <2>4. CASE GivesUp(t)
      BY <2>4 DEF GivesUp, Return
    <2>5. CASE SeesClose(t)
      BY <2>5 DEF SeesClose, Return, baseDone
    <2>6. CASE CancelCaller(t)
      BY <2>6 DEF CancelCaller
    <2>7. CASE CallReturns(t)
      BY <2>7 DEF CallReturns, Outcomes
    <2> QED BY <1>1, <2>1, <2>2, <2>3, <2>4, <2>5, <2>6, <2>7 DEF Caller
  <1>2. CASE Take
    BY <1>2 DEF Take
  <1>3. CASE AfterFunc
    BY <1>3 DEF AfterFunc, baseDone
  <1>4. CASE CheckBase
    BY <1>4 DEF CheckBase, Finish, Goto, Notify, baseDone
  <1>5. CASE CheckCtx
    BY <1>5 DEF CheckCtx, Finish, Goto, Notify, TaskCtxDone
  <1>6. CASE PingOK
    BY <1>6 DEF PingOK, Goto
  <1>7. CASE PingFails
    BY <1>7 DEF PingFails, Finish, Notify, Reconnect, TaskCtxDone
  <1>8. CASE ReconnectCloses
    BY <1>8 DEF ReconnectCloses, Goto
  <1>9. CASE Reopened
    <2>1. CASE reason = "timeout"
      BY <1>9, <2>1, FinishTypes DEF Reopened
    <2>2. CASE reason # "timeout"
      BY <1>9, <2>2 DEF Reopened
    <2> QED BY <2>1, <2>2
  <1>10. CASE ReopenFails
    BY <1>10, FinishTypes DEF ReopenFails
  <1>11. CASE RunTaskOnce
    BY <1>11 DEF RunTaskOnce, TaskCtxDone
  <1>12. CASE RunTaskRefused
    BY <1>12, FinishTypes DEF RunTaskRefused
  <1>13. CASE Interrupt
    BY <1>13 DEF Interrupt, Notify, TaskCtxDone
  <1>14. CASE CallDone
    <2>1. returned' \in [Tasks -> Outcomes \cup {"none"}]
      BY <1>14 DEF CallDone, ReadReturned
    <2>2. (IF returned[cur] = "io" THEN "failed" ELSE returned[cur]) \in Results
      BY <1>14 DEF CallDone
    <2>3. CASE returned[cur] = "io" /\ attempt = 1 /\ ~TaskCtxDone
      BY <1>14, <2>1, <2>3 DEF CallDone, Reconnect
    <2>4. CASE ~(returned[cur] = "io" /\ attempt = 1 /\ ~TaskCtxDone)
      BY <1>14, <2>1, <2>2, <2>4, FinishTypes DEF CallDone
    <2> QED BY <2>3, <2>4
  <1>15. CASE AwaitDone
    <2>1. returned' \in [Tasks -> Outcomes \cup {"none"}]
      BY <1>15 DEF AwaitDone, ReadReturned
    <2>2. CASE TaskCtxDone
      BY <1>15, <2>1, <2>2, FinishTypes DEF AwaitDone
    <2>3. CASE ~TaskCtxDone
      BY <1>15, <2>1, <2>3 DEF AwaitDone, Reconnect
    <2> QED BY <2>2, <2>3
  <1>16. CASE CloseBegins
    BY <1>16 DEF CloseBegins
  <1>17. CASE CloseCancels
    BY <1>17 DEF CloseCancels
  <1>18. CASE LoopSeesClose
    BY <1>18 DEF LoopSeesClose, Goto, baseDone
  <1>19. CASE DrainOne
    BY <1>19 DEF DrainOne, Notify
  <1>20. CASE DrainEnds
    BY <1>20 DEF DrainEnds, Goto
  <1>21. CASE CloseEnds
    BY <1>21 DEF CloseEnds
  <1> QED BY <1>1, <1>2, <1>3, <1>4, <1>5, <1>6, <1>7, <1>8, <1>9, <1>10, <1>11, <1>12, <1>13, <1>14, <1>15, <1>16, <1>17, <1>18, <1>19, <1>20, <1>21 DEF WriterNext, Writer, Execute, Closer

\* Every action keeps a task in one place.
LEMMA PlacesStep ==
  ASSUME WriterInv, WriterNext
  PROVE  PlacesAgree'
  <1> USE WriterAssumption DEF WriterInv, TypeOK, PlacesAgree, StagesAgree, callers, task, native
  <1>1. ASSUME NEW t \in Tasks, Caller(t) \/ CancelCaller(t) \/ CallReturns(t) PROVE PlacesAgree'
    <2>1. CASE RunWrite(t)
      BY <2>1 DEF RunWrite, Return, shutdown
    <2>2. CASE Enqueue(t)
      BY <2>2 DEF Enqueue
    <2>3. CASE Answered(t)
      BY <2>3 DEF Answered, Return
    <2>4. CASE GivesUp(t)
      BY <2>4 DEF GivesUp, Return
    <2>5. CASE SeesClose(t)
      BY <2>5 DEF SeesClose, Return, baseDone
    <2>6. CASE CancelCaller(t)
      BY <2>6 DEF CancelCaller
    <2>7. CASE CallReturns(t)
      BY <2>7 DEF CallReturns, Outcomes
    <2> QED BY <1>1, <2>1, <2>2, <2>3, <2>4, <2>5, <2>6, <2>7 DEF Caller
  <1>2. CASE Take
    BY <1>2 DEF Take
  <1>3. CASE AfterFunc
    BY <1>3 DEF AfterFunc, baseDone
  <1>4. CASE CheckBase
    BY <1>4 DEF CheckBase, Finish, Goto, Notify, baseDone
  <1>5. CASE CheckCtx
    BY <1>5 DEF CheckCtx, Finish, Goto, Notify, TaskCtxDone
  <1>6. CASE PingOK
    BY <1>6 DEF PingOK, Goto
  <1>7. CASE PingFails
    BY <1>7 DEF PingFails, Finish, Notify, Reconnect, TaskCtxDone
  <1>8. CASE ReconnectCloses
    BY <1>8 DEF ReconnectCloses, Goto
  <1>9. CASE Reopened
    BY <1>9 DEF Reopened, Finish, Notify
  <1>10. CASE ReopenFails
    BY <1>10 DEF ReopenFails, Finish, Notify
  <1>11. CASE RunTaskOnce
    BY <1>11 DEF RunTaskOnce, TaskCtxDone
  <1>12. CASE RunTaskRefused
    BY <1>12 DEF RunTaskRefused, Finish, Notify, TaskCtxDone
  <1>13. CASE Interrupt
    BY <1>13 DEF Interrupt, Notify, TaskCtxDone
  <1>14. CASE CallDone
    BY <1>14 DEF CallDone, Finish, Notify, Reconnect, ReadReturned, TaskCtxDone
  <1>15. CASE AwaitDone
    <2>1. CASE TaskCtxDone
      BY <1>15, <2>1 DEF AwaitDone, Finish
    <2>2. CASE ~TaskCtxDone
      BY <1>15, <2>2 DEF AwaitDone, Reconnect
    <2> QED BY <2>1, <2>2
  <1>16. CASE CloseBegins
    BY <1>16 DEF CloseBegins
  <1>17. CASE CloseCancels
    BY <1>17 DEF CloseCancels
  <1>18. CASE LoopSeesClose
    BY <1>18 DEF LoopSeesClose, Goto, baseDone
  <1>19. CASE DrainOne
    BY <1>19 DEF DrainOne, Notify
  <1>20. CASE DrainEnds
    BY <1>20 DEF DrainEnds, Goto
  <1>21. CASE CloseEnds
    BY <1>21 DEF CloseEnds
  <1> QED BY <1>1, <1>2, <1>3, <1>4, <1>5, <1>6, <1>7, <1>8, <1>9, <1>10, <1>11, <1>12, <1>13, <1>14, <1>15, <1>16, <1>17, <1>18, <1>19, <1>20, <1>21 DEF WriterNext, Writer, Execute, Closer

\* Every action keeps what the writer remembers of its task.
LEMMA StagesStep ==
  ASSUME WriterInv, WriterNext
  PROVE  StagesAgree'
  <1> USE WriterAssumption DEF WriterInv, TypeOK, PlacesAgree, StagesAgree, CallsAgree, callers, task, native
  <1>1. ASSUME NEW t \in Tasks, Caller(t) \/ CancelCaller(t) \/ CallReturns(t) PROVE StagesAgree'
    <2>1. CASE RunWrite(t)
      BY <2>1 DEF RunWrite, Return, shutdown
    <2>2. CASE Enqueue(t)
      BY <2>2 DEF Enqueue
    <2>3. CASE Answered(t)
      BY <2>3 DEF Answered, Return
    <2>4. CASE GivesUp(t)
      BY <2>4 DEF GivesUp, Return
    <2>5. CASE SeesClose(t)
      BY <2>5 DEF SeesClose, Return, baseDone
    <2>6. CASE CancelCaller(t)
      BY <2>6 DEF CancelCaller
    <2>7. CASE CallReturns(t)
      BY <2>7 DEF CallReturns, Outcomes
    <2> QED BY <1>1, <2>1, <2>2, <2>3, <2>4, <2>5, <2>6, <2>7 DEF Caller
  <1>2. CASE Take
    BY <1>2 DEF Take
  <1>3. CASE AfterFunc
    BY <1>3 DEF AfterFunc, baseDone
  <1>4. CASE CheckBase
    BY <1>4 DEF CheckBase, Finish, Goto, Notify, baseDone
  <1>5. CASE CheckCtx
    BY <1>5 DEF CheckCtx, Finish, Goto, Notify, TaskCtxDone
  <1>6. CASE PingOK
    BY <1>6 DEF PingOK, Goto
  <1>7. CASE PingFails
    BY <1>7 DEF PingFails, Finish, Notify, Reconnect, TaskCtxDone
  <1>8. CASE ReconnectCloses
    BY <1>8 DEF ReconnectCloses, Goto
  <1>9. CASE Reopened
    BY <1>9 DEF Reopened, Finish, Notify
  <1>10. CASE ReopenFails
    BY <1>10 DEF ReopenFails, Finish, Notify
  <1>11. CASE RunTaskOnce
    BY <1>11 DEF RunTaskOnce, TaskCtxDone
  <1>12. CASE RunTaskRefused
    BY <1>12 DEF RunTaskRefused, Finish, Notify, TaskCtxDone
  <1>13. CASE Interrupt
    BY <1>13 DEF Interrupt, Notify, TaskCtxDone
  <1>14. CASE CallDone
    BY <1>14 DEF CallDone, Finish, Notify, Reconnect, ReadReturned, TaskCtxDone
  <1>15. CASE AwaitDone
    BY <1>15 DEF AwaitDone, Finish, Notify, Reconnect, ReadReturned, TaskCtxDone
  <1>16. CASE CloseBegins
    BY <1>16 DEF CloseBegins
  <1>17. CASE CloseCancels
    BY <1>17 DEF CloseCancels
  <1>18. CASE LoopSeesClose
    BY <1>18 DEF LoopSeesClose, Goto, baseDone
  <1>19. CASE DrainOne
    BY <1>19 DEF DrainOne, Notify
  <1>20. CASE DrainEnds
    BY <1>20 DEF DrainEnds, Goto
  <1>21. CASE CloseEnds
    BY <1>21 DEF CloseEnds
  <1> QED BY <1>1, <1>2, <1>3, <1>4, <1>5, <1>6, <1>7, <1>8, <1>9, <1>10, <1>11, <1>12, <1>13, <1>14, <1>15, <1>16, <1>17, <1>18, <1>19, <1>20, <1>21 DEF WriterNext, Writer, Execute, Closer

\* Every action keeps native calls with the writer.
LEMMA CallsStep ==
  ASSUME WriterInv, WriterNext
  PROVE  CallsAgree'
  <1> USE WriterAssumption DEF WriterInv, TypeOK, StagesAgree, CallsAgree, ClosingAgrees, callers, task, native
  <1>1. ASSUME NEW t \in Tasks, Caller(t) \/ CancelCaller(t) \/ CallReturns(t) PROVE CallsAgree'
    <2>1. CASE RunWrite(t)
      BY <2>1 DEF RunWrite, Return, shutdown
    <2>2. CASE Enqueue(t)
      BY <2>2 DEF Enqueue
    <2>3. CASE Answered(t)
      BY <2>3 DEF Answered, Return
    <2>4. CASE GivesUp(t)
      BY <2>4 DEF GivesUp, Return
    <2>5. CASE SeesClose(t)
      BY <2>5 DEF SeesClose, Return, baseDone
    <2>6. CASE CancelCaller(t)
      BY <2>6 DEF CancelCaller
    <2>7. CASE CallReturns(t)
      BY <2>7 DEF CallReturns, Outcomes
    <2> QED BY <1>1, <2>1, <2>2, <2>3, <2>4, <2>5, <2>6, <2>7 DEF Caller
  <1>2. CASE Take
    BY <1>2 DEF Take
  <1>3. CASE AfterFunc
    BY <1>3 DEF AfterFunc, baseDone
  <1>4. CASE CheckBase
    BY <1>4 DEF CheckBase, Finish, Goto, Notify, baseDone
  <1>5. CASE CheckCtx
    BY <1>5 DEF CheckCtx, Finish, Goto, Notify, TaskCtxDone
  <1>6. CASE PingOK
    BY <1>6 DEF PingOK, Goto
  <1>7. CASE PingFails
    BY <1>7 DEF PingFails, Finish, Notify, Reconnect, TaskCtxDone
  <1>8. CASE ReconnectCloses
    BY <1>8 DEF ReconnectCloses, Goto
  <1>9. CASE Reopened
    BY <1>9 DEF Reopened, Finish, Notify
  <1>10. CASE ReopenFails
    BY <1>10 DEF ReopenFails, Finish, Notify
  <1>11. CASE RunTaskOnce
    BY <1>11 DEF RunTaskOnce, TaskCtxDone
  <1>12. CASE RunTaskRefused
    BY <1>12 DEF RunTaskRefused, Finish, Notify, TaskCtxDone
  <1>13. CASE Interrupt
    BY <1>13 DEF Interrupt, Notify, TaskCtxDone
  <1>14. CASE CallDone
    BY <1>14 DEF CallDone, Finish, Notify, Reconnect, ReadReturned, TaskCtxDone
  <1>15. CASE AwaitDone
    BY <1>15 DEF AwaitDone, Finish, Notify, Reconnect, ReadReturned, TaskCtxDone
  <1>16. CASE CloseBegins
    BY <1>16 DEF CloseBegins
  <1>17. CASE CloseCancels
    BY <1>17 DEF CloseCancels
  <1>18. CASE LoopSeesClose
    BY <1>18 DEF LoopSeesClose, Goto, baseDone
  <1>19. CASE DrainOne
    BY <1>19 DEF DrainOne, Notify
  <1>20. CASE DrainEnds
    BY <1>20 DEF DrainEnds, Goto
  <1>21. CASE CloseEnds
    BY <1>21 DEF CloseEnds
  <1> QED BY <1>1, <1>2, <1>3, <1>4, <1>5, <1>6, <1>7, <1>8, <1>9, <1>10, <1>11, <1>12, <1>13, <1>14, <1>15, <1>16, <1>17, <1>18, <1>19, <1>20, <1>21 DEF WriterNext, Writer, Execute, Closer

\* Every action keeps reports of success true.
LEMMA ReportsStep ==
  ASSUME WriterInv, WriterNext
  PROVE  ReportsAgree'
  <1> USE WriterAssumption DEF WriterInv, TypeOK, Outcomes, StagesAgree, ReportsAgree, callers, task, native
  <1>1. ASSUME NEW t \in Tasks, Caller(t) \/ CancelCaller(t) \/ CallReturns(t) PROVE ReportsAgree'
    <2>1. CASE RunWrite(t)
      BY <2>1 DEF RunWrite, Return, shutdown
    <2>2. CASE Enqueue(t)
      BY <2>2 DEF Enqueue
    <2>3. CASE Answered(t)
      BY <2>3 DEF Answered, Return
    <2>4. CASE GivesUp(t)
      BY <2>4 DEF GivesUp, Return
    <2>5. CASE SeesClose(t)
      BY <2>5 DEF SeesClose, Return, baseDone
    <2>6. CASE CancelCaller(t)
      BY <2>6 DEF CancelCaller
    <2>7. CASE CallReturns(t)
      BY <2>7 DEF CallReturns, Outcomes
    <2> QED BY <1>1, <2>1, <2>2, <2>3, <2>4, <2>5, <2>6, <2>7 DEF Caller
  <1>2. CASE Take
    BY <1>2 DEF Take
  <1>3. CASE AfterFunc
    BY <1>3 DEF AfterFunc, baseDone
  <1>4. CASE CheckBase
    BY <1>4 DEF CheckBase, Finish, Goto, Notify, baseDone
  <1>5. CASE CheckCtx
    BY <1>5 DEF CheckCtx, Finish, Goto, Notify, TaskCtxDone
  <1>6. CASE PingOK
    BY <1>6 DEF PingOK, Goto
  <1>7. CASE PingFails
    BY <1>7 DEF PingFails, Finish, Notify, Reconnect, TaskCtxDone
  <1>8. CASE ReconnectCloses
    BY <1>8 DEF ReconnectCloses, Goto
  <1>9. CASE Reopened
    BY <1>9 DEF Reopened, Finish, Notify
  <1>10. CASE ReopenFails
    BY <1>10 DEF ReopenFails, Finish, Notify
  <1>11. CASE RunTaskOnce
    BY <1>11 DEF RunTaskOnce, TaskCtxDone
  <1>12. CASE RunTaskRefused
    BY <1>12 DEF RunTaskRefused, Finish, Notify, TaskCtxDone
  <1>13. CASE Interrupt
    BY <1>13 DEF Interrupt, Notify, TaskCtxDone
  <1>14. CASE CallDone
    BY <1>14 DEF CallDone, Finish, Notify, Reconnect, ReadReturned, TaskCtxDone
  <1>15. CASE AwaitDone
    BY <1>15 DEF AwaitDone, Finish, Notify, Reconnect, ReadReturned, TaskCtxDone
  <1>16. CASE CloseBegins
    BY <1>16 DEF CloseBegins
  <1>17. CASE CloseCancels
    BY <1>17 DEF CloseCancels
  <1>18. CASE LoopSeesClose
    BY <1>18 DEF LoopSeesClose, Goto, baseDone
  <1>19. CASE DrainOne
    BY <1>19 DEF DrainOne, Notify
  <1>20. CASE DrainEnds
    BY <1>20 DEF DrainEnds, Goto
  <1>21. CASE CloseEnds
    BY <1>21 DEF CloseEnds
  <1> QED BY <1>1, <1>2, <1>3, <1>4, <1>5, <1>6, <1>7, <1>8, <1>9, <1>10, <1>11, <1>12, <1>13, <1>14, <1>15, <1>16, <1>17, <1>18, <1>19, <1>20, <1>21 DEF WriterNext, Writer, Execute, Closer

\* Every action keeps the writer and Close in step.
LEMMA ClosingStep ==
  ASSUME WriterInv, WriterNext
  PROVE  ClosingAgrees'
  <1> USE WriterAssumption DEF WriterInv, TypeOK, StagesAgree, ClosingAgrees, callers, task, native
  <1>1. ASSUME NEW t \in Tasks, Caller(t) \/ CancelCaller(t) \/ CallReturns(t) PROVE ClosingAgrees'
    <2>1. CASE RunWrite(t)
      BY <2>1 DEF RunWrite, Return, shutdown
    <2>2. CASE Enqueue(t)
      BY <2>2 DEF Enqueue
    <2>3. CASE Answered(t)
      BY <2>3 DEF Answered, Return
    <2>4. CASE GivesUp(t)
      BY <2>4 DEF GivesUp, Return
    <2>5. CASE SeesClose(t)
      BY <2>5 DEF SeesClose, Return, baseDone
    <2>6. CASE CancelCaller(t)
      BY <2>6 DEF CancelCaller
    <2>7. CASE CallReturns(t)
      BY <2>7 DEF CallReturns, Outcomes
    <2> QED BY <1>1, <2>1, <2>2, <2>3, <2>4, <2>5, <2>6, <2>7 DEF Caller
  <1>2. CASE Take
    BY <1>2 DEF Take
  <1>3. CASE AfterFunc
    BY <1>3 DEF AfterFunc, baseDone
  <1>4. CASE CheckBase
    BY <1>4 DEF CheckBase, Finish, Goto, Notify, baseDone
  <1>5. CASE CheckCtx
    BY <1>5 DEF CheckCtx, Finish, Goto, Notify, TaskCtxDone
  <1>6. CASE PingOK
    BY <1>6 DEF PingOK, Goto
  <1>7. CASE PingFails
    BY <1>7 DEF PingFails, Finish, Notify, Reconnect, TaskCtxDone
  <1>8. CASE ReconnectCloses
    BY <1>8 DEF ReconnectCloses, Goto
  <1>9. CASE Reopened
    BY <1>9 DEF Reopened, Finish, Notify
  <1>10. CASE ReopenFails
    BY <1>10 DEF ReopenFails, Finish, Notify
  <1>11. CASE RunTaskOnce
    BY <1>11 DEF RunTaskOnce, TaskCtxDone
  <1>12. CASE RunTaskRefused
    BY <1>12 DEF RunTaskRefused, Finish, Notify, TaskCtxDone
  <1>13. CASE Interrupt
    BY <1>13 DEF Interrupt, Notify, TaskCtxDone
  <1>14. CASE CallDone
    BY <1>14 DEF CallDone, Finish, Notify, Reconnect, ReadReturned, TaskCtxDone
  <1>15. CASE AwaitDone
    BY <1>15 DEF AwaitDone, Finish, Notify, Reconnect, ReadReturned, TaskCtxDone
  <1>16. CASE CloseBegins
    BY <1>16 DEF CloseBegins
  <1>17. CASE CloseCancels
    BY <1>17 DEF CloseCancels
  <1>18. CASE LoopSeesClose
    BY <1>18 DEF LoopSeesClose, Goto, baseDone
  <1>19. CASE DrainOne
    BY <1>19 DEF DrainOne, Notify
  <1>20. CASE DrainEnds
    BY <1>20 DEF DrainEnds, Goto
  <1>21. CASE CloseEnds
    BY <1>21 DEF CloseEnds
  <1> QED BY <1>1, <1>2, <1>3, <1>4, <1>5, <1>6, <1>7, <1>8, <1>9, <1>10, <1>11, <1>12, <1>13, <1>14, <1>15, <1>16, <1>17, <1>18, <1>19, <1>20, <1>21 DEF WriterNext, Writer, Execute, Closer

-----------------------------------------------------------------------------
(* Theorems. *)

\* The parts together are an inductive invariant.
LEMMA WriterInvHolds == WriterSpec => []WriterInv
  <1>1. ASSUME WriterInit PROVE WriterInv
    <2>1. Len(writes) = 0 /\ writes \in Seq(Tasks) /\ 0 <= QueueCap
      BY <1>1, WriterAssumption DEF WriterInit
    <2>2. 0 \in 0 .. 2 /\ 1 .. 0 = {}
      OBVIOUS
    <2>3. TypeOK
      BY <1>1, <2>1, <2>2 DEF WriterInit, TypeOK
    <2>4. PlacesAgree
      BY <1>1, <2>1, <2>2, WriterAssumption DEF WriterInit, PlacesAgree
    <2>5. StagesAgree /\ ClosingAgrees
      BY <1>1 DEF WriterInit, StagesAgree, ClosingAgrees
    <2>6. CallsAgree /\ ReportsAgree
      BY <1>1 DEF WriterInit, CallsAgree, ReportsAgree
    <2> QED BY <2>3, <2>4, <2>5, <2>6 DEF WriterInv
  <1>2. ASSUME WriterInv, [WriterNext]_writerVars PROVE WriterInv'
    <2>1. CASE WriterNext
      BY <1>2, <2>1, TypeStep, PlacesStep, StagesStep, CallsStep, ReportsStep, ClosingStep
      DEF WriterInv
    <2>2. CASE UNCHANGED writerVars
      BY <1>2, <2>2 DEF WriterInv, TypeOK, PlacesAgree, StagesAgree, CallsAgree,
         ReportsAgree, ClosingAgrees, writerVars, callers, task, native
    <2> QED BY <1>2, <2>1, <2>2
  <1> QED BY <1>1, <1>2, PTL DEF WriterSpec

\* Types, and the bound of the queue, for every capacity.
THEOREM WriterTypeCorrect == WriterSpec => []TypeOK
  <1>1. WriterInv => TypeOK
    BY DEF WriterInv
  <1> QED BY <1>1, WriterInvHolds, PTL

\* The queue is a single writer: no two native calls overlap, whatever times
\* out, is cancelled or retried.
THEOREM OneWriter == WriterSpec => []OneCallAtATime
  <1>1. WriterInv => OneCallAtATime
    BY DEF WriterInv, CallsAgree, OneCallAtATime
  <1> QED BY <1>1, WriterInvHolds, PTL

\* No reconnect and no Close takes the handles from a running native call.
THEOREM HandleIsHeld == WriterSpec => []HandleHeld
  <1>1. WriterInv => HandleHeld
    BY DEF WriterInv, CallsAgree, HandleHeld
  <1> QED BY <1>1, WriterInvHolds, PTL

\* RunWrite reports success only of committed writes.
THEOREM SuccessIsCommitted == WriterSpec => []SuccessIsReal
  <1>1. WriterInv => SuccessIsReal
    BY DEF WriterInv, ReportsAgree, SuccessIsReal
  <1> QED BY <1>1, WriterInvHolds, PTL

\* The writer goroutine never blocks on an answer.
THEOREM AnswersFit == WriterSpec => []AnswerFits
  <1>1. WriterInv => AnswerFits
    BY DEF WriterInv, PlacesAgree, StagesAgree, AnswerFits
  <1> QED BY <1>1, WriterInvHolds, PTL

\* When Close has returned, no native call runs and the writer has ended.
THEOREM ClosedForGood == WriterSpec => []CloseIsFinal
  <1>1. WriterInv => CloseIsFinal
    BY DEF WriterInv, CallsAgree, ClosingAgrees, CloseIsFinal
  <1> QED BY <1>1, WriterInvHolds, PTL

\* Native calls run one at a time, keep their handle and are over when Close
\* has returned (runTaskOnce, reconnect, Close).
THEOREM NativeCallsAreSafe == WriterSpec => []NativeCallsSafe
  BY OneWriter, HandleIsHeld, ClosedForGood, PTL DEF NativeCallsSafe

\* RunWrite reports success only for a committed write, and the writer never
\* blocks on an answer.
THEOREM AnswersAreHonest == WriterSpec => []AnswersHonest
  BY SuccessIsCommitted, AnswersFit, PTL DEF AnswersHonest

-----------------------------------------------------------------------------
(* Tasks that are doomed in the queue. *)

Queued(t) == \E i \in 1 .. Len(writes) : writes[i] = t

\* A task that will not be run any more: one of the two checks before the first
\* ping stops it, or nobody will execute it.
Barred(t) ==
    /\ caller[t] \in {"wait", "returned"} /\ t \notin calls
    /\ Queued(t) => t \in ctxDone \/ baseDone
    /\ cur = t => \/ stage = "taken" /\ (t \in ctxDone \/ baseDone)
                  \/ stage = "checked" /\ t \in ctxDone

\* A task that is doomed while it is queued is barred.
LEMMA DoomedIsBarred ==
  ASSUME WriterInv, NEW t \in Tasks, Doomed(t)
  PROVE  Barred(t)
  BY DEF WriterInv, PlacesAgree, CallsAgree, Doomed, Barred, Queued

\* Contexts stay done, and a task is enqueued once.
LEMMA BarredStays ==
  ASSUME WriterInv, NEW t \in Tasks, Barred(t), [WriterNext]_writerVars
  PROVE  Barred(t)'
  <1> USE DEF callers, task, native
  <1>0. /\ TypeOK /\ cur # NoTask <=> stage \notin {"loop", "drain", "exited"}
        /\ t # NoTask /\ writes \in Seq(Tasks)
    BY WriterAssumption DEF WriterInv, TypeOK, StagesAgree
  <1>a. caller \in [Tasks -> {"idle", "enqueue", "wait", "returned"}]
    BY DEF WriterInv, TypeOK
  <1>1. ASSUME t \in ctxDone => t \in ctxDone', baseDone => baseDone',
               caller'[t] = caller[t] \/ caller'[t] = "returned",
               t \notin calls', Queued(t)' => Queued(t),
               \/ cur' # t
               \/ cur' = cur /\ stage' = stage
        PROVE  Barred(t)'
    BY <1>0, <1>1 DEF Barred
  <1>2. ASSUME NEW u \in Tasks, Caller(u) \/ CancelCaller(u) \/ CallReturns(u) PROVE Barred(t)'
    <2>1. CASE Enqueue(u)
      <3>1. u # t
        BY <2>1 DEF Enqueue, Barred
      <3>2. Queued(t)' => Queued(t)
        BY <1>0, <2>1, <3>1 DEF Enqueue, Queued
      <3> QED BY <1>0, <1>1, <2>1, <3>1, <3>2 DEF Enqueue, Barred, TypeOK, baseDone
    <2>2. CASE RunWrite(u)
      <3>1. u # t
        BY <2>2 DEF RunWrite, Barred
      <3>2. caller'[t] = caller[t] /\ UNCHANGED <<ctxDone, writes, calls, cur, stage, closing>>
        <4>1. caller' = caller \/ \E v : caller' = [caller EXCEPT ![u] = v]
          BY <2>2 DEF RunWrite, Return
        <4>2. caller'[t] = caller[t]
          BY <1>a, <3>1, <4>1
        <4> QED BY <2>2, <4>2 DEF RunWrite
      <3> QED BY <3>2 DEF Barred, baseDone, Queued
    <2>3. CASE Answered(u) \/ GivesUp(u) \/ SeesClose(u)
      <3>1. /\ caller'[t] = caller[t] \/ caller'[t] = "returned"
            /\ UNCHANGED <<ctxDone, writes, calls, cur, stage, closing>>
        <4>1. caller' = [caller EXCEPT ![u] = "returned"]
          BY <2>3 DEF Answered, GivesUp, SeesClose, Return
        <4>2. caller'[t] = caller[t] \/ caller'[t] = "returned"
          BY <1>a, <4>1
        <4> QED BY <2>3, <4>2 DEF Answered, GivesUp, SeesClose
      <3> QED BY <3>1 DEF Barred, baseDone, Queued
    <2>4. CASE CancelCaller(u) \/ CallReturns(u)
      BY <1>0, <1>1, <2>4 DEF CancelCaller, CallReturns, Barred, TypeOK, baseDone, Queued
    <2> QED BY <1>2, <2>1, <2>2, <2>3, <2>4 DEF Caller
  <1>3. CASE Take
    <2>1. /\ writes # <<>> /\ cur' = Head(writes) /\ stage' = "taken" /\ writes' = Tail(writes)
          /\ UNCHANGED <<caller, ctxDone, calls, closing>>
      BY <1>3 DEF Take
    <2>2. Queued(t)' => Queued(t)
      BY <1>0, <2>1 DEF Queued
    <2>3. cur' = t => Queued(t)
      BY <1>0, <2>1 DEF Queued
    <2> QED BY <2>1, <2>2, <2>3 DEF Barred, baseDone
  <1>4. CASE CheckBase
    <2>1. stage = "taken" /\ UNCHANGED <<caller, ctxDone, writes, calls, closing>>
      BY <1>4 DEF CheckBase
    <2>2. \/ cur' = NoTask
          \/ ~baseDone /\ cur' = cur /\ stage' = "checked"
      BY <1>4 DEF CheckBase, Finish, Goto
    <2> QED BY <1>0, <2>1, <2>2 DEF Barred, baseDone, Queued
  <1>5. CASE CheckCtx
    <2>1. stage = "checked" /\ UNCHANGED <<caller, ctxDone, writes, calls, closing>>
      BY <1>5 DEF CheckCtx
    <2>2. \/ cur' = NoTask
          \/ cur \notin ctxDone /\ cur' = cur
      BY <1>5 DEF CheckCtx, Finish, Goto, TaskCtxDone
    <2> QED BY <1>0, <1>1, <2>1, <2>2 DEF Barred, baseDone, Queued
  <1>6. CASE PingOK \/ PingFails \/ ReconnectCloses \/ Reopened \/ ReopenFails \/ RunTaskRefused
             \/ Interrupt \/ CallDone \/ AwaitDone \/ RunTaskOnce
    <2>1. /\ stage \notin {"taken", "checked"} /\ cur' \in {cur, NoTask}
          /\ UNCHANGED <<caller, ctxDone, writes, closing>> /\ calls' \subseteq calls \cup {cur}
      BY <1>6 DEF PingOK, PingFails, ReconnectCloses, Reopened, ReopenFails, RunTaskRefused,
         Interrupt, CallDone, AwaitDone, RunTaskOnce, Finish, Goto, Reconnect
    <2>2. cur # t
      BY <2>1 DEF Barred
    <2> QED BY <1>0, <1>1, <2>1, <2>2 DEF Barred, baseDone, Queued
  <1>7. CASE LoopSeesClose \/ DrainEnds \/ AfterFunc \/ Closer \/ UNCHANGED writerVars
    <2>1. /\ UNCHANGED <<caller, ctxDone, writes, calls, cur>>
          /\ baseDone => baseDone'
          /\ stage' = stage \/ stage \in {"loop", "drain"}
      BY <1>7 DEF LoopSeesClose, DrainEnds, AfterFunc, Closer, CloseBegins, CloseCancels, CloseEnds,
         Goto, writerVars, baseDone
    <2> QED BY <1>0, <1>1, <2>1 DEF Barred, Queued
  <1>8. CASE DrainOne
    <2>1. /\ UNCHANGED <<caller, ctxDone, calls, cur, stage, closing>>
          /\ writes # <<>> /\ writes' = Tail(writes)
      BY <1>8 DEF DrainOne
    <2>2. Queued(t)' => Queued(t)
      BY <1>0, <2>1 DEF Queued
    <2> QED BY <1>1, <2>1, <2>2 DEF Barred, baseDone
  <1> QED BY <1>2, <1>3, <1>4, <1>5, <1>6, <1>7, <1>8 DEF WriterNext, Writer, Execute

\* executeTask looks at both contexts before it touches the database: a write
\* whose caller gave up, or whose queue was closed, while it was queued is
\* never run.
THEOREM QueuedAndDoomed == WriterSpec => DoomedNeverRuns
  <1> SUFFICES ASSUME NEW t \in Tasks PROVE WriterSpec => [](Doomed(t) => [](t \notin calls))
    BY DEF DoomedNeverRuns
  <1>1. WriterInv /\ Doomed(t) => Barred(t)
    BY DoomedIsBarred
  <1>2. WriterInv /\ Barred(t) /\ [WriterNext]_writerVars => Barred(t)'
    BY BarredStays
  <1>3. Barred(t) => t \notin calls
    BY DEF Barred
  <1> QED BY <1>1, <1>2, <1>3, WriterInvHolds, PTL DEF WriterSpec

--------------------------------------------------------------------------
(* Minima, which the scans of both copies choose. *)

\* A non-empty set of numbers has a least one.
LEMMA LeastNumber ==
  ASSUME NEW S, S \subseteq Nat, S # {}
  PROVE  \E n \in S : \A m \in S : n <= m
<1> DEFINE R == OpToRel(<, Nat)
<1>1. \A m, n \in Nat : m < n => <<m, n>> \in R
  BY DEF OpToRel
<1>2. IsWellFoundedOn(R, Nat)
  BY NatLessThanWellFounded
<1> HIDE DEF R
<1>3. PICK n \in S : \A m \in S : ~(m < n)
  BY <1>1, <1>2, WFMin, Zenon
<1> QED BY <1>3

--------------------------------------------------------------------------
(* Legacy rows.  What lets the schema steps drop the operational tables is    *)
(* that start-up reaches them only when every row still there has its copy.   *)

\* The sidecar has the row, or the one HasAuditDuplicate takes for it.
HasCopy(r) == Holds(r) \/ (TableOf[r] = "audit" /\ HasAuditDuplicate(r))

Covered == \A r \in legacy : HasCopy(r)

CopyTypes ==
  /\ was.rows \subseteq Rows
  /\ legacy \subseteq Rows
  /\ copied \in Seq(Rows)
  /\ table \in 1 .. 4

\* The tables already visited, and the rows already scanned, have their copies.
ScannedCovered ==
  pc = "legacy" =>
    \A r \in legacy :
      r \in seen \/ (\E n \in 1 .. table - 1 : TableOf[r] = TableOrder[n]) => HasCopy(r)

\* A start begins with the first table.
StartsClean == pc = "meta" => table = 1 /\ seen = {}

\* Statements that drop tables run when nothing depends on them ...
SchemaCovered == pc \in {"schema", "open"} => Covered

\* ... and the versions that are not asked for their rows have none to lose.
VersionCovered == db["primary"].version \notin 1 .. 6 => Covered

LegacyInv ==
  CopyTypes /\ StartsClean /\ ScannedCovered /\ SchemaCovered /\ VersionCovered /\ LegacyKept

\* The sidecar only grows.
LEMMA CopyStays ==
  ASSUME copied \in Seq(Rows),
         copied' = copied \/ \E q \in Rows : copied' = Append(copied, q)
  PROVE  \A r \in Rows : HasCopy(r) => HasCopy(r)'
<1>1. /\ Len(copied) \in Nat /\ Len(copied') \in Nat /\ Len(copied) <= Len(copied')
      /\ \A i \in 1 .. Len(copied) : i \in 1 .. Len(copied') /\ copied'[i] = copied[i]
  <2>1. CASE copied' = copied
    BY <2>1
  <2>2. ASSUME NEW q \in Rows, copied' = Append(copied, q)
        PROVE  /\ Len(copied) \in Nat /\ Len(copied') \in Nat /\ Len(copied) <= Len(copied')
               /\ \A i \in 1 .. Len(copied) : i \in 1 .. Len(copied') /\ copied'[i] = copied[i]
    BY <2>2
  <2> QED BY <2>1, <2>2
<1>2. ASSUME NEW r \in Rows, Holds(r) PROVE Holds(r)'
  BY <1>1, <1>2 DEF Holds
<1>3. ASSUME NEW r \in Rows, HasAuditDuplicate(r) PROVE HasAuditDuplicate(r)'
  BY <1>1, <1>2, <1>3 DEF HasAuditDuplicate
<1> QED BY <1>2, <1>3 DEF HasCopy

\* A step that keeps or shrinks the legacy rows, keeps the sidecar and moves
\* nowhere new.
LEMMA LegacyStays ==
  ASSUME LegacyInv, UNCHANGED <<was, copied>>, legacy' \subseteq legacy,
         table' \in 1 .. 4,
         \A r \in legacy \ legacy' : HasCopy(r),
         pc' = "legacy" => \/ pc = "legacy" /\ UNCHANGED <<table, seen>>
                           \/ table' = 1 /\ seen' = {},
         pc' \in {"schema", "open"} => Covered,
         pc' = "meta" => table' = 1 /\ seen' = {},
         Covered \/ db'["primary"].version = db["primary"].version
  PROVE  LegacyInv'
<1>0. \A r \in Rows : HasCopy(r) => HasCopy(r)'
  BY DEF HasCopy, Holds, HasAuditDuplicate
<1>1. CopyTypes'
  BY DEF LegacyInv, CopyTypes
<1>2. Covered => Covered'
  BY <1>0 DEF Covered, LegacyInv, CopyTypes
<1>3. ScannedCovered'
  <2> SUFFICES ASSUME pc' = "legacy", NEW r \in legacy',
                      r \in seen' \/ \E n \in 1 .. table' - 1 : TableOf[r] = TableOrder[n]
               PROVE  HasCopy(r)'
    BY DEF ScannedCovered
  <2>1. r \in legacy /\ r \in Rows
    BY DEF LegacyInv, CopyTypes
  <2>2. CASE pc = "legacy" /\ UNCHANGED <<table, seen>>
    BY <1>0, <2>1, <2>2 DEF LegacyInv, ScannedCovered
  <2>3. CASE table' = 1 /\ seen' = {}
    BY <2>3
  <2> QED BY <2>2, <2>3
<1>4. SchemaCovered' /\ VersionCovered'
  BY <1>2 DEF LegacyInv, SchemaCovered, VersionCovered
<1>5. LegacyKept'
  <2>1. ASSUME NEW r \in was'.rows
        PROVE  (r \in legacy \/ Holds(r) \/ (TableOf[r] = "audit" /\ HasAuditDuplicate(r)))'
    BY <2>1 DEF LegacyInv, LegacyKept, HasCopy, Holds, HasAuditDuplicate
  <2>2. \A i, j \in 1 .. Len(copied') : copied'[i] = copied'[j] => i = j
    BY DEF LegacyInv, LegacyKept
  <2> QED BY <2>1, <2>2 DEF LegacyKept
<1> QED BY <1>1, <1>3, <1>4, <1>5 DEF LegacyInv, StartsClean

\* The row that is scanned is one of those still to be scanned.
LEMMA ScanIsUnseen ==
  ASSUME legacy \subseteq Rows, Unseen # {}
  PROVE  Scan \in Unseen
<1>0. Rows \subseteq Nat
  BY UpgradeAssumption DEF Rows
<1>1. Unseen \subseteq Nat
  BY <1>0 DEF Unseen
<1>2. \E q \in Unseen : \A o \in Unseen : q <= o
  BY <1>1, LeastNumber
<1> QED BY <1>2 DEF Scan

\* A copied row has its copy from then on, and is in the sidecar once.
LEMMA CopyRowLegacy ==
  ASSUME LegacyInv, pc = "legacy", Unseen # {},
         seen' = seen \cup {Scan},
         \/ copied' = copied /\ HasCopy(Scan)
         \/ copied' = Append(copied, Scan) /\ ~Holds(Scan),
         UNCHANGED <<db, was, legacy, pc, table>>
  PROVE  LegacyInv'
<1>0. Scan \in Unseen /\ Scan \in Rows
  BY ScanIsUnseen DEF Unseen, LegacyInv, CopyTypes
<1>1. PICK q \in Rows : q = Scan
  BY <1>0
<1>2. copied \in Seq(Rows)
  BY DEF LegacyInv, CopyTypes
<1>3. \A r \in Rows : HasCopy(r) => HasCopy(r)'
  BY <1>1, <1>2, CopyStays
<1>4. HasCopy(q)'
  <2>1. CASE copied' = copied /\ HasCopy(q)
    BY <1>3, <2>1
  <2>2. CASE copied' = Append(copied, q)
    <3>1. Len(copied) + 1 \in 1 .. Len(copied') /\ copied'[Len(copied) + 1] = q
      BY <1>2, <2>2
    <3> QED BY <3>1 DEF HasCopy, Holds
  <2> QED BY <1>1, <2>1, <2>2
<1>5. CopyTypes'
  BY <1>1, <1>2 DEF LegacyInv, CopyTypes
<1>6. ScannedCovered'
  <2> SUFFICES ASSUME NEW r \in legacy,
                      r \in seen' \/ \E n \in 1 .. table - 1 : TableOf[r] = TableOrder[n]
               PROVE  HasCopy(r)'
    BY DEF ScannedCovered
  <2>1. r \in Rows
    BY DEF LegacyInv, CopyTypes
  <2>2. CASE r = q
    BY <1>4, <2>2
  <2>3. CASE r # q
    <3>1. HasCopy(r)
      BY <1>1, <2>3 DEF LegacyInv, ScannedCovered
    <3> QED BY <1>3, <2>1, <3>1
  <2> QED BY <2>2, <2>3
<1>7. SchemaCovered' /\ VersionCovered'
  <2>1. Covered => Covered'
    BY <1>3 DEF Covered, LegacyInv, CopyTypes
  <2> QED BY <2>1 DEF LegacyInv, SchemaCovered, VersionCovered
<1>8. \A r \in was.rows : r \in legacy \/ HasCopy(r)'
  <2>1. \A r \in was.rows : r \in legacy \/ HasCopy(r)
    BY DEF LegacyInv, LegacyKept, HasCopy
  <2> QED BY <1>3, <2>1 DEF LegacyInv, CopyTypes
<1>9. \A i, j \in 1 .. Len(copied') : copied'[i] = copied'[j] => i = j
  <2>1. \A i, j \in 1 .. Len(copied) : copied[i] = copied[j] => i = j
    BY DEF LegacyInv, LegacyKept
  <2>2. CASE copied' = Append(copied, q) /\ ~Holds(q)
    <3>1. \A i \in 1 .. Len(copied) : copied[i] # q
      BY <2>2 DEF Holds
    <3>2. /\ Len(copied) \in Nat /\ Len(copied') = Len(copied) + 1
          /\ \A i \in 1 .. Len(copied) : copied'[i] = copied[i]
          /\ copied'[Len(copied) + 1] = q
      BY <1>2, <2>2
    <3>3. \A i \in 1 .. Len(copied') : i \in 1 .. Len(copied) \/ i = Len(copied) + 1
      BY <3>2
    <3> QED BY <2>1, <3>1, <3>2, <3>3
  <2> QED BY <1>1, <2>1, <2>2
<1> QED BY <1>5, <1>6, <1>7, <1>8, <1>9 DEF LegacyInv, LegacyKept, HasCopy, StartsClean

\* What the statements of an upgrade and a publication leave alone.
LEMMA PrimaryStays ==
  ASSUME NEW d \in {"meta", "target"}, NEW s, db' = [db EXCEPT ![d] = s]
  PROVE  db'["primary"] = db["primary"]
OBVIOUS

\* Every step of start-up keeps the legacy rows safe.
LEMMA BootLegacy ==
  ASSUME LegacyInv, Boot
  PROVE  LegacyInv'
<1> USE DEF boot
<1>0. /\ legacy \subseteq Rows /\ table \in 1 .. 4 /\ Len(TableOrder) = 4
      /\ TableOrder = <<"audit", "changelog", "buckets", "sessions">>
  BY DEF LegacyInv, CopyTypes, TableOrder
<1>1. CASE Start
  BY <1>1, LegacyStays DEF Start
<1>2. CASE MetaExec
  <2>1. db'["primary"] = db["primary"]
    BY <1>2, PrimaryStays DEF MetaExec, Exec
  <2> QED BY <1>0, <1>2, <2>1, LegacyStays DEF MetaExec, LegacyInv, StartsClean
<1>3. CASE MetaOpened
  <2>1. HasLegacyMeta(db["primary"]) \/ Covered
    BY DEF HasLegacyMeta, LegacyInv, VersionCovered
  <2> QED BY <1>0, <1>3, <2>1, LegacyStays DEF MetaOpened, LegacyInv, StartsClean
<1>4. CASE CopyLegacyAudit
  BY <1>0, <1>4, CopyRowLegacy, ScanIsUnseen
     DEF CopyLegacyAudit, CopyRow, HasCopy, HasAuditDuplicate, Unseen
<1>5. CASE CopyLegacyChangelog \/ CopyLegacyMetricBuckets \/ CopyLegacyWSSessions
  BY <1>5, CopyRowLegacy
     DEF CopyLegacyChangelog, CopyLegacyMetricBuckets, CopyLegacyWSSessions, CopyRow, HasCopy
<1>6. CASE CopyTableDone
  <2>0. /\ pc = "legacy" /\ Unseen = {} /\ UNCHANGED <<db, was, legacy, copied, plan, seen>>
        /\ \/ table = 4 /\ pc' = "schema" /\ table' = table
           \/ table # 4 /\ pc' = pc /\ table' = table + 1
    BY <1>0, <1>6 DEF CopyTableDone
  <2>1. \A r \in legacy : TableOf[r] = TableOrder[table] => HasCopy(r)
    BY <2>0 DEF LegacyInv, ScannedCovered, Unseen
  <2>2. \A r \in legacy, n \in 1 .. table : TableOf[r] = TableOrder[n] => HasCopy(r)
    BY <1>0, <2>0, <2>1 DEF LegacyInv, ScannedCovered
  <2>3. CASE table = 4
    <3>1. \A r \in legacy : \E n \in 1 .. 4 : TableOf[r] = TableOrder[n]
      <4>1. ASSUME NEW t \in Tables PROVE \E n \in 1 .. 4 : t = TableOrder[n]
        BY <1>0, <4>1 DEF Tables
      <4> QED BY <1>0, <4>1, UpgradeAssumption
    <3>2. Covered
      BY <2>2, <2>3, <3>1 DEF Covered
    <3> QED BY <1>0, <2>0, <2>3, <3>2, LegacyStays
  <2>4. CASE table # 4
    <3>1. \A r \in Rows : HasCopy(r) => HasCopy(r)'
      BY <2>0 DEF HasCopy, Holds, HasAuditDuplicate
    <3>2. ScannedCovered'
      <4>1. \A n \in 1 .. table' - 1 : n \in 1 .. table
        BY <1>0, <2>0, <2>4
      <4> QED BY <1>0, <2>0, <2>2, <2>4, <3>1, <4>1 DEF LegacyInv, ScannedCovered
    <3>3. CopyTypes'
      BY <1>0, <2>0, <2>4 DEF LegacyInv, CopyTypes
    <3>4. SchemaCovered' /\ VersionCovered' /\ LegacyKept'
      BY <2>0, <2>4 DEF LegacyInv, SchemaCovered, VersionCovered, LegacyKept, Covered, HasCopy,
                        Holds, HasAuditDuplicate
    <3> QED BY <2>0, <2>4, <3>2, <3>3, <3>4 DEF LegacyInv, StartsClean
  <2> QED BY <2>3, <2>4
<1>7. CASE MetaFails \/ CopyFails \/ SchemaFails
  BY <1>7, LegacyStays DEF MetaFails, CopyFails, SchemaFails, Exit
<1>8. CASE SchemaExec
  <2>1. Covered
    BY <1>8 DEF SchemaExec, LegacyInv, SchemaCovered
  <2>2. legacy' \subseteq legacy /\ \A r \in legacy \ legacy' : HasCopy(r)
    BY <1>8, <2>1 DEF SchemaExec, Covered
  <2> QED BY <1>0, <1>8, <2>1, <2>2, LegacyStays DEF SchemaExec
<1>9. CASE Opened
  BY <1>0, <1>9, LegacyStays DEF Opened, LegacyInv, SchemaCovered
<1> QED BY <1>1, <1>2, <1>3, <1>4, <1>5, <1>6, <1>7, <1>8, <1>9 DEF Boot

\* The older release's rows are where it left them.
LEMMA LegacyInit == Init => LegacyInv
<1> SUFFICES ASSUME Init PROVE LegacyInv
  OBVIOUS
<1>1. PICK p \in UNION {EventDatabases(e, Old) : e \in Engines} : db["primary"] = p
  BY DEF Init, UpgradeInit, Databases
<1>2. PICK e \in Engines : p \in EventDatabases(e, Old)
  BY <1>1
<1>3. p.version \notin 1 .. 6 => p.has \cap Tables = {}
  BY <1>2 DEF EventDatabases, Bare, Schema, OldParts, EventParts, SearchParts, MetaParts, Tables
<1>4. db["primary"].version \notin 1 .. 6 => legacy = {}
  BY <1>1, <1>3, UpgradeAssumption DEF Init, UpgradeInit
<1>5. LegacyKept /\ CopyTypes
  BY DEF Init, UpgradeInit, LegacyKept, CopyTypes
<1>6. ScannedCovered /\ SchemaCovered /\ VersionCovered
  BY <1>4 DEF Init, UpgradeInit, ScannedCovered, SchemaCovered, VersionCovered, Covered
<1>7. StartsClean
  BY DEF Init, UpgradeInit, StartsClean
<1> QED BY <1>5, <1>6, <1>7 DEF LegacyInv

\* Every step keeps the legacy rows safe: the job and the publishers do not
\* touch them.
LEMMA LegacyNext == LegacyInv /\ [Next]_vars => LegacyInv'
<1> SUFFICES ASSUME LegacyInv, [Next]_vars PROVE LegacyInv'
  OBVIOUS
<1> USE DEF boot, upgradeVars
<1>0. table \in 1 .. 4
  BY DEF LegacyInv, CopyTypes
<1>1. CASE UNCHANGED vars
  BY <1>0, <1>1, LegacyStays DEF vars, LegacyInv, SchemaCovered, StartsClean
<1>2. CASE Boot
  BY <1>2, BootLegacy
<1>3. CASE Die
  BY <1>3, LegacyStays DEF Die, Crash
<1>4. ASSUME UNCHANGED <<was, legacy, copied, pc, table, seen>>,
             db'["primary"].version = db["primary"].version
      PROVE  LegacyInv'
  BY <1>0, <1>4, LegacyStays DEF LegacyInv, SchemaCovered, StartsClean
<1>5. CASE TargetPreflight \/ MigrationStart \/ TargetRefused \/ BeginMigrationSnapshot
           \/ CheckEvent \/ SaveStale \/ SaveDuplicate \/ Verified \/ VerifyFails
           \/ MigrationDone \/ StepFails
  BY <1>4, <1>5 DEF TargetPreflight, MigrationStart, TargetRefused, BeginMigrationSnapshot,
                    CheckEvent, SaveStale, SaveDuplicate, Verified, VerifyFails, MigrationDone,
                    StepFails, JobEnds
<1>6. CASE TargetExec \/ SaveNew
  <2>1. db'["primary"] = db["primary"]
    BY <1>6, PrimaryStays DEF TargetExec, SaveNew, Exec
  <2> QED BY <1>4, <1>6, <2>1 DEF TargetExec, SaveNew
<1>7. ASSUME NEW d \in {"primary", "target"}, NEW e \in Events, Publish(d, e)
      PROVE  LegacyInv'
  <2>1. CASE d = "target"
    <3>1. db'["primary"] = db["primary"]
      BY <1>7, <2>1, PrimaryStays DEF Publish
    <3> QED BY <1>4, <1>7, <3>1 DEF Publish
  <2>2. CASE d = "primary"
    <3>1. pc = "open" /\ UNCHANGED <<was, legacy, copied, pc, table, seen>>
      BY <1>7, <2>2 DEF Publish
    <3> QED BY <1>0, <3>1, LegacyStays DEF LegacyInv, SchemaCovered
  <2> QED BY <2>1, <2>2
<1> QED BY <1>1, <1>2, <1>3, <1>5, <1>6, <1>7 DEF Next, Job

\* At every moment of any number of interrupted starts, each row of the older
\* release is in the primary or has its copy in the sidecar, once.
THEOREM LegacyRowsKept == Spec => []LegacyKept
<1>1. LegacyInv => LegacyKept
  BY DEF LegacyInv
<1> QED BY <1>1, LegacyInit, LegacyNext, PTL DEF Spec

--------------------------------------------------------------------------
(* Versions of an event. *)

\* Newer is transitive.
LEMMA NewerThrough ==
  ASSUME NEW e \in Events, NEW f \in Events, NEW g \in Events, Newer(e, f), Newer(f, g)
  PROVE  Newer(e, g)
BY EventAssumption DEF Newer

\* SaveEvent takes nothing back: what was kept is kept.
LEMMA SavedKeeps ==
  ASSUME NEW rows \in SUBSET Events, NEW e \in Events, NEW f \in Events, KeptIn(f, rows)
  PROVE  KeptIn(f, (rows \ Older(e, rows)) \cup {e})
<1>1. CASE f \in rows
  BY <1>1 DEF KeptIn, Older, SameAddress
<1>2. ASSUME NEW r \in rows, SameAddress(r, f), Newer(r, f)
      PROVE  KeptIn(f, (rows \ Older(e, rows)) \cup {e})
  <2>1. CASE r \in Older(e, rows)
    <3>1. SameAddress(e, f) /\ Newer(e, f)
      BY <1>2, <2>1, NewerThrough DEF Older, SameAddress
    <3> QED BY <3>1 DEF KeptIn
  <2>2. CASE r \notin Older(e, rows)
    BY <1>2, <2>2 DEF KeptIn
  <2> QED BY <2>1, <2>2
<1> QED BY <1>1, <1>2 DEF KeptIn

--------------------------------------------------------------------------
(* Schemas as records. *)

IsSchema(s) == s = Schema(s.engine, s.version, s.has, s.rows, s.index)

\* The fields of a schema.
LEMMA SchemaFields ==
  ASSUME NEW engine, NEW v, NEW has, NEW rows, NEW index
  PROVE  /\ Schema(engine, v, has, rows, index).engine = engine
         /\ Schema(engine, v, has, rows, index).version = v
         /\ Schema(engine, v, has, rows, index).has = has
         /\ Schema(engine, v, has, rows, index).rows = rows
         /\ Schema(engine, v, has, rows, index).index = index
         /\ IsSchema(Schema(engine, v, has, rows, index))
BY DEF Schema, IsSchema

\* What a statement leaves of a schema.
LEMMA ApplyFields ==
  ASSUME NEW s, NEW stmt, IsSchema(s)
  PROVE  /\ IsSchema(Apply(stmt, s))
         /\ Apply(stmt, s).engine = s.engine
         /\ Apply(stmt, s).rows = s.rows
         /\ Apply(stmt, s).has = (s.has \cup stmt.adds) \ stmt.drops
         /\ Apply(stmt, s).version = IF stmt.version = 0 THEN s.version ELSE stmt.version
         /\ Apply(stmt, s).index = IF \/ stmt.search = "rebuild"
                                      \/ stmt.search = "complete" /\ "search" \notin s.has
                                   THEN Exact(s.rows) ELSE s.index
<1>1. PICK engine, v, has, rows, index : s = Schema(engine, v, has, rows, index)
  BY DEF IsSchema
<1> DEFINE has2 == (has \cup stmt.adds) \ stmt.drops
           v2 == IF stmt.version = 0 THEN v ELSE stmt.version
           index2 == IF \/ stmt.search = "rebuild"
                        \/ stmt.search = "complete" /\ "search" \notin has
                     THEN Exact(rows) ELSE index
<1>2. s.engine = engine /\ s.version = v /\ s.has = has /\ s.rows = rows /\ s.index = index
  BY <1>1, SchemaFields
<1>3. Apply(stmt, s) = [s EXCEPT !.has = has2, !.version = v2, !.index = index2]
  BY <1>2 DEF Apply
<1> HIDE DEF has2, v2, index2
<1>4. Apply(stmt, s) = Schema(engine, v2, has2, rows, index2)
  BY <1>1, <1>3 DEF Schema
<1>5. /\ Apply(stmt, s).engine = engine /\ Apply(stmt, s).version = v2
      /\ Apply(stmt, s).has = has2 /\ Apply(stmt, s).rows = rows
      /\ Apply(stmt, s).index = index2 /\ IsSchema(Apply(stmt, s))
  BY <1>4, SchemaFields
<1> QED BY <1>2, <1>5 DEF has2, v2, index2

\* What SaveEvent leaves of a schema.
LEMMA SavedFields ==
  ASSUME NEW s, NEW e, IsSchema(s)
  PROVE  /\ IsSchema(Saved(s, e))
         /\ Saved(s, e).engine = s.engine /\ Saved(s, e).version = s.version
         /\ Saved(s, e).has = s.has
         /\ Saved(s, e).rows = (s.rows \ Older(e, s.rows)) \cup {e}
         /\ Saved(s, e).index =
              [x \in Events |->
                 IF x = e THEN s.index[x] + 1
                 ELSE IF x \in s.rows \ ((s.rows \ Older(e, s.rows)) \cup {e}) THEN 0
                 ELSE s.index[x]]
<1>1. PICK engine, v, has, rows, index : s = Schema(engine, v, has, rows, index)
  BY DEF IsSchema
<1> DEFINE rows2 == (rows \ Older(e, rows)) \cup {e}
           index2 == [x \in Events |-> IF x = e THEN index[x] + 1
                                       ELSE IF x \in rows \ rows2 THEN 0 ELSE index[x]]
<1>2. s.engine = engine /\ s.version = v /\ s.has = has /\ s.rows = rows /\ s.index = index
  BY <1>1, SchemaFields
<1>3. Saved(s, e) = [s EXCEPT !.rows = rows2, !.index = index2]
  BY <1>2 DEF Saved
<1> HIDE DEF rows2, index2
<1>4. Saved(s, e) = Schema(engine, v, has, rows2, index2)
  BY <1>1, <1>3 DEF Schema
<1>5. /\ Saved(s, e).engine = engine /\ Saved(s, e).version = v
      /\ Saved(s, e).has = has /\ Saved(s, e).rows = rows2
      /\ Saved(s, e).index = index2 /\ IsSchema(Saved(s, e))
  BY <1>4, SchemaFields
<1> QED BY <1>2, <1>5 DEF rows2, index2

\* A new event in an exact search index.
LEMMA SavedExact ==
  ASSUME NEW s, NEW e \in Events, IsSchema(s), e \notin s.rows, s.index = Exact(s.rows)
  PROVE  Saved(s, e).index = Exact(Saved(s, e).rows)
<1> DEFINE after == (s.rows \ Older(e, s.rows)) \cup {e}
<1>1. Saved(s, e).rows = after
      /\ Saved(s, e).index =
           [x \in Events |-> IF x = e THEN s.index[x] + 1
                             ELSE IF x \in s.rows \ after THEN 0 ELSE s.index[x]]
  BY SavedFields
<1>2. ASSUME NEW x \in Events
      PROVE  (IF x = e THEN s.index[x] + 1 ELSE IF x \in s.rows \ after THEN 0 ELSE s.index[x])
               = (IF x \in after THEN 1 ELSE 0)
  BY DEF Exact
<1> HIDE DEF after
<1> QED BY <1>1, <1>2 DEF Exact

--------------------------------------------------------------------------
(* The copy. *)

Copying == {"next", "save", "verify"}

\* The databases are schemas over the events.
DbShape ==
  /\ db = [d \in Databases |-> db[d]]
  /\ \A d \in Databases : IsSchema(db[d]) /\ db[d].rows \subseteq Events

\* A job has its place in the snapshot, and an event at hand when it works on
\* one.
CopyShape ==
  /\ DbShape
  /\ left \subseteq snapshot /\ snapshot \subseteq Events
  /\ job \in {"save", "verify"} => left # {}

\* What the job has passed is kept in the target.
PassedKept ==
  /\ job \in Copying \cup {"done"} => \A e \in snapshot \ left : KeptIn(e, db["target"].rows)
  /\ job = "done" => left = {}

CopyInv == CopyShape /\ PassedKept

\* There is a first event to scan, by creation time and then by id.
LEMMA ScannedIsLeft ==
  ASSUME CopyShape, left # {}
  PROVE  Scanned \in left
<1>0. left \subseteq Events /\ CreatedAt \in [Events -> Nat] /\ IdRank \in [Events -> Nat]
      /\ \A e, f \in Events : IdRank[e] = IdRank[f] => e = f
  BY EventAssumption DEF CopyShape
<1>1. PICK t \in {CreatedAt[e] : e \in left} : \A u \in {CreatedAt[e] : e \in left} : t <= u
  <2>1. {CreatedAt[e] : e \in left} \subseteq Nat /\ {CreatedAt[e] : e \in left} # {}
    BY <1>0
  <2> QED BY <2>1, LeastNumber
<1> DEFINE First == {e \in left : CreatedAt[e] = t}
<1>2. PICK n \in {IdRank[e] : e \in First} : \A m \in {IdRank[e] : e \in First} : n <= m
  <2>1. {IdRank[e] : e \in First} \subseteq Nat /\ {IdRank[e] : e \in First} # {}
    BY <1>0, <1>1
  <2> QED BY <2>1, LeastNumber
<1>3. PICK e \in First : IdRank[e] = n
  BY <1>2
<1>4. ASSUME NEW f \in left \ {e}
      PROVE  CreatedAt[e] < CreatedAt[f] \/ (CreatedAt[e] = CreatedAt[f] /\ IdRank[e] < IdRank[f])
  <2>1. CreatedAt[e] = t /\ t <= CreatedAt[f] /\ CreatedAt[f] \in Nat /\ t \in Nat
    BY <1>0, <1>1
  <2>2. CASE CreatedAt[f] = t
    <3>1. n <= IdRank[f] /\ IdRank[f] # n /\ IdRank[f] \in Nat /\ n \in Nat
      BY <1>0, <1>2, <1>3, <2>2
    <3> QED BY <1>3, <2>1, <2>2, <3>1
  <2>3. CASE CreatedAt[f] # t
    BY <2>1, <2>3
  <2> QED BY <2>2, <2>3
<1> QED BY <1>3, <1>4 DEF Scanned

\* A statement of an upgrade moves no row.
LEMMA ExecRows ==
  ASSUME DbShape, NEW d \in Databases, Exec(d)
  PROVE  DbShape' /\ \A c \in Databases : db'[c].rows = db[c].rows
<1>1. PICK stmt : db' = [db EXCEPT ![d] = Apply(stmt, db[d])]
  BY DEF Exec
<1>2. /\ db' = [c \in Databases |-> db'[c]] /\ db'[d] = Apply(stmt, db[d])
      /\ \A c \in Databases \ {d} : db'[c] = db[c]
  BY <1>1 DEF DbShape
<1>3. IsSchema(db'[d]) /\ db'[d].rows = db[d].rows
  BY <1>2, ApplyFields DEF DbShape
<1> QED BY <1>2, <1>3 DEF DbShape

\* SaveEvent in one database keeps what is kept, there and elsewhere.
LEMMA SaveRows ==
  ASSUME DbShape, NEW d \in Databases, NEW e \in Events, db' = [db EXCEPT ![d] = Saved(@, e)]
  PROVE  /\ DbShape'
         /\ \A c \in Databases, f \in Events : KeptIn(f, db[c].rows) => KeptIn(f, db'[c].rows)
         /\ e \in db'[d].rows
<1>1. /\ db' = [c \in Databases |-> db'[c]] /\ db'[d] = Saved(db[d], e)
      /\ \A c \in Databases \ {d} : db'[c] = db[c]
  BY DEF DbShape
<1>2. IsSchema(db'[d]) /\ db'[d].rows = (db[d].rows \ Older(e, db[d].rows)) \cup {e}
  <2>1. IsSchema(db[d])
    BY DEF DbShape
  <2>2. /\ IsSchema(Saved(db[d], e))
        /\ Saved(db[d], e).rows = (db[d].rows \ Older(e, db[d].rows)) \cup {e}
    BY <2>1, SavedFields
  <2> QED BY <1>1, <2>2
<1>3. \A f \in Events : KeptIn(f, db[d].rows) => KeptIn(f, db'[d].rows)
  BY <1>2, SavedKeeps DEF DbShape
<1>4. db'[d].rows \subseteq Events
  BY <1>2 DEF DbShape
<1> QED BY <1>1, <1>2, <1>3, <1>4 DEF DbShape

\* Every step keeps the shape of the databases, and what is kept in them.
LEMMA StepRows ==
  ASSUME DbShape, job = "save" => Scanned \in Events, [Next]_vars
  PROVE  /\ DbShape'
         /\ \A c \in Databases, f \in Events : KeptIn(f, db[c].rows) => KeptIn(f, db'[c].rows)
<1> USE DEF boot, upgradeVars
<1>1. ASSUME db' = db
      PROVE  /\ DbShape'
             /\ \A c \in Databases, f \in Events : KeptIn(f, db[c].rows) => KeptIn(f, db'[c].rows)
  BY <1>1 DEF DbShape
<1>2. ASSUME NEW d \in Databases, Exec(d)
      PROVE  /\ DbShape'
             /\ \A c \in Databases, f \in Events : KeptIn(f, db[c].rows) => KeptIn(f, db'[c].rows)
  BY <1>2, ExecRows
<1>3. CASE MetaExec \/ SchemaExec \/ TargetExec
  BY <1>2, <1>3 DEF MetaExec, SchemaExec, TargetExec, Databases
<1>4. CASE SaveNew
  BY <1>4, SaveRows DEF SaveNew, Databases
<1>5. ASSUME NEW d \in {"primary", "target"}, NEW e \in Events, Publish(d, e)
      PROVE  /\ DbShape'
             /\ \A c \in Databases, f \in Events : KeptIn(f, db[c].rows) => KeptIn(f, db'[c].rows)
  BY <1>5, SaveRows DEF Publish, Databases
<1>6. CASE Start \/ MetaFails \/ MetaOpened \/ CopyLegacyAudit \/ CopyLegacyChangelog
           \/ CopyLegacyMetricBuckets \/ CopyLegacyWSSessions \/ CopyTableDone
           \/ CopyFails \/ SchemaFails \/ Opened
  BY <1>1, <1>6 DEF Start, MetaFails, MetaOpened, CopyLegacyAudit, CopyLegacyChangelog,
     CopyLegacyMetricBuckets, CopyLegacyWSSessions, CopyRow, CopyTableDone, CopyFails,
     SchemaFails, Opened, Exit
<1>7. CASE TargetPreflight \/ MigrationStart \/ TargetRefused \/ BeginMigrationSnapshot
           \/ CheckEvent \/ SaveStale \/ SaveDuplicate \/ Verified \/ VerifyFails
           \/ MigrationDone \/ StepFails \/ Die
  BY <1>1, <1>7 DEF TargetPreflight, MigrationStart, TargetRefused, BeginMigrationSnapshot,
     CheckEvent, SaveStale, SaveDuplicate, Verified, VerifyFails, MigrationDone, StepFails,
     JobEnds, Die, Crash
<1>8. CASE UNCHANGED vars
  BY <1>1, <1>8 DEF vars
<1> QED BY <1>3, <1>4, <1>5, <1>6, <1>7, <1>8 DEF Next, Boot, Job

\* An event at hand is one of the snapshot.
LEMMA ScannedEvent ==
  ASSUME CopyInv, job \in {"save", "verify"}
  PROVE  Scanned \in left /\ Scanned \in Events
BY ScannedIsLeft DEF CopyInv, CopyShape

\* The invariant of the copy is kept by every step.
LEMMA CopyNext == CopyInv /\ [Next]_vars => CopyInv'
<1> SUFFICES ASSUME CopyInv, [Next]_vars PROVE CopyInv'
  OBVIOUS
<1> USE DEF boot, upgradeVars
<1>0. DbShape /\ left \subseteq snapshot /\ snapshot \subseteq Events
      /\ (job \in {"save", "verify"} => left # {}) /\ "target" \in Databases /\ "primary" \in Databases
  BY DEF CopyInv, CopyShape, DbShape, Databases
<1>1. job = "save" => Scanned \in Events
  BY ScannedEvent
<1>2. /\ DbShape'
      /\ \A f \in Events : KeptIn(f, db["target"].rows) => KeptIn(f, db'["target"].rows)
  BY <1>0, <1>1, StepRows
<1>3. ASSUME UNCHANGED <<job, snapshot, left>> PROVE CopyInv'
  BY <1>0, <1>2, <1>3 DEF CopyInv, CopyShape, DbShape, PassedKept
<1>4. ASSUME job' \in {"none", "target", "failed"}, left' \subseteq snapshot',
             snapshot' \subseteq Events
      PROVE  CopyInv'
  BY <1>2, <1>4 DEF CopyInv, CopyShape, DbShape, PassedKept, Copying
<1>5. ASSUME job \in {"save", "verify"}, snapshot' = snapshot, left' = left \ {Scanned},
             KeptIn(Scanned, db["target"].rows), job' = "next"
      PROVE  CopyInv'
  <2>1. \A e \in snapshot \ left : KeptIn(e, db["target"].rows)
    BY <1>5 DEF CopyInv, PassedKept, Copying
  <2>2. \A e \in snapshot' \ left' : KeptIn(e, db'["target"].rows)
    BY <1>0, <1>2, <1>5, <2>1
  <2> QED BY <1>0, <1>2, <1>5, <2>2 DEF CopyInv, CopyShape, DbShape, PassedKept
<1>6. CASE BeginMigrationSnapshot
  <2>1. job' = "next" /\ snapshot' = db["primary"].rows /\ left' = snapshot'
    BY <1>6 DEF BeginMigrationSnapshot
  <2> QED BY <1>0, <1>2, <2>1 DEF CopyInv, CopyShape, DbShape, PassedKept
<1>7. ASSUME job \in Copying, job' \in Copying, UNCHANGED <<snapshot, left>>,
             job' \in {"save", "verify"} => left # {}
      PROVE  CopyInv'
  BY <1>0, <1>2, <1>7 DEF CopyInv, CopyShape, DbShape, PassedKept, Copying
<1>8. CASE CheckEvent \/ SaveNew
  BY <1>0, <1>7, <1>8 DEF CheckEvent, SaveNew, Copying
<1>9. CASE SaveStale \/ Verified
  BY <1>5, <1>9 DEF SaveStale, Verified, KeptIn
<1>10. CASE MigrationDone
  BY <1>0, <1>2, <1>10 DEF MigrationDone, JobEnds, CopyInv, CopyShape, DbShape, PassedKept, Copying
<1>11. CASE MigrationStart \/ TargetRefused \/ SaveDuplicate \/ VerifyFails \/ StepFails \/ Die
  BY <1>0, <1>4, <1>11 DEF MigrationStart, TargetRefused, SaveDuplicate, VerifyFails, StepFails,
                           Die, JobEnds
<1>12. CASE (Boot /\ UNCHANGED copyVars) \/ TargetPreflight \/ TargetExec \/ UNCHANGED vars
  BY <1>3, <1>12 DEF TargetPreflight, TargetExec, vars, copyVars
<1>13. ASSUME NEW d \in {"primary", "target"}, NEW e \in Events, Publish(d, e) PROVE CopyInv'
  BY <1>3, <1>13 DEF Publish, copyVars
<1> QED BY <1>6, <1>8, <1>9, <1>10, <1>11, <1>12, <1>13 DEF Next, Job

\* Databases of every release are schemas over the events.
LEMMA ReleaseSchema ==
  ASSUME NEW e, NEW rows \in SUBSET Events, NEW s \in EventDatabases(e, rows)
  PROVE  IsSchema(s) /\ s.rows \subseteq Events
<1>1. \E v, has, index : s = Schema(e, v, has, rows, index) \/ s = Schema(e, v, has, {}, index)
                         \/ s = Schema("turso", v, has, {}, index)
  BY DEF EventDatabases, Bare
<1>2. PICK v, has, index : s = Schema(e, v, has, rows, index) \/ s = Schema(e, v, has, {}, index)
                           \/ s = Schema("turso", v, has, {}, index)
  BY <1>1
<1> QED BY <1>2, SchemaFields

\* At the start.
LEMMA ShapeInit == Init => CopyInv
<1> SUFFICES ASSUME Init PROVE CopyInv
  OBVIOUS
<1>1. PICK p \in UNION {EventDatabases(e, Old) : e \in Engines}, m \in MetaDatabases, t \in Targets :
        db = [d \in Databases |-> CASE d = "meta" -> m [] d = "primary" -> p [] OTHER -> t]
  BY DEF Init, UpgradeInit
<1>2. db["meta"] = m /\ db["primary"] = p /\ db["target"] = t /\ db = [d \in Databases |-> db[d]]
  BY <1>1 DEF Databases
<1>3. IsSchema(p) /\ p.rows \subseteq Events
  <2>1. PICK e \in Engines : p \in EventDatabases(e, Old)
    BY <1>1
  <2> QED BY <2>1, ReleaseSchema, UpgradeAssumption
<1>4. IsSchema(t) /\ t.rows \subseteq Events
  <2>1. PICK e \in {"turso", "postgres"}, rows \in SUBSET (Events \ Ephemeral) :
          t \in EventDatabases(e, rows)
    BY <1>1, CopyAssumption
  <2> QED BY <2>1, ReleaseSchema
<1>5. IsSchema(m) /\ m.rows \subseteq Events
  BY <1>1, SchemaFields DEF MetaDatabases
<1>6. DbShape
  BY <1>2, <1>3, <1>4, <1>5 DEF DbShape, Databases
<1> QED BY <1>6 DEF CopyInv, CopyShape, PassedKept, Init, Copying

\* A job that reports success has left each event of its snapshot, or a newer
\* version of it, in the target, whatever others wrote there and however many
\* jobs failed before.
THEOREM CopyIsComplete == Spec => []CopyComplete
<1>1. CopyInv => CopyComplete
  BY DEF CopyInv, PassedKept, CopyComplete
<1> QED BY <1>1, ShapeInit, CopyNext, PTL DEF Spec

\* No step takes an event out of the target, except for a newer version of it.
THEOREM TargetNeverOlder == Spec => TargetKeeps
<1>1. ASSUME CopyInv, [Next]_vars
      PROVE  [\A e \in db["target"].rows : KeptIn(e, db'["target"].rows)]_vars
  <2>1. DbShape /\ (job = "save" => Scanned \in Events) /\ "target" \in Databases
    BY <1>1, ScannedEvent DEF CopyInv, CopyShape, Databases
  <2>2. \A f \in Events : KeptIn(f, db["target"].rows) => KeptIn(f, db'["target"].rows)
    BY <1>1, <2>1, StepRows
  <2>3. db["target"].rows \subseteq Events
    BY <2>1 DEF DbShape
  <2>4. \A e \in db["target"].rows : KeptIn(e, db["target"].rows)
    BY DEF KeptIn
  <2> QED BY <2>2, <2>3, <2>4
<1> QED BY <1>1, ShapeInit, CopyNext, PTL DEF Spec, TargetKeeps

--------------------------------------------------------------------------
(* Stores that can be used.  An interrupted upgrade leaves a schema whose      *)
(* version still says what the next statement may rely on.                    *)

Core == {"events", "tags", "search"}

\* The schema is what its version says, as far as the steps rely on it.
Fit(s) ==
  /\ s.engine \in {"turso", "postgres"} /\ s.version \in Nat
  /\ s.version >= 1 => {"events", "tags"} \subseteq s.has
  /\ s.version >= 2 => "search" \in s.has
  /\ s.engine = "turso" /\ s.version # 1 => s.index = Exact(s.rows)
  /\ s.version \in 1 .. 5 => "audit" \in s.has
  /\ s.version \in 3 .. 5 => "buckets" \in s.has
  /\ s.engine = "postgres" /\ s.version = 0 => "events" \notin s.has

\* What is left of migrateFresh after its first statements, and of the drops.
Fresh2 == <<Create("tags"), Create("search"), Create("rowmap"), Create("triggers"), SetVersion(8)>>
Fresh3 == <<Create("search"), Create("rowmap"), Create("triggers"), SetVersion(8)>>
Fresh4 == <<Create("rowmap"), Create("triggers"), SetVersion(8)>>
Fresh5 == <<Create("triggers"), SetVersion(8)>>
DropBuckets == Stmt({}, {}, {"buckets", "subsopen"}, 0)
Drop2 == <<DropBuckets, Drop("changelog"), Drop("audit"), SetVersion(7)>>
Drop3 == <<Drop("changelog"), Drop("audit"), SetVersion(7)>>
Drop4 == <<Drop("audit"), SetVersion(7)>>

\* Statements p are left of the step that a fit schema s is in.
Goes(s, p) ==
  \/ p = <<>>
  \/ /\ s.engine = "turso" /\ s.version = 0
     /\ \/ p = Fresh2 /\ "events" \in s.has
        \/ p = Fresh3 /\ {"events", "tags"} \subseteq s.has
        \/ p \in {Fresh4, Fresh5, <<SetVersion(8)>>} /\ Core \subseteq s.has
  \/ s.version \in 2 .. 5 /\ p = <<SetVersion(s.version + 1)>>
     /\ (s.version = 2 => "buckets" \in s.has)
  \/ s.version = 6 /\ p \in {Drop2, Drop3, Drop4, <<SetVersion(7)>>}

\* A database that its upgrade can go on with, or will not begin with.
Sound(d) == Unversioned(db[d]) \/ (Fit(db[d]) /\ Goes(db[d], plan[d]))

\* A database that Open lets through.
Ready(d) == Done(db[d]) /\ Accepted(db[d])

\* What is open, or copied to, was let through.
OpenReady ==
  /\ pc = "open" => Ready("primary")
  /\ job \in Copying => Ready("target")

\* What the preflight said of the target's version is still so.
ToldHolds ==
  /\ told \in {"empty", "behind", "current"} =>
       db["target"].version <= Current(db["target"].engine) /\ ~Unversioned(db["target"])
  /\ told = "ahead" => db["target"].version > Current(db["target"].engine)

UseInv ==
  /\ plan = [d \in Databases |-> plan[d]]
  /\ Sound("target")
  /\ ~was.bare => Sound("primary")
  /\ OpenReady /\ ToldHolds

\* The fields of a statement.
LEMMA StmtFields ==
  ASSUME NEW needs, NEW adds, NEW drops, NEW v
  PROVE  LET stmt == Stmt(needs, adds, drops, v) IN
         /\ stmt.needs = needs /\ stmt.adds = adds /\ stmt.drops = drops
         /\ stmt.version = v /\ stmt.search = "keep"
BY DEF Stmt

\* The fields of a statement that rebuilds or completes the search index.
LEMMA SearchFields ==
  ASSUME NEW needs, NEW adds, NEW drops, NEW v
  PROVE  /\ LET stmt == Rebuilt(Stmt(needs, adds, drops, v)) IN
            /\ stmt.needs = needs /\ stmt.adds = adds /\ stmt.drops = drops
            /\ stmt.version = v /\ stmt.search = "rebuild"
         /\ LET stmt == Completed(Stmt(needs, adds, drops, v)) IN
            /\ stmt.needs = needs /\ stmt.adds = adds /\ stmt.drops = drops
            /\ stmt.version = v /\ stmt.search = "complete"
BY DEF Stmt, Rebuilt, Completed

\* The first statement of a sequence, and the rest.
LEMMA HeadAndTail ==
  ASSUME NEW a, NEW b, NEW c, NEW d, NEW e, NEW f
  PROVE  /\ Head(<<a>>) = a /\ Tail(<<a>>) = <<>> /\ <<a>> # <<>>
         /\ Head(<<a, b>>) = a /\ Tail(<<a, b>>) = <<b>> /\ <<a, b>> # <<>>
         /\ Head(<<a, b, c>>) = a /\ Tail(<<a, b, c>>) = <<b, c>> /\ <<a, b, c>> # <<>>
         /\ Head(<<a, b, c, d>>) = a /\ Tail(<<a, b, c, d>>) = <<b, c, d>> /\ <<a, b, c, d>> # <<>>
         /\ Head(<<a, b, c, d, e>>) = a /\ Tail(<<a, b, c, d, e>>) = <<b, c, d, e>>
         /\ <<a, b, c, d, e>> # <<>>
         /\ Head(<<a, b, c, d, e, f>>) = a /\ Tail(<<a, b, c, d, e, f>>) = <<b, c, d, e, f>>
OBVIOUS

\* A statement finds what it needs, and drops no table that later steps rely on.
Harmless(s, needs, adds, drops) ==
  /\ needs \subseteq s.has
  /\ \A x \in Core : x \notin drops
  /\ s.version \in 1 .. 5 => drops = {}
  /\ s.engine = "postgres" => "events" \notin adds

\* A statement that leaves version and search index alone.
LEMMA KeepStmt ==
  ASSUME NEW s, IsSchema(s), Fit(s), NEW needs, NEW adds, NEW drops,
         Harmless(s, needs, adds, drops)
  PROVE  LET stmt == Stmt(needs, adds, drops, 0)
             t == Apply(stmt, s)
         IN  /\ Runs(stmt, s) /\ Fit(t)
             /\ t.version = s.version /\ t.engine = s.engine
             /\ t.has = (s.has \cup adds) \ drops
<1> DEFINE stmt == Stmt(needs, adds, drops, 0)
           t == Apply(stmt, s)
<1>1. /\ stmt.needs = needs /\ stmt.adds = adds /\ stmt.drops = drops
      /\ stmt.version = 0 /\ stmt.search = "keep"
  BY StmtFields
<1>2. /\ t.engine = s.engine /\ t.rows = s.rows /\ t.has = (s.has \cup stmt.adds) \ stmt.drops
      /\ t.version = (IF stmt.version = 0 THEN s.version ELSE stmt.version)
      /\ t.index = IF \/ stmt.search = "rebuild"
                      \/ stmt.search = "complete" /\ "search" \notin s.has
                   THEN Exact(s.rows) ELSE s.index
  BY ApplyFields
<1>3. Runs(stmt, s)
  BY <1>1 DEF Runs, Harmless
<1> HIDE DEF stmt, t
<1>4. t.version = s.version /\ t.index = s.index /\ t.has = (s.has \cup adds) \ drops
  BY <1>1, <1>2
<1>5. Fit(t)
  BY <1>2, <1>4 DEF Fit, Core, Harmless
<1> QED BY <1>2, <1>3, <1>4, <1>5 DEF stmt, t

\* The same of a statement that only drops tables.
LEMMA DropStmt ==
  ASSUME NEW s, IsSchema(s), Fit(s), NEW drops, drops \cap Core = {}, s.version \notin 1 .. 5
  PROVE  LET stmt == Stmt({}, {}, drops, 0)
             t == Apply(stmt, s)
         IN  /\ Runs(stmt, s) /\ Fit(t)
             /\ t.version = s.version /\ t.engine = s.engine
<1>1. PICK none : none = {}
  OBVIOUS
<1>2. Harmless(s, none, none, drops)
  BY <1>1 DEF Harmless
<1>3. /\ Runs(Stmt(none, none, drops, 0), s) /\ Fit(Apply(Stmt(none, none, drops, 0), s))
      /\ Apply(Stmt(none, none, drops, 0), s).version = s.version
      /\ Apply(Stmt(none, none, drops, 0), s).engine = s.engine
  BY <1>2, KeepStmt
<1> QED BY <1>1, <1>3

\* A statement that only sets the version.
LEMMA VersionStmt ==
  ASSUME NEW s, IsSchema(s), NEW v, v # 0
  PROVE  LET t == Apply(SetVersion(v), s)
         IN  /\ Runs(SetVersion(v), s)
             /\ t.version = v /\ t.engine = s.engine /\ t.has = s.has
             /\ t.index = s.index /\ t.rows = s.rows
<1> DEFINE stmt == SetVersion(v)
           t == Apply(stmt, s)
<1>1. /\ stmt.needs = {} /\ stmt.adds = {} /\ stmt.drops = {}
      /\ stmt.version = v /\ stmt.search = "keep"
  BY StmtFields DEF SetVersion
<1>2. /\ t.engine = s.engine /\ t.rows = s.rows /\ t.has = (s.has \cup stmt.adds) \ stmt.drops
      /\ t.version = (IF stmt.version = 0 THEN s.version ELSE stmt.version)
      /\ t.index = IF \/ stmt.search = "rebuild"
                      \/ stmt.search = "complete" /\ "search" \notin s.has
                   THEN Exact(s.rows) ELSE s.index
  BY ApplyFields
<1>3. Runs(stmt, s)
  BY <1>1 DEF Runs
<1> HIDE DEF stmt, t
<1>4. t.version = v /\ t.index = s.index /\ t.has = s.has
  BY <1>1, <1>2
<1> QED BY <1>2, <1>3, <1>4 DEF stmt, t

\* A statement that succeeds and leaves a schema its upgrade can go on with.
Advances(s, stmt, rest) ==
  /\ Runs(stmt, s)
  /\ Fit(Apply(stmt, s)) /\ Goes(Apply(stmt, s), rest)
  /\ Apply(stmt, s).version <= Current(s.engine)

\* The version is set last.
LEMMA SetAdvances ==
  ASSUME NEW s, IsSchema(s), Fit(s), NEW v \in 3 .. 8,
         \/ v \in 3 .. 7 /\ s.version = v - 1
         \/ v = 8 /\ s.version = 0 /\ s.engine = "turso" /\ Core \subseteq s.has,
         v = 3 => "buckets" \in s.has
  PROVE  Advances(s, SetVersion(v), <<>>)
<1> DEFINE t == Apply(SetVersion(v), s)
<1>1. /\ Runs(SetVersion(v), s)
      /\ t.version = v /\ t.engine = s.engine /\ t.has = s.has
      /\ t.index = s.index /\ t.rows = s.rows
  BY VersionStmt
<1> HIDE DEF t
<1>2. Fit(t)
  BY <1>1 DEF Fit, Core
<1>3. t.version <= Current(s.engine)
  BY <1>1 DEF Current, Fit
<1> QED BY <1>1, <1>2, <1>3 DEF t, Advances, Goes

\* migrateFresh of SQLite, from its start or from where it is.
LEMMA FreshAdvances ==
  ASSUME NEW s, IsSchema(s), Fit(s), s.engine = "turso", s.version = 0,
         NEW p, Goes(s, p)
  PROVE  LET rest == IF p = <<>> THEN TursoFresh ELSE p
         IN  Advances(s, Head(rest), Tail(rest))
<1>0. p \in {<<>>, Fresh2, Fresh3, Fresh4, Fresh5, <<SetVersion(8)>>}
      /\ (p = Fresh2 => "events" \in s.has)
      /\ (p = Fresh3 => {"events", "tags"} \subseteq s.has)
      /\ (p \in {Fresh4, Fresh5, <<SetVersion(8)>>} => Core \subseteq s.has)
  <2>1. /\ <<>> # Fresh2 /\ <<>> # Fresh3 /\ <<>> # Fresh4 /\ <<>> # Fresh5
        /\ <<>> # <<SetVersion(8)>>
    BY HeadAndTail DEF Fresh2, Fresh3, Fresh4, Fresh5
  <2>2. /\ Fresh2 # Fresh3 /\ Fresh2 # Fresh4 /\ Fresh2 # Fresh5 /\ Fresh3 # Fresh4
        /\ Fresh3 # Fresh5 /\ <<SetVersion(8)>> # Fresh2 /\ <<SetVersion(8)>> # Fresh3
    BY DEF Fresh2, Fresh3, Fresh4, Fresh5
  <2>3. \/ p = <<>>
        \/ p = Fresh2 /\ "events" \in s.has
        \/ p = Fresh3 /\ {"events", "tags"} \subseteq s.has
        \/ (p = Fresh4 \/ p = Fresh5 \/ p = <<SetVersion(8)>>) /\ Core \subseteq s.has
    BY DEF Goes
  <2> QED BY <2>1, <2>2, <2>3
<1>1. ASSUME NEW part, NEW rest,
             \A t : /\ t.engine = "turso" /\ t.version = 0
                    /\ t.has = s.has \cup {part}
                    => Goes(t, rest)
      PROVE  Advances(s, Create(part), rest)
  <2> DEFINE t == Apply(Create(part), s)
  <2>1. /\ Runs(Create(part), s) /\ Fit(t)
        /\ t.version = s.version /\ t.engine = s.engine
        /\ t.has = (s.has \cup {part}) \ {}
    <3>1. PICK adds, none : adds = {part} /\ none = {}
      OBVIOUS
    <3>2. Harmless(s, none, adds, none)
      BY <3>1 DEF Harmless
    <3>3. /\ Runs(Stmt(none, adds, none, 0), s) /\ Fit(Apply(Stmt(none, adds, none, 0), s))
          /\ Apply(Stmt(none, adds, none, 0), s).version = s.version
          /\ Apply(Stmt(none, adds, none, 0), s).engine = s.engine
          /\ Apply(Stmt(none, adds, none, 0), s).has = (s.has \cup adds) \ none
      BY <3>2, KeepStmt
    <3> QED BY <3>1, <3>3 DEF Create
  <2> HIDE DEF t
  <2>2. Goes(t, rest)
    BY <1>1, <2>1
  <2>3. t.version <= Current(s.engine)
    BY <2>1 DEF Current
  <2> QED BY <2>1, <2>2, <2>3 DEF t, Advances
<1>2. CASE p = <<>>
  <2>1. Advances(s, Create("events"), Fresh2)
    BY <1>1 DEF Goes
  <2>2. Head(TursoFresh) = Create("events") /\ Tail(TursoFresh) = Fresh2
    BY HeadAndTail DEF TursoFresh, Fresh2
  <2> QED BY <1>2, <2>1, <2>2
<1>3. CASE p = Fresh2
  <2>1. Advances(s, Create("tags"), Fresh3)
    BY <1>0, <1>1, <1>3 DEF Goes
  <2>2. Head(Fresh2) = Create("tags") /\ Tail(Fresh2) = Fresh3 /\ Fresh2 # <<>>
    BY HeadAndTail DEF Fresh2, Fresh3
  <2> QED BY <1>3, <2>1, <2>2
<1>4. CASE p = Fresh3
  <2>1. Advances(s, Create("search"), Fresh4)
    BY <1>0, <1>1, <1>4 DEF Goes, Core
  <2>2. Head(Fresh3) = Create("search") /\ Tail(Fresh3) = Fresh4 /\ Fresh3 # <<>>
    BY HeadAndTail DEF Fresh3, Fresh4
  <2> QED BY <1>4, <2>1, <2>2
<1>5. CASE p = Fresh4
  <2>1. Advances(s, Create("rowmap"), Fresh5)
    BY <1>0, <1>1, <1>5 DEF Goes, Core
  <2>2. Head(Fresh4) = Create("rowmap") /\ Tail(Fresh4) = Fresh5 /\ Fresh4 # <<>>
    BY HeadAndTail DEF Fresh4, Fresh5
  <2> QED BY <1>5, <2>1, <2>2
<1>6. CASE p = Fresh5
  <2>1. Advances(s, Create("triggers"), <<SetVersion(8)>>)
    BY <1>0, <1>1, <1>6 DEF Goes, Core
  <2>2. Head(Fresh5) = Create("triggers") /\ Tail(Fresh5) = <<SetVersion(8)>> /\ Fresh5 # <<>>
    BY HeadAndTail DEF Fresh5
  <2> QED BY <1>6, <2>1, <2>2
<1>7. CASE p = <<SetVersion(8)>>
  <2>1. Advances(s, SetVersion(8), <<>>)
    BY <1>0, <1>7, SetAdvances
  <2> QED BY <1>7, <2>1, HeadAndTail
<1> QED BY <1>0, <1>2, <1>3, <1>4, <1>5, <1>6, <1>7

\* The two statements of the steps from version 2 to 6.
LEMMA MiddleAdvances ==
  ASSUME NEW s, IsSchema(s), Fit(s), s.version \in 2 .. 5, NEW p, Goes(s, p)
  PROVE  LET rest == IF p = <<>> THEN <<V2ToV3, V3ToV4, V4ToV5, V5ToV6>>[s.version - 1] ELSE p
         IN  Advances(s, Head(rest), Tail(rest))
<1>1. ASSUME p # <<>>
      PROVE  p = <<SetVersion(s.version + 1)>> /\ (s.version = 2 => "buckets" \in s.has)
  BY <1>1 DEF Goes
<1>2. ASSUME p # <<>>
      PROVE  Advances(s, Head(p), Tail(p))
  <2>1. Advances(s, SetVersion(s.version + 1), <<>>)
    BY <1>1, <1>2, SetAdvances
  <2> DEFINE a == SetVersion(s.version + 1)
  <2>2. p = <<a>>
    BY <1>1, <1>2
  <2> HIDE DEF a
  <2>3. Head(p) = a /\ Tail(p) = <<>>
    BY <2>2
  <2> QED BY <2>1, <2>3 DEF a
<1>3. ASSUME NEW needs \in SUBSET s.has, NEW adds, "events" \notin adds,
             s.version = 2 => "buckets" \in adds
      PROVE  Advances(s, Stmt(needs, adds, {}, 0), <<SetVersion(s.version + 1)>>)
  <2> DEFINE t == Apply(Stmt(needs, adds, {}, 0), s)
  <2>1. /\ Runs(Stmt(needs, adds, {}, 0), s) /\ Fit(t)
        /\ t.version = s.version /\ t.engine = s.engine
        /\ t.has = (s.has \cup adds) \ {}
    <3>1. Harmless(s, needs, adds, {})
      BY <1>3 DEF Harmless
    <3> QED BY <3>1, KeepStmt
  <2> HIDE DEF t
  <2>2. Goes(t, <<SetVersion(s.version + 1)>>)
    BY <1>3, <2>1 DEF Goes
  <2>3. t.version <= Current(s.engine)
    BY <2>1 DEF Current, Fit
  <2> QED BY <2>1, <2>2, <2>3 DEF t, Advances
<1>4. {"tags", "audit"} \subseteq s.has /\ (s.version >= 3 => "buckets" \in s.has)
  BY DEF Fit
<1>5. CASE p = <<>>
  <2>1. CASE s.version = 2
    <3>1. Advances(s, Create("buckets"), <<SetVersion(3)>>)
      BY <1>3, <2>1 DEF Create
    <3> QED BY <1>5, <2>1, <3>1, HeadAndTail DEF V2ToV3
  <2>2. CASE s.version = 3
    <3>1. Advances(s, Stmt({"buckets"}, {"subsopen"}, {}, 0), <<SetVersion(4)>>)
      BY <1>3, <1>4, <2>2
    <3> QED BY <1>5, <2>2, <3>1, HeadAndTail DEF V3ToV4
  <2>3. CASE s.version = 4
    <3>1. Advances(s, Stmt({"tags", "audit"}, {}, {}, 0), <<SetVersion(5)>>)
      BY <1>3, <1>4, <2>3
    <3> QED BY <1>5, <2>3, <3>1, HeadAndTail DEF V4ToV5
  <2>4. CASE s.version = 5
    <3>1. Advances(s, Create("sessions"), <<SetVersion(6)>>)
      BY <1>3, <2>4 DEF Create
    <3> QED BY <1>5, <2>4, <3>1, HeadAndTail DEF V5ToV6
  <2> QED BY <2>1, <2>2, <2>3, <2>4
<1> QED BY <1>2, <1>5

\* migrateV6ToV7, from its start or from where it is.
LEMMA DropsAdvance ==
  ASSUME NEW s, IsSchema(s), Fit(s), s.version = 6, NEW p, Goes(s, p)
  PROVE  LET rest == IF p = <<>> THEN V6ToV7 ELSE p
         IN  Advances(s, Head(rest), Tail(rest))
<1>0. p = <<>> \/ p = Drop2 \/ p = Drop3 \/ p = Drop4 \/ p = <<SetVersion(7)>>
  BY DEF Goes
<1>1. ASSUME NEW drops, drops \cap Core = {}, NEW rest,
             rest \in {Drop2, Drop3, Drop4, <<SetVersion(7)>>}
      PROVE  Advances(s, Stmt({}, {}, drops, 0), rest)
  <2> DEFINE t == Apply(Stmt({}, {}, drops, 0), s)
  <2>1. s.version \notin 1 .. 5
    OBVIOUS
  <2>3. /\ Runs(Stmt({}, {}, drops, 0), s) /\ Fit(t)
        /\ t.version = s.version /\ t.engine = s.engine
    BY <1>1, <2>1, DropStmt
  <2> HIDE DEF t
  <2>4. Goes(t, rest)
    BY <1>1, <2>3 DEF Goes
  <2>5. t.version <= Current(s.engine)
    BY <2>3 DEF Current, Fit
  <2> QED BY <2>3, <2>4, <2>5 DEF t, Advances
<1>2. CASE p = <<>>
  <2>1. Advances(s, Drop("sessions"), Drop2)
    BY <1>1 DEF Drop, Core
  <2>2. Head(V6ToV7) = Drop("sessions") /\ Tail(V6ToV7) = Drop2
    BY HeadAndTail DEF V6ToV7, Drop2, DropBuckets
  <2> QED BY <1>2, <2>1, <2>2
<1>3. CASE p = Drop2
  <2>1. Advances(s, DropBuckets, Drop3)
    BY <1>1 DEF DropBuckets, Core
  <2>2. Head(Drop2) = DropBuckets /\ Tail(Drop2) = Drop3 /\ Drop2 # <<>>
    BY HeadAndTail DEF Drop2, Drop3
  <2> QED BY <1>3, <2>1, <2>2
<1>4. CASE p = Drop3
  <2>1. Advances(s, Drop("changelog"), Drop4)
    BY <1>1 DEF Drop, Core
  <2>2. Head(Drop3) = Drop("changelog") /\ Tail(Drop3) = Drop4 /\ Drop3 # <<>>
    BY HeadAndTail DEF Drop3, Drop4
  <2> QED BY <1>4, <2>1, <2>2
<1>5. CASE p = Drop4
  <2>1. Advances(s, Drop("audit"), <<SetVersion(7)>>)
    BY <1>1 DEF Drop, Core
  <2>2. Head(Drop4) = Drop("audit") /\ Tail(Drop4) = <<SetVersion(7)>> /\ Drop4 # <<>>
    BY HeadAndTail DEF Drop4
  <2> QED BY <1>5, <2>1, <2>2
<1>6. CASE p = <<SetVersion(7)>>
  <2>1. Advances(s, SetVersion(7), <<>>)
    BY SetAdvances
  <2> QED BY <1>6, <2>1, HeadAndTail
<1> QED BY <1>0, <1>2, <1>3, <1>4, <1>5, <1>6

\* The transactions that make, rebuild or complete the search index, and with
\* it set the version.
LEMMA SearchAdvances ==
  ASSUME NEW s, IsSchema(s), Fit(s)
  PROVE  /\ s.engine = "turso" /\ s.version = 1
              => Advances(s, Rebuilt(Stmt({"events"}, SearchParts, {}, 2)), <<>>)
         /\ s.engine = "postgres" /\ s.version = 1
              => Advances(s, Rebuilt(Stmt({"events"}, {"search"}, {}, 2)), <<>>)
         /\ s.engine = "turso" /\ s.version = 7
              => Advances(s, Completed(Stmt({}, SearchParts, {}, 8)), <<>>)
         /\ s.engine = "postgres" /\ s.version = 0
              => Advances(s, Stmt({}, {"events", "tags", "search"}, {}, 7), <<>>)
<1>1. ASSUME NEW stmt, NEW adds, NEW v \in 2 .. 8, stmt.adds = adds, stmt.drops = {}, stmt.version = v,
             Runs(stmt, s), "search" \in adds, v <= Current(s.engine),
             \/ s.version = 1 /\ v = 2
             \/ v >= 7 /\ {"events", "tags"} \subseteq s.has \cup adds,
             \/ stmt.search = "rebuild"
             \/ s.engine = "turso" /\ s.version = 7
             \/ s.engine = "postgres"
      PROVE  Advances(s, stmt, <<>>)
  <2> DEFINE t == Apply(stmt, s)
  <2>1. /\ t.engine = s.engine /\ t.rows = s.rows /\ t.has = (s.has \cup stmt.adds) \ stmt.drops
        /\ t.version = (IF stmt.version = 0 THEN s.version ELSE stmt.version)
        /\ t.index = IF \/ stmt.search = "rebuild"
                        \/ stmt.search = "complete" /\ "search" \notin s.has
                     THEN Exact(s.rows) ELSE s.index
    BY ApplyFields
  <2> HIDE DEF t
  <2>2. t.version = v /\ t.has = s.has \cup adds
    BY <1>1, <2>1
  <2>3. t.engine = "turso" => t.index = Exact(t.rows)
    BY <1>1, <2>1 DEF Fit
  <2>4. Fit(t)
    BY <1>1, <2>1, <2>2, <2>3 DEF Fit
  <2>5. Goes(t, <<>>)
    BY DEF Goes
  <2> QED BY <1>1, <2>2, <2>4, <2>5 DEF t, Advances
<1>2. ASSUME s.engine = "turso", s.version = 1
      PROVE  Advances(s, Rebuilt(Stmt({"events"}, SearchParts, {}, 2)), <<>>)
  <2> DEFINE stmt == Rebuilt(Stmt({"events"}, SearchParts, {}, 2))
  <2>1. /\ stmt.needs = {"events"} /\ stmt.adds = SearchParts /\ stmt.drops = {}
        /\ stmt.version = 2 /\ stmt.search = "rebuild"
    BY SearchFields
  <2> HIDE DEF stmt
  <2>2. Runs(stmt, s) /\ "search" \in SearchParts /\ 2 <= Current(s.engine)
    BY <1>2, <2>1 DEF Runs, Fit, SearchParts, Current
  <2>3. Advances(s, stmt, <<>>)
    BY <1>1, <1>2, <2>1, <2>2
  <2> QED BY <2>3 DEF stmt
<1>3. ASSUME s.engine = "postgres", s.version = 1
      PROVE  Advances(s, Rebuilt(Stmt({"events"}, {"search"}, {}, 2)), <<>>)
  <2> DEFINE stmt == Rebuilt(Stmt({"events"}, {"search"}, {}, 2))
  <2>1. /\ stmt.needs = {"events"} /\ stmt.adds = {"search"} /\ stmt.drops = {}
        /\ stmt.version = 2 /\ stmt.search = "rebuild"
    BY SearchFields
  <2> HIDE DEF stmt
  <2>2. Runs(stmt, s) /\ 2 <= Current(s.engine)
    BY <1>3, <2>1 DEF Runs, Fit, Current
  <2>3. Advances(s, stmt, <<>>)
    BY <1>1, <1>3, <2>1, <2>2
  <2> QED BY <2>3 DEF stmt
<1>4. ASSUME s.engine = "turso", s.version = 7
      PROVE  Advances(s, Completed(Stmt({}, SearchParts, {}, 8)), <<>>)
  <2> DEFINE stmt == Completed(Stmt({}, SearchParts, {}, 8))
  <2>1. /\ stmt.needs = {} /\ stmt.adds = SearchParts /\ stmt.drops = {}
        /\ stmt.version = 8 /\ stmt.search = "complete"
    BY SearchFields
  <2> HIDE DEF stmt
  <2>2. s.index = Exact(s.rows) /\ {"events", "tags"} \subseteq s.has
    BY <1>4 DEF Fit
  <2>3. \A e \in Events : s.index[e] <= 1
    <3>1. ASSUME NEW e \in Events PROVE Exact(s.rows)[e] \in {0, 1}
      BY DEF Exact
    <3>2. ASSUME NEW e \in Events PROVE s.index[e] <= 1
      <4>1. PICK n \in 0 .. 1 : s.index[e] = n
        BY <2>2, <3>1, <3>2
      <4> QED BY <4>1
    <3> QED BY <3>2
  <2>4. Runs(stmt, s) /\ "search" \in SearchParts /\ 8 <= Current(s.engine)
    BY <1>4, <2>1, <2>3 DEF Runs, SearchParts, Current
  <2>5. Advances(s, stmt, <<>>)
    BY <1>1, <1>4, <2>1, <2>2, <2>4
  <2> QED BY <2>5 DEF stmt
<1>5. ASSUME s.engine = "postgres", s.version = 0
      PROVE  Advances(s, Stmt({}, {"events", "tags", "search"}, {}, 7), <<>>)
  <2> DEFINE stmt == Stmt({}, {"events", "tags", "search"}, {}, 7)
  <2>1. /\ stmt.needs = {} /\ stmt.adds = {"events", "tags", "search"} /\ stmt.drops = {}
        /\ stmt.version = 7 /\ stmt.search = "keep"
    BY StmtFields
  <2> HIDE DEF stmt
  <2>2. Runs(stmt, s) /\ 7 <= Current(s.engine)
    BY <1>5, <2>1 DEF Runs, Current
  <2>3. Advances(s, stmt, <<>>)
    BY <1>1, <1>5, <2>1, <2>2
  <2> QED BY <2>3 DEF stmt
<1> QED BY <1>2, <1>3, <1>4, <1>5

\* Whatever statement a sound database is at, it succeeds and leaves the
\* database sound.
LEMMA StepAdvances ==
  ASSUME NEW s, IsSchema(s), Fit(s), NEW p, Goes(s, p), ~Done(s)
  PROVE  LET rest == IF p = <<>> THEN Todo(s) ELSE p
         IN  Advances(s, Head(rest), Tail(rest))
<1>1. CASE s.engine = "turso"
  <2>0. s.version \in 0 .. 7
    BY <1>1 DEF Done, Current, Fit
  <2>1. Todo(s) = TursoTodo(s)
    BY <1>1 DEF Todo
  <2>2. CASE s.version = 0
    BY <1>1, <2>1, <2>2, FreshAdvances DEF TursoTodo
  <2>3. CASE s.version = 1
    <3>1. p = <<>> /\ Todo(s) = V1ToV2
      BY <2>1, <2>3 DEF Goes, TursoTodo
    <3> QED BY <1>1, <2>3, <3>1, SearchAdvances, HeadAndTail DEF V1ToV2
  <2>4. CASE s.version \in 2 .. 5
    <3>1. Todo(s) = <<V2ToV3, V3ToV4, V4ToV5, V5ToV6>>[s.version - 1]
      BY <2>1, <2>4 DEF TursoTodo
    <3> QED BY <2>4, <3>1, MiddleAdvances
  <2>5. CASE s.version = 6
    <3>1. Todo(s) = V6ToV7
      BY <2>1, <2>5 DEF TursoTodo
    <3> QED BY <2>5, <3>1, DropsAdvance
  <2>6. CASE s.version = 7
    <3>1. p = <<>> /\ Todo(s) = V7ToV8(s) /\ "events" \in s.has
      BY <2>1, <2>6 DEF Goes, TursoTodo, Fit
    <3> QED BY <1>1, <2>6, <3>1, SearchAdvances, HeadAndTail DEF V7ToV8
  <2> QED BY <2>0, <2>2, <2>3, <2>4, <2>5, <2>6
<1>2. CASE s.engine = "postgres"
  <2>0. s.version \in 0 .. 6 /\ (s.version = 0 <=> "events" \notin s.has)
    BY <1>2 DEF Done, Current, Fit
  <2>1. Todo(s) = PostgresTodo(s)
    BY <1>2 DEF Todo
  <2>2. CASE s.version = 0
    <3>1. p = <<>> /\ Todo(s) = PostgresFresh
      BY <1>2, <2>0, <2>1, <2>2 DEF Goes, PostgresTodo
    <3> QED BY <1>2, <2>2, <3>1, SearchAdvances, HeadAndTail DEF PostgresFresh
  <2>3. CASE s.version = 1
    <3>1. p = <<>> /\ Todo(s) = <<Rebuilt(Stmt({"events"}, {"search"}, {}, 2))>>
      BY <2>0, <2>1, <2>3 DEF Goes, PostgresTodo, PostgresSteps
    <3> QED BY <1>2, <2>3, <3>1, SearchAdvances, HeadAndTail
  <2>4. CASE s.version \in 2 .. 5
    <3>1. Todo(s) = <<V2ToV3, V3ToV4, V4ToV5, V5ToV6>>[s.version - 1]
      BY <2>0, <2>1, <2>4 DEF PostgresTodo, PostgresSteps
    <3> QED BY <2>4, <3>1, MiddleAdvances
  <2>5. CASE s.version = 6
    <3>1. Todo(s) = V6ToV7
      BY <2>0, <2>1, <2>5 DEF PostgresTodo, PostgresSteps
    <3> QED BY <2>5, <3>1, DropsAdvance
  <2> QED BY <2>0, <2>2, <2>3, <2>4, <2>5
<1> QED BY <1>1, <1>2 DEF Fit

\* A statement on a sound database, whichever it is.
LEMMA ExecSound ==
  ASSUME DbShape, plan = [c \in Databases |-> plan[c]], NEW d \in Databases, Sound(d), Exec(d)
  PROVE  /\ plan' = [c \in Databases |-> plan'[c]]
         /\ Sound(d)' /\ db'[d].version <= Current(db'[d].engine) /\ ~Unversioned(db'[d])
         /\ \A c \in Databases \ {d} : db'[c] = db[c] /\ plan'[c] = plan[c]
<1> DEFINE rest == IF plan[d] = <<>> THEN Todo(db[d]) ELSE plan[d]
<1>0. Fit(db[d]) /\ Goes(db[d], plan[d]) /\ ~Done(db[d])
  BY DEF Sound, Exec, Done, Unversioned
<1>1. Advances(db[d], Head(rest), Tail(rest))
  BY <1>0, StepAdvances DEF DbShape
<1>2. rest = Step(d)
  BY DEF Step
<1> HIDE DEF rest
<1>3. /\ db'[d] = Apply(Head(rest), db[d]) /\ plan'[d] = Tail(rest)
      /\ plan' = [c \in Databases |-> plan'[c]]
      /\ \A c \in Databases \ {d} : db'[c] = db[c] /\ plan'[c] = plan[c]
  BY <1>2 DEF Exec, DbShape
<1>4. db'[d].engine = db[d].engine
  BY <1>3, ApplyFields DEF DbShape
<1>5. Fit(db'[d]) /\ Goes(db'[d], plan'[d])
  BY <1>1, <1>3 DEF Advances
<1>6. Sound(d)'
  BY <1>5 DEF Sound
<1>7. ~Unversioned(db'[d])
  BY <1>5 DEF Fit, Unversioned
<1> QED BY <1>1, <1>3, <1>4, <1>6, <1>7 DEF Advances

\* No upgrade of a sound database is stuck.
LEMMA SoundRuns ==
  ASSUME DbShape, NEW d \in Databases, Sound(d)
  PROVE  ~ExecFails(d)
<1> SUFFICES ASSUME ~Done(db[d]) PROVE Runs(Head(Step(d)), db[d])
  BY DEF ExecFails
<1> DEFINE rest == IF plan[d] = <<>> THEN Todo(db[d]) ELSE plan[d]
<1>0. Fit(db[d]) /\ Goes(db[d], plan[d])
  BY DEF Sound, Done, Unversioned
<1>1. Advances(db[d], Head(rest), Tail(rest))
  BY <1>0, StepAdvances DEF DbShape
<1> QED BY <1>1 DEF Step, Advances

\* SaveEvent in a database whose upgrade is over.
LEMMA SaveSound ==
  ASSUME DbShape, NEW d \in Databases, NEW e \in Events, e \notin db[d].rows,
         db' = [db EXCEPT ![d] = Saved(@, e)], plan' = plan
  PROVE  /\ db'[d].version = db[d].version /\ db'[d].engine = db[d].engine
         /\ Unversioned(db'[d]) = Unversioned(db[d])
         /\ Sound(d) /\ Done(db[d]) => Sound(d)'
         /\ Ready(d) => Ready(d)'
         /\ \A c \in Databases \ {d} : db'[c] = db[c]
<1>1. /\ db'[d] = Saved(db[d], e) /\ IsSchema(db[d])
      /\ \A c \in Databases \ {d} : db'[c] = db[c]
  BY DEF DbShape
<1>2. PICK s, t : s = db[d] /\ t = db'[d]
  OBVIOUS
<1>3. t.engine = s.engine /\ t.version = s.version /\ t.has = s.has
  <2>1. IsSchema(s) /\ t = Saved(s, e)
    BY <1>1, <1>2
  <2>2. /\ Saved(s, e).engine = s.engine /\ Saved(s, e).version = s.version
        /\ Saved(s, e).has = s.has
    BY <2>1, SavedFields
  <2> QED BY <2>1, <2>2
<1>4. s.index = Exact(s.rows) => t.index = Exact(t.rows)
  BY <1>1, <1>2, SavedExact
<1>5. (Fit(s) /\ Done(s) => Fit(t)) /\ Unversioned(t) = Unversioned(s)
  BY <1>3, <1>4 DEF Fit, Done, Current, Unversioned
<1>6. ASSUME NEW p, Goes(s, p) PROVE Goes(t, p)
  BY <1>3, <1>6 DEF Goes
<1>7. Done(s) /\ Accepted(s) => Done(t) /\ Accepted(t)
  BY <1>3, <1>5 DEF Done, Accepted
<1>8. Fit(db[d]) /\ Goes(db[d], plan[d]) /\ Done(db[d]) => Fit(db'[d]) /\ Goes(db'[d], plan'[d])
  BY <1>2, <1>5, <1>6
<1>9. Done(db[d]) /\ Accepted(db[d]) => Done(db'[d]) /\ Accepted(db'[d])
  BY <1>2, <1>7
<1>10. Sound(d) /\ Done(db[d]) => Sound(d)'
  BY <1>2, <1>5, <1>8 DEF Sound
<1>11. Ready(d) => Ready(d)'
  BY <1>9 DEF Ready
<1> QED BY <1>1, <1>2, <1>3, <1>5, <1>10, <1>11

\* Open lets only databases through that can be used.
LEMMA ReadyUsable ==
  ASSUME NEW d \in Databases, Sound(d), Ready(d)
  PROVE  Usable(d)
<1>1. PICK s : s = db[d]
  OBVIOUS
<1>2. Fit(s) /\ Accepted(s)
  BY <1>1 DEF Sound, Ready, Accepted, Current, Unversioned
<1>3. EventParts(s.engine) \subseteq s.has /\ (s.engine = "turso" => s.index = Exact(s.rows))
  <2>1. CASE s.engine = "turso"
    BY <1>2, <2>1 DEF Fit, Accepted, Current, EventParts, SearchParts
  <2>2. CASE s.engine = "postgres"
    BY <1>2, <2>2 DEF Fit, Accepted, Current, EventParts
  <2> QED BY <1>2, <2>1, <2>2 DEF Fit
<1> QED BY <1>1, <1>3 DEF Usable

\* What releases have left behind is what its version says, if it has one.
LEMMA ReleaseFit ==
  ASSUME NEW e \in {"turso", "postgres"}, NEW rows, NEW s \in EventDatabases(e, rows), s # Bare
  PROVE  Unversioned(s) \/ Fit(s)
<1>1. CASE \E v \in 0 .. Current(e) + 1 :
             s = Schema(e, v, OldParts(e, v), IF v = 0 THEN {} ELSE rows,
                        Exact(IF v < 2 THEN {} ELSE rows))
  <2>1. PICK v \in 0 .. Current(e) + 1 :
             s = Schema(e, v, OldParts(e, v), IF v = 0 THEN {} ELSE rows,
                        Exact(IF v < 2 THEN {} ELSE rows))
    BY <1>1
  <2>2. Current(e) \in {7, 8} /\ v \in Nat
    BY DEF Current
  <2>3. /\ s.engine = e /\ s.version = v /\ s.has = OldParts(e, v)
        /\ s.rows = (IF v = 0 THEN {} ELSE rows) /\ s.index = Exact(IF v < 2 THEN {} ELSE rows)
    BY <2>1, SchemaFields
  <2>4. v # 1 => s.index = Exact(s.rows)
    BY <2>2, <2>3
  <2>5. /\ v >= 1 => {"events", "tags"} \subseteq OldParts(e, v)
        /\ v >= 2 => "search" \in OldParts(e, v)
        /\ v \in 1 .. 5 => "audit" \in OldParts(e, v)
        /\ v \in 3 .. 5 => "buckets" \in OldParts(e, v)
        /\ v = 0 => "events" \notin OldParts(e, v)
    BY <2>2 DEF OldParts, MetaParts
  <2> QED BY <2>2, <2>3, <2>4, <2>5 DEF Fit
<1>2. CASE \E i : s = Schema(e, 1, OldParts(e, 1) \cup {"search"}, rows, i)
  <2>1. PICK i : s = Schema(e, 1, OldParts(e, 1) \cup {"search"}, rows, i)
    BY <1>2
  <2>2. s.engine = e /\ s.version = 1 /\ s.has = OldParts(e, 1) \cup {"search"}
    BY <2>1, SchemaFields
  <2> QED BY <2>2 DEF Fit, OldParts, MetaParts
<1>3. CASE e = "turso" /\ s = Schema(e, 8, {"events", "tags", "search"}, rows, Exact(rows))
  <2>1. /\ s.engine = "turso" /\ s.version = 8 /\ s.has = {"events", "tags", "search"}
        /\ s.rows = rows /\ s.index = Exact(rows)
    BY <1>3, SchemaFields
  <2> QED BY <2>1 DEF Fit
<1>4. CASE e = "postgres" /\ s = Schema(e, 0, {"events", "tags"}, rows, Exact(rows))
  <2>1. s.engine = "postgres" /\ s.version = 0 /\ s.has = {"events", "tags"}
    BY <1>4, SchemaFields
  <2> QED BY <2>1 DEF Unversioned
<1> QED BY <1>1, <1>2, <1>3, <1>4 DEF EventDatabases

\* The bare file is known by what it lacks.
LEMMA NotBare ==
  ASSUME NEW s, ~(s.version = 7 /\ "events" \notin s.has)
  PROVE  s # Bare
BY SchemaFields DEF Bare

\* At the start every database is sound, but for the bare file.
LEMMA UseInit == Init => UseInv
<1> SUFFICES ASSUME Init PROVE UseInv
  OBVIOUS
<1>1. PICK p \in UNION {EventDatabases(e, Old) : e \in Engines}, m \in MetaDatabases, t \in Targets :
        db = [d \in Databases |-> CASE d = "meta" -> m [] d = "primary" -> p [] OTHER -> t]
  BY DEF Init, UpgradeInit
<1>2. db["primary"] = p /\ db["target"] = t
  BY <1>1 DEF Databases
<1>3. plan = [d \in Databases |-> plan[d]] /\ plan["primary"] = <<>> /\ plan["target"] = <<>>
  BY DEF Init, UpgradeInit, NoPlan, Databases
<1>4. Unversioned(t) \/ Fit(t)
  <2>1. PICK e \in {"turso", "postgres"}, rows \in SUBSET (Events \ Ephemeral) :
          t \in EventDatabases(e, rows) \ {Bare}
    BY <1>1, CopyAssumption
  <2> QED BY <2>1, ReleaseFit
<1>5. ASSUME ~was.bare PROVE Unversioned(p) \/ Fit(p)
  <2>1. PICK e \in Engines : p \in EventDatabases(e, Old)
    BY <1>1
  <2>2. was.bare = (p.version = 7 /\ "events" \notin p.has)
    BY <1>2 DEF Init, UpgradeInit
  <2>3. p # Bare
    BY <1>5, <2>2, NotBare
  <2> QED BY <2>1, <2>3, ReleaseFit, UpgradeAssumption
<1>6. Sound("target") /\ (~was.bare => Sound("primary"))
  BY <1>2, <1>3, <1>4, <1>5 DEF Sound, Goes
<1> QED BY <1>3, <1>6 DEF UseInv, OpenReady, ToldHolds, Init, UpgradeInit, Copying

\* Every step keeps the databases sound, and open those that were let through.
LEMMA UseNext == UseInv /\ CopyInv /\ [Next]_vars => UseInv'
<1> SUFFICES ASSUME UseInv, CopyInv, [Next]_vars PROVE UseInv'
  OBVIOUS
<1> USE DEF boot, upgradeVars
<1>0. /\ DbShape /\ "primary" \in Databases /\ "target" \in Databases
      /\ plan = [d \in Databases |-> plan[d]]
      /\ Sound("target") /\ (~was.bare => Sound("primary")) /\ OpenReady /\ ToldHolds
  BY DEF CopyInv, CopyShape, UseInv, Databases
<1>1. ASSUME UNCHANGED <<db, was>>,
             \/ plan' = plan
             \/ plan' = NoPlan
             \/ plan' = [plan EXCEPT !["target"] = <<>>],
             (pc' = "open" => Ready("primary")), (job' \in Copying => Ready("target")), ToldHolds'
      PROVE  UseInv'
  <2>1. plan' = [d \in Databases |-> plan'[d]]
    BY <1>0, <1>1 DEF NoPlan
  <2>2. ASSUME NEW d \in {"primary", "target"} PROVE plan'[d] = plan[d] \/ plan'[d] = <<>>
    BY <1>0, <1>1 DEF NoPlan
  <2>3. ASSUME NEW d \in {"primary", "target"}, Sound(d) PROVE Sound(d)'
    BY <1>1, <2>2, <2>3 DEF Sound, Goes
  <2>4. Sound("target")' /\ (~was'.bare => Sound("primary")')
    BY <1>0, <1>1, <2>3
  <2>5. OpenReady'
    BY <1>1 DEF OpenReady, Ready
  <2> QED BY <1>1, <2>1, <2>4, <2>5 DEF UseInv
<1>2. ASSUME \/ Start \/ MetaFails \/ MetaOpened \/ CopyLegacyAudit \/ CopyLegacyChangelog
             \/ CopyLegacyMetricBuckets \/ CopyLegacyWSSessions \/ CopyTableDone
             \/ CopyFails \/ SchemaFails \/ Opened,
             UNCHANGED copyVars
      PROVE  UseInv'
  <2>1. UNCHANGED <<db, was>> /\ (plan' = plan \/ plan' = NoPlan)
        /\ (pc' = "open" => (pc = "open" \/ Ready("primary")))
    BY <1>2 DEF Start, MetaFails, MetaOpened, CopyLegacyAudit, CopyLegacyChangelog,
       CopyLegacyMetricBuckets, CopyLegacyWSSessions, CopyRow, CopyTableDone, CopyFails,
       SchemaFails, Opened, Exit, Ready
  <2>2. ToldHolds'
    BY <1>0, <1>2, <2>1 DEF ToldHolds, copyVars
  <2> QED BY <1>0, <1>1, <1>2, <2>1, <2>2 DEF copyVars, OpenReady
<1>3. ASSUME NEW d \in Databases, Exec(d)
      PROVE  /\ plan' = [c \in Databases |-> plan'[c]]
             /\ \A c \in Databases \ {d} : db'[c] = db[c] /\ plan'[c] = plan[c]
  BY <1>0, <1>3 DEF Exec, DbShape
<1>4. ASSUME MetaExec \/ SchemaExec, UNCHANGED copyVars PROVE UseInv'
  <2>1. db'["target"] = db["target"] /\ plan'["target"] = plan["target"]
        /\ plan' = [c \in Databases |-> plan'[c]] /\ was' = was /\ pc' = pc
    BY <1>3, <1>4 DEF MetaExec, SchemaExec, Databases
  <2>2. Sound("target")' /\ ToldHolds'
    BY <1>0, <1>4, <2>1 DEF Sound, ToldHolds, copyVars
  <2>3. ~was'.bare => Sound("primary")'
    <3>1. CASE MetaExec
      <4>1. db'["primary"] = db["primary"] /\ plan'["primary"] = plan["primary"]
        BY <1>3, <3>1 DEF MetaExec, Databases
      <4> QED BY <1>0, <2>1, <4>1 DEF Sound
    <3>2. CASE SchemaExec
      BY <1>0, <2>1, <3>2, ExecSound DEF SchemaExec
    <3> QED BY <1>4, <3>1, <3>2
  <2>4. OpenReady'
    BY <1>0, <1>4, <2>1 DEF OpenReady, Ready, MetaExec, SchemaExec, copyVars
  <2> QED BY <2>1, <2>2, <2>3, <2>4 DEF UseInv
<1>5. CASE TargetExec
  <2>1. /\ db'["primary"] = db["primary"] /\ plan'["primary"] = plan["primary"]
        /\ plan' = [c \in Databases |-> plan'[c]] /\ UNCHANGED <<was, pc, job, told>>
        /\ job = "target" /\ ~Done(db["target"])
    BY <1>3, <1>5 DEF TargetExec, Databases, copyVars, Exec
  <2>2. /\ Sound("target")' /\ db'["target"].version <= Current(db'["target"].engine)
        /\ ~Unversioned(db'["target"])
    BY <1>0, <1>5, ExecSound DEF TargetExec
  <2>3. told # "ahead"
    BY <1>0, <2>1 DEF ToldHolds, Done, Sound, Fit, Current, Unversioned
  <2>4. OpenReady' /\ ToldHolds' /\ (~was'.bare => Sound("primary")')
    BY <1>0, <2>1, <2>2, <2>3 DEF OpenReady, Ready, Copying, ToldHolds, Sound
  <2> QED BY <2>1, <2>2, <2>4 DEF UseInv
<1>6. ASSUME NEW d \in {"primary", "target"}, NEW e \in Events, e \notin db[d].rows, Done(db[d]),
             db' = [db EXCEPT ![d] = Saved(@, e)], UNCHANGED <<plan, was, pc, told>>,
             job' \in Copying => job \in Copying
      PROVE  UseInv'
  <2>1. /\ db'[d].version = db[d].version /\ db'[d].engine = db[d].engine
        /\ Unversioned(db'[d]) = Unversioned(db[d])
        /\ Sound(d) /\ Done(db[d]) => Sound(d)'
        /\ Ready(d) => Ready(d)'
        /\ \A c \in Databases \ {d} : db'[c] = db[c]
    BY <1>0, <1>6, SaveSound
  <2>2. ASSUME NEW c \in {"primary", "target"}
        PROVE  (Sound(c) => Sound(c)') /\ (Ready(c) => Ready(c)')
               /\ db'[c].version = db[c].version /\ db'[c].engine = db[c].engine
               /\ Unversioned(db'[c]) = Unversioned(db[c])
    <3>1. CASE c = d
      BY <1>6, <2>1, <3>1
    <3>2. CASE c # d
      <4>1. db'[c] = db[c] /\ plan'[c] = plan[c]
        BY <1>0, <1>6, <2>1, <3>2
      <4> QED BY <4>1 DEF Sound, Ready
    <3> QED BY <3>1, <3>2
  <2>3. ToldHolds'
    BY <1>0, <1>6, <2>2 DEF ToldHolds
  <2>4. OpenReady'
    BY <1>0, <1>6, <2>2 DEF OpenReady
  <2> QED BY <1>0, <1>6, <2>2, <2>3, <2>4 DEF UseInv
<1>7. CASE SaveNew
  <2>1. Scanned \in Events /\ Scanned \notin db["target"].rows
    BY <1>7, ScannedEvent DEF SaveNew, KeptIn
  <2>2. Done(db["target"]) /\ job \in Copying
    BY <1>0, <1>7 DEF SaveNew, OpenReady, Ready, Copying
  <2> QED BY <1>6, <1>7, <2>1, <2>2 DEF SaveNew
<1>8. ASSUME NEW d \in {"primary", "target"}, NEW e \in Events, Publish(d, e) PROVE UseInv'
  BY <1>6, <1>8 DEF Publish, KeptIn, copyVars
<1>9. CASE \/ MigrationStart \/ TargetRefused \/ BeginMigrationSnapshot
           \/ CheckEvent \/ SaveStale \/ SaveDuplicate \/ Verified \/ VerifyFails
           \/ MigrationDone \/ StepFails \/ Die \/ UNCHANGED vars
  <2>1. /\ UNCHANGED <<db, was, told>>
        /\ plan' = plan \/ plan' = NoPlan \/ plan' = [plan EXCEPT !["target"] = <<>>]
        /\ pc' = "open" => pc = "open"
        /\ job' \in Copying => (job \in Copying \/ Ready("target"))
    BY <1>9 DEF MigrationStart, TargetRefused, BeginMigrationSnapshot, CheckEvent, SaveStale,
       SaveDuplicate, Verified, VerifyFails, MigrationDone, StepFails, JobEnds, Die, Crash, vars,
       copyVars, Copying, Ready
  <2>2. ToldHolds'
    BY <1>0, <2>1 DEF ToldHolds
  <2> QED BY <1>0, <1>1, <2>1, <2>2 DEF OpenReady
<1>10. CASE TargetPreflight
  <2>1. PICK s : s = db["target"]
    OBVIOUS
  <2>2. /\ UNCHANGED <<db, was, plan, pc, job>>
        /\ told' = IF s.engine = "turso" THEN TursoPreflight(s) ELSE PostgresPreflight(s)
    BY <1>10, <2>1 DEF TargetPreflight
  <2>3. Unversioned(s) \/ Fit(s)
    BY <1>0, <2>1 DEF Sound
  <2>4. /\ told' \in {"empty", "behind", "current"} =>
             s.version <= Current(s.engine) /\ ~Unversioned(s)
        /\ told' = "ahead" => s.version > Current(s.engine)
    <3>1. CASE s.engine = "turso"
      BY <2>2, <2>3, <3>1 DEF TursoPreflight, VersionStatus, Fit, Current, Unversioned
    <3>2. CASE s.engine = "postgres"
      BY <2>2, <2>3, <3>2 DEF PostgresPreflight, VersionStatus, Fit, Current, Unversioned
    <3> QED BY <2>3, <3>1, <3>2 DEF Fit, Unversioned
  <2>5. ToldHolds'
    BY <2>1, <2>2, <2>4 DEF ToldHolds
  <2> QED BY <1>0, <1>1, <2>2, <2>5 DEF OpenReady
<1> QED BY <1>2, <1>4, <1>5, <1>7, <1>8, <1>9, <1>10 DEF Next, Boot, Job

\* A store that is opened, or promised to open, can be used: every table is
\* there, and the search index has each event once, however often an upgrade
\* was interrupted between two statements; no upgrade the preflight allowed
\* fails for the state of the schema.
THEOREM OpenStoresUsable == Spec => []StoreUsable
<1>1. ASSUME UseInv, CopyInv PROVE StoreUsable
  <2>0. DbShape /\ "primary" \in Databases /\ "target" \in Databases
    BY <1>1 DEF CopyInv, CopyShape, Databases
  <2>1. OpenIsUsable
    BY <1>1, <2>0, ReadyUsable DEF UseInv, OpenReady, OpenIsUsable, Copying
  <2>2. ~ExecFails("target")
    BY <1>1, <2>0, SoundRuns DEF UseInv
  <2>3. PICK s : s = db["target"]
    OBVIOUS
  <2>4. Unversioned(s) \/ Fit(s)
    BY <1>1, <2>3 DEF UseInv, Sound
  <2>5. s.version <= Current(s.engine) /\ ~Unversioned(s) => (Refused(s) => s.version = 8)
    BY <2>4 DEF Refused, Done, Accepted, Fit, Current
  <2>6. s.version > Current(s.engine) => Refused(s)
    BY <2>4 DEF Refused, Done, Accepted, Fit, Current, Unversioned
  <2>7. PreflightHolds
    BY <1>1, <2>2, <2>3, <2>5, <2>6 DEF UseInv, ToldHolds, PreflightHolds
  <2> QED BY <2>1, <2>7 DEF StoreUsable
<1>2. Init => UseInv /\ CopyInv
  BY UseInit, ShapeInit
<1>3. UseInv /\ CopyInv /\ [Next]_vars => UseInv' /\ CopyInv'
  BY UseNext, CopyNext
<1> QED BY <1>1, <1>2, <1>3, PTL DEF Spec
============================================================================
