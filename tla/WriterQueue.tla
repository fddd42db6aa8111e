---------------------------- MODULE WriterQueue ----------------------------
(***************************************************************************)
(* The single-writer queue of the SQLite and libSQL stores: the callers of *)
(* RunWrite, the supervised writer goroutine with its reconnects and its   *)
(* retry, the goroutine that runs a task's native call, and Close.         *)
(*                                                                         *)
(* A task is one call of RunWrite.  A step is one channel operation, one   *)
(* lock region or one read of a context.  What a task writes is reduced to *)
(* whether it was committed.  The supervisor restarts the loop only after  *)
(* a panic outside a task, which no statement of the loop can raise.       *)
(***************************************************************************)
EXTENDS Naturals, Sequences, FiniteSets

CONSTANTS
    Tasks,     \* calls of RunWrite
    NoTask,    \* no task
    QueueCap   \* capacity of Queue.writes

ASSUME WriterAssumption ==
    /\ Tasks # {} /\ IsFiniteSet(Tasks)
    /\ NoTask \notin Tasks
    /\ QueueCap \in Nat \ {0}

\* What RunWrite returns: nil, an error of the task or of a reconnect, the
\* error of the caller's context, the task timeout, the store closed.
Results == {"ok", "failed", "ctx", "timeout", "closed"}

\* What a native call returns: nil, an error, an error isReconnectable accepts.
Outcomes == {"ok", "failed", "io"}

VARIABLES
    caller,    \* where each RunWrite is
    result,    \* what it returned, "none" before
    ctxDone,   \* tasks whose caller's context is done
    done,      \* task.done, a channel of capacity 1: "none" if empty
    writes,    \* Queue.writes
    stage,     \* where the writer goroutine is
    cur,       \* the task it executes
    attempt,   \* how often it has called runTaskOnce for it
    notified,  \* notifyCaller was called for it
    linked,    \* the AfterFunc of the queue's context has cancelled its context
    reason,    \* why it reconnects
    calls,     \* tasks with a native call in flight
    returned,  \* what a native call returned and the writer has not read
    committed, \* tasks whose write was committed
    handle,    \* Queue.db and Queue.sqldb: "open", or "nil" when closed
    closing    \* how far Close has come

callers == <<caller, result, ctxDone>>
task    == <<cur, attempt, notified, linked, reason>>
native  == <<calls, returned, committed>>
writerVars == <<callers, done, writes, stage, task, native, handle, closing>>

WriterInit ==
    /\ caller = [t \in Tasks |-> "idle"]
    /\ result = [t \in Tasks |-> "none"]
    /\ ctxDone = {}
    /\ done = [t \in Tasks |-> "none"]
    /\ writes = <<>>
    /\ stage = "loop"
    /\ cur = NoTask
    /\ attempt = 0
    /\ notified = FALSE
    /\ linked = FALSE
    /\ reason = "none"
    /\ calls = {}
    /\ returned = [t \in Tasks |-> "none"]
    /\ committed = {}
    /\ handle = "open"
    /\ closing = "open"

shutdown == closing # "open"
baseDone == closing \in {"cancelled", "closed"}

-----------------------------------------------------------------------------
(* RunWrite. *)

Return(t, r) ==
    /\ caller' = [caller EXCEPT ![t] = "returned"]
    /\ result' = [result EXCEPT ![t] = r]

\* The early returns; the last check passed, the task is made.
RunWrite(t) ==
    /\ caller[t] = "idle"
    /\ IF shutdown THEN Return(t, "closed")
       ELSE IF t \in ctxDone THEN Return(t, "ctx")
       ELSE caller' = [caller EXCEPT ![t] = "enqueue"] /\ UNCHANGED result
    /\ UNCHANGED <<ctxDone, done, writes, stage, task, native, handle, closing>>

\* First select, case q.writes <- t; it may be taken although the queue closes.
Enqueue(t) ==
    /\ caller[t] = "enqueue"
    /\ Len(writes) < QueueCap
    /\ writes' = Append(writes, t)
    /\ caller' = [caller EXCEPT ![t] = "wait"]
    /\ UNCHANGED <<result, ctxDone, done, stage, task, native, handle, closing>>

\* Second select, case err := <-t.done.
Answered(t) ==
    /\ caller[t] = "wait"
    /\ done[t] # "none"
    /\ Return(t, done[t])
    /\ done' = [done EXCEPT ![t] = "none"]
    /\ UNCHANGED <<ctxDone, writes, stage, task, native, handle, closing>>

\* Either select, case <-ctx.Done().
GivesUp(t) ==
    /\ caller[t] \in {"enqueue", "wait"}
    /\ t \in ctxDone
    /\ Return(t, "ctx")
    /\ UNCHANGED <<ctxDone, done, writes, stage, task, native, handle, closing>>

\* Mutant: the wait for the answer has no case for the queue's context.
SeesCloseEarly(t) ==
    /\ caller[t] = "enqueue"
    /\ baseDone
    /\ Return(t, "closed")
    /\ UNCHANGED <<ctxDone, done, writes, stage, task, native, handle, closing>>

\* Either select, case <-q.baseCtx.Done().
SeesClose(t) ==
    /\ caller[t] \in {"enqueue", "wait"}
    /\ baseDone
    /\ Return(t, "closed")
    /\ UNCHANGED <<ctxDone, done, writes, stage, task, native, handle, closing>>

\* The context given to RunWrite is cancelled or expires.
CancelCaller(t) ==
    /\ caller[t] # "returned"
    /\ t \notin ctxDone
    /\ ctxDone' = ctxDone \cup {t}
    /\ UNCHANGED <<caller, result, done, writes, stage, task, native, handle, closing>>

-----------------------------------------------------------------------------
(* The writer goroutine: its loop and executeTask. *)

\* The context executeTask derives from the caller's is done.
TaskCtxDone == cur \in ctxDone \/ linked

\* t.done <- e blocks while the channel is full.
Notify(t, e) ==
    /\ done[t] = "none"
    /\ done' = [done EXCEPT ![t] = e]

\* The deferred notifyCaller of executeTask, and the return to the loop.
Finish(e) ==
    /\ IF notified THEN UNCHANGED done ELSE Notify(cur, e)
    /\ stage' = "loop"
    /\ cur' = NoTask
    /\ attempt' = 0
    /\ notified' = FALSE
    /\ linked' = FALSE
    /\ reason' = "none"

Goto(label) == stage' = label /\ UNCHANGED <<cur, attempt, notified, linked, reason, done>>

\* A call of reconnect; r is what follows when it has returned.
Reconnect(r) ==
    /\ stage' = "reconnect"
    /\ reason' = r
    /\ UNCHANGED <<cur, attempt, notified, linked, done>>

Take ==
    /\ stage = "loop"
    /\ writes # <<>>
    /\ stage' = "taken"
    /\ cur' = Head(writes)
    /\ writes' = Tail(writes)
    /\ UNCHANGED <<callers, done, attempt, notified, linked, reason, native, handle, closing>>

\* context.AfterFunc(q.baseCtx, cancel) runs in a goroutine of its own.
AfterFunc ==
    /\ cur # NoTask
    /\ baseDone
    /\ ~linked
    /\ linked' = TRUE
    /\ UNCHANGED <<callers, done, writes, stage, cur, attempt, notified, reason,
                   native, handle, closing>>

\* Mutant: executeTask relies on the derived context alone.
CheckBaseDropped ==
    /\ stage = "taken"
    /\ Goto("checked")
    /\ UNCHANGED <<callers, writes, native, handle, closing>>

CheckBase ==
    /\ stage = "taken"
    /\ IF baseDone THEN Finish("closed") ELSE Goto("checked")
    /\ UNCHANGED <<callers, writes, native, handle, closing>>

CheckCtx ==
    /\ stage = "checked"
    /\ IF TaskCtxDone THEN Finish("ctx") ELSE Goto("ping")
    /\ UNCHANGED <<callers, writes, native, handle, closing>>

\* A connection in use or slow to answer counts as healthy.
PingOK ==
    /\ stage = "ping"
    /\ handle = "open"
    /\ Goto("once")
    /\ UNCHANGED <<callers, writes, native, handle, closing>>

PingFails ==
    /\ stage = "ping"
    /\ IF TaskCtxDone THEN Finish("ctx")
       ELSE Reconnect("ping")
    /\ UNCHANGED <<callers, writes, native, handle, closing>>

\* reconnect closes both handles under dbMu ...
ReconnectCloses ==
    /\ stage = "reconnect"
    /\ handle' = "nil"
    /\ Goto("reopen")
    /\ UNCHANGED <<callers, writes, native, closing>>

\* ... and opens new ones.  After a hard timeout the task is not repeated.
Reopened ==
    /\ stage = "reopen"
    /\ handle' = "open"
    /\ IF reason = "timeout" THEN Finish("timeout")
       ELSE /\ stage' = "once"
            /\ reason' = "none"
            /\ UNCHANGED <<cur, attempt, notified, linked, done>>
    /\ UNCHANGED <<callers, writes, native, closing>>

\* No DSN, no opener, or the database cannot be opened.
ReopenFails ==
    /\ stage = "reopen"
    /\ Finish("failed")
    /\ UNCHANGED <<callers, writes, native, handle, closing>>

-----------------------------------------------------------------------------
(* runTaskOnce and the native call. *)

RunTaskOnce ==
    /\ stage = "once"
    /\ handle = "open"
    /\ ~TaskCtxDone
    /\ stage' = "call"
    /\ attempt' = attempt + 1
    /\ calls' = calls \cup {cur}
    /\ UNCHANGED <<callers, done, writes, cur, notified, linked, reason,
                   returned, committed, handle, closing>>

RunTaskRefused ==
    /\ stage = "once"
    /\ ~(handle = "open" /\ ~TaskCtxDone)
    /\ Finish(IF TaskCtxDone THEN "ctx" ELSE "failed")
    /\ UNCHANGED <<callers, writes, native, handle, closing>>

\* Mutant: the recovered panic of a task leaves its error nil.
CallReturnsPanicIsNil(t) ==
    /\ t \in calls
    /\ calls' = calls \ {t}
    /\ returned' = [returned EXCEPT ![t] = "ok"]
    /\ committed' \in {committed, committed \cup {t}}
    /\ UNCHANGED <<callers, done, writes, stage, task, handle, closing>>

\* t.run returns or panics.  An error may hide a commit that took place.
CallReturns(t) ==
    /\ t \in calls
    /\ calls' = calls \ {t}
    /\ \E o \in Outcomes, commits \in BOOLEAN :
          /\ o = "ok" => commits
          /\ returned' = [returned EXCEPT ![t] = o]
          /\ committed' = IF commits THEN committed \cup {t} ELSE committed
    /\ UNCHANGED <<callers, done, writes, stage, task, handle, closing>>

ReadReturned == returned' = [returned EXCEPT ![cur] = "none"]

\* Mutant: the flag notified is not set.
InterruptForgets ==
    /\ stage = "call"
    /\ \E e \in {"ctx", "timeout"} : (e = "ctx" => TaskCtxDone) /\ Notify(cur, e)
    /\ stage' = "await"
    /\ UNCHANGED <<callers, writes, task, native, handle, closing>>

\* Mutant: the handles are closed to make the call return.
InterruptCloses ==
    /\ stage = "call"
    /\ \E e \in {"ctx", "timeout"} : (e = "ctx" => TaskCtxDone) /\ Notify(cur, e)
    /\ notified' = TRUE
    /\ stage' = "await"
    /\ handle' = "nil"
    /\ UNCHANGED <<callers, writes, cur, attempt, linked, reason, native, closing>>

\* select, case <-runCtx.Done(): the caller is told at once.
Interrupt ==
    /\ stage = "call"
    /\ \E e \in {"ctx", "timeout"} : (e = "ctx" => TaskCtxDone) /\ Notify(cur, e)
    /\ notified' = TRUE
    /\ stage' = "await"
    /\ UNCHANGED <<callers, writes, cur, attempt, linked, reason, native, handle, closing>>

\* select, case res := <-done: an I/O error of the first attempt is retried.
CallDone ==
    /\ stage = "call"
    /\ returned[cur] # "none"
    /\ ReadReturned
    /\ IF returned[cur] = "io" /\ attempt = 1 /\ ~TaskCtxDone
       THEN Reconnect("retry")
       ELSE Finish(IF returned[cur] = "io" THEN "failed" ELSE returned[cur])
    /\ UNCHANGED <<callers, writes, calls, committed, handle, closing>>

\* Mutant: the wait for the call ends with reconnectTimeout.
AwaitBounded ==
    /\ stage = "await"
    /\ IF TaskCtxDone THEN Finish("ctx")
       ELSE Reconnect("timeout")
    /\ UNCHANGED <<callers, writes, native, handle, closing>>

\* After an interrupt the writer waits for the call however long it takes.
AwaitDone ==
    /\ stage = "await"
    /\ returned[cur] # "none"
    /\ ReadReturned
    /\ IF TaskCtxDone THEN Finish("ctx")
       ELSE Reconnect("timeout")
    /\ UNCHANGED <<callers, writes, calls, committed, handle, closing>>

-----------------------------------------------------------------------------
(* Close. *)

CloseBegins ==
    /\ closing = "open"
    /\ closing' = "stored"
    /\ UNCHANGED <<callers, done, writes, stage, task, native, handle>>

CloseCancels ==
    /\ closing = "stored"
    /\ closing' = "cancelled"
    /\ UNCHANGED <<callers, done, writes, stage, task, native, handle>>

\* writerLoop, case <-ctx.Done().
LoopSeesClose ==
    /\ stage = "loop"
    /\ baseDone
    /\ Goto("drain")
    /\ UNCHANGED <<callers, writes, native, handle, closing>>

DrainOne ==
    /\ stage = "drain"
    /\ writes # <<>>
    /\ Notify(Head(writes), "closed")
    /\ writes' = Tail(writes)
    /\ UNCHANGED <<callers, stage, task, native, handle, closing>>

DrainEnds ==
    /\ stage = "drain"
    /\ writes = <<>>
    /\ Goto("exited")
    /\ UNCHANGED <<callers, writes, native, handle, closing>>

\* Mutant: Close does not wait for the writer goroutine.
CloseEndsAtOnce ==
    /\ closing = "cancelled"
    /\ closing' = "closed"
    /\ handle' = "nil"
    /\ UNCHANGED <<callers, done, writes, stage, task, native>>

\* wg.Wait, then the checkpoint and the handles.
CloseEnds ==
    /\ closing = "cancelled"
    /\ stage = "exited"
    /\ closing' = "closed"
    /\ handle' = "nil"
    /\ UNCHANGED <<callers, done, writes, stage, task, native>>

-----------------------------------------------------------------------------
Caller(t) == RunWrite(t) \/ Enqueue(t) \/ Answered(t) \/ GivesUp(t) \/ SeesClose(t)

Execute ==
    \/ CheckBase \/ CheckCtx \/ PingOK \/ PingFails
    \/ ReconnectCloses \/ Reopened \/ ReopenFails
    \/ RunTaskOnce \/ RunTaskRefused \/ Interrupt \/ CallDone \/ AwaitDone

Writer == Take \/ Execute \/ LoopSeesClose \/ DrainOne \/ DrainEnds

Closer == CloseBegins \/ CloseCancels \/ CloseEnds

WriterNext ==
    \/ \E t \in Tasks : Caller(t) \/ CancelCaller(t) \/ CallReturns(t)
    \/ Writer
    \/ AfterFunc
    \/ Closer

WriterSpec == WriterInit /\ [][WriterNext]_writerVars

\* Goroutines are scheduled, a native call returns; contexts need not be
\* cancelled and nobody has to call RunWrite or Close.
Fairness ==
    /\ \A t \in Tasks :
          /\ WF_writerVars(Enqueue(t) \/ Answered(t) \/ GivesUp(t) \/ SeesClose(t))
          /\ WF_writerVars(CallReturns(t))
    /\ WF_writerVars(Writer)
    /\ WF_writerVars(CloseCancels \/ CloseEnds)

FairWriterSpec == WriterSpec /\ Fairness

-----------------------------------------------------------------------------
(* Properties. *)

\* Every variable has its type; the queue never exceeds its capacity.
TypeOK ==
    /\ caller \in [Tasks -> {"idle", "enqueue", "wait", "returned"}]
    /\ result \in [Tasks -> Results \cup {"none"}]
    /\ ctxDone \subseteq Tasks
    /\ done \in [Tasks -> Results \cup {"none"}]
    /\ writes \in Seq(Tasks) /\ Len(writes) <= QueueCap
    /\ stage \in {"loop", "taken", "checked", "ping", "reconnect", "reopen",
                  "once", "call", "await", "drain", "exited"}
    /\ cur \in Tasks \cup {NoTask}
    /\ attempt \in 0 .. 2
    /\ notified \in BOOLEAN /\ linked \in BOOLEAN
    /\ reason \in {"none", "ping", "retry", "timeout"}
    /\ calls \subseteq Tasks
    /\ returned \in [Tasks -> Outcomes \cup {"none"}]
    /\ committed \subseteq Tasks
    /\ handle \in {"open", "nil"}
    /\ closing \in {"open", "stored", "cancelled", "closed"}

\* One native call is in flight at most, and the writer executes its task:
\* runTaskOnce returns only when the call has, timeouts included.
OneCallAtATime == calls \subseteq {cur} /\ NoTask \notin calls

\* Neither a reconnect nor Close takes the handles from a native call.
HandleHeld == calls # {} => handle = "open"

\* RunWrite returns nil only for a write that was committed.
SuccessIsReal == \A t \in Tasks : result[t] = "ok" => t \in committed

\* The writer never blocks when it answers a task: the one place of the
\* channel is free for the one answer a task gets.
AnswerFits ==
    /\ cur # NoTask /\ ~notified => done[cur] = "none"
    /\ \A i \in 1 .. Len(writes) : done[writes[i]] = "none"

\* Close returns when no native call runs, and nothing is written afterwards.
CloseIsFinal == closing = "closed" => calls = {} /\ stage = "exited"

\* What the single writer guarantees about its native calls.
NativeCallsSafe == OneCallAtATime /\ HandleHeld /\ CloseIsFinal

\* What it guarantees about the answers of RunWrite.
AnswersHonest == SuccessIsReal /\ AnswerFits

\* Its caller's context or the queue's is done before the writer takes it.
Doomed(t) ==
    /\ \E i \in 1 .. Len(writes) : writes[i] = t
    /\ t \in ctxDone \/ baseDone

\* A task that is doomed while it is queued is never run.
DoomedNeverRuns == \A t \in Tasks : [](Doomed(t) => [](t \notin calls))

\* Every RunWrite returns, however its task fares: committed, failed, timed
\* out, cancelled, or overtaken by Close.
WritesReturn == \A t \in Tasks : caller[t] = "enqueue" ~> caller[t] = "returned"

\* Close returns.
CloseReturns == closing = "stored" ~> closing = "closed"

\* Nobody waits for ever on the writer.
AllReturn == WritesReturn /\ CloseReturns
=============================================================================
