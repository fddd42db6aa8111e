------------------------------ MODULE Plugins ------------------------------
(***************************************************************************)
(* One plugin of the relay: its package on disk, the manager that enables, *)
(* disables, installs, removes and configures it, the goroutine of every   *)
(* instance that spawns and watches its process, and the traffic of the    *)
(* relay that reaches it.                                                  *)
(*                                                                         *)
(* Admin requests run one at a time (cfgMu).  Manager.mu is held by every  *)
(* short critical section, which is one step here, and for the whole of    *)
(* stop(), which is not: it is taken while stopper.pc # "none".  Versions, *)
(* archives, socket paths, frames and their conversions are left out.      *)
(***************************************************************************)
EXTENDS Integers

CONSTANTS
    Settings,    \* settings documents
    Default,     \* the settings of a plugin that has none
    ListenCap,   \* listenQueueSize
    LogCap,      \* interceptLogQueueSize
    LogSize,     \* intercept_log_size of the configuration
    Limits,      \* intercept log sizes an administrator chooses from
    MaxInst,     \* bound of the model: instances ever created
    MaxOps,      \* bound of the model: admin requests, REQs, observed messages, Stop
    MaxFaults    \* bound of the model: things that go wrong

ASSUME PluginsAssumption ==
    /\ Default \in Settings
    /\ ListenCap \in Nat \ {0} /\ LogCap \in Nat \ {0}
    /\ Limits \subseteq Nat /\ LogSize \in Limits
    /\ MaxInst \in Nat \ {0} /\ MaxOps \in Nat /\ MaxFaults \in Nat

Insts   == 1 .. MaxInst
Content == {"none", "fresh", "user"}   \* of a data directory

VARIABLES
    cfg,      \* the item of cfg.Plugins.Items
    disk,     \* the same in the configuration file
    ctx,      \* the manager's context: "up", "cancelled", "stopped" (Stop was called)
    cur,      \* m.inst[id], 0 if there is none
    made,     \* instances created so far
    inst,     \* inst[i]: instance i, its goroutine and its process
    stopper,  \* the stop() under way
    admin,    \* the admin request under way
    pkg,      \* package directory: "absent", "bare" (no plugin.json) or "whole"
    data,     \* content of its data directory
    keep,     \* content of the temporary directory of the request under way
    strays,   \* contents of temporary directories left behind
    req,      \* the REQ being offered to the plugin
    log,      \* the intercept log: limit, rows, queue and worker
    ops, faults,
    late      \* history: the last row was added under an outdated limit

files == <<pkg, data, keep, strays>>
procs == <<cur, made, inst, stopper>>
relay == <<req, log, late>>
vars  == <<cfg, disk, ctx, procs, admin, files, relay, ops, faults>>

NoItem   == [known |-> FALSE, enabled |-> FALSE, settings |-> Default]
Idle     == [op |-> "none", pc |-> "idle", flag |-> FALSE, settings |-> Default, target |-> 0]
NoStop   == [pc |-> "none", target |-> 0]
muFree   == stopper.pc = "none"

\* An instance nobody has created, or one that Enable is about to start.
NewInstance(s) ==
    [pc |-> "head", state |-> "starting", stopped |-> FALSE, client |-> FALSE,
     proc |-> "none", settings |-> s, subs |-> FALSE, queue |-> 0,
     raced |-> FALSE]

\* Nothing installed, or an enabled plugin with data that Start has just started.
Init ==
    /\ ctx = "up" /\ stopper = NoStop /\ admin = Idle
    /\ keep = "none" /\ strays = {}
    /\ req = [pc |-> "idle", target |-> 0]
    /\ log = [limit |-> LogSize, rows |-> 0, queue |-> 0, pc |-> "idle", seen |-> 0]
    /\ ops = 0 /\ faults = 0 /\ late = FALSE
    /\ inst = [i \in Insts |-> NewInstance(Default)]
    /\ \/ cfg = NoItem /\ cur = 0 /\ made = 0 /\ pkg = "absent" /\ data = "none"
       \/ /\ cfg = [known |-> TRUE, enabled |-> TRUE, settings |-> Default]
          /\ cur = 1 /\ made = 1 /\ pkg = "whole" /\ data = "user"
    /\ disk = cfg

Op    == ops < MaxOps /\ ops' = ops + 1
Fault == faults < MaxFaults /\ faults' = faults + 1
NoFault == UNCHANGED faults

-----------------------------------------------------------------------------
(* The goroutine of an instance: loop, spawnAndHandshake, waitUntilDead. *)

Running(i) == i <= made

\* Mutant: the manager's context is not derived from the one main cancels.
CtxDoneOwn == ctx = "stopped"

CtxDone == ctx # "up"

InstStep(i, new) ==
    /\ inst' = [inst EXCEPT ![i] = new]
    /\ UNCHANGED <<cfg, disk, ctx, cur, made, stopper, admin, files, relay, ops>>

LoopHead(i) ==
    /\ Running(i) /\ inst[i].pc = "head"
    /\ InstStep(i, IF inst[i].stopped \/ CtxDone
                   THEN [inst[i] EXCEPT !.pc = "ended"]
                   ELSE [inst[i] EXCEPT !.pc = "start", !.state = "starting"])
    /\ NoFault

\* setDegraded and the wait before the next attempt.
Failed(i) == [inst[i] EXCEPT !.pc = "backoff", !.state = "degraded",
                             !.proc = IF @ = "none" THEN "none" ELSE "dead"]

\* The launch hook, the executable and the start of the process.
Spawn(i) ==
    /\ Running(i) /\ inst[i].pc = "start"
    /\ \/ /\ pkg = "whole" /\ ~CtxDone
          /\ InstStep(i, [inst[i] EXCEPT !.pc = "dial", !.proc = "alive"])
          /\ NoFault
       \/ /\ IF pkg = "whole" /\ ~CtxDone THEN Fault ELSE NoFault
          /\ InstStep(i, Failed(i))

\* waitDialPlugin and the handshake.
Handshake(i) ==
    /\ Running(i) /\ inst[i].pc = "dial"
    /\ \/ /\ inst[i].proc = "alive" /\ ~CtxDone
          /\ InstStep(i, [inst[i] EXCEPT !.pc = "publish"])
          /\ NoFault
       \/ /\ IF inst[i].proc = "alive" /\ ~CtxDone THEN Fault ELSE NoFault
          /\ InstStep(i, Failed(i))

\* Only now does the instance know its process: until here stop() finds none.
Publish(i) ==
    /\ Running(i) /\ inst[i].pc = "publish"
    /\ InstStep(i, [inst[i] EXCEPT !.pc = "watch", !.client = TRUE,
                                   !.subs = TRUE, !.state = "ready"])
    /\ NoFault

\* The process has ended, the context is done, or a health check finds no client or fails.
WaitUntilDead(i) ==
    /\ Running(i) /\ inst[i].pc = "watch"
    /\ IF inst[i].proc = "dead" \/ CtxDone \/ ~inst[i].client THEN NoFault ELSE Fault
    /\ InstStep(i, [inst[i] EXCEPT !.pc = "teardown"])

\* Mutant: the process is forgotten before it is cancelled.
TornDownForgets(r) ==
    [r EXCEPT !.state = IF @ = "ready" THEN "degraded" ELSE @, !.client = FALSE]

\* Critical section of teardownProc: a process that was known is cancelled.
TornDown(r) ==
    [r EXCEPT !.state = IF @ = "ready" THEN "degraded" ELSE @,
              !.proc = IF r.client /\ @ = "alive" THEN "doomed" ELSE @,
              !.client = FALSE]

\* The signals that follow it: the process is gone when they have been sent.
Killed(r) == [r EXCEPT !.proc = IF @ = "doomed" THEN "dead" ELSE @]

\* What loop does after its teardownProc.
TurnsTo(r) == IF r.stopped \/ CtxDone THEN [r EXCEPT !.pc = "ended"]
                                      ELSE [r EXCEPT !.pc = "head", !.state = "degraded"]

\* Signals go to the process this teardown took from the instance; when stop()
\* took it before, there is nothing to signal.
LoopTeardown(i) ==
    /\ Running(i) /\ inst[i].pc = "teardown"
    /\ InstStep(i, IF inst[i].client THEN [TornDown(inst[i]) EXCEPT !.pc = "kill"]
                                     ELSE TurnsTo(TornDown(inst[i])))
    /\ NoFault

LoopKill(i) ==
    /\ Running(i) /\ inst[i].pc = "kill"
    /\ InstStep(i, TurnsTo(Killed(inst[i])))
    /\ NoFault

\* Mutant: a failed start is not repeated.
BackoffEnds(i) ==
    /\ Running(i) /\ inst[i].pc = "backoff"
    /\ InstStep(i, [inst[i] EXCEPT !.pc = "ended"])
    /\ NoFault

Backoff(i) ==
    /\ Running(i) /\ inst[i].pc = "backoff"
    /\ InstStep(i, [inst[i] EXCEPT !.pc = IF CtxDone THEN "ended" ELSE "head"])
    /\ NoFault

\* os/exec kills the process of a cancelled context; every process context is
\* derived from the manager's.
Reap(i) ==
    /\ Running(i)
    /\ inst[i].proc = "doomed" \/ (inst[i].proc = "alive" /\ CtxDone)
    /\ InstStep(i, [inst[i] EXCEPT !.proc = "dead"])
    /\ NoFault

\* The process ends on its own account.
Crash(i) ==
    /\ Running(i) /\ inst[i].proc = "alive"
    /\ Fault
    /\ InstStep(i, [inst[i] EXCEPT !.proc = "dead"])

LoopSteps(i) ==
    \/ LoopHead(i) \/ Spawn(i) \/ Handshake(i) \/ Publish(i) \/ WaitUntilDead(i)
    \/ LoopTeardown(i) \/ LoopKill(i) \/ Backoff(i) \/ Reap(i)

-----------------------------------------------------------------------------
(* instance.stop, called by Disable and by Stop with the manager's mutex held. *)

StopStep(pc, i, new) ==
    /\ stopper' = [stopper EXCEPT !.pc = pc]
    /\ inst' = [inst EXCEPT ![i] = new]
    /\ UNCHANGED <<cfg, disk, ctx, cur, made, files, relay, ops, faults>>

StopFlag ==
    LET i == stopper.target IN
    /\ stopper.pc = "flag"
    /\ StopStep("state", i, [inst[i] EXCEPT !.stopped = TRUE])
    /\ UNCHANGED admin

StopState ==
    LET i == stopper.target IN
    /\ stopper.pc = "state"
    /\ StopStep("teardown", i, [inst[i] EXCEPT !.state = "stopped"])
    /\ UNCHANGED admin

\* The same for stop(): it signals only what it finds, and otherwise returns.
StopTeardown ==
    LET i == stopper.target IN
    /\ stopper.pc = "teardown"
    /\ StopStep(IF inst[i].client THEN "kill" ELSE "return", i,
                [TornDown(inst[i]) EXCEPT !.raced = inst[i].pc \in {"start", "dial", "publish"}])
    /\ UNCHANGED admin

\* What follows Disable in an admin request.
AfterDisable ==
    CASE admin.op = "disable"   -> "persist"
      [] admin.op = "install"   -> "stash"
      [] admin.op = "uninstall" -> IF admin.flag THEN "wipe" ELSE "ustash"
      [] OTHER                  -> "idle"

\* The signals, if any, and the return of stop().
StopKill ==
    LET i == stopper.target IN
    /\ stopper.pc \in {"kill", "return"}
    /\ stopper' = NoStop
    /\ inst' = [inst EXCEPT ![i] = IF stopper.pc = "kill" THEN Killed(@) ELSE @]
    /\ cur' = 0
    /\ admin' = [admin EXCEPT !.pc = AfterDisable]
    /\ UNCHANGED <<cfg, disk, ctx, made, files, relay, ops, faults>>

\* A listener failed: main cancels the context while the servers still run.
CancelContext ==
    /\ ctx = "up" /\ Fault /\ ctx' = "cancelled"
    /\ UNCHANGED <<cfg, disk, procs, admin, files, relay, ops>>

\* Manager.Stop; the admin server has been shut down before.
ManagerStop ==
    /\ ctx # "stopped" /\ admin.pc = "idle" /\ muFree /\ Op
    /\ ctx' = "stopped"
    /\ stopper' = IF cur = 0 THEN NoStop ELSE [pc |-> "flag", target |-> cur]
    /\ UNCHANGED <<cfg, disk, cur, made, inst, admin, files, relay, faults>>

-----------------------------------------------------------------------------
(* Admin requests. *)

Goto(pc) == admin' = [admin EXCEPT !.pc = pc]
Answer   == admin' = Idle   \* the request is over, with or without an error

Request(op, pc, flag, s) ==
    /\ admin.pc = "idle" /\ ctx # "stopped"
    /\ Op
    /\ admin' = [op |-> op, pc |-> pc, flag |-> flag, settings |-> s, target |-> 0]
    /\ UNCHANGED <<cfg, disk, ctx, procs, files, relay, faults>>

RequestEnable      == Request("enable", "enable", TRUE, Default)
RequestDisable     == Request("disable", "disable", FALSE, Default)
RequestInstall     == \E enable \in BOOLEAN : Request("install", "download", enable, Default)
RequestUninstall   == \E wipe \in BOOLEAN : Request("uninstall", "disable", wipe, Default)
RequestSettings    == \E s \in Settings \ {cfg.settings} : Request("settings", "check", FALSE, s)
RequestLimit       == Request("limit", "limit", FALSE, Default)

\* Mutant: Enable does not look whether the plugin already runs.
EnableAgain ==
    /\ admin.pc = "enable" /\ muFree /\ made < MaxInst /\ pkg = "whole"
    /\ cfg' = [cfg EXCEPT !.known = TRUE, !.enabled = TRUE]
    /\ cur' = made + 1 /\ made' = made + 1
    /\ inst' = [inst EXCEPT ![made + 1] = NewInstance(cfg.settings)]
    /\ Goto("persist")
    /\ UNCHANGED <<disk, ctx, stopper, files, relay, ops, faults>>

\* Enable and startLocked: without plugin.json the item stays enabled and
\* nothing is saved.
Enable ==
    /\ admin.pc = "enable" /\ muFree
    /\ cfg' = [cfg EXCEPT !.known = TRUE, !.enabled = TRUE]
    /\ \/ cur # 0 /\ Goto("persist") /\ UNCHANGED <<cur, made, inst, data>>
       \/ cur = 0 /\ pkg # "whole" /\ Answer /\ UNCHANGED <<cur, made, inst, data>>
       \/ /\ cur = 0 /\ pkg = "whole" /\ made < MaxInst
          /\ cur' = made + 1 /\ made' = made + 1
          /\ inst' = [inst EXCEPT ![made + 1] = NewInstance(cfg.settings)]
          /\ data' = IF data = "none" THEN "fresh" ELSE data
          /\ Goto("persist")
    /\ UNCHANGED <<disk, ctx, stopper, pkg, keep, strays, relay, ops, faults>>

Disable ==
    /\ admin.pc = "disable" /\ muFree
    /\ cfg' = [cfg EXCEPT !.enabled = FALSE]
    /\ \/ cur = 0 /\ Goto(AfterDisable) /\ UNCHANGED stopper
       \/ /\ cur # 0 /\ Goto("stopping")
          /\ stopper' = [pc |-> "flag", target |-> cur]
    /\ UNCHANGED <<disk, ctx, cur, made, inst, files, relay, ops, faults>>

\* savePluginConfig: the file may not be written.
Persist ==
    /\ admin.pc = "persist"
    /\ \/ disk' = cfg /\ NoFault
       \/ Fault /\ UNCHANGED disk
    /\ Answer
    /\ UNCHANGED <<cfg, ctx, procs, files, relay, ops>>

\* --- Installation: a file operation fails or is carried out.
FileStep == UNCHANGED <<cfg, disk, ctx, procs, relay, ops>>

\* The archive is fetched and its checksum compared.
Download ==
    /\ admin.pc = "download"
    /\ \/ Goto("unpack") /\ NoFault
       \/ Answer /\ Fault
    /\ FileStep /\ UNCHANGED files

\* It is unpacked and its manifest read; an installed package is disabled first.
Unpack ==
    /\ admin.pc = "unpack"
    /\ \/ Goto(IF pkg = "absent" THEN "stash" ELSE "disable") /\ NoFault
       \/ Answer /\ Fault
    /\ FileStep /\ UNCHANGED files

\* replacePackageKeepData puts the data aside, in a fresh temporary directory.
PutAside(next) ==
    /\ \/ /\ NoFault /\ Goto(next)
          /\ keep' = data /\ data' = "none"
       \/ Fault /\ data # "none" /\ Answer /\ UNCHANGED <<data, keep>>
    /\ FileStep /\ UNCHANGED <<pkg, strays>>

Stash == admin.pc = "stash" /\ PutAside("remove")

MovedBack == data' = keep /\ keep' = "none"

\* The data stays in the temporary directory.
LeftAside ==
    keep # "none" /\ strays' = strays \cup {keep} /\ keep' = "none" /\ UNCHANGED data

\* After an error the data is moved back; an error of this move is ignored.
PutBack == (MovedBack /\ UNCHANGED strays) \/ LeftAside

RemoveOld ==
    /\ admin.pc = "remove"
    /\ \/ pkg' = "absent" /\ Goto("copy") /\ NoFault /\ UNCHANGED <<data, keep, strays>>
       \/ pkg' \in {pkg, "bare"} /\ pkg # "absent" /\ Fault /\ Answer /\ PutBack
    /\ FileStep

CopyNew ==
    /\ admin.pc = "copy"
    /\ \/ pkg' = "whole" /\ Goto("restore") /\ NoFault /\ UNCHANGED <<data, keep, strays>>
       \/ pkg' = "bare" /\ Fault /\ Answer /\ PutBack
    /\ FileStep

\* Mutant: the temporary directory is removed also when the data did not move back.
RestoreCleans ==
    /\ admin.pc = "restore"
    /\ \/ MovedBack /\ Goto("upsert") /\ NoFault
       \/ keep # "none" /\ Fault /\ Answer /\ keep' = "none" /\ UNCHANGED data
    /\ FileStep /\ UNCHANGED <<pkg, strays>>

\* The data goes back into the new package, or stays where it was put aside.
Restore ==
    /\ admin.pc = "restore"
    /\ \/ MovedBack /\ Goto("upsert") /\ NoFault /\ UNCHANGED strays
       \/ LeftAside /\ Fault /\ Answer
    /\ FileStep /\ UNCHANGED pkg

\* upsertConfigItem, after the hooks.
Upsert ==
    /\ admin.pc = "upsert" /\ muFree
    /\ cfg' = [cfg EXCEPT !.known = TRUE, !.enabled = admin.flag]
    /\ Goto(IF admin.flag THEN "enable" ELSE "persist")
    /\ UNCHANGED <<disk, ctx, procs, files, relay, ops, faults>>

\* --- Uninstall.
Wipe ==
    /\ admin.pc = "wipe"
    /\ \/ pkg' = "absent" /\ data' = "none" /\ Goto("drop") /\ NoFault
       \/ pkg' \in {pkg, "bare"} /\ data' \in {data, "none"} /\ Fault /\ Answer
    /\ FileStep /\ UNCHANGED <<keep, strays>>

KeepAside == admin.pc = "ustash" /\ PutAside("uremove")

\* Every error from here on removes the temporary directory with the data in it.
RemoveKept ==
    /\ admin.pc = "uremove"
    /\ \/ pkg' = "absent" /\ Goto("umkdir") /\ NoFault /\ UNCHANGED keep
       \/ pkg' \in {pkg, "bare"} /\ Fault /\ Answer /\ keep' = "none"
    /\ FileStep /\ UNCHANGED <<data, strays>>

MakeBare ==
    /\ admin.pc = "umkdir"
    /\ \/ pkg' = "bare" /\ Goto("urestore") /\ NoFault /\ UNCHANGED keep
       \/ Fault /\ Answer /\ keep' = "none" /\ UNCHANGED pkg
    /\ FileStep /\ UNCHANGED <<data, strays>>

MoveKeptBack ==
    /\ admin.pc = "urestore"
    /\ Goto("drop") /\ keep' = "none"
    /\ \/ data' = keep /\ NoFault
       \/ Fault /\ UNCHANGED data
    /\ FileStep /\ UNCHANGED <<pkg, strays>>

DropItem ==
    /\ admin.pc = "drop" /\ muFree
    /\ cfg' = NoItem
    /\ Goto("persist")
    /\ UNCHANGED <<disk, ctx, procs, files, relay, ops, faults>>

\* --- ApplySettings.
Ready(i) == i # 0 /\ inst[i].state = "ready" /\ inst[i].client

SettingsCheck ==
    /\ admin.pc = "check" /\ muFree
    /\ admin' = [admin EXCEPT !.target = cur, !.pc = IF Ready(cur) THEN "rpc" ELSE "commit"]
    /\ UNCHANGED <<cfg, disk, ctx, procs, files, relay, ops, faults>>

\* The plugin accepts the settings, refuses them or cannot be reached; one whose
\* client is gone by now is not asked.
SettingsCall ==
    LET i == admin.target IN
    /\ admin.pc = "rpc"
    /\ \/ (inst[i].client => inst[i].proc = "alive") /\ Goto("commit")
       \/ Answer
    /\ UNCHANGED <<cfg, disk, ctx, procs, files, relay, ops, faults>>

\* Mutant: only the configuration learns the new settings.
SettingsCommitConfig ==
    /\ admin.pc = "commit" /\ muFree
    /\ cfg' = IF cfg.known THEN [cfg EXCEPT !.settings = admin.settings] ELSE cfg
    /\ Goto("persist")
    /\ UNCHANGED <<disk, ctx, procs, files, relay, ops, faults>>

SettingsCommit ==
    /\ admin.pc = "commit" /\ muFree
    /\ cfg' = IF cfg.known THEN [cfg EXCEPT !.settings = admin.settings] ELSE cfg
    /\ inst' = [i \in Insts |-> IF i = admin.target
                                THEN [inst[i] EXCEPT !.settings = admin.settings] ELSE inst[i]]
    /\ Goto("persist")
    /\ UNCHANGED <<disk, ctx, cur, made, stopper, files, relay, ops, faults>>

-----------------------------------------------------------------------------
(* Traffic of the relay. *)

RelayStep == UNCHANGED <<cfg, disk, ctx, cur, made, stopper, admin, files, faults>>

\* A message that one of the plugin's subscriptions wants; others change nothing.
Matches(i) == i # 0 /\ inst[i].subs

\* Observe and EnqueueStoredEvent: a matching message is queued, or dropped.
Observe ==
    /\ muFree /\ Matches(cur)
    /\ Op
    /\ inst' = [inst EXCEPT ![cur].queue = IF @ < ListenCap THEN @ + 1 ELSE @]
    /\ RelayStep /\ UNCHANGED relay

\* runListenWorker: what is not ready does not get its job back.
Dispatch(i) ==
    /\ inst[i].queue > 0 /\ ~CtxDone
    /\ inst' = [inst EXCEPT ![i].queue = @ - 1]
    /\ RelayStep /\ UNCHANGED <<relay, ops>>

\* A REQ arrives and wants the manager's mutex.
ReqArrives ==
    /\ req.pc = "idle" /\ Op
    /\ req' = [pc |-> "lock", target |-> 0]
    /\ RelayStep /\ UNCHANGED <<inst, log, late>>

\* InterceptREQ takes its list of instances; one without a match is skipped.
ReqList ==
    /\ req.pc = "lock" /\ muFree
    /\ req' = IF Matches(cur) THEN [pc |-> "ask", target |-> cur]
                             ELSE [pc |-> "idle", target |-> 0]
    /\ RelayStep /\ UNCHANGED <<inst, log, late, ops>>

Done == req' = [pc |-> "idle", target |-> 0]

\* enqueueInterceptLog: never waits.
Logged ==
    log' = IF log.limit > 0 /\ log.queue < LogCap THEN [log EXCEPT !.queue = @ + 1] ELSE log

\* doIntercept finds the instance ready, or lets the REQ pass.
ReqAsk ==
    /\ req.pc = "ask"
    /\ \/ Ready(req.target) /\ req' = [req EXCEPT !.pc = "rpc"] /\ UNCHANGED log
       \/ ~Ready(req.target) /\ Done /\ Logged
    /\ RelayStep /\ UNCHANGED <<inst, late, ops>>

\* Mutant: the call has no deadline.
ReqCallForever ==
    /\ req.pc = "rpc" /\ inst[req.target].proc = "alive"
    /\ Done /\ Logged
    /\ RelayStep /\ UNCHANGED <<inst, late, ops>>

\* The plugin answers, the call fails or its deadline passes.
ReqCall ==
    /\ req.pc = "rpc"
    /\ Done /\ Logged
    /\ RelayStep /\ UNCHANGED <<inst, late, ops>>

Least(a, b) == IF a < b THEN a ELSE b

\* appendInterceptLog reads the limit before it takes the lock of the log.
LogTake ==
    /\ log.pc = "idle" /\ log.queue > 0 /\ ~CtxDone
    /\ log' = [log EXCEPT !.queue = @ - 1, !.pc = "append", !.seen = log.limit]
    /\ RelayStep /\ UNCHANGED <<inst, req, late, ops>>

LogAppend ==
    /\ log.pc = "append"
    /\ log' = [log EXCEPT !.pc = "idle", !.seen = 0,
                 !.rows = IF log.seen = 0 THEN 0 ELSE Least(@ + 1, log.seen)]
    /\ late' = (log.seen # log.limit)
    /\ RelayStep /\ UNCHANGED <<inst, req, ops>>

\* SetInterceptLogLimit: first the limit, then the rows.
LimitStore ==
    /\ admin.pc = "limit" /\ muFree
    /\ \E l \in Limits \ {log.limit} : log' = [log EXCEPT !.limit = l]
    /\ Goto("trim")
    /\ UNCHANGED <<cfg, disk, ctx, procs, files, req, late, ops, faults>>

LimitTrim ==
    /\ admin.pc = "trim"
    /\ log' = [log EXCEPT !.rows = Least(@, log.limit)]
    /\ late' = FALSE
    /\ Goto("persist")
    /\ UNCHANGED <<cfg, disk, ctx, procs, files, req, ops, faults>>

-----------------------------------------------------------------------------
AdminSteps ==
    \/ Enable \/ Disable \/ Persist
    \/ Download \/ Unpack \/ Stash \/ RemoveOld \/ CopyNew \/ Restore \/ Upsert
    \/ Wipe \/ KeepAside \/ RemoveKept \/ MakeBare \/ MoveKeptBack \/ DropItem
    \/ SettingsCheck \/ SettingsCall \/ SettingsCommit
    \/ LimitStore \/ LimitTrim

StopSteps == StopFlag \/ StopState \/ StopTeardown \/ StopKill

RelaySteps == ReqList \/ ReqAsk \/ ReqCall \/ LogTake \/ LogAppend

Requests ==
    \/ RequestEnable \/ RequestDisable \/ RequestInstall \/ RequestUninstall
    \/ RequestSettings \/ RequestLimit
    \/ Observe \/ ReqArrives
    \/ CancelContext \/ ManagerStop

Next ==
    \/ Requests \/ AdminSteps \/ StopSteps \/ RelaySteps
    \/ \E i \in Insts : LoopSteps(i) \/ Crash(i) \/ Dispatch(i)

Spec == Init /\ [][Next]_vars

\* Goroutines run; timers and deadlines fire; the kernel delivers signals.
FairSpec ==
    /\ Spec
    /\ WF_vars(AdminSteps) /\ WF_vars(StopSteps)
    /\ WF_vars(ReqList) /\ WF_vars(ReqAsk \/ ReqCall)
    /\ \A i \in Insts : WF_vars(LoopSteps(i))

-----------------------------------------------------------------------------
(* Properties. *)

TypeOK ==
    /\ cfg \in [known : BOOLEAN, enabled : BOOLEAN, settings : Settings]
    /\ disk \in [known : BOOLEAN, enabled : BOOLEAN, settings : Settings]
    /\ ctx \in {"up", "cancelled", "stopped"}
    /\ made \in 0 .. MaxInst /\ cur \in 0 .. made
    /\ inst \in [Insts ->
          [pc : {"head", "start", "dial", "publish", "watch", "teardown", "kill",
                 "backoff", "ended"},
           state : {"starting", "ready", "degraded", "stopped"}, stopped : BOOLEAN,
           client : BOOLEAN, proc : {"none", "alive", "doomed", "dead"},
           settings : Settings, subs : BOOLEAN,
           queue : 0 .. ListenCap, raced : BOOLEAN]]
    /\ stopper \in [pc : {"none", "flag", "state", "teardown", "kill", "return"}, target : 0 .. made]
    /\ pkg \in {"absent", "bare", "whole"} /\ data \in Content /\ keep \in Content
    /\ strays \subseteq Content
    /\ req \in [pc : {"idle", "lock", "ask", "rpc"}, target : 0 .. made]
    /\ log.limit \in Limits /\ log.queue \in 0 .. LogCap

\* Whatever the order of enabling, disabling, installing and crashing, only the
\* instance in the manager's map is not stopped: two never run on one socket and
\* one data directory by decision of the manager (Enable, startLocked, stop).
OneRunner == \A i \in 1 .. made : i = cur \/ inst[i].stopped

\* Between admin requests the configuration and the running instance agree: it is
\* enabled and has the settings the next spawn will use (Enable, Disable,
\* upsertConfigItem, ApplySettings).
ConfigAgrees ==
    admin.pc = "idle" /\ ctx # "stopped" /\ cur # 0 =>
        cfg.known /\ cfg.enabled /\ inst[cur].settings = cfg.settings

\* When stop() has returned, a process of that instance lives on only in two
\* cases: stop() met the instance between spawning and publishing it, a race of
\* teardownProc with spawnAndHandshake that nothing repairs while the manager
\* runs; or the loop's own teardownProc had taken the process before, which is
\* then cancelled, and the loop is still sending it signals.
OnlyRacedSurvives ==
    \A i \in 1 .. made :
        inst[i].stopped /\ stopper.target # i /\ inst[i].proc \in {"alive", "doomed"}
            => inst[i].raced \/ (inst[i].proc = "doomed" /\ inst[i].pc = "kill")

\* The log never holds more rows than its limit allows, unless its last row was
\* added by a worker that read the limit before it was changed.
LogWithinLimit == log.rows <= log.limit \/ late \/ admin.pc = "trim"

\* Manager, configuration, instances and log never disagree.
PluginsConsistent == TypeOK /\ OneRunner /\ ConfigAgrees /\ OnlyRacedSurvives /\ LogWithinLimit

UserData == "user" \in {data, keep} \cup strays

\* An installation or an upgrade, also one that fails half way, never destroys the
\* data of the plugin (replacePackageKeepData).
InstallKeepsData == [][admin.op # "uninstall" /\ UserData => UserData']_vars

\* Every REQ gets its verdict although Disable holds the manager's mutex while it
\* waits for a process, and although plugins crash (InterceptREQ).
ReqAnswered == req.pc # "idle" ~> req.pc = "idle"

\* An enabled plugin with a package becomes ready again after any fault, unless it
\* is disabled or the relay stops (loop).
PluginComesBack ==
    \A i \in Insts :
        (cur = i /\ ctx = "up" /\ pkg = "whole") ~>
            (inst[i].state = "ready" \/ cur # i \/ ctx # "up")

\* Cancelling the manager's context ends every process, also one that no instance
\* knows of (spawnAndHandshake derives its context from the manager's).
CancelEndsAll ==
    (ctx # "up") ~> [](\A i \in Insts : inst[i].proc \in {"none", "dead"})

\* Processes follow what the manager wants: up again after a fault, gone at the end.
ProcessesFollow == PluginComesBack /\ CancelEndsAll

=============================================================================
