-------------------------- MODULE PluginsProofs --------------------------
(***************************************************************************)
(* Proofs about Plugins for any number of instances, settings, limits and  *)
(* faults: manager, configuration, instances and log agree, and an         *)
(* installation never destroys the data of a plugin.                       *)
(***************************************************************************)
EXTENDS Plugins, TLAPS

InstallPcs == {"download", "unpack", "stash", "remove", "copy", "restore", "upsert"}
RemovalPcs == {"wipe", "ustash", "uremove", "umkdir", "urestore", "drop"}
SettingsPcs == {"check", "rpc", "commit"}
LimitPcs == {"limit", "trim"}
DisablePcs == {"disable", "stopping"}
AdminPcs == InstallPcs \cup RemovalPcs \cup SettingsPcs \cup LimitPcs \cup DisablePcs
            \cup {"idle", "enable", "persist"}
Ops == {"none", "enable", "disable", "install", "uninstall", "settings", "limit"}

\* What TypeOK leaves out: the request under way, and the rest of the log.
AdminTypes ==
    /\ admin \in [op : Ops, pc : AdminPcs, flag : BOOLEAN, settings : Settings, target : 0 .. made]
    /\ log \in [limit : Limits, rows : Nat, queue : 0 .. LogCap, pc : {"idle", "append"}, seen : Nat]
    /\ late \in BOOLEAN

\* Which request is at which step.
AdminAgrees ==
    /\ admin.pc = "idle" => admin.op = "none"
    /\ admin.pc = "enable" => admin.op \in {"enable", "install"}
    /\ admin.pc \in DisablePcs => admin.op \in {"disable", "install", "uninstall"}
    /\ admin.pc \in InstallPcs => admin.op = "install"
    /\ admin.pc \in RemovalPcs => admin.op = "uninstall"

\* stop() works on the instance in the map, for Disable or for Manager.Stop,
\* and has set its flag before it goes on.
StopAgrees ==
    /\ ctx = "stopped" => admin.pc = "idle"
    /\ admin.pc = "stopping" => stopper.pc # "none"
    /\ stopper.pc = "none" => stopper.target = 0
    /\ stopper.pc # "none" =>
          /\ stopper.target = cur /\ cur # 0
          /\ admin.pc = "stopping" \/ ctx = "stopped"
    /\ stopper.pc \in {"state", "teardown", "kill", "return"} => inst[cur].stopped
    /\ cur # 0 /\ stopper.pc \in {"none", "flag"} => ~inst[cur].stopped

\* While files are changed no instance is in the map, and none is without a
\* package; settings go to the instance they were checked against.
MapAgrees ==
    /\ pkg = "absent" => cur = 0
    /\ admin.pc \in (InstallPcs \ {"download", "unpack"}) \cup RemovalPcs => cur = 0
    /\ admin.pc \in {"rpc", "commit"} => admin.target = cur

\* What the place of an instance's goroutine says of its process.
ProcOK(r) ==
    /\ r.pc \in {"head", "start", "backoff"} => ~r.client /\ r.proc \in {"none", "dead"}
    /\ r.pc = "ended" => ~r.client /\ r.proc # "alive"
    /\ r.pc \in {"dial", "publish"} => ~r.client /\ r.proc \in {"alive", "dead"}
    /\ r.pc \in {"watch", "teardown"} =>
          r.proc \in {"doomed", "dead"} \/ (r.client /\ r.proc = "alive")
    /\ r.pc = "kill" => ~r.client /\ r.proc \in {"doomed", "dead"}

ProcAgrees == \A i \in Insts : ProcOK(inst[i])

\* The instance starts nothing and knows of no process.
Over(r) == r.pc \notin {"start", "dial", "publish"} /\ ~r.client

\* stop() has taken the process of i, if it knew of one.
Disarmed(i) ==
    inst[i].stopped /\ ~(stopper.target = i /\ stopper.pc \in {"flag", "state", "teardown"})

\* An instance that stop() did not meet between spawn and publication starts
\* nothing any more; a process is taken from an instance that is watched only by
\* stop(), and one that is cancelled is being signalled by whoever took it.
DisarmedEnds ==
    \A i \in 1 .. made :
        /\ Disarmed(i) /\ ~inst[i].raced => Over(inst[i])
        /\ inst[i].pc \in {"watch", "teardown"} /\ ~inst[i].client => Disarmed(i)
        /\ inst[i].proc = "doomed" =>
              inst[i].pc = "kill" \/ (stopper.target = i /\ stopper.pc = "kill")

\* ConfigAgrees, also while requests are under way.
ItemAgrees ==
    cur # 0 /\ ctx # "stopped" /\ admin.pc # "stopping" =>
        cfg.known /\ cfg.enabled /\ inst[cur].settings = cfg.settings

\* Data is put aside between two steps of the same request only, and has then
\* left its place.
AsideAgrees ==
    /\ keep # "none" => admin.pc \in {"remove", "copy", "restore", "uremove", "umkdir", "urestore"}
    /\ admin.pc \in {"remove", "copy", "restore"} => data = "none"

PlugInv ==
    /\ TypeOK /\ AdminTypes /\ AdminAgrees /\ StopAgrees /\ MapAgrees
    /\ OneRunner /\ ProcAgrees /\ DisarmedEnds /\ ItemAgrees /\ LogWithinLimit /\ AsideAgrees

InstRec ==
    [pc : {"head", "start", "dial", "publish", "watch", "teardown", "kill", "backoff", "ended"},
     state : {"starting", "ready", "degraded", "stopped"}, stopped : BOOLEAN,
     client : BOOLEAN, proc : {"none", "alive", "doomed", "dead"},
     settings : Settings, subs : BOOLEAN, queue : 0 .. ListenCap, raced : BOOLEAN]
Items == [known : BOOLEAN, enabled : BOOLEAN, settings : Settings]

-----------------------------------------------------------------------------
(* The goroutine of an instance. *)

\* Instances that exist are instances.
LEMMA MadeInsts ==
  ASSUME TypeOK
  PROVE  /\ made \in Nat /\ 1 .. made \subseteq Insts
         /\ inst \in [Insts -> InstRec] /\ (cur # 0 => cur \in 1 .. made)
BY PluginsAssumption DEF TypeOK, Insts, InstRec

\* A step of one goroutine that keeps flag, settings and mark, and that starts
\* nothing in an instance that is over.
LEMMA InstFrame ==
  ASSUME PlugInv, NEW i \in 1 .. made, NEW r \in InstRec, InstStep(i, r),
         r.stopped = inst[i].stopped, r.raced = inst[i].raced, r.settings = inst[i].settings,
         ProcOK(r), inst[i].stopped /\ Over(inst[i]) => Over(r),
         r.proc = "doomed" => r.pc = "kill" \/ (inst[i].proc = "doomed" /\ inst[i].pc # "kill"),
         r.pc \in {"watch", "teardown"} /\ ~r.client =>
            inst[i].pc \in {"watch", "teardown"} /\ ~inst[i].client
  PROVE  PlugInv'
<1>1. /\ i \in Insts /\ inst \in [Insts -> InstRec] /\ (cur # 0 => cur \in Insts)
      /\ 1 .. made \subseteq Insts
  BY MadeInsts DEF PlugInv
<1>2. /\ inst' = [inst EXCEPT ![i] = r] /\ inst' \in [Insts -> InstRec] /\ inst'[i] = r
      /\ \A j \in Insts : j # i => inst'[j] = inst[j]
  BY <1>1 DEF InstStep
<1>3. UNCHANGED <<cfg, disk, ctx, cur, made, stopper, admin, pkg, data, keep, strays, req, log, late>>
  BY DEF InstStep, files, relay
<1>4. \A j \in Insts : /\ inst'[j].stopped = inst[j].stopped /\ inst'[j].settings = inst[j].settings
                       /\ inst'[j].raced = inst[j].raced
  BY <1>2
<1>5. TypeOK'
  BY <1>2, <1>3 DEF PlugInv, TypeOK, InstRec
<1>6. AdminTypes' /\ AdminAgrees' /\ MapAgrees' /\ LogWithinLimit' /\ AsideAgrees'
  BY <1>3 DEF PlugInv, AdminTypes, AdminAgrees, MapAgrees, LogWithinLimit, AsideAgrees
<1>7. StopAgrees' /\ OneRunner' /\ ItemAgrees'
  BY <1>1, <1>3, <1>4 DEF PlugInv, StopAgrees, OneRunner, ItemAgrees
<1>8. ProcAgrees'
  BY <1>2 DEF PlugInv, ProcAgrees
<1>9. DisarmedEnds'
  BY <1>1, <1>2, <1>3, <1>4 DEF PlugInv, DisarmedEnds, Disarmed
<1> QED BY <1>5, <1>6, <1>7, <1>8, <1>9 DEF PlugInv

\* Every step of the loop, and the end of the process, is such a step.
LEMMA LoopKeeps ==
  ASSUME PlugInv, NEW i \in Insts, LoopSteps(i) \/ Crash(i)
  PROVE  PlugInv'
<1> DEFINE Fine(r) ==
      /\ r \in InstRec
      /\ r.stopped = inst[i].stopped /\ r.raced = inst[i].raced /\ r.settings = inst[i].settings
      /\ ProcOK(r)
      /\ inst[i].stopped /\ Over(inst[i]) => Over(r)
      /\ r.proc = "doomed" => r.pc = "kill" \/ (inst[i].proc = "doomed" /\ inst[i].pc # "kill")
      /\ r.pc \in {"watch", "teardown"} /\ ~r.client =>
            inst[i].pc \in {"watch", "teardown"} /\ ~inst[i].client
<1>1. inst[i] \in InstRec /\ ProcOK(inst[i]) /\ Running(i) /\ i \in 1 .. made
  <2>1. Running(i)
    BY DEF LoopSteps, LoopHead, Spawn, Handshake, Publish, WaitUntilDead, LoopTeardown, LoopKill,
           Backoff, Reap, Crash
  <2> QED BY <2>1, MadeInsts DEF PlugInv, ProcAgrees, Running, Insts
<1> SUFFICES \E r : Fine(r) /\ InstStep(i, r)
  BY <1>1, InstFrame
<1>2. CASE LoopHead(i)
  BY <1>1, <1>2 DEF LoopHead, InstRec, ProcOK, Over
<1>3. CASE Spawn(i)
  BY <1>1, <1>3 DEF Spawn, Failed, InstRec, ProcOK, Over
<1>4. CASE Handshake(i)
  BY <1>1, <1>4 DEF Handshake, Failed, InstRec, ProcOK, Over
<1>5. CASE Publish(i)
  BY <1>1, <1>5 DEF Publish, InstRec, ProcOK, Over
<1>6. CASE WaitUntilDead(i)
  BY <1>1, <1>6 DEF WaitUntilDead, InstRec, ProcOK, Over
<1>7. CASE LoopTeardown(i)
  <2>1. inst[i].client \/ inst[i].stopped
    BY <1>1, <1>7 DEF LoopTeardown, PlugInv, DisarmedEnds, Disarmed
  <2> QED BY <1>1, <1>7, <2>1 DEF LoopTeardown, TornDown, TurnsTo, InstRec, ProcOK, Over
<1>8. CASE LoopKill(i)
  BY <1>1, <1>8 DEF LoopKill, Killed, TurnsTo, InstRec, ProcOK, Over
<1>9. CASE Backoff(i)
  BY <1>1, <1>9 DEF Backoff, InstRec, ProcOK, Over
<1>10. CASE Reap(i)
  BY <1>1, <1>10 DEF Reap, InstRec, ProcOK, Over
<1>11. CASE Crash(i)
  BY <1>1, <1>11 DEF Crash, InstRec, ProcOK, Over
<1> QED BY <1>2, <1>3, <1>4, <1>5, <1>6, <1>7, <1>8, <1>9, <1>10, <1>11 DEF LoopSteps

-----------------------------------------------------------------------------
(* stop(). *)

\* What stop() leaves alone, and the instance it works on.
LEMMA StopFacts ==
  ASSUME PlugInv, StopSteps
  PROVE  /\ stopper.target = cur /\ cur \in 1 .. made /\ cur \in Insts
         /\ 1 .. made \subseteq Insts /\ inst \in [Insts -> InstRec] /\ inst[cur] \in InstRec
         /\ UNCHANGED <<cfg, disk, ctx, made, pkg, data, keep, strays, req, log, late>>
<1>1. stopper.pc # "none"
  BY DEF StopSteps, StopFlag, StopState, StopTeardown, StopKill
<1>2. stopper.target = cur /\ cur # 0
  BY <1>1 DEF PlugInv, StopAgrees
<1>3. UNCHANGED <<cfg, disk, ctx, made, pkg, data, keep, strays, req, log, late>>
  BY DEF StopSteps, StopFlag, StopState, StopTeardown, StopKill, StopStep, files, relay
<1> QED BY <1>2, <1>3, MadeInsts DEF PlugInv

\* Between spawn and publication.
Racing(old) == old.pc \in {"start", "dial", "publish"}

\* teardownProc takes a process that is known, and one it does not know of
\* belongs to an instance that is marked.
LEMMA TornDownIsOver ==
  ASSUME NEW old \in InstRec, ProcOK(old), NEW b \in BOOLEAN, Racing(old) => b
  PROVE  LET r == [TornDown(old) EXCEPT !.raced = b]
         IN  /\ r \in InstRec /\ r.stopped = old.stopped /\ r.settings = old.settings
             /\ ProcOK(r) /\ (~r.raced => Over(r)) /\ r.pc = old.pc /\ ~r.client
             /\ r.proc = "doomed" => old.client \/ old.proc = "doomed"
<1> DEFINE r == [TornDown(old) EXCEPT !.raced = b]
<1>1. r \in InstRec /\ r.stopped = old.stopped /\ r.settings = old.settings /\ r.raced = b
      /\ r.pc = old.pc /\ ~r.client /\ r.proc = IF old.client /\ old.proc = "alive" THEN "doomed" ELSE old.proc
  BY DEF TornDown, InstRec
<1> HIDE DEF r
<1>2. ProcOK(r) /\ (~r.raced => Over(r))
  BY <1>1 DEF ProcOK, Over, Racing, InstRec
<1> QED BY <1>1, <1>2 DEF r

\* A step of stop() before the last: it marks and disarms the instance.
LEMMA StopStepKeeps ==
  ASSUME PlugInv, StopFlag \/ StopState \/ StopTeardown
  PROVE  PlugInv'
<1>1. StopSteps
  BY DEF StopSteps
<1> DEFINE old == inst[cur]
<1>2. PICK r \in InstRec, p \in {"state", "teardown", "kill", "return"} :
        /\ inst' = [inst EXCEPT ![cur] = r]
        /\ r.stopped /\ r.settings = old.settings /\ ProcOK(r) /\ r.pc = old.pc
        /\ StopTeardown /\ ~r.raced => Over(r)
        /\ r.proc = "doomed" => p = "kill" \/ old.proc = "doomed"
        /\ ~StopTeardown => r.client = old.client
        /\ stopper' = [stopper EXCEPT !.pc = p] /\ (p \in {"kill", "return"} <=> StopTeardown)
  <2>1. ProcOK(old) /\ old \in InstRec /\ stopper.target = cur
    BY <1>1, StopFacts DEF PlugInv, ProcAgrees
  <2>2. stopper.pc # "flag" => old.stopped
    BY DEF PlugInv, StopAgrees, StopFlag, StopState, StopTeardown
  <2>3. CASE StopFlag
    <3> DEFINE r == [old EXCEPT !.stopped = TRUE]
    <3>1. /\ r \in InstRec /\ r.stopped /\ r.settings = old.settings /\ ProcOK(r)
          /\ r.pc = old.pc /\ r.proc = old.proc /\ r.client = old.client
      BY <2>1 DEF InstRec, ProcOK
    <3>2. inst' = [inst EXCEPT ![cur] = r] /\ stopper' = [stopper EXCEPT !.pc = "state"]
      BY <2>1, <2>3 DEF StopFlag, StopStep
    <3>3. ~StopTeardown
      BY <2>3 DEF StopFlag, StopTeardown
    <3> QED BY <3>1, <3>2, <3>3
  <2>4. CASE StopState
    <3> DEFINE r == [old EXCEPT !.state = "stopped"]
    <3>1. /\ r \in InstRec /\ r.stopped /\ r.settings = old.settings /\ ProcOK(r)
          /\ r.pc = old.pc /\ r.proc = old.proc /\ r.client = old.client
      BY <2>1, <2>2, <2>4 DEF StopState, InstRec, ProcOK
    <3>2. inst' = [inst EXCEPT ![cur] = r] /\ stopper' = [stopper EXCEPT !.pc = "teardown"]
      BY <2>1, <2>4 DEF StopState, StopStep
    <3>3. ~StopTeardown
      BY <2>4 DEF StopState, StopTeardown
    <3> QED BY <3>1, <3>2, <3>3
  <2>5. CASE StopTeardown
    <3> DEFINE r == [TornDown(old) EXCEPT !.raced = old.pc \in {"start", "dial", "publish"}]
    <3>0. old.stopped
      BY <2>2, <2>5 DEF StopTeardown
    <3>1. /\ r \in InstRec /\ r.stopped /\ r.settings = old.settings /\ ProcOK(r)
          /\ (~r.raced => Over(r)) /\ r.pc = old.pc
          /\ r.proc = "doomed" => old.client \/ old.proc = "doomed"
      <4>1. CASE Racing(old)
        <5>1. r = [TornDown(old) EXCEPT !.raced = TRUE]
          <6>1. (old.pc \in {"start", "dial", "publish"}) = TRUE
            BY <4>1 DEF Racing
          <6> QED BY <6>1, Zenon
        <5> HIDE DEF r
        <5> QED BY <2>1, <3>0, <5>1, TornDownIsOver
      <4>2. CASE ~Racing(old)
        <5>1. r = [TornDown(old) EXCEPT !.raced = FALSE]
          <6>1. (old.pc \in {"start", "dial", "publish"}) = FALSE
            BY <4>2 DEF Racing
          <6> QED BY <6>1, Zenon
        <5> HIDE DEF r
        <5> QED BY <2>1, <3>0, <4>2, <5>1, TornDownIsOver
      <4> QED BY <4>1, <4>2
    <3>2. /\ inst' = [inst EXCEPT ![cur] = r]
          /\ stopper' = [stopper EXCEPT !.pc = IF old.client THEN "kill" ELSE "return"]
      BY <2>1, <2>5 DEF StopTeardown, StopStep
    <3> HIDE DEF r
    <3> QED BY <2>5, <3>1, <3>2
  <2> QED BY <2>3, <2>4, <2>5
<1>3. /\ UNCHANGED <<cur, admin>> /\ stopper \in [pc : {"none", "flag", "state", "teardown", "kill", "return"}, target : 0 .. made]
      /\ UNCHANGED <<cfg, disk, ctx, made, pkg, data, keep, strays, req, log, late>>
  BY <1>1, StopFacts DEF StopFlag, StopState, StopTeardown, StopStep, PlugInv, TypeOK
<1>4. /\ stopper'.target = cur /\ stopper'.pc = p
      /\ stopper' \in [pc : {"none", "flag", "state", "teardown", "kill", "return"}, target : 0 .. made]
  BY <1>1, <1>2, <1>3, StopFacts DEF StopFlag, StopState, StopTeardown
<1>5. /\ inst' \in [Insts -> InstRec] /\ inst'[cur] = r
      /\ \A j \in Insts : j # cur => inst'[j] = inst[j]
  BY <1>1, <1>2, StopFacts
<1>6. TypeOK'
  BY <1>3, <1>4, <1>5 DEF PlugInv, TypeOK, InstRec
<1>7. AdminTypes' /\ AdminAgrees' /\ MapAgrees' /\ LogWithinLimit' /\ AsideAgrees'
  BY <1>3 DEF PlugInv, AdminTypes, AdminAgrees, MapAgrees, LogWithinLimit, AsideAgrees
<1>8. StopAgrees'
  <2>1. stopper.pc # "none"
    BY DEF StopFlag, StopState, StopTeardown
  <2> QED BY <1>2, <1>3, <1>4, <1>5, <2>1 DEF PlugInv, StopAgrees
<1>9. OneRunner' /\ ItemAgrees' /\ ProcAgrees'
  BY <1>1, <1>2, <1>3, <1>5, StopFacts DEF PlugInv, OneRunner, ItemAgrees, ProcAgrees
<1>10. DisarmedEnds'
  <2> SUFFICES ASSUME NEW j \in 1 .. made
               PROVE  /\ Disarmed(j)' /\ ~inst'[j].raced => Over(inst'[j])
                      /\ inst'[j].pc \in {"watch", "teardown"} /\ ~inst'[j].client => Disarmed(j)'
                      /\ inst'[j].proc = "doomed" =>
                            inst'[j].pc = "kill" \/ (stopper'.target = j /\ stopper'.pc = "kill")
    BY <1>3 DEF DisarmedEnds
  <2>0. stopper.target = cur /\ stopper.pc \in {"flag", "state", "teardown"}
    BY <1>1, StopFacts DEF StopFlag, StopState, StopTeardown
  <2>1. CASE j = cur
    <3>1. /\ old.proc = "doomed" => old.pc = "kill"
          /\ old.pc \in {"watch", "teardown"} => old.client
      BY <2>0, <2>1 DEF PlugInv, DisarmedEnds, Disarmed
    <3>2. CASE StopTeardown
      BY <1>2, <1>4, <1>5, <2>1, <3>1, <3>2 DEF Disarmed
    <3>3. CASE ~StopTeardown
      BY <1>2, <1>4, <1>5, <2>1, <3>1, <3>3 DEF Disarmed
    <3> QED BY <3>2, <3>3
  <2>2. CASE j # cur
    <3>1. inst'[j] = inst[j] /\ stopper.target = cur
      BY <1>1, <1>5, <2>2, StopFacts
    <3> QED BY <1>4, <2>0, <2>2, <3>1 DEF PlugInv, DisarmedEnds, Disarmed
  <2> QED BY <2>1, <2>2
<1> QED BY <1>6, <1>7, <1>8, <1>9, <1>10 DEF PlugInv

\* The last step: the map forgets the instance, and the request goes on.
LEMMA StopKillKeeps ==
  ASSUME PlugInv, StopKill
  PROVE  PlugInv'
<1> DEFINE r == IF stopper.pc = "kill" THEN Killed(inst[cur]) ELSE inst[cur]
<1>1. StopSteps
  BY DEF StopSteps
<1>2. /\ inst[cur] \in InstRec /\ inst[cur].stopped /\ ProcOK(inst[cur])
      /\ stopper.pc \in {"kill", "return"} /\ stopper.target = cur
      /\ inst[cur].proc = "doomed" => inst[cur].pc = "kill" \/ stopper.pc = "kill"
  BY <1>1, StopFacts DEF PlugInv, StopAgrees, ProcAgrees, DisarmedEnds, StopKill
<1>3. /\ r \in InstRec /\ ProcOK(r) /\ r.stopped /\ (r.proc = "doomed" => r.pc = "kill")
      /\ r.settings = inst[cur].settings
      /\ r.raced = inst[cur].raced /\ (Over(inst[cur]) => Over(r))
  BY <1>2 DEF Killed, InstRec, ProcOK, Over
<1>4. /\ inst' = [inst EXCEPT ![cur] = r] /\ inst' \in [Insts -> InstRec] /\ inst'[cur] = r
      /\ \A j \in Insts : j # cur => inst'[j] = inst[j]
  BY <1>1, <1>2, <1>3, StopFacts DEF StopKill
<1>5. /\ stopper' = NoStop /\ cur' = 0 /\ admin' = [admin EXCEPT !.pc = AfterDisable]
      /\ UNCHANGED <<cfg, disk, ctx, made, pkg, data, keep, strays, req, log, late>>
  BY <1>1, StopFacts DEF StopKill
<1>6. made \in 0 .. MaxInst /\ made \in Nat
  BY PluginsAssumption DEF PlugInv, TypeOK
<1>7. TypeOK'
  <2>1. cur' \in 0 .. made /\ stopper' \in [pc : {"none", "flag", "state", "teardown", "kill", "return"}, target : 0 .. made]
    BY <1>5, <1>6 DEF NoStop
  <2> QED BY <1>4, <1>5, <2>1 DEF PlugInv, TypeOK, InstRec
<1>8. /\ admin' \in [op : Ops, pc : AdminPcs, flag : BOOLEAN, settings : Settings, target : 0 .. made]
      /\ admin'.op = admin.op /\ admin'.pc = AfterDisable
      /\ \/ admin.op = "disable" /\ AfterDisable = "persist"
         \/ admin.op = "install" /\ AfterDisable = "stash"
         \/ admin.op = "uninstall" /\ AfterDisable \in {"wipe", "ustash"}
         \/ admin.op = "none" /\ AfterDisable = "idle"
  <2>1. \/ admin.pc = "stopping" /\ admin.op \in {"disable", "install", "uninstall"}
        \/ admin.op = "none"
    BY <1>2 DEF PlugInv, StopAgrees, AdminAgrees, DisablePcs
  <2>2. AfterDisable \in AdminPcs
    BY DEF AfterDisable, AdminPcs, InstallPcs, RemovalPcs
  <2> QED BY <1>5, <2>1, <2>2 DEF PlugInv, AdminTypes, AfterDisable
<1>9. AdminTypes' /\ AdminAgrees'
  BY <1>5, <1>8 DEF PlugInv, AdminTypes, AdminAgrees, InstallPcs, RemovalPcs, DisablePcs
<1>10. StopAgrees'
  BY <1>2, <1>5, <1>8 DEF PlugInv, StopAgrees, AdminAgrees, DisablePcs, NoStop
<1>11. MapAgrees' /\ ItemAgrees'
  BY <1>5, <1>8 DEF PlugInv, MapAgrees, ItemAgrees
<1>12. OneRunner' /\ ProcAgrees'
  BY <1>1, <1>3, <1>4, <1>5, StopFacts DEF PlugInv, OneRunner, ProcAgrees
<1>13. DisarmedEnds'
  <2> SUFFICES ASSUME NEW j \in 1 .. made
               PROVE  /\ Disarmed(j)' /\ ~inst'[j].raced => Over(inst'[j])
                      /\ inst'[j].pc \in {"watch", "teardown"} /\ ~inst'[j].client => Disarmed(j)'
                      /\ inst'[j].proc = "doomed" => inst'[j].pc = "kill"
    BY <1>5 DEF DisarmedEnds
  <2>0. stopper'.pc = "none" /\ stopper'.target = 0
    BY <1>5 DEF NoStop
  <2>1. CASE j = cur
    BY <1>2, <1>3, <1>4, <2>0, <2>1 DEF PlugInv, DisarmedEnds, Disarmed
  <2>2. CASE j # cur
    <3>1. inst'[j] = inst[j]
      BY <1>1, <1>4, <2>2, StopFacts
    <3> QED BY <1>2, <2>0, <2>2, <3>1 DEF PlugInv, DisarmedEnds, Disarmed
  <2> QED BY <2>1, <2>2
<1>14. LogWithinLimit' /\ AsideAgrees'
  <2>1. admin.pc \in {"stopping", "idle"}
    BY <1>2 DEF PlugInv, StopAgrees
  <2> QED BY <1>5, <1>8, <2>1 DEF PlugInv, LogWithinLimit, AsideAgrees
<1> QED BY <1>7, <1>9, <1>10, <1>11, <1>12, <1>13, <1>14 DEF PlugInv

-----------------------------------------------------------------------------
(* Admin requests. *)

AdminRec == [op : Ops, pc : AdminPcs, flag : BOOLEAN, settings : Settings, target : 0 .. made]

\* A step of a request that leaves instances, stop() and log alone.
LEMMA AdminFrame ==
  ASSUME PlugInv, UNCHANGED <<ctx, procs, relay>>,
         cfg' \in Items, disk' \in Items, admin' \in AdminRec,
         pkg' \in {"absent", "bare", "whole"}, data' \in Content, keep' \in Content,
         strays' \subseteq Content,
         AdminAgrees', StopAgrees', MapAgrees', ItemAgrees', AsideAgrees',
         admin.pc # "trim"
  PROVE  PlugInv'
<1>1. UNCHANGED <<ctx, cur, made, inst, stopper, req, log, late>>
  BY DEF procs, relay
<1>2. TypeOK'
  BY <1>1 DEF PlugInv, TypeOK, Items
<1>3. AdminTypes' /\ LogWithinLimit'
  BY <1>1 DEF PlugInv, AdminTypes, AdminRec, LogWithinLimit
<1>4. OneRunner' /\ ProcAgrees' /\ DisarmedEnds'
  BY <1>1 DEF PlugInv, OneRunner, ProcAgrees, DisarmedEnds, Disarmed
<1> QED BY <1>2, <1>3, <1>4 DEF PlugInv

\* The same for a step that only moves the request and files.
LEMMA FileFrame ==
  ASSUME PlugInv, UNCHANGED <<cfg, ctx, procs, relay>>, disk' \in Items, admin' \in AdminRec,
         pkg' \in {"absent", "bare", "whole"}, data' \in Content, keep' \in Content,
         strays' \subseteq Content,
         AdminAgrees', MapAgrees', AsideAgrees',
         admin.pc \notin {"idle", "stopping", "trim"}, admin'.pc # "stopping"
  PROVE  PlugInv'
<1>1. UNCHANGED <<cfg, ctx, cur, made, inst, stopper>>
  BY DEF procs
<1>2. ctx # "stopped" /\ stopper.pc = "none"
  BY DEF PlugInv, StopAgrees
<1>3. StopAgrees' /\ ItemAgrees'
  BY <1>1, <1>2 DEF PlugInv, StopAgrees, ItemAgrees
<1>4. cfg' \in Items
  BY <1>1 DEF PlugInv, TypeOK, Items
<1> QED BY <1>3, <1>4, AdminFrame

\* A request that goes on, and one that is over.
LEMMA RequestGoes ==
  ASSUME PlugInv, NEW p \in AdminPcs, Goto(p)
  PROVE  /\ admin' \in AdminRec /\ admin'.pc = p /\ admin'.op = admin.op
         /\ admin'.target = admin.target
BY DEF PlugInv, AdminTypes, AdminRec, Goto

\* ... and one that is over.
LEMMA RequestEnds ==
  ASSUME PlugInv, Answer
  PROVE  admin' \in AdminRec /\ admin'.pc = "idle" /\ admin'.op = "none"
<1>1. 0 \in 0 .. made
  BY MadeInsts DEF PlugInv
<1> QED BY <1>1, PluginsAssumption DEF Answer, Idle, AdminRec, Ops, AdminPcs

\* Types of the configuration and the files.
LEMMA FileTypes ==
  ASSUME PlugInv
  PROVE  /\ cfg \in Items /\ disk \in Items /\ NoItem \in Items
         /\ pkg \in {"absent", "bare", "whole"} /\ data \in Content /\ keep \in Content
         /\ strays \subseteq Content /\ "none" \in Content /\ "fresh" \in Content
BY PluginsAssumption DEF PlugInv, TypeOK, Items, Content, NoItem

\* A request that goes on at p, or is over.
Moved(P) ==
  /\ admin' \in AdminRec
  /\ \/ admin'.pc = "idle" /\ admin'.op = "none"
     \/ admin'.pc \in P /\ admin'.op = admin.op

\* Every step on files keeps the invariant.
LEMMA FilesKeep ==
  ASSUME PlugInv, Persist \/ Download \/ Unpack \/ Stash \/ RemoveOld \/ CopyNew \/ Restore
                  \/ Wipe \/ KeepAside \/ RemoveKept \/ MakeBare \/ MoveKeptBack
  PROVE  PlugInv'
<1>0. \A p \in AdminPcs : Goto(p) => Moved({p}) /\ admin'.pc = p /\ admin'.op = admin.op
  BY RequestGoes DEF Moved
<1>1. Answer => Moved({}) /\ admin'.pc = "idle"
  BY RequestEnds DEF Moved
<1>2. CASE Persist
  <2>1. Moved({}) /\ disk' \in Items /\ UNCHANGED <<cfg, ctx, procs, relay, pkg, data, keep, strays>>
    BY <1>1, <1>2, FileTypes DEF Persist, files
  <2> QED BY <1>2, <2>1, FileFrame, FileTypes
          DEF Persist, Moved, PlugInv, AdminAgrees, MapAgrees, AsideAgrees, InstallPcs, RemovalPcs,
              DisablePcs, procs
<1>3. CASE Download
  <2>1. Moved({"unpack"}) /\ UNCHANGED <<cfg, disk, ctx, procs, relay, pkg, data, keep, strays>>
    BY <1>0, <1>1, <1>3 DEF Download, FileStep, files, AdminPcs, InstallPcs, Moved
  <2> QED BY <1>3, <2>1, FileFrame, FileTypes
          DEF Download, Moved, PlugInv, AdminAgrees, MapAgrees, AsideAgrees, InstallPcs, RemovalPcs,
              DisablePcs, procs
<1>4. CASE Unpack
  <2>1. /\ Moved({"stash", "disable"}) /\ (admin'.pc = "stash" => pkg = "absent")
        /\ UNCHANGED <<cfg, disk, ctx, procs, relay, pkg, data, keep, strays>>
    BY <1>0, <1>1, <1>4 DEF Unpack, FileStep, files, AdminPcs, InstallPcs, DisablePcs, Moved
  <2> QED BY <1>4, <2>1, FileFrame, FileTypes
          DEF Unpack, Moved, PlugInv, AdminAgrees, MapAgrees, AsideAgrees, InstallPcs, RemovalPcs,
              DisablePcs, procs
<1>5. CASE Stash
  <2>1. /\ Moved({"remove"}) /\ UNCHANGED <<cfg, disk, ctx, procs, relay, pkg, strays>>
        /\ \/ admin'.pc = "remove" /\ keep' = data /\ data' = "none"
           \/ admin'.pc = "idle" /\ UNCHANGED <<data, keep>>
    BY <1>0, <1>1, <1>5 DEF Stash, PutAside, FileStep, AdminPcs, InstallPcs, Moved
  <2> QED BY <1>5, <2>1, FileFrame, FileTypes
          DEF Stash, Moved, PlugInv, AdminAgrees, MapAgrees, AsideAgrees, InstallPcs, RemovalPcs,
              DisablePcs, procs
<1>6. CASE RemoveOld \/ CopyNew
  <2>1. /\ Moved({"copy", "restore"}) /\ UNCHANGED <<cfg, disk, ctx, procs, relay>>
        /\ pkg' \in {"absent", "bare", "whole"} /\ strays' \subseteq strays \cup {keep}
        /\ \/ admin'.pc \in {"copy", "restore"} /\ UNCHANGED <<data, keep>>
           \/ admin'.pc = "idle" /\ data' \in {data, keep} /\ keep' = "none"
    BY <1>0, <1>1, <1>6, FileTypes
       DEF RemoveOld, CopyNew, PutBack, MovedBack, LeftAside, FileStep, AdminPcs, InstallPcs, Moved
  <2> QED BY <1>6, <2>1, FileFrame, FileTypes
          DEF RemoveOld, CopyNew, Moved, PlugInv, AdminAgrees, MapAgrees, AsideAgrees, InstallPcs,
              RemovalPcs, DisablePcs, procs
<1>7. CASE Restore
  <2>1. /\ Moved({"upsert"}) /\ UNCHANGED <<cfg, disk, ctx, procs, relay, pkg>>
        /\ keep' = "none" /\ data' \in {data, keep} /\ strays' \subseteq strays \cup {keep}
    BY <1>0, <1>1, <1>7 DEF Restore, MovedBack, LeftAside, FileStep, AdminPcs, InstallPcs, Moved
  <2> QED BY <1>7, <2>1, FileFrame, FileTypes
          DEF Restore, Moved, PlugInv, AdminAgrees, MapAgrees, AsideAgrees, InstallPcs,
              RemovalPcs, DisablePcs, procs
<1>8. CASE Wipe
  <2>1. /\ Moved({"drop"}) /\ UNCHANGED <<cfg, disk, ctx, procs, relay, keep, strays>>
        /\ pkg' \in {"absent", "bare", "whole"} /\ data' \in {data, "none"}
    BY <1>0, <1>1, <1>8, FileTypes DEF Wipe, FileStep, AdminPcs, RemovalPcs, Moved
  <2> QED BY <1>8, <2>1, FileFrame, FileTypes
          DEF Wipe, Moved, PlugInv, AdminAgrees, MapAgrees, AsideAgrees, InstallPcs,
              RemovalPcs, DisablePcs, procs
<1>9. CASE KeepAside
  <2>1. /\ Moved({"uremove"}) /\ UNCHANGED <<cfg, disk, ctx, procs, relay, pkg, strays>>
        /\ \/ admin'.pc = "uremove" /\ keep' = data /\ data' = "none"
           \/ admin'.pc = "idle" /\ UNCHANGED <<data, keep>>
    BY <1>0, <1>1, <1>9 DEF KeepAside, PutAside, FileStep, AdminPcs, RemovalPcs, Moved
  <2> QED BY <1>9, <2>1, FileFrame, FileTypes
          DEF KeepAside, Moved, PlugInv, AdminAgrees, MapAgrees, AsideAgrees, InstallPcs,
              RemovalPcs, DisablePcs, procs
<1>10. CASE RemoveKept \/ MakeBare \/ MoveKeptBack
  <2>1. /\ Moved({"umkdir", "urestore", "drop"}) /\ UNCHANGED <<cfg, disk, ctx, procs, relay, strays>>
        /\ pkg' \in {"absent", "bare", "whole"} /\ data' \in {data, keep}
        /\ keep' = "none" \/ (keep' = keep /\ admin'.pc \in {"umkdir", "urestore"})
    BY <1>0, <1>1, <1>10, FileTypes
       DEF RemoveKept, MakeBare, MoveKeptBack, FileStep, AdminPcs, RemovalPcs, Moved
  <2> QED BY <1>10, <2>1, FileFrame, FileTypes
          DEF RemoveKept, MakeBare, MoveKeptBack, Moved, PlugInv, AdminAgrees, MapAgrees, AsideAgrees,
              InstallPcs, RemovalPcs, DisablePcs, procs
<1> QED BY <1>2, <1>3, <1>4, <1>5, <1>6, <1>7, <1>8, <1>9, <1>10

\* The next steps that change the configuration item or only look.
LEMMA ItemsKeep ==
  ASSUME PlugInv, Upsert \/ DropItem \/ SettingsCheck \/ SettingsCall
  PROVE  PlugInv'
<1>0. \A p \in AdminPcs : Goto(p) => /\ admin' \in AdminRec /\ admin'.pc = p /\ admin'.op = admin.op
                                     /\ admin'.target = admin.target
  BY RequestGoes
<1>1. Answer => admin' \in AdminRec /\ admin'.pc = "idle" /\ admin'.op = "none"
  BY RequestEnds
<1>2. CASE Upsert \/ DropItem
  <2>1. admin.flag \in BOOLEAN
    BY DEF PlugInv, AdminTypes
  <2>2. cfg' \in Items
    BY <1>2, <2>1, FileTypes DEF Upsert, DropItem, Items
  <2>3. /\ admin' \in AdminRec /\ admin'.pc \in {"enable", "persist"} /\ admin'.op = admin.op
        /\ admin'.pc = "enable" => admin.pc = "upsert"
    BY <1>0, <1>2 DEF Upsert, DropItem, AdminPcs
  <2>4. /\ cur = 0 /\ UNCHANGED <<disk, ctx, procs, relay, pkg, data, keep, strays>>
        /\ admin.pc \in {"upsert", "drop"} /\ stopper.pc = "none"
    BY <1>2 DEF Upsert, DropItem, PlugInv, MapAgrees, InstallPcs, RemovalPcs, files, muFree
  <2>5. AdminAgrees' /\ StopAgrees' /\ MapAgrees' /\ ItemAgrees' /\ AsideAgrees'
    BY <2>3, <2>4 DEF PlugInv, AdminAgrees, StopAgrees, MapAgrees, ItemAgrees, AsideAgrees,
                      InstallPcs, RemovalPcs, DisablePcs, procs
  <2> QED BY <2>2, <2>3, <2>4, <2>5, AdminFrame, FileTypes
<1>3. CASE SettingsCheck
  <2>1. /\ admin' \in AdminRec /\ admin'.pc \in {"rpc", "commit"} /\ admin'.op = admin.op
        /\ admin'.target = cur
    <3>1. cur \in 0 .. made
      BY DEF PlugInv, TypeOK
    <3> QED BY <1>3, <3>1 DEF SettingsCheck, PlugInv, AdminTypes, AdminRec, AdminPcs, SettingsPcs
  <2>2. /\ UNCHANGED <<cfg, disk, ctx, procs, relay, pkg, data, keep, strays>> /\ admin.pc = "check"
    BY <1>3 DEF SettingsCheck, files
  <2> QED BY <2>1, <2>2, FileFrame, FileTypes
          DEF PlugInv, AdminAgrees, MapAgrees, AsideAgrees, InstallPcs, RemovalPcs, DisablePcs, procs
<1>4. CASE SettingsCall
  <2>1. /\ admin' \in AdminRec
        /\ \/ admin'.pc = "commit" /\ admin'.op = admin.op /\ admin'.target = admin.target
           \/ admin'.pc = "idle" /\ admin'.op = "none"
    BY <1>0, <1>1, <1>4 DEF SettingsCall, AdminPcs, SettingsPcs
  <2>2. /\ UNCHANGED <<cfg, disk, ctx, procs, relay, pkg, data, keep, strays>> /\ admin.pc = "rpc"
    BY <1>4 DEF SettingsCall, files
  <2> QED BY <2>1, <2>2, FileFrame, FileTypes
          DEF PlugInv, AdminAgrees, MapAgrees, AsideAgrees, InstallPcs, RemovalPcs, DisablePcs, procs
<1> QED BY <1>2, <1>3, <1>4

\* stop() is called for the instance in the map, which is not stopped yet.
LEMMA FlagKeepsDisarmed ==
  ASSUME PlugInv, stopper.pc = "none", UNCHANGED <<cur, made, inst>>, cur # 0,
         stopper' = [pc |-> "flag", target |-> cur]
  PROVE  DisarmedEnds'
<1>1. stopper.target = 0 /\ ~inst[cur].stopped
  BY DEF PlugInv, StopAgrees
<1>2. stopper'.pc = "flag" /\ stopper'.target = cur
  OBVIOUS
<1> SUFFICES ASSUME NEW i \in 1 .. made
             PROVE  /\ Disarmed(i)' /\ ~inst[i].raced => Over(inst[i])
                    /\ inst[i].pc \in {"watch", "teardown"} /\ ~inst[i].client => Disarmed(i)'
                    /\ inst[i].proc = "doomed" => inst[i].pc = "kill"
  BY DEF DisarmedEnds
<1>3. /\ Disarmed(i) /\ ~inst[i].raced => Over(inst[i])
      /\ inst[i].pc \in {"watch", "teardown"} /\ ~inst[i].client => Disarmed(i)
      /\ inst[i].proc = "doomed" => inst[i].pc = "kill"
  BY DEF PlugInv, DisarmedEnds
<1>4. Disarmed(i)' <=> Disarmed(i)
  BY <1>1, <1>2 DEF Disarmed
<1> QED BY <1>3, <1>4

\* Disable begins to stop the instance in the map.
LEMMA DisableKeeps ==
  ASSUME PlugInv, Disable
  PROVE  PlugInv'
<1>1. /\ UNCHANGED <<disk, ctx, cur, made, inst, pkg, data, keep, strays, req, log, late>>
      /\ admin.pc = "disable" /\ admin.op \in {"disable", "install", "uninstall"}
      /\ stopper.pc = "none" /\ cfg' \in Items /\ keep = "none" /\ ctx # "stopped"
  BY FileTypes DEF Disable, files, relay, muFree, PlugInv, AdminAgrees, DisablePcs, Items, AsideAgrees,
                   StopAgrees
<1>2. \/ /\ cur = 0 /\ UNCHANGED stopper /\ admin' \in AdminRec /\ admin'.op = admin.op
         /\ \/ admin'.op = "disable" /\ admin'.pc = "persist"
            \/ admin'.op = "install" /\ admin'.pc = "stash"
            \/ admin'.op = "uninstall" /\ admin'.pc \in {"wipe", "ustash"}
      \/ /\ cur # 0 /\ stopper' = [pc |-> "flag", target |-> cur]
         /\ admin' \in AdminRec /\ admin'.pc = "stopping" /\ admin'.op = admin.op
  <2>1. AfterDisable \in AdminPcs /\ "stopping" \in AdminPcs
    BY DEF AfterDisable, AdminPcs, InstallPcs, RemovalPcs, DisablePcs
  <2>2. \A p \in AdminPcs : Goto(p) => admin' \in AdminRec /\ admin'.pc = p /\ admin'.op = admin.op
    BY RequestGoes
  <2> QED BY <1>1, <2>1, <2>2 DEF Disable, AfterDisable
<1>3. TypeOK' /\ AdminTypes'
  BY <1>1, <1>2 DEF PlugInv, TypeOK, AdminTypes, AdminRec, Items
<1>4. AdminAgrees' /\ StopAgrees' /\ MapAgrees' /\ ItemAgrees' /\ AsideAgrees' /\ LogWithinLimit'
  BY <1>1, <1>2 DEF PlugInv, AdminAgrees, StopAgrees, MapAgrees, ItemAgrees, AsideAgrees, LogWithinLimit,
                    InstallPcs, RemovalPcs, DisablePcs
<1>5. OneRunner' /\ ProcAgrees'
  BY <1>1 DEF PlugInv, OneRunner, ProcAgrees
<1>6. DisarmedEnds'
  <2>1. stopper.target = 0 /\ (cur # 0 => ~inst[cur].stopped)
    BY <1>1 DEF PlugInv, StopAgrees
  <2>2. CASE UNCHANGED stopper
    BY <1>1, <2>2 DEF PlugInv, DisarmedEnds, Disarmed
  <2>3. CASE cur # 0 /\ stopper' = [pc |-> "flag", target |-> cur]
    BY <1>1, <2>1, <2>3, FlagKeepsDisarmed
  <2> QED BY <1>2, <2>2, <2>3
<1> QED BY <1>3, <1>4, <1>5, <1>6 DEF PlugInv

\* Enable makes a new instance only when there is none in the map, and then
\* every older one is stopped.
LEMMA EnableKeeps ==
  ASSUME PlugInv, Enable
  PROVE  PlugInv'
<1>1. /\ UNCHANGED <<disk, ctx, stopper, pkg, keep, strays, req, log, late>>
      /\ admin.pc = "enable" /\ stopper.pc = "none" /\ stopper.target = 0 /\ keep = "none"
      /\ cfg' \in Items /\ cfg'.known /\ cfg'.enabled /\ cfg'.settings = cfg.settings
      /\ cfg.settings \in Settings /\ ctx # "stopped"
  BY FileTypes DEF Enable, relay, muFree, PlugInv, StopAgrees, Items, AsideAgrees
<1>2. admin' \in AdminRec /\ \/ admin'.pc = "persist" /\ admin'.op = admin.op
                             \/ admin'.pc = "idle" /\ admin'.op = "none"
  <2>1. Goto("persist") => admin' \in AdminRec /\ admin'.pc = "persist" /\ admin'.op = admin.op
    BY RequestGoes DEF AdminPcs
  <2> QED BY <2>1, RequestEnds DEF Enable
<1>3. CASE UNCHANGED <<cur, made, inst, data>>
  <2>1. TypeOK' /\ AdminTypes'
    BY <1>1, <1>2, <1>3 DEF PlugInv, TypeOK, AdminTypes, AdminRec, Items
  <2>2. AdminAgrees' /\ StopAgrees' /\ MapAgrees' /\ ItemAgrees' /\ AsideAgrees' /\ LogWithinLimit'
    BY <1>1, <1>2, <1>3 DEF PlugInv, AdminAgrees, StopAgrees, MapAgrees, ItemAgrees, AsideAgrees,
                            LogWithinLimit, InstallPcs, RemovalPcs, DisablePcs
  <2>3. OneRunner' /\ ProcAgrees' /\ DisarmedEnds'
    BY <1>1, <1>3 DEF PlugInv, OneRunner, ProcAgrees, DisarmedEnds, Disarmed
  <2> QED BY <2>1, <2>2, <2>3 DEF PlugInv
<1>4. CASE ~UNCHANGED <<cur, made, inst, data>>
  <2> DEFINE n == made + 1
             r == NewInstance(cfg.settings)
  <2>1. /\ cur = 0 /\ pkg = "whole" /\ made < MaxInst /\ cur' = n /\ made' = n
        /\ inst' = [inst EXCEPT ![n] = r] /\ data' \in {data, "fresh"}
    BY <1>4 DEF Enable
  <2>2. /\ made \in Nat /\ n \in Insts /\ n \in 0 .. MaxInst /\ inst \in [Insts -> InstRec] /\ 1 .. made \subseteq Insts
        /\ 0 .. made \subseteq 0 .. n /\ n \in 0 .. n /\ 1 .. n = (1 .. made) \cup {n} /\ n \notin 1 .. made
    BY <2>1, MadeInsts, PluginsAssumption DEF PlugInv, Insts
  <2>3. r \in InstRec /\ ProcOK(r) /\ ~r.stopped /\ r.settings = cfg.settings
    BY <1>1, PluginsAssumption DEF NewInstance, InstRec, ProcOK
  <2>4. /\ inst' \in [Insts -> InstRec] /\ inst'[n] = r
        /\ \A j \in Insts : j # n => inst'[j] = inst[j]
    BY <2>1, <2>2, <2>3
  <2> HIDE DEF n, r
  <2>5. TypeOK'
    <3>1. stopper' \in [pc : {"none", "flag", "state", "teardown", "kill", "return"}, target : 0 .. n]
          /\ req' \in [pc : {"idle", "lock", "ask", "rpc"}, target : 0 .. n]
      BY <1>1, <2>2 DEF PlugInv, TypeOK
    <3>2. /\ cfg' \in Items /\ disk' \in Items /\ data' \in Content /\ keep' \in Content
          /\ strays' \subseteq Content
      BY <1>1, <2>1, FileTypes
    <3> QED BY <1>1, <2>1, <2>2, <2>4, <3>1, <3>2 DEF PlugInv, TypeOK, InstRec, Items
  <2>6. AdminTypes'
    BY <1>1, <1>2, <2>1, <2>2 DEF PlugInv, AdminTypes, AdminRec
  <2>7. AdminAgrees' /\ StopAgrees' /\ MapAgrees' /\ ItemAgrees' /\ AsideAgrees' /\ LogWithinLimit'
    BY <1>1, <1>2, <2>1, <2>3, <2>4
       DEF PlugInv, AdminAgrees, StopAgrees, MapAgrees, ItemAgrees, AsideAgrees,
           LogWithinLimit, InstallPcs, RemovalPcs, DisablePcs
  <2>8. OneRunner'
    BY <2>1, <2>2, <2>4 DEF PlugInv, OneRunner
  <2>9. ProcAgrees'
    BY <2>3, <2>4 DEF PlugInv, ProcAgrees
  <2>10. DisarmedEnds'
    <3>1. r.pc = "head" /\ r.proc = "none"
      BY DEF r, NewInstance
    <3>2. \A j \in 1 .. made : inst'[j] = inst[j]
      BY <2>2, <2>4
    <3> QED BY <1>1, <2>1, <2>2, <2>3, <2>4, <3>1, <3>2 DEF PlugInv, DisarmedEnds, Disarmed
  <2> QED BY <2>5, <2>6, <2>7, <2>8, <2>9, <2>10 DEF PlugInv
<1> QED BY <1>3, <1>4

\* New settings reach the configuration and the instance in the map alike.
LEMMA CommitKeeps ==
  ASSUME PlugInv, SettingsCommit
  PROVE  PlugInv'
<1>1. /\ UNCHANGED <<disk, ctx, cur, made, stopper, pkg, data, keep, strays, req, log, late>>
      /\ admin.pc = "commit" /\ admin.target = cur /\ admin.settings \in Settings
      /\ keep = "none" /\ ctx # "stopped"
  BY DEF SettingsCommit, files, relay, PlugInv, MapAgrees, AdminTypes, AsideAgrees, StopAgrees
<1>2. admin' \in AdminRec /\ admin'.pc = "persist" /\ admin'.op = admin.op
  BY RequestGoes DEF SettingsCommit, AdminPcs
<1>3. /\ cfg' \in Items /\ cfg'.known = cfg.known /\ cfg'.enabled = cfg.enabled
      /\ cfg.known => cfg'.settings = admin.settings
  BY <1>1, FileTypes DEF SettingsCommit, Items
<1>4. /\ inst \in [Insts -> InstRec] /\ 1 .. made \subseteq Insts /\ (cur # 0 => cur \in Insts)
  BY MadeInsts DEF PlugInv
<1>5. \A j \in Insts :
        /\ inst'[j] \in InstRec /\ inst'[j].stopped = inst[j].stopped /\ inst'[j].raced = inst[j].raced
        /\ inst'[j].pc = inst[j].pc /\ inst'[j].client = inst[j].client /\ inst'[j].proc = inst[j].proc
        /\ inst'[j].settings = IF j = cur THEN admin.settings ELSE inst[j].settings
  BY <1>1, <1>4 DEF SettingsCommit, InstRec
<1>6. inst' \in [Insts -> InstRec]
  BY <1>5 DEF SettingsCommit
<1>7. TypeOK' /\ AdminTypes'
  BY <1>1, <1>2, <1>3, <1>6 DEF PlugInv, TypeOK, AdminTypes, AdminRec, Items, InstRec
<1>8. AdminAgrees' /\ MapAgrees' /\ AsideAgrees' /\ LogWithinLimit'
  BY <1>1, <1>2 DEF PlugInv, AdminAgrees, MapAgrees, AsideAgrees, LogWithinLimit,
                    InstallPcs, RemovalPcs, DisablePcs
<1>9. StopAgrees' /\ ItemAgrees' /\ OneRunner'
  BY <1>1, <1>2, <1>3, <1>4, <1>5 DEF PlugInv, StopAgrees, ItemAgrees, OneRunner
<1>10. ProcAgrees' /\ DisarmedEnds'
  BY <1>1, <1>4, <1>5 DEF PlugInv, ProcAgrees, ProcOK, DisarmedEnds, Disarmed, Over
<1> QED BY <1>7, <1>8, <1>9, <1>10 DEF PlugInv

-----------------------------------------------------------------------------
(* Requests and the traffic of the relay. *)

\* A step that leaves instances, requests, configuration and files alone.
LEMMA RelayFrame ==
  ASSUME PlugInv, UNCHANGED <<cfg, disk, ctx, cur, made, inst, stopper, admin, files>>,
         req' \in [pc : {"idle", "lock", "ask", "rpc"}, target : 0 .. made],
         log' \in [limit : Limits, rows : Nat, queue : 0 .. LogCap, pc : {"idle", "append"}, seen : Nat],
         late' \in BOOLEAN, LogWithinLimit'
  PROVE  PlugInv'
<1>1. UNCHANGED <<pkg, data, keep, strays>>
  BY DEF files
<1>2. TypeOK' /\ AdminTypes'
  BY <1>1 DEF PlugInv, TypeOK, AdminTypes
<1>3. AdminAgrees' /\ StopAgrees' /\ MapAgrees' /\ ItemAgrees' /\ AsideAgrees'
  BY <1>1 DEF PlugInv, AdminAgrees, StopAgrees, MapAgrees, ItemAgrees, AsideAgrees
<1>4. OneRunner' /\ ProcAgrees' /\ DisarmedEnds'
  BY DEF PlugInv, OneRunner, ProcAgrees, DisarmedEnds, Disarmed
<1> QED BY <1>2, <1>3, <1>4 DEF PlugInv

\* A REQ on its way through the plugin.
LEMMA ReqKeeps ==
  ASSUME PlugInv, ReqArrives \/ ReqList \/ ReqAsk \/ ReqCall
  PROVE  PlugInv'
<1>1. /\ req \in [pc : {"idle", "lock", "ask", "rpc"}, target : 0 .. made]
      /\ log \in [limit : Limits, rows : Nat, queue : 0 .. LogCap, pc : {"idle", "append"}, seen : Nat]
      /\ late \in BOOLEAN /\ cur \in 0 .. made /\ 0 \in 0 .. made
  BY MadeInsts DEF PlugInv, TypeOK, AdminTypes
<1>2. UNCHANGED <<cfg, disk, ctx, cur, made, inst, stopper, admin, files, late>>
  BY DEF ReqArrives, ReqList, ReqAsk, ReqCall, RelayStep
<1>3. req' \in [pc : {"idle", "lock", "ask", "rpc"}, target : 0 .. made]
  BY <1>1 DEF ReqArrives, ReqList, ReqAsk, ReqCall, Done
<1>4. /\ log' \in [limit : Limits, rows : Nat, queue : 0 .. LogCap, pc : {"idle", "append"}, seen : Nat]
      /\ log'.rows = log.rows /\ log'.limit = log.limit
  <2>1. UNCHANGED log \/ Logged
    BY DEF ReqArrives, ReqList, ReqAsk, ReqCall
  <2> QED BY <1>1, <2>1, PluginsAssumption DEF Logged
<1>5. LogWithinLimit'
  BY <1>2, <1>4 DEF PlugInv, LogWithinLimit
<1> QED BY <1>1, <1>2, <1>3, <1>4, <1>5, RelayFrame

\* The worker of the log.
LEMMA LogKeeps ==
  ASSUME PlugInv, LogTake \/ LogAppend
  PROVE  PlugInv'
<1>1. /\ req \in [pc : {"idle", "lock", "ask", "rpc"}, target : 0 .. made]
      /\ log \in [limit : Limits, rows : Nat, queue : 0 .. LogCap, pc : {"idle", "append"}, seen : Nat]
      /\ late \in BOOLEAN /\ Limits \subseteq Nat
  BY PluginsAssumption DEF PlugInv, TypeOK, AdminTypes
<1>2. UNCHANGED <<cfg, disk, ctx, cur, made, inst, stopper, admin, files, req>>
  BY DEF LogTake, LogAppend, RelayStep
<1>3. CASE LogTake
  <2>1. /\ log' \in [limit : Limits, rows : Nat, queue : 0 .. LogCap, pc : {"idle", "append"}, seen : Nat]
        /\ log'.rows = log.rows /\ log'.limit = log.limit /\ late' = late
    <3>1. log.queue - 1 \in 0 .. LogCap /\ log.limit \in Nat
      BY <1>1, <1>3, PluginsAssumption DEF LogTake
    <3>2. late' = late /\ log' = [limit |-> log.limit, rows |-> log.rows, queue |-> log.queue - 1,
                                 pc |-> "append", seen |-> log.limit]
      BY <1>1, <1>3 DEF LogTake
    <3> QED BY <1>1, <3>1, <3>2
  <2>2. LogWithinLimit'
    BY <1>2, <2>1 DEF PlugInv, LogWithinLimit
  <2> QED BY <1>1, <1>2, <2>1, <2>2, RelayFrame
<1>4. CASE LogAppend
  <2>1. /\ log' \in [limit : Limits, rows : Nat, queue : 0 .. LogCap, pc : {"idle", "append"}, seen : Nat]
        /\ log'.limit = log.limit /\ log'.rows <= log.seen
    <3> DEFINE rows == IF log.seen = 0 THEN 0 ELSE Least(log.rows + 1, log.seen)
    <3>1. log.rows \in Nat /\ log.seen \in Nat
      BY <1>1
    <3>2. rows \in Nat /\ rows <= log.seen
      BY <3>1 DEF Least
    <3>3. log' = [limit |-> log.limit, rows |-> rows, queue |-> log.queue, pc |-> "idle", seen |-> 0]
      BY <1>1, <1>4 DEF LogAppend
    <3> HIDE DEF rows
    <3> QED BY <1>1, <3>2, <3>3
  <2>2. CASE log.seen = log.limit
    <3>1. late' = FALSE
      BY <1>4, <2>2 DEF LogAppend
    <3>2. LogWithinLimit'
      BY <2>1, <2>2 DEF LogWithinLimit
    <3> QED BY <1>1, <1>2, <2>1, <3>1, <3>2, RelayFrame
  <2>3. CASE log.seen # log.limit
    <3>1. late' = TRUE
      BY <1>4, <2>3 DEF LogAppend
    <3>2. LogWithinLimit'
      BY <3>1 DEF LogWithinLimit
    <3> QED BY <1>1, <1>2, <2>1, <3>1, <3>2, RelayFrame
  <2> QED BY <2>2, <2>3
<1> QED BY <1>3, <1>4

\* A new limit, and the rows cut to it.
LEMMA LimitKeeps ==
  ASSUME PlugInv, LimitStore \/ LimitTrim
  PROVE  PlugInv'
<1>1. /\ log \in [limit : Limits, rows : Nat, queue : 0 .. LogCap, pc : {"idle", "append"}, seen : Nat]
      /\ late \in BOOLEAN /\ Limits \subseteq Nat
  BY PluginsAssumption DEF PlugInv, TypeOK, AdminTypes
<1>2. /\ UNCHANGED <<cfg, disk, ctx, cur, made, inst, stopper, pkg, data, keep, strays, req>>
      /\ admin.pc \in LimitPcs
  BY DEF LimitStore, LimitTrim, procs, files, LimitPcs
<1>3. /\ admin' \in AdminRec /\ admin'.op = admin.op
      /\ admin'.pc = IF admin.pc = "limit" THEN "trim" ELSE "persist"
  BY RequestGoes DEF LimitStore, LimitTrim, AdminPcs, LimitPcs
<1>4. /\ log' \in [limit : Limits, rows : Nat, queue : 0 .. LogCap, pc : {"idle", "append"}, seen : Nat]
      /\ late' \in BOOLEAN /\ (admin.pc = "trim" => log'.rows <= log'.limit)
  <2>1. CASE LimitStore
    <3>1. PICK l \in Limits : log' = [log EXCEPT !.limit = l]
      BY <2>1 DEF LimitStore
    <3>2. admin.pc = "limit" /\ late' = late
      BY <2>1 DEF LimitStore
    <3> QED BY <1>1, <3>1, <3>2
  <2>2. CASE LimitTrim
    <3>1. Least(log.rows, log.limit) \in Nat /\ Least(log.rows, log.limit) <= log.limit
      <4>1. log.rows \in Nat /\ log.limit \in Nat
        BY <1>1
      <4> QED BY <4>1 DEF Least
    <3>2. log' = [log EXCEPT !.rows = Least(log.rows, log.limit)] /\ late' = FALSE
      BY <2>2 DEF LimitTrim
    <3> QED BY <1>1, <3>1, <3>2
  <2> QED BY <2>1, <2>2
<1>5. TypeOK' /\ AdminTypes' /\ LogWithinLimit'
  BY <1>2, <1>3, <1>4 DEF PlugInv, TypeOK, AdminTypes, AdminRec, LogWithinLimit, LimitPcs
<1>6. AdminAgrees' /\ StopAgrees' /\ MapAgrees' /\ ItemAgrees' /\ AsideAgrees'
  BY <1>2, <1>3 DEF PlugInv, AdminAgrees, StopAgrees, MapAgrees, ItemAgrees, AsideAgrees, LimitPcs,
                    InstallPcs, RemovalPcs, DisablePcs
<1>7. OneRunner' /\ ProcAgrees' /\ DisarmedEnds'
  BY <1>2 DEF PlugInv, OneRunner, ProcAgrees, DisarmedEnds, Disarmed
<1> QED BY <1>5, <1>6, <1>7 DEF PlugInv

\* A message for the plugin is queued, or taken from the queue.
LEMMA QueueKeeps ==
  ASSUME PlugInv, Observe \/ \E i \in Insts : Dispatch(i)
  PROVE  PlugInv'
<1>1. /\ inst \in [Insts -> InstRec] /\ 1 .. made \subseteq Insts /\ (cur # 0 => cur \in Insts)
  BY MadeInsts DEF PlugInv
<1>2. PICK i \in Insts, q \in 0 .. ListenCap : inst' = [inst EXCEPT ![i] = [inst[i] EXCEPT !.queue = q]]
  <2>1. CASE Observe
    <3>1. cur \in Insts /\ inst[cur].queue \in 0 .. ListenCap
      BY <1>1, <2>1 DEF Observe, Matches, InstRec
    <3> DEFINE q == IF inst[cur].queue < ListenCap THEN inst[cur].queue + 1 ELSE inst[cur].queue
    <3>2. q \in 0 .. ListenCap
      BY <3>1, PluginsAssumption
    <3>3. inst' = [inst EXCEPT ![cur] = [inst[cur] EXCEPT !.queue = q]]
      BY <2>1, <3>1 DEF Observe
    <3> QED BY <3>1, <3>2, <3>3
  <2>2. ASSUME NEW i \in Insts, Dispatch(i)
        PROVE  \E q \in 0 .. ListenCap : inst' = [inst EXCEPT ![i] = [inst[i] EXCEPT !.queue = q]]
    <3>1. inst[i].queue \in 0 .. ListenCap
      BY <1>1 DEF InstRec
    <3>2. inst[i].queue - 1 \in 0 .. ListenCap
      BY <2>2, <3>1, PluginsAssumption DEF Dispatch
    <3>3. inst' = [inst EXCEPT ![i] = [inst[i] EXCEPT !.queue = inst[i].queue - 1]]
      BY <2>2 DEF Dispatch
    <3> QED BY <3>2, <3>3
  <2> QED BY <2>1, <2>2
<1>3. UNCHANGED <<cfg, disk, ctx, cur, made, stopper, admin, pkg, data, keep, strays, req, log, late>>
  BY DEF Observe, Dispatch, RelayStep, files, relay
<1>4. \A j \in Insts :
        /\ inst'[j] \in InstRec /\ inst'[j].stopped = inst[j].stopped /\ inst'[j].raced = inst[j].raced
        /\ inst'[j].pc = inst[j].pc /\ inst'[j].client = inst[j].client /\ inst'[j].proc = inst[j].proc
        /\ inst'[j].settings = inst[j].settings
  BY <1>1, <1>2 DEF InstRec
<1>5. inst' \in [Insts -> InstRec]
  BY <1>1, <1>2, <1>4
<1>6. TypeOK' /\ AdminTypes'
  BY <1>3, <1>5 DEF PlugInv, TypeOK, AdminTypes, InstRec
<1>7. AdminAgrees' /\ MapAgrees' /\ AsideAgrees' /\ LogWithinLimit'
  BY <1>3 DEF PlugInv, AdminAgrees, MapAgrees, AsideAgrees, LogWithinLimit
<1>8. StopAgrees' /\ ItemAgrees' /\ OneRunner'
  BY <1>1, <1>3, <1>4 DEF PlugInv, StopAgrees, ItemAgrees, OneRunner
<1>9. ProcAgrees' /\ DisarmedEnds'
  BY <1>1, <1>3, <1>4 DEF PlugInv, ProcAgrees, ProcOK, DisarmedEnds, Disarmed, Over
<1> QED BY <1>6, <1>7, <1>8, <1>9 DEF PlugInv

\* A request arrives.
LEMMA RequestKeeps ==
  ASSUME PlugInv,
         \/ RequestEnable \/ RequestDisable \/ RequestInstall \/ RequestUninstall
         \/ RequestSettings \/ RequestLimit
  PROVE  PlugInv'
<1>1. PICK op \in Ops, p \in {"enable", "disable", "download", "check", "limit"}, b \in BOOLEAN,
           s \in Settings :
        /\ Request(op, p, b, s)
        /\ p = "enable" => op = "enable"
        /\ p = "disable" => op \in {"disable", "uninstall"}
        /\ p = "download" => op = "install"
  BY PluginsAssumption
     DEF RequestEnable, RequestDisable, RequestInstall, RequestUninstall, RequestSettings, RequestLimit,
         Ops
<1>2. /\ UNCHANGED <<cfg, disk, ctx, procs, relay, pkg, data, keep, strays>>
      /\ admin.pc = "idle" /\ ctx # "stopped" /\ keep = "none" /\ stopper.pc = "none"
  BY <1>1 DEF Request, files, PlugInv, AsideAgrees, StopAgrees
<1>3. admin' \in AdminRec /\ admin'.pc = p /\ admin'.op = op
  <2>1. 0 \in 0 .. made
    BY MadeInsts DEF PlugInv
  <2>2. p \in AdminPcs
    BY DEF AdminPcs, InstallPcs, DisablePcs, SettingsPcs, LimitPcs
  <2> QED BY <1>1, <2>1, <2>2 DEF Request, AdminRec
<1>4. AdminAgrees' /\ StopAgrees' /\ MapAgrees' /\ ItemAgrees' /\ AsideAgrees'
  BY <1>1, <1>2, <1>3 DEF PlugInv, AdminAgrees, StopAgrees, MapAgrees, ItemAgrees, AsideAgrees,
                          InstallPcs, RemovalPcs, DisablePcs, procs
<1> QED BY <1>2, <1>3, <1>4, AdminFrame, FileTypes

\* The context is cancelled, or the manager stops.
LEMMA EndKeeps ==
  ASSUME PlugInv, CancelContext \/ ManagerStop
  PROVE  PlugInv'
<1>1. /\ UNCHANGED <<cfg, disk, cur, made, inst, admin, pkg, data, keep, strays, req, log, late>>
      /\ ctx' \in {"cancelled", "stopped"} /\ cur \in 0 .. made
  BY DEF CancelContext, ManagerStop, procs, files, relay, PlugInv, TypeOK
<1>2. \/ UNCHANGED stopper /\ ctx = "up" /\ ctx' = "cancelled"
      \/ /\ stopper.pc = "none" /\ ctx' = "stopped" /\ admin.pc = "idle"
         /\ stopper' = IF cur = 0 THEN NoStop ELSE [pc |-> "flag", target |-> cur]
  BY DEF CancelContext, ManagerStop, procs, muFree
<1>3. stopper' \in [pc : {"none", "flag", "state", "teardown", "kill", "return"}, target : 0 .. made]
  BY <1>1, <1>2 DEF PlugInv, TypeOK, NoStop
<1>4. TypeOK' /\ AdminTypes'
  BY <1>1, <1>3 DEF PlugInv, TypeOK, AdminTypes
<1>5. AdminAgrees' /\ MapAgrees' /\ AsideAgrees' /\ LogWithinLimit' /\ OneRunner' /\ ProcAgrees'
  BY <1>1 DEF PlugInv, AdminAgrees, MapAgrees, AsideAgrees, LogWithinLimit, OneRunner, ProcAgrees
<1>6. StopAgrees' /\ ItemAgrees'
  BY <1>1, <1>2 DEF PlugInv, StopAgrees, ItemAgrees, NoStop
<1>7. DisarmedEnds'
  <2>1. stopper.pc = "none" => stopper.target = 0
    BY DEF PlugInv, StopAgrees
  <2>2. CASE UNCHANGED stopper
    BY <1>1, <2>2 DEF PlugInv, DisarmedEnds, Disarmed
  <2>3. CASE stopper.pc = "none" /\ stopper' = NoStop
    <3>1. stopper'.pc = "none" /\ stopper'.target = 0
      BY <2>3 DEF NoStop
    <3> QED BY <1>1, <2>1, <2>3, <3>1 DEF PlugInv, DisarmedEnds, Disarmed
  <2>4. CASE stopper.pc = "none" /\ cur # 0 /\ stopper' = [pc |-> "flag", target |-> cur]
    BY <1>1, <2>4, FlagKeepsDisarmed
  <2> QED BY <1>2, <2>2, <2>3, <2>4
<1> QED BY <1>4, <1>5, <1>6, <1>7 DEF PlugInv

-----------------------------------------------------------------------------
(* The theorems. *)

\* It holds when the relay starts.
LEMMA PlugStarts == Init => PlugInv
<1> SUFFICES ASSUME Init PROVE PlugInv
  OBVIOUS
<1>1. \A i \in Insts : inst[i] = NewInstance(Default)
  BY DEF Init
<1>2. NewInstance(Default) \in InstRec /\ ProcOK(NewInstance(Default)) /\ ~NewInstance(Default).stopped
      /\ NewInstance(Default).settings = Default
  BY PluginsAssumption DEF NewInstance, InstRec, ProcOK
<1>3. made \in 0 .. 1 /\ cur = made /\ 1 .. made \subseteq Insts /\ made \in 0 .. MaxInst
      /\ inst \in [Insts -> InstRec] /\ cfg \in Items
  <2>1. made \in 0 .. 1 /\ cur = made
    BY DEF Init
  <2>2. 1 .. made \subseteq Insts /\ made \in 0 .. MaxInst
    BY <2>1, PluginsAssumption DEF Insts
  <2>3. inst \in [Insts -> InstRec]
    BY <1>2 DEF Init
  <2>4. cfg \in Items
    <3>1. cfg = NoItem \/ cfg = [known |-> TRUE, enabled |-> TRUE, settings |-> Default]
      BY DEF Init
    <3>2. Default \in Settings
      BY PluginsAssumption
    <3>3. NoItem \in Items /\ [known |-> TRUE, enabled |-> TRUE, settings |-> Default] \in Items
      BY <3>2 DEF NoItem, Items
    <3> QED BY <3>1, <3>3
  <2> QED BY <2>1, <2>2, <2>3, <2>4
<1>4. stopper = NoStop /\ NoStop.pc = "none" /\ NoStop.target = 0 /\ admin = Idle /\ Idle.pc = "idle"
      /\ Idle.op = "none"
  BY DEF Init, NoStop, Idle
<1>5. TypeOK
  BY <1>3, PluginsAssumption DEF Init, TypeOK, InstRec, Items, NoStop, Content
<1>6. AdminTypes
  <2>1. log = [limit |-> LogSize, rows |-> 0, queue |-> 0, pc |-> "idle", seen |-> 0] /\ late = FALSE
        /\ 0 \in 0 .. LogCap /\ LogSize \in Limits /\ 0 \in 0 .. made
    BY <1>3, PluginsAssumption DEF Init
  <2>2. admin \in AdminRec
    BY <1>4, <2>1, PluginsAssumption DEF Idle, AdminRec, Ops, AdminPcs
  <2> QED BY <2>1, <2>2 DEF AdminTypes, AdminRec
<1>7. AdminAgrees /\ StopAgrees /\ AsideAgrees /\ MapAgrees /\ LogWithinLimit
  <2>1. log.rows = 0 /\ log.limit \in Nat
    BY PluginsAssumption DEF Init
  <2>2. cur # 0 => ~inst[cur].stopped
    BY <1>1, <1>2, <1>3
  <2> QED BY <1>4, <2>1, <2>2 DEF Init, AdminAgrees, StopAgrees, AsideAgrees, MapAgrees, LogWithinLimit,
                            InstallPcs, RemovalPcs, DisablePcs
<1>8. OneRunner /\ ProcAgrees /\ DisarmedEnds
  <2>1. NewInstance(Default).pc = "head" /\ NewInstance(Default).proc = "none"
    BY DEF NewInstance
  <2> QED BY <1>1, <1>2, <1>3, <2>1 DEF OneRunner, ProcAgrees, DisarmedEnds, Disarmed
<1>9. ItemAgrees
  <2> SUFFICES ASSUME cur # 0 PROVE cfg.known /\ cfg.enabled /\ inst[cur].settings = cfg.settings
    BY DEF ItemAgrees
  <2>1. cur = 1 /\ 1 \in Insts
    BY <1>3
  <2>2. cfg = [known |-> TRUE, enabled |-> TRUE, settings |-> Default]
    BY <2>1 DEF Init
  <2> QED BY <1>1, <1>2, <2>1, <2>2
<1> QED BY <1>5, <1>6, <1>7, <1>8, <1>9 DEF PlugInv

\* Every step keeps it.
LEMMA PlugKeeps == PlugInv /\ [Next]_vars => PlugInv'
<1> SUFFICES ASSUME PlugInv, [Next]_vars PROVE PlugInv'
  OBVIOUS
<1>1. CASE UNCHANGED vars
  <2>1. UNCHANGED <<cfg, disk, ctx, cur, made, inst, stopper, admin, pkg, data, keep, strays, req, log, late>>
    BY <1>1 DEF vars, procs, files, relay
  <2>2. TypeOK' /\ AdminTypes' /\ AdminAgrees' /\ StopAgrees' /\ MapAgrees' /\ ItemAgrees'
    BY <2>1 DEF PlugInv, TypeOK, AdminTypes, AdminAgrees, StopAgrees, MapAgrees, ItemAgrees
  <2>3. OneRunner' /\ ProcAgrees' /\ DisarmedEnds' /\ LogWithinLimit' /\ AsideAgrees'
    BY <2>1 DEF PlugInv, OneRunner, ProcAgrees, DisarmedEnds, Disarmed, LogWithinLimit, AsideAgrees
  <2> QED BY <2>2, <2>3 DEF PlugInv
<1>2. CASE Requests
  BY <1>2, RequestKeeps, QueueKeeps, ReqKeeps, EndKeeps DEF Requests
<1>3. CASE AdminSteps
  BY <1>3, EnableKeeps, DisableKeeps, FilesKeep, ItemsKeep, CommitKeeps, LimitKeeps DEF AdminSteps
<1>4. CASE StopSteps
  BY <1>4, StopStepKeeps, StopKillKeeps DEF StopSteps
<1>5. CASE RelaySteps
  BY <1>5, ReqKeeps, LogKeeps DEF RelaySteps
<1>6. CASE \E i \in Insts : LoopSteps(i) \/ Crash(i) \/ Dispatch(i)
  BY <1>6, LoopKeeps, QueueKeeps
<1> QED BY <1>1, <1>2, <1>3, <1>4, <1>5, <1>6 DEF Next

\* Whatever the order of admin requests, crashes and failing file operations,
\* only the instance in the map runs by decision of the manager, configuration
\* and instance agree between requests, a process outlives stop() only by the
\* race of teardownProc with spawnAndHandshake or while its own loop is already
\* ending it, and the log keeps its limit.
THEOREM PluginsAreConsistent == Spec => []PluginsConsistent
<1>1. ASSUME PlugInv PROVE PluginsConsistent
  <2>1. TypeOK /\ OneRunner /\ LogWithinLimit
    BY <1>1 DEF PlugInv
  <2>2. ConfigAgrees
    BY <1>1 DEF PlugInv, ItemAgrees, ConfigAgrees
  <2>3. OnlyRacedSurvives
    <3> SUFFICES ASSUME NEW i \in 1 .. made, inst[i].stopped, stopper.target # i,
                        inst[i].proc \in {"alive", "doomed"}, ~inst[i].raced
                 PROVE  inst[i].proc = "doomed" /\ inst[i].pc = "kill"
      BY DEF OnlyRacedSurvives
    <3>1. Over(inst[i]) /\ (inst[i].proc = "doomed" => inst[i].pc = "kill")
      BY <1>1 DEF PlugInv, DisarmedEnds, Disarmed
    <3>2. ProcOK(inst[i]) /\ inst[i] \in InstRec
      BY <1>1, MadeInsts DEF PlugInv, ProcAgrees
    <3> QED BY <3>1, <3>2 DEF Over, ProcOK, InstRec
  <2> QED BY <2>1, <2>2, <2>3 DEF PluginsConsistent
<1> QED BY <1>1, PlugStarts, PlugKeeps, PTL DEF Spec

\* The data of a plugin survives every installation and upgrade, also one that
\* fails at any of its file operations: it is in its place, put aside by the
\* request under way, or left behind where an administrator finds it.
THEOREM DataSurvivesInstall == Spec => InstallKeepsData
<1>1. ASSUME PlugInv, [Next]_vars
      PROVE  [admin.op # "uninstall" /\ UserData => UserData']_vars
  <2> SUFFICES ASSUME Next, admin.op # "uninstall", UserData
               PROVE  UserData'
    BY <1>1
  <2>0. admin.pc \notin RemovalPcs
    BY <1>1 DEF PlugInv, AdminAgrees
  <2>1. CASE UNCHANGED files
    BY <2>1 DEF files, UserData
  <2>2. CASE Enable
    BY <2>2 DEF Enable, UserData
  <2>3. CASE Stash
    BY <1>1, <2>3 DEF Stash, PutAside, UserData, PlugInv, AsideAgrees
  <2>4. CASE RemoveOld \/ CopyNew \/ Restore
    BY <1>1, <2>4 DEF RemoveOld, CopyNew, Restore, PutBack, MovedBack, LeftAside, UserData, PlugInv, AsideAgrees
  <2>5. \/ UNCHANGED files \/ Enable \/ Stash \/ RemoveOld \/ CopyNew \/ Restore
    <3>1. ~(Wipe \/ KeepAside \/ RemoveKept \/ MakeBare \/ MoveKeptBack)
      BY <2>0 DEF Wipe, KeepAside, RemoveKept, MakeBare, MoveKeptBack, RemovalPcs
    <3>2. ASSUME Requests PROVE UNCHANGED files
      BY <3>2 DEF Requests, RequestEnable, RequestDisable, RequestInstall, RequestUninstall,
                  RequestSettings, RequestLimit, Request, Observe, ReqArrives, RelayStep, CancelContext,
                  ManagerStop
    <3>3. ASSUME StopSteps PROVE UNCHANGED files
      BY <3>3 DEF StopSteps, StopFlag, StopState, StopTeardown, StopKill, StopStep
    <3>4. ASSUME RelaySteps PROVE UNCHANGED files
      BY <3>4 DEF RelaySteps, ReqList, ReqAsk, ReqCall, LogTake, LogAppend, RelayStep
    <3>5. ASSUME NEW i \in Insts, LoopSteps(i) \/ Crash(i) \/ Dispatch(i) PROVE UNCHANGED files
      BY <3>5 DEF LoopSteps, LoopHead, Spawn, Handshake, Publish, WaitUntilDead, LoopTeardown, LoopKill,
                  Backoff, Reap, Crash, Dispatch, InstStep, RelayStep
    <3>6. ASSUME AdminSteps PROVE UNCHANGED files \/ Enable \/ Stash \/ RemoveOld \/ CopyNew \/ Restore
      BY <3>1, <3>6 DEF AdminSteps, Disable, Persist, Download, Unpack, Upsert, DropItem, SettingsCheck,
                        SettingsCall, SettingsCommit, LimitStore, LimitTrim
    <3> QED BY <3>2, <3>3, <3>4, <3>5, <3>6 DEF Next
  <2> QED BY <2>1, <2>2, <2>3, <2>4, <2>5
<1> QED BY <1>1, PlugStarts, PlugKeeps, PTL DEF Spec, InstallKeepsData

=============================================================================
