---------------------------- MODULE MigrateCopy ----------------------------
(***************************************************************************)
(* The admin migration tool (admin/routes_migration.go,                    *)
(* storage/migrator.go): one job at a time opens the target, which brings  *)
(* its schema up to date, takes a snapshot of the primary and copies it    *)
(* event by event, checking each one, while clients go on publishing to    *)
(* the primary and another relay may write to the target.                  *)
(*                                                                         *)
(* SaveEvent of a store is one step here; EventStore shows what its        *)
(* statements make of it.                                                  *)
(***************************************************************************)
EXTENDS SchemaUpgrade

CONSTANTS
  Targets,    \* the databases a migration may be pointed at
  Arrivals,   \* bound: [{"primary", "target"} -> events others publish there]
  MaxJobs     \* bound: migrations requested

\* A target is what a release left behind, with any events in it; the file of
\* metadata only is no target.
ASSUME CopyAssumption ==
  /\ MaxJobs \in Nat
  /\ Arrivals \in [{"primary", "target"} -> SUBSET (Events \ Ephemeral)]
  /\ \A t \in Targets :
       \E e \in {"turso", "postgres"}, rows \in SUBSET (Events \ Ephemeral) :
         t \in EventDatabases(e, rows) \ {Bare}

VARIABLES
  job,       \* "none", "target", "snapshot", "next", "save", "verify", "done", "failed"
  snapshot,  \* the events the read transaction sees
  left,      \* those still to be scanned
  jobs,      \* migrations requested so far
  told       \* what the last preflight said of the target

copyVars == <<job, snapshot, left, jobs, told>>
vars == <<upgradeVars, copyVars>>

Init ==
  /\ UpgradeInit(Targets)
  /\ job = "none" /\ snapshot = {} /\ left = {} /\ jobs = 0 /\ told = "nothing"

\* SaveEvent: the row replaces the older versions of itself; the triggers keep
\* the search index in step.
Saved(s, e) ==
  LET rows == (s.rows \ Older(e, s.rows)) \cup {e} IN
  [s EXCEPT !.rows = rows,
            !.index = [x \in Events |->
                         IF x = e THEN @[x] + 1
                         ELSE IF x \in s.rows \ rows THEN 0 ELSE @[x]]]

\* Someone publishes: clients of the relay, or another relay on the target.
Publish(d, e) ==
  /\ d = "primary" => pc = "open"
  /\ Done(db[d]) /\ Usable(d)
  /\ e \in Arrivals[d] /\ ~KeptIn(e, db[d].rows)
  /\ db' = [db EXCEPT ![d] = Saved(@, e)]
  /\ UNCHANGED <<was, legacy, copied, boot, crashes, copyVars>>

\* handleMigrationTargetPreflight: the administrator looks before the copy.
TargetPreflight ==
  /\ pc = "open" /\ jobs < MaxJobs
  /\ told' = IF db["target"].engine = "turso" THEN TursoPreflight(db["target"])
             ELSE PostgresPreflight(db["target"])
  /\ UNCHANGED <<upgradeVars, job, snapshot, left, jobs>>

\* handleMigrationStart: migrationRunning admits one job; the source is the
\* primary, which is open and up to date.
MigrationStart ==
  /\ pc = "open" /\ jobs < MaxJobs
  /\ job \in {"none", "done", "failed"}
  /\ job' = "target" /\ jobs' = jobs + 1
  /\ snapshot' = {} /\ left' = {}
  /\ plan' = [plan EXCEPT !["target"] = <<>>]
  /\ UNCHANGED <<db, was, legacy, copied, pc, table, seen, crashes, told>>

\* openMigrationSource of the target runs the store's migrations.
TargetExec ==
  /\ job = "target" /\ Exec("target")
  /\ UNCHANGED <<was, legacy, copied, pc, table, seen, crashes, copyVars>>

JobEnds(result) ==
  /\ job' = result
  /\ UNCHANGED <<upgradeVars, snapshot, left, jobs, told>>

TargetRefused ==
  /\ job = "target"
  /\ ExecFails("target") \/ Refused(db["target"])
  /\ JobEnds("failed")

\* BeginMigrationSnapshot and the counts.
BeginMigrationSnapshot ==
  /\ job = "target" /\ Done(db["target"]) /\ Accepted(db["target"])
  /\ job' = "next"
  /\ snapshot' = db["primary"].rows /\ left' = db["primary"].rows
  /\ UNCHANGED <<upgradeVars, jobs, told>>

\* ScanEventsForMigration: "created_at ASC, id ASC".
Scanned ==
  CHOOSE e \in left : \A f \in left \ {e} :
    \/ CreatedAt[e] < CreatedAt[f]
    \/ CreatedAt[e] = CreatedAt[f] /\ IdRank[e] < IdRank[f]

\* HasEventID: an event that is there is only verified.
CheckEvent ==
  /\ job = "next" /\ left # {}
  /\ job' = IF Scanned \in db["target"].rows THEN "verify" ELSE "save"
  /\ UNCHANGED <<upgradeVars, snapshot, left, jobs, told>>

\* Mutant: the row replaces whatever has its address
SaveNewAnyway ==
  /\ job = "save" /\ Scanned \notin db["target"].rows
  /\ db' = [db EXCEPT !["target"].rows =
                (@ \ {r \in @ : SameAddress(r, Scanned)}) \cup {Scanned}]
  /\ job' = "verify"
  /\ UNCHANGED <<was, legacy, copied, boot, crashes, snapshot, left, jobs, told>>

\* SaveEvent: the row is inserted unless its place is taken.
SaveNew ==
  /\ job = "save" /\ ~KeptIn(Scanned, db["target"].rows)
  /\ db' = [db EXCEPT !["target"] = Saved(@, Scanned)]
  /\ job' = "verify"
  /\ UNCHANGED <<was, legacy, copied, boot, crashes, snapshot, left, jobs, told>>

\* ErrStaleReplaceable, also for the same version saved by someone else: the
\* conditional insert affects no row and the event is skipped.
SaveStale ==
  /\ job = "save" /\ AddrOf[Scanned] # Regular
  /\ KeptIn(Scanned, db["target"].rows)
  /\ left' = left \ {Scanned} /\ job' = "next"
  /\ UNCHANGED <<upgradeVars, snapshot, jobs, told>>

\* A regular event saved by someone else: a second row with its id is an error.
SaveDuplicate ==
  /\ job = "save" /\ AddrOf[Scanned] = Regular
  /\ Scanned \in db["target"].rows
  /\ JobEnds("failed")

\* verifyEvent reads the event back.
Verified ==
  /\ job = "verify" /\ Scanned \in db["target"].rows
  /\ left' = left \ {Scanned} /\ job' = "next"
  /\ UNCHANGED <<upgradeVars, snapshot, jobs, told>>

VerifyFails ==
  /\ job = "verify" /\ Scanned \notin db["target"].rows
  /\ JobEnds("failed")

\* Every event was scanned and the totals agree: "done" goes to the client.
MigrationDone ==
  /\ job = "next" /\ left = {}
  /\ JobEnds("done")

\* Mutant: an event that cannot be saved is skipped
StepSkips ==
  /\ job = "save"
  /\ left' = left \ {Scanned} /\ job' = "next"
  /\ UNCHANGED <<upgradeVars, snapshot, jobs, told>>

\* A query or an insert fails, or the client of the job goes away.
StepFails ==
  /\ job \in {"target", "next", "save", "verify"}
  /\ JobEnds("failed")

\* The process dies with its job.
Die ==
  /\ Crash
  /\ job' = "none" /\ snapshot' = {} /\ left' = {}
  /\ UNCHANGED <<jobs, told>>

Job ==
  \/ TargetExec \/ TargetRefused \/ BeginMigrationSnapshot
  \/ CheckEvent \/ SaveNew \/ SaveStale \/ SaveDuplicate
  \/ Verified \/ VerifyFails \/ MigrationDone

Next ==
  \/ Boot /\ UNCHANGED copyVars
  \/ TargetPreflight \/ MigrationStart \/ Job \/ StepFails \/ Die
  \/ \E d \in {"primary", "target"}, e \in Events : Publish(d, e)

Spec == Init /\ [][Next]_vars

\* A process that exits is started again; its own steps and those of its job
\* are taken.  Deaths are bounded by MaxCrashes.
FairSpec == Spec /\ WF_vars(Boot /\ UNCHANGED copyVars) /\ WF_vars(Job)

--------------------------------------------------------------------------
\* The store a relay serves, and the target a job copies to, have every table
\* and a search index with each event exactly once, whatever interrupted the
\* upgrades before ("retries cannot add duplicate FTS rows",
\* sqlevent/migrations.go).  A version 7 file without event tables is the
\* exception: interrupted while it gets them, it is taken for complete.
OpenIsUsable ==
  /\ pc = "open" => Usable("primary") \/ was.bare
  /\ job \in {"next", "save", "verify"} => Usable("target")

\* migrator.go: "every accepted event is read back".  A job that reports
\* success has left each event of its snapshot, or a newer version of it, in
\* the target, although others write there and earlier jobs failed half way.
CopyComplete == job = "done" => \A e \in snapshot : KeptIn(e, db["target"].rows)

\* migration_preflight.go: a target reported empty, behind or current can be
\* opened, also after a job that began on it was interrupted between two
\* statements, and "ahead" is never said of one that could.  A version 8 with
\* another search layout is the exception: its version is all that is read.
PreflightHolds ==
  /\ told \in {"empty", "behind", "current"} =>
       ~ExecFails("target") /\ (Refused(db["target"]) => db["target"].version = 8)
  /\ told = "ahead" => Refused(db["target"])

\* A store that is opened, or promised to open, can be used.
StoreUsable == OpenIsUsable /\ PreflightHolds

\* A copy takes nothing back: no version in the target gives way to an older
\* one, in whatever order job and publishers write.
TargetKeeps == [][\A e \in db["target"].rows : KeptIn(e, db'["target"].rows)]_vars

\* Every start ends with an open store, however often it was interrupted,
\* except for schemas that are refused, and for a database caught between the
\* two halves of version 3, whose buckets copyLegacyMetricBuckets cannot read.
UpgradeEnds ==
  []<>(pc = "open" \/ Refused(db["meta"]) \/ Refused(db["primary"]) \/ HalfBuckets)

=============================================================================
