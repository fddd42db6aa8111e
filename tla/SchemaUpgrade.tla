--------------------------- MODULE SchemaUpgrade ---------------------------
(***************************************************************************)
(* Start-up of the databases (internal/db/open.go): the metadata sidecar   *)
(* is opened and brought to its version, the operational tables of an      *)
(* older events database are copied into it (db/legacy_meta.go), and the   *)
(* events database is brought to its version statement by statement        *)
(* (sqlevent/migrations.go, postgres/migrations.go), which drops the       *)
(* copied tables.  The process may die, or its context be cancelled,       *)
(* between any two statements; it is then started again.                   *)
(*                                                                         *)
(* A schema is the set of its parts.  Plain indexes are left out.          *)
(***************************************************************************)
EXTENDS EventOrder, Sequences, FiniteSets

CONSTANTS
  NumRows,     \* legacy rows are 1..NumRows, in the order of their ids
  TableOf,     \* [1..NumRows -> Tables]
  AboutOf,     \* [1..NumRows -> the event an audit row is about, or NoEvent]
  NoEvent,
  Engines,     \* engines of the events database: "turso", "postgres"
  Old,         \* events stored by the older release
  MaxCrashes   \* bound: deaths of the process

\* The operational tables, in the order copyAllLegacyMeta visits them.
TableOrder == <<"audit", "changelog", "buckets", "sessions">>
Tables == {"audit", "changelog", "buckets", "sessions"}
Rows == 1 .. NumRows

ASSUME UpgradeAssumption ==
  /\ NumRows \in Nat /\ MaxCrashes \in Nat
  /\ TableOf \in [Rows -> Tables]
  /\ AboutOf \in [Rows -> Events \cup {NoEvent}]
  /\ Engines \subseteq {"turso", "postgres"}
  /\ Old \subseteq Events \ Ephemeral

VARIABLES
  db,       \* the databases "meta", "primary" and "target"
  was,      \* what the primary began with: its legacy rows, and whether it
            \* was a version 7 file without event tables (never changes)
  legacy,   \* the legacy rows still in the primary
  copied,   \* the legacy rows in the sidecar, in the order of insertion
  pc,       \* the process: "down", "meta", "legacy", "schema", "open"
  plan,     \* [database -> statements left of the upgrade step it is in]
  table,    \* index into TableOrder of the table being copied
  seen,     \* rows of that table already scanned
  crashes

boot == <<pc, plan, table, seen>>
upgradeVars == <<db, was, legacy, copied, boot, crashes>>

Databases == {"meta", "primary", "target"}

\* schemaVersion of the engines.
Current(engine) ==
  CASE engine = "turso" -> 8 [] engine = "postgres" -> 7 [] OTHER -> 2

\* createFTS5AndTriggers: the index, the table of its row ids, the triggers.
SearchParts == {"search", "rowmap", "triggers"}

\* What a store of the engine works with.
EventParts(engine) ==
  {"events", "tags", "search"} \cup (IF engine = "turso" THEN SearchParts ELSE {})
NoPlan == [d \in Databases |-> <<>>]
Exact(rows) == [e \in Events |-> IF e \in rows THEN 1 ELSE 0]

--------------------------------------------------------------------------
\* The statements of an upgrade.  `version` is the version a statement sets
\* (0: none); `search` says what it does to the search index; a transaction
\* is one statement.
Stmt(needs, adds, drops, version) ==
  [needs |-> needs, adds |-> adds, drops |-> drops, version |-> version, search |-> "keep"]
Create(part) == Stmt({}, {part}, {}, 0)
Drop(part) == Stmt({}, {}, {part}, 0)
SetVersion(v) == Stmt({}, {}, {}, v)

Rebuilt(stmt) == [stmt EXCEPT !.search = "rebuild"]
Completed(stmt) == [stmt EXCEPT !.search = "complete"]

\* sqlevent: each statement of migrateFresh is committed by itself.
TursoFresh ==
  <<Create("events"), Create("tags"), Create("search"), Create("rowmap"),
    Create("triggers"), SetVersion(8)>>

\* Mutant: an index that is there is taken as it is
V1ToV2Resumes == <<Completed(Stmt({"events"}, SearchParts, {}, 2))>>

\* migrateV1ToV2: the search index is rebuilt in one transaction.
V1ToV2 == <<Rebuilt(Stmt({"events"}, SearchParts, {}, 2))>>

\* migrateV2ToV3.
V2ToV3 == <<Create("buckets"), SetVersion(3)>>

\* migrateV3ToV4 adds the column unless it is there.
V3ToV4 == <<Stmt({"buckets"}, {"subsopen"}, {}, 0), SetVersion(4)>>

\* migrateV4ToV5: indexes on two tables that have to be there.
V4ToV5 == <<Stmt({"tags", "audit"}, {}, {}, 0), SetVersion(5)>>

\* migrateV5ToV6.
V5ToV6 == <<Create("sessions"), SetVersion(6)>>

\* migrateV6ToV7: the operational tables go, one by one.
V6ToV7 ==
  <<Drop("sessions"), Stmt({}, {}, {"buckets", "subsopen"}, 0), Drop("changelog"),
    Drop("audit"), SetVersion(7)>>

\* migrateV7ToV8: the row ids of the search index get a table, in one
\* transaction; a file of metadata only starts afresh.
V7ToV8(s) ==
  IF "events" \in s.has THEN <<Completed(Stmt({}, SearchParts, {}, 8))>> ELSE TursoFresh

\* runMigrations of sqlevent: the version is read again before each step.
TursoTodo(s) ==
  IF s.version = 0 THEN TursoFresh
  ELSE <<V1ToV2, V2ToV3, V3ToV4, V4ToV5, V5ToV6, V6ToV7, V7ToV8(s)>>[s.version]

\* postgres: migrateFresh is one transaction, the version row included.
PostgresFresh == <<Stmt({}, {"events", "tags", "search"}, {}, 7)>>

\* postgres: the search column is generated, in one transaction with the
\* version; the other steps are those of SQLite, statement by statement.
PostgresSteps ==
  <<<<Rebuilt(Stmt({"events"}, {"search"}, {}, 2))>>,
    V2ToV3, V3ToV4, V4ToV5, V5ToV6, V6ToV7>>

\* runMigrations of postgres looks for the events table before the version.
PostgresTodo(s) ==
  IF "events" \notin s.has THEN PostgresFresh ELSE PostgresSteps[s.version]

\* sqlitemeta: migrateFresh, statement by statement.
MetaFresh ==
  <<Create("audit"), Create("changelog"), Create("buckets"), Create("sessions"),
    Create("totalauth"), SetVersion(2)>>

\* sqlitemeta: migrateV1ToV2 adds a column unless it is there.
MetaV1ToV2 == <<Stmt({"sessions"}, {"totalauth"}, {}, 0), SetVersion(2)>>

\* runMigrations of sqlitemeta.
MetaTodo(s) == IF s.version = 0 THEN MetaFresh ELSE MetaV1ToV2

Todo(s) ==
  CASE s.engine = "turso" -> TursoTodo(s)
    [] s.engine = "postgres" -> PostgresTodo(s)
    [] OTHER -> MetaTodo(s)

\* postgres: event tables without a row in the table of versions.
Unversioned(s) == s.engine = "postgres" /\ s.version = 0 /\ "events" \in s.has

\* No statement is run any more: the schema is up to date, of a version of the
\* future, or of none that can be read.
Done(s) ==
  /\ s.engine = "postgres" => "events" \in s.has
  /\ s.version >= Current(s.engine) \/ Unversioned(s)

\* validateV8FTSLayout, and the refusal of a version that is not known.
Accepted(s) ==
  /\ s.version = Current(s.engine)
  /\ s.engine = "turso" => SearchParts \subseteq s.has

\* The store is not opened: a newer release's schema, one of another build, or
\* event tables whose version cannot be read.
Refused(s) == Done(s) /\ ~Accepted(s)

\* PreflightMigrationTarget of the two engines, which only reads.
VersionStatus(s) ==
  CASE s.version > Current(s.engine) -> "ahead"
    [] s.version < Current(s.engine) -> "behind"
    [] OTHER -> "current"

\* Mutant: a version of the future is taken for the current one
TursoPreflightNoAhead(s) ==
  IF s.version = 0 /\ "events" \notin s.has THEN "empty"
  ELSE IF s.version < 8 THEN "behind" ELSE "current"

TursoPreflight(s) ==
  CASE s.version = 0 /\ "events" \notin s.has -> "empty"
    [] s.version = 0 /\ "events" \in s.has -> "unreadable"
    [] OTHER -> VersionStatus(s)

PostgresPreflight(s) ==
  CASE "events" \notin s.has -> "empty"
    [] Unversioned(s) -> "unreadable"
    [] OTHER -> VersionStatus(s)

\* Mutant: the column is added without looking whether it is there
RunsAddsBlindly(stmt, s) ==
  /\ stmt.needs \subseteq s.has
  /\ stmt.adds = {"subsopen"} => "subsopen" \notin s.has

\* A statement succeeds; the table of row ids takes one row per event.
Runs(stmt, s) ==
  /\ stmt.needs \subseteq s.has
  /\ stmt.search = "complete" /\ "search" \in s.has => \A e \in Events : s.index[e] <= 1

Apply(stmt, s) ==
  [s EXCEPT !.has = (@ \cup stmt.adds) \ stmt.drops,
            !.version = IF stmt.version = 0 THEN @ ELSE stmt.version,
            !.index = IF \/ stmt.search = "rebuild"
                         \/ stmt.search = "complete" /\ "search" \notin s.has
                      THEN Exact(s.rows) ELSE @]

\* The step database d is in; the version is read at the start of each step.
Step(d) == IF plan[d] = <<>> THEN Todo(db[d]) ELSE plan[d]

\* One statement on database d.
Exec(d) ==
  /\ ~Done(db[d]) /\ Runs(Head(Step(d)), db[d])
  /\ db' = [db EXCEPT ![d] = Apply(Head(Step(d)), @)]
  /\ plan' = [plan EXCEPT ![d] = Tail(Step(d))]

\* A statement that cannot succeed: the schema is not what its version says.
ExecFails(d) == ~Done(db[d]) /\ ~Runs(Head(Step(d)), db[d])

--------------------------------------------------------------------------
\* The databases releases have left behind: every version of the steps above,
\* an index half filled at version 1, a version 7 file of metadata only, a
\* version 8 with another search layout, a newer version, and PostgreSQL tables
\* that have lost their version.
MetaParts(v) ==
  IF v \in 1 .. 6
  THEN {"audit", "changelog"}
         \cup (IF v >= 3 THEN {"buckets"} ELSE {})
         \cup (IF v >= 4 THEN {"subsopen"} ELSE {})
         \cup (IF v = 6 THEN {"sessions"} ELSE {})
  ELSE {}

OldParts(engine, v) ==
  (IF v = 0 THEN {}
   ELSE {"events", "tags"} \cup (IF v >= 2 THEN {"search"} ELSE {}))
    \cup (IF v >= Current(engine) THEN EventParts(engine) ELSE {})
    \cup MetaParts(v)

Schema(engine, v, has, rows, index) ==
  [engine |-> engine, version |-> v, has |-> has, rows |-> rows, index |-> index]

\* A file of metadata only, as version 7 made it.
Bare == Schema("turso", 7, {}, {}, Exact({}))

\* An events database of engine e that holds `rows`.
EventDatabases(e, rows) ==
  {Schema(e, v, OldParts(e, v), IF v = 0 THEN {} ELSE rows,
          Exact(IF v < 2 THEN {} ELSE rows)) : v \in 0 .. Current(e) + 1}
  \cup {Schema(e, 1, OldParts(e, 1) \cup {"search"}, rows, i) :
          i \in {f \in [Events -> 0 .. 2] : \A x \in Events \ rows : f[x] = 0}}
  \cup (IF e = "turso"
        THEN {Bare, Schema(e, 8, {"events", "tags", "search"}, rows, Exact(rows))}
        ELSE {Schema(e, 0, {"events", "tags"}, rows, Exact(rows))})

MetaDatabases ==
  {Schema("meta", 0, {}, {}, Exact({})),
   Schema("meta", 1, Tables, {}, Exact({})),
   Schema("meta", 2, Tables \cup {"totalauth"}, {}, Exact({})),
   Schema("meta", 3, Tables \cup {"totalauth"}, {}, Exact({}))}

\* The process is not running yet.
UpgradeInit(targets) ==
  /\ \E p \in UNION {EventDatabases(e, Old) : e \in Engines}, m \in MetaDatabases, t \in targets :
       db = [d \in Databases |-> CASE d = "meta" -> m [] d = "primary" -> p [] OTHER -> t]
  /\ legacy = {r \in Rows : TableOf[r] \in db["primary"].has}
  /\ was = [rows |-> legacy,
            bare |-> db["primary"].version = 7 /\ "events" \notin db["primary"].has]
  /\ copied = <<>> /\ crashes = 0
  /\ pc = "down" /\ plan = NoPlan
  /\ table = 1 /\ seen = {}

--------------------------------------------------------------------------
\* main opens the databases.
Start ==
  /\ pc = "down"
  /\ pc' = "meta" /\ plan' = NoPlan
  /\ table' = 1 /\ seen' = {}
  /\ UNCHANGED <<db, was, legacy, copied, crashes>>

\* Opening fails: Open closes what it opened and the process exits.
Exit ==
  /\ pc' = "down" /\ plan' = NoPlan
  /\ table' = 1 /\ seen' = {}
  /\ UNCHANGED <<db, was, legacy, copied, crashes>>

\* sqlitemeta.Open.
MetaExec ==
  /\ pc = "meta" /\ Exec("meta")
  /\ UNCHANGED <<was, legacy, copied, pc, table, seen, crashes>>

\* Mutant: version 6 is taken for one without the operational tables
HasLegacyMetaEarly(s) == s.version < 6 /\ (s.engine = "postgres" => s.version > 0)

\* migrateLegacyMetaTurso, copyLegacyMetaPostgres: nothing to copy from version
\* 7 on, nor from a PostgreSQL database without a version.
HasLegacyMeta(s) == s.version < 7 /\ (s.engine = "postgres" => s.version > 0)

\* A sidecar of a newer release is refused.
MetaFails ==
  /\ pc = "meta" /\ Refused(db["meta"])
  /\ Exit

MetaOpened ==
  /\ pc = "meta" /\ Done(db["meta"]) /\ Accepted(db["meta"])
  /\ pc' = IF HasLegacyMeta(db["primary"]) THEN "legacy" ELSE "schema"
  /\ UNCHANGED <<db, was, legacy, copied, plan, table, seen, crashes>>

Holds(r) == \E i \in 1 .. Len(copied) : copied[i] = r

\* HasAuditDuplicate: the same row, or one about the same event.
HasAuditDuplicate(r) ==
  \/ Holds(r)
  \/ /\ AboutOf[r] # NoEvent
     /\ \E i \in 1 .. Len(copied) : TableOf[copied[i]] = "audit" /\ AboutOf[copied[i]] = AboutOf[r]

\* The rows of the table being copied that are still to be scanned; a table
\* that is not there has none.
Unseen == {r \in legacy : TableOf[r] = TableOrder[table]} \ seen
Scan == CHOOSE q \in Unseen : \A o \in Unseen : q <= o

\* One row of table t: skipped if the sidecar has it.
CopyRow(t, Duplicate(_)) ==
  /\ pc = "legacy" /\ TableOrder[table] = t /\ Unseen # {}
  /\ seen' = seen \cup {Scan}
  /\ copied' = IF Duplicate(Scan) THEN copied ELSE Append(copied, Scan)
  /\ UNCHANGED <<db, was, legacy, pc, plan, table, crashes>>

CopyLegacyAudit == CopyRow("audit", HasAuditDuplicate)

CopyLegacyChangelog == CopyRow("changelog", Holds)

\* copyLegacyMetricBuckets selects a column that version 3 does not have.
Readable == "buckets" \in db["primary"].has => "subsopen" \in db["primary"].has

\* UpsertRelayMetricBucket: a bucket that is there is replaced by itself.
CopyLegacyMetricBuckets == Readable /\ CopyRow("buckets", Holds)

CopyLegacyWSSessions == CopyRow("sessions", Holds)

\* copyAllLegacyMeta goes on to the next table.
CopyTableDone ==
  /\ pc = "legacy" /\ Unseen = {}
  /\ TableOrder[table] = "buckets" => Readable
  /\ IF table = Len(TableOrder)
     THEN pc' = "schema" /\ UNCHANGED table
     ELSE table' = table + 1 /\ UNCHANGED pc
  /\ UNCHANGED <<db, was, legacy, copied, plan, seen, crashes>>

CopyFails ==
  /\ pc = "legacy" /\ TableOrder[table] = "buckets" /\ ~Readable
  /\ Exit

\* The event store's Open: rows go with the tables that are dropped.
SchemaExec ==
  /\ pc = "schema" /\ Exec("primary")
  /\ legacy' = {r \in legacy : TableOf[r] \in db'["primary"].has}
  /\ UNCHANGED <<was, copied, pc, table, seen, crashes>>

SchemaFails ==
  /\ pc = "schema"
  /\ ExecFails("primary") \/ Refused(db["primary"])
  /\ Exit

Opened ==
  /\ pc = "schema" /\ Done(db["primary"]) /\ Accepted(db["primary"])
  /\ pc' = "open"
  /\ UNCHANGED <<db, was, legacy, copied, plan, table, seen, crashes>>

\* The process dies, or its context is cancelled while it starts.
Crash ==
  /\ pc # "down" /\ crashes < MaxCrashes
  /\ crashes' = crashes + 1
  /\ pc' = "down" /\ plan' = NoPlan
  /\ table' = 1 /\ seen' = {}
  /\ UNCHANGED <<db, was, legacy, copied>>

Boot ==
  \/ Start \/ MetaExec \/ MetaFails \/ MetaOpened
  \/ CopyLegacyAudit \/ CopyLegacyChangelog \/ CopyLegacyMetricBuckets
  \/ CopyLegacyWSSessions \/ CopyTableDone \/ CopyFails
  \/ SchemaExec \/ SchemaFails \/ Opened

--------------------------------------------------------------------------
\* The parts a store works with are there, and a search finds each event once.
Usable(d) ==
  /\ EventParts(db[d].engine) \subseteq db[d].has
  /\ db[d].engine = "turso" => db[d].index = Exact(db[d].rows)

\* A half-made version 3: the table of buckets without its last column.
HalfBuckets == ~Readable /\ db["primary"].version < 7

\* legacy_meta.go: metadata is copied "before the event store runs schema v7
\* (which drops meta tables)".  At every moment, whatever was interrupted and
\* repeated, each row of the older release is in the primary or in the sidecar
\* (as itself or as the row HasAuditDuplicate takes for it), and no row is in
\* the sidecar twice.
LegacyKept ==
  /\ \A r \in was.rows : r \in legacy \/ Holds(r) \/ (TableOf[r] = "audit" /\ HasAuditDuplicate(r))
  /\ \A i, j \in 1 .. Len(copied) : copied[i] = copied[j] => i = j

=============================================================================
