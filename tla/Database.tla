------------------------------ MODULE Database ------------------------------
(***************************************************************************)
(* The five steps that make an instance's database: setup-postgres,        *)
(* create-db-role, create-database, setup-data-dir (the filestore) and     *)
(* initialize-odoo-database, over a PostgreSQL server an administrator     *)
(* uses too.  Commands run one at a time: an installation, a resumed one,  *)
(* a rollback from disk.  The instance is the only one of its machine.     *)
(*                                                                         *)
(* The engine is condensed (Engine has it whole): a run and the saving of  *)
(* its record are one action, and a resumed run skips in one.  Since the   *)
(* undo of none of the five returns an error, the recorded steps are       *)
(* 1 .. recorded, and a rollback that ends leaves none.                    *)
(***************************************************************************)
EXTENDS Naturals

CONSTANTS
    Families,     \* the distribution families: subset of {"debian", "fedora"}
    Depth,        \* how many directories data_dir lies below the user's home
    DieIn,        \* where a process may die: "install", "init", "rollback"
    AdminMay,     \* the databases the administrator may create: "same", "other"
    MaxFaults     \* bound on deaths, failed undos and failed runs of two steps

VARIABLES
    family,       \* the machine's
    server,       \* the four axes of the server, each true or false
    role, db,     \* whose the role and the database of our names are
    schema,       \* how much of Odoo's schema db holds
    other,        \* is there a database of another name
    level,        \* how many of the directories down to data_dir there are
    found,        \* server and level as the installation found them
    disk,         \* the manifest
    pc,           \* "idle", "snapshot", "run", "undo"
    idx,          \* the step the process is at
    snap,         \* the snapshots in memory
    dbOurs,       \* Context::db_created_by_us
    aggressive,   \* --aggressive-rollback
    purge,        \* the undo of setup-postgres: the call it is at, purge_safe,
                  \* and (history) is there a database of another name that
                  \* was not when it asked
    cut,          \* a rollback died: disk may record what was undone
    faults

world == <<server, role, db, schema, other, level>>
vars == <<world, family, found, disk, pc, idx, snap, dbOurs, aggressive, purge, cut, faults>>

ASSUME FamiliesAssumption == Families \subseteq {"debian", "fedora"} /\ Families # {}
ASSUME DepthAssumption == Depth \in Nat \ {0}
ASSUME DieInAssumption == DieIn \subseteq {"install", "init", "rollback"}
ASSUME AdminMayAssumption == AdminMay \subseteq {"same", "other"}
ASSUME MaxFaultsAssumption == MaxFaults \in Nat

Postgres == 1
Role == 2
DatabaseStep == 3
DataDir == 4
Schema == 5
Steps == 1 .. 5

PreState == {"Untracked", "Preexisting", "CreatedByUs"}
Owner == {"absent", "ours", "theirs"}
Axis == {"installed", "cluster", "enabled", "active"}

\* PostgresSnapshot, DataDirSnapshot and the PreState of the other three.
Snapshots ==
    [pg : [Axis -> PreState],
     role : PreState, db : PreState, schema : PreState,
     dir : PreState, root : 0 .. Depth, dbWasOurs : BOOLEAN]

Default ==
    [pg |-> [x \in Axis |-> "Untracked"],
     role |-> "Untracked", db |-> "Untracked", schema |-> "Untracked",
     dir |-> "Untracked", root |-> 0, dbWasOurs |-> FALSE]

Calls == {"check", "stop", "disable", "purge", "remove"}

NoPurge == [call |-> "check", safe |-> FALSE, late |-> FALSE]

NoManifest == [recorded |-> 0, snap |-> Default, finished |-> FALSE]

Verdict(there) == IF there THEN "Preexisting" ELSE "Untracked"

\* The server answers psql only while it runs.
Up == server["active"]

-----------------------------------------------------------------------------
\* A service needs the package, and runs only on a cluster; the Debian package
\* makes one when it is installed.
ServerMay(f) ==
    {s \in [Axis -> BOOLEAN] :
        /\ s["enabled"] \/ s["active"] => s["installed"] /\ s["cluster"]
        /\ f = "debian" /\ s["installed"] => s["cluster"]}

Init ==
    /\ family \in Families
    /\ server \in ServerMay(family)
    /\ db \in {"absent", "theirs"} /\ role \in {"absent", "theirs"}
    /\ other \in BOOLEAN
    /\ db = "theirs" \/ role = "theirs" \/ other => server["cluster"]
    /\ schema \in (IF db = "theirs" THEN {"none", "whole"} ELSE {"none"})
    /\ level \in 0 .. Depth
    /\ found = [server |-> server, level |-> level]
    /\ disk = NoManifest
    /\ pc = "idle" /\ idx = 1
    /\ snap = Default
    /\ dbOurs = FALSE
    /\ aggressive = FALSE
    /\ purge = NoPurge
    /\ cut = FALSE
    /\ faults = 0

\* What an unfinished process or a manifest says is ours, nobody else names so.
Claimed == snap.db = "CreatedByUs" \/ disk.snap.db = "CreatedByUs"

\* The administrator creates a database, at any moment.
AdminCreates ==
    /\ Up
    /\ \/ /\ "same" \in AdminMay /\ db = "absent" /\ ~Claimed
          /\ db' = "theirs"
          /\ schema' \in {"none", "whole"}
          /\ UNCHANGED <<other, purge>>
       \/ /\ "other" \in AdminMay
          /\ other' = TRUE
          /\ purge' = [purge EXCEPT !.late = @ \/ (purge.call # "check" /\ ~other)]
          /\ UNCHANGED <<db, schema>>
    /\ UNCHANGED <<server, role, level, family, found, disk, pc, idx, snap, dbOurs, aggressive, cut, faults>>

Fault ==
    /\ faults < MaxFaults
    /\ faults' = faults + 1

\* A new or a resumed installation: recorded steps are rehydrated and skipped,
\* and the context starts with db_created_by_us false.
Install ==
    /\ pc = "idle" /\ ~disk.finished
    /\ pc' = "snapshot" /\ idx' = disk.recorded + 1
    /\ snap' = disk.snap
    /\ dbOurs' = FALSE
    /\ aggressive' \in BOOLEAN
    /\ found' = IF disk.recorded = 0 THEN [server |-> server, level |-> level] ELSE found
    /\ UNCHANGED <<world, family, disk, purge, cut, faults>>

\* `invok rollback`, of a finished installation or of an interrupted one.
Rollback ==
    /\ pc = "idle" /\ disk.recorded > 0
    /\ pc' = "undo" /\ idx' = disk.recorded
    /\ snap' = disk.snap
    /\ aggressive' \in BOOLEAN
    /\ UNCHANGED <<world, family, found, disk, dbOurs, purge, cut, faults>>

Exit ==
    /\ pc' = "idle" /\ idx' = 1
    /\ snap' = Default
    /\ dbOurs' = FALSE
    /\ aggressive' = FALSE
    /\ purge' = NoPurge

\* Mutant: the last completed step is taken for the failing one.
UndoBefore(k) ==
    IF k <= 1
    THEN Exit
    ELSE pc' = "undo" /\ idx' = k - 1 /\ UNCHANGED <<snap, dbOurs, aggressive, purge>>

\* The steps 1 .. k are undone, or there is nothing to undo.
UndoFrom(k) ==
    IF k = 0
    THEN Exit
    ELSE pc' = "undo" /\ idx' = k /\ UNCHANGED <<snap, dbOurs, aggressive, purge>>

\* Before step idx, or in its snapshot, the installation stops: a signal, a
\* step in between that fails, a question the server does not answer.
Stops ==
    /\ pc = "snapshot"
    /\ UndoFrom(idx - 1)
    /\ UNCHANGED <<world, family, found, disk, cut, faults>>

-----------------------------------------------------------------------------
At(k) == pc = "snapshot" /\ idx = k

Snapshotted ==
    /\ pc' = "run"
    /\ UNCHANGED <<world, family, found, disk, idx, aggressive, purge, cut, faults>>

\* SetupPostgres::snapshot; where the family has no cluster of its own to make,
\* that axis stays Untracked.
SnapshotPostgres ==
    /\ At(Postgres)
    /\ snap' = [snap EXCEPT !.pg =
                    [x \in Axis |-> Verdict(server[x] /\ (x = "cluster" => family = "fedora"))]]
    /\ UNCHANGED dbOurs
    /\ Snapshotted

SnapshotRole ==
    /\ At(Role) /\ Up
    /\ snap' = [snap EXCEPT !.role = Verdict(role # "absent")]
    /\ UNCHANGED dbOurs
    /\ Snapshotted

\* The verdict is published for the two steps that follow.
SnapshotDatabase ==
    /\ At(DatabaseStep) /\ Up
    /\ snap' = [snap EXCEPT !.db = Verdict(db # "absent")]
    /\ dbOurs' = (db = "absent")
    /\ Snapshotted

\* highest_missing_level is the first directory the run will make.
SnapshotDataDir ==
    /\ At(DataDir)
    /\ snap' = [snap EXCEPT !.dir = Verdict(level = Depth),
                            !.root = IF level = Depth THEN 0 ELSE level + 1,
                            !.dbWasOurs = dbOurs]
    /\ UNCHANGED dbOurs
    /\ Snapshotted

\* pg_db_initialized looks for one table, which a half-made schema may have.
Initialized == schema # "none"

\* Without a schema the database must be ours: the refusal is a Stops.
SnapshotSchema ==
    /\ At(Schema) /\ Up /\ db # "absent"
    /\ Initialized \/ dbOurs
    /\ snap' = [snap EXCEPT !.schema = Verdict(Initialized)]
    /\ UNCHANGED dbOurs
    /\ Snapshotted

-----------------------------------------------------------------------------
Running(k) == pc = "run" /\ idx = k

\* The run succeeded: its record is saved and the next step begins.
Ran ==
    /\ pc' = "snapshot" /\ idx' = idx + 1
    /\ disk' = [recorded |-> idx, snap |-> snap', finished |-> FALSE]
    /\ UNCHANGED <<family, found, dbOurs, aggressive, purge, cut, faults>>

\* The run failed: the step is undone too, by what its snapshot then says.
Failed ==
    /\ pc' = "undo"
    /\ UNCHANGED <<family, found, disk, idx, dbOurs, aggressive, purge, cut>>

Made(prestate) == IF prestate = "Preexisting" THEN prestate ELSE "CreatedByUs"

\* What the run of setup-postgres does, in order; installing the Debian package
\* makes a cluster, and enables and starts the service.
Order == [installed |-> 1, cluster |-> 2, enabled |-> 3, active |-> 4]

ToDo == {x \in Axis : snap.pg[x] = "Untracked" /\ (x = "cluster" => family = "fedora")}

With(done) ==
    [x \in Axis |-> server[x] \/ x \in done \/ (family = "debian" /\ "installed" \in done)]

RunPostgres ==
    /\ Running(Postgres)
    /\ server' = With(ToDo)
    /\ snap' = [snap EXCEPT !.pg = [x \in Axis |-> IF x \in ToDo THEN "CreatedByUs" ELSE @[x]]]
    /\ server'["active"]
    /\ Ran
    /\ UNCHANGED <<role, db, schema, other, level>>

\* Some axes are done, up to the one that failed, and claimed one by one; or
\* all are, and the service is not running in the end.
RunPostgresFails ==
    /\ Running(Postgres)
    /\ Fault
    /\ \E n \in 0 .. 4 :
          LET done == {x \in ToDo : Order[x] <= n}
          IN  /\ server' = [With(done) EXCEPT !["active"] = @ /\ n < 4]
              /\ snap' = [snap EXCEPT !.pg =
                             [x \in Axis |-> IF x \in done THEN "CreatedByUs" ELSE @[x]]]
    /\ Failed
    /\ UNCHANGED <<role, db, schema, other, level>>

RunRole ==
    /\ Running(Role) /\ Up
    /\ role' = IF snap.role = "Preexisting" THEN role ELSE "ours"
    /\ snap' = [snap EXCEPT !.role = Made(@)]
    /\ Ran
    /\ UNCHANGED <<server, db, schema, other, level>>

\* createdb fails when the name has been taken since the snapshot.
RunDatabase ==
    /\ Running(DatabaseStep) /\ Up
    /\ snap.db = "Preexisting" \/ db = "absent"
    /\ db' = IF snap.db = "Preexisting" THEN db ELSE "ours"
    /\ snap' = [snap EXCEPT !.db = Made(@)]
    /\ Ran
    /\ UNCHANGED <<server, role, schema, other, level>>

RunDataDir ==
    /\ Running(DataDir)
    /\ level' = Depth
    /\ snap' = [snap EXCEPT !.dir = Made(@)]
    /\ Ran
    /\ UNCHANGED <<server, role, db, schema, other>>

\* Mutant: the init's exit status is believed.
RunSchemaUnchecked ==
    /\ Running(Schema)
    /\ schema' \in (IF snap.schema = "Preexisting" THEN {schema} ELSE {"none", "whole"})
    /\ snap' = [snap EXCEPT !.schema = Made(@)]
    /\ Ran
    /\ UNCHANGED <<server, role, db, other, level>>

\* odoo-bin may exit well and leave no schema: the run looks again.
RunSchema ==
    /\ Running(Schema)
    /\ schema' = IF snap.schema = "Preexisting" THEN schema ELSE "whole"
    /\ snap' = [snap EXCEPT !.schema = Made(@)]
    /\ Ran
    /\ UNCHANGED <<server, role, db, other, level>>

\* The one command of the run failed, and nothing is claimed.
RunFails ==
    /\ pc = "run" /\ idx \in {Role, DatabaseStep}
    /\ Failed
    /\ UNCHANGED <<world, snap, faults>>

\* A failed mkdir -p may leave directories that nothing claims.
RunDataDirFails ==
    /\ Running(DataDir) /\ snap.dir = "Untracked"
    /\ Fault
    /\ level' \in level .. Depth
    /\ Failed
    /\ UNCHANGED <<server, role, db, schema, other, snap>>

\* The init is not atomic (C2).
RunSchemaFails ==
    /\ Running(Schema) /\ snap.schema = "Untracked"
    /\ schema' \in {"none", "partial"}
    /\ Failed
    /\ UNCHANGED <<server, role, db, other, level, snap, faults>>

\* The steps that follow succeed, and mark_finished is called.
Finish ==
    /\ pc = "snapshot" /\ idx = Schema + 1
    /\ disk' = [disk EXCEPT !.finished = TRUE]
    /\ Exit
    /\ UNCHANGED <<world, family, found, cut, faults>>

-----------------------------------------------------------------------------
\* An undo that fails only warns: how much it did is all the model keeps.
Undoing(k) == pc = "undo" /\ idx = k

\* Mutant: the loop runs once too often.
NextUndoPastTheFirst ==
    /\ idx' = idx - 1
    /\ UNCHANGED <<family, found, disk, pc, snap, dbOurs, aggressive, purge, cut>>

\* After the last undo the manifest is cleared.
NextUndo ==
    /\ IF idx = 1
       THEN disk' = NoManifest /\ cut' = FALSE /\ Exit
       ELSE idx' = idx - 1 /\ UNCHANGED <<disk, pc, snap, dbOurs, aggressive, purge, cut>>
    /\ UNCHANGED <<family, found>>

NotOurs(k, prestate) ==
    /\ Undoing(k)
    /\ prestate # "CreatedByUs"
    /\ NextUndo
    /\ UNCHANGED <<world, faults>>

\* The schema goes with the database.
UndoSchema ==
    /\ Undoing(Schema)
    /\ NextUndo
    /\ UNCHANGED <<world, faults>>

\* Mutant: the filestore goes when the directory is ours, whoever has the data.
FilestoreIsOurs == snap.dir = "CreatedByUs"

DataDirIsOurs == snap.dir = "CreatedByUs" /\ snap.dbWasOurs

\* created_root, or data_dir itself when the snapshot has none.
Target == IF snap.root = 0 THEN Depth ELSE snap.root

\* The target and everything below it; it is always below the home.
UndoDataDir ==
    /\ Undoing(DataDir)
    /\ IF DataDirIsOurs
       THEN \/ level' = Target - 1 /\ UNCHANGED faults
            \/ Fault /\ level' \in Target - 1 .. level
       ELSE UNCHANGED <<level, faults>>
    /\ NextUndo
    /\ UNCHANGED <<server, role, db, schema, other>>

\* Mutant: everything the snapshot did not see is dropped.
UndoUnlessPreexisting ==
    /\ Undoing(DatabaseStep)
    /\ snap.db # "Preexisting"
    /\ Up /\ db' = "absent" /\ schema' = "none" /\ UNCHANGED faults
    /\ NextUndo
    /\ UNCHANGED <<server, role, other, level>>

\* dropdb --if-exists --force asks no more whose the database is.
UndoDatabase ==
    /\ Undoing(DatabaseStep)
    /\ snap.db = "CreatedByUs"
    /\ \/ Up /\ db' = "absent" /\ schema' = "none" /\ UNCHANGED faults
       \/ ~Up /\ UNCHANGED <<db, schema, faults>>
       \/ Fault /\ UNCHANGED <<db, schema>>
    /\ NextUndo
    /\ UNCHANGED <<server, role, other, level>>

\* DROP ROLE fails while the role owns a database, and like dropdb when the
\* server is down.
UndoRole ==
    /\ Undoing(Role)
    /\ snap.role = "CreatedByUs"
    /\ \/ Up /\ db # "ours" /\ role' = "absent" /\ UNCHANGED faults
       \/ (~Up \/ db = "ours") /\ UNCHANGED <<role, faults>>
       \/ Fault /\ UNCHANGED role
    /\ NextUndo
    /\ UNCHANGED <<server, db, schema, other, level>>

\* Mutant: nobody looks who else is there.
ClusterIsOurs == TRUE

\* cluster_safe_to_purge: no database but those of our name; none when they
\* cannot be listed.
ClusterSafeToPurge == Up /\ ~other

PurgeSafe == snap.pg["installed"] = "CreatedByUs" /\ aggressive /\ ClusterSafeToPurge

\* The undo of setup-postgres goes call by call, and the administrator may come
\* in between.
AtCall(call) == Undoing(Postgres) /\ purge.call = call

GoesOn(call) ==
    /\ purge' = [purge EXCEPT !.call = call]
    /\ UNCHANGED <<role, db, schema, other, level, family, found, disk, pc, idx, snap, dbOurs,
                   aggressive, cut>>

\* The call turns these axes off, or fails.
TurnsOff(axes) ==
    \/ server' = [x \in Axis |-> server[x] /\ x \notin axes] /\ UNCHANGED faults
    \/ axes # {} /\ Fault /\ UNCHANGED server

StartedByUs(axis) == IF snap.pg[axis] = "CreatedByUs" THEN {axis} ELSE {}

\* Whether to purge is decided first: listing the databases takes a server that
\* runs.
ListDatabases ==
    /\ AtCall("check")
    /\ purge' = [call |-> "stop", safe |-> PurgeSafe, late |-> FALSE]
    /\ UNCHANGED <<world, family, found, disk, pc, idx, snap, dbOurs, aggressive, cut, faults>>

StopServer == AtCall("stop") /\ TurnsOff(StartedByUs("active")) /\ GoesOn("disable")

DisableServer == AtCall("disable") /\ TurnsOff(StartedByUs("enabled")) /\ GoesOn("purge")

\* Without its package the service is gone too.
PurgePackages ==
    /\ AtCall("purge")
    /\ TurnsOff(IF purge.safe THEN {"installed", "enabled", "active"} ELSE {})
    /\ GoesOn("remove")

\* Every database lives in the cluster, and no server runs without it; what could
\* not be removed of it may still be worth nothing.
RemoveCluster ==
    /\ AtCall("remove")
    /\ IF purge.safe /\ snap.pg["cluster"] = "CreatedByUs"
       THEN \/ /\ server' = [x \in Axis |-> server[x] /\ x \notin {"cluster", "active"}]
               /\ db' = "absent" /\ role' = "absent" /\ schema' = "none" /\ other' = FALSE
               /\ UNCHANGED faults
            \/ /\ Fault
               /\ server' = [server EXCEPT !["active"] = FALSE]
               /\ db' = "absent" /\ role' = "absent" /\ schema' = "none" /\ other' = FALSE
            \/ Fault /\ UNCHANGED <<server, db, role, schema, other>>
       ELSE UNCHANGED <<server, db, role, schema, other, faults>>
    /\ NextUndo
    /\ UNCHANGED level

-----------------------------------------------------------------------------
\* A death in a run leaves some of its work, and no record.
DieRunning ==
    /\ pc = "run" /\ "install" \in DieIn
    /\ \/ /\ idx = Postgres
          /\ \E n \in 0 .. 4 : server' = With({x \in ToDo : Order[x] <= n})
          /\ UNCHANGED <<role, db, schema, other, level>>
       \/ /\ idx = Role /\ snap.role = "Untracked"
          /\ role' = "ours"
          /\ UNCHANGED <<server, db, schema, other, level>>
       \/ /\ idx = DatabaseStep /\ snap.db = "Untracked" /\ db = "absent"
          /\ db' = "ours"
          /\ UNCHANGED <<server, role, schema, other, level>>
       \/ /\ idx = DataDir /\ snap.dir = "Untracked"
          /\ level' \in level .. Depth
          /\ UNCHANGED <<server, role, db, schema, other>>
       \/ /\ idx = Schema /\ snap.schema = "Untracked"
          /\ schema' \in {"none", "whole"} \cup (IF "init" \in DieIn THEN {"partial"} ELSE {})
          /\ UNCHANGED <<server, role, db, other, level>>

Die ==
    /\ Fault
    /\ \/ DieRunning
       \/ pc \in {"snapshot", "run"} /\ "install" \in DieIn /\ UNCHANGED world
       \/ pc = "undo" /\ "rollback" \in DieIn /\ UNCHANGED world
    /\ cut' = (cut \/ pc = "undo")
    /\ Exit
    /\ UNCHANGED <<family, found, disk>>

Next ==
    \/ AdminCreates \/ Install \/ Rollback \/ Stops
    \/ SnapshotPostgres \/ SnapshotRole \/ SnapshotDatabase \/ SnapshotDataDir \/ SnapshotSchema
    \/ RunPostgres \/ RunRole \/ RunDatabase \/ RunDataDir \/ RunSchema
    \/ RunPostgresFails \/ RunFails \/ RunDataDirFails \/ RunSchemaFails
    \/ Finish
    \/ UndoSchema \/ UndoDataDir \/ UndoDatabase \/ UndoRole
    \/ ListDatabases \/ StopServer \/ DisableServer \/ PurgePackages \/ RemoveCluster
    \/ NotOurs(DatabaseStep, snap.db) \/ NotOurs(Role, snap.role)
    \/ Die

Spec == Init /\ [][Next]_vars

-----------------------------------------------------------------------------
WorldType ==
    /\ family \in Families
    /\ server \in [Axis -> BOOLEAN]
    /\ role \in Owner /\ db \in Owner
    /\ schema \in {"none", "partial", "whole"}
    /\ other \in BOOLEAN
    /\ level \in 0 .. Depth
    /\ found \in [server : [Axis -> BOOLEAN], level : 0 .. Depth]

ProcessType ==
    /\ disk \in [recorded : 0 .. 5, snap : Snapshots, finished : BOOLEAN]
    /\ pc \in {"idle", "snapshot", "run", "undo"}
    /\ idx \in 1 .. 6
    /\ pc \in {"run", "undo"} => idx \in Steps
    /\ snap \in Snapshots
    /\ dbOurs \in BOOLEAN /\ aggressive \in BOOLEAN /\ cut \in BOOLEAN
    /\ purge \in [call : Calls, safe : BOOLEAN, late : BOOLEAN]
    /\ faults \in 0 .. MaxFaults

TypeOK == WorldType /\ ProcessType

\* A database of our name that we did not create is neither dropped nor written
\* into, by any sequence of installations, deaths, resumes and rollbacks,
\* whenever it appeared (the two hard stops of create_database.rs and
\* initialize_odoo_database.rs).  Not so with --aggressive-rollback: the purge of
\* the cluster goes by the name, cluster_safe_to_purge.
TheirDatabaseIsSafe ==
    [][db = "theirs" /\ ~aggressive => db' = "theirs" /\ schema' = schema]_vars

\* No purge, whatever was recorded, died or was asked for before it, takes with
\* it a database of another name that was there when the undo asked ("purge only
\* when no database besides ours and the maintenance one is present",
\* cluster_safe_to_purge); one created between that question and the removal of
\* the cluster, three calls later, it does take.
OtherDatabasesSurvive == [][other /\ ~purge.late => other']_vars

\* No directory is removed that was there before the installation, and none at
\* all while the database is the customer's (the anti-drop rule of the
\* filestore, setup_data_dir.rs).
FilestoreIsSafe ==
    [][level' < level => db # "theirs" /\ level' >= found.level]_vars

\* A rollback in which nothing failed leaves no role, no database and, when the
\* database was ours, no filestore of ours, and the service as it was found.
\* It takes the order of the undos: the role cannot go before its database.
RollbackRestores ==
    [][pc = "undo" /\ pc' = "idle" /\ faults' = 0 =>
        /\ db' # "ours" /\ role' # "ours"
        /\ db = "theirs" \/ level' = found.level
        /\ \A x \in {"enabled", "active"} : server'[x] = found.server[x]]_vars

\* An installation that finishes has a database, with what the init looks for in
\* it, whoever made it and after whatever interruption of an installation (the
\* check after the init; whether the schema is whole nobody can tell).
FinishedHasSchema ==
    [][disk'.finished /\ ~disk.finished /\ ~cut => db # "absent" /\ Initialized]_vars

=============================================================================
