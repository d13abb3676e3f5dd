------------------------------ MODULE Recovery ------------------------------
(* What an installation of the app keeps over updates, restores and crashes: *)
(* its database (lib/claim-database.js, lib/database-migrations.js), the     *)
(* files of data/, the copies made before either is replaced, the executable *)
(* and the marker of an update (lib/github-release-updater.js and            *)
(* lib/update-install-guard.js, on Linux), the startup (startApplication of  *)
(* main.js) and the restore of a backup (lib/archive-tools.js).              *)
(*                                                                          *)
(* A version of the app brings a schema; schema s consists of the objects    *)
(* 1..s (tables, columns, indexes and triggers), one per stage of the        *)
(* migration.  A database holds records, that the app committed.  The app    *)
(* may die between any two steps, and a step may fail.  Workers are processes *)
(* of their own, which write beside whatever the main process does and may    *)
(* outlive it.                                                              *)
EXTENDS Naturals, FiniteSets

CONSTANTS
    SchemaOf,   \* the schema of each version of the app: a function of 1..n
    Incoming,   \* the databases an installation may be found with
    Archives,   \* the backups a user may bring along
    Legacy,     \* records in the files of an app that had no database
    Files,      \* files of data/ that a backup holds
    MaxRecords, \* bound: records are numbered to MaxRecords
    MaxUpdates, \* bound: update operations
    MaxFaults,  \* bound: crashes and failed steps
    None

Versions == DOMAIN SchemaOf
Paths    == 0 .. MaxUpdates
Schemas  == {SchemaOf[v] : v \in Versions}
Records  == 0 .. MaxRecords

\* A state "odd" has an object that no migration can complete (a required
\* column that cannot be added); "damaged" fails its integrity check.
Database ==
    [schema : 0 .. 9, objects : SUBSET (1 .. 9), records : SUBSET Records,
     imported : BOOLEAN, state : {"ok", "odd", "damaged"}]

\* What createPendingMarker records of an update, and what a restore replaces.
Updates == [op : 1 .. MaxUpdates, target : Versions, old : Versions,
            backup : Database \cup {None}]
Contents == [db : Database \cup {None}, files : [Files -> Records]]

ASSUME RecoveryAssumption ==
    /\ \A v \in Versions : v \in Nat \ {0} /\ SchemaOf[v] \in 1 .. 9
    /\ Incoming \subseteq Database \cup {None}
    /\ Archives \subseteq [db : Database, files : [Files -> Records]]
    /\ Legacy \subseteq Records
    /\ MaxRecords \in Nat /\ MaxUpdates \in Nat /\ MaxFaults \in Nat

\* None is no database, no update and no content of the disk.
ASSUME RecoveryNoneAssumption == None \notin Database \cup Updates \cup Contents

VARIABLES
    db,         \* database/app.sqlite, or None
    files,      \* the content of each file of data/: the record it came with
    copies,     \* databases kept by backups and rollback copies
    kept,       \* rollback copies of files: <<file, content>>
    archive,    \* the backup at hand: [db, files], or None
    app,        \* the version at the path of the AppImage (0), at its .previous
                \* (1), at the .previous of that (2), and so on; 0 for no file
    marker,     \* updates/pending-update.json, or None
    healthy,    \* the operations that have a healthy file in updates/history
    pc,         \* where the main process is
    version,    \* the version that runs, or ran last
    place,      \* the path from which it was started
    stage,      \* the stages of the migration applied in its transaction
    work,       \* the database of an open transaction, or being restored
    update,     \* the update being installed, or None
    restored,   \* the files that the restore under way has replaced
    worker,     \* a worker of the main process, one that outlived it, or none
    before,     \* history: [db, files] when a restore last replaced them, or None
    committed,  \* history: every record that was ever committed
    exposed,    \* history: those that a worker committed while a restore was
                \* past its copy of the database
    orderly,    \* history: every update was installed by the executable at the
                \* path of the AppImage, which nothing had replaced
    proven,     \* history: the versions whose startup came to a sound database
    ops, faults \* update operations and faults so far

disk   == <<db, files, copies, kept, archive, app, marker, healthy>>
memory == <<pc, version, place, stage, work, update, restored, worker>>
bounds == <<before, committed, exposed, orderly, proven, ops, faults>>
vars   == <<disk, memory, bounds>>

Schema  == SchemaOf[version]
Objects == 1 .. Schema

Empty ==
    [schema |-> 0, objects |-> {}, records |-> {}, imported |-> FALSE, state |-> "ok"]

\* migrate of a database that has no incompatible object.
Migrated(d) == [d EXCEPT !.schema = Schema, !.objects = @ \cup Objects]

Current(d) == d.schema = Schema /\ Objects \subseteq d.objects /\ d.state # "odd"

Opening  == {"opening", "backing", "migrating", "importing", "checking",
             "acknowledging", "forgetting"}
Restoring == {"rollback", "files", "removing", "removed", "settling"}
Updating == {"saving", "retaining", "replacing", "restarting"}
Open     == {"ready"} \cup Restoring \cup Updating
Points   == {"off", "failed"} \cup Opening \cup Open

Goto(l) == pc' = l /\ UNCHANGED <<version, place, stage, work, update, restored, worker>>

Init ==
    /\ db \in Incoming
    /\ files = [f \in Files |-> 0]
    /\ copies = {} /\ kept = {}
    /\ archive \in Archives \cup {None}
    /\ version \in Versions /\ place = 0
    /\ app = [p \in Paths |-> IF p = 0 THEN version ELSE 0]
    /\ marker = None /\ healthy = {}
    /\ pc = "off"
    /\ stage = 0 /\ work = None /\ update = None /\ restored = {}
    /\ worker = "none"
    /\ before = None
    /\ committed = IF db = None THEN {} ELSE db.records
    /\ exposed = {} /\ orderly = TRUE
    /\ proven = {version}
    /\ ops = 0 /\ faults = 0

-----------------------------------------------------------------------------
(* Startup.                                                                *)

\* The user starts the app, or an executable that an update retained.  A
\* worker that outlived its main process ends at its next line of output; it
\* is taken to have ended before another version is started.
Launch ==
    /\ pc = "off"
    /\ \E p \in Paths :
          /\ app[p] # 0 /\ (app[p] = version \/ worker = "none")
          /\ version' = app[p] /\ place' = p
    /\ pc' = "opening"
    /\ stage' = 0 /\ work' = None /\ update' = None
    /\ UNCHANGED <<restored, worker, disk, bounds>>

\* Mutant of the next definition: the number of the schema is believed.
NeedsByNumber(d) == d.schema # Schema

\* schemaNeedsReconciliation.
NeedsReconciliation(d) == ~ Current(d)

\* Mutant of the next definition: a backup is made of older schemas only.
OpenWithoutRepairCopy ==
    /\ pc = "opening"
    /\ db' = IF db = None THEN Empty ELSE db
    /\ Goto(IF db # None /\ db.schema # Schema THEN "backing" ELSE "migrating")
    /\ UNCHANGED <<files, copies, kept, archive, app, marker, healthy>>
    /\ UNCHANGED bounds

\* initializeDatabase: a missing database is created, one that was there and
\* needs work is copied first.
OpenDatabase ==
    /\ pc = "opening"
    /\ db' = IF db = None THEN Empty ELSE db
    /\ Goto(IF db # None /\ NeedsReconciliation(db) THEN "backing" ELSE "migrating")
    /\ UNCHANGED <<files, copies, kept, archive, app, marker, healthy>>
    /\ UNCHANGED bounds

\* createVerifiedConnectionBackup: the copy of a damaged database does not
\* pass, and ends the startup.
BackUpDatabase ==
    /\ pc = "backing"
    /\ copies' = copies \cup {db}
    /\ Goto(IF db.state = "damaged" THEN "failed" ELSE "migrating")
    /\ UNCHANGED <<db, files, kept, archive, app, marker, healthy>>
    /\ UNCHANGED bounds

\* migrate up to BEGIN IMMEDIATE: a newer schema is refused; a current one is
\* only checked, and when it does not pass it is copied as it is.
BeginMigration ==
    /\ pc = "migrating"
    /\ work = None
    /\ IF db.schema <= Schema /\ NeedsReconciliation(db)
       THEN /\ work' = db
            /\ stage' = 0
            /\ UNCHANGED <<pc, version, place, update, restored, worker, copies>>
       ELSE /\ Goto(IF NeedsReconciliation(db) \/ db.state = "damaged"
                    THEN "failed" ELSE "importing")
            /\ copies' = IF pc' = "failed" THEN copies \cup {db} ELSE copies
    /\ UNCHANGED <<db, files, kept, archive, app, marker, healthy>>
    /\ UNCHANGED bounds

\* One stage of MIGRATION_ORDER, inside the transaction.
MigrationStage ==
    /\ work # None /\ pc = "migrating"
    /\ stage < Schema
    /\ work' = [work EXCEPT !.objects = @ \cup {stage + 1}]
    /\ stage' = stage + 1
    /\ UNCHANGED <<pc, version, place, update, restored, worker, disk, bounds>>

\* The columns and the integrity are checked, and all stages are committed with
\* the number of the schema, or none.
CommitMigration ==
    /\ work # None /\ pc = "migrating"
    /\ stage = Schema
    /\ IF work.state = "ok"
       THEN db' = Migrated(work) /\ pc' = "importing"
       ELSE db' = db /\ pc' = "failed"
    /\ work' = None
    /\ stage' = 0
    /\ UNCHANGED <<version, place, update, restored, worker, bounds>>
    /\ UNCHANGED <<files, copies, kept, archive, app, marker, healthy>>

\* importLegacyData: the rows and the flag in one transaction.
ImportLegacyData ==
    /\ pc = "importing"
    /\ db' = IF db.imported THEN db
             ELSE [db EXCEPT !.records = @ \cup Legacy, !.imported = TRUE]
    /\ committed' = committed \cup db'.records
    /\ Goto("checking")
    /\ UNCHANGED <<files, copies, kept, archive, app, marker, healthy>>
    /\ UNCHANGED <<before, exposed, orderly, proven, ops, faults>>

\* integrityCheck, and the marker of an update to the version that runs.
CheckHealth ==
    /\ pc = "checking"
    /\ proven' = proven \cup {version}
    /\ Goto(IF marker # None /\ marker.target = version THEN "acknowledging" ELSE "ready")
    /\ UNCHANGED <<disk, before, committed, exposed, orderly, ops, faults>>

\* acknowledgeHealthyStartup writes a new history file: it throws when there
\* is one of that operation.
AcknowledgeHealthyStartup ==
    /\ pc = "acknowledging"
    /\ healthy' = healthy \cup {marker.op}
    /\ Goto(IF marker.op \in healthy THEN "failed" ELSE "forgetting")
    /\ UNCHANGED <<db, files, copies, kept, archive, app, marker, bounds>>

\* ... and then removes the marker.
ForgetMarker ==
    /\ pc = "forgetting"
    /\ marker' = None
    /\ Goto("ready")
    /\ UNCHANGED <<db, files, copies, kept, archive, app, healthy, bounds>>

\* handleStartupFailure: the dialog, and the end of the process.
HandleStartupFailure ==
    /\ pc = "failed"
    /\ Goto("off")
    /\ UNCHANGED <<disk, bounds>>

-----------------------------------------------------------------------------
(* Work, and a backup of it.                                               *)

\* spawnJsonProcess.  A restore looks for workers before it awaits dialogs, an
\* update before and after its backup: one may be started meanwhile.
StartWorker ==
    /\ pc \in {"ready", "saving"} /\ worker = "none"
    /\ worker' = "owned"
    /\ UNCHANGED <<pc, version, place, stage, work, update, restored, disk, bounds>>

EndWorker ==
    /\ worker # "none"
    /\ worker' = "none"
    /\ UNCHANGED <<pc, version, place, stage, work, update, restored, disk, bounds>>

\* A worker, or the main process between the steps of an update, commits a
\* record and writes files of data/.  Each opening of the database makes a new
\* one when there is none and migrates it; a transaction waits for that of a
\* migration.
Work(r) ==
    /\ pc \in {"ready"} \cup Updating \/ worker # "none"
    /\ pc = "migrating" => work = None
    /\ db # None => db.schema <= Schema /\ db.state = "ok"
    /\ r = Cardinality(committed)
    /\ LET d == Migrated(IF db = None THEN Empty ELSE db)
       IN  db' = [d EXCEPT !.records = @ \cup {r}]
    /\ files' = [f \in Files |-> r]
    /\ committed' = committed \cup {r}
    /\ exposed' = IF pc \in {"files", "removed"} THEN exposed \cup {r} ELSE exposed
    /\ before' = None
    /\ UNCHANGED <<copies, kept, archive, app, marker, healthy>>
    /\ UNCHANGED <<memory, orderly, proven, ops, faults>>

\* createBackup: what the archive holds.
ArchiveOf(d, content) == [db |-> d, files |-> content]

\* createEncryptedBackup of backup:create; an archive appears by a rename.
CreateBackup ==
    /\ pc = "ready" /\ db # None
    /\ archive' = ArchiveOf(db, files)
    /\ UNCHANGED <<db, files, copies, kept, app, marker, healthy>>
    /\ UNCHANGED <<memory, bounds>>

-----------------------------------------------------------------------------
(* restoreBackup.                                                          *)

\* Mutant of the next definition: the restored database is checked and not migrated.
StageUnmigrated ==
    /\ pc = "ready" /\ archive # None
    /\ archive.db.schema <= Schema /\ archive.db.state = "ok"
    /\ work' = archive.db
    /\ pc' = "rollback" /\ restored' = {}
    /\ UNCHANGED <<version, place, stage, update, worker, disk, bounds>>

\* The database of the backup is written beside the live one; the check of it
\* opens it, and so migrates it or refuses it.  No worker is looked for here.
StageRestore ==
    /\ pc = "ready" /\ archive # None
    /\ archive.db.schema <= Schema /\ archive.db.state = "ok"
    /\ work' = Migrated(archive.db)
    /\ pc' = "rollback" /\ restored' = {}
    /\ UNCHANGED <<version, place, stage, update, worker, disk, bounds>>

\* Mutant of the next definition: an update has made a copy already.
KeepDatabaseUnlessUpdated ==
    /\ pc = "rollback"
    /\ copies' = IF db = None \/ marker # None THEN copies ELSE copies \cup {db}
    /\ before' = [db |-> db, files |-> files]
    /\ Goto("files")
    /\ UNCHANGED <<db, files, kept, archive, app, marker, healthy>>
    /\ UNCHANGED <<committed, exposed, orderly, proven, ops, faults>>

\* The copy .before-restore of the live database.
KeepDatabase ==
    /\ pc = "rollback"
    /\ copies' = IF db = None THEN copies ELSE copies \cup {db}
    /\ before' = [db |-> db, files |-> files]
    /\ Goto("files")
    /\ UNCHANGED <<db, files, kept, archive, app, marker, healthy>>
    /\ UNCHANGED <<committed, exposed, orderly, proven, ops, faults>>

\* Mutant of the next definition: a file is copied after it was replaced.
RestoreThenKeepFile(f) ==
    /\ pc = "files" /\ f \notin restored
    /\ files' = [files EXCEPT ![f] = archive.files[f]]
    /\ kept' = kept \cup {<<f, files'[f]>>}
    /\ restored' = restored \cup {f}
    /\ UNCHANGED <<pc, version, place, stage, work, update, worker, bounds>>
    /\ UNCHANGED <<db, copies, archive, app, marker, healthy>>

\* One file of data/ is copied into before-restore and overwritten.
RestoreFile(f) ==
    /\ pc = "files" /\ f \notin restored
    /\ kept' = kept \cup {<<f, files[f]>>}
    /\ files' = [files EXCEPT ![f] = archive.files[f]]
    /\ restored' = restored \cup {f}
    /\ UNCHANGED <<pc, version, place, stage, work, update, worker, bounds>>
    /\ UNCHANGED <<db, copies, archive, app, marker, healthy>>

\* The live database and its sidecars are removed ...
RemoveDatabase ==
    /\ pc = "files" /\ restored = Files
    /\ db' = None
    /\ Goto("removed")
    /\ UNCHANGED <<files, copies, kept, archive, app, marker, healthy, bounds>>

\* ... and the restored one takes its name, from one that a worker made as well.
RenameRestored ==
    /\ pc = "removed"
    /\ db' = work
    /\ work' = None
    /\ pc' = "settling"
    /\ UNCHANGED <<version, place, stage, update, restored, worker, bounds>>
    /\ UNCHANGED <<files, copies, kept, archive, app, marker, healthy>>

\* rebaseEvidencePaths, the settings, markInterruptedAttempts and the audit record.
SettleRestore ==
    /\ pc = "settling"
    /\ Goto("ready")
    /\ UNCHANGED <<disk, bounds>>

-----------------------------------------------------------------------------
(* An update, on Linux.                                                    *)

\* resolveUpdate offers a newer release, and the user takes it; the download
\* is verified.  assertInactive and createBackup of prepareInstall.
SaveBeforeUpdate(t) ==
    /\ pc = "ready" /\ t > version /\ worker # "owned"
    /\ ops < MaxUpdates
    /\ update' = [op |-> ops + 1, target |-> t, old |-> version, backup |-> db]
    /\ copies' = IF db = None THEN copies ELSE copies \cup {db}
    /\ pc' = "saving"
    /\ ops' = ops + 1
    /\ UNCHANGED <<version, place, stage, work, restored, worker>>
    /\ UNCHANGED <<before, committed, exposed, orderly, proven, faults>>
    /\ UNCHANGED <<db, files, kept, archive, app, marker, healthy>>

\* A run was begun during the backup: the installation is blocked.
UpdateIsBlocked ==
    /\ pc = "saving" /\ worker = "owned"
    /\ pc' = "ready" /\ update' = None
    /\ UNCHANGED <<version, place, stage, work, restored, worker, disk, bounds>>

\* lockForUpdate, and createPendingMarker over the marker of an earlier update.
WriteMarker ==
    /\ pc = "saving" /\ worker # "owned"
    /\ marker' = update
    /\ orderly' = (orderly /\ place = 0 /\ app[0] = version)
    /\ Goto("retaining")
    /\ UNCHANGED <<db, files, copies, kept, archive, app, healthy>>
    /\ UNCHANGED <<before, committed, exposed, proven, ops, faults>>

\* Mutant of the next definition: the staged file is the one that is retained.
RetainStaged ==
    /\ pc = "retaining"
    /\ app' = [app EXCEPT ![place + 1] = update.target]
    /\ Goto("replacing")
    /\ UNCHANGED <<db, files, copies, kept, archive, marker, healthy, bounds>>

\* replaceAppImage: the file at the path of the running executable, whichever
\* version is there by now, is copied to the .previous of that path ...
RetainExecutable ==
    /\ pc = "retaining"
    /\ app' = [app EXCEPT ![place + 1] = app[place]]
    /\ Goto("replacing")
    /\ UNCHANGED <<db, files, copies, kept, archive, marker, healthy, bounds>>

\* ... and the verified new one is renamed over it.
ReplaceExecutable ==
    /\ pc = "replacing"
    /\ app' = [app EXCEPT ![place] = update.target]
    /\ Goto("restarting")
    /\ UNCHANGED <<db, files, copies, kept, archive, marker, healthy, bounds>>

\* app.quit; the new executable is started when the process is gone.
Restart ==
    /\ pc = "restarting"
    /\ pc' = "off" /\ update' = None
    /\ UNCHANGED <<version, place, stage, work, restored, worker, disk, bounds>>

-----------------------------------------------------------------------------
(* Faults.                                                                 *)

\* A step throws.  A startup ends; a restore and an update return an error and
\* leave things as they are, the marker and a replaced executable too.
StepFails ==
    /\ faults < MaxFaults
    /\ pc \in Opening \cup Restoring \cup Updating
    /\ pc' = IF pc \in Opening THEN "failed" ELSE "ready"
    /\ work' = None /\ stage' = 0 /\ update' = None
    /\ faults' = faults + 1
    /\ UNCHANGED <<version, place, restored, worker, disk>>
    /\ UNCHANGED <<before, committed, exposed, orderly, proven, ops>>

\* The main process dies: an open transaction is rolled back by SQLite, and its
\* worker goes on.
Crash ==
    /\ faults < MaxFaults
    /\ pc # "off"
    /\ pc' = "off"
    /\ work' = None /\ stage' = 0 /\ update' = None
    /\ worker' = IF worker = "owned" THEN "orphan" ELSE worker
    /\ faults' = faults + 1
    /\ UNCHANGED <<version, place, restored, disk>>
    /\ UNCHANGED <<before, committed, exposed, orderly, proven, ops>>

\* The user quits the app: before-quit is refused while a run is active.
Quit ==
    /\ pc = "ready" /\ worker # "owned"
    /\ Goto("off")
    /\ UNCHANGED <<disk, bounds>>

Startup ==
    \/ Launch \/ OpenDatabase \/ BackUpDatabase \/ BeginMigration \/ MigrationStage
    \/ CommitMigration \/ ImportLegacyData \/ CheckHealth
    \/ AcknowledgeHealthyStartup \/ ForgetMarker \/ HandleStartupFailure

Restore ==
    \/ StageRestore \/ KeepDatabase \/ (\E f \in Files : RestoreFile(f))
    \/ RemoveDatabase \/ RenameRestored \/ SettleRestore

Update ==
    \/ (\E t \in Versions : SaveBeforeUpdate(t))
    \/ UpdateIsBlocked \/ WriteMarker \/ RetainExecutable \/ ReplaceExecutable \/ Restart

Next ==
    \/ Startup \/ Restore \/ Update
    \/ StartWorker \/ EndWorker \/ (\E r \in Records : Work(r)) \/ CreateBackup
    \/ StepFails \/ Crash \/ Quit

Spec == Init /\ [][Next]_vars

-----------------------------------------------------------------------------

\* The type invariant of the installation and the process.
TypeOK ==
    /\ db \in Database \cup {None} /\ work \in Database \cup {None}
    /\ files \in [Files -> Records]
    /\ copies \subseteq Database
    /\ kept \subseteq Files \X Records
    /\ archive = None \/ (archive.db \in Database /\ archive.files \in [Files -> Records])
    /\ app \in [Paths -> Versions \cup {0}] /\ version \in Versions /\ place \in Paths
    /\ restored \subseteq Files /\ worker \in {"none", "owned", "orphan"}
    /\ healthy \subseteq 1 .. MaxUpdates
    /\ pc \in Points
    /\ stage \in 0 .. Schema
    /\ marker = None \/ (marker.op \in 1 .. MaxUpdates /\ marker.target > marker.old)
    /\ (pc \in Updating) = (update # None)
    /\ (pc \in {"rollback", "files", "removed"} \/ stage > 0) => work # None
    /\ committed \cup exposed \subseteq Records /\ proven \subseteq Versions /\ orderly \in BOOLEAN

\* The records of the live database and of the copies.
RecordsKept == (IF db = None THEN {} ELSE db.records) \cup UNION {c.records : c \in copies}

\* What was committed is in the live database or in a copy of one, whatever
\* fails and wherever the process dies: neither a migration nor a restore nor
\* a startup that finds no database loses a record, beside workers too, but for
\* those that a worker commits while a restore is past its copy.
CommittedIsKept == committed \ exposed \subseteq RecordsKept

\* What the restore promises, "preserves rollback copies": it loses no record,
\* whoever commits it.  TLC refutes it.
RestoreLosesNothing == committed \subseteq RecordsKept

\* The window is open on a database whose objects, and not only its number, are
\* those of the version that runs; it may be missing after a restore that failed.
OpenMeansCurrent ==
    (pc \in Open /\ db # None) => (Current(db) /\ db.state = "ok")

\* The schema of a database is all of what it was found with or all of a
\* version's, never a part of a migration.
NeverHalfMigrated ==
    db # None =>
        \/ \E d \in (Incoming \ {None}) \cup {Empty} :
               db.schema = d.schema /\ db.objects = d.objects
        \/ db.schema \in Schemas /\ 1 .. db.schema \subseteq db.objects

\* The database is never a part of a migration, and the window opens only on one
\* that is whole for the version that runs.
DatabaseIsWhole == NeverHalfMigrated /\ OpenMeansCurrent

\* Until the version that an update installed has come to a sound database, the
\* marker is there, and with it the executable it replaced and a copy of the
\* database that this executable can open, as long as the updates are orderly.
UnprovenHasAWayBack ==
    orderly /\ app[0] \notin proven =>
        /\ marker # None /\ marker.target = app[0]
        /\ app[1] = marker.old
        /\ marker.backup # None =>
               marker.backup \in copies /\ marker.backup.schema <= SchemaOf[app[1]]

\* What the documentation promises of every update, "An automatic pre-update
\* database backup and pending marker preserve interrupted-update recovery":
\* the marker tells of each version that has not come to a sound database.  TLC
\* refutes it.
UpdatesCanBeUndone ==
    \A p \in Paths : app[p] \notin proven \cup {0} =>
        marker # None /\ marker.target = app[p] /\ \E q \in Paths : app[q] = marker.old

\* The same promise of an acknowledgement that was interrupted: the next startup
\* takes it up, where the history file of its operation would end it.  TLC
\* refutes it.
AcknowledgementResumes == pc = "acknowledging" => marker.op \notin healthy

\* From the first step of a restore until new work is done, the rollback copies
\* give back what was there before it, however far it came.
RollbackIsComplete ==
    before # None =>
        /\ before.db \in copies \cup {None, db}
        /\ \A f \in Files : files[f] = before.files[f] \/ <<f, before.files[f]>> \in kept

\* A database that is changed in place by a startup was copied before.
MigratedAfterBackup ==
    [][(pc \in Opening /\ db # None /\ db' # None
        /\ <<db.schema, db.objects>> # <<db'.schema, db'.objects>>)
       => db = Empty \/ db \in copies]_vars

\* An older version does not touch the database of a newer one.
NewerIsUntouched == [][(db # None /\ db.schema > Schema) => db' = db]_vars
=============================================================================
