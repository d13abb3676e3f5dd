--------------------------- MODULE RecoveryProofs ---------------------------
(***************************************************************************)
(* Proofs about Recovery, for any versions and schemas, any databases an   *)
(* installation is found with, any backups, files, records, updates and    *)
(* faults: nothing committed is lost, no database is half migrated, and an *)
(* update or a restore leaves a way back wherever it is cut short.         *)
(*                                                                         *)
(* In a lemma about the steps, USE names the definitions that every case   *)
(* needs; a case adds its action.                                          *)
(***************************************************************************)
EXTENDS Recovery, TLAPS

-----------------------------------------------------------------------------
(* Invariants.                                                             *)

\* TypeOK with the types of the records that it leaves open.
TypesOK ==
    /\ db \in Database \cup {None} /\ work \in Database \cup {None}
    /\ files \in [Files -> Records]
    /\ copies \subseteq Database
    /\ kept \subseteq Files \X Records
    /\ archive \in Contents \cup {None} /\ (archive # None => archive.db # None)
    /\ app \in [Paths -> Versions \cup {0}] /\ version \in Versions /\ place \in Paths
    /\ restored \subseteq Files /\ worker \in {"none", "owned", "orphan"}
    /\ marker \in Updates \cup {None} /\ (marker # None => marker.target > marker.old)
    /\ update \in Updates \cup {None} /\ (update # None => update.target > update.old)
    /\ healthy \subseteq 1 .. MaxUpdates
    /\ pc \in Points
    /\ stage \in 0 .. Schema
    /\ before \in Contents \cup {None}
    /\ committed \subseteq Records /\ exposed \subseteq Records
    /\ proven \subseteq Versions /\ orderly \in BOOLEAN
    /\ ops \in Nat

Whole(d) == d.schema = Schema /\ Objects \subseteq d.objects /\ d.state = "ok"

\* Where a database is being opened and is there; where it has been migrated.
Present == {"backing", "migrating", "importing", "checking", "acknowledging", "forgetting"}
Migrating == {"importing", "checking", "acknowledging", "forgetting"}
Staged == {"rollback", "files", "removed"}

\* What the process holds in memory agrees with where it is.
PlaceOK ==
    /\ (pc \in Updating) = (update # None)
    /\ stage > 0 => pc = "migrating" /\ work # None
    /\ work # None => pc \in {"migrating"} \cup Staged
    /\ pc \in Staged => work # None /\ archive # None /\ Whole(work)
    /\ pc \in Present => db # None

\* What the database is where the process is.
StateOK ==
    /\ pc \in Migrating \cup Open /\ db # None => Whole(db)
    /\ pc = "migrating" => Current(db) \/ db = Empty \/ db \in copies
    /\ pc = "migrating" /\ work # None =>
           /\ work.records = db.records /\ work.state = db.state
           /\ db.schema <= Schema
           /\ db = Empty \/ db \in copies
    /\ pc = "files" /\ db # None =>
           db.records \ exposed \subseteq UNION {c.records : c \in copies}
    /\ pc = "removed" /\ db # None => db.records \subseteq exposed

\* A worker, which is of the version that runs, leaves a database whole, and
\* finds one that is whole or has nothing in it.
WorkerOK == worker # "none" /\ db # None => db = Empty \/ Whole(db)

\* A process that has opened its window, or is about to, is of a proven version;
\* an update under way agrees with its marker and with the executables.
UpdateOK ==
    /\ pc \in Open \cup {"acknowledging", "forgetting"} => version \in proven
    /\ pc \in {"acknowledging", "forgetting"} => marker # None /\ marker.target = version
    /\ pc \in Updating =>
           /\ update.old = version
           /\ update.backup # None =>
                  update.backup \in copies /\ update.backup.schema <= SchemaOf[version]
    /\ pc \in {"retaining", "replacing", "restarting"} => marker = update
    /\ pc \in {"retaining", "replacing", "restarting"} /\ orderly => place = 0
    /\ pc \in {"retaining", "replacing"} /\ orderly => app[0] = version
    /\ pc \in {"replacing", "restarting"} /\ orderly => app[1] = version

\* What a restore has replaced was copied before.
RollbackOK ==
    before # None =>
        /\ before.db \in copies \cup {None}
        /\ \A f \in Files : files[f] = before.files[f] \/ <<f, before.files[f]>> \in kept

RecoveryInv ==
    /\ TypesOK /\ PlaceOK /\ StateOK /\ WorkerOK /\ UpdateOK
    /\ CommittedIsKept /\ NeverHalfMigrated /\ UnprovenHasAWayBack /\ RollbackOK

-----------------------------------------------------------------------------
(* Databases.                                                              *)

\* A database that is there is a record, and None is none.
LEMMA NoneIsNone ==
    /\ \A d \in Database : d # None
    /\ \A u \in Updates : u # None
    /\ \A c \in Contents : c # None
BY RecoveryNoneAssumption

\* The database of a fresh installation is one of the databases.
LEMMA EmptyIsADatabase == Empty \in Database
BY DEF Empty, Database

\* Every version of the app expects a schema and objects of the migrations there are.
LEMMA SchemaIsBounded ==
    ASSUME version \in Versions
    PROVE  Schema \in 1 .. 9 /\ Objects \subseteq 1 .. 9
BY RecoveryAssumption DEF Schema, Objects

\* A migrated database has the schema and objects of the running version and loses nothing.
LEMMA MigratedIsWhole ==
    ASSUME version \in Versions, NEW d \in Database
    PROVE  /\ Migrated(d) \in Database
           /\ Migrated(d).schema = Schema /\ Objects \subseteq Migrated(d).objects
           /\ Migrated(d).records = d.records /\ Migrated(d).state = d.state
<1> DEFINE n == Schema
           o == Objects
<1>1. n \in 0 .. 9 /\ o \subseteq 1 .. 9
  BY SchemaIsBounded
<1>2. Migrated(d) = [d EXCEPT !.schema = n, !.objects = @ \cup o]
  BY DEF Migrated
<1> HIDE DEF n, o
<1>3. d.objects \cup o \in SUBSET (1 .. 9)
  BY <1>1 DEF Database
<1>4. Migrated(d) \in Database
  BY <1>1, <1>2, <1>3 DEF Database
<1>5. /\ Migrated(d).schema = n /\ o \subseteq Migrated(d).objects
      /\ Migrated(d).records = d.records /\ Migrated(d).state = d.state
  BY <1>2 DEF Database
<1>6. QED
  BY <1>4, <1>5 DEF n, o

\* Work adds its record to the database, or to a new one, loses no other record
\* and leaves the database whole.
LEMMA WorkEffect ==
    ASSUME TypesOK, NEW r \in Records, Work(r)
    PROVE  LET d == IF db = None THEN Empty ELSE db
           IN  /\ db' # None /\ Whole(db)'
               /\ db'.records = d.records \cup {r}
               /\ db # None => d.schema <= Schema
               /\ Whole(d) => db'.schema = d.schema /\ db'.objects = d.objects
<1> DEFINE d == IF db = None THEN Empty ELSE db
<1>1. d \in Database /\ d.state = "ok" /\ version \in Versions /\ version' = version
  BY EmptyIsADatabase DEF TypesOK, Work, Empty, memory
<1>2. db' = [Migrated(d) EXCEPT !.records = @ \cup {r}]
  BY DEF Work
<1>3. db # None => d.schema <= Schema
  BY DEF Work
<1> HIDE DEF d
<1>4. /\ Migrated(d) \in Database
      /\ Migrated(d).schema = Schema /\ Objects \subseteq Migrated(d).objects
      /\ Migrated(d).records = d.records /\ Migrated(d).state = "ok"
  BY <1>1, MigratedIsWhole
<1>5. Whole(d) => Migrated(d).objects = d.objects /\ d.schema = Schema
  BY <1>1 DEF Whole, Migrated, Database
<1>6. /\ db' \in Database /\ db'.schema = Schema /\ db'.objects = Migrated(d).objects
      /\ db'.state = "ok" /\ db'.records = d.records \cup {r}
  BY <1>2, <1>4 DEF Database
<1>7. Whole(db)'
  BY <1>1, <1>4, <1>6 DEF Whole, Schema, Objects
<1>8. QED
  BY <1>3, <1>5, <1>6, <1>7, NoneIsNone DEF d

-----------------------------------------------------------------------------
(* Types and places.                                                       *)

LEMMA ObjectsAdded ==
    ASSUME NEW d \in Database, NEW o \in SUBSET (1 .. 9)
    PROVE  [d EXCEPT !.objects = @ \cup o] \in Database
<1>1. d.objects \cup o \in SUBSET (1 .. 9)
  BY DEF Database
<1>2. QED
  BY <1>1 DEF Database

\* Every step keeps the types.
LEMMA TypesStep ==
    ASSUME TypesOK, PlaceOK, UpdateOK, [Next]_vars
    PROVE  TypesOK'
<1> USE RecoveryAssumption, NoneIsNone, EmptyIsADatabase
        DEF TypesOK, Schema, Goto, disk, memory, bounds, Opening, Restoring, Updating, Open, Points
<1>1. CASE Launch
  BY <1>1 DEF Launch
<1>2. CASE OpenDatabase
  BY <1>2 DEF OpenDatabase
<1>3. CASE BackUpDatabase
  BY <1>3 DEF BackUpDatabase, PlaceOK, Present
<1>4. CASE BeginMigration
  <2>1. db \in Database
    BY <1>4 DEF BeginMigration, PlaceOK, Present
  <2>2. stage' \in 0 .. Schema
    BY <1>4 DEF BeginMigration
  <2>3. QED
    BY <1>4, <2>1, <2>2 DEF BeginMigration
<1>5. CASE MigrationStage
  <2>1. stage + 1 \in 1 .. Schema /\ stage + 1 \in 1 .. 9 /\ stage + 1 \in 0 .. Schema
    BY <1>5 DEF MigrationStage
  <2>2. work \in Database /\ work' = [work EXCEPT !.objects = @ \cup {stage + 1}]
    BY <1>5 DEF MigrationStage
  <2>3. work' \in Database
    <3>1. {stage + 1} \in SUBSET (1 .. 9)
      BY <2>1
    <3>2. QED
      BY <2>2, <3>1, ObjectsAdded
  <2>4. QED
    BY <1>5, <2>1, <2>3 DEF MigrationStage
<1>6. CASE CommitMigration
  <2>1. db' \in Database \cup {None}
    BY <1>6, MigratedIsWhole DEF CommitMigration
  <2>2. stage' \in 0 .. Schema
    BY <1>6 DEF CommitMigration
  <2>3. QED
    BY <1>6, <2>1, <2>2 DEF CommitMigration
<1>7. CASE ImportLegacyData
  <2>1. db \in Database
    BY <1>7 DEF ImportLegacyData, PlaceOK, Present
  <2>2. db' \in Database
    BY <1>7, <2>1 DEF ImportLegacyData, Database
  <2>3. db'.records \subseteq Records
    BY <2>2 DEF Database
  <2>4. QED
    BY <1>7, <2>2, <2>3 DEF ImportLegacyData
<1>8. CASE CheckHealth
  BY <1>8 DEF CheckHealth
<1>9. CASE AcknowledgeHealthyStartup
  BY <1>9 DEF AcknowledgeHealthyStartup, UpdateOK, Updates
<1>10. CASE ForgetMarker
  BY <1>10 DEF ForgetMarker
<1>11. CASE HandleStartupFailure
  BY <1>11 DEF HandleStartupFailure
<1>12. CASE StageRestore
  <2>1. archive \in Contents /\ archive.db \in Database
    BY <1>12 DEF StageRestore, Contents
  <2>2. work' \in Database
    BY <1>12, <2>1, MigratedIsWhole DEF StageRestore
  <2>3. QED
    BY <1>12, <2>2 DEF StageRestore
<1>13. CASE KeepDatabase
  <2>1. before' \in Contents
    BY <1>13 DEF KeepDatabase, Contents
  <2>2. QED
    BY <1>13, <2>1 DEF KeepDatabase
<1>14. ASSUME NEW f \in Files, RestoreFile(f)
      PROVE  TypesOK'
  <2>1. archive.files \in [Files -> Records]
    BY <1>14 DEF RestoreFile, PlaceOK, Staged, Contents
  <2>2. files' \in [Files -> Records] /\ kept' \subseteq Files \X Records
    BY <1>14, <2>1 DEF RestoreFile
  <2>3. QED
    BY <1>14, <2>2 DEF RestoreFile
<1>15. CASE RemoveDatabase
  BY <1>15 DEF RemoveDatabase
<1>16. CASE RenameRestored
  BY <1>16 DEF RenameRestored
<1>17. CASE SettleRestore
  BY <1>17 DEF SettleRestore
<1>18. ASSUME NEW t \in Versions, SaveBeforeUpdate(t)
      PROVE  TypesOK'
  <2>1. ops + 1 \in 1 .. MaxUpdates
    BY <1>18 DEF SaveBeforeUpdate
  <2>2. update' \in Updates /\ update'.target > update'.old
    BY <1>18, <2>1 DEF SaveBeforeUpdate, Updates
  <2>3. QED
    BY <1>18, <2>2 DEF SaveBeforeUpdate
<1>19. CASE WriteMarker
  BY <1>19 DEF WriteMarker
<1>20. CASE RetainExecutable
  BY <1>20 DEF RetainExecutable
<1>21. CASE ReplaceExecutable
  <2>1. update.target \in Versions
    BY <1>21 DEF ReplaceExecutable, PlaceOK, Updates
  <2>2. QED
    BY <1>21, <2>1 DEF ReplaceExecutable
<1>22. CASE Restart
  BY <1>22 DEF Restart
<1>23. ASSUME NEW r \in Records, Work(r)
      PROVE  TypesOK'
  <2> DEFINE d == Migrated(IF db = None THEN Empty ELSE db)
  <2>1. d \in Database
    BY MigratedIsWhole
  <2>2. db' = [d EXCEPT !.records = @ \cup {r}] /\ files' = [f \in Files |-> r]
    BY <1>23 DEF Work
  <2> HIDE DEF d
  <2>3. db' \in Database /\ files' \in [Files -> Records]
    BY <2>1, <2>2 DEF Database
  <2>4. QED
    BY <1>23, <2>3 DEF Work
<1>24. CASE CreateBackup
  <2>1. archive' \in Contents /\ archive'.db # None
    BY <1>24 DEF CreateBackup, ArchiveOf, Contents
  <2>2. QED
    BY <1>24, <2>1 DEF CreateBackup
<1>25. CASE StepFails
  BY <1>25 DEF StepFails
<1>26. CASE Crash
  BY <1>26 DEF Crash
<1>27. CASE Quit
  BY <1>27 DEF Quit
<1>28. CASE StartWorker
  BY <1>28 DEF StartWorker
<1>29. CASE EndWorker
  BY <1>29 DEF EndWorker
<1>30. CASE UpdateIsBlocked
  BY <1>30 DEF UpdateIsBlocked
<1>31. CASE UNCHANGED vars
  BY <1>31 DEF vars
<1> HIDE DEF TypesOK, Schema, Goto, disk, memory, bounds, Opening, Restoring, Updating, Open, Points
<1>32. QED
  BY <1>1, <1>2, <1>3, <1>4, <1>5, <1>6, <1>7, <1>8, <1>9, <1>10, <1>11, <1>12, <1>13,
     <1>14, <1>15, <1>16, <1>17, <1>18, <1>19, <1>20, <1>21, <1>22, <1>23, <1>24,
     <1>25, <1>26, <1>27, <1>28, <1>29, <1>30, <1>31
  DEF Next, Startup, Restore, Update

\* Every step keeps what the process holds in agreement with where it is.
LEMMA PlaceStep ==
    ASSUME TypesOK, PlaceOK, [Next]_vars
    PROVE  PlaceOK'
<1> USE NoneIsNone, EmptyIsADatabase
        DEF PlaceOK, Whole, Schema, Objects, Goto, disk, memory, bounds, Opening, Restoring, Updating, Open, Points,
            Present, Staged
<1>1. CASE Launch
  BY <1>1 DEF Launch
<1>2. CASE OpenDatabase
  BY <1>2 DEF OpenDatabase
<1>3. CASE BackUpDatabase
  BY <1>3 DEF BackUpDatabase
<1>4. CASE BeginMigration
  BY <1>4 DEF BeginMigration
<1>5. CASE MigrationStage
  <2>1. work \in Database /\ work' = [work EXCEPT !.objects = @ \cup {stage + 1}]
    BY <1>5 DEF MigrationStage, TypesOK
  <2>2. work' # None
    <3>1. {stage + 1} \in SUBSET (1 .. 9)
      BY <1>5, SchemaIsBounded DEF MigrationStage, TypesOK
    <3>2. QED
      BY <2>1, <3>1, ObjectsAdded
  <2>3. QED
    BY <1>5, <2>2 DEF MigrationStage
<1>6. CASE CommitMigration
  <2>1. db' # None
    <3>1. db # None /\ work \in Database /\ version \in Versions
      BY <1>6 DEF CommitMigration, TypesOK
    <3>2. QED
      BY <1>6, <3>1, MigratedIsWhole DEF CommitMigration
  <2>2. QED
    BY <1>6, <2>1 DEF CommitMigration
<1>7. CASE ImportLegacyData
  <2>1. db \in Database
    BY <1>7 DEF ImportLegacyData, TypesOK
  <2>2. db' \in Database
    BY <1>7, <2>1, RecoveryAssumption DEF ImportLegacyData, Database
  <2>3. QED
    BY <1>7, <2>2 DEF ImportLegacyData
<1>8. CASE CheckHealth
  BY <1>8 DEF CheckHealth
<1>9. CASE AcknowledgeHealthyStartup
  BY <1>9 DEF AcknowledgeHealthyStartup
<1>10. CASE ForgetMarker
  BY <1>10 DEF ForgetMarker
<1>11. CASE HandleStartupFailure
  BY <1>11 DEF HandleStartupFailure
<1>12. CASE StageRestore
  <2>1. archive.db \in Database /\ version \in Versions /\ archive.db.state = "ok"
    BY <1>12 DEF StageRestore, Contents, TypesOK
  <2>2. work' \in Database /\ Whole(work)'
    BY <1>12, <2>1, MigratedIsWhole DEF StageRestore
  <2>3. QED
    BY <1>12, <2>2 DEF StageRestore
<1>13. CASE KeepDatabase
  BY <1>13 DEF KeepDatabase
<1>14. ASSUME NEW f \in Files, RestoreFile(f)
      PROVE  PlaceOK'
  BY <1>14 DEF RestoreFile
<1>15. CASE RemoveDatabase
  BY <1>15 DEF RemoveDatabase
<1>16. CASE RenameRestored
  BY <1>16 DEF RenameRestored
<1>17. CASE SettleRestore
  BY <1>17 DEF SettleRestore
<1>18. ASSUME NEW t \in Versions, SaveBeforeUpdate(t)
      PROVE  PlaceOK'
  <2>1. update' # None
    <3>1. ops + 1 \in 1 .. MaxUpdates
      BY <1>18, RecoveryAssumption DEF SaveBeforeUpdate, TypesOK
    <3>2. update' \in Updates
      BY <1>18, <3>1 DEF SaveBeforeUpdate, Updates, TypesOK
    <3>3. QED
      BY <3>2
  <2>2. QED
    BY <1>18, <2>1 DEF SaveBeforeUpdate
<1>19. CASE WriteMarker
  BY <1>19 DEF WriteMarker
<1>20. CASE RetainExecutable
  BY <1>20 DEF RetainExecutable
<1>21. CASE ReplaceExecutable
  BY <1>21 DEF ReplaceExecutable
<1>22. CASE Restart
  BY <1>22 DEF Restart
<1>23. ASSUME NEW r \in Records, Work(r)
      PROVE  PlaceOK'
  <2>1. db' # None /\ UNCHANGED memory
    BY <1>23, WorkEffect DEF Work
  <2>2. QED
    BY <1>23, <2>1 DEF Work
<1>24. CASE CreateBackup
  BY <1>24 DEF CreateBackup
<1>25. CASE StepFails
  BY <1>25 DEF StepFails
<1>26. CASE Crash
  BY <1>26 DEF Crash
<1>27. CASE Quit
  BY <1>27 DEF Quit
<1>28. CASE StartWorker
  BY <1>28 DEF StartWorker
<1>29. CASE EndWorker
  BY <1>29 DEF EndWorker
<1>30. CASE UpdateIsBlocked
  BY <1>30 DEF UpdateIsBlocked
<1>31. CASE UNCHANGED vars
  BY <1>31 DEF vars
<1> HIDE DEF PlaceOK, Whole, Schema, Objects, Goto, disk, memory, bounds, Opening, Restoring, Updating, Open, Points,
            Present, Staged
<1>32. QED
  BY <1>1, <1>2, <1>3, <1>4, <1>5, <1>6, <1>7, <1>8, <1>9, <1>10, <1>11, <1>12, <1>13,
     <1>14, <1>15, <1>16, <1>17, <1>18, <1>19, <1>20, <1>21, <1>22, <1>23, <1>24,
     <1>25, <1>26, <1>27, <1>28, <1>29, <1>30, <1>31
  DEF Next, Startup, Restore, Update

-----------------------------------------------------------------------------
(* The database.                                                           *)

LEMMA ImportEffect ==
    ASSUME TypesOK, PlaceOK, ImportLegacyData
    PROVE  /\ db # None /\ db' # None
           /\ db'.schema = db.schema /\ db'.objects = db.objects /\ db'.state = db.state
           /\ db.records \subseteq db'.records
<1>1. db \in Database
  BY DEF ImportLegacyData, TypesOK, PlaceOK, Present
<1>2. /\ db' \in Database /\ db'.schema = db.schema /\ db'.objects = db.objects
      /\ db'.state = db.state /\ db.records \subseteq db'.records
  BY <1>1, RecoveryAssumption DEF ImportLegacyData, Database
<1>3. QED
  BY <1>1, <1>2, NoneIsNone

\* The steps that change the database.
LEMMA DatabaseEffect ==
    ASSUME [Next]_vars
    PROVE  \/ db' = db
           \/ OpenDatabase \/ CommitMigration \/ ImportLegacyData
           \/ \E r \in Records : Work(r)
           \/ RemoveDatabase \/ RenameRestored
<1> USE DEF Goto, disk
<1>1. CASE Startup
  BY <1>1 DEF Startup, Launch, BackUpDatabase, BeginMigration, MigrationStage,
              CheckHealth, AcknowledgeHealthyStartup, ForgetMarker, HandleStartupFailure
<1>2. CASE Restore
  BY <1>2 DEF Restore, StageRestore, KeepDatabase, RestoreFile, SettleRestore
<1>3. CASE Update
  BY <1>3 DEF Update, SaveBeforeUpdate, UpdateIsBlocked, WriteMarker, RetainExecutable, ReplaceExecutable,
              Restart
<1>4. CASE StartWorker \/ EndWorker \/ CreateBackup \/ StepFails \/ Crash \/ Quit
  BY <1>4 DEF StartWorker, EndWorker, CreateBackup, StepFails, Crash, Quit
<1>5. CASE UNCHANGED vars
  BY <1>5 DEF vars
<1>6. QED
  BY <1>1, <1>2, <1>3, <1>4, <1>5 DEF Next

-----------------------------------------------------------------------------
(* What a startup, a restore and an update leave of it.                                                           *)

LEMMA StateStep ==
    ASSUME TypesOK, PlaceOK, StateOK, [Next]_vars
    PROVE  StateOK'
<1> USE NoneIsNone
        DEF StateOK, Whole, Current, Schema, Objects, Goto, disk, memory, bounds, Opening, Restoring, Updating, Open, Points,
            Migrating
<1>1. CASE Launch
  BY <1>1 DEF Launch
<1>2. CASE OpenDatabase
  BY <1>2 DEF OpenDatabase, NeedsReconciliation, PlaceOK, Staged
<1>3. CASE BackUpDatabase
  BY <1>3 DEF BackUpDatabase, PlaceOK, Staged
<1>4. CASE BeginMigration
  <2>1. CASE db.schema <= Schema /\ NeedsReconciliation(db)
    BY <1>4, <2>1 DEF BeginMigration, NeedsReconciliation
  <2>2. CASE ~ (db.schema <= Schema /\ NeedsReconciliation(db))
    <3>1. pc' = "failed" \/ (pc' = "importing" /\ Whole(db))
      <4>1. db \in Database
        BY <1>4 DEF BeginMigration, TypesOK, PlaceOK, Present
      <4>2. NeedsReconciliation(db) \/ db.state = "damaged" \/ Whole(db)
        BY <4>1 DEF NeedsReconciliation, Database
      <4>3. QED
        BY <1>4, <2>2, <4>2 DEF BeginMigration
    <3>2. UNCHANGED <<db, version>>
      BY <1>4, <2>2 DEF BeginMigration
    <3>3. QED
      BY <3>1, <3>2
  <2>3. QED
    BY <2>1, <2>2
<1>5. CASE MigrationStage
  BY <1>5 DEF MigrationStage
<1>6. CASE CommitMigration
  <2>1. CASE work.state = "ok"
    <3>1. work \in Database /\ version \in Versions
      BY <1>6 DEF CommitMigration, TypesOK
    <3>2. UNCHANGED version /\ pc' = "importing" /\ Whole(db)'
      BY <1>6, <2>1, <3>1, MigratedIsWhole DEF CommitMigration
    <3>3. QED
      BY <3>2
  <2>2. CASE work.state # "ok"
    BY <1>6, <2>2 DEF CommitMigration
  <2>3. QED
    BY <2>1, <2>2
<1>7. CASE ImportLegacyData
  <2>1. Whole(db)' /\ pc' = "checking"
    BY <1>7, ImportEffect DEF ImportLegacyData
  <2>2. QED
    BY <2>1
<1>8. CASE CheckHealth
  BY <1>8 DEF CheckHealth
<1>9. CASE AcknowledgeHealthyStartup
  BY <1>9 DEF AcknowledgeHealthyStartup
<1>10. CASE ForgetMarker
  BY <1>10 DEF ForgetMarker
<1>11. CASE HandleStartupFailure
  BY <1>11 DEF HandleStartupFailure
<1>12. CASE StageRestore
  BY <1>12 DEF StageRestore
<1>13. CASE KeepDatabase
  BY <1>13 DEF KeepDatabase
<1>14. ASSUME NEW f \in Files, RestoreFile(f)
      PROVE  StateOK'
  BY <1>14 DEF RestoreFile
<1>15. CASE RemoveDatabase
  BY <1>15 DEF RemoveDatabase
<1>16. CASE RenameRestored
  BY <1>16 DEF RenameRestored, PlaceOK, Staged
<1>17. CASE SettleRestore
  BY <1>17 DEF SettleRestore
<1>18. ASSUME NEW t \in Versions, SaveBeforeUpdate(t)
      PROVE  StateOK'
  BY <1>18 DEF SaveBeforeUpdate
<1>19. CASE WriteMarker
  BY <1>19 DEF WriteMarker
<1>20. CASE RetainExecutable
  BY <1>20 DEF RetainExecutable
<1>21. CASE ReplaceExecutable
  BY <1>21 DEF ReplaceExecutable
<1>22. CASE Restart
  BY <1>22 DEF Restart
<1>23. ASSUME NEW r \in Records, Work(r)
      PROVE  StateOK'
  <2> DEFINE d == IF db = None THEN Empty ELSE db
  <2>1. Whole(db)' /\ db'.records = d.records \cup {r}
    BY <1>23, WorkEffect
  <2>2. /\ pc' = pc /\ version' = version /\ work' = work /\ copies' = copies
        /\ pc = "migrating" => work = None
        /\ exposed' = IF pc \in {"files", "removed"} THEN exposed \cup {r} ELSE exposed
    BY <1>23 DEF Work
  <2>3. pc = "files" => db'.records \ exposed' \subseteq UNION {c.records : c \in copies}
    BY <2>1, <2>2 DEF Empty
  <2>4. pc = "removed" => db'.records \subseteq exposed'
    BY <2>1, <2>2 DEF Empty
  <2>5. QED
    BY <2>1, <2>2, <2>3, <2>4
<1>24. CASE CreateBackup
  BY <1>24 DEF CreateBackup
<1>25. CASE StepFails
  BY <1>25 DEF StepFails
<1>26. CASE Crash
  BY <1>26 DEF Crash
<1>27. CASE Quit
  BY <1>27 DEF Quit
<1>28. CASE StartWorker
  BY <1>28 DEF StartWorker
<1>29. CASE EndWorker
  BY <1>29 DEF EndWorker
<1>30. CASE UpdateIsBlocked
  BY <1>30 DEF UpdateIsBlocked
<1>31. CASE UNCHANGED vars
  BY <1>31 DEF vars
<1> HIDE DEF StateOK, Whole, Current, Schema, Objects, Goto, disk, memory, bounds, Opening, Restoring, Updating, Open, Points,
            Migrating
<1>32. QED
  BY <1>1, <1>2, <1>3, <1>4, <1>5, <1>6, <1>7, <1>8, <1>9, <1>10, <1>11, <1>12, <1>13,
     <1>14, <1>15, <1>16, <1>17, <1>18, <1>19, <1>20, <1>21, <1>22, <1>23, <1>24,
     <1>25, <1>26, <1>27, <1>28, <1>29, <1>30, <1>31
  DEF Next, Startup, Restore, Update

\* A worker finds a database that is whole, or one with nothing in it: another
\* version is started only when there is no worker.
LEMMA WorkerStep ==
    ASSUME TypesOK, PlaceOK, StateOK, WorkerOK, [Next]_vars
    PROVE  WorkerOK'
<1> USE NoneIsNone DEF WorkerOK, Goto, disk, memory, bounds
<1>1. CASE version' = version /\ (db' = db \/ db' = None \/ db' = Empty)
  <2>1. CASE worker' = "none" \/ worker # "none"
    <3>1. Whole(db) /\ db' = db => Whole(db)'
      BY <1>1 DEF Whole, Schema, Objects
    <3>2. QED
      BY <1>1, <2>1, <3>1
  <2>2. CASE worker' # "none" /\ worker = "none"
    <3>1. StartWorker
      BY <2>2 DEF Next, Startup, Restore, Update, vars, Launch, OpenDatabase, BackUpDatabase,
                  BeginMigration, MigrationStage, CommitMigration, ImportLegacyData,
                  CheckHealth, AcknowledgeHealthyStartup, ForgetMarker, HandleStartupFailure,
                  StageRestore, KeepDatabase, RestoreFile, RemoveDatabase, RenameRestored,
                  SettleRestore, SaveBeforeUpdate, UpdateIsBlocked, WriteMarker,
                  RetainExecutable, ReplaceExecutable, Restart, EndWorker, Work,
                  CreateBackup, StepFails, Crash, Quit
    <3>2. db' = db /\ (db # None => Whole(db))
      BY <3>1 DEF StartWorker, StateOK, Open, Updating
    <3>3. QED
      BY <1>1, <3>2 DEF Whole, Schema, Objects
  <2>3. QED
    BY <2>1, <2>2
<1>2. CASE version' # version
  BY <1>2 DEF Next, Startup, Restore, Update, vars, Launch, OpenDatabase, BackUpDatabase,
              BeginMigration, MigrationStage, CommitMigration, ImportLegacyData,
              CheckHealth, AcknowledgeHealthyStartup, ForgetMarker, HandleStartupFailure,
              StageRestore, KeepDatabase, RestoreFile, RemoveDatabase, RenameRestored,
              SettleRestore, SaveBeforeUpdate, UpdateIsBlocked, WriteMarker,
              RetainExecutable, ReplaceExecutable, Restart, StartWorker, EndWorker, Work,
              CreateBackup, StepFails, Crash, Quit
<1>3. CASE CommitMigration
  <2>1. work \in Database /\ version \in Versions /\ version' = version
    BY <1>3 DEF CommitMigration, TypesOK
  <2>2. CASE work.state = "ok"
    <3>1. Whole(db)'
      BY <1>3, <2>1, <2>2, MigratedIsWhole DEF CommitMigration, Whole, Schema, Objects
    <3>2. QED
      BY <3>1
  <2>3. CASE work.state # "ok"
    BY <1>1, <1>3, <2>1, <2>3 DEF CommitMigration
  <2>4. QED
    BY <2>2, <2>3
<1>4. CASE ImportLegacyData
  <2>1. Whole(db)' /\ version' = version
    BY <1>4, ImportEffect DEF ImportLegacyData, StateOK, Migrating, Whole, Schema, Objects
  <2>2. QED
    BY <2>1
<1>5. ASSUME NEW r \in Records, Work(r)
      PROVE  WorkerOK'
  BY <1>5, WorkEffect
<1>6. CASE RenameRestored
  BY <1>6 DEF RenameRestored, PlaceOK, Staged, Whole, Schema, Objects
<1>7. CASE OpenDatabase \/ RemoveDatabase
  BY <1>1, <1>7 DEF OpenDatabase, RemoveDatabase
<1>8. QED
  BY <1>1, <1>2, <1>3, <1>4, <1>5, <1>6, <1>7, DatabaseEffect

\* Every step keeps an update in agreement with its marker and its executables.
LEMMA UpdateStep ==
    ASSUME TypesOK, PlaceOK, StateOK, UpdateOK, [Next]_vars
    PROVE  UpdateOK'
<1> USE NoneIsNone
        DEF UpdateOK, PlaceOK, Goto, disk, memory, bounds, Opening, Restoring, Updating, Open, Points
<1>1. CASE Launch
  BY <1>1 DEF Launch
<1>2. CASE OpenDatabase
  BY <1>2 DEF OpenDatabase
<1>3. CASE BackUpDatabase
  BY <1>3 DEF BackUpDatabase
<1>4. CASE BeginMigration
  BY <1>4 DEF BeginMigration
<1>5. CASE MigrationStage
  BY <1>5 DEF MigrationStage
<1>6. CASE CommitMigration
  BY <1>6 DEF CommitMigration
<1>7. CASE ImportLegacyData
  BY <1>7 DEF ImportLegacyData
<1>8. CASE CheckHealth
  BY <1>8 DEF CheckHealth
<1>9. CASE AcknowledgeHealthyStartup
  BY <1>9 DEF AcknowledgeHealthyStartup
<1>10. CASE ForgetMarker
  BY <1>10 DEF ForgetMarker
<1>11. CASE HandleStartupFailure
  BY <1>11 DEF HandleStartupFailure
<1>12. CASE StageRestore
  BY <1>12 DEF StageRestore
<1>13. CASE KeepDatabase
  BY <1>13 DEF KeepDatabase
<1>14. ASSUME NEW f \in Files, RestoreFile(f)
      PROVE  UpdateOK'
  BY <1>14 DEF RestoreFile
<1>15. CASE RemoveDatabase
  BY <1>15 DEF RemoveDatabase
<1>16. CASE RenameRestored
  BY <1>16 DEF RenameRestored
<1>17. CASE SettleRestore
  BY <1>17 DEF SettleRestore
<1>18. ASSUME NEW t \in Versions, SaveBeforeUpdate(t)
      PROVE  UpdateOK'
  <2>1. db # None => db \in Database /\ db.schema = SchemaOf[version]
    BY <1>18 DEF SaveBeforeUpdate, StateOK, Whole, Schema, TypesOK
  <2>2. db # None => db.schema <= SchemaOf[version]
    BY <2>1 DEF Database
  <2>3. QED
    BY <1>18, <2>2 DEF SaveBeforeUpdate
<1>19. CASE WriteMarker
  BY <1>19 DEF WriteMarker
<1>20. CASE RetainExecutable
  <2>1. 0 \in Paths /\ 1 \in Paths /\ app \in [Paths -> Versions \cup {0}]
    BY <1>20, RecoveryAssumption DEF RetainExecutable, TypesOK, Updates, Paths
  <2>2. orderly => place = 0 /\ app[0] = version
    BY <1>20 DEF RetainExecutable
  <2>3. orderly => app'[0] = version /\ app'[1] = version
    BY <1>20, <2>1, <2>2 DEF RetainExecutable
  <2>4. QED
    BY <1>20, <2>2, <2>3 DEF RetainExecutable
<1>21. CASE ReplaceExecutable
  BY <1>21 DEF ReplaceExecutable
<1>22. CASE Restart
  BY <1>22 DEF Restart
<1>23. ASSUME NEW r \in Records, Work(r)
      PROVE  UpdateOK'
  BY <1>23 DEF Work
<1>24. CASE CreateBackup
  BY <1>24 DEF CreateBackup
<1>25. CASE StepFails
  BY <1>25 DEF StepFails
<1>26. CASE Crash
  BY <1>26 DEF Crash
<1>27. CASE Quit
  BY <1>27 DEF Quit
<1>28. CASE StartWorker
  BY <1>28 DEF StartWorker
<1>29. CASE EndWorker
  BY <1>29 DEF EndWorker
<1>30. CASE UpdateIsBlocked
  BY <1>30 DEF UpdateIsBlocked
<1>31. CASE UNCHANGED vars
  BY <1>31 DEF vars
<1> HIDE DEF UpdateOK, PlaceOK, Goto, disk, memory, bounds, Opening, Restoring, Updating, Open, Points
<1>32. QED
  BY <1>1, <1>2, <1>3, <1>4, <1>5, <1>6, <1>7, <1>8, <1>9, <1>10, <1>11, <1>12, <1>13,
     <1>14, <1>15, <1>16, <1>17, <1>18, <1>19, <1>20, <1>21, <1>22, <1>23, <1>24,
     <1>25, <1>26, <1>27, <1>28, <1>29, <1>30, <1>31
  DEF Next, Startup, Restore, Update

\* Every step keeps the committed records in the database or in a copy.
LEMMA CommittedStep ==
    ASSUME TypesOK, PlaceOK, StateOK, CommittedIsKept, [Next]_vars
    PROVE  CommittedIsKept'
<1> USE NoneIsNone
        DEF CommittedIsKept, RecordsKept, Goto, disk, memory, bounds, Opening, Restoring, Updating, Open, Points
<1>1. CASE Launch
  BY <1>1 DEF Launch
<1>2. CASE OpenDatabase
  BY <1>2 DEF OpenDatabase
<1>3. CASE BackUpDatabase
  BY <1>3 DEF BackUpDatabase
<1>4. CASE BeginMigration
  BY <1>4 DEF BeginMigration
<1>5. CASE MigrationStage
  BY <1>5 DEF MigrationStage
<1>6. CASE CommitMigration
  <2>1. db # None /\ work \in Database /\ version \in Versions /\ work.records = db.records
    BY <1>6 DEF CommitMigration, TypesOK, PlaceOK, Present, StateOK
  <2>2. db' # None /\ db'.records = db.records
    BY <1>6, <2>1, MigratedIsWhole DEF CommitMigration
  <2>3. UNCHANGED <<copies, committed, exposed>>
    BY <1>6 DEF CommitMigration
  <2>4. QED
    BY <2>1, <2>2, <2>3
<1>7. CASE ImportLegacyData
  <2>1. /\ db # None /\ db' # None /\ db.records \subseteq db'.records
        /\ committed' = committed \cup db'.records /\ copies' = copies /\ exposed' = exposed
    BY <1>7, ImportEffect DEF ImportLegacyData
  <2>2. QED
    BY <2>1
<1>8. CASE CheckHealth
  BY <1>8 DEF CheckHealth
<1>9. CASE AcknowledgeHealthyStartup
  BY <1>9 DEF AcknowledgeHealthyStartup
<1>10. CASE ForgetMarker
  BY <1>10 DEF ForgetMarker
<1>11. CASE HandleStartupFailure
  BY <1>11 DEF HandleStartupFailure
<1>12. CASE StageRestore
  BY <1>12 DEF StageRestore
<1>13. CASE KeepDatabase
  BY <1>13 DEF KeepDatabase
<1>14. ASSUME NEW f \in Files, RestoreFile(f)
      PROVE  CommittedIsKept'
  BY <1>14 DEF RestoreFile
<1>15. CASE RemoveDatabase
  BY <1>15 DEF RemoveDatabase, StateOK
<1>16. CASE RenameRestored
  BY <1>16 DEF RenameRestored, PlaceOK, Staged, StateOK
<1>17. CASE SettleRestore
  BY <1>17 DEF SettleRestore
<1>18. ASSUME NEW t \in Versions, SaveBeforeUpdate(t)
      PROVE  CommittedIsKept'
  BY <1>18 DEF SaveBeforeUpdate
<1>19. CASE WriteMarker
  BY <1>19 DEF WriteMarker
<1>20. CASE RetainExecutable
  BY <1>20 DEF RetainExecutable
<1>21. CASE ReplaceExecutable
  BY <1>21 DEF ReplaceExecutable
<1>22. CASE Restart
  BY <1>22 DEF Restart
<1>23. ASSUME NEW r \in Records, Work(r)
      PROVE  CommittedIsKept'
  <2>1. /\ db' # None /\ r \in db'.records /\ (db # None => db.records \subseteq db'.records)
        /\ committed' = committed \cup {r} /\ copies' = copies /\ exposed \subseteq exposed'
    BY <1>23, WorkEffect DEF Work
  <2>2. QED
    BY <2>1
<1>24. CASE CreateBackup
  BY <1>24 DEF CreateBackup
<1>25. CASE StepFails
  BY <1>25 DEF StepFails
<1>26. CASE Crash
  BY <1>26 DEF Crash
<1>27. CASE Quit
  BY <1>27 DEF Quit
<1>28. CASE StartWorker
  BY <1>28 DEF StartWorker
<1>29. CASE EndWorker
  BY <1>29 DEF EndWorker
<1>30. CASE UpdateIsBlocked
  BY <1>30 DEF UpdateIsBlocked
<1>31. CASE UNCHANGED vars
  BY <1>31 DEF vars
<1> HIDE DEF CommittedIsKept, RecordsKept, Goto, disk, memory, bounds, Opening, Restoring, Updating, Open, Points
<1>32. QED
  BY <1>1, <1>2, <1>3, <1>4, <1>5, <1>6, <1>7, <1>8, <1>9, <1>10, <1>11, <1>12, <1>13,
     <1>14, <1>15, <1>16, <1>17, <1>18, <1>19, <1>20, <1>21, <1>22, <1>23, <1>24,
     <1>25, <1>26, <1>27, <1>28, <1>29, <1>30, <1>31
  DEF Next, Startup, Restore, Update

\* No step leaves a database half migrated.
LEMMA HalfStep ==
    ASSUME TypesOK, PlaceOK, StateOK, NeverHalfMigrated, [Next]_vars
    PROVE  NeverHalfMigrated'
<1> USE NoneIsNone
        DEF NeverHalfMigrated, Goto, disk, memory, bounds, Opening, Restoring, Updating, Open, Points
<1>1. CASE Launch
  BY <1>1 DEF Launch
<1>2. CASE OpenDatabase
  BY <1>2 DEF OpenDatabase
<1>3. CASE BackUpDatabase
  BY <1>3 DEF BackUpDatabase
<1>4. CASE BeginMigration
  BY <1>4 DEF BeginMigration
<1>5. CASE MigrationStage
  BY <1>5 DEF MigrationStage
<1>6. CASE CommitMigration
  <2>1. CASE work.state = "ok"
    <3>1. work \in Database /\ version \in Versions
      BY <1>6 DEF CommitMigration, TypesOK
    <3>2. /\ db'.schema = Schema /\ Objects \subseteq db'.objects
      BY <1>6, <2>1, <3>1, MigratedIsWhole DEF CommitMigration
    <3>3. Schema \in Schemas /\ Objects = 1 .. Schema
      BY <3>1 DEF Schemas, Schema, Objects
    <3>4. QED
      BY <3>2, <3>3
  <2>2. CASE work.state # "ok"
    BY <1>6, <2>2 DEF CommitMigration
  <2>3. QED
    BY <2>1, <2>2
<1>7. CASE ImportLegacyData
  <2>1. db # None /\ db'.schema = db.schema /\ db'.objects = db.objects
    BY <1>7, ImportEffect DEF ImportLegacyData
  <2>2. QED
    BY <2>1
<1>8. CASE CheckHealth
  BY <1>8 DEF CheckHealth
<1>9. CASE AcknowledgeHealthyStartup
  BY <1>9 DEF AcknowledgeHealthyStartup
<1>10. CASE ForgetMarker
  BY <1>10 DEF ForgetMarker
<1>11. CASE HandleStartupFailure
  BY <1>11 DEF HandleStartupFailure
<1>12. CASE StageRestore
  BY <1>12 DEF StageRestore
<1>13. CASE KeepDatabase
  BY <1>13 DEF KeepDatabase
<1>14. ASSUME NEW f \in Files, RestoreFile(f)
      PROVE  NeverHalfMigrated'
  BY <1>14 DEF RestoreFile
<1>15. CASE RemoveDatabase
  BY <1>15 DEF RemoveDatabase
<1>16. CASE RenameRestored
  <2>1. db' = work /\ Whole(work) /\ version \in Versions
    BY <1>16 DEF RenameRestored, PlaceOK, Staged, TypesOK
  <2>2. Schema \in Schemas /\ Objects = 1 .. Schema
    BY <2>1 DEF Schemas, Schema, Objects
  <2>3. QED
    BY <2>1, <2>2 DEF Whole
<1>17. CASE SettleRestore
  BY <1>17 DEF SettleRestore
<1>18. ASSUME NEW t \in Versions, SaveBeforeUpdate(t)
      PROVE  NeverHalfMigrated'
  BY <1>18 DEF SaveBeforeUpdate
<1>19. CASE WriteMarker
  BY <1>19 DEF WriteMarker
<1>20. CASE RetainExecutable
  BY <1>20 DEF RetainExecutable
<1>21. CASE ReplaceExecutable
  BY <1>21 DEF ReplaceExecutable
<1>22. CASE Restart
  BY <1>22 DEF Restart
<1>23. ASSUME NEW r \in Records, Work(r)
      PROVE  NeverHalfMigrated'
  <2>1. version \in Versions /\ version' = version
    BY <1>23 DEF TypesOK, Work
  <2>2. db'.schema = Schema /\ Objects \subseteq db'.objects
    BY <1>23, <2>1, WorkEffect DEF Whole, Schema, Objects
  <2>3. Schema \in Schemas /\ Objects = 1 .. Schema
    BY <2>1 DEF Schemas, Schema, Objects
  <2>4. QED
    BY <2>2, <2>3
<1>24. CASE CreateBackup
  BY <1>24 DEF CreateBackup
<1>25. CASE StepFails
  BY <1>25 DEF StepFails
<1>26. CASE Crash
  BY <1>26 DEF Crash
<1>27. CASE Quit
  BY <1>27 DEF Quit
<1>28. CASE StartWorker
  BY <1>28 DEF StartWorker
<1>29. CASE EndWorker
  BY <1>29 DEF EndWorker
<1>30. CASE UpdateIsBlocked
  BY <1>30 DEF UpdateIsBlocked
<1>31. CASE UNCHANGED vars
  BY <1>31 DEF vars
<1> HIDE DEF NeverHalfMigrated, Goto, disk, memory, bounds, Opening, Restoring, Updating, Open, Points
<1>32. QED
  BY <1>1, <1>2, <1>3, <1>4, <1>5, <1>6, <1>7, <1>8, <1>9, <1>10, <1>11, <1>12, <1>13,
     <1>14, <1>15, <1>16, <1>17, <1>18, <1>19, <1>20, <1>21, <1>22, <1>23, <1>24,
     <1>25, <1>26, <1>27, <1>28, <1>29, <1>30, <1>31
  DEF Next, Startup, Restore, Update

-----------------------------------------------------------------------------
(* The way back.                                                           *)

LEMMA WayBackStep ==
    ASSUME TypesOK, PlaceOK, UpdateOK, UnprovenHasAWayBack, [Next]_vars
    PROVE  UnprovenHasAWayBack'
<1> USE NoneIsNone
        DEF UnprovenHasAWayBack, UpdateOK, PlaceOK, Goto, disk, memory, bounds, Opening, Restoring, Updating, Open, Points
<1>1. CASE Launch
  BY <1>1 DEF Launch
<1>2. CASE OpenDatabase
  BY <1>2 DEF OpenDatabase
<1>3. CASE BackUpDatabase
  BY <1>3 DEF BackUpDatabase
<1>4. CASE BeginMigration
  BY <1>4 DEF BeginMigration
<1>5. CASE MigrationStage
  BY <1>5 DEF MigrationStage
<1>6. CASE CommitMigration
  BY <1>6 DEF CommitMigration
<1>7. CASE ImportLegacyData
  BY <1>7 DEF ImportLegacyData
<1>8. CASE CheckHealth
  BY <1>8 DEF CheckHealth
<1>9. CASE AcknowledgeHealthyStartup
  BY <1>9 DEF AcknowledgeHealthyStartup
<1>10. CASE ForgetMarker
  BY <1>10 DEF ForgetMarker
<1>11. CASE HandleStartupFailure
  BY <1>11 DEF HandleStartupFailure
<1>12. CASE StageRestore
  BY <1>12 DEF StageRestore
<1>13. CASE KeepDatabase
  BY <1>13 DEF KeepDatabase
<1>14. ASSUME NEW f \in Files, RestoreFile(f)
      PROVE  UnprovenHasAWayBack'
  BY <1>14 DEF RestoreFile
<1>15. CASE RemoveDatabase
  BY <1>15 DEF RemoveDatabase
<1>16. CASE RenameRestored
  BY <1>16 DEF RenameRestored
<1>17. CASE SettleRestore
  BY <1>17 DEF SettleRestore
<1>18. ASSUME NEW t \in Versions, SaveBeforeUpdate(t)
      PROVE  UnprovenHasAWayBack'
  BY <1>18 DEF SaveBeforeUpdate
<1>19. CASE WriteMarker
  BY <1>19 DEF WriteMarker
<1>20. CASE RetainExecutable
  BY <1>20 DEF RetainExecutable
<1>21. CASE ReplaceExecutable
  BY <1>21 DEF ReplaceExecutable
<1>22. CASE Restart
  BY <1>22 DEF Restart
<1>23. ASSUME NEW r \in Records, Work(r)
      PROVE  UnprovenHasAWayBack'
  BY <1>23 DEF Work
<1>24. CASE CreateBackup
  BY <1>24 DEF CreateBackup
<1>25. CASE StepFails
  BY <1>25 DEF StepFails
<1>26. CASE Crash
  BY <1>26 DEF Crash
<1>27. CASE Quit
  BY <1>27 DEF Quit
<1>28. CASE StartWorker
  BY <1>28 DEF StartWorker
<1>29. CASE EndWorker
  BY <1>29 DEF EndWorker
<1>30. CASE UpdateIsBlocked
  BY <1>30 DEF UpdateIsBlocked
<1>31. CASE UNCHANGED vars
  BY <1>31 DEF vars
<1> HIDE DEF UnprovenHasAWayBack, UpdateOK, PlaceOK, Goto, disk, memory, bounds, Opening, Restoring, Updating, Open, Points
<1>32. QED
  BY <1>1, <1>2, <1>3, <1>4, <1>5, <1>6, <1>7, <1>8, <1>9, <1>10, <1>11, <1>12, <1>13,
     <1>14, <1>15, <1>16, <1>17, <1>18, <1>19, <1>20, <1>21, <1>22, <1>23, <1>24,
     <1>25, <1>26, <1>27, <1>28, <1>29, <1>30, <1>31
  DEF Next, Startup, Restore, Update

\* What a restore has replaced is in a copy after every step.
LEMMA RollbackStep ==
    ASSUME TypesOK, RollbackOK, [Next]_vars
    PROVE  RollbackOK'
<1> USE NoneIsNone
        DEF RollbackOK, Goto, disk, memory, bounds, Opening, Restoring, Updating, Open, Points
<1>1. CASE Launch
  BY <1>1 DEF Launch
<1>2. CASE OpenDatabase
  BY <1>2 DEF OpenDatabase
<1>3. CASE BackUpDatabase
  BY <1>3 DEF BackUpDatabase
<1>4. CASE BeginMigration
  BY <1>4 DEF BeginMigration
<1>5. CASE MigrationStage
  BY <1>5 DEF MigrationStage
<1>6. CASE CommitMigration
  BY <1>6 DEF CommitMigration
<1>7. CASE ImportLegacyData
  BY <1>7 DEF ImportLegacyData
<1>8. CASE CheckHealth
  BY <1>8 DEF CheckHealth
<1>9. CASE AcknowledgeHealthyStartup
  BY <1>9 DEF AcknowledgeHealthyStartup
<1>10. CASE ForgetMarker
  BY <1>10 DEF ForgetMarker
<1>11. CASE HandleStartupFailure
  BY <1>11 DEF HandleStartupFailure
<1>12. CASE StageRestore
  BY <1>12 DEF StageRestore
<1>13. CASE KeepDatabase
  BY <1>13 DEF KeepDatabase
<1>14. ASSUME NEW f \in Files, RestoreFile(f)
      PROVE  RollbackOK'
  BY <1>14 DEF RestoreFile
<1>15. CASE RemoveDatabase
  BY <1>15 DEF RemoveDatabase
<1>16. CASE RenameRestored
  BY <1>16 DEF RenameRestored
<1>17. CASE SettleRestore
  BY <1>17 DEF SettleRestore
<1>18. ASSUME NEW t \in Versions, SaveBeforeUpdate(t)
      PROVE  RollbackOK'
  BY <1>18 DEF SaveBeforeUpdate
<1>19. CASE WriteMarker
  BY <1>19 DEF WriteMarker
<1>20. CASE RetainExecutable
  BY <1>20 DEF RetainExecutable
<1>21. CASE ReplaceExecutable
  BY <1>21 DEF ReplaceExecutable
<1>22. CASE Restart
  BY <1>22 DEF Restart
<1>23. ASSUME NEW r \in Records, Work(r)
      PROVE  RollbackOK'
  BY <1>23 DEF Work
<1>24. CASE CreateBackup
  BY <1>24 DEF CreateBackup
<1>25. CASE StepFails
  BY <1>25 DEF StepFails
<1>26. CASE Crash
  BY <1>26 DEF Crash
<1>27. CASE Quit
  BY <1>27 DEF Quit
<1>28. CASE StartWorker
  BY <1>28 DEF StartWorker
<1>29. CASE EndWorker
  BY <1>29 DEF EndWorker
<1>30. CASE UpdateIsBlocked
  BY <1>30 DEF UpdateIsBlocked
<1>31. CASE UNCHANGED vars
  BY <1>31 DEF vars
<1> HIDE DEF RollbackOK, Goto, disk, memory, bounds, Opening, Restoring, Updating, Open, Points
<1>32. QED
  BY <1>1, <1>2, <1>3, <1>4, <1>5, <1>6, <1>7, <1>8, <1>9, <1>10, <1>11, <1>12, <1>13,
     <1>14, <1>15, <1>16, <1>17, <1>18, <1>19, <1>20, <1>21, <1>22, <1>23, <1>24,
     <1>25, <1>26, <1>27, <1>28, <1>29, <1>30, <1>31
  DEF Next, Startup, Restore, Update

-----------------------------------------------------------------------------
(* The theorems.                                                           *)

LEMMA RecoveryInit == Init => RecoveryInv
<1> SUFFICES ASSUME Init PROVE RecoveryInv
  OBVIOUS
<1>1. db \in Database \cup {None} /\ (db # None => db.records \subseteq Records)
  BY RecoveryAssumption DEF Init, Database
<1>2. archive \in Contents \cup {None} /\ (archive # None => archive.db # None)
  BY RecoveryAssumption, NoneIsNone DEF Init, Contents
<1>3. files \in [Files -> Records]
  BY RecoveryAssumption DEF Init, Records
<1>4. stage \in 0 .. Schema
  BY SchemaIsBounded DEF Init
<1>5. app \in [Paths -> Versions \cup {0}] /\ place \in Paths /\ app[0] = version
  BY RecoveryAssumption DEF Init, Paths
<1>6. TypesOK
  BY <1>1, <1>2, <1>3, <1>4, <1>5 DEF Init, TypesOK, Points
<1>7. PlaceOK
  BY <1>4 DEF Init, PlaceOK, Updating, Staged, Present
<1>8. StateOK /\ WorkerOK /\ UpdateOK
  BY DEF Init, StateOK, WorkerOK, UpdateOK, Migrating, Open, Restoring, Updating
<1>9. CommittedIsKept /\ NeverHalfMigrated /\ UnprovenHasAWayBack /\ RollbackOK
  BY <1>5 DEF Init, CommittedIsKept, RecordsKept, NeverHalfMigrated, UnprovenHasAWayBack, RollbackOK
<1>10. QED
  BY <1>6, <1>7, <1>8, <1>9 DEF RecoveryInv

\* Every step keeps the invariant.
LEMMA RecoveryStep == RecoveryInv /\ [Next]_vars => RecoveryInv'
BY TypesStep, PlaceStep, StateStep, WorkerStep, UpdateStep, CommittedStep, HalfStep,
   WayBackStep, RollbackStep DEF RecoveryInv

\* The invariant holds of every behaviour.
LEMMA RecoveryCorrect == Spec => []RecoveryInv
BY RecoveryInit, RecoveryStep, PTL DEF Spec

\* The installation and the process keep their types, and an update is at hand
\* exactly while one is being installed.
THEOREM TypeCorrect == Spec => []TypeOK
<1>1. RecoveryInv => TypeOK
  <2> SUFFICES ASSUME RecoveryInv PROVE TypeOK
    OBVIOUS
  <2>1. archive # None => archive.db \in Database /\ archive.files \in [Files -> Records]
    BY DEF RecoveryInv, TypesOK, Contents
  <2>2. marker # None => marker.op \in 1 .. MaxUpdates /\ marker.target > marker.old
    BY DEF RecoveryInv, TypesOK, Updates
  <2>3. (pc \in {"rollback", "files", "removed"} \/ stage > 0) => work # None
    BY DEF RecoveryInv, PlaceOK, Staged
  <2>4. QED
    BY <2>1, <2>2, <2>3 DEF RecoveryInv, TypesOK, PlaceOK, TypeOK
<1>2. QED
  BY <1>1, RecoveryCorrect, PTL

\* A record that was ever committed is in the live database or in a copy,
\* through updates, migrations, restores, failures and crashes and beside
\* workers, unless a worker committed it while a restore was past its copy.
THEOREM CommittedKept == Spec => []CommittedIsKept
<1>1. RecoveryInv => CommittedIsKept
  BY DEF RecoveryInv
<1>2. QED
  BY <1>1, RecoveryCorrect, PTL

\* The live database has all of a migration or nothing of it, and the window
\* opens only on one that has every object of the version that runs.
THEOREM Wholeness == Spec => []DatabaseIsWhole
<1>1. RecoveryInv => DatabaseIsWhole
  <2> SUFFICES ASSUME RecoveryInv PROVE NeverHalfMigrated /\ OpenMeansCurrent
    BY DEF DatabaseIsWhole
  <2>1. pc \in Open /\ db # None => Whole(db)
    BY DEF RecoveryInv, StateOK
  <2>2. QED
    BY <2>1 DEF RecoveryInv, OpenMeansCurrent, Current, Whole
<1>2. QED
  BY <1>1, RecoveryCorrect, PTL

\* As long as every update is installed by the executable at the path of the
\* AppImage, which nothing has replaced meanwhile, a version that has not yet
\* come to a sound database can be replaced by the one before it, which can open
\* the copy made for it.
THEOREM WayBack == Spec => []UnprovenHasAWayBack
<1>1. RecoveryInv => UnprovenHasAWayBack
  BY DEF RecoveryInv
<1>2. QED
  BY <1>1, RecoveryCorrect, PTL

\* What a restore replaced can be given back, however far the restore came.
THEOREM RollbackComplete == Spec => []RollbackIsComplete
<1>1. RecoveryInv => RollbackIsComplete
  BY DEF RecoveryInv, RollbackOK, RollbackIsComplete
<1>2. QED
  BY <1>1, RecoveryCorrect, PTL

-----------------------------------------------------------------------------
(* What a step may not do to a database.                                   *)

\* A startup that changes the schema of a database finds a copy of it, unless
\* the database was empty.
THEOREM CopiedFirst == Spec => MigratedAfterBackup
<1>1. RecoveryInv /\ [Next]_vars =>
          [(pc \in Opening /\ db # None /\ db' # None
            /\ <<db.schema, db.objects>> # <<db'.schema, db'.objects>>)
           => db = Empty \/ db \in copies]_vars
  <2> SUFFICES ASSUME RecoveryInv, [Next]_vars, pc \in Opening, db # None, db' # None,
                      <<db.schema, db.objects>> # <<db'.schema, db'.objects>>
               PROVE  db = Empty \/ db \in copies
    OBVIOUS
  <2>1. CASE CommitMigration
    BY <2>1 DEF CommitMigration, RecoveryInv, StateOK
  <2>2. CASE ImportLegacyData
    BY <2>2, ImportEffect DEF RecoveryInv
  <2>3. CASE OpenDatabase
    BY <2>3 DEF OpenDatabase
  <2>4. CASE RemoveDatabase \/ RenameRestored
    BY <2>4 DEF RemoveDatabase, RenameRestored, Opening
  <2>5. ASSUME NEW r \in Records, Work(r)
        PROVE  db = Empty
    <3>1. worker # "none"
      BY <2>5 DEF Work, Opening, Updating
    <3>2. db = Empty \/ Whole(db)
      BY <3>1 DEF RecoveryInv, WorkerOK
    <3>3. Whole(db) => db'.schema = db.schema /\ db'.objects = db.objects
      BY <2>5, WorkEffect DEF RecoveryInv
    <3>4. QED
      BY <3>2, <3>3
  <2>6. QED
    BY <2>1, <2>2, <2>3, <2>4, <2>5, DatabaseEffect
<1>2. QED
  BY <1>1, RecoveryCorrect, PTL DEF Spec, MigratedAfterBackup

\* An older version that is started again does not write to the database that a
\* newer one has migrated.
THEOREM NewerUntouched == Spec => NewerIsUntouched
<1>1. RecoveryInv /\ [Next]_vars => [(db # None /\ db.schema > Schema) => db' = db]_vars
  <2> SUFFICES ASSUME RecoveryInv, [Next]_vars, db # None, db.schema > Schema
               PROVE  db' = db
    OBVIOUS
  <2>1. db.schema \in Nat /\ Schema \in Nat
    BY RecoveryAssumption DEF RecoveryInv, TypesOK, Database, Schema
  <2>2. ~ Whole(db) /\ ~ (db.schema <= Schema)
    BY <2>1 DEF Whole
  <2>3. pc \notin Migrating \cup Open
    BY <2>2 DEF RecoveryInv, StateOK
  <2>4. ~ CommitMigration
    BY <2>2 DEF CommitMigration, RecoveryInv, StateOK
  <2>5. ~ (ImportLegacyData \/ RemoveDatabase \/ RenameRestored)
    BY <2>3 DEF ImportLegacyData, RemoveDatabase, RenameRestored, Migrating, Open,
                Restoring, Updating
  <2>6. \A r \in Records : ~ Work(r)
    BY <2>2 DEF Work
  <2>7. OpenDatabase => db' = db
    BY DEF OpenDatabase
  <2>8. QED
    BY <2>4, <2>5, <2>6, <2>7, DatabaseEffect
<1>2. QED
  BY <1>1, RecoveryCorrect, PTL DEF Spec, NewerIsUntouched
=============================================================================
