------------------------ MODULE PrivacyDeletionProofs ------------------------
(***************************************************************************)
(* Proofs about PrivacyDeletion, for any claims, files and operations:     *)
(* tombstones hold whatever fails; no named file is lost unless putting a  *)
(* file back fails; and the deletion is atomic, that is, it implements     *)
(* DeletionPromise, if also BEGIN IMMEDIATE does not throw and no worker   *)
(* outlives its app.  Without any one of these conditions TLC refutes the  *)
(* property on the instance that checks it.  FilesFollow says what remains *)
(* of them without any condition.                                          *)
(*                                                                         *)
(* In a lemma about the steps, USE names the definitions that every case   *)
(* needs; a case adds its action.                                          *)
(***************************************************************************)
EXTENDS PrivacyDeletion, TLAPS

-----------------------------------------------------------------------------
(* Invariants.                                                             *)

\* Where the operation is not committed, and where it is.
Open   == {"selected", "created", "staging", "unstaging", "deleting", "restoring",
           "discarding", "recovering", "settled"}
Closed == {"finishing", "finalizing", "receipt"}

\* Where the manifest of the operation is written.
WithManifest == {"staging", "unstaging", "deleting", "restoring"}

\* What the main process does agrees with the audit rows and the disk.
ControlOK ==
    /\ pc \in Open => op \notin audit
    /\ pc \in Closed => op \in audit
    /\ pc \in {"selected", "created"} =>
           staging[op] # "manifest" /\ left \subseteq FilesOf(scope)
    /\ pc \in WithManifest =>
           /\ staging[op] = "manifest"
           /\ left \subseteq entries[op]
           /\ entries[op] \subseteq FilesOf(scope)
    /\ pc = "recovering" => staging[op] = "manifest"

\* The manifest of an uncommitted operation lists what it has staged, and no
\* row names what a committed one has staged.
StagedOK ==
    \A f \in Files :
        /\ place[f] \in Operations \ audit =>
               staging[place[f]] = "manifest" /\ f \in entries[place[f]]
        /\ place[f] \in audit => f \notin named

\* A loop that puts files back reaches all of them before the directory goes.
PutBackOK ==
    /\ pc \in {"restoring", "recovering"} => \A f \in Files : place[f] = op => f \in left
    /\ pc \in {"discarding", "settled"} => \A f \in Files : place[f] # op

Known(f) == f \in named \cup left \cup erased \/ \E o \in Operations : f \in entries[o]

\* No deletion has seen a file before it is named.
FreshOK ==
    /\ \A f \in Files : place[f] = "unused" => ~ Known(f) /\ f \notin saved
    /\ \A f \in saved : place[f] = "home" /\ ~ Known(f)

KeptInv ==
    /\ TypeOK /\ ControlOK /\ StagedOK /\ PutBackOK /\ FreshOK /\ NamedFilesAreKept

\* A claim that may have been filed has a settled record or a tombstone.
FiledOK ==
    \A c \in filed : records[c] \in Tombstoned \/ (records[c] = "none" /\ c \in tombstones)

Startup == {"down", "starting", "recovering", "settled", "finalizing"}

\* Without orphans a worker runs only while the main process is idle.
AloneOK ==
    /\ orphan = FALSE
    /\ worker # None => pc = "idle" /\ records[worker] = "in_progress"
    /\ \A f \in saved : Owner[f] = worker

\* The loops find the files where they expect them.
LoopOK ==
    /\ pc \in {"selected", "created", "staging"} => \A f \in left : place[f] = "home"
    /\ pc = "recovering" => \A f \in left : place[f] = op
    /\ pc = "unstaging" => \A f \in Files : place[f] = op => f \in left

\* Outside a startup, only the current operation has staged files of its own.
CurrentOK ==
    pc \notin Startup =>
        \A f \in Files : place[f] \in Operations \ audit => pc \in WithManifest /\ place[f] = op

\* A deletion stages every file that the rows it deletes name, and no other.
SelectedOK ==
    /\ pc \in {"selected", "created"} => left \subseteq named
    /\ pc \in WithManifest => entries[op] \subseteq named
    /\ pc \in {"selected", "created", "staging", "deleting"} =>
           \A f \in named \cap FilesOf(scope) : place[f] = "home" => f \in left
    /\ pc = "deleting" => left = {}

AtomicInv == KeptInv /\ AloneOK /\ LoopOK /\ CurrentOK /\ SelectedOK

-----------------------------------------------------------------------------
(* Types.                                                                  *)

LEMMA TypeInit == Init => TypeOK
<1> SUFFICES ASSUME Init PROVE TypeOK
  OBVIOUS
<1>1. /\ records \in [Claims -> Statuses]
      /\ place \in [Files -> {"unused", "home", "gone"} \cup Operations]
      /\ staging \in [Operations -> {"absent", "directory", "manifest"}]
      /\ receipt \in [Operations -> {"none", "success", "failure"}]
  BY DEF Init, Statuses
<1>2. entries \in [Operations -> SUBSET Files]
  BY DEF Init
<1>3. /\ pc \in Locations /\ pc = "idle" /\ op = None
      /\ stale \in BOOLEAN /\ orphan \in BOOLEAN
      /\ worker \in Claims \cup {None}
  BY DEF Init, Locations
<1>4. /\ tombstones \subseteq Claims /\ scope \subseteq Claims /\ filed \subseteq Claims
      /\ audit \subseteq Operations
      /\ named \subseteq Files /\ left \subseteq Files
      /\ saved \subseteq Files /\ erased \subseteq Files
  BY DEF Init
<1>5. QED
  BY <1>1, <1>2, <1>3, <1>4 DEF TypeOK

\* Every step keeps the types.
LEMMA TypeStep ==
    ASSUME TypeOK, [Next]_vars
    PROVE  TypeOK'
<1> USE OwnerAssumption, NoneAssumption, OrphansAssumption
        DEF TypeOK, dbVars, diskVars, workerVars, Goto, Leave, Locations, Removing,
            Statuses, FilesOf, Interrupted, RemovalEnds
<1>1. ASSUME NEW o \in Operations, NEW S \in SUBSET Claims \ {{}}, DeleteData(o, S)
      PROVE  TypeOK'
  BY <1>1 DEF DeleteData
<1>2. CASE StageDirectory
  BY <1>2 DEF StageDirectory
<1>3. CASE WriteManifest
  BY <1>3 DEF WriteManifest
<1>4. CASE StagingThrows
  BY <1>4 DEF StagingThrows
<1>5. ASSUME NEW f \in Files, StageFile(f)
      PROVE  TypeOK'
  BY <1>5 DEF StageFile
<1>6. ASSUME NEW f \in Files, PutBack(f)
      PROVE  TypeOK'
  BY <1>6 DEF PutBack
<1>7. CASE StageFileThrows
  BY <1>7 DEF StageFileThrows
<1>8. CASE PutBackEnds
  BY <1>8 DEF PutBackEnds
<1>9. CASE BeginImmediate
  BY <1>9 DEF BeginImmediate
<1>10. CASE BeginThrows
  BY <1>10 DEF BeginThrows
<1>11. CASE Commit
  BY <1>11 DEF Commit
<1>12. CASE DeletionThrows
  BY <1>12 DEF DeletionThrows
<1>13. CASE WriteReceipt
  BY <1>13 DEF WriteReceipt
<1>14. CASE ReceiptThrows
  BY <1>14 DEF ReceiptThrows
<1>15. CASE WriteFailureReceipt
  BY <1>15 DEF WriteFailureReceipt
<1>16. ASSUME NEW f \in Files, RemoveFile(f)
      PROVE  TypeOK'
  BY <1>16 DEF RemoveFile
<1>17. CASE RemoveManifest
  BY <1>17 DEF RemoveManifest
<1>18. CASE RemoveDirectory
  BY <1>18 DEF RemoveDirectory
<1>19. CASE RemoveThrows
  BY <1>19 DEF RemoveThrows
<1>20. CASE Start
  BY <1>20 DEF Start
<1>21. ASSUME NEW o \in Operations, RecoverTransaction(o)
      PROVE  TypeOK'
  BY <1>21 DEF RecoverTransaction
<1>22. ASSUME NEW o \in Operations, ManifestMissing(o)
      PROVE  TypeOK'
  BY <1>22 DEF ManifestMissing
<1>23. ASSUME NEW f \in Files, RecoverFile(f)
      PROVE  TypeOK'
  BY <1>23 DEF RecoverFile
<1>24. CASE RecoverThrows
  BY <1>24 DEF RecoverThrows
<1>25. CASE RecoverEnds
  BY <1>25 DEF RecoverEnds
<1>26. CASE Started
  BY <1>26 DEF Started
<1>27. ASSUME NEW c \in Claims, BeginClaimAttempt(c)
      PROVE  TypeOK'
  BY <1>27 DEF BeginClaimAttempt
<1>28. ASSUME NEW f \in Files, SaveEvidence(f)
      PROVE  TypeOK'
  BY <1>28 DEF SaveEvidence
<1>29. ASSUME NEW s \in {"submitted", "failed", "unknown"}, CompleteClaimAttempt(s)
      PROVE  TypeOK'
  <2>1. worker \in Claims /\ UNCHANGED <<tombstones, audit, diskVars, pc, op, scope, left, erased>>
    BY <1>29 DEF CompleteClaimAttempt
  <2>2. records' \in [Claims -> Statuses] /\ stale' \in BOOLEAN
    <3>1. CASE records[worker] = "none"
      BY <1>29, <3>1 DEF CompleteClaimAttempt
    <3>2. CASE records[worker] # "none"
      <4>1. records' = [records EXCEPT ![worker] = s]
        BY <1>29, <3>2 DEF CompleteClaimAttempt
      <4>2. stale' = (stale \/ (op # None /\ worker \notin scope))
        BY <1>29, <3>2 DEF CompleteClaimAttempt
      <4>3. QED
        BY <4>1, <4>2
    <3>3. QED
      BY <3>1, <3>2
  <2>3. worker' = None /\ saved' = {} /\ orphan' = FALSE
    BY <1>29 DEF CompleteClaimAttempt
  <2>4. named' \subseteq Files /\ filed' \subseteq Claims
    BY <1>29 DEF CompleteClaimAttempt
  <2>5. QED
    BY <2>1, <2>2, <2>3, <2>4
<1>30. CASE WorkerDies
  BY <1>30 DEF WorkerDies
<1>31. CASE Crash
  BY <1>31 DEF Crash
<1>32. CASE UNCHANGED vars
  BY <1>32 DEF vars
<1> HIDE DEF TypeOK, dbVars, diskVars, workerVars, Goto, Leave, Locations, Removing,
             Statuses, FilesOf, Interrupted, RemovalEnds
<1>33. QED
  BY <1>1, <1>2, <1>3, <1>4, <1>5, <1>6, <1>7, <1>8, <1>9, <1>10, <1>11, <1>12,
     <1>13, <1>14, <1>15, <1>16, <1>17, <1>18, <1>19, <1>20, <1>21, <1>22, <1>23,
     <1>24, <1>25, <1>26, <1>27, <1>28, <1>29, <1>30, <1>31, <1>32
  DEF Next, DeletionStep, RemovalStep, StartupStep, WorkerStep

\* Every variable keeps its type, and the main process has an operation
\* exactly while it deletes or recovers.
THEOREM TypeCorrect == Spec => []TypeOK
<1>1. Init => TypeOK
  BY TypeInit
<1>2. TypeOK /\ [Next]_vars => TypeOK'
  BY TypeStep
<1>3. QED
  BY <1>1, <1>2, PTL DEF Spec

-----------------------------------------------------------------------------
(* Tombstones.                                                             *)

LEMMA FiledStep ==
    ASSUME TypeOK, FiledOK, [Next]_vars
    PROVE  /\ FiledOK'
           /\ \A c \in filed : records[c] = "none" => records'[c] = "none"
<1> DEFINE Refused == \A c \in filed : records[c] = "none" => records'[c] = "none"
<1> USE NoneAssumption
        DEF FiledOK, TypeOK, Statuses, Tombstoned, Interrupted, dbVars, diskVars,
            workerVars, Goto, Leave, RemovalEnds
<1>1. ASSUME NEW o \in Operations, NEW S \in SUBSET Claims \ {{}}, DeleteData(o, S)
      PROVE  FiledOK' /\ Refused
  BY <1>1 DEF DeleteData
<1>2. CASE StageDirectory
  BY <1>2 DEF StageDirectory
<1>3. CASE WriteManifest
  BY <1>3 DEF WriteManifest
<1>4. CASE StagingThrows
  BY <1>4 DEF StagingThrows
<1>5. ASSUME NEW f \in Files, StageFile(f)
      PROVE  FiledOK' /\ Refused
  BY <1>5 DEF StageFile
<1>6. ASSUME NEW f \in Files, PutBack(f)
      PROVE  FiledOK' /\ Refused
  BY <1>6 DEF PutBack
<1>7. CASE StageFileThrows
  BY <1>7 DEF StageFileThrows
<1>8. CASE PutBackEnds
  BY <1>8 DEF PutBackEnds
<1>9. CASE BeginImmediate
  BY <1>9 DEF BeginImmediate
<1>10. CASE BeginThrows
  BY <1>10 DEF BeginThrows
<1>11. CASE Commit
  BY <1>11 DEF Commit
<1>12. CASE DeletionThrows
  BY <1>12 DEF DeletionThrows
<1>13. CASE WriteReceipt
  BY <1>13 DEF WriteReceipt
<1>14. CASE ReceiptThrows
  BY <1>14 DEF ReceiptThrows
<1>15. CASE WriteFailureReceipt
  BY <1>15 DEF WriteFailureReceipt
<1>16. ASSUME NEW f \in Files, RemoveFile(f)
      PROVE  FiledOK' /\ Refused
  BY <1>16 DEF RemoveFile
<1>17. CASE RemoveManifest
  BY <1>17 DEF RemoveManifest
<1>18. CASE RemoveDirectory
  BY <1>18 DEF RemoveDirectory
<1>19. CASE RemoveThrows
  BY <1>19 DEF RemoveThrows
<1>20. CASE Start
  BY <1>20 DEF Start
<1>21. ASSUME NEW o \in Operations, RecoverTransaction(o)
      PROVE  FiledOK' /\ Refused
  BY <1>21 DEF RecoverTransaction
<1>22. ASSUME NEW o \in Operations, ManifestMissing(o)
      PROVE  FiledOK' /\ Refused
  BY <1>22 DEF ManifestMissing
<1>23. ASSUME NEW f \in Files, RecoverFile(f)
      PROVE  FiledOK' /\ Refused
  BY <1>23 DEF RecoverFile
<1>24. CASE RecoverThrows
  BY <1>24 DEF RecoverThrows
<1>25. CASE RecoverEnds
  BY <1>25 DEF RecoverEnds
<1>26. CASE Started
  BY <1>26 DEF Started
<1>27. ASSUME NEW c \in Claims, BeginClaimAttempt(c)
      PROVE  FiledOK' /\ Refused
  BY <1>27 DEF BeginClaimAttempt
<1>28. ASSUME NEW f \in Files, SaveEvidence(f)
      PROVE  FiledOK' /\ Refused
  BY <1>28 DEF SaveEvidence
<1>29. ASSUME NEW s \in {"submitted", "failed", "unknown"}, CompleteClaimAttempt(s)
      PROVE  FiledOK' /\ Refused
  BY <1>29 DEF CompleteClaimAttempt
<1>30. CASE WorkerDies
  BY <1>30 DEF WorkerDies
<1>31. CASE Crash
  BY <1>31 DEF Crash
<1>32. CASE UNCHANGED vars
  BY <1>32 DEF vars
<1> HIDE DEF FiledOK, TypeOK, Statuses, Tombstoned, Interrupted, dbVars, diskVars,
             workerVars, Goto, Leave, RemovalEnds
<1>33. QED
  BY <1>1, <1>2, <1>3, <1>4, <1>5, <1>6, <1>7, <1>8, <1>9, <1>10, <1>11, <1>12,
     <1>13, <1>14, <1>15, <1>16, <1>17, <1>18, <1>19, <1>20, <1>21, <1>22, <1>23,
     <1>24, <1>25, <1>26, <1>27, <1>28, <1>29, <1>30, <1>31, <1>32
  DEF Next, DeletionStep, RemovalStep, StartupStep, WorkerStep

\* A claim that may have been filed is not tried again after its records are
\* deleted, whatever fails and whichever worker is still running.
THEOREM NoResubmission == Spec => NoResubmissionAfterDeletion
<1>1. Init => FiledOK
  BY DEF Init, FiledOK
<1>2. TypeOK /\ FiledOK /\ [Next]_vars => FiledOK'
  BY FiledStep
<1>3. TypeOK /\ FiledOK /\ [Next]_vars =>
          [\A c \in filed : records[c] = "none" => records'[c] = "none"]_vars
  BY FiledStep
<1>4. QED
  BY <1>1, <1>2, <1>3, TypeCorrect, PTL DEF Spec, NoResubmissionAfterDeletion

-----------------------------------------------------------------------------
(* No named file is lost.                                                  *)

LEMMA KeptInit == Init => KeptInv
<1> SUFFICES ASSUME Init PROVE KeptInv
  OBVIOUS
<1>1. TypeOK
  BY TypeInit
<1>2. ControlOK
  BY DEF Init, ControlOK, Open, Closed, WithManifest
<1>3. StagedOK
  BY OperationsAssumption DEF Init, StagedOK
<1>4. PutBackOK
  BY DEF Init, PutBackOK
<1>5. FreshOK
  BY DEF Init, FreshOK, Known
<1>6. NamedFilesAreKept
  BY DEF Init, NamedFilesAreKept
<1>7. QED
  BY <1>1, <1>2, <1>3, <1>4, <1>5, <1>6 DEF KeptInv

\* Without restores from old backups, every step keeps the invariant on the named files.
LEMMA KeptStep ==
    ASSUME KeptInv, "restore" \notin Faults, [Next]_vars
    PROVE  KeptInv'
<1> USE OwnerAssumption, NoneAssumption, OperationsAssumption
        DEF KeptInv, ControlOK, StagedOK, PutBackOK, FreshOK, Known,
            NamedFilesAreKept, Open, Closed, WithManifest, TypeOK, Removing,
            FilesOf, dbVars, diskVars, workerVars, Goto, Leave, RemovalEnds
<1>0. TypeOK'
  BY TypeStep
<1>1. ASSUME NEW o \in Operations, NEW S \in SUBSET Claims \ {{}}, DeleteData(o, S)
      PROVE  KeptInv'
  BY <1>1, <1>0 DEF DeleteData
<1>2. CASE StageDirectory
  BY <1>2, <1>0 DEF StageDirectory
<1>3. CASE WriteManifest
  BY <1>3, <1>0 DEF WriteManifest
<1>4. CASE StagingThrows
  BY <1>4, <1>0 DEF StagingThrows
<1>5. ASSUME NEW f \in Files, StageFile(f)
      PROVE  KeptInv'
  BY <1>5, <1>0 DEF StageFile
<1>6. ASSUME NEW f \in Files, PutBack(f)
      PROVE  KeptInv'
  BY <1>6, <1>0 DEF PutBack
<1>7. CASE StageFileThrows
  BY <1>7, <1>0 DEF StageFileThrows
<1>8. CASE PutBackEnds
  BY <1>8, <1>0 DEF PutBackEnds
<1>9. CASE BeginImmediate
  BY <1>9, <1>0 DEF BeginImmediate
<1>10. CASE BeginThrows
  BY <1>10, <1>0 DEF BeginThrows
<1>11. CASE Commit
  BY <1>11, <1>0 DEF Commit
<1>12. CASE DeletionThrows
  BY <1>12, <1>0 DEF DeletionThrows
<1>13. CASE WriteReceipt
  BY <1>13, <1>0 DEF WriteReceipt
<1>14. CASE ReceiptThrows
  BY <1>14, <1>0 DEF ReceiptThrows
<1>15. CASE WriteFailureReceipt
  BY <1>15, <1>0 DEF WriteFailureReceipt
<1>16. ASSUME NEW f \in Files, RemoveFile(f)
      PROVE  KeptInv'
  BY <1>16, <1>0 DEF RemoveFile
<1>17. CASE RemoveManifest
  BY <1>17, <1>0 DEF RemoveManifest
<1>18. CASE RemoveDirectory
  BY <1>18, <1>0 DEF RemoveDirectory
<1>19. CASE RemoveThrows
  BY <1>19, <1>0 DEF RemoveThrows
<1>20. CASE Start
  BY <1>20, <1>0 DEF Start
<1>21. ASSUME NEW o \in Operations, RecoverTransaction(o)
      PROVE  KeptInv'
  BY <1>21, <1>0 DEF RecoverTransaction
<1>22. ASSUME NEW o \in Operations, ManifestMissing(o)
      PROVE  KeptInv'
  BY <1>22, <1>0 DEF ManifestMissing
<1>23. ASSUME NEW f \in Files, RecoverFile(f)
      PROVE  KeptInv'
  BY <1>23, <1>0 DEF RecoverFile
<1>24. CASE RecoverThrows
  BY <1>24, <1>0 DEF RecoverThrows
<1>25. CASE RecoverEnds
  BY <1>25, <1>0 DEF RecoverEnds
<1>26. CASE Started
  BY <1>26, <1>0 DEF Started
<1>27. ASSUME NEW c \in Claims, BeginClaimAttempt(c)
      PROVE  KeptInv'
  BY <1>27, <1>0 DEF BeginClaimAttempt
<1>28. ASSUME NEW f \in Files, SaveEvidence(f)
      PROVE  KeptInv'
  BY <1>28, <1>0 DEF SaveEvidence
<1>29. ASSUME NEW s \in {"submitted", "failed", "unknown"}, CompleteClaimAttempt(s)
      PROVE  KeptInv'
  BY <1>29, <1>0 DEF CompleteClaimAttempt
<1>30. CASE WorkerDies
  BY <1>30, <1>0 DEF WorkerDies
<1>31. CASE Crash
  BY <1>31, <1>0 DEF Crash
<1>32. CASE UNCHANGED vars
  BY <1>32, <1>0 DEF vars
<1> HIDE DEF KeptInv, ControlOK, StagedOK, PutBackOK, FreshOK, Known, NamedFilesAreKept,
             Open, Closed, WithManifest, TypeOK, Removing, FilesOf, dbVars, diskVars,
             workerVars, Goto, Leave, RemovalEnds
<1>33. QED
  BY <1>1, <1>2, <1>3, <1>4, <1>5, <1>6, <1>7, <1>8, <1>9, <1>10, <1>11, <1>12,
     <1>13, <1>14, <1>15, <1>16, <1>17, <1>18, <1>19, <1>20, <1>21, <1>22, <1>23,
     <1>24, <1>25, <1>26, <1>27, <1>28, <1>29, <1>30, <1>31, <1>32
  DEF Next, DeletionStep, RemovalStep, StartupStep, WorkerStep

\* If putting a file back does not fail, no file that a row names is ever lost:
\* not by a rollback, a crash, a recovery, or a deletion tried again.
THEOREM NamedFilesKept ==
    ASSUME "restore" \notin Faults
    PROVE  Spec => []NamedFilesAreKept
<1>1. Init => KeptInv
  BY KeptInit
<1>2. KeptInv /\ [Next]_vars => KeptInv'
  BY KeptStep
<1>3. KeptInv => NamedFilesAreKept
  BY DEF KeptInv
<1>4. QED
  BY <1>1, <1>2, <1>3, PTL DEF Spec

-----------------------------------------------------------------------------
(* The deletion is atomic.                                                 *)

LEMMA AtomicStep ==
    ASSUME AtomicInv, "restore" \notin Faults, "begin" \notin Faults, ~ Orphans, [Next]_vars
    PROVE  AtomicInv'
<1> USE OwnerAssumption, NoneAssumption, OperationsAssumption
        DEF AtomicInv, AloneOK, LoopOK, CurrentOK, SelectedOK, Startup, Interrupted,
            KeptInv, ControlOK, StagedOK, PutBackOK, FreshOK, Known,
            NamedFilesAreKept, Open, Closed, WithManifest, TypeOK, Removing,
            FilesOf, dbVars, diskVars, workerVars, Goto, Leave, RemovalEnds
<1>0. KeptInv'
  BY KeptStep
<1>1. ASSUME NEW o \in Operations, NEW S \in SUBSET Claims \ {{}}, DeleteData(o, S)
      PROVE  AtomicInv'
  BY <1>1, <1>0 DEF DeleteData
<1>2. CASE StageDirectory
  BY <1>2, <1>0 DEF StageDirectory
<1>3. CASE WriteManifest
  BY <1>3, <1>0 DEF WriteManifest
<1>4. CASE StagingThrows
  BY <1>4, <1>0 DEF StagingThrows
<1>5. ASSUME NEW f \in Files, StageFile(f)
      PROVE  AtomicInv'
  BY <1>5, <1>0 DEF StageFile
<1>6. ASSUME NEW f \in Files, PutBack(f)
      PROVE  AtomicInv'
  BY <1>6, <1>0 DEF PutBack
<1>7. CASE StageFileThrows
  BY <1>7, <1>0 DEF StageFileThrows
<1>8. CASE PutBackEnds
  BY <1>8, <1>0 DEF PutBackEnds
<1>9. CASE BeginImmediate
  BY <1>9, <1>0 DEF BeginImmediate
<1>10. CASE BeginThrows
  BY <1>10, <1>0 DEF BeginThrows
<1>11. CASE Commit
  BY <1>11, <1>0 DEF Commit
<1>12. CASE DeletionThrows
  BY <1>12, <1>0 DEF DeletionThrows
<1>13. CASE WriteReceipt
  BY <1>13, <1>0 DEF WriteReceipt
<1>14. CASE ReceiptThrows
  BY <1>14, <1>0 DEF ReceiptThrows
<1>15. CASE WriteFailureReceipt
  BY <1>15, <1>0 DEF WriteFailureReceipt
<1>16. ASSUME NEW f \in Files, RemoveFile(f)
      PROVE  AtomicInv'
  BY <1>16, <1>0 DEF RemoveFile
<1>17. CASE RemoveManifest
  BY <1>17, <1>0 DEF RemoveManifest
<1>18. CASE RemoveDirectory
  BY <1>18, <1>0 DEF RemoveDirectory
<1>19. CASE RemoveThrows
  BY <1>19, <1>0 DEF RemoveThrows
<1>20. CASE Start
  BY <1>20, <1>0 DEF Start
<1>21. ASSUME NEW o \in Operations, RecoverTransaction(o)
      PROVE  AtomicInv'
  BY <1>21, <1>0 DEF RecoverTransaction
<1>22. ASSUME NEW o \in Operations, ManifestMissing(o)
      PROVE  AtomicInv'
  BY <1>22, <1>0 DEF ManifestMissing
<1>23. ASSUME NEW f \in Files, RecoverFile(f)
      PROVE  AtomicInv'
  BY <1>23, <1>0 DEF RecoverFile
<1>24. CASE RecoverThrows
  BY <1>24, <1>0 DEF RecoverThrows
<1>25. CASE RecoverEnds
  BY <1>25, <1>0 DEF RecoverEnds
<1>26. CASE Started
  BY <1>26, <1>0 DEF Started
<1>27. ASSUME NEW c \in Claims, BeginClaimAttempt(c)
      PROVE  AtomicInv'
  BY <1>27, <1>0 DEF BeginClaimAttempt
<1>28. ASSUME NEW f \in Files, SaveEvidence(f)
      PROVE  AtomicInv'
  BY <1>28, <1>0 DEF SaveEvidence
<1>29. ASSUME NEW s \in {"submitted", "failed", "unknown"}, CompleteClaimAttempt(s)
      PROVE  AtomicInv'
  BY <1>29, <1>0 DEF CompleteClaimAttempt
<1>30. CASE WorkerDies
  BY <1>30, <1>0 DEF WorkerDies
<1>31. CASE Crash
  BY <1>31, <1>0 DEF Crash
<1>32. CASE UNCHANGED vars
  BY <1>32, <1>0 DEF vars
<1> HIDE DEF AtomicInv, AloneOK, LoopOK, CurrentOK, SelectedOK, Startup, Interrupted,
             KeptInv, ControlOK, StagedOK, PutBackOK, FreshOK, Known, NamedFilesAreKept,
             Open, Closed, WithManifest, TypeOK, Removing, FilesOf, dbVars, diskVars,
             workerVars, Goto, Leave, RemovalEnds
<1>33. QED
  BY <1>1, <1>2, <1>3, <1>4, <1>5, <1>6, <1>7, <1>8, <1>9, <1>10, <1>11, <1>12,
     <1>13, <1>14, <1>15, <1>16, <1>17, <1>18, <1>19, <1>20, <1>21, <1>22, <1>23,
     <1>24, <1>25, <1>26, <1>27, <1>28, <1>29, <1>30, <1>31, <1>32
  DEF Next, DeletionStep, RemovalStep, StartupStep, WorkerStep

\* The transaction is the deletion: what it makes disappear is what is staged.
LEMMA CommitIsDelete ==
    ASSUME AtomicInv, Commit, NEW S \in SUBSET Claims, S = scope
    PROVE  Promise!Delete(S)
<1> USE OperationsAssumption DEF AtomicInv, KeptInv, Commit, Goto, diskVars
<1>1. op \in Operations \ audit
  BY DEF TypeOK, ControlOK, Open
<1>2. \A f \in Files : place[f] = op => f \in named \cap FilesOf(scope)
  BY <1>1 DEF StagedOK, ControlOK, SelectedOK, WithManifest
<1>3. \A f \in named \cap FilesOf(scope) : f \in Present => place[f] = op
  BY DEF Present, SelectedOK, CurrentOK, Startup, FilesOf
<1>4. Present' = {f \in Present : place[f] # op}
  BY <1>1 DEF Present
<1>5. Present' = Present \ (named \cap FilesOf(scope))
  BY <1>2, <1>3, <1>4 DEF Present
<1>6. QED
  BY <1>5 DEF Promise!Delete, Promise!FilesOf, Promise!Settled, Tombstoned, FilesOf

\* The marking of interrupted attempts.
LEMMA InterruptedIsInterrupt ==
    ASSUME TypeOK, records' = Interrupted, UNCHANGED <<tombstones, named, audit, place, erased>>
    PROVE  \E S \in SUBSET Claims : Promise!Interrupt(S)
<1> DEFINE S == {c \in Claims : records[c] = "in_progress"}
<1>1. records' = [c \in Claims |-> IF c \in S THEN "unknown" ELSE records[c]]
  BY DEF Interrupted
<1>2. UNCHANGED Present
  BY DEF Present
<1>3. Promise!Interrupt(S)
  BY <1>1, <1>2 DEF Promise!Interrupt
<1>4. QED
  BY <1>3

\* The row that a worker records is open, and its files exist.
LEMMA CompleteIsRecord ==
    ASSUME AtomicInv, NEW s \in {"submitted", "failed", "unknown"}, CompleteClaimAttempt(s)
    PROVE  Promise!Record(worker, s, saved)
<1> USE DEF AtomicInv, KeptInv, TypeOK
<1>1. worker \in Claims /\ records[worker] = "in_progress"
  BY DEF AloneOK, CompleteClaimAttempt
<1>2. saved \subseteq Present \cap Promise!FilesOf({worker})
  BY DEF FreshOK, AloneOK, Present, Promise!FilesOf
<1>3. UNCHANGED <<tombstones, Present, erased>>
  BY DEF CompleteClaimAttempt, diskVars, Present
<1>4. records' = [records EXCEPT ![worker] = s] /\ named' = named \cup saved
  BY <1>1 DEF CompleteClaimAttempt
<1>5. QED
  BY <1>1, <1>2, <1>3, <1>4 DEF Promise!Record

\* Every step of the deletion is a step of the promise, or none.
LEMMA PromiseStep ==
    ASSUME AtomicInv, "restore" \notin Faults, "begin" \notin Faults, ~ Orphans, [Next]_vars
    PROVE  [Promise!Next]_(Promise!vars)
<1>a. \A s \in {"submitted", "failed", "unknown"} :
          CompleteClaimAttempt(s) => Promise!Record(worker, s, saved)
  BY CompleteIsRecord
<1> USE OwnerAssumption, NoneAssumption, OperationsAssumption
        DEF AtomicInv, AloneOK, LoopOK, CurrentOK, SelectedOK, Startup, KeptInv,
            ControlOK, StagedOK, PutBackOK, FreshOK, Known, NamedFilesAreKept, Open,
            Closed, WithManifest, TypeOK, Removing, FilesOf, dbVars, diskVars,
            workerVars, Goto, Leave, RemovalEnds, Present, Promise!vars
<1>1. ASSUME NEW o \in Operations, NEW S \in SUBSET Claims \ {{}}, DeleteData(o, S)
      PROVE  [Promise!Next]_(Promise!vars)
  BY <1>1 DEF DeleteData
<1>2. CASE StageDirectory
  BY <1>2 DEF StageDirectory
<1>3. CASE WriteManifest
  BY <1>3 DEF WriteManifest
<1>4. CASE StagingThrows
  BY <1>4 DEF StagingThrows
<1>5. ASSUME NEW f \in Files, StageFile(f)
      PROVE  [Promise!Next]_(Promise!vars)
  BY <1>5 DEF StageFile
<1>6. ASSUME NEW f \in Files, PutBack(f)
      PROVE  [Promise!Next]_(Promise!vars)
  BY <1>6 DEF PutBack
<1>7. CASE StageFileThrows
  BY <1>7 DEF StageFileThrows
<1>8. CASE PutBackEnds
  BY <1>8 DEF PutBackEnds
<1>9. CASE BeginImmediate
  BY <1>9 DEF BeginImmediate
<1>10. CASE BeginThrows
  BY <1>10 DEF BeginThrows
<1>11. CASE Commit
  <2>1. PICK S \in SUBSET Claims : S = scope
    OBVIOUS
  <2>2. Promise!Delete(S)
    BY <1>11, <2>1, CommitIsDelete
  <2>3. QED
    BY <2>2 DEF Promise!Next
<1>12. CASE DeletionThrows
  BY <1>12 DEF DeletionThrows
<1>13. CASE WriteReceipt
  BY <1>13 DEF WriteReceipt
<1>14. CASE ReceiptThrows
  BY <1>14 DEF ReceiptThrows
<1>15. CASE WriteFailureReceipt
  BY <1>15 DEF WriteFailureReceipt
<1>16. ASSUME NEW f \in Files, RemoveFile(f)
      PROVE  [Promise!Next]_(Promise!vars)
  BY <1>16 DEF RemoveFile
<1>17. CASE RemoveManifest
  BY <1>17 DEF RemoveManifest
<1>18. CASE RemoveDirectory
  BY <1>18 DEF RemoveDirectory
<1>19. CASE RemoveThrows
  BY <1>19 DEF RemoveThrows
<1>20. CASE Start
  BY <1>20 DEF Start
<1>21. ASSUME NEW o \in Operations, RecoverTransaction(o)
      PROVE  [Promise!Next]_(Promise!vars)
  BY <1>21 DEF RecoverTransaction
<1>22. ASSUME NEW o \in Operations, ManifestMissing(o)
      PROVE  [Promise!Next]_(Promise!vars)
  BY <1>22 DEF ManifestMissing
<1>23. ASSUME NEW f \in Files, RecoverFile(f)
      PROVE  [Promise!Next]_(Promise!vars)
  BY <1>23 DEF RecoverFile
<1>24. CASE RecoverThrows
  BY <1>24 DEF RecoverThrows
<1>25. CASE RecoverEnds
  BY <1>25 DEF RecoverEnds
<1>26. CASE Started
  <2>1. \E S \in SUBSET Claims : Promise!Interrupt(S)
    BY <1>26, InterruptedIsInterrupt DEF Started
  <2>2. QED
    BY <2>1 DEF Promise!Next
<1>27. ASSUME NEW c \in Claims, BeginClaimAttempt(c)
      PROVE  [Promise!Next]_(Promise!vars)
  <2>1. Promise!Attempt(c)
    BY <1>27 DEF BeginClaimAttempt, Promise!Attempt
  <2>2. QED
    BY <2>1 DEF Promise!Next
<1>28. ASSUME NEW f \in Files, SaveEvidence(f)
      PROVE  [Promise!Next]_(Promise!vars)
  <2>1. f \notin Present \cup named \cup erased /\ Present' = Present \cup {f}
    BY <1>28 DEF SaveEvidence
  <2>2. Promise!Save(f)
    BY <1>28, <2>1 DEF SaveEvidence, Promise!Save
  <2>3. QED
    BY <2>2 DEF Promise!Next
<1>29. ASSUME NEW s \in {"submitted", "failed", "unknown"}, CompleteClaimAttempt(s)
      PROVE  [Promise!Next]_(Promise!vars)
  <2>1. worker \in Claims /\ saved \in SUBSET Files
    BY <1>29 DEF CompleteClaimAttempt
  <2>2. Promise!Record(worker, s, saved)
    BY <1>29, <1>a
  <2> HIDE DEF AtomicInv
  <2>3. QED
    BY <2>1, <2>2 DEF Promise!Next
<1>30. CASE WorkerDies
  <2>1. \E S \in SUBSET Claims : Promise!Interrupt(S)
    BY <1>30, InterruptedIsInterrupt DEF WorkerDies
  <2>2. QED
    BY <2>1 DEF Promise!Next
<1>31. CASE Crash
  BY <1>31 DEF Crash
<1>32. CASE UNCHANGED vars
  BY <1>32 DEF vars
<1> HIDE DEF AtomicInv, AloneOK, LoopOK, CurrentOK, SelectedOK, Startup, KeptInv,
             ControlOK, StagedOK, PutBackOK, FreshOK, Known, NamedFilesAreKept, Open,
             Closed, WithManifest, TypeOK, Removing, FilesOf, dbVars, diskVars, workerVars,
             Goto, Leave, RemovalEnds, Present, Promise!vars
<1>33. QED
  BY <1>1, <1>2, <1>3, <1>4, <1>5, <1>6, <1>7, <1>8, <1>9, <1>10, <1>11, <1>12,
     <1>13, <1>14, <1>15, <1>16, <1>17, <1>18, <1>19, <1>20, <1>21, <1>22, <1>23,
     <1>24, <1>25, <1>26, <1>27, <1>28, <1>29, <1>30, <1>31, <1>32
  DEF Next, DeletionStep, RemovalStep, StartupStep, WorkerStep

\* If putting a file back and BEGIN IMMEDIATE do not fail and no worker
\* outlives its app, a deletion is atomic: records, named files and tombstones
\* change together, whatever else fails and wherever the app dies.
THEOREM Atomicity ==
    ASSUME "restore" \notin Faults, "begin" \notin Faults, ~ Orphans
    PROVE  Spec => DeletionIsAtomic
<1>1. Init => AtomicInv
  BY KeptInit, OperationsAssumption
  DEF Init, AtomicInv, AloneOK, LoopOK, CurrentOK, SelectedOK, WithManifest, Startup
<1>2. AtomicInv /\ [Next]_vars => AtomicInv'
  BY AtomicStep
<1>3. Init => Promise!Init
  BY OperationsAssumption DEF Init, Promise!Init, Present
<1>4. AtomicInv /\ [Next]_vars => [Promise!Next]_(Promise!vars)
  BY PromiseStep
<1>5. QED
  BY <1>1, <1>2, <1>3, <1>4, PTL DEF Spec, DeletionIsAtomic, Promise!Spec

-----------------------------------------------------------------------------
(* What may happen to a file, whatever fails.                              *)

\* What staging directories, manifests and loops have in common with the places
\* of the files even when putting a file back fails: an uncommitted manifest lists
\* what is staged, no row names what a committed operation staged, and the
\* recovery of an operation reaches all its files.
DiskOK ==
    /\ \A f \in Files :
          /\ place[f] \in Operations => staging[place[f]] # "absent"
          /\ place[f] \in Operations \ audit /\ staging[place[f]] = "manifest" =>
                 f \in entries[place[f]]
          /\ place[f] \in audit => f \notin named
    /\ pc = "selected" => staging[op] = "absent"
    /\ pc = "created" => \A f \in Files : place[f] # op
    /\ pc = "recovering" => \A f \in Files : place[f] = op <=> f \in left
    /\ pc = "settled" => \A f \in Files : place[f] # op

\* No row names again what was erased, so no deletion has erased files to stage.
ErasedOK ==
    /\ named \cap erased = {}
    /\ pc \in {"selected", "created"} \cup WithManifest => left \cap erased = {}
    /\ pc \in WithManifest => entries[op] \cap erased = {}

FilesInv == TypeOK /\ ControlOK /\ FreshOK /\ DiskOK /\ ErasedOK

LEMMA FilesInit == Init => FilesInv
<1> SUFFICES ASSUME Init PROVE FilesInv
  OBVIOUS
<1>1. TypeOK /\ ControlOK /\ FreshOK
  BY KeptInit DEF KeptInv
<1>2. DiskOK
  BY OperationsAssumption DEF Init, DiskOK
<1>3. ErasedOK
  BY DEF Init, ErasedOK, WithManifest
<1>4. QED
  BY <1>1, <1>2, <1>3 DEF FilesInv

\* Every step, failed or not, keeps the invariant on the files.
LEMMA FilesStep ==
    ASSUME FilesInv, [Next]_vars
    PROVE  FilesInv'
<1> USE OwnerAssumption, NoneAssumption, OperationsAssumption
        DEF FilesInv, ControlOK, DiskOK, ErasedOK, FreshOK, Known,
            Open, Closed, WithManifest, TypeOK, Removing,
            FilesOf, dbVars, diskVars, workerVars, Goto, Leave, RemovalEnds
<1>0. TypeOK'
  BY TypeStep
<1>1. ASSUME NEW o \in Operations, NEW S \in SUBSET Claims \ {{}}, DeleteData(o, S)
      PROVE  FilesInv'
  BY <1>1, <1>0 DEF DeleteData
<1>2. CASE StageDirectory
  BY <1>2, <1>0 DEF StageDirectory
<1>3. CASE WriteManifest
  BY <1>3, <1>0 DEF WriteManifest
<1>4. CASE StagingThrows
  BY <1>4, <1>0 DEF StagingThrows
<1>5. ASSUME NEW f \in Files, StageFile(f)
      PROVE  FilesInv'
  BY <1>5, <1>0 DEF StageFile
<1>6. ASSUME NEW f \in Files, PutBack(f)
      PROVE  FilesInv'
  BY <1>6, <1>0 DEF PutBack
<1>7. CASE StageFileThrows
  BY <1>7, <1>0 DEF StageFileThrows
<1>8. CASE PutBackEnds
  BY <1>8, <1>0 DEF PutBackEnds
<1>9. CASE BeginImmediate
  BY <1>9, <1>0 DEF BeginImmediate
<1>10. CASE BeginThrows
  BY <1>10, <1>0 DEF BeginThrows
<1>11. CASE Commit
  BY <1>11, <1>0 DEF Commit
<1>12. CASE DeletionThrows
  BY <1>12, <1>0 DEF DeletionThrows
<1>13. CASE WriteReceipt
  BY <1>13, <1>0 DEF WriteReceipt
<1>14. CASE ReceiptThrows
  BY <1>14, <1>0 DEF ReceiptThrows
<1>15. CASE WriteFailureReceipt
  BY <1>15, <1>0 DEF WriteFailureReceipt
<1>16. ASSUME NEW f \in Files, RemoveFile(f)
      PROVE  FilesInv'
  BY <1>16, <1>0 DEF RemoveFile
<1>17. CASE RemoveManifest
  BY <1>17, <1>0 DEF RemoveManifest
<1>18. CASE RemoveDirectory
  BY <1>18, <1>0 DEF RemoveDirectory
<1>19. CASE RemoveThrows
  BY <1>19, <1>0 DEF RemoveThrows
<1>20. CASE Start
  BY <1>20, <1>0 DEF Start
<1>21. ASSUME NEW o \in Operations, RecoverTransaction(o)
      PROVE  FilesInv'
  BY <1>21, <1>0 DEF RecoverTransaction
<1>22. ASSUME NEW o \in Operations, ManifestMissing(o)
      PROVE  FilesInv'
  BY <1>22, <1>0 DEF ManifestMissing
<1>23. ASSUME NEW f \in Files, RecoverFile(f)
      PROVE  FilesInv'
  BY <1>23, <1>0 DEF RecoverFile
<1>24. CASE RecoverThrows
  BY <1>24, <1>0 DEF RecoverThrows
<1>25. CASE RecoverEnds
  BY <1>25, <1>0 DEF RecoverEnds
<1>26. CASE Started
  BY <1>26, <1>0 DEF Started
<1>27. ASSUME NEW c \in Claims, BeginClaimAttempt(c)
      PROVE  FilesInv'
  BY <1>27, <1>0 DEF BeginClaimAttempt
<1>28. ASSUME NEW f \in Files, SaveEvidence(f)
      PROVE  FilesInv'
  BY <1>28, <1>0 DEF SaveEvidence
<1>29. ASSUME NEW s \in {"submitted", "failed", "unknown"}, CompleteClaimAttempt(s)
      PROVE  FilesInv'
  BY <1>29, <1>0 DEF CompleteClaimAttempt
<1>30. CASE WorkerDies
  BY <1>30, <1>0 DEF WorkerDies
<1>31. CASE Crash
  BY <1>31, <1>0 DEF Crash
<1>32. CASE UNCHANGED vars
  BY <1>32, <1>0 DEF vars
<1> HIDE DEF FilesInv, ControlOK, DiskOK, ErasedOK, FreshOK, Known,
             Open, Closed, WithManifest, TypeOK, Removing, FilesOf, dbVars, diskVars,
             workerVars, Goto, Leave, RemovalEnds
<1>33. QED
  BY <1>1, <1>2, <1>3, <1>4, <1>5, <1>6, <1>7, <1>8, <1>9, <1>10, <1>11, <1>12,
     <1>13, <1>14, <1>15, <1>16, <1>17, <1>18, <1>19, <1>20, <1>21, <1>22, <1>23,
     <1>24, <1>25, <1>26, <1>27, <1>28, <1>29, <1>30, <1>31, <1>32
  DEF Next, DeletionStep, RemovalStep, StartupStep, WorkerStep

\* Five steps move files.
LEMMA OtherStepsMoveNoFile ==
    ASSUME [Next]_vars,
           \A f \in Files : /\ ~ StageFile(f) /\ ~ PutBack(f) /\ ~ RemoveFile(f)
                            /\ ~ RecoverFile(f) /\ ~ SaveEvidence(f)
    PROVE  UNCHANGED place
<1> USE DEF dbVars, diskVars
<1>1. ASSUME NEW o \in Operations, NEW S \in SUBSET Claims \ {{}}, DeleteData(o, S)
      PROVE  UNCHANGED place
  BY <1>1 DEF DeleteData
<1>2. CASE StageDirectory
  BY <1>2 DEF StageDirectory
<1>3. CASE WriteManifest
  BY <1>3 DEF WriteManifest
<1>4. CASE StagingThrows
  BY <1>4 DEF StagingThrows
<1>5. CASE StageFileThrows
  BY <1>5 DEF StageFileThrows
<1>6. CASE PutBackEnds
  BY <1>6 DEF PutBackEnds
<1>7. CASE BeginImmediate
  BY <1>7 DEF BeginImmediate
<1>8. CASE BeginThrows
  BY <1>8 DEF BeginThrows
<1>9. CASE DeletionThrows
  BY <1>9 DEF DeletionThrows
<1>10. CASE WriteReceipt
  BY <1>10 DEF WriteReceipt
<1>11. CASE ReceiptThrows
  BY <1>11 DEF ReceiptThrows
<1>12. CASE WriteFailureReceipt
  BY <1>12 DEF WriteFailureReceipt
<1>13. CASE RemoveManifest
  BY <1>13 DEF RemoveManifest
<1>14. CASE RemoveDirectory
  BY <1>14 DEF RemoveDirectory
<1>15. CASE RemoveThrows
  BY <1>15 DEF RemoveThrows
<1>16. CASE Start
  BY <1>16 DEF Start
<1>17. ASSUME NEW o \in Operations, RecoverTransaction(o)
      PROVE  UNCHANGED place
  BY <1>17 DEF RecoverTransaction
<1>18. ASSUME NEW o \in Operations, ManifestMissing(o)
      PROVE  UNCHANGED place
  BY <1>18 DEF ManifestMissing
<1>19. CASE RecoverThrows
  BY <1>19 DEF RecoverThrows
<1>20. CASE RecoverEnds
  BY <1>20 DEF RecoverEnds
<1>21. CASE Started
  BY <1>21 DEF Started
<1>22. ASSUME NEW c \in Claims, BeginClaimAttempt(c)
      PROVE  UNCHANGED place
  BY <1>22 DEF BeginClaimAttempt
<1>23. ASSUME NEW s \in {"submitted", "failed", "unknown"}, CompleteClaimAttempt(s)
      PROVE  UNCHANGED place
  BY <1>23 DEF CompleteClaimAttempt
<1>24. CASE WorkerDies
  BY <1>24 DEF WorkerDies
<1>25. CASE Crash
  BY <1>25 DEF Crash
<1>26. CASE UNCHANGED vars
  BY <1>26 DEF vars
<1>27. CASE Commit
  BY <1>27 DEF Commit
<1> HIDE DEF dbVars, diskVars
<1>28. QED
  BY <1>1, <1>2, <1>3, <1>4, <1>5, <1>6, <1>7, <1>8, <1>9, <1>10, <1>11, <1>12, <1>13,
     <1>14, <1>15, <1>16, <1>17, <1>18, <1>19, <1>20, <1>21, <1>22, <1>23, <1>24, <1>25,
     <1>26, <1>27
  DEF Next, DeletionStep, RemovalStep, StartupStep, WorkerStep

\* Whatever fails, dies or outlives its app: a file that a row names is lost only
\* with the directory of a rolled back deletion, and an erased one comes back only
\* at a startup, from the directory of a deletion that did not commit.
THEOREM FilesFollow == Spec => FilesFollowRows
<1> DEFINE Follows(f) ==
      /\ f \in named /\ place[f] # "gone" /\ place'[f] = "gone" => pc = "discarding"
      /\ f \in erased /\ place[f] # "home" /\ place'[f] = "home" =>
             pc = "recovering" /\ place[f] \in Operations \ audit
<1>1. ASSUME FilesInv, [Next]_vars, NEW g \in Files PROVE Follows(g)
  <2> USE <1>1, OperationsAssumption DEF FilesInv, TypeOK
  <2>1. ASSUME NEW f \in Files, StageFile(f) PROVE Follows(g)
    BY <2>1 DEF StageFile
  <2>2. ASSUME NEW f \in Files, PutBack(f) PROVE Follows(g)
    BY <2>2 DEF PutBack, ControlOK, DiskOK, ErasedOK, Open, WithManifest
  <2>3. ASSUME NEW f \in Files, RemoveFile(f) PROVE Follows(g)
    BY <2>3 DEF RemoveFile, ControlOK, DiskOK, Closed, Removing
  <2>4. ASSUME NEW f \in Files, RecoverFile(f) PROVE Follows(g)
    BY <2>4 DEF RecoverFile, ControlOK, DiskOK, Open
  <2>5. ASSUME NEW f \in Files, SaveEvidence(f) PROVE Follows(g)
    BY <2>5 DEF SaveEvidence, FreshOK, Known
  <2>6. CASE \A f \in Files : /\ ~ StageFile(f) /\ ~ PutBack(f) /\ ~ RemoveFile(f)
                               /\ ~ RecoverFile(f) /\ ~ SaveEvidence(f)
    BY <2>6, OtherStepsMoveNoFile
  <2>7. QED
    BY <2>1, <2>2, <2>3, <2>4, <2>5, <2>6
<1>2. FilesInv /\ [Next]_vars => [\A f \in Files : Follows(f)]_vars
  BY <1>1
<1>3. Init => FilesInv
  BY FilesInit
<1>4. FilesInv /\ [Next]_vars => FilesInv'
  BY FilesStep
<1>5. QED
  BY <1>2, <1>3, <1>4, PTL DEF Spec, FilesFollowRows
=============================================================================
