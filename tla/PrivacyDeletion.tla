--------------------------- MODULE PrivacyDeletion ---------------------------
(***************************************************************************)
(* lib/privacy-deletion.js: the deletion of the records of selected claims *)
(* and of their evidence files, and the recovery of an interrupted one at  *)
(* startup.                                                                *)
(*                                                                         *)
(* The files are moved to a staging directory with a manifest, the rows    *)
(* are deleted in a transaction that leaves an audit row, and then the     *)
(* directory is removed.  The deletion is one synchronous section of the   *)
(* main process, but the app may die between any two of its calls to the   *)
(* operating system or the database, and a submission worker that has      *)
(* outlived an earlier crash (an orphan) runs beside it: to the            *)
(* coordinator of the restarted app that worker does not exist.            *)
(***************************************************************************)

CONSTANTS
    Claims,
    Files,       \* evidence files, each with a name of its own
    Owner,       \* file -> the claim it is evidence of
    Operations,  \* ids of deletions
    None,
    Faults,      \* calls that may throw
    Orphans      \* may a worker outlive its app?

FaultKinds ==
    {"stage", "rename", "restore", "begin", "delete", "remove", "receipt", "recover"}

ASSUME OwnerAssumption == Owner \in [Files -> Claims]
ASSUME NoneAssumption == None \notin Claims \cup Operations
ASSUME OperationsAssumption == Operations \cap {"unused", "home", "gone"} = {}
ASSUME FaultsAssumption == Faults \subseteq FaultKinds
ASSUME OrphansAssumption == Orphans \in BOOLEAN

VARIABLES
    records,     \* claim -> the status of its latest attempt, "none" without records
    tombstones,  \* claims with a row in claim_duplicate_tombstones
    named,       \* files that a row names
    audit,       \* operations with a privacy_deletion_completed row
    place,       \* file -> "unused", "home", "gone", or the operation that staged it
    staging,     \* operation -> "absent", "directory", or "manifest"
    entries,     \* operation -> the files in its manifest
    receipt,     \* operation -> "none", "success", "failure"
    pc,          \* where the main process is
    op,          \* the operation it deletes for, or recovers
    scope,       \* temp_privacy_scope: the selected claims
    left,        \* what the current loop over files has not reached
    stale,       \* has an unrelated record changed since unrelatedDigest was taken?
    worker,      \* the claim a submission worker has an open attempt of
    saved,       \* evidence it has saved and not recorded
    orphan,      \* has it outlived its app?
    filed,       \* history: claims that may have been filed, and are not known as failed
    erased       \* history: files named by rows that a deletion has deleted

dbVars     == <<records, tombstones, named, audit>>
diskVars   == <<place, staging, entries, receipt>>
workerVars == <<worker, saved, orphan, filed>>
vars       == <<records, tombstones, named, audit, place, staging, entries, receipt,
                pc, op, scope, left, stale, worker, saved, orphan, filed, erased>>

Statuses == {"none", "in_progress", "unknown", "failed", "submitted"}

\* rmSync of the staging directory: after a rollback, after the commit, and
\* in the recovery of an operation that was not, or was, committed.
Removing == {"discarding", "finishing", "settled", "finalizing"}

Locations ==
    {"down", "starting", "recovering", "idle", "selected", "created", "staging",
     "unstaging", "deleting", "restoring", "receipt", "failed"} \cup Removing

FilesOf(S) == {f \in Files : Owner[f] \in S}

\* Mutant of the next definition: an uncertain outcome leaves no tombstone.
TombstonedWhenFinal == {"in_progress", "submitted"}

\* Statuses that insertTombstones selects ("submitted" stands for the terminal ones).
Tombstoned == {"in_progress", "unknown", "submitted"}

\* markInterruptedAttempts.
Interrupted ==
    [c \in Claims |-> IF records[c] = "in_progress" THEN "unknown" ELSE records[c]]

Init ==
    /\ records = [c \in Claims |-> "none"]
    /\ tombstones = {} /\ named = {} /\ audit = {}
    /\ place   = [f \in Files |-> "unused"]
    /\ staging = [o \in Operations |-> "absent"]
    /\ entries = [o \in Operations |-> {}]
    /\ receipt = [o \in Operations |-> "none"]
    /\ pc = "idle" /\ op = None
    /\ scope = {} /\ left = {} /\ stale = FALSE
    /\ worker = None /\ saved = {} /\ orphan = FALSE
    /\ filed = {} /\ erased = {}

\* The main process goes on at l without an operation.
Leave(l) ==
    /\ pc' = l
    /\ op' = None
    /\ scope' = {}
    /\ left' = {}
    /\ stale' = FALSE

\* The main process goes on at l, with F as the files of its next loop.
Goto(l, F) ==
    /\ pc' = l
    /\ left' = F
    /\ UNCHANGED <<op, scope, stale>>

-----------------------------------------------------------------------------
(* deleteData.                                                             *)

\* The coordinator knows of no worker (it does not know an orphan); the scope,
\* its files and the digest of everything else are read.
DeleteData(o, S) ==
    /\ pc = "idle"
    /\ worker = None \/ orphan
    /\ staging[o] = "absent" /\ receipt[o] = "none" /\ o \notin audit
    /\ pc' = "selected"
    /\ op' = o
    /\ scope' = S
    /\ left' = {f \in named \cap FilesOf(S) : place[f] = "home"}
    /\ stale' = FALSE
    /\ UNCHANGED <<dbVars, diskVars, workerVars, erased>>

StageDirectory ==
    /\ pc = "selected"
    /\ staging' = [staging EXCEPT ![op] = "directory"]
    /\ Goto("created", left)
    /\ UNCHANGED <<dbVars, place, entries, receipt, workerVars, erased>>

WriteManifest ==
    /\ pc = "created"
    /\ staging' = [staging EXCEPT ![op] = "manifest"]
    /\ entries' = [entries EXCEPT ![op] = left]
    /\ Goto("staging", left)
    /\ UNCHANGED <<dbVars, place, receipt, workerVars, erased>>

\* A path outside the owned directories, no permission, a full disk.
StagingThrows ==
    /\ "stage" \in Faults
    /\ pc \in {"selected", "created"}
    /\ Goto("failed", {})
    /\ UNCHANGED <<dbVars, diskVars, workerVars, erased>>

StageFile(f) ==
    /\ pc = "staging"
    /\ f \in left
    /\ place' = [place EXCEPT ![f] = op]
    /\ Goto("staging", left \ {f})
    /\ UNCHANGED <<dbVars, staging, entries, receipt, workerVars, erased>>

StageFileThrows ==
    /\ "rename" \in Faults
    /\ pc = "staging"
    /\ left # {}
    /\ Goto("unstaging", entries[op])
    /\ UNCHANGED <<dbVars, diskVars, workerVars, erased>>

\* One turn of the loop that puts staged files back, in stageFiles or in
\* restoreStagedFiles: what a rename throws is swallowed.
PutBack(f) ==
    /\ pc \in {"unstaging", "restoring"}
    /\ f \in left
    /\ \/ place' = [place EXCEPT ![f] = IF @ = op THEN "home" ELSE @]
       \/ "restore" \in Faults /\ UNCHANGED place
    /\ Goto(pc, left \ {f})
    /\ UNCHANGED <<dbVars, staging, entries, receipt, workerVars, erased>>

PutBackEnds ==
    /\ pc \in {"unstaging", "restoring"}
    /\ left = {}
    /\ Goto(IF pc = "unstaging" THEN "failed" ELSE "discarding", {})
    /\ UNCHANGED <<dbVars, diskVars, workerVars, erased>>

BeginImmediate ==
    /\ pc = "staging"
    /\ left = {}
    /\ Goto("deleting", {})
    /\ UNCHANGED <<dbVars, diskVars, workerVars, erased>>

\* BEGIN IMMEDIATE stands before the try block that puts the files back.
BeginThrows ==
    /\ "begin" \in Faults
    /\ pc = "staging"
    /\ left = {}
    /\ Goto("failed", {})
    /\ UNCHANGED <<dbVars, diskVars, workerVars, erased>>

\* deleteRows, the checks, and COMMIT.
Commit ==
    /\ pc = "deleting"
    /\ ~ stale
    /\ records' = [c \in Claims |-> IF c \in scope THEN "none" ELSE records[c]]
    /\ tombstones' = tombstones \cup {c \in scope : records[c] \in Tombstoned}
    /\ named' = named \ FilesOf(scope)
    /\ audit' = audit \cup {op}
    /\ erased' = erased \cup (named \cap FilesOf(scope))
    /\ Goto("finishing", {})
    /\ UNCHANGED <<diskVars, workerVars>>

\* A statement, a check, the digest or COMMIT throws: ROLLBACK.
DeletionThrows ==
    /\ stale \/ "delete" \in Faults
    /\ pc = "deleting"
    /\ Goto("restoring", entries[op])
    /\ UNCHANGED <<dbVars, diskVars, workerVars, erased>>

WriteReceipt ==
    /\ pc = "receipt"
    /\ receipt' = [receipt EXCEPT ![op] = "success"]
    /\ Leave("idle")
    /\ UNCHANGED <<dbVars, place, staging, entries, workerVars, erased>>

ReceiptThrows ==
    /\ "receipt" \in Faults
    /\ pc = "receipt"
    /\ Goto("failed", {})
    /\ UNCHANGED <<dbVars, diskVars, workerVars, erased>>

\* The outer catch block: a receipt of the failure, if it can be written.
WriteFailureReceipt ==
    /\ pc = "failed"
    /\ \/ receipt' = [receipt EXCEPT ![op] = "failure"]
       \/ "receipt" \in Faults /\ UNCHANGED receipt
    /\ Leave("idle")
    /\ UNCHANGED <<dbVars, place, staging, entries, workerVars, erased>>

-----------------------------------------------------------------------------
(* rmSync of a staging directory, which is not atomic.                     *)

RemovalEnds ==
    \/ pc = "discarding" /\ Goto("failed", {})
    \/ pc = "finishing" /\ Goto("receipt", {})
    \/ pc \in {"settled", "finalizing"} /\ Leave("starting")

RemoveFile(f) ==
    /\ pc \in Removing
    /\ place[f] = op
    /\ place' = [place EXCEPT ![f] = "gone"]
    /\ UNCHANGED <<dbVars, staging, entries, receipt, pc, op, scope, left, stale,
                   workerVars, erased>>

RemoveManifest ==
    /\ pc \in Removing
    /\ staging[op] = "manifest"
    /\ staging' = [staging EXCEPT ![op] = "directory"]
    /\ entries' = [entries EXCEPT ![op] = {}]
    /\ UNCHANGED <<dbVars, place, receipt, pc, op, scope, left, stale, workerVars, erased>>

RemoveDirectory ==
    /\ pc \in Removing
    /\ staging[op] = "directory"
    /\ \A f \in Files : place[f] # op
    /\ staging' = [staging EXCEPT ![op] = "absent"]
    /\ RemovalEnds
    /\ UNCHANGED <<dbVars, place, entries, receipt, workerVars, erased>>

\* deleteData goes on, the startup fails.
RemoveThrows ==
    /\ "remove" \in Faults
    /\ pc \in Removing
    /\ IF pc \in {"discarding", "finishing"} THEN RemovalEnds ELSE Leave("down")
    /\ UNCHANGED <<dbVars, diskVars, workerVars, erased>>

-----------------------------------------------------------------------------
(* recoverInterruptedTransactions, in startApplication.                    *)

Start ==
    /\ pc = "down"
    /\ Leave("starting")
    /\ UNCHANGED <<dbVars, diskVars, workerVars, erased>>

\* Mutant of the next definition: every operation is taken for committed.
FinalizeTransaction(o) ==
    /\ pc = "starting"
    /\ staging[o] = "manifest"
    /\ op' = o
    /\ pc' = "finalizing"
    /\ left' = {}
    /\ UNCHANGED <<dbVars, diskVars, scope, stale, workerVars, erased>>

\* Mutant of the next definition: every operation is taken for interrupted.
RestoreTransaction(o) ==
    /\ pc = "starting"
    /\ staging[o] = "manifest"
    /\ op' = o
    /\ pc' = "recovering"
    /\ left' = {f \in entries[o] : place[f] = o}
    /\ UNCHANGED <<dbVars, diskVars, scope, stale, workerVars, erased>>

\* One turn of the loop over the staging directories.
RecoverTransaction(o) ==
    /\ pc = "starting"
    /\ staging[o] = "manifest"
    /\ op' = o
    /\ IF o \in audit
       THEN pc' = "finalizing" /\ left' = {}
       ELSE pc' = "recovering" /\ left' = {f \in entries[o] : place[f] = o}
    /\ UNCHANGED <<dbVars, diskVars, scope, stale, workerVars, erased>>

\* "Privacy transaction recovery manifest is missing or invalid.": the startup fails.
ManifestMissing(o) ==
    /\ pc = "starting"
    /\ staging[o] = "directory"
    /\ Leave("down")
    /\ UNCHANGED <<dbVars, diskVars, workerVars, erased>>

RecoverFile(f) ==
    /\ pc = "recovering"
    /\ f \in left
    /\ place' = [place EXCEPT ![f] = "home"]
    /\ Goto("recovering", left \ {f})
    /\ UNCHANGED <<dbVars, staging, entries, receipt, workerVars, erased>>

RecoverThrows ==
    /\ "recover" \in Faults
    /\ pc = "recovering"
    /\ Leave("down")
    /\ UNCHANGED <<dbVars, diskVars, workerVars, erased>>

RecoverEnds ==
    /\ pc = "recovering"
    /\ left = {}
    /\ Goto("settled", {})
    /\ UNCHANGED <<dbVars, diskVars, workerVars, erased>>

\* No directory is left: the rest of the startup.
Started ==
    /\ pc = "starting"
    /\ \A o \in Operations : staging[o] = "absent"
    /\ records' = Interrupted
    /\ Leave("idle")
    /\ UNCHANGED <<tombstones, named, audit, diskVars, workerVars, erased>>

\* The app dies; SQLite rolls an open transaction back.
Crash ==
    /\ pc # "down"
    /\ Leave("down")
    /\ IF Orphans
       THEN orphan' = (worker # None) /\ UNCHANGED <<worker, saved>>
       ELSE orphan' = FALSE /\ worker' = None /\ saved' = {}
    /\ UNCHANGED <<dbVars, diskVars, filed, erased>>

-----------------------------------------------------------------------------
(* A submission worker, as much of it as a deletion can meet.              *)

\* beginClaimAttempt: a tombstone, or a settled latest attempt, refuses.
BeginClaimAttempt(c) ==
    /\ pc = "idle"
    /\ worker = None
    /\ c \notin tombstones
    /\ records[c] \in {"none", "failed"}
    /\ records' = [records EXCEPT ![c] = "in_progress"]
    /\ worker' = c
    /\ filed' = filed \cup {c}
    /\ UNCHANGED <<tombstones, named, audit, diskVars, pc, op, scope, left, stale,
                   saved, orphan, erased>>

\* saveClaimArtifacts.
SaveEvidence(f) ==
    /\ worker = Owner[f]
    /\ place[f] = "unused"
    /\ place' = [place EXCEPT ![f] = "home"]
    /\ saved' = saved \cup {f}
    /\ UNCHANGED <<dbVars, staging, entries, receipt, pc, op, scope, left, stale,
                   worker, orphan, filed, erased>>

\* completeClaimAttempt; it throws if the row is gone.  An open deletion
\* transaction keeps it waiting.
CompleteClaimAttempt(s) ==
    /\ worker # None
    /\ pc # "deleting"
    /\ \/ /\ records[worker] = "none"
          /\ UNCHANGED <<records, named, filed, stale>>
       \/ /\ records[worker] # "none"
          /\ records' = [records EXCEPT ![worker] = s]
          /\ named' = named \cup saved
          /\ filed' = IF s = "failed" THEN filed \ {worker} ELSE filed
          /\ stale' = (stale \/ (op # None /\ worker \notin scope))
    /\ worker' = None /\ saved' = {} /\ orphan' = FALSE
    /\ UNCHANGED <<tombstones, audit, diskVars, pc, op, scope, left, erased>>

\* A worker dies; its own app, if it lives, marks the attempt.
WorkerDies ==
    /\ worker # None
    /\ records' = IF orphan THEN records ELSE Interrupted
    /\ worker' = None /\ saved' = {} /\ orphan' = FALSE
    /\ UNCHANGED <<tombstones, named, audit, diskVars, pc, op, scope, left, stale,
                   filed, erased>>

-----------------------------------------------------------------------------

DeletionStep ==
    \/ \E o \in Operations, S \in SUBSET Claims \ {{}} : DeleteData(o, S)
    \/ StageDirectory \/ WriteManifest \/ StagingThrows
    \/ \E f \in Files : StageFile(f) \/ PutBack(f)
    \/ StageFileThrows \/ PutBackEnds
    \/ BeginImmediate \/ BeginThrows \/ Commit \/ DeletionThrows
    \/ WriteReceipt \/ ReceiptThrows \/ WriteFailureReceipt

RemovalStep ==
    \/ \E f \in Files : RemoveFile(f)
    \/ RemoveManifest \/ RemoveDirectory \/ RemoveThrows

StartupStep ==
    \/ Start
    \/ \E o \in Operations : RecoverTransaction(o) \/ ManifestMissing(o)
    \/ \E f \in Files : RecoverFile(f)
    \/ RecoverThrows \/ RecoverEnds \/ Started

WorkerStep ==
    \/ \E c \in Claims : BeginClaimAttempt(c)
    \/ \E f \in Files : SaveEvidence(f)
    \/ \E s \in {"submitted", "failed", "unknown"} : CompleteClaimAttempt(s)
    \/ WorkerDies

Next == DeletionStep \/ RemovalStep \/ StartupStep \/ WorkerStep \/ Crash

Spec == Init /\ [][Next]_vars

-----------------------------------------------------------------------------
(* Safety.                                                                 *)

\* Every variable keeps its type, and there is an operation exactly while the
\* main process is in one.
TypeOK ==
    /\ records \in [Claims -> Statuses]
    /\ tombstones \subseteq Claims
    /\ named \subseteq Files
    /\ audit \subseteq Operations
    /\ place \in [Files -> {"unused", "home", "gone"} \cup Operations]
    /\ staging \in [Operations -> {"absent", "directory", "manifest"}]
    /\ entries \in [Operations -> SUBSET Files]
    /\ receipt \in [Operations -> {"none", "success", "failure"}]
    /\ pc \in Locations
    /\ IF pc \in {"down", "starting", "idle"} THEN op = None ELSE op \in Operations
    /\ scope \subseteq Claims
    /\ left \subseteq Files
    /\ stale \in BOOLEAN
    /\ worker \in Claims \cup {None}
    /\ saved \subseteq Files
    /\ orphan \in BOOLEAN
    /\ filed \subseteq Claims
    /\ erased \subseteq Files

\* No file is lost that a row still names, wherever the deletion or the
\* recovery fails or dies.
NamedFilesAreKept == \A f \in named : place[f] # "gone"

\* A claim that may have been filed is not tried again because its records
\* were deleted in between: the tombstone refuses it.
NoResubmissionAfterDeletion ==
    [][\A c \in filed : records[c] = "none" => records'[c] = "none"]_vars

\* A file exists if it is in its place, or staged by an operation that has not
\* committed.
Present == {f \in Files : place[f] \in {"home"} \cup (Operations \ audit)}

Promise == INSTANCE DeletionPromise WITH present <- Present

\* A deletion is atomic, whenever the app dies and recovers.
DeletionIsAtomic == Promise!Spec

\* What any failure, crash or orphan can do to a file is this much.  A file that
\* a row names is lost only when a deletion that was rolled back removes its
\* directory with a file in it whose putting back was swallowed.  A file whose row
\* is deleted comes back only at a startup, from the directory of a deletion that
\* did not commit.  (restoreStagedFiles, recoverInterruptedTransactions)
FilesFollowRows ==
    [][\A f \in Files :
          /\ f \in named /\ place[f] # "gone" /\ place'[f] = "gone" => pc = "discarding"
          /\ f \in erased /\ place[f] # "home" /\ place'[f] = "home" =>
                 pc = "recovering" /\ place[f] \in Operations \ audit]_vars

-----------------------------------------------------------------------------
(* What the documents say, and the code does not keep.                     *)

\* "staging is not a permanent hidden copy" (docs/PRIVACY_AND_RETENTION.md): what
\* was named by rows that a deletion deleted is not put back in its place.  TLC
\* refutes it.
ErasedFilesStayErased == \A f \in erased : place[f] # "home"
=============================================================================
