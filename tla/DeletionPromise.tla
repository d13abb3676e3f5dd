--------------------------- MODULE DeletionPromise ---------------------------
(***************************************************************************)
(* What a privacy deletion promises: the records of the selected claims    *)
(* and the files that they name go together, at once, and a claim whose    *)
(* outcome is final or uncertain leaves a tombstone.  A deleted file does  *)
(* not come back.  There is no staging, no manifest and no crash here:     *)
(* PrivacyDeletion implements this module.                                 *)
(***************************************************************************)

CONSTANTS Claims, Files, Owner

VARIABLES
    records,     \* claim -> the status of its latest attempt, "none" without records
    tombstones,  \* claims that may never be submitted again
    named,       \* evidence files that the records name
    present,     \* evidence files that exist
    erased       \* evidence files that were deleted

vars == <<records, tombstones, named, present, erased>>

Statuses == {"none", "in_progress", "unknown", "failed", "submitted"}

\* Latest statuses of which insertTombstones keeps the hash of the claim.
Settled == {"in_progress", "unknown", "submitted"}

FilesOf(S) == {f \in Files : Owner[f] \in S}

Init ==
    /\ records = [c \in Claims |-> "none"]
    /\ tombstones = {}
    /\ named = {}
    /\ present = {}
    /\ erased = {}

\* A claim without tombstone and without a settled record is tried.
Attempt(c) ==
    /\ records[c] \in {"none", "failed"}
    /\ c \notin tombstones
    /\ records' = [records EXCEPT ![c] = "in_progress"]
    /\ UNCHANGED <<tombstones, named, present, erased>>

\* A file is new: one that was deleted does not come back.
Save(f) ==
    /\ f \notin present \cup named \cup erased
    /\ present' = present \cup {f}
    /\ UNCHANGED <<records, tombstones, named, erased>>

\* The outcome of an attempt is recorded, with its files.
Record(c, s, F) ==
    /\ records[c] \in {"in_progress", "unknown"}
    /\ records' = [records EXCEPT ![c] = s]
    /\ F \subseteq present \cap FilesOf({c})
    /\ named' = named \cup F
    /\ UNCHANGED <<tombstones, present, erased>>

\* Attempts whose worker is gone have an unknown outcome.
Interrupt(S) ==
    /\ \A c \in S : records[c] = "in_progress"
    /\ records' = [c \in Claims |-> IF c \in S THEN "unknown" ELSE records[c]]
    /\ UNCHANGED <<tombstones, named, present, erased>>

\* The deletion: rows, named files and tombstones in one step.
Delete(S) ==
    /\ records' = [c \in Claims |-> IF c \in S THEN "none" ELSE records[c]]
    /\ tombstones' = tombstones \cup {c \in S : records[c] \in Settled}
    /\ named' = named \ FilesOf(S)
    /\ present' = present \ (named \cap FilesOf(S))
    /\ erased' = erased \cup (named \cap FilesOf(S))

Next ==
    \/ \E c \in Claims : Attempt(c)
    \/ \E f \in Files : Save(f)
    \/ \E c \in Claims, s \in {"submitted", "failed", "unknown"}, F \in SUBSET Files :
           Record(c, s, F)
    \/ \E S \in SUBSET Claims : Interrupt(S) \/ Delete(S)

Spec == Init /\ [][Next]_vars
=============================================================================
