---------------------------- MODULE TrackingRun ----------------------------
(***************************************************************************)
(* Step 2 runs, from tracking:run to the queue of Step 3.                  *)
(*                                                                         *)
(* main.js inserts a run record, spawns scripts/get-tracking.js and        *)
(* settles the record when the worker closes.  The worker reads its        *)
(* workload from the database and tracking.csv, looks every shipment up,   *)
(* and only after a complete traversal replaces the output files one by    *)
(* one (lib/tracking-run-staging.js) and then writes its classifications   *)
(* in one transaction (promoteTrackingBatch).  A worker may be killed      *)
(* between any two steps, outlive the app that started it, or be asked to  *)
(* stop at any time.  tracking:discardIncomplete undoes what an incomplete *)
(* run promoted.  Step 3 offers the late classifications of the latest     *)
(* run, when that run is complete; the window may submit a stale list.     *)
(***************************************************************************)
EXTENDS Integers, FiniteSets

CONSTANTS
    Pins,        \* shipments, by their tracking number
    Results,     \* what a lookup may find
    MaxRuns,     \* bound on the runs started
    NumFiles,    \* output files that a run replaces
    MaxCrashes,  \* bound on the restarts of the app
    Faults       \* the calls that may throw, see below

ResultNames == {"late", "on_time", "in_transit", "no_data"}
FaultNames == {"spawn",     \* the worker does not start, or its token is refused
               "stage",     \* temporary files or the backup cannot be written
               "promote",   \* a rename or the transaction fails
               "restore",   \* a file cannot be put back
               "summary",   \* the run summary cannot be written
               "finish",    \* settling the record throws once
               "settle"}    \* settling it as a failure throws too

ASSUME ResultsAssumption == Results \subseteq ResultNames
ASSUME BoundsAssumption == MaxRuns \in Nat \ {0} /\ NumFiles \in Nat \ {0} /\ MaxCrashes \in Nat
ASSUME TrackingFaultsAssumption == Faults \subseteq FaultNames

Runs == 1 .. MaxRuns
Files == 1 .. NumFiles

VARIABLES
    last,       \* the latest run of table runs, 0 for none
    status,     \* runs.status
    promoted,   \* runs.promoted_at is set
    class,      \* what a run found about each shipment
    order,      \* the position of a run's classification_records by their ids, 0 for none
    current,    \* shipments.current_classification_id, as the run that wrote it
    rechecked,  \* the promotions before the record that a claim wrote, 0 for none
    files,      \* the run whose content each output file has, 0 before all
    backup,     \* tracking-runs/run-<id> once its manifest is written: the content replaced
    at,         \* where the worker of each run is
    moved,      \* the files that a worker has renamed and not put back
    attached,   \* the runs whose worker the running app will see close
    abandoned,  \* the runs whose record it could not settle, nor settle as a failure
    stopFile,   \* does STOP_FILE exist?
    selection,  \* what the window has selected from the last preview: a run's shipments
    filed,      \* the shipments that a claim was started for
    crashes     \* restarts so far

records  == <<last, status, promoted>>
database == <<class, order, current, rechecked>>
pointers == <<order, current, rechecked>>
disk     == <<files, backup>>
process  == <<at, moved, attached, abandoned, stopFile>>
step3    == <<selection, filed>>
vars     == <<records, database, disk, process, step3, crashes>>

Statuses == {"none", "running", "complete", "stopped", "blocked", "failed", "discarded"}
Alive == {"reading", "looking", "staging", "moving", "restoring", "summary"}
Ended == {"completed", "aborted", "error", "unrestored", "killed"}
NoClass == [p \in Pins |-> "none"]
NoBackup == <<>>
NoSelection == [run |-> 0, pins |-> {}]

\* The value of current for the record that a claim wrote, which is of no run.
OfClaim == MaxRuns + 1

Init ==
    /\ last = 0
    /\ status = [r \in Runs |-> "none"]
    /\ promoted = [r \in Runs |-> FALSE]
    /\ class = [r \in Runs |-> NoClass]
    /\ order = [r \in Runs |-> 0]
    /\ current = [p \in Pins |-> 0]
    /\ rechecked = [p \in Pins |-> 0]
    /\ files = [f \in Files |-> 0]
    /\ backup = [r \in Runs |-> NoBackup]
    /\ at = [r \in Runs |-> "none"]
    /\ moved = [r \in Runs |-> 0]
    /\ attached = {}
    /\ abandoned = {}
    /\ stopFile = FALSE
    /\ selection = NoSelection
    /\ filed = {}
    /\ crashes = 0

-----------------------------------------------------------------------------
(* What the database says.                                                 *)

\* activeChild is the one worker the app knows of.
NoActiveChild == attached = {}

Authoritative(r) == r # 0 /\ status[r] = "complete" /\ promoted[r]

\* authoritativeRun: only the latest run counts, whatever came before it.
QueueRun == IF Authoritative(last) THEN last ELSE 0

\* The classification_records of a run.
Classified(r) == {p \in Pins : order[r] # 0 /\ class[r][p] \notin {"none", "no_data"}}

\* candidateRows, less those whose attempt state is not executable.
Candidates(r) == {p \in Classified(r) : class[r][p] = "late"} \ filed

\* Current classifications that come from a run which was completed.
Settled(p, result) ==
    /\ current[p] \in Runs
    /\ Authoritative(current[p])
    /\ class[current[p]][p] = result

\* loadCarryForwardRows: shipments not known to be delivered.
CarryForward == {p \in Pins : Settled(p, "in_transit")}

\* reusableConfirmedOnTime: no request is made for these.
ConfirmedOnTime == {p \in Pins : Settled(p, "on_time")}

-----------------------------------------------------------------------------
(* tracking:run in the main process.                                       *)

\* The record is inserted before the worker is spawned.  A refused token is
\* thrown out of the handler and leaves the record running; a spawn that
\* reports an error is settled.
Start ==
    /\ NoActiveChild
    /\ last < MaxRuns
    /\ stopFile' = FALSE
    /\ last' = last + 1
    /\ \/ /\ status' = [status EXCEPT ![last'] = "running"]
          /\ at' = [at EXCEPT ![last'] = "reading"]
          /\ attached' = {last'}
       \/ /\ "spawn" \in Faults
          /\ \E s \in {"running", "failed"} : status' = [status EXCEPT ![last'] = s]
          /\ UNCHANGED <<at, attached>>
    /\ UNCHANGED <<promoted, database, disk, moved, abandoned, step3, crashes>>

\* The run is stopped by a file, whatever the worker is doing.
RequestStop ==
    /\ stopFile' = TRUE
    /\ UNCHANGED <<records, database, disk, at, moved, attached, abandoned, step3, crashes>>

\* Mutant of the next definition: the end of a worker is proof enough.
OutcomeTrustsTheEnd(r) ==
    CASE at[r] \in {"completed", "aborted"} /\ stopFile -> "stopped"
      [] at[r] \in {"completed", "aborted"} /\ ~stopFile -> "complete"
      [] OTHER -> "failed"

\* What the close handler writes: a stop request is looked at before the
\* proof of promotion.
Outcome(r) ==
    CASE at[r] = "aborted" -> "blocked"
      [] at[r] = "completed" /\ stopFile -> "stopped"
      [] at[r] = "completed" /\ ~stopFile -> "complete"
      [] OTHER -> "failed"

\* Mutant of the next definition: only a worker that reported how it ended
\* has its record settled.
CloseOfReportedEnds(r) ==
    /\ r \in attached
    /\ at[r] \in Ended
    /\ attached' = attached \ {r}
    /\ IF at[r] \in {"completed", "aborted"}
       THEN /\ status' = [status EXCEPT ![r] = Outcome(r)]
            /\ promoted' = [promoted EXCEPT ![r] = Outcome(r) = "complete"]
       ELSE UNCHANGED <<status, promoted>>
    /\ UNCHANGED <<last, database, disk, at, moved, abandoned, stopFile, step3, crashes>>

\* What the settling throws is settled as a failure; what that throws is
\* swallowed, and the record stays as it is.  A handler that throws before it
\* comes to the settling (its log cannot be written) is a Close that never
\* happens.
Close(r) ==
    /\ r \in attached
    /\ at[r] \in Ended
    /\ attached' = attached \ {r}
    /\ \/ \E s \in {Outcome(r)} \cup (IF "finish" \in Faults THEN {"failed"} ELSE {}) :
             /\ status' = [status EXCEPT ![r] = s]
             /\ promoted' = [promoted EXCEPT ![r] = s = "complete"]
             /\ UNCHANGED abandoned
       \/ /\ "settle" \in Faults
          /\ abandoned' = abandoned \cup {r}
          /\ UNCHANGED <<status, promoted>>
    /\ UNCHANGED <<last, database, disk, at, moved, stopFile, step3, crashes>>

\* The app dies and is started again; its worker, in a process group of its
\* own, goes on, and nobody will settle its record.
Crash ==
    /\ crashes < MaxCrashes
    /\ crashes' = crashes + 1
    /\ attached' = {}
    /\ selection' = NoSelection
    /\ UNCHANGED <<records, database, disk, at, moved, abandoned, stopFile, filed>>

-----------------------------------------------------------------------------
(* scripts/get-tracking.js.                                                *)

WorkerGoes(r, place) == at' = [at EXCEPT ![r] = place]

\* Only the records of a worker outlive it, not what it holds in memory.
WorkerEnds(r, place) ==
    /\ WorkerGoes(r, place)
    /\ moved' = [moved EXCEPT ![r] = 0]
    /\ class' = IF order[r] = 0 THEN [class EXCEPT ![r] = NoClass] ELSE class

\* The workload is tracking.csv and the carried-forward shipments; those
\* confirmed on time are counted without a request.  An empty one is an error.
Read(r) ==
    /\ at[r] = "reading"
    /\ \E recent \in SUBSET Pins :
          LET workload == (recent \cup CarryForward) \ ConfirmedOnTime IN
          IF recent \cup CarryForward = {}
          THEN WorkerEnds(r, "error")
          ELSE /\ WorkerGoes(r, "looking")
               /\ UNCHANGED moved
               /\ class' = [class EXCEPT ![r] =
                               [p \in Pins |-> IF p \in workload THEN "due" ELSE "none"]]
    /\ UNCHANGED <<records, pointers, disk, attached, abandoned, stopFile, step3, crashes>>

\* Every shipment got an answer: nothing failed, no circuit opened, and no
\* stop request was seen at the head of the loop; one made later is not seen.
Traverse(r) ==
    /\ at[r] = "looking"
    /\ ~stopFile
    /\ \E found \in [Pins -> Results \cup {"none"}] :
          /\ \A p \in Pins : found[p] = "none" <=> class[r][p] = "none"
          /\ class' = [class EXCEPT ![r] = found]
    /\ WorkerGoes(r, "staging")
    /\ UNCHANGED <<records, pointers, disk, moved, attached, abandoned, stopFile, step3, crashes>>

\* An error, an open circuit or a stop request ends the run without promotion.
Abort(r) ==
    /\ at[r] = "looking"
    /\ WorkerEnds(r, "aborted")
    /\ UNCHANGED <<records, pointers, disk, attached, abandoned, stopFile, step3, crashes>>

\* atomicPromoteTextFiles: temporary files, then a backup of what they replace.
Stage(r) ==
    /\ at[r] = "staging"
    /\ \/ /\ WorkerGoes(r, "moving")
          /\ backup' = [backup EXCEPT ![r] = files]
          /\ UNCHANGED <<class, moved>>
       \/ "stage" \in Faults /\ WorkerEnds(r, "error") /\ UNCHANGED backup
    /\ UNCHANGED <<records, pointers, files, attached, abandoned, stopFile, step3, crashes>>

MoveFile(r) ==
    /\ at[r] = "moving"
    /\ moved[r] < NumFiles
    /\ \/ /\ files' = [files EXCEPT ![moved[r] + 1] = r]
          /\ moved' = [moved EXCEPT ![r] = @ + 1]
          /\ UNCHANGED at
       \/ "promote" \in Faults /\ WorkerGoes(r, "restoring") /\ UNCHANGED <<files, moved>>
    /\ UNCHANGED <<records, database, backup, attached, abandoned, stopFile, step3, crashes>>

\* The runs that have promoted their records.
Ordered == {r \in Runs : order[r] # 0}

\* promoteTrackingBatch: records and current pointers in one transaction.
PromoteBatch(r) ==
    /\ at[r] = "moving"
    /\ moved[r] = NumFiles
    /\ \/ /\ order' = [order EXCEPT ![r] = Cardinality(Ordered) + 1]
          /\ current' = [p \in Pins |->
                            IF class[r][p] \in {"none", "no_data"} THEN current[p] ELSE r]
          /\ WorkerGoes(r, "summary")
       \/ "promote" \in Faults /\ WorkerGoes(r, "restoring") /\ UNCHANGED <<order, current>>
    /\ UNCHANGED <<records, class, rechecked, disk, moved, attached, abandoned, stopFile, step3, crashes>>

\* Mutant of the next definition: the first file is not put back.
RestoreOffByOne(r) ==
    /\ at[r] = "restoring"
    /\ IF moved[r] <= 1
       THEN WorkerEnds(r, "error") /\ UNCHANGED files
       ELSE /\ files' = [files EXCEPT ![moved[r]] = backup[r][moved[r]]]
            /\ moved' = [moved EXCEPT ![r] = @ - 1]
            /\ UNCHANGED <<class, at>>
    /\ UNCHANGED <<records, pointers, backup, attached, abandoned, stopFile, step3, crashes>>

\* The files renamed so far are put back, the last one first.  Nothing catches
\* what writing or removing one of them throws: the worker ends with that file
\* and those before it not put back.  (A file cut off in the writing counts as
\* the run's.)
Restore(r) ==
    /\ at[r] = "restoring"
    /\ \/ /\ moved[r] = 0
          /\ WorkerEnds(r, "error")
          /\ UNCHANGED files
       \/ /\ moved[r] # 0
          /\ files' = [files EXCEPT ![moved[r]] = backup[r][moved[r]]]
          /\ moved' = [moved EXCEPT ![r] = @ - 1]
          /\ UNCHANGED <<class, at>>
       \/ /\ moved[r] # 0
          /\ "restore" \in Faults
          /\ WorkerEnds(r, "unrestored")
          /\ UNCHANGED files
    /\ UNCHANGED <<records, pointers, backup, attached, abandoned, stopFile, step3, crashes>>

\* The summary is written and the completion reported.
Summarise(r) ==
    /\ at[r] = "summary"
    /\ \/ WorkerEnds(r, "completed")
       \/ "summary" \in Faults /\ WorkerEnds(r, "error")
    /\ UNCHANGED <<records, pointers, disk, attached, abandoned, stopFile, step3, crashes>>

\* A forced stop, a shutdown, or the broken pipe of an app that died.
Kill(r) ==
    /\ at[r] \in Alive
    /\ WorkerEnds(r, "killed")
    /\ UNCHANGED <<records, pointers, disk, attached, abandoned, stopFile, step3, crashes>>

-----------------------------------------------------------------------------
(* tracking:discardIncomplete.                                             *)

Incomplete == {r \in 1 .. last : status[r] # "complete"}

\* The runs with an older record of a shipment.
Older(r, p) == {q \in Runs \ {r} : p \in Classified(q) /\ order[q] < order[r]}

\* Mutant of the next definition: no record takes the place of the one discarded.
PrecedingIsForgotten(r, p) == 0

\* The latest record before the current one that another run wrote, or a
\* claim; 0 for none.
Preceding(r, p) ==
    LET runs == Older(r, p)
        newest == CHOOSE q \in runs : \A o \in runs : order[o] <= order[q]
        claimed == rechecked[p] \in 1 .. order[r] - 1
    IN  IF runs = {} \/ (claimed /\ order[newest] <= rechecked[p])
        THEN (IF claimed THEN OfClaim ELSE 0)
        ELSE newest

\* The latest run that is not complete, even one discarded before.
Discard ==
    /\ NoActiveChild
    /\ \E r \in Incomplete :
          /\ \A q \in Incomplete : q <= r
          /\ status' = [status EXCEPT ![r] = "discarded"]
          /\ current' = [p \in Pins |->
                            IF current[p] = r THEN Preceding(r, p) ELSE current[p]]
          /\ files' = IF backup[r] = NoBackup THEN files ELSE backup[r]
    /\ UNCHANGED <<last, promoted, class, order, rechecked, backup, process, step3, crashes>>

-----------------------------------------------------------------------------
(* The queue of Step 3.                                                    *)

\* previewCandidates, and the user's choice among them.
Preview ==
    /\ QueueRun # 0
    /\ \E chosen \in SUBSET Candidates(QueueRun) \ {{}} :
          selection' = [run |-> QueueRun, pins |-> chosen]
    /\ UNCHANGED <<records, database, disk, process, filed, crashes>>

\* Mutant of the next definition: the run of the list is not compared with the
\* run that is authoritative now.
SubmitStaleList ==
    /\ NoActiveChild
    /\ selection.pins # {}
    /\ selection.pins \subseteq Candidates(selection.run)
    /\ filed' = filed \cup selection.pins
    /\ selection' = NoSelection
    /\ UNCHANGED <<records, database, disk, process, crashes>>

\* submit:run: the selected records must be late ones of the run that is
\* authoritative now, and their attempts executable (createRunSnapshot).  The
\* worker writes for each shipment it comes to a record of its own, of no run,
\* before it starts the claim; that is one step with the decision here.  What
\* else it does with the snapshot is module Submission.
Submit ==
    /\ NoActiveChild
    /\ selection.pins # {}
    /\ selection.run = QueueRun
    /\ selection.pins \subseteq Candidates(selection.run)
    /\ filed' = filed \cup selection.pins
    /\ selection' = NoSelection
    /\ \E reached \in SUBSET selection.pins :
          /\ current' = [p \in Pins |-> IF p \in reached THEN OfClaim ELSE current[p]]
          /\ rechecked' = [p \in Pins |-> IF p \in reached THEN Cardinality(Ordered)
                                         ELSE rechecked[p]]
    /\ UNCHANGED <<records, class, order, disk, process, crashes>>

WorkerStep(r) ==
    Read(r) \/ Traverse(r) \/ Abort(r) \/ Stage(r) \/ MoveFile(r) \/ PromoteBatch(r)
        \/ Restore(r) \/ Summarise(r)

Next ==
    \/ Start \/ RequestStop \/ Crash \/ Discard \/ Preview \/ Submit
    \/ \E r \in Runs : WorkerStep(r) \/ Kill(r) \/ Close(r)

\* Requests have time-outs, files and transactions end, and the operating
\* system reports the end of a child.  Nothing is assumed of the user.
Fairness == \A r \in Runs : WF_vars(WorkerStep(r)) /\ WF_vars(Close(r))

Spec == Init /\ [][Next]_vars /\ Fairness

-----------------------------------------------------------------------------
(* What should hold.                                                       *)

\* Each variable has values that the program can give it.
TypeOK ==
    /\ last \in 0 .. MaxRuns
    /\ status \in [Runs -> Statuses]
    /\ promoted \in [Runs -> BOOLEAN]
    /\ class \in [Runs -> [Pins -> Results \cup {"none", "due"}]]
    /\ order \in [Runs -> 0 .. MaxRuns]
    /\ current \in [Pins -> 0 .. MaxRuns + 1]
    /\ rechecked \in [Pins -> 0 .. MaxRuns]
    /\ files \in [Files -> 0 .. MaxRuns]
    /\ backup \in [Runs -> {NoBackup} \cup [Files -> 0 .. MaxRuns]]
    /\ at \in [Runs -> {"none"} \cup Alive \cup Ended]
    /\ moved \in [Runs -> 0 .. NumFiles]
    /\ attached \subseteq Runs
    /\ abandoned \subseteq Runs
    /\ stopFile \in BOOLEAN
    /\ selection \in [run : 0 .. MaxRuns, pins : SUBSET Pins]
    /\ filed \subseteq Pins
    /\ crashes \in 0 .. MaxCrashes

\* A run is complete only if its worker has come to a result for all of the
\* workload and has replaced every file and every record, whichever of these
\* steps failed, was stopped or killed before.  (main.js, the close handler of tracking:run)
CompleteRunsAreWhole ==
    \A r \in Runs : status[r] = "complete" =>
        /\ promoted[r] /\ order[r] # 0 /\ backup[r] # NoBackup
        /\ \A p \in Pins : class[r][p] # "due"

\* How many promotions there were when the current record of a shipment was
\* written, its own included.
Age(p) == CASE current[p] = 0 -> 0
            [] current[p] = OfClaim -> rechecked[p]
            [] OTHER -> order[current[p]]

\* A shipment that a complete run has classified never falls back to an
\* older result, whatever runs are discarded afterwards, whatever a worker
\* that outlived its app promotes late, and whatever record a claim wrote in
\* between.  (discardIncompleteTrackingRun)
ResultsOfCompleteRunsStand ==
    \A r \in Runs : Authoritative(r) => \A p \in Classified(r) : Age(p) >= order[r]

\* A file of a run stays only if the run promoted its records, or was killed
\* while it replaced the files, or could not put one back; in the last two the
\* run is not complete and the backup that a discard restores has what the
\* file replaced.  Between two apps their workers may disturb each other.
\* (atomicPromoteTextFiles, discardIncompleteTrackingRun)
FailedWorkerLeavesNoFile ==
    \A r \in Runs, f \in Files :
        crashes = 0 /\ at[r] \in Ended /\ order[r] = 0 /\ files[f] = r =>
            /\ at[r] \in {"killed", "unrestored"}
            /\ backup[r] # NoBackup /\ status[r] # "complete"

\* A claim is started only for shipments that the latest run, complete at
\* this moment, found late, and once for each, however old the list in the
\* window is.  (createRunSnapshot)
ClaimsRestOnLatestRun ==
    [][\A p \in filed' \ filed : Authoritative(last) /\ p \in Classified(last)
                                    /\ class[last][p] = "late"]_vars

\* A run that the app watches does not stay running for ever, however its
\* worker ends, unless the app dies first, or its record can be written
\* neither as what it is nor as a failure.  (the close handler of tracking:run)
RunIsSettled ==
    \A r \in Runs, n \in 0 .. MaxCrashes :
        (r \in attached /\ crashes = n)
            ~> (status[r] # "running" \/ r \in abandoned \/ crashes # n)
=============================================================================
