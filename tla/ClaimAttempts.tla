---------------------------- MODULE ClaimAttempts ----------------------------
(***************************************************************************)
(* The claim_attempts table of lib/claim-database.js, one claim at a time. *)
(*                                                                         *)
(* A claim's live (dry_run = 0) rows, in insertion order, are a sequence.  *)
(* The main process never starts a dry run, so dry-run rows are left out.  *)
(* Every operator is a function of one claim's rows: SQL reads and UPDATEs *)
(* of lib/claim-database.js, and the second reading of the same rows that  *)
(* lib/step3-queue-service.js has for the Step 3 preview and snapshot.     *)
(*                                                                         *)
(* A row keeps what decides the claim's future: its status, its            *)
(* attempt_number and its reconciliation_action ("" until reconciled).     *)
(***************************************************************************)
EXTENDS Integers, Sequences

CONSTANTS
    Claims,       \* the shipments that have a LATE_CANDIDATE record
    Tombstoned,   \* those a privacy deletion left a claim_duplicate_tombstone for
    MaxAttempts   \* MAX_CLAIM_ATTEMPTS: 3 unless the environment overrides it

ASSUME ClaimsAssumption == Tombstoned \subseteq Claims
ASSUME MaxAttemptsAssumption == MaxAttempts \in Nat \ {0}

-----------------------------------------------------------------------------
(* The status vocabulary.                                                  *)

TerminalStates   == {"submitted", "submitted_manual", "already_submitted", "rejected"}
UnresolvedStates == {"in_progress", "unknown"}
RetryableStates  == {"failed", "not_submitted", "retry_approved"}
Statuses         == TerminalStates \cup UnresolvedStates \cup RetryableStates

ReconciliationActions == {"submitted", "not_submitted", "retry"}
ReconciledStatus ==
    [a \in ReconciliationActions |->
        CASE a = "submitted"     -> "submitted_manual"
          [] a = "not_submitted" -> "not_submitted"
          [] a = "retry"         -> "retry_approved"]

Row == [status : Statuses, number : Nat \ {0}, action : ReconciliationActions \cup {""}]

Latest(rows) == rows[Len(rows)]

-----------------------------------------------------------------------------
(* What the database decides.                                              *)

\* Mutants of the next definition: an unknown row does not block; the limit is
\* off by one.
DecisionIgnoresUnknown(rows) ==
    rows # <<>> =>
        /\ Latest(rows).status \notin TerminalStates \cup {"in_progress"}
        /\ Latest(rows).status = "failed" => Latest(rows).number < MaxAttempts
DecisionLimitOffByOne(rows) ==
    rows # <<>> =>
        /\ Latest(rows).status \notin TerminalStates \cup UnresolvedStates
        /\ Latest(rows).status = "failed" => Latest(rows).number <= MaxAttempts

\* automaticAttemptDecision(latestAttemptState(tracking)): only the latest
\* row counts.
AutomaticAttemptDecision(rows) ==
    rows # <<>> =>
        /\ Latest(rows).status \notin
              {"submitted", "already_submitted", "rejected", "submitted_manual"}
        /\ Latest(rows).status \notin {"unknown", "in_progress"}
        /\ Latest(rows).status = "failed" => Latest(rows).number < MaxAttempts

\* beginClaimAttempt throws on a tombstone, or when the decision is negative.
BeginAllowed(c, rows) ==
    /\ c \notin Tombstoned
    /\ AutomaticAttemptDecision(rows)

\* The row beginClaimAttempt inserts.  attempt_number is 1 + MAX over the
\* claim's rows, which is the latest row's: numbers only grow.
Begun(rows) ==
    Append(rows, [status |-> "in_progress",
                  number |-> IF rows = <<>> THEN 1 ELSE Latest(rows).number + 1,
                  action |-> ""])

\* Mutant of the next definition: the claim's latest row is updated, whichever
\* attempt the worker holds.
CompletedLatest(rows, i, status) == [rows EXCEPT ![Len(rows)].status = status]

\* completeClaimAttempt: an unconditional UPDATE of one row by its id.  It
\* does not look at the status the row has by then.
Completed(rows, i, status) == [rows EXCEPT ![i].status = status]

\* Mutant of the next definition: an interrupted attempt counts as a failure.
InterruptedAsFailed(rows) ==
    [i \in 1..Len(rows) |->
        IF rows[i].status = "in_progress"
        THEN [rows[i] EXCEPT !.status = "failed"]
        ELSE rows[i]]

\* markInterruptedAttempts: every row still in progress becomes unknown.
Interrupted(rows) ==
    [i \in 1..Len(rows) |->
        IF rows[i].status = "in_progress"
        THEN [rows[i] EXCEPT !.status = "unknown"]
        ELSE rows[i]]

\* Mutant of the next definition: the status is not looked at.
CanReconcileAnything(rows, i) == i \in 1..Len(rows)

\* reconcileAttempt: any row by its id, superseded or not, unless terminal.
CanReconcile(rows, i) ==
    /\ i \in 1..Len(rows)
    /\ rows[i].status \in
          {"unknown", "in_progress", "failed", "not_submitted", "retry_approved"}

Reconciled(rows, i, action) ==
    [rows EXCEPT ![i].status = ReconciledStatus[action], ![i].action = action]

\* Mutant of the next definition: the last permitted failure is not listed.
NeedsReconciliationPastLimit(rows) ==
    /\ rows # <<>>
    /\ \/ Latest(rows).status \in UnresolvedStates
       \/ Latest(rows).status = "failed" /\ Latest(rows).number > MaxAttempts

\* listReconciliation shows a claim whose latest row needs the user.
NeedsReconciliation(rows) ==
    /\ rows # <<>>
    /\ \/ Latest(rows).status \in {"unknown", "in_progress"}
       \/ Latest(rows).status = "failed" /\ Latest(rows).number >= MaxAttempts

-----------------------------------------------------------------------------
(* What the Step 3 queue decides, with code of its own.                    *)

\* Mutant of the next definition: the queue does not know the retry limit.
ExecutionStateWithoutLimit(c, rows) ==
    IF c \in Tombstoned THEN "tombstoned"
    ELSE IF rows = <<>> \/ Latest(rows).status \in RetryableStates THEN "executable"
    ELSE "otherwise_blocked"

\* candidateExecutionState.  A tombstone's three blocked presentations
\* (submitted, already_submitted, terminal_failure) are one here.
CandidateExecutionState(c, rows) ==
    IF c \in Tombstoned THEN "tombstoned"
    ELSE IF rows = <<>> THEN "executable"
    ELSE LET status == Latest(rows).status
         IN  CASE status \in {"submitted", "submitted_manual"} -> "submitted"
               [] status = "already_submitted" -> "already_submitted"
               [] status \in UnresolvedStates -> "unresolved_attempt"
               [] status = "rejected" -> "terminal_failure"
               [] status = "failed" -> IF Latest(rows).number >= MaxAttempts
                                       THEN "reconciliation_required"
                                       ELSE "executable"
               [] status \in RetryableStates \ {"failed"} -> "executable"
               [] OTHER -> "otherwise_blocked"

Executable(c, rows) == CandidateExecutionState(c, rows) = "executable"
=============================================================================
