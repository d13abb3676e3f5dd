----------------------------- MODULE Submission -----------------------------
(***************************************************************************)
(* Step 3: the main process starts submission workers (submit:run in       *)
(* main.js), each worker (scripts/submit-claims.js) drives the portal one  *)
(* claim at a time, and both write the claim_attempts table.               *)
(*                                                                         *)
(* The app and the workers are separate processes on one SQLite file; each *)
(* database call is one transaction, hence one step.  A worker is killed,  *)
(* or dies, between any two of its steps; the app crashes at any time, and *)
(* its workers (detached process groups) may outlive it.  Such an orphan   *)
(* has lost the built-in browser, which was the app's.                     *)
(*                                                                         *)
(* A process id w in Workers stands for one submit:run call and the worker *)
(* it spawns, and is used again once that worker is gone.                  *)
(***************************************************************************)
EXTENDS ClaimAttempts

CONSTANTS
    Workers,         \* concurrent submit:run calls that the model allows
    None,            \* no process, no claim
    LegacyStatuses,  \* statuses of the attempts imported from the JSON files of old versions
    CloseFaults,     \* may the close handler throw: in its log, or in its marking (swallowed)?
    MaxRows,         \* bound: the user submits no claim that has this many rows
    Answers          \* bound: the reconciliation actions that the user takes

ASSUME WorkersAssumption == None \notin Workers \cup Claims
ASSUME LegacyAssumption ==
    LegacyStatuses \subseteq
        {"submitted", "already_submitted", "rejected", "failed", "unknown"}
ASSUME CloseFaultsAssumption == CloseFaults \in BOOLEAN
ASSUME MaxRowsAssumption == MaxRows \in Nat
ASSUME AnswersAssumption == Answers \subseteq ReconciliationActions

VARIABLES
    attempts,     \* claim -> its live rows in the database
    app,          \* is the main process running?
    stop,         \* does STOP_FILE exist?
    activeChild,  \* main.js activeChild: the worker the main process knows
    pc,           \* where each submit:run call and its worker is
    queue,        \* the worker's claimsToRun that the loop has not reached
    item,         \* the claim of the current loop iteration
    row,          \* activeAttemptId, 0 for null
    outcome,      \* the status processClaim returns
    orphans,      \* workers whose app has crashed
    filed         \* history: <<c, i>> whose final action reached the portal, which did not
                  \* refuse it, and which the user has not reconciled

dbVars     == <<attempts, filed>>
mainVars   == <<app, stop, activeChild, orphans>>
workerVars == <<pc, queue, item, row, outcome>>
vars       == <<attempts, filed, app, stop, activeChild, orphans,
                pc, queue, item, row, outcome>>

Processing == {"open", "form", "wait", "evidence", "caught", "result"}
Live       == Processing \cup {"starting", "login", "loop", "begin", "reset", "fatal"}
Locations  == Live \cup {"idle", "preparing", "exited", "unsettled"}
Outcomes   == {"submitted", "already_submitted", "rejected", "failed", "unknown"}

\* w holds row i of claim c: it began that attempt and has not recorded it.
Holds(w, c, i) == pc[w] \in Live /\ row[w] = i /\ i # 0 /\ item[w] = c

InProgress(c) == \E i \in 1..Len(attempts[c]) : attempts[c][i].status = "in_progress"

-----------------------------------------------------------------------------
(* The database after startup: what the one-time legacy import and the     *)
(* pre-0.3.3 dry-run quarantine leave is at most one row for a claim.      *)

LegacyRows ==
    { <<>> } \cup
    { <<r>> : r \in [status : LegacyStatuses, number : 1..MaxAttempts, action : {""}] }

Init ==
    /\ attempts \in [Claims -> LegacyRows]
    /\ \A c \in Tombstoned : attempts[c] = <<>>
    /\ filed = {}
    /\ app = "up"
    /\ stop = FALSE
    /\ activeChild = None
    /\ orphans = {}
    /\ pc      = [w \in Workers |-> "idle"]
    /\ queue   = [w \in Workers |-> {}]
    /\ item    = [w \in Workers |-> None]
    /\ row     = [w \in Workers |-> 0]
    /\ outcome = [w \in Workers |-> "unknown"]

-----------------------------------------------------------------------------
(* submit:run in the main process.                                         *)

\* submit:run up to its first await: it checks activeChild, clears the stop
\* file, and createRunSnapshot accepts the selection.  activeChild is still
\* null when it awaits the browser handshake.
SubmitRun(w, selection) ==
    /\ app = "up"
    /\ pc[w] = "idle"
    /\ activeChild = None
    /\ selection # {}
    /\ \A c \in selection : Executable(c, attempts[c]) /\ Len(attempts[c]) < MaxRows
    /\ stop' = FALSE
    /\ pc' = [pc EXCEPT ![w] = "preparing"]
    /\ queue' = [queue EXCEPT ![w] = selection]
    /\ UNCHANGED <<dbVars, app, activeChild, orphans, item, row, outcome>>

\* Refused after the stop file is gone: credentials, settings, the second
\* preflight, or a selected candidate that is no longer executable.
SubmitRunRefused ==
    /\ app = "up"
    /\ activeChild = None
    /\ stop' = FALSE
    /\ UNCHANGED <<dbVars, app, activeChild, orphans, workerVars>>

\* The browser handshake or its visibility check fails.
HandshakeFails(w) ==
    /\ pc[w] = "preparing"
    /\ pc' = [pc EXCEPT ![w] = "idle"]
    /\ queue' = [queue EXCEPT ![w] = {}]
    /\ UNCHANGED <<dbVars, mainVars, item, row, outcome>>

\* spawnJsonProcess assigns activeChild whatever it was.
Spawn(w) ==
    /\ pc[w] = "preparing"
    /\ activeChild' = w
    /\ pc' = [pc EXCEPT ![w] = "starting"]
    /\ UNCHANGED <<dbVars, app, stop, orphans, queue, item, row, outcome>>

\* The child's error event: finish clears the activeChild just assigned.
SpawnFails(w) ==
    /\ pc[w] = "preparing"
    /\ activeChild' = None
    /\ pc' = [pc EXCEPT ![w] = "idle"]
    /\ queue' = [queue EXCEPT ![w] = {}]
    /\ UNCHANGED <<dbVars, app, stop, orphans, item, row, outcome>>

\* Mutants of the next definition: the handler forgets to mark the attempt; it
\* runs for the active child only.
WorkerClosedWithoutMarking(w) ==
    /\ pc[w] = "exited"
    /\ w \notin orphans
    /\ activeChild' = IF activeChild = w THEN None ELSE activeChild
    /\ pc' = [pc EXCEPT ![w] = "idle"]
    /\ UNCHANGED <<dbVars, app, stop, orphans, queue, item, row, outcome>>
WorkerClosedIfActive(w) ==
    /\ pc[w] = "exited"
    /\ w \notin orphans
    /\ activeChild = w
    /\ attempts' = [c \in Claims |-> Interrupted(attempts[c])]
    /\ activeChild' = None
    /\ pc' = [pc EXCEPT ![w] = "idle"]
    /\ UNCHANGED <<filed, app, stop, orphans, queue, item, row, outcome>>

\* The child's close event: onClose marks interrupted attempts, whichever
\* worker they belong to, and finish clears activeChild if it is this one.
\* What onClose throws (the database is busy) is swallowed.
WorkerClosed(w) ==
    /\ pc[w] = "exited"
    /\ w \notin orphans
    /\ \/ attempts' = [c \in Claims |-> Interrupted(attempts[c])]
       \/ CloseFaults /\ UNCHANGED attempts
    /\ activeChild' = IF activeChild = w THEN None ELSE activeChild
    /\ pc' = [pc EXCEPT ![w] = "idle"]
    /\ UNCHANGED <<filed, app, stop, orphans, queue, item, row, outcome>>

\* The log cannot be written: the handler of the close event, or of the error
\* event of a child that did not start, throws before it marks anything or
\* finishes.  activeChild keeps its value, submit:run never returns.
CloseThrows(w) ==
    /\ CloseFaults
    /\ \/ pc[w] = "exited" /\ w \notin orphans /\ UNCHANGED activeChild
       \/ pc[w] = "preparing" /\ activeChild' = w
    /\ pc' = [pc EXCEPT ![w] = "unsettled"]
    /\ queue' = [queue EXCEPT ![w] = {}]
    /\ UNCHANGED <<dbVars, app, stop, orphans, item, row, outcome>>

\* Nobody hears of an orphan's end.
OrphanGone(w) ==
    /\ pc[w] = "exited"
    /\ w \in orphans
    /\ orphans' = orphans \ {w}
    /\ pc' = [pc EXCEPT ![w] = "idle"]
    /\ UNCHANGED <<dbVars, app, stop, activeChild, queue, item, row, outcome>>

-----------------------------------------------------------------------------
(* The worker: main() of scripts/submit-claims.js.                         *)

Goto(w, location) == pc' = [pc EXCEPT ![w] = location]

\* The process is gone, and its memory with it.
Exits(w) ==
    /\ Goto(w, "exited")
    /\ queue'   = [queue EXCEPT ![w] = {}]
    /\ item'    = [item EXCEPT ![w] = None]
    /\ row'     = [row EXCEPT ![w] = 0]
    /\ outcome' = [outcome EXCEPT ![w] = "unknown"]

\* Startup marks every interrupted attempt, whoever owns it, and keeps the
\* claims of the snapshot that may still be attempted.  A bad snapshot or
\* missing settings end the worker here.
Startup(w) ==
    /\ pc[w] = "starting"
    /\ attempts' = [c \in Claims |-> Interrupted(attempts[c])]
    /\ LET claimsToRun == {c \in queue[w] : AutomaticAttemptDecision(attempts'[c])}
       IN  \/ Exits(w)
           \/ /\ claimsToRun # {}
              /\ Goto(w, "login")
              /\ queue' = [queue EXCEPT ![w] = claimsToRun]
              /\ UNCHANGED <<item, row, outcome>>
    /\ UNCHANGED <<filed, mainVars>>

\* Sign-in and navigation to the ticket launcher.
Login(w) ==
    /\ pc[w] = "login"
    /\ \/ w \notin orphans /\ Goto(w, "loop")
       \/ Goto(w, "fatal")
    /\ UNCHANGED <<dbVars, mainVars, queue, item, row, outcome>>

\* The loop is over: a stop request, no claim left, or (break) a claim that
\* its revalidation blocks.
LoopEnds(w) ==
    /\ pc[w] = "loop"
    /\ Exits(w)
    /\ UNCHANGED <<dbVars, mainVars>>

\* Revalidation, or recording it, throws.
RevalidationFails(w) ==
    /\ pc[w] = "loop"
    /\ ~ stop
    /\ queue[w] # {}
    /\ Goto(w, "fatal")
    /\ UNCHANGED <<dbVars, mainVars, queue, item, row, outcome>>

\* The next claim passes the stop check and its revalidation.
NextClaim(w, c) ==
    /\ pc[w] = "loop"
    /\ ~ stop
    /\ c \in queue[w]
    /\ item' = [item EXCEPT ![w] = c]
    /\ queue' = [queue EXCEPT ![w] = @ \ {c}]
    /\ Goto(w, "begin")
    /\ UNCHANGED <<dbVars, mainVars, row, outcome>>

\* Mutant of the next definition: the worker trusts the snapshot's decision.
BeginWithoutDecision(w) ==
    /\ pc[w] = "begin"
    /\ attempts' = [attempts EXCEPT ![item[w]] = Begun(@)]
    /\ row' = [row EXCEPT ![w] = Len(attempts[item[w]]) + 1]
    /\ Goto(w, "open")
    /\ UNCHANGED <<filed, mainVars, queue, item, outcome>>

\* beginClaimAttempt: the decision and the INSERT are one transaction.
BeginClaimAttempt(w) ==
    /\ pc[w] = "begin"
    /\ LET c == item[w]
       IN  /\ BeginAllowed(c, attempts[c])
           /\ attempts' = [attempts EXCEPT ![c] = Begun(@)]
           /\ row' = [row EXCEPT ![w] = Len(attempts[c]) + 1]
    /\ Goto(w, "open")
    /\ UNCHANGED <<filed, mainVars, queue, item, outcome>>

\* beginClaimAttempt throws: blocked by now, or the database failed.
BeginThrows(w) ==
    /\ pc[w] = "begin"
    /\ Goto(w, "fatal")
    /\ UNCHANGED <<dbVars, mainVars, queue, item, row, outcome>>

\* processClaim opens the ticket form outside its try block.
OpenTicketPopup(w) ==
    /\ pc[w] = "open"
    /\ \/ w \notin orphans /\ Goto(w, "form")
       \/ Goto(w, "fatal")
    /\ UNCHANGED <<dbVars, mainVars, queue, item, row, outcome>>

\* fillClaim throws, or clickCreateTicket does before it clicks.
FillFails(w) ==
    /\ pc[w] = "form"
    /\ Goto(w, "caught")
    /\ UNCHANGED <<dbVars, mainVars, queue, item, row, outcome>>

\* clickCreateTicket clicks.  The click may or may not reach the portal; when
\* it throws, the page looks changed (wait for the outcome) or not (throw).
ClickCreateTicket(w) ==
    /\ pc[w] = "form"
    /\ w \notin orphans
    /\ \E reached \in SUBSET {<<item[w], row[w]>>} : filed' = filed \cup reached
    /\ \E location \in {"wait", "caught"} : Goto(w, location)
    /\ UNCHANGED <<attempts, mainVars, queue, item, row, outcome>>

\* waitForClaimOutcome classifies the page: unknown on a timeout, or when
\* success-like text has no confirmation number.
WaitForClaimOutcome(w) ==
    /\ pc[w] = "wait"
    /\ w \notin orphans
    /\ \E status \in Outcomes :
          /\ outcome' = [outcome EXCEPT ![w] = status]
          /\ filed' = IF status \in {"failed", "rejected"}
                      THEN filed \ {<<item[w], row[w]>>} ELSE filed
    /\ Goto(w, "evidence")
    /\ UNCHANGED <<attempts, mainVars, queue, item, row>>

\* It throws: the page closed, or the CAPTCHA wait timed out or was stopped.
WaitFails(w) ==
    /\ pc[w] = "wait"
    /\ Goto(w, "caught")
    /\ UNCHANGED <<dbVars, mainVars, queue, item, row, outcome>>

\* saveClaimArtifacts for the outcome; a failed write is caught like the rest.
SaveEvidence(w) ==
    /\ pc[w] = "evidence"
    /\ \E location \in {"result", "caught"} : Goto(w, location)
    /\ UNCHANGED <<dbVars, mainVars, queue, item, row, outcome>>

\* The catch block of processClaim: classifyAutomationFailure picks a status
\* from the error's text; saving the evidence may throw once more.
CatchClaimError(w) ==
    /\ pc[w] = "caught"
    /\ \/ /\ \E status \in {"failed", "unknown", "rejected"} :
                outcome' = [outcome EXCEPT ![w] = status]
          /\ Goto(w, "result")
       \/ /\ Goto(w, "fatal")
          /\ UNCHANGED outcome
    /\ UNCHANGED <<dbVars, mainVars, queue, item, row>>

\* completeClaimAttempt, then activeAttemptId = null.
CompleteClaimAttempt(w) ==
    /\ pc[w] = "result"
    /\ attempts' = [attempts EXCEPT ![item[w]] = Completed(@, row[w], outcome[w])]
    /\ row' = [row EXCEPT ![w] = 0]
    /\ item' = [item EXCEPT ![w] = None]
    /\ outcome' = [outcome EXCEPT ![w] = "unknown"]
    /\ Goto(w, "reset")
    /\ UNCHANGED <<filed, mainVars, queue>>

\* It throws: the transaction is rolled back, activeAttemptId is kept.
CompleteThrows(w) ==
    /\ pc[w] = "result"
    /\ Goto(w, "fatal")
    /\ UNCHANGED <<dbVars, mainVars, queue, item, row, outcome>>

\* resetToTicketLauncher, unless this was the last claim or a stop is due.
ResetToTicketLauncher(w) ==
    /\ pc[w] = "reset"
    /\ \/ (w \notin orphans \/ stop \/ queue[w] = {}) /\ Goto(w, "loop")
       \/ ~ stop /\ queue[w] # {} /\ Goto(w, "fatal")
    /\ UNCHANGED <<dbVars, mainVars, queue, item, row, outcome>>

\* The catch block of main(): an attempt still active is recorded unknown.
FatalError(w) ==
    /\ pc[w] = "fatal"
    /\ attempts' = IF row[w] = 0 THEN attempts
                   ELSE [attempts EXCEPT ![item[w]] = Completed(@, row[w], "unknown")]
    /\ Exits(w)
    /\ UNCHANGED <<filed, mainVars>>

\* The process is killed, or an exception escapes main().
WorkerDies(w) ==
    /\ pc[w] \in Live
    /\ Exits(w)
    /\ UNCHANGED <<dbVars, mainVars>>

-----------------------------------------------------------------------------
(* The user and the main process, while workers run.                       *)

RequestStop ==
    /\ app = "up"
    /\ stop' = TRUE
    /\ UNCHANGED <<dbVars, app, activeChild, orphans, workerVars>>

\* SIGTERM, then SIGKILL, to activeChild and to no other worker.
ForceStop ==
    /\ app = "up"
    /\ activeChild # None
    /\ pc[activeChild] \in Live
    /\ stop' = TRUE
    /\ Exits(activeChild)
    /\ UNCHANGED <<dbVars, app, activeChild, orphans>>

\* reconciliation:update, with any attempt id, during a run or not.
ReconcileAttempt(c, i, action) ==
    /\ app = "up"
    /\ CanReconcile(attempts[c], i)
    /\ attempts' = [attempts EXCEPT ![c] = Reconciled(@, i, action)]
    /\ filed' = filed \ {<<c, i>>}
    /\ UNCHANGED <<mainVars, workerVars>>

\* The main process dies.  Pending submit:run calls die with it.
AppCrash ==
    /\ app = "up"
    /\ app' = "down"
    /\ activeChild' = None
    /\ orphans' = orphans \cup {w \in Workers : pc[w] \in Live}
    /\ pc' = [w \in Workers |->
                 IF pc[w] \in Live \/ w \in orphans THEN pc[w] ELSE "idle"]
    /\ queue' = [w \in Workers |-> IF pc[w] = "preparing" THEN {} ELSE queue[w]]
    /\ UNCHANGED <<dbVars, stop, item, row, outcome>>

\* startApplication: the database is opened and interrupted attempts marked.
AppStart ==
    /\ app = "down"
    /\ app' = "up"
    /\ attempts' = [c \in Claims |-> Interrupted(attempts[c])]
    /\ UNCHANGED <<filed, stop, activeChild, orphans, workerVars>>

-----------------------------------------------------------------------------

WorkerStep(w) ==
    \/ Startup(w) \/ Login(w) \/ LoopEnds(w) \/ RevalidationFails(w)
    \/ \E c \in Claims : NextClaim(w, c)
    \/ BeginClaimAttempt(w) \/ BeginThrows(w)
    \/ OpenTicketPopup(w) \/ FillFails(w) \/ ClickCreateTicket(w)
    \/ WaitForClaimOutcome(w) \/ WaitFails(w) \/ SaveEvidence(w) \/ CatchClaimError(w)
    \/ CompleteClaimAttempt(w) \/ CompleteThrows(w)
    \/ ResetToTicketLauncher(w) \/ FatalError(w)

SubmitRunStep(w) == HandshakeFails(w) \/ Spawn(w) \/ SpawnFails(w)

ProcessGone(w) == WorkerClosed(w) \/ CloseThrows(w) \/ OrphanGone(w)

UserStep ==
    \/ \E w \in Workers, selection \in SUBSET Claims : SubmitRun(w, selection)
    \/ SubmitRunRefused
    \/ RequestStop
    \/ ForceStop
    \/ \E c \in Claims : \E i \in 1..Len(attempts[c]), action \in Answers :
          ReconcileAttempt(c, i, action)

Next ==
    \/ UserStep
    \/ \E w \in Workers : WorkerStep(w) \/ SubmitRunStep(w) \/ ProcessGone(w) \/ WorkerDies(w)
    \/ AppCrash
    \/ AppStart

Spec == Init /\ [][Next]_vars

(***************************************************************************)
(* A worker's steps are timed out (page calls, CAPTCHA and verification    *)
(* waits, the outcome wait), so none lasts forever; so is the handshake;   *)
(* and the operating system reports a child's end.  The user, a crash, and *)
(* a restart of the app are owed nothing.                                  *)
(***************************************************************************)
Fairness ==
    \A w \in Workers :
        /\ WF_vars(WorkerStep(w))
        /\ WF_vars(SubmitRunStep(w))
        /\ WF_vars(ProcessGone(w))

FairSpec == Spec /\ Fairness

-----------------------------------------------------------------------------
(* Safety.                                                                 *)

\* Every variable keeps its type; a worker holds a row only of a claim.
TypeOK ==
    /\ attempts \in [Claims -> Seq(Row)]
    /\ filed \subseteq Claims \X (Nat \ {0})
    /\ app \in {"up", "down"}
    /\ stop \in BOOLEAN
    /\ activeChild \in Workers \cup {None}
    /\ orphans \subseteq Workers
    /\ pc \in [Workers -> Locations]
    /\ queue \in [Workers -> SUBSET Claims]
    /\ item \in [Workers -> Claims \cup {None}]
    /\ row \in [Workers -> Nat]
    /\ outcome \in [Workers -> Outcomes]

\* Only a claim's latest attempt can be in progress: no attempt is begun
\* before the one it follows was recorded, interrupted or reconciled, even
\* with two workers, an orphan of a crashed app, or a restart in between.
OneOpenAttempt ==
    \A c \in Claims : \A i \in 1..Len(attempts[c]) :
        attempts[c][i].status = "in_progress" => i = Len(attempts[c])

\* A new attempt follows only one that a worker recorded as failed, or that
\* the user reconciled: an unknown, interrupted or terminal outcome is never
\* superseded on the program's own decision.
SupersededAttemptsAreSettled ==
    \A c \in Claims : \A i \in 1..Len(attempts[c]) :
        i < Len(attempts[c]) =>
            attempts[c][i].action # "" \/ attempts[c][i].status = "failed"

\* The retry limit holds across runs, crashes and workers: past MaxAttempts
\* every further attempt was approved by the user.
RetryLimit ==
    \A c \in Claims : \A i \in 1..Len(attempts[c]) :
        i < Len(attempts[c]) /\ attempts[c][i].number >= MaxAttempts =>
            attempts[c][i].action # ""

\* Two workers fill in the same claim at the same time only if the user
\* reconciled the first one's attempt while it was still running.
NoConcurrentSubmissionOfOneClaim ==
    \A v, w \in Workers, c \in Claims :
        \A i, j \in 1..Len(attempts[c]) :
            v # w /\ Holds(v, c, i) /\ Holds(w, c, j) /\ i <= j =>
                attempts[c][i].action # ""

\* The queue's reading of a claim's rows and the transaction's are two pieces
\* of code.  They agree in every reachable database: what the preview offers
\* beginClaimAttempt accepts, and what it hides beginClaimAttempt refuses.
QueueAgreesWithDecision ==
    \A c \in Claims : Executable(c, attempts[c]) <=> BeginAllowed(c, attempts[c])

\* No claim gets lost between the two lists: one that Step 3 no longer offers
\* has a terminal outcome, or is listed for reconciliation.
NoClaimIsStranded ==
    \A c \in Claims :
        \/ Executable(c, attempts[c])
        \/ NeedsReconciliation(attempts[c])
        \/ c \in Tombstoned
        \/ Latest(attempts[c]).status \in TerminalStates

-----------------------------------------------------------------------------
(* What no step may do.                                                    *)

\* An outcome a worker read from the portal stays as recorded: no later
\* worker, startup or reconciliation changes a row that has one.
WorkerOutcomeIsFinal ==
    [][\A c \in Claims : \A i \in 1..Len(attempts[c]) :
          attempts[c][i].status \in {"submitted", "already_submitted", "rejected"} =>
              attempts'[c][i] = attempts[c][i]]_vars

\* An open attempt becomes anything but unknown only by the result of the
\* worker that holds it, or by the user: a crash, a kill, another worker's
\* startup and a fatal error all leave it for reconciliation.
InterruptionLeavesUnknown ==
    [][\A c \in Claims : \A i \in 1..Len(attempts[c]) :
          attempts[c][i].status = "in_progress" =>
              \/ attempts'[c][i].status \in UnresolvedStates
              \/ attempts'[c][i].action # ""
              \/ \E w \in Workers :
                    /\ pc[w] = "result" /\ Holds(w, c, i)
                    /\ attempts'[c][i].status = outcome[w]]_vars

-----------------------------------------------------------------------------
(* What the rows and workers of a claim amount to.                         *)

StandingOf(status) ==
    CASE status = "in_progress" -> "open"
      [] status = "unknown" -> "uncertain"
      [] status = "failed" -> "failed"
      [] status = "submitted_manual" -> "confirmed"
      [] status \in {"not_submitted", "retry_approved"} -> "approved"
      [] status \in {"submitted", "already_submitted", "rejected"} -> "final"

Standing(rows) == IF rows = <<>> THEN "none" ELSE StandingOf(Latest(rows).status)

Tries(rows) == IF rows = <<>> THEN 0 ELSE Latest(rows).number

Held == {c \in Claims : \E w \in Workers : Holds(w, c, Len(attempts[c]))}

Promise == INSTANCE ClaimPromise WITH
    standing <- [c \in Claims |-> Standing(attempts[c])],
    tries    <- [c \in Claims |-> Tries(attempts[c])],
    held     <- Held

\* However many workers, orphans, crashes and marking startups there are, each
\* claim behaves as if it were tried once at a time: what a worker says of a
\* superseded attempt does not touch the attempt that followed it, and the
\* worker of the latest attempt reports at most once.
ClaimsAreSequential == Promise!Spec

-----------------------------------------------------------------------------
(* Liveness.                                                               *)

\* The attempt of a worker that the app knows does not stay in progress: the
\* worker records it, or the close handler does, or the app itself is gone.
\* (What an orphan leaves in progress waits for the next startup; so does what
\* the close handler fails to mark, or to reach because its log cannot be
\* written: hence this is checked without CloseFaults.)
AttemptIsSettled ==
    \A w \in Workers, c \in Claims :
        (w \notin orphans /\ \E i \in 1..Len(attempts[c]) : Holds(w, c, i))
            ~> (~ InProgress(c) \/ app = "down")

\* Every submit:run call ends, whatever happens to its worker, and its
\* process id is free again, as long as the close handler can write its log.
RunTerminates ==
    \A w \in Workers : pc[w] # "idle" ~> pc[w] = "idle"

-----------------------------------------------------------------------------
(* What the documents say, and the code does not keep.                     *)

BeginsAttempt(c) == Len(attempts'[c]) > Len(attempts[c])

\* "uncertain final actions are never retried automatically" (README.md): a
\* new attempt begins only when no earlier one of the claim may be filed at
\* the portal, unless the user reconciled that one.
UncertainFinalActionNeverRetried ==
    [][\A c \in Claims : BeginsAttempt(c) =>
          \A i \in 1..Len(attempts[c]) : <<c, i>> \notin filed]_vars
=============================================================================
