----------------------------- MODULE Operations -----------------------------
(***************************************************************************)
(* Which operations of the main process exclude each other.                *)
(*                                                                         *)
(* lib/operation-coordinator.js keeps the tokens of active protected       *)
(* operations; main.js keeps the one activeChild; the IPC handlers of      *)
(* main.js and the updater (lib/update-install-guard.js) look at either or *)
(* at both, and await dialogs, the browser, backups and workers between    *)
(* the look and the act.                                                   *)
(*                                                                         *)
(* A call k in Calls is one IPC call, and the worker it spawns.  The main  *)
(* process runs one synchronous section at a time; a section during which  *)
(* a worker process may run matters, and holds "sync" while it lasts.      *)
(* Handlers that begin and end their token in one section with no other    *)
(* effect on this state (a reconciliation, a discarded Step 2 run) are     *)
(* stuttering steps.                                                       *)
(***************************************************************************)
EXTENDS Integers

CONSTANTS
    Calls,   \* concurrent IPC calls that the model allows
    None,    \* no call
    Faults   \* may starting a submission throw halfway (run record, directories, spawn),
             \* and the end of any worker (its log cannot be written)?

ASSUME CallsAssumption == None \notin Calls
ASSUME FaultsAssumption == Faults \in BOOLEAN

VARIABLES
    app,          \* "up", "exited" by a quit, or "crashed"
    sync,         \* the call whose synchronous section runs, None between sections
    active,       \* coordinator.active: the tokens of protected operations
    updateLocked, \* coordinator.updateLocked
    activeChild,  \* main.js activeChild
    pc,           \* where each call is
    child         \* the worker process of each call

vars == <<app, sync, active, updateLocked, activeChild, pc, child>>

\* PROTECTED_OPERATIONS that outlast a section or exclude others.  Step 1 and
\* the Step 2 modes share one name, as do backups and clearing the browser
\* session (authoritative_data_mutation).
OperationNames == {"data_worker", "step3_live_run", "setup_assistant", "data_copy",
                   "backup_restore", "privacy_deletion"}

\* A submission holds two tokens: its handler's and its worker's.
Token(op, k, part) == [operation |-> op, call |-> k, part |-> part]
Tokens == [operation : OperationNames, call : Calls, part : {"handler", "worker"}]

Places == {"idle", "thrown", "unsettled", "worker", "preparing", "submission", "not_started", "ending",
           "restore_dialog", "restoring", "copy_dialog", "copying", "deleting", "assistant",
           "backup", "marker", "replacing", "quitting"}
Children == {"none", "starting", "alive", "closed", "orphan"}

Init ==
    /\ app = "up"
    /\ sync = None
    /\ active = {}
    /\ updateLocked = FALSE
    /\ activeChild = None
    /\ pc = [k \in Calls |-> "idle"]
    /\ child = [k \in Calls |-> "none"]

-----------------------------------------------------------------------------
(* The coordinator.                                                        *)

hasActive(operation) == \E t \in active : t.operation = operation

\* Mutant of the next definition: the assistant does not block the others.
MayBeginDuringAssistant(operation) ==
    /\ ~ updateLocked
    /\ operation = "setup_assistant" => active = {}

\* begin throws when an update is being installed, or when the setup assistant
\* would not be alone.
MayBegin(operation) ==
    /\ ~ updateLocked
    /\ operation = "setup_assistant" => active = {}
    /\ operation # "setup_assistant" => ~ hasActive("setup_assistant")

begin(operation, k, part) ==
    /\ MayBegin(operation)
    /\ active' = active \cup {Token(operation, k, part)}

end(k, part) == active' = {t \in active : t.call # k \/ t.part # part}

assertInactive == active = {}

-----------------------------------------------------------------------------

\* The main thread is free to run another section.
MainTurn == app = "up" /\ sync = None

Goto(k, place) == pc' = [pc EXCEPT ![k] = place]

\* Step 1 and Step 2: the check of activeChild and the spawn are one section.
WorkerRun(k) ==
    /\ MainTurn
    /\ pc[k] = "idle" /\ child[k] = "none"
    /\ activeChild = None
    /\ begin("data_worker", k, "worker")
    /\ activeChild' = k
    /\ child' = [child EXCEPT ![k] = "starting"]
    /\ Goto(k, "worker")
    /\ UNCHANGED <<app, sync, updateLocked>>

\* submit:run up to its await of the browser handshake.  It checks the
\* assistant and activeChild, and leaves activeChild null.
SubmitRun(k) ==
    /\ MainTurn
    /\ pc[k] = "idle" /\ child[k] = "none"
    /\ ~ hasActive("setup_assistant")
    /\ activeChild = None
    /\ begin("step3_live_run", k, "handler")
    /\ Goto(k, "preparing")
    /\ UNCHANGED <<app, sync, updateLocked, activeChild, child>>

\* Between begin and the handshake the run record and its directories are
\* written outside any try block.
SubmitSetupThrows(k) ==
    /\ Faults
    /\ MainTurn
    /\ pc[k] = "idle" /\ child[k] = "none"
    /\ ~ hasActive("setup_assistant")
    /\ activeChild = None
    /\ begin("step3_live_run", k, "handler")
    /\ Goto(k, "thrown")
    /\ UNCHANGED <<app, sync, updateLocked, activeChild, child>>

\* Mutant of the next definition: the error path forgets the token.
HandshakeFailsKeepsToken(k) ==
    /\ MainTurn
    /\ pc[k] = "preparing"
    /\ Goto(k, "idle")
    /\ UNCHANGED <<app, sync, active, updateLocked, activeChild, child>>

\* The browser handshake or its visibility check fails.
HandshakeFails(k) ==
    /\ MainTurn
    /\ pc[k] = "preparing"
    /\ end(k, "handler")
    /\ Goto(k, "idle")
    /\ UNCHANGED <<app, sync, updateLocked, activeChild, child>>

\* Mutant of the next definition: the worker runs under no token of its own.
SpawnWithoutToken(k) ==
    /\ MainTurn
    /\ pc[k] = "preparing"
    /\ end(k, "handler")
    /\ activeChild' = k
    /\ child' = [child EXCEPT ![k] = "starting"]
    /\ Goto(k, "submission")
    /\ UNCHANGED <<app, sync, updateLocked>>

\* spawnJsonProcess for a submission.
SpawnSubmission(k) ==
    /\ MainTurn
    /\ pc[k] = "preparing"
    /\ begin("step3_live_run", k, "worker")
    /\ activeChild' = k
    /\ child' = [child EXCEPT ![k] = "starting"]
    /\ Goto(k, "submission")
    /\ UNCHANGED <<app, sync, updateLocked>>

\* A failed handshake or start cannot be recorded in the run's record, or
\* spawnJsonProcess throws, having ended its own token: submit:run does not
\* catch these.
PreparationThrows(k) ==
    /\ Faults
    /\ MainTurn
    /\ pc[k] \in {"preparing", "not_started"}
    /\ Goto(k, "thrown")
    /\ UNCHANGED <<app, sync, active, updateLocked, activeChild, child>>

ChildStarts(k) ==
    /\ child[k] = "starting"
    /\ child' = [child EXCEPT ![k] = "alive"]
    /\ UNCHANGED <<app, sync, active, updateLocked, activeChild, pc>>

\* The worker ends: done, stopped, killed, or crashed.
ChildDies(k) ==
    /\ child[k] \in {"alive", "orphan"}
    /\ child' = [child EXCEPT ![k] = IF child[k] = "alive" THEN "closed" ELSE "none"]
    /\ UNCHANGED <<app, sync, active, updateLocked, activeChild, pc>>

\* finish, for the child's close event or its error event.
Finish(k) ==
    /\ MainTurn
    /\ child[k] \in {"starting", "closed"}
    /\ child' = [child EXCEPT ![k] = "none"]
    /\ activeChild' = IF activeChild = k THEN None ELSE activeChild
    /\ end(k, "worker")
    /\ Goto(k, IF pc[k] = "worker" THEN "idle"
               ELSE IF child[k] = "starting" THEN "not_started" ELSE "ending")
    /\ UNCHANGED <<app, sync, updateLocked>>

\* The log cannot be written: the handler of the close or the error event throws
\* before it reaches finish.  activeChild and the token stay, and whoever awaits
\* the worker waits forever.
FinishThrows(k) ==
    /\ Faults
    /\ MainTurn
    /\ child[k] \in {"starting", "closed"}
    /\ child' = [child EXCEPT ![k] = "none"]
    /\ Goto(k, "unsettled")
    /\ UNCHANGED <<app, sync, active, updateLocked, activeChild>>

\* The rest of submit:run once its worker is gone, or did not start.
SubmitEnds(k) ==
    /\ MainTurn
    /\ pc[k] \in {"ending", "not_started"}
    /\ end(k, "handler")
    /\ Goto(k, "idle")
    /\ UNCHANGED <<app, sync, updateLocked, activeChild, child>>

-----------------------------------------------------------------------------
(* Backups, privacy deletion, the browser session, the setup assistant.    *)

\* backup:restore checks activeChild, and asks the user for a file.
RestoreRequested(k) ==
    /\ MainTurn
    /\ pc[k] = "idle" /\ child[k] = "none"
    /\ activeChild = None
    /\ Goto(k, "restore_dialog")
    /\ UNCHANGED <<app, sync, active, updateLocked, activeChild, child>>

\* The restore itself is synchronous, and checks the coordinator alone.
Restore(k) ==
    /\ MainTurn
    /\ pc[k] = "restore_dialog"
    /\ begin("backup_restore", k, "handler")
    /\ sync' = k
    /\ Goto(k, "restoring")
    /\ UNCHANGED <<app, updateLocked, activeChild, child>>

\* backup:create asks for a file.  browser:clearSession, which takes its token
\* at once and only if activeChild is null, is the special case without dialog.
CopyRequested(k) ==
    /\ MainTurn
    /\ pc[k] = "idle" /\ child[k] = "none"
    /\ Goto(k, "copy_dialog")
    /\ UNCHANGED <<app, sync, active, updateLocked, activeChild, child>>

Copy(k) ==
    /\ MainTurn
    /\ pc[k] = "copy_dialog"
    /\ begin("data_copy", k, "handler")
    /\ Goto(k, "copying")
    /\ UNCHANGED <<app, sync, updateLocked, activeChild, child>>

\* The user cancels the dialog, or begin refuses the token.
DialogEnds(k) ==
    /\ MainTurn
    /\ pc[k] \in {"restore_dialog", "copy_dialog"}
    /\ Goto(k, "idle")
    /\ UNCHANGED <<app, sync, active, updateLocked, activeChild, child>>

\* privacy:delete: assertInactive, begin and the deletion are one section.
DeletePrivacyData(k) ==
    /\ MainTurn
    /\ pc[k] = "idle" /\ child[k] = "none"
    /\ assertInactive
    /\ begin("privacy_deletion", k, "handler")
    /\ sync' = k
    /\ Goto(k, "deleting")
    /\ UNCHANGED <<app, updateLocked, activeChild, child>>

\* setupAssistant:open; a second open closes the first in its own steps.
OpenAssistant(k) ==
    /\ MainTurn
    /\ pc[k] = "idle" /\ child[k] = "none"
    /\ assertInactive
    /\ begin("setup_assistant", k, "handler")
    /\ Goto(k, "assistant")
    /\ UNCHANGED <<app, sync, updateLocked, activeChild, child>>

\* The finally block of each of these, and closeSetupAssistant.
HandlerEnds(k) ==
    /\ app = "up"
    /\ pc[k] \in {"restoring", "deleting", "copying", "assistant"}
    /\ sync \in {None, k}
    /\ sync' = None
    /\ end(k, "handler")
    /\ Goto(k, "idle")
    /\ UNCHANGED <<app, updateLocked, activeChild, child>>

-----------------------------------------------------------------------------
(* prepareInstall and installUpdate, and the end of the app.               *)

Updating == {"backup", "marker", "replacing"}

\* updates:open is busy with one update at a time.
PrepareInstall(k) ==
    /\ MainTurn
    /\ pc[k] = "idle" /\ child[k] = "none"
    /\ \A other \in Calls : pc[other] \notin Updating
    /\ assertInactive
    /\ Goto(k, "backup")
    /\ UNCHANGED <<app, sync, active, updateLocked, activeChild, child>>

\* The backup is done: assertInactive once more, and lock, in one section.
LockForUpdate(k) ==
    /\ MainTurn
    /\ pc[k] = "backup"
    /\ assertInactive
    /\ updateLocked' = TRUE
    /\ Goto(k, "marker")
    /\ UNCHANGED <<app, sync, active, activeChild, child>>

\* beforeExit, once the marker is written: on Linux the executable is replaced.
StartReplacement(k) ==
    /\ MainTurn
    /\ pc[k] = "marker"
    /\ assertInactive
    /\ Goto(k, "replacing")
    /\ UNCHANGED <<app, sync, active, updateLocked, activeChild, child>>

\* beforeExit again (elsewhere, for the first time), the launcher is started,
\* the app asked to quit; the finally block of prepareInstall unlocks.
FinishReplacement(k) ==
    /\ MainTurn
    /\ pc[k] \in {"marker", "replacing"}
    /\ assertInactive
    /\ updateLocked' = FALSE
    /\ Goto(k, "quitting")
    /\ UNCHANGED <<app, sync, active, activeChild, child>>

\* The backup fails, an operation has begun meanwhile, the marker cannot be
\* written, the installation throws, or (macOS) the user keeps the app open.
InstallFails(k) ==
    /\ MainTurn
    /\ pc[k] \in {"backup", "marker", "replacing"}
    /\ updateLocked' = IF pc[k] = "backup" THEN updateLocked ELSE FALSE
    /\ Goto(k, "idle")
    /\ UNCHANGED <<app, sync, active, activeChild, child>>

\* before-quit, or the window's close event, prevents the quit.
QuitPrevented(k) ==
    /\ MainTurn
    /\ pc[k] = "quitting"
    /\ ~ assertInactive
    /\ Goto(k, "idle")
    /\ UNCHANGED <<app, sync, active, updateLocked, activeChild, child>>

\* What is left of a main process that ends: workers, as orphans.
MemoryLost ==
    /\ sync' = None
    /\ active' = {}
    /\ updateLocked' = FALSE
    /\ activeChild' = None
    /\ pc' = [k \in Calls |-> "idle"]
    /\ child' = [k \in Calls |-> IF child[k] \in {"starting", "alive", "orphan"}
                                  THEN "orphan" ELSE "none"]

\* An orderly quit, by the user or for an update: before-quit and the
\* window's close event let it pass when no operation is active.
Quit ==
    /\ MainTurn
    /\ assertInactive
    /\ app' = "exited"
    /\ MemoryLost

Crash ==
    /\ app = "up"
    /\ app' = "crashed"
    /\ MemoryLost

Start ==
    /\ app # "up"
    /\ app' = "up"
    /\ UNCHANGED <<sync, active, updateLocked, activeChild, pc, child>>

-----------------------------------------------------------------------------

WorkerStep(k) ==
    WorkerRun(k) \/ ChildStarts(k) \/ ChildDies(k) \/ Finish(k) \/ FinishThrows(k)

SubmissionStep(k) ==
    \/ SubmitRun(k) \/ SubmitSetupThrows(k) \/ HandshakeFails(k)
    \/ SpawnSubmission(k) \/ PreparationThrows(k) \/ SubmitEnds(k)

DataStep(k) ==
    \/ RestoreRequested(k) \/ Restore(k) \/ CopyRequested(k) \/ Copy(k) \/ DialogEnds(k)
    \/ DeletePrivacyData(k) \/ OpenAssistant(k) \/ HandlerEnds(k)

UpdateStep(k) ==
    \/ PrepareInstall(k) \/ LockForUpdate(k) \/ StartReplacement(k)
    \/ FinishReplacement(k) \/ InstallFails(k) \/ QuitPrevented(k)

Next ==
    \/ \E k \in Calls : WorkerStep(k) \/ SubmissionStep(k) \/ DataStep(k) \/ UpdateStep(k)
    \/ Quit
    \/ Crash
    \/ Start

Spec == Init /\ [][Next]_vars

-----------------------------------------------------------------------------
(* Safety.                                                                 *)

\* Every variable keeps its type.
TypeOK ==
    /\ app \in {"up", "exited", "crashed"}
    /\ sync \in Calls \cup {None}
    /\ active \subseteq Tokens
    /\ updateLocked \in BOOLEAN
    /\ activeChild \in Calls \cup {None}
    /\ pc \in [Calls -> Places]
    /\ child \in [Calls -> Children]

\* The worker processes of this app that may write data.
Running(k) == child[k] \in {"starting", "alive"}

\* While the setup assistant has the user's developer-portal session open, no
\* other protected operation and no worker runs, whichever came first.
SetupAssistantAlone ==
    \A k \in Calls : pc[k] = "assistant" =>
        /\ active = {Token("setup_assistant", k, "handler")}
        /\ \A other \in Calls : ~ Running(other)

\* A worker runs under a token of its own from before it is spawned until its
\* end was seen, although the handler that spawned it may have returned.
WorkersAreProtected ==
    \A k \in Calls : Running(k) => \E t \in active : t.call = k /\ t.part = "worker"

\* From the second check on, no operation and no worker runs beside the
\* replacement of the executable, and none can begin.
ReplacementExcludesOperations ==
    \A k \in Calls : pc[k] \in {"marker", "replacing"} =>
        /\ updateLocked
        /\ active = {}
        /\ \A other \in Calls : ~ Running(other)

\* A privacy deletion runs beside no other operation and no worker.
PrivacyDeletionAlone ==
    \A k \in Calls : pc[k] = "deleting" =>
        /\ active = {Token("privacy_deletion", k, "handler")}
        /\ \A other \in Calls : ~ Running(other)

\* What must run alone runs alone, in whatever order the calls check, await and
\* begin: the setup assistant, a privacy deletion and an update.
RunsAlone == SetupAssistantAlone /\ PrivacyDeletionAlone /\ ReplacementExcludesOperations

\* A quit that is not a crash leaves no worker behind, though activeChild
\* names one worker at most.
QuitLeavesNoWorker ==
    [][app = "up" /\ app' = "exited" => \A k \in Calls : ~ Running(k)]_vars

\* Whatever ends, in whatever order, leaves neither a token behind, which would
\* block updates, deletions and the quit, nor its activeChild, which would block
\* every further worker; but for two ways to throw outside a try block.  The start
\* of a submission leaves its handler's token.  The end of a worker whose log
\* cannot be written leaves its own, that of the submit:run which awaits it, and
\* activeChild.
OnlyThrowsLeak ==
    /\ \A t \in active :
          \/ pc[t.call] \notin {"idle", "thrown", "unsettled"}
          \/ pc[t.call] = "thrown" /\ t.operation = "step3_live_run" /\ t.part = "handler"
          \/ pc[t.call] = "unsettled" /\ (t.part = "worker" \/ t.operation = "step3_live_run")
    /\ activeChild # None => pc[activeChild] \in {"worker", "submission", "unsettled"}
=============================================================================
