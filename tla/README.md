# Verification of Canada Post Claim Runner

TLA+ specifications of the program in this repository, the TLC configurations
that check them on small instances, and TLAPS proofs of what matters most for
every value of their constants. Every definition is read from the source;
`PROJECT.json` maps each one to the lines it stands for.

## The program

An Electron application that finds late Canada Post parcels and files claims
for them. The **main process** (`main.js`) owns the window, one built-in browser
view, and one SQLite database; it spawns **workers** (detached Node processes,
their own process groups) for Step 1 (import of shipping history), Step 2
(tracking) and Step 3 (submission). Main process and workers share the database
file, a stop file and, over the debugging port, the browser view. The
**renderer** calls the main process through IPC handlers, which are
asynchronous functions: between two awaits a handler runs alone, at an await
any other handler may run.

### Components

| Component | State | Operations | What makes it correct |
|---|---|---|---|
| Claim attempts (`lib/claim-database.js`) | rows of `claim_attempts`: status, attempt number, reconciliation | begin, complete, mark interrupted, reconcile, list, import legacy | one open attempt per claim, no retry of uncertain or terminal outcomes, retry limit, nothing lost |
| Submission worker (`scripts/submit-claims.js`) | queue, current claim, `activeAttemptId` | startup, login, revalidate, begin, fill, click, wait, record, reset, fail | records what happened, whatever fails |
| Submission run (`main.js` `submit:run`) | `activeChild`, stop file, two coordinator tokens | checks, snapshot, handshake, spawn, close | one run at a time, runs end |
| Operation coordinator (`lib/operation-coordinator.js`) | active tokens, update lock | begin, end, assertInactive, lock | what must run alone runs alone; tokens are released |
| Update installation (`lib/update-install-guard.js`, `lib/github-release-updater.js`) | marker file, lock, executables | check, backup, lock, marker, retain, replace, quit; acknowledge at startup | nothing runs beside the replacement; a version that has not proved itself leaves a way back |
| Step 3 queue (`lib/step3-queue-service.js`, `lib/eligibility-revalidation.js`) | none of its own: reads runs, classifications, attempts, tombstones | preview, snapshot, revalidate | agrees with the transaction; a snapshot is not outlived by its evidence |
| Step 1 import (`scripts/import-est-history.js`, `lib/est-order-ranges.js`) | ranges still to ask for, `tracking.csv` | look up, split, export, merge, replace | no day is left out; the file is replaced whole |
| Step 2 run (`scripts/get-tracking.js`, `lib/tracking-run-staging.js`, `lib/tracking-workload.js`) | run record, staged files and rows, rows carried forward | start, look up, replace, promote, settle, discard | only a complete run is authoritative; no delivery is missed |
| Tracking client (`lib/tracking-client.js`, `lib/tracking-oauth.js`, `lib/tracking-rate-limiter.js`) | token cache, start times | request, retry, refresh | pace, bounded retries, circuit breakers, nothing sent after the end |
| Setup assistant (`main/setup-assistant-controller.js`) | view, generation, guide work, settling, timers | open, navigate, guide, probe, settle, close | the guide tells what the page is that is there |
| Migrations (`lib/database-migrations.js`) | schema version, objects, backups | check, copy, migrate, verify | all of a migration or nothing; a copy first |
| Backup and restore (`lib/encrypted-backup.js`, `lib/archive-tools.js`) | staged files, rollback copy | create, restore | all or nothing |
| Privacy deletion (`lib/privacy-deletion.js`) | staged files, manifest, rows, tombstones | delete, recover | all or nothing across a crash; no resubmission after it |
| Policy (`lib/policy-engine.js`, `lib/business-calendar.js`, `lib/tracking-normalizer.js`) | none | normalise, classify, count business days | verdict and deadline agree with the carrier's scans and the standard |
| Storage (`lib/app-storage.js`) | profile, credentials | migrate, save | not modelled |

Hard behaviours: several processes on one database; handlers that check, await
and act; a worker or the app dying between any two steps, the worker outliving
the app; the portal's answer being uncertain after the final click; errors
classified by their text. `PROJECT.json` lists them as hazards, each at its
line, with the properties that would catch it.

## Modules

| Module | Models | Checked by | Proved in |
|---|---|---|---|
| `ClaimAttempts` | one claim's rows and every decision about them: operators, no state | through `Submission` | through `SubmissionProofs` |
| `Submission` | `submit:run`, its workers, the database, the user, crashes | `MCSubmission` | `SubmissionProofs` |
| `ClaimPromise` | abstractly, a claim that is tried once at a time; `Submission` implements it | `MCSubmission` | `SubmissionProofs` |
| `Operations` | coordinator, `activeChild`, every handler that excludes others, updates, quit | `MCOperations` | `OperationsProofs` |
| `PrivacyDeletion` | `deleteData`, `recoverInterruptedTransactions`, the worker beside them, crashes | `MCPrivacyDeletion` | `PrivacyDeletionProofs` |
| `DeletionPromise` | abstractly, an atomic deletion that leaves tombstones; `PrivacyDeletion` implements it | `MCPrivacyDeletion` | `PrivacyDeletionProofs` |
| `TrackingRun` | Step 2 runs: record, worker, replacement of files and rows, settling, discard, and what Step 3 takes from them | `MCTrackingRun` | `TrackingRunProofs` |
| `TrackingWorker` | the traversal inside a Step 2 worker: pacing, retries, token, breakers, stop | `MCTrackingWorker` | `TrackingWorkerProofs` |
| `ShipmentFlow` | a shipment from the import to its verdict: Step 1's ranges, the workload, normalisation, the standard, the deadline | `MCShipmentFlow` | `ShipmentFlowProofs` |
| `SetupAssistant` | the guided setup's controller and the events that reach it | `MCSetupAssistant` | `SetupAssistantProofs` |
| `Recovery` | an installation over updates, startups, migrations, backups and restores | `MCRecovery` | `RecoveryProofs` |

The modules meet where the program's parts do. A Step 2 run is many steps in
`TrackingRun`, its traversal there is one choice of results, which
`TrackingWorker` opens up, and in `ShipmentFlow` a complete run is one step, which
`CompleteRunsAreWhole` justifies. `TrackingRun` ends where a claim is started,
`Submission` begins there. `Operations` says when deletion, backup, restore and
update run, `PrivacyDeletion` and `Recovery` what they do.

### Submission

`attempts[c]` is the sequence of live rows of claim `c` in the order of their
ids. Each database call is one transaction (`withDatabase`/`transaction`), so it
is one step. A process id `w` stands for one `submit:run` call and its worker;
`pc[w]` follows first the handler (`preparing`: awaiting the browser
handshake), then the worker's `main()` and `processClaim` (`starting`, `login`,
`loop`, `begin`, `open`, `form`, `wait`, `evidence`, `caught`, `result`,
`reset`, `fatal`), then the close event (`exited`). `unsettled` is a worker whose
end handler threw before it marked anything (`CloseThrows`). `item`, `row` and `outcome`
are the loop's claim, `activeAttemptId`, and the status `processClaim` is about
to return. `activeChild` is the variable of that name in `main.js`. A worker in
`orphans` has outlived its app; it has lost the browser, so it can only fail.

Where the page decides, the step chooses: the final click reaches the portal or
not, the wait classifies the page as any outcome, an error in `processClaim` is
classified by its text as failed, unknown or rejected. `filed` is a history
variable: the attempts whose final click the portal may have accepted.

The refinement to `ClaimPromise` forgets rows, processes and crashes. It maps
`standing[c]` to what the latest row of the claim says (open, uncertain, final,
failed, confirmed or approved), `tries[c]` to that row's attempt number, and `held`
to the claims whose latest row a living worker holds. What workers do to
superseded rows is then stuttering, and so is every step on a page. The promise
states what the program does keep: a report of the latest attempt's worker is
accepted whatever the marking or the user said of the attempt meanwhile, once, and
never over a final answer; a second worker tries a claim only when the user
approved.

### Operations

A call `k` is one IPC call and the worker it spawns. Sections of the main
process that run without an await are one step; the two long synchronous ones,
during which a worker process may run, hold `sync`. A token records the
operation, the call, and whether the handler or the worker holds it, for a
submission has both. A call whose start threw and left its token stays in the
place `thrown`; one whose worker's end handler threw in its log (`FinishThrows`)
stays in `unsettled`, with the token, `activeChild` and, in a submission, the
handler that waits for it. The operations that all behave alike have one name: Step 1
and the Step 2 modes (`data_worker`), backups and clearing the browser session
(`data_copy`).

### PrivacyDeletion

`deleteData` is one synchronous section, but each call it makes to the file
system or the database is a step, because the app may die after any of them
(`Crash`), in the recovery as well. `pc` names the place: `selected`, `created`
(the staging directory), `staging` (file by file, in any order), `unstaging`
(`stageFiles` undoes itself), `deleting` (inside the transaction), `restoring`,
then one of the `Removing` locations while `rmSync` takes the directory apart,
and `receipt` or `failed`. `starting`, `recovering`, `settled` and `finalizing`
are the startup. `place[f]` is where an evidence file is: in its place, gone, or
with the operation that staged it; `staging[o]` is the state of the operation's
directory, `entries[o]` its manifest, and `audit` the committed operations, which
the recovery reads. What a dead process leaves is what `pc` does not hold.

`Faults` names the calls that may throw: `stage` (path check, directory,
manifest), `rename` (staging a file), `restore` (putting one back, swallowed),
`begin` (`BEGIN IMMEDIATE`), `delete` (a statement, a check, `COMMIT`), `remove`
(`rmSync`), `receipt`, `recover` (a rename at startup). With `Orphans` the
submission worker survives the crash of its app and runs beside the deletion of
the next one; an open transaction makes it wait. `named` are the files that a
row names, `saved` those the worker has written and not yet recorded. `stale` is
what the two digests of unrelated records compare.

The refinement maps `present`, the files that exist, to those in their place or
staged by an operation that has not committed: at `COMMIT` the staged files
cease to exist, whenever the directory is in fact removed, and `Save` lets none of
them come back.

### TrackingRun

`last`, `status` and `promoted` are the table `runs`; `class[r]` is what a run
found about each shipment, `order[r]` the position its classification records
have by their ids, `current[p]` the column `current_classification_id`. `files`
are the output files by the run they came from, `backup[r]` the directory
`tracking-runs/run-<id>` with its manifest. `at[r]` is where the worker of run `r`
is: reading its workload, looking shipments up (`Traverse`), staging, renaming file
after file (`MoveFile`), putting them back (`Restore`, which may throw at any file and
then ends the worker `unrestored`), promoting, writing the summary, ended.
`rechecked[p]` counts the promotions there were when a claim wrote the record of `p`
(`OfClaim`, the recheck before its submission). `attached` are the runs whose worker the running app will see
close; a worker not in it has outlived its app. `Outcome` is the close handler's
decision, from exit code, summary, signals and the stop file. `selection` is the
list the window got from its last preview; `Submit` is `createRunSnapshot`, which
looks at the latest run again. `Faults` names the calls that may throw; `finish` and
`settle` are the two attempts of the close handler to settle the record; a run for which
both throw is in `abandoned`, a history variable.

### TrackingWorker

One worker, sequential. `pc` names what it awaits: `pace` and, after a
refused token, `repace` (`waitForRequestStart`), `token` and `refresh`, `sent` (the
answer), `backoff` (the wait before a retry); `head` is the top of the loop. `attempt` is the limiter's
counter, `refreshed` the client's one refresh after a 401, `streak` and `samples`
the two breakers, `aborted` the signal that the 100 ms poll of the stop file
sets. Time passes in units (`Elapse`); `sinceStart`, `sends` (the ages of the latest
`Depth` requests) and `throttled` are ages, kept up to the longest wait they are
compared with (`Longest`). Which answer the API gives is a choice of each lookup; a
`not_found` may also be the answer to a request for a token (`misread`), because the
classifier looks at the status and the text only.

### ShipmentFlow

Days are numbers; `NonBusiness` are those without delivery, `CalendarEnd` is the
end of the holiday table's coverage. `report[p]` is what the API would
answer: the scans, the original standard and whether it is shown, the estimate.
The carrier posts scans late and in any order, withholds the standard, revises
the estimate. `import` is a Step 1 worker: the ranges pending, what it has found; a
step is one request, and each range is asked for in two date forms, the second when
the first brings no order. `first` is what came of the first; `lost` are, as a history, the
orders of ranges that count as empty though one of the two requests failed. A refused range is split in two. `Remaining` is what the loop of
`walkBusinessDays` has left to count on each day. `CompleteRun` judges every
shipment of the file and those carried forward (`IsActive`), except those
confirmed on time. `stored[p]` is the promoted classification.

### SetupAssistant

`page` is the document in the view and what it says, `fetching` the navigation
under way, `call` the newest guide script with what it has seen, which is
older than `page` when a document came in between. Results of superseded scripts
are dropped in the code by `work` and `generation` numbers, so only the newest is
kept. `leaving` is a page that a navigation overtook before its load event came: the
event is not compared with the navigation (`FinishLoadLate`), and the guide reads
and tells the old page once more. `Pages` restricts what the documents of an
instance say. `settling`, `afterSignIn`, `offFlow` and `timers` are the controller's
variables for the redirects after a sign-in and for unknown pages.

### Recovery

A schema is a set of objects, one per stage of the migration; the number
(`user_version`) is kept apart from them, because either may be ahead.
`copies` are the databases kept anywhere, `kept` the rollback copies of files.
`app[0]` is the version at the path of the AppImage, `app[1]` the one at its
`.previous`, `app[2]` that at the `.previous` of that, because an update replaces the
file its process was started from (`place`), whichever that is.
`pc` is where startup (`opening`, `backing`, `migrating`, `importing`, `checking`,
`acknowledging`, `forgetting`), restore (`rollback`, `files`, `removed`, `settling`) or
update (`saving`, `retaining`, `replacing`, `restarting`) is; the app may die at each.
A `worker`, of the running app or an orphan, may commit at every one of them, but
within the transaction of a migration; it is taken to have ended before
an app of another version is started (an orphan ends at its next line of output,
its pipe being closed). `committed` records what was ever written, `exposed` what a
worker wrote while a restore was past its copy of the database, `orderly` whether
every update was installed by the executable at the AppImage's path which nothing had
replaced meanwhile, `proven` which versions came to a sound database.

## Runs

| Run | Question | Bounds |
|---|---|---|
| `submission_overlap` | Are rows kept apart when two workers, or an orphan and a worker, share a claim? Is the claim tried once at a time (`ClaimPromise`)? | 1 claim, 2 workers, limit 2, 2 rows, retries approved by the user; marking may fail, or the close handler throw |
| `submission_sequence` | Do queue, transaction and reconciliation list agree about every claim? | a live and a tombstoned claim, 1 worker, legacy rows, limit 2, 3 rows, every answer |
| `submission_liveness` | Do runs end, are attempts settled? | 1 claim, 2 workers, 1 row; neither the marking nor the close handler fails |
| `operations_exclusion` | Does what must run alone run alone? Which tokens outlive their calls? | 3 calls, starts and ends that throw halfway |
| `privacy_resubmission` | Can a claim that may have been filed be tried again after a deletion? What can a failure do to a file? | 2 claims with a file each, 2 deletions, every fault, an orphan |
| `privacy_atomic` | Is the deletion atomic (`DeletionPromise`)? Is a file lost that a row still names? | 2 files of one claim and another claim, 2 deletions, every fault but `restore` and `begin` |
| `tracking_run` | Which results count, and may be claimed, after stops, crashes and failures in any step? Is every run that the app watches settled? | 1 shipment, 2 runs, 2 files, 1 restart, every fault |
| `tracking_worker` | Are requests paced, bounded, ended? When is a traversal complete? | 3 shipments, 2 retries, breakers at 2, interval 2, throttling 3 units, ages of 3 requests |
| `shipment_flow` | Does an import leave a day or an order out? Is a delivery missed or judged wrongly? | 2 orders, one of them delivered; 3 days, window 3, segments of 2 days, 1 order per export, 2 scans |
| `setup_assistant` | Does the guide tell the page that is there, and every page that stays? | 1 opening, 2 documents of 4 kinds |
| `recovery` | Is a committed record lost, a database half migrated, a restore not to be undone? Does a version that has not started leave a way back? | 3 versions of 2 schemas, 5 databases found, 2 archives, 2 files, 2 updates, a worker, a crash or failure |

One run is violated, `submission_uncertain_retry`, the finding below.

Why the bounds are enough. Two rows with a limit of two have a first attempt, a
last permitted one, and a refused third; a third row (`submission_sequence`)
adds the attempt past the limit that the user approved. Rows of different claims
interact only through the marking of interrupted attempts and a worker's loop,
which `submission_sequence` has. Two workers make every pair of a holder and an
intruder; the invariants relate two workers at most. Of operations three are
needed: one that is alone, one that intrudes, and one whose end clears
`activeChild` or the lock under the others. `MaxRows` bounds only the user's
selection; `Answers` the reconciliations tried; `LegacyStatuses` the imported
rows (at most one per claim: the import keeps the first of a claim and status,
and several rows differ from one only by what the latest row decides).
Two deletions are one that fails or is interrupted and the one tried
after it; two files of one claim make a loop that fails halfway, two claims an
unrelated record. Operations differ by their ids only, hence the symmetry.
Two runs are one that is discarded, stopped or orphaned and the one before or
after it; two files a replacement that stops halfway; with two shipments and two
runs (9.9 million states) the safety properties hold as well. Three shipments reach both sides of every breaker
threshold, and a shipment after the one that opens it; three remembered requests are
two that follow each other at once and the one before. An import's window of
three days in segments of two has a full segment, which may be split, and a shorter
one, and two orders fill one export and leave one for the next; with three orders, five
days and segments of three (3.7 million states) `FileIsReplacedWhole` holds as well.
The verdict's three days are order, standard and a late delivery; with a window of
two (2.3 million), from which the order has then gone, the properties hold too. Two
documents are the page a script has seen and the one that replaced it; the four kinds
are one of the sign-in, two landings and the unknown page, and the others are told
like one of these or at once. A second opening begins from what `Open` cleared: for
any number of them `GuideShowsCurrentPage` is proved, and with two openings and every
kind of page (3 million states) it holds. Three versions are an update within a schema,
one that migrates, and one that skips the first; two updates are one that fails halfway
and one accepted after it. A second crash, during the recovery from the first, is in an
instance with one update (3.4 million), where the properties hold; that they hold for
any number is proved.

`CHECK_DEADLOCK` is on in every run but those of `ShipmentFlow` and `SetupAssistant`,
where the bounds on days, openings and documents end the behaviours; a worker of
`tracking_worker` that has ended stutters by an action of its own (`Done`).

### Fairness

`Fairness` in `Submission` is weak fairness of each worker's own steps, of the
handler between handshake and spawn, and of the close event. Page calls, the
verification and CAPTCHA waits, the outcome wait and the handshake all have
time-outs, so no step lasts forever; the operating system reports a child's end.
Nothing is assumed of the user, of crashes, or of a restart of the app.
Both liveness properties need `CloseFaults = FALSE`: the close handler swallows what
its marking throws, and the row then waits for the next start; and it appends to the
log before it does anything else (`main.js:1375`), so that a log that cannot be
written leaves the run without an end.

In `TrackingRun`, weakly fair are a worker's steps (its requests have time-outs,
its other calls are synchronous) and the close event; `RunIsSettled` is about the status
of the record, and needs that the close handler comes to it and that one of its two
attempts succeeds: a run for which both threw is in `abandoned`, the exception that
the property names. In `TrackingWorker`, the
worker and time. In `SetupAssistant`, timers that were set (the
passing of the settling and off-flow times, `Probe`) and the return of a script
(`GuideReturns`); nothing is assumed of the page, so `PageIsGuided` is about a
page that stays. `ShipmentFlow`, `Recovery` and the others have safety only.

## Findings

1. **An uncertain final action can be retried** (`submission_uncertain_retry`).
   `processClaim` catches every error after the final click, and
   `classifyAutomationFailure` answers `failed` for a text it does not know or
   for a connection reset. A failed attempt is offered again. `README.md` says
   "uncertain final actions are never retried automatically",
   `docs/THREAT_MODEL.md` "final click never retried after uncertainty".

### What the code does not keep

Eight more properties, each stated in its module from a sentence of the documents or
a comment, are refuted by TLC with the constants of the run of that module
(`privacy_resubmission` for the deletion): put the name into its `.cfg` in the place of
the others to get the behaviour.

* `AnswersAreOfTheResource` (`TrackingWorker`): `classify` calls any 404 and any text with
  "not found" a shipment that was not found (`canadapost-errors.js:104`), that of the
  token server too. A run can be complete, and authoritative, without one request to the
  resource. `docs/INTEGRATION_PROTOCOLS.md:123` excepts only shipment-specific
  not-found outcomes from what opens the circuit.
* `RequestsKeepTheQuota` (`TrackingWorker`): `waitForRequestStart` stamps the start
  before the token is asked for (`tracking-rate-limiter.js:97`), so a request that waited
  for its token and the next one may follow each other at once, and 60 seconds may
  hold 21. `docs/INTEGRATION_PROTOCOLS.md:85`: the interval "cannot exceed" 20, "Every
  retry also obeys the 3,100 ms start floor". What does hold is `RequestsArePaced`: a
  span of *n* intervals holds *n* + 2 requests at most.
* `AttemptsBoundRequests` (`TrackingWorker`): each attempt of the limiter is a call of
  its own and may send again after a refused token (`tracking-client.js:222`), six
  requests in all; `tracking-rate-limiter.js:14` says three.
* `FailedRangesPreserveTheFile` (`ShipmentFlow`): an empty list in the first date form
  and a failure in the second are an empty range (`est-order-ranges.js:116`), and the
  file is replaced without its orders. `docs/INTEGRATION_PROTOCOLS.md:14,27` asks for the
  second form because an empty first answer is not conclusive, and promises that a
  failure preserves the file.
* `ErasedFilesStayErased` (`PrivacyDeletion`): `BEGIN IMMEDIATE` throws outside the `try`
  that puts staged files back (`privacy-deletion.js:330`); a second deletion does not see
  them, and the next startup restores them. `docs/PRIVACY_AND_RETENTION.md:13` says that
  "staging is not a permanent hidden copy". What holds, with every fault and orphans,
  is `FilesFollowRows`.
* `RestoreLosesNothing` (`Recovery`): `backup:restore` checks `activeChild` before its
  dialogs (`main.js:1987`) and never sees a worker that outlived a crash; what a worker
  commits between the copy of the database and its removal
  (`archive-tools.js:199-216`) is in no copy. `docs/BACKUP_HANDLING.md:5` says that a
  restore "preserves rollback copies". `CommittedIsKept` holds for every other record.
* `UpdatesCanBeUndone` (`Recovery`): a process that runs from `.previous`, or whose file
  an update has replaced, may accept an update; it replaces the file at the path it was
  started from and overwrites the marker (`github-release-updater.js:301`), which then
  does not tell of the version that has not started. `docs/GITHUB_UPDATES.md:61`.
  `UnprovenHasAWayBack` holds for the other updates.
* `AcknowledgementResumes` (`Recovery`): `acknowledgeHealthyStartup` writes the healthy
  file with `wx` and removes the marker next (`update-install-guard.js:82`): after a
  crash in between, every later start throws `EEXIST`, which the app reports as a
  database that could not be prepared (`main.js:2820`).

### Other steps worth knowing

The models also have the following steps.

* `submit:run` checks `activeChild` and assigns it only after awaiting the handshake
  (`main.js:2502`): two workers may run at once. The rows stay safe
  (`ClaimsAreNotShared` is proved for any number of workers).
* A crash between the staging directory of a deletion and its manifest
  (`privacy-deletion.js:192`), or inside its removal, leaves a directory without
  manifest, at which every later startup throws.
* `reconcileAttempt` accepts an attempt in progress, and `completeClaimAttempt`
  does not look at the row's status: *submitted by the user* can become `failed`.
* What throws between `begin('step3_live_run')` and the worker's start, outside
  `try` blocks, leaves the token (place `thrown`); updates, deletion, the assistant
  and the quit then stay blocked. So does what the log append throws at the end of any
  worker (`main.js:1375`, place `unsettled`), with `activeChild` left as it is.
  `OnlyThrowsLeak` says nothing else leaks.
* `restoreStagedFiles` swallows errors, and the staging directory is removed next
  with what was not put back (fault `restore`).
* Evidence is written before a row names it, and a deletion selects by rows: the
  files of a worker that dies in between stay.
* A receipt that cannot be written after the commit (fault `receipt`) is treated
  as a failed deletion, and a second try writes that it was rolled back.
* `restoreBackup` removes the live database before it renames the new one into
  place (`archive-tools.js:215`), and replaces the data files before both. After a
  crash the next startup creates an empty database; the copies that
  `CommittedIsKept` and `RollbackIsComplete` find are left to the user. A restore
  that fails is not rolled back.
* `initializeDatabase` sets `backupPath` before it copies (`claim-database.js:112`),
  so an error of the copy names a backup that may not exist.
* Each startup that fails in a migration leaves another copy of the database.
* A worker that ended with every step done is settled as `stopped` when the stop file
  exists by then (`main.js:2441`), with its results promoted; a worker whose token
  was refused leaves its run `running`.
* `discardIncompleteTrackingRun` takes the latest incomplete run, also one that is
  older than a complete one.
* A shipment answered with 502 to 504 after all retries counts as `checked`, and
  after the third 429 the next shipment is asked for after the usual interval.
* Putting back the output files of a failed worker may throw
  (`tracking-run-staging.js:51-58`): the files not reached stay the run's, until a
  discard takes them from its backup.
* The settling after a sign-in is ended by landing pages only: another kind of page
  that follows is told with its targets muted.
* `did-finish-load` does not ask whether a newer navigation has begun
  (`setup-assistant-controller.js:715`): the guide may tell the page that is being left,
  until the new one has loaded.
* The standard of a shipment whose original was never seen is taken from the estimate
  of the first run and stays (`normalized-shipment.js:210`,
  `tracking-workload.js:67,123`). A parcel marked as returned to its sender is
  not carried forward, and its delivery back counts as a delivery.

## Proofs

`SubmissionProofs` proves, for any claims, workers, limits, legacy statuses,
answers and faults, every safety property the passing runs check. Its inductive
invariant `IInv` is needed because none of them is inductive alone: a worker
completes its row by number, so that this does not disturb a superseded or
terminal row follows only from where the row it holds can be (`HeldRowsOK`: the
row exists, and is open, interrupted or reconciled), that no two workers hold
the same row (`HoldersDistinct`), and that a worker holds a row exactly in the
locations between begin and record (`ControlOK`, `LocationsOK`). `AttemptsOK`
collects what one claim's rows satisfy; `RowSteps` lists what a step may do to a
row, and the two action properties follow from it. `SequentialClaims` is the
refinement of `ClaimPromise`, from the same invariant: `BeginClaimAttempt` is `Try`
(the decision admits only what the promise does, and by `HeldRowsOK` a claim that
is held and may be tried has been approved), a recorded row is `Report` when it is
the latest and stuttering when it was superseded, a marking is `Interrupt`, a
worker that ends or dies is `Vanish` if it held the latest row
(`HoldersDistinct`: nobody else does), a reconciliation is `Reconcile` or
stuttering, and the rest is hidden (`PromiseStep`).

`OperationsProofs` proves the exclusions for any number of calls. Its invariant
adds to them which places hold which token, that a synchronous section excludes
the others, and that one update is under way at most. `OnlyThrowsLeakTokens`
adds which operation a token in each place belongs to (`Releasable`).

`PrivacyDeletionProofs` has results of decreasing generality, and each condition
is needed: without it TLC refutes the property.

* `NoResubmission` holds whatever fails. Its invariant `FiledOK` says that a claim
  that may have been filed has a settled record or a tombstone.
* `FilesFollow` holds whatever fails, too, with orphans: a named file is lost only where
  a rolled back deletion's directory is removed, and an erased one comes back only at a
  startup, from a deletion that did not commit (`FilesInv`).
* `NamedFilesKept` needs that putting a file back does not fail. Its
  invariant `KeptInv` relates control, disk and audit rows (`ControlOK`): what an
  uncommitted operation staged is in its manifest, and no row names what a
  committed one staged (`StagedOK`); a directory is removed only after all its
  files are back (`PutBackOK`); no deletion knows a file before it is recorded
  (`FreshOK`), which the orphan makes necessary.
* `Atomicity` also needs that `BEGIN IMMEDIATE` does not throw (see `ErasedFilesStayErased`) and
  that no worker outlives its app (an orphan may name a file after the deletion
  has selected its own). `AtomicInv` adds that outside a startup only the current
  operation has staged files (`CurrentOK`) and that it staged exactly what the
  rows name (`SelectedOK`). `PromiseStep` maps every step: `Commit` to `Delete`,
  the worker's steps to `Attempt`, `Save`, `Record` and `Interrupt`, the rest of
  deletion, removal and recovery to stuttering.

`TrackingRunProofs` proves every safety property of the run, for any shipments, runs,
files, restarts and faults. `RunInv` relates where a worker is to what it has staged,
renamed and promoted (`WorkerOK`), and says that a worker that replaces anything has
answered its workload (`AnsweredOK`), that ids grow with every promotion (`OrderOK`), and
that the current record of a shipment, a run's or a claim's, is not older (`Age`) than that
of any run that was not discarded (`CurrentOK`): so a discard, which gives the record back to the run before,
does not bring back a superseded one. That it finds that run needs the greatest of
a set of orders (`GreatestOrder`). Until the app is restarted one worker at most is
alive, and the files are those it has moved (`ReplacementOK`): hence the condition in
`FailedWorkerLeavesNoFile`, without which TLC finds a worker that puts back the files
of another. `BackupOK` says that what a worker that was killed, or could not put a file
back, has replaced is in its backup. `SelectionOK` is what an old list in the window still says.

`TrackingWorkerProofs` proves every safety property of the traversal, for any
number of shipments and any intervals, retries and thresholds. The three parts
of `WorkerInv` that matter: requests keep behind the latest start, the *j*-th latest one
by all but two of its intervals (`PaceOK`), so that the *j*-th request before a new one is
at least *j* - 1 intervals old, whatever the tokens took; an attempt sends once and once more
after a refresh (`RequestsOK`); the streak began at a shipment after which only
the same failure or a skip was recorded, as often as it was counted (`StreakOK`).

`ShipmentFlowProofs` proves what runs conclude (`StandardSurvives`,
`VerdictFollowsStandard`, `NoDeliveryIsMissed`), for any scans, standards and windows.
The invariant says that a standard once given is the carrier's (`OriginalOK`) and
that a record is delivered only when it has a delivery day (`RecordOK`).
`DeliveryIsEarliest` is the lemma about the normalisation: the delivery taken is
the earliest of the scans, so one comparison decides about all of them.

That an import leaves no order out but those of a range with an empty answer and a
failed one (`FileIsReplacedWhole`, `lost`) rests on `ImportOK`: what
is pending are short ranges within the window, what was found are distinct orders
of the window, and each order of the beginning has been found or lies in a pending
range. The three lemmas under it are about the code's arithmetic: the segments of a
window are short, lie within it and have every day of it (`SplitCovers`), so do the
halves of a refused range (`BisectCovers`), and merging what a request returned
keeps the list without duplicates. `DeadlineIsBusinessDay` rests on the loop of
`walkBusinessDays`, a recursive function over the days. Its values cannot be had by
the library's induction theorems, which the provers cannot instantiate; instead
`RemainingCounts` takes the earliest day on which the loop would have left something
else than the count less the business days passed (`EarliestDay`), and finds that
there is none. `WalkEnds` follows.

`SetupAssistantProofs` proves `GuideShowsCurrentPage` for any number of documents and
openings. Its invariant: while a document is fetched nothing is told and no guide
script is awaited, unless the page that is being left had its load event late
(`SilentOK`), and a script that is awaited belongs to the page, or to the one left late
(`CallOK`). `LandingsAreNotMuted`, about the sign-in pages told at once and the landing
pages, follows from the same invariant: a script that may
not highlight is awaited only while a settling or a sign-in is pending.

`RecoveryProofs` proves every property of the run, for any versions, schemas,
databases, archives and numbers of updates and faults. `RecoveryInv` says what
process and disk have in common at each place (`PlaceOK`), that a database that
differs from what it will be is empty or copied before the first change, in a
startup as in a restore (`StateOK`), in which order an update writes its backup,
marker, retained and new executable (`UpdateOK`), and that what a restore has
replaced so far is among the rollback copies (`RollbackOK`). `WorkerOK` says what a worker
leaves: a whole database, or one with nothing in it; what it commits is kept unless a
restore is past its copy (`exposed`).
`WayBack` is about updates installed in the order the documents describe (`orderly`).

The type invariants of these modules are proved (that of `ShipmentFlow` says as well
how long the ranges are that an import asks for); only where one also bounds what
the code counts (`TrackingWorker`) does a run check it. In
`OperationsProofs` the exclusions of the assistant, of deletion and of the
replacement are theorems of their own, and `ExclusionsHold` is their conjunction
`RunsAlone`, which the run checks.

The assumptions are those the modules name on their constants: `None` is no
worker, claim, call, database, update or content, and `Nobody` no customer number; the
limit is positive; tombstoned claims are claims; legacy statuses are those
`importLegacyAttemptInDb` can write; each file is evidence of a claim; operation ids
are no file places; faults and results are among those named; versions are
positive numbers, and databases found or archived are databases; a workload has
a shipment, thresholds and intervals are positive; standards and estimates do not
precede the order; shipments are finitely many. Nothing else is assumed. Every
safety property and action property that a passing run checks is a theorem, and
so are both refinements. Liveness (`AttemptIsSettled`, `RunTerminates`,
`RunIsSettled`, `WorkerEnds`, `PageIsGuided`) is model-checked only: `ENABLED` is
out of the prover's reach.

## What is left out

* Dry runs: the main process starts none, and their rows never decide anything.
* Finance and audit tables; evidence hashes (a revalidation that blocks is
  `LoopEnds`), the integrity of a snapshot file, deadlines shown in the queue.
* A difference between the worker's `MAX_CLAIM_ATTEMPTS` and the queue's 3.
* A restored backup replacing the attempts: `Operations` says when that happens,
  `Recovery` how.
* In `PrivacyDeletion`: reconciliation, the retry limit and all but the latest
  attempt of a claim (`Submission` has them); a second worker; exported files,
  which are named by rows like evidence; the redaction of queue snapshots, the
  counts of receipts; manifests that are damaged rather than missing, and
  symbolic links.
* A second instance of the app, which takes no lock: its startup would recover
  staging directories, mark attempts and overwrite `.previous` under the first.
* In `TrackingRun` and `TrackingWorker`: diagnostic mode, the structure export, the
  contents of output files, jitter. The token cache has one caller at a time.
* In `ShipmentFlow`: the service's word is taken for what orders a range has in each
  date form; provinces, guarantees per service, rule versions (a record carried from a
  run with an obsolete evidence or parser version is dropped,
  `tracking-workload.js:91-97`); the cross-check of two sections
  of one name in an export. Step 2 runs that do not complete are in `TrackingRun`.
* In `SetupAssistant`: layout, popup handler, blocked addresses, credential phases,
  product attempts, retries of a menu being drawn, navigations within a page, a
  script that fails twice, the renderer's half. Open and close are one step:
  what they await settles before the next event.
* In `Recovery`: a backup reads the data files after the database, here it is one
  step; write-ahead logs (the copy before a restore takes the main file, not what a
  worker's connection has in the log); settings, which a restore replaces without a
  copy; files that were absent before a restore; more than one worker; download, verification and other systems than Linux;
  encryption and the archive format.
* Storage and credentials: single-process copies and encryption without a protocol
  of several steps; their hazards are listed in `PROJECT.json`.
* The portal and its pages beyond the outcomes of a step; the renderer; logging,
  diagnostics, packaging, locales. Their state decides nothing in the above.

Each of these either decides nothing that a property here is about or needs an
actor (a second instance, a damaged disk) that the code does not handle.
