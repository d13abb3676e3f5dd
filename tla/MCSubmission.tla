---------------------------- MODULE MCSubmission ----------------------------
(* Instances of Submission for TLC. *)
EXTENDS Submission, TLC

CONSTANTS c1, c3, w1, w2

OneClaim    == {c1}
LiveAndTombstoned == {c1, c3}
OneTombstone == {c3}
OneWorker   == {w1}
TwoWorkers  == {w1, w2}
NoClaims    == {}
NoStatuses  == {}
RetryOnly   == {"retry"}
NoAnswers   == {}
AllAnswers  == ReconciliationActions
SomeLegacy  == {"failed", "unknown"}

WorkerSymmetry == Permutations(Workers)
=============================================================================
