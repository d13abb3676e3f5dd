-------------------------- MODULE MCTrackingWorker --------------------------
(* The instance of TrackingWorker for TLC.                                 *)
EXTENDS TrackingWorker
=============================================================================
