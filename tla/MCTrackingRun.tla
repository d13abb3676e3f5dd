--------------------------- MODULE MCTrackingRun ---------------------------
(* The instance of TrackingRun for TLC.                                    *)
EXTENDS TrackingRun

CONSTANT p1

OnePin == {p1}
=============================================================================
