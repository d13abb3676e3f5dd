--------------------------- MODULE MCShipmentFlow ---------------------------
(* The instance of ShipmentFlow for TLC: p1 is followed by the carrier, p2 *)
(* only makes tracking.csv move on, with or without a valid PIN.           *)
EXTENDS ShipmentFlow

CONSTANTS p1, p2

TwoPins == {p1, p2}
OneReported == {p1}
Weekend == {3, 4, 8}
OneDay == {1}
TwoDays == {2}
Seen == {"attempted", "delivered", "returned"}
=============================================================================
