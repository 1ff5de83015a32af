--------------------------- MODULE MCPowerManager ---------------------------
(* Model values and small constants for the runs of PowerManager. *)
EXTENDS PowerManager

CONSTANTS main, unknown, user, key, usb, blank, fb

MCLevel == [h \in Handlers |-> IF h = blank THEN 50 ELSE 100]

(* A timeout in the past expires at once. *)
ShortAndPast == {-1, 2}
=============================================================================
