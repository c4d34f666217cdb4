--------------------------- MODULE MCInputQueues ---------------------------
(* Constants of the small instance of InputQueues that TLC checks. *)
EXTENDS InputQueues

CONSTANTS p, s

PrimaryFirst == <<p, s>>

=============================================================================
