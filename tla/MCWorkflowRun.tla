--------------------------- MODULE MCWorkflowRun ---------------------------
(* Constants of the small instances of WorkflowRun that TLC checks. *)
EXTENDS WorkflowRun

CONSTANTS r1, r2, r3

=============================================================================
