--------------------------- MODULE MCPromptQueue ---------------------------
(* Constants of the small instances of PromptQueue that TLC checks. *)
EXTENDS PromptQueue

CONSTANTS t1, t2, f, ui

=============================================================================
