------------------------ MODULE MCBackgroundCommand ------------------------
(* The small instance of BackgroundCommand that TLC checks. *)
EXTENDS BackgroundCommand
=============================================================================
