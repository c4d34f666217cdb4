--------------------------- MODULE MCWorktrees ---------------------------
(* Constants of the small instance of Worktrees that TLC checks. *)
EXTENDS Worktrees, TLC

CONSTANTS p1, p2, p3, p4

\* Processes are alike, and no property is temporal.
Alike == Permutations(Processes)

=============================================================================
