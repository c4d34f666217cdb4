---------------------------- MODULE MCScheduler ----------------------------
(* Constants of the small instances of Scheduler that TLC checks. *)
EXTENDS Scheduler

CONSTANTS a, b, j1, j2, Period, Offset

\* One slot every Period, and the same expression read in another timezone.
MCNextRun == [t \in Nat |-> (t \div Period + 1) * Period]
MCNextRunUTC == [t \in Nat |-> ((t + Offset) \div Period + 1) * Period - Offset]

BothSame == [i \in Instances |-> Jobs]
OnlyAHasJ1 == [i \in Instances |-> IF i = a THEN Jobs ELSE Jobs \ {j1}]
OneHash == [i \in Instances |-> CHOOSE h \in Hashes : TRUE]

\* SchedulerDB's bound on attempts is for its own specification only.
NotUsed == [s \in 0..MaxTime |-> 0]

=============================================================================
