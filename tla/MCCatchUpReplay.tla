-------------------------- MODULE MCCatchUpReplay --------------------------
(* Constants of the small instances of CatchUpReplay that TLC checks. *)
EXTENDS CatchUpReplay

\* A schedule with gaps of different lengths, as cron expressions have, and an
\* interval, which starts over from wherever it is asked.
MCSchedules == {"cron", "every"}
MCNextRun ==
  [s \in MCSchedules |->
     [t \in Nat |-> LET base == (t \div 5) * 5
                    IN  IF s = "every" THEN t + 2
                        ELSE IF t - base < 1 THEN base + 1
                        ELSE IF t - base < 3 THEN base + 3
                        ELSE base + 6]]

=============================================================================
