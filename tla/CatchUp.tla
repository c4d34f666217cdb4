------------------------------ MODULE CatchUp ------------------------------
(***************************************************************************)
(* The slot a job moves to once one of its slots has run:                  *)
(* SchedulerService._successor (src/cecli/helpers/scheduler/service.py).   *)
(* next is cron.next_run of the job's schedule and timezone: next[t] is    *)
(* the first slot after t of a cron expression, t + N of "@every N".       *)
(***************************************************************************)
EXTENDS Integers

\* The while loop: step on from the slot until now is reached, at most
\* maxCatchup + 1 times.
Probe(next, maxCatchup, slot, now) ==
  LET p[d \in 0..(maxCatchup + 1)] ==
        IF d = 0 THEN slot
        ELSE IF p[d - 1] < now THEN next[p[d - 1]] ELSE p[d - 1]
  IN  p[maxCatchup + 1]

\* Broken variant of Successor: it starts from the slot before.
SuccessorSameSlot(next, catchUp, maxCatchup, slot, now) == next[slot - 1]

\* Broken variant of Successor: the skip lands a slot further.
SuccessorSkipsTooFar(next, catchUp, maxCatchup, slot, now) ==
  LET step == next[slot]
  IN  IF Probe(next, maxCatchup, step, now) < now THEN next[next[now]] ELSE step

\* With catch-up off, or with more than maxCatchup + 1 overdue slots behind
\* now, jump to the first slot after now; otherwise one cron step.
Successor(next, catchUp, maxCatchup, slot, now) ==
  LET step   == next[slot]
      future == next[now]
  IN  IF ~catchUp
      THEN IF future > step THEN future ELSE step
      ELSE IF Probe(next, maxCatchup, step, now) < now THEN future ELSE step

=============================================================================
