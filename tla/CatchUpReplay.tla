--------------------------- MODULE CatchUpReplay ---------------------------
(***************************************************************************)
(* One job of one instance over downtime: time passes in steps of any      *)
(* length (a sleeping laptop, a closed session), each tick that finds the  *)
(* job's slot due runs it and moves the job to CatchUp's Successor.  What  *)
(* is left of the scheduler is which slots fire and which are skipped.     *)
(***************************************************************************)
EXTENDS CatchUp, FiniteSets

CONSTANTS
  Schedules,   \* the schedules considered: cron expressions, @every intervals
  NextRun,     \* NextRun[s][t]: cron.next_run of schedule s after time t
  MaxCatchup,  \* max_catchup
  Horizon      \* bound: time stops here

\* All that is asked of a schedule: its next run is later.  Of a cron
\* expression it is the first slot after the time; of @every N the time + N.
ASSUME ReplayAssumption ==
  /\ MaxCatchup \in Nat
  /\ Horizon \in Nat
  /\ \A s \in Schedules, t \in 0..Horizon : NextRun[s][t] \in Nat /\ NextRun[s][t] > t

VARIABLES
  schedule,  \* the workflow's schedule
  catchUp,   \* its catch_up, or the scheduler's
  next,      \* the job's next_run
  now,       \* the time
  fired      \* the slots that ran, and when: the times of the runs

vars == <<schedule, catchUp, next, now, fired>>

Init ==
  /\ schedule \in Schedules
  /\ catchUp \in BOOLEAN
  /\ next = NextRun[schedule][0]
  /\ now = 0
  /\ fired = {}

\* Any amount of time goes by.
Sleep ==
  /\ \E t \in (now + 1)..Horizon : now' = t
  /\ UNCHANGED <<schedule, catchUp, next, fired>>

\* A tick with the slot due, and the dispatch's advance.
Fire ==
  /\ next <= now
  /\ fired' = fired \cup {[slot |-> next, at |-> now]}
  /\ next' = Successor(NextRun[schedule], catchUp, MaxCatchup, next, now)
  /\ UNCHANGED <<schedule, catchUp, now>>

Next == Sleep \/ Fire

Spec == Init /\ [][Next]_vars

-----------------------------------------------------------------------------

\* The slots from slot on, one after the other, up to the first that is not
\* before t.
Chain(slot, t) ==
  LET chain[n \in 0..t] ==
        IF n = 0 THEN slot
        ELSE IF chain[n - 1] < t THEN NextRun[schedule][chain[n - 1]] ELSE chain[n - 1]
  IN  {chain[n] : n \in 0..t}

\* The missed slots at time t from slot on: "the backlog behind now".
Backlog(slot, t) == Chain(slot, t) \cap 0..(t - 1)

\* What becomes of the slots that a downtime missed (scheduler.md:26-29, the
\* docstring and comments of _successor), on any schedule.  The job moves to
\* its next slot or to the first one after now.  It gives up missed slots only
\* if catch-up is off, when it gives up all of them, or if more than
\* MaxCatchup are left; with more than MaxCatchup + 1 left it does.
BacklogReplayed ==
  [][LET step   == NextRun[schedule][next]
         missed == Cardinality(Backlog(step, now))
     IN  next' # next =>
           /\ next' = step \/ next' = NextRun[schedule][now]
           /\ catchUp /\ missed <= MaxCatchup => next' = step
           /\ ~catchUp \/ missed > MaxCatchup + 1 => next' > now]_vars

\* The limit as documented: "If the backlog behind "now" is deeper than
\* max_catchup, the scheduler skips ahead to the next future slot"
\* (scheduler.md:28).  The loop of _successor takes one step more.
DeepBacklogSkipped ==
  [][next' # next /\ catchUp
     /\ Cardinality(Backlog(NextRun[schedule][next], now)) > MaxCatchup
     => next' > now]_vars

\* No slot runs twice, and slots run in order: a replayed backlog never
\* revisits a slot, whatever the sleeps in between.
FiredOnceInOrder ==
  \A f \in fired :
    /\ f.slot < next
    /\ \A g \in fired : f.slot <= g.slot /\ f # g => f.slot < g.slot /\ f.at <= g.at

=============================================================================
