---------------------------- MODULE SchedulerDB ----------------------------
(***************************************************************************)
(* The SQLite store every cecli instance on the machine shares to agree on *)
(* who runs which scheduled slot (src/cecli/helpers/scheduler/db.py).      *)
(*                                                                         *)
(* Every write of the class is one BEGIN IMMEDIATE transaction, so each    *)
(* is one action here.  The action definitions take the caller's           *)
(* parameters; Spec lets any client call any of them at any time with any  *)
(* arguments, so what holds of Spec holds whatever the schedulers do.      *)
(*                                                                         *)
(* A run row is identified by <<name, slot, attempts>>, which the table    *)
(* declares UNIQUE: runs[j][s] is the sequence of the attempts at slot s   *)
(* of job j, attempt k at index k.  Columns that no statement reads back   *)
(* (summaries, last_status, started_at, ...) are left out, and so is the   *)
(* lease_expires_at of a row that is no longer 'running': every query that *)
(* looks at it also asks for status = 'running'.                           *)
(***************************************************************************)
EXTENDS Integers, Sequences

CONSTANTS
  Jobs,          \* workflow names
  Instances,     \* instance ids: one per SchedulerService object ever made
  Hashes,        \* definition hashes
  LeaseTimeout,  \* length of a lease, in clock units
  NextRun,       \* cron: first slot strictly after a time, in the job's timezone
  NextRunUTC,    \* the same cron expression read in UTC
  MaxTime,       \* bound: the clock stops here
  MaxAttempts,   \* bound: attempts at each slot that Spec makes
  Null           \* SQL NULL

ASSUME ConstantsAssumption ==
  /\ LeaseTimeout \in Nat \ {0}
  /\ MaxTime \in Nat
  /\ MaxAttempts \in [0..MaxTime -> Nat]
  /\ Null \notin Nat

ASSUME NextRunAssumption ==
  \A t \in 0..MaxTime :
    /\ NextRun[t] \in Nat /\ NextRun[t] > t
    /\ NextRunUTC[t] \in Nat /\ NextRunUTC[t] > t

VARIABLES
  jobs,   \* the jobs table: a row or Null per name
  runs,   \* the runs table, by job and slot
  clock   \* wall-clock time, common to the instances of one machine

dbVars == <<jobs, runs, clock>>

Slots == 0..MaxTime          \* slots are times, and only due slots are claimed
Times == Nat \cup {Null}

Terminal == {"ok", "error", "skipped"}
Statuses == Terminal \cup {"running", "aborted"}

JobRow == [hash : Hashes, enabled : BOOLEAN, next_run : Times]
RunRow == [instance : Instances, status : Statuses, expires : Nat]

TypeOK ==
  /\ jobs \in [Jobs -> JobRow \cup {Null}]
  /\ runs \in [Jobs -> [Slots -> Seq(RunRow)]]
  /\ clock \in 0..MaxTime

Init ==
  /\ jobs = [j \in Jobs |-> Null]
  /\ runs = [j \in Jobs |-> [s \in Slots |-> <<>>]]
  /\ clock = 0

-----------------------------------------------------------------------------
(* Reading the tables.                                                     *)

Exists(j) == jobs[j] # Null

\* status = 'running' AND lease_expires_at > now
Live(row) == row.status = "running" /\ row.expires > clock

\* status = 'running' AND lease_expires_at < now
Expired(row) == row.status = "running" /\ row.expires < clock

LiveRow(j, s) == \E k \in DOMAIN runs[j][s] : Live(runs[j][s][k])

Attempts(j, s) == Len(runs[j][s])   \* also MAX(attempts)

\* _due_definitions
Due(j) ==
  /\ Exists(j)
  /\ jobs[j].enabled
  /\ jobs[j].next_run # Null
  /\ jobs[j].next_run <= clock
  /\ ~LiveRow(j, jobs[j].next_run)

DueDefinitions == {j \in Jobs : Due(j)}

\* Broken variant of Claimable: a live lease is not looked for.
ClaimableIgnoringLeases(j, s) ==
  runs[j][s] # <<>> => runs[j][s][Attempts(j, s)].status \notin Terminal

\* Broken variant of Claimable: a slot that ran to the end is not refused.
ClaimableIgnoringTerminal(j, s) == ~LiveRow(j, s)

\* Broken variant of Claimable: only rows someone aborted are retried, not
\* running ones that expired.
ClaimableOnlyAborted(j, s) ==
  runs[j][s] # <<>> => runs[j][s][Attempts(j, s)].status = "aborted"

\* What _try_acquire asks before it inserts: a first attempt goes in
\* unconditionally; a further one only if no lease on the slot is live and
\* the latest attempt did not run to a terminal status.
Claimable(j, s) ==
  /\ ~LiveRow(j, s)
  /\ runs[j][s] # <<>> => runs[j][s][Attempts(j, s)].status \notin Terminal

-----------------------------------------------------------------------------
(* Writing them: one transaction each.                                     *)

\* Broken variant of Ended: the columns are set to NULL.
EndedWithNull(row, status) == [row EXCEPT !.status = status, !.expires = Null]

Ended(row, status) == [row EXCEPT !.status = status, !.expires = 0]

AbortExpired(rows) ==
  [k \in DOMAIN rows |-> IF Expired(rows[k]) THEN Ended(rows[k], "aborted") ELSE rows[k]]

\* _initialize: crash recovery at start-up, over every job.
Initialize ==
  /\ runs' = [j \in Jobs |-> [s \in Slots |-> AbortExpired(runs[j][s])]]
  /\ UNCHANGED <<jobs, clock>>

\* Broken variant of Claim: the dead attempt's row is taken over in place.
ClaimInPlace(j, i, s) ==
  /\ Exists(j)
  /\ Claimable(j, s)
  /\ LET row == [instance |-> i, status |-> "running", expires |-> clock + LeaseTimeout]
     IN  runs' = [runs EXCEPT ![j][s] =
                    IF @ = <<>> THEN <<row>> ELSE [@ EXCEPT ![Len(@)] = row]]
  /\ UNCHANGED <<jobs, clock>>

\* _try_acquire, when it does insert.  The new attempt is MAX(attempts) + 1.
Claim(j, i, s) ==
  /\ Exists(j)
  /\ Claimable(j, s)
  /\ runs' = [runs EXCEPT ![j][s] =
                Append(@, [instance |-> i, status |-> "running",
                           expires |-> clock + LeaseTimeout])]
  /\ UNCHANGED <<jobs, clock>>

\* Broken variant of Renewable: no NOT EXISTS clause.
RenewableAfterSteal(j, s, k, i) ==
  /\ runs[j][s][k].instance = i
  /\ runs[j][s][k].status = "running"

\* _renew's WHERE clause: the caller's own running row, with no later attempt.
Renewable(j, s, k, i) ==
  /\ runs[j][s][k].instance = i
  /\ runs[j][s][k].status = "running"
  /\ k = Attempts(j, s)

Renew(j, s, k, i) ==
  /\ Renewable(j, s, k, i)
  /\ runs' = [runs EXCEPT ![j][s][k].expires = clock + LeaseTimeout]
  /\ UNCHANGED <<jobs, clock>>

\* _finish: by run_id alone, whatever the row's status and whoever asks.
Finish(j, s, k, status) ==
  /\ runs' = [runs EXCEPT ![j][s][k] = Ended(@, status)]
  /\ UNCHANGED <<jobs, clock>>

\* _release: gives up the caller's own claim if it is still running.
Release(j, s, k, i) ==
  /\ runs' = IF runs[j][s][k].status = "running" /\ runs[j][s][k].instance = i
             THEN [runs EXCEPT ![j][s][k] = Ended(@, "aborted")]
             ELSE runs
  /\ UNCHANGED <<jobs, clock>>

\* Broken variant of Advanced: written unconditionally.
AdvancedAnyway(next, value) == value

\* Broken variant of Advanced: the comparison is the wrong way round.
AdvancedBackwards(next, value) ==
  IF value = Null THEN Null
  ELSE IF next = Null \/ next > value THEN value
  ELSE next

\* next_run after _advance: a concrete time only moves it forward, NULL clears it.
Advanced(next, value) ==
  IF value = Null THEN Null
  ELSE IF next = Null \/ next < value THEN value
  ELSE next

\* _advance: move next_run and abort the job's expired attempts.
Advance(j, value) ==
  /\ Exists(j)
  /\ jobs' = [jobs EXCEPT ![j].next_run = Advanced(@, value)]
  /\ runs' = [runs EXCEPT ![j] = [s \in Slots |-> AbortExpired(runs[j][s])]]
  /\ UNCHANGED clock

\* _disable
Disable(j) ==
  /\ Exists(j)
  /\ jobs' = [jobs EXCEPT ![j].enabled = FALSE, ![j].next_run = Null]
  /\ UNCHANGED <<runs, clock>>

\* _enable: next_run is seeded again, by a cron call that is given no timezone.
Enable(j) ==
  /\ Exists(j)
  /\ jobs' = [jobs EXCEPT ![j].enabled = TRUE, ![j].next_run = NextRunUTC[clock]]
  /\ UNCHANGED <<runs, clock>>

\* _upsert_definition: every column is overwritten, next_run included.
Upsert(j, hash, next) ==
  /\ jobs' = [jobs EXCEPT ![j] = [hash |-> hash, enabled |-> TRUE, next_run |-> next]]
  /\ UNCHANGED <<runs, clock>>

\* The last statement of _sync_definitions: names outside the mapping.
DisableOthers(names) ==
  /\ jobs' = [j \in Jobs |->
                IF j \notin names /\ Exists(j) /\ jobs[j].enabled
                THEN [jobs[j] EXCEPT !.enabled = FALSE, !.next_run = Null]
                ELSE jobs[j]]
  /\ UNCHANGED <<runs, clock>>

\* The wall clock.
Elapse ==
  /\ clock < MaxTime
  /\ clock' = clock + 1
  /\ UNCHANGED <<jobs, runs>>

-----------------------------------------------------------------------------
(* Any client, any call, with any next_run among times.                    *)

OnRow(j, s, k) ==
  \/ \E i \in Instances : Renew(j, s, k, i) \/ Release(j, s, k, i)
  \/ \E status \in Statuses \ {"running"} : Finish(j, s, k, status)

OnJob(j, times) ==
  \/ \E i \in Instances, s \in Slots : Claim(j, i, s)
  \/ \E value \in times : Advance(j, value)
  \/ Disable(j)
  \/ Enable(j)
  \/ \E hash \in Hashes, value \in times : Upsert(j, hash, value)

AnyCall(times) ==
  \/ Initialize
  \/ \E j \in Jobs : OnJob(j, times)
  \/ \E j \in Jobs, s \in Slots : \E k \in DOMAIN runs[j][s] : OnRow(j, s, k)
  \/ \E names \in SUBSET Jobs : DisableOthers(names)
  \/ Elapse

\* The calls TLC explores: within the bounds.
Next ==
  /\ AnyCall(Slots \cup {Null})
  /\ \A j \in Jobs, s \in Slots : Len(runs'[j][s]) <= MaxAttempts[s]

Spec == Init /\ [][Next]_dbVars

-----------------------------------------------------------------------------
(* Properties of the store, whatever its clients do.                       *)

\* Only the latest attempt at a slot can hold a live lease: a stalled owner
\* whose expired slot was stolen can never get its lease back by renewing
\* (_renew's NOT EXISTS clause against _try_acquire's MAX(attempts) + 1).
LiveLeaseIsLatest ==
  \A j \in Jobs, s \in Slots : \A k \in DOMAIN runs[j][s] :
    Live(runs[j][s][k]) => k = Attempts(j, s)

\* The lock the whole scheduler rests on: two attempts at one slot never hold
\* live leases together, over every interleaving of claims, renewals, steals,
\* late finishes, recoveries and clock steps.
AtMostOneLiveLease ==
  \A j \in Jobs, s \in Slots : \A k, m \in DOMAIN runs[j][s] :
    Live(runs[j][s][k]) /\ Live(runs[j][s][m]) => k = m

AttemptsStay ==
  \A j \in Jobs, s \in Slots : \A k \in DOMAIN runs[j][s] :
    /\ k \in DOMAIN runs'[j][s]
    /\ runs'[j][s][k].instance = runs[j][s][k].instance
    /\ runs[j][s][k].status # "running" => runs'[j][s][k].status # "running"

\* An attempt that was ended (finished, released or aborted by a peer's
\* recovery) never runs again under the same row, and the row keeps its owner:
\* "every attempt stays on record" (_try_acquire).
EndedStaysEnded == [][AttemptsStay]_dbVars

-----------------------------------------------------------------------------
(* The abstract lease.                                                     *)

Holder(j, s) == IF LiveRow(j, s) THEN Attempts(j, s) ELSE 0

Grantees(j, s) == [k \in DOMAIN runs[j][s] |-> runs[j][s][k].instance]

Lease == INSTANCE SlotLease WITH
  grants <- [j \in Jobs |-> [s \in Slots |-> Grantees(j, s)]],
  holder <- [j \in Jobs |-> [s \in Slots |-> Holder(j, s)]]

\* The store implements a lease per slot: an attempt is granted only while
\* nobody holds the slot, and only the latest grantee can hold it again.
LeaseSpec == Lease!Spec

=============================================================================
