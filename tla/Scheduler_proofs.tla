------------------------- MODULE Scheduler_proofs -------------------------
(***************************************************************************)
(* Proofs about the scheduler's store (SchedulerDB) and about the          *)
(* schedulers that call it (Scheduler), for any number of instances and    *)
(* jobs, any YAML, schedules, options and faults.                          *)
(*                                                                         *)
(* The store comes first, for any calls: the invariants are shown to be    *)
(* preserved by AnyCall(Times), which lets clients pass any next_run, and  *)
(* not just by the calls within the bounds of Next.  StepShapes is what    *)
(* its proofs rest on: seen from the leases, a step of the store appends   *)
(* an attempt to a slot nobody holds, renews the latest attempt at one     *)
(* slot, or does not make any lease live.                                  *)
(*                                                                         *)
(* CallsOnly shows that all a scheduler does to the tables is to make      *)
(* calls of SchedulerDB, so that what holds of any clients holds of        *)
(* schedulers.  It needs to know that a dispatch and a stop() address rows *)
(* that exist, and which are their instance's own (RowsOwned); that in     *)
(* turn holds because no call loses a row or changes its owner.            *)
(*                                                                         *)
(* Every further theorem adds to IndInv what it needs to know of the       *)
(* dispatches, rows or jobs, and takes as hypotheses which faults do not   *)
(* happen.  RowMoves, LifeCycles and JobsMove say what a step makes of a   *)
(* row, of a service's phase and of a job; DispatchesStay and RowsGrow,    *)
(* where dispatches and attempts come from.                                *)
(***************************************************************************)
EXTENDS Scheduler, TLAPS

-----------------------------------------------------------------------------
(* Rows and sequences of rows.                                             *)

\* Replacing a row leaves a sequence of rows, of the same length.
LEMMA ReplaceRow ==
  ASSUME NEW rows \in Seq(RunRow), NEW k \in DOMAIN rows, NEW row \in RunRow
  PROVE  /\ [rows EXCEPT ![k] = row] \in Seq(RunRow)
         /\ Len([rows EXCEPT ![k] = row]) = Len(rows)
         /\ DOMAIN [rows EXCEPT ![k] = row] = DOMAIN rows
  OBVIOUS

\* Ending a row, renewing it and making a new one give a row.
LEMMA RowTypes ==
  ASSUME TypeOK
  PROVE  /\ \A row \in RunRow, status \in Statuses : Ended(row, status) \in RunRow
         /\ \A row \in RunRow : [row EXCEPT !.expires = clock + LeaseTimeout] \in RunRow
         /\ \A i \in Instances :
              [instance |-> i, status |-> "running", expires |-> clock + LeaseTimeout]
                \in RunRow
<1>1. \A row \in RunRow, status \in Statuses : Ended(row, status) \in RunRow
  BY DEF Ended, RunRow
<1>2. clock + LeaseTimeout \in Nat
  BY ConstantsAssumption DEF TypeOK
<1>3. "running" \in Statuses
  BY DEF Statuses
<1>4. \A row \in RunRow : [row EXCEPT !.expires = clock + LeaseTimeout] \in RunRow
  BY <1>2 DEF RunRow
<1> QED BY <1>1, <1>2, <1>3, <1>4 DEF RunRow

\* Aborting the expired rows keeps every row's place and owner.
LEMMA AbortExpiredRows ==
  ASSUME TypeOK, NEW rows \in Seq(RunRow)
  PROVE  /\ AbortExpired(rows) \in Seq(RunRow)
         /\ Len(AbortExpired(rows)) = Len(rows)
         /\ DOMAIN AbortExpired(rows) = DOMAIN rows
         /\ \A k \in DOMAIN rows :
              AbortExpired(rows)[k] \in {rows[k], Ended(rows[k], "aborted")}
<1>1. AbortExpired(rows) = [k \in 1..Len(rows) |->
         IF Expired(rows[k]) THEN Ended(rows[k], "aborted") ELSE rows[k]]
  BY DEF AbortExpired
<1>2. \A k \in 1..Len(rows) : rows[k] \in RunRow /\ Ended(rows[k], "aborted") \in RunRow
  BY RowTypes DEF Statuses
<1> QED BY <1>1, <1>2

-----------------------------------------------------------------------------
(* What a step does to the leases.                                         *)

\* Live(row), with the time as a parameter.
LiveAt(row, t) == row.status = "running" /\ row.expires > t

\* Live, with the time it is evaluated at made explicit.
LEMMA LiveIsLiveAt == \A row : Live(row) <=> LiveAt(row, clock)
  BY DEF Live, LiveAt

\* An attempt is appended, live, to a slot on which no lease is live.
Appends(j, s, i) ==
  /\ ~LiveRow(j, s)
  /\ \E row \in RunRow :
       /\ row.instance = i /\ LiveAt(row, clock)
       /\ runs' = [runs EXCEPT ![j][s] = Append(runs[j][s], row)]
  /\ clock' = clock

\* The latest attempt at a slot, still running, has its lease extended.
Renews(j, s) ==
  LET k == Attempts(j, s)
  IN  /\ k \in DOMAIN runs[j][s]
      /\ \E row \in RunRow :
           /\ row.instance = runs[j][s][k].instance /\ LiveAt(row, clock)
           /\ runs[j][s][k].status = "running"
           /\ runs' = [runs EXCEPT ![j][s] = [runs[j][s] EXCEPT ![k] = row]]
      /\ clock' = clock

\* new at time t has old's owner, and is running or live only if old was at u.
Weaker(new, t, old, u) ==
  /\ new.instance = old.instance
  /\ old.status # "running" => new.status # "running"
  /\ LiveAt(new, t) => LiveAt(old, u)

\* No row is added, and none comes to life: neither its lease nor its status.
Weakens ==
  \A j \in Jobs, s \in Slots :
    /\ DOMAIN runs'[j][s] = DOMAIN runs[j][s]
    /\ Len(runs'[j][s]) = Len(runs[j][s])
    /\ \A k \in DOMAIN runs[j][s] : Weaker(runs'[j][s][k], clock', runs[j][s][k], clock)

Shapes ==
  \/ Weakens
  \/ \E j \in Jobs, s \in Slots : Renews(j, s) \/ \E i \in Instances : Appends(j, s, i)

\* Ending a row, or leaving it alone, brings no lease to life.
LEMMA EndedWeakens ==
  ASSUME NEW row \in RunRow, NEW status \in Statuses \ {"running"},
         NEW new \in {row, Ended(row, status)}, NEW t
  PROVE  Weaker(new, t, row, t)
<1>1. CASE new = row
  BY <1>1 DEF Weaker
<1>2. CASE new = Ended(row, status)
  <2>1. new.instance = row.instance /\ new.status = status
    BY <1>2 DEF Ended, RunRow
  <2> QED BY <2>1 DEF LiveAt, Weaker
<1> QED BY <1>1, <1>2

RunsTypeOK == runs \in [Jobs -> [Slots -> Seq(RunRow)]]

\* db.finish and db.release write one row.
LEMMA EndRowWeakens ==
  ASSUME TypeOK, NEW j \in Jobs, NEW s \in Slots, NEW k \in DOMAIN runs[j][s],
         NEW status \in Statuses \ {"running"},
         runs' = [runs EXCEPT ![j][s][k] = Ended(@, status)], clock' = clock
  PROVE  RunsTypeOK' /\ Weakens
<1> DEFINE row == Ended(runs[j][s][k], status)
           rows == [runs[j][s] EXCEPT ![k] = row]
<1>1. runs[j][s] \in Seq(RunRow) /\ runs[j][s][k] \in RunRow
  BY DEF TypeOK
<1>2. row \in RunRow
  BY <1>1, RowTypes
<1>3. rows \in Seq(RunRow) /\ Len(rows) = Len(runs[j][s]) /\ DOMAIN rows = DOMAIN runs[j][s]
  BY <1>1, <1>2, ReplaceRow
<1>4. runs' = [runs EXCEPT ![j][s] = rows]
  BY DEF TypeOK
<1> HIDE DEF rows, row
<1>5. /\ runs' \in [Jobs -> [Slots -> Seq(RunRow)]]
      /\ runs'[j][s] = rows
      /\ \A x \in Jobs, y \in Slots : x # j \/ y # s => runs'[x][y] = runs[x][y]
  BY <1>3, <1>4 DEF TypeOK
<1>6. ASSUME NEW x \in Jobs, NEW y \in Slots, NEW m \in DOMAIN runs[x][y]
      PROVE  runs'[x][y][m] \in {runs[x][y][m], Ended(runs[x][y][m], status)}
  BY <1>5 DEF rows, row
<1>7. ASSUME NEW x \in Jobs, NEW y \in Slots
      PROVE  DOMAIN runs'[x][y] = DOMAIN runs[x][y] /\ Len(runs'[x][y]) = Len(runs[x][y])
  BY <1>3, <1>5
<1>8. ASSUME NEW x \in Jobs, NEW y \in Slots, NEW m \in DOMAIN runs[x][y]
      PROVE  Weaker(runs'[x][y][m], clock', runs[x][y][m], clock)
  <2>1. runs[x][y][m] \in RunRow
    BY DEF TypeOK
  <2>2. runs'[x][y][m] \in {runs[x][y][m], Ended(runs[x][y][m], status)}
    BY <1>6
  <2> QED BY <2>1, <2>2, EndedWeakens, Zenon
<1> QED BY <1>5, <1>7, <1>8 DEF Weakens, RunsTypeOK

\* Initialize and Advance abort the expired rows of all jobs or of one.
LEMMA AbortWeakens ==
  ASSUME TypeOK, clock' = clock, NEW names \in SUBSET Jobs,
         runs' = [j \in Jobs |-> [s \in Slots |->
                    IF j \in names THEN AbortExpired(runs[j][s]) ELSE runs[j][s]]]
  PROVE  RunsTypeOK' /\ Weakens
<1>1. ASSUME NEW j \in Jobs, NEW s \in Slots
      PROVE  /\ runs'[j][s] \in Seq(RunRow)
             /\ DOMAIN runs'[j][s] = DOMAIN runs[j][s]
             /\ Len(runs'[j][s]) = Len(runs[j][s])
             /\ \A k \in DOMAIN runs[j][s] :
                  runs'[j][s][k] \in {runs[j][s][k], Ended(runs[j][s][k], "aborted")}
  <2>1. runs[j][s] \in Seq(RunRow)
    BY DEF TypeOK
  <2>2. CASE j \in names
    <3>1. runs'[j][s] = AbortExpired(runs[j][s])
      BY <2>2
    <3> QED BY <2>1, <3>1, AbortExpiredRows, Zenon
  <2>3. CASE j \notin names
    <3>1. runs'[j][s] = runs[j][s]
      BY <2>3
    <3> QED BY <2>1, <3>1, Zenon
  <2> QED BY <2>2, <2>3
<1>2. ASSUME NEW j \in Jobs, NEW s \in Slots, NEW k \in DOMAIN runs[j][s]
      PROVE  Weaker(runs'[j][s][k], clock', runs[j][s][k], clock)
  <2>1. runs[j][s][k] \in RunRow
    BY DEF TypeOK
  <2>2. "aborted" \in Statuses \ {"running"}
    BY DEF Statuses
  <2>3. runs'[j][s][k] \in {runs[j][s][k], Ended(runs[j][s][k], "aborted")}
    BY <1>1
  <2> QED BY <2>1, <2>2, <2>3, EndedWeakens, Zenon
<1>3. RunsTypeOK'
  BY <1>1 DEF RunsTypeOK
<1> QED BY <1>1, <1>2, <1>3 DEF Weakens

\* A step that leaves the rows alone, while time does not go backwards.
LEMMA UnchangedWeakens ==
  ASSUME TypeOK, runs' = runs, clock' \in Nat, clock' >= clock
  PROVE  RunsTypeOK' /\ Weakens
<1>1. ASSUME NEW j \in Jobs, NEW s \in Slots, NEW k \in DOMAIN runs[j][s],
             LiveAt(runs'[j][s][k], clock')
      PROVE  LiveAt(runs[j][s][k], clock)
  <2>1. runs[j][s][k] \in RunRow
    BY DEF TypeOK
  <2> QED BY <1>1, <2>1, ConstantsAssumption DEF LiveAt, RunRow, TypeOK
<1> QED BY <1>1 DEF Weakens, Weaker, RunsTypeOK, TypeOK

\* A claim appends its row.
LEMMA ClaimAppends ==
  ASSUME TypeOK, NEW j \in Jobs, NEW s \in Slots, NEW i \in Instances, Claim(j, i, s)
  PROVE  RunsTypeOK' /\ Appends(j, s, i)
<1> DEFINE row == [instance |-> i, status |-> "running", expires |-> clock + LeaseTimeout]
<1>1. row \in RunRow /\ row.instance = i
  BY RowTypes
<1>2. LiveAt(row, clock)
  BY ConstantsAssumption DEF LiveAt, TypeOK
<1>3. runs' = [runs EXCEPT ![j][s] = Append(runs[j][s], row)]
  BY DEF Claim
<1>4. ~LiveRow(j, s) /\ clock' = clock
  BY DEF Claim, Claimable
<1> HIDE DEF row
<1>5. RunsTypeOK'
  <2>1. Append(runs[j][s], row) \in Seq(RunRow)
    BY <1>1 DEF TypeOK
  <2> QED BY <1>3, <2>1 DEF RunsTypeOK, TypeOK
<1> QED BY <1>1, <1>2, <1>3, <1>4, <1>5 DEF Appends

\* A renewal rewrites the latest row.
LEMMA RenewRenews ==
  ASSUME TypeOK, NEW j \in Jobs, NEW s \in Slots, NEW k \in DOMAIN runs[j][s],
         NEW i \in Instances, Renew(j, s, k, i)
  PROVE  RunsTypeOK' /\ Renews(j, s)
<1> DEFINE row == [runs[j][s][k] EXCEPT !.expires = clock + LeaseTimeout]
           rows == [runs[j][s] EXCEPT ![k] = row]
<1>1. runs[j][s] \in Seq(RunRow) /\ runs[j][s][k] \in RunRow
  BY DEF TypeOK
<1>2. row \in RunRow
  BY <1>1, RowTypes
<1>3. k = Attempts(j, s) /\ clock' = clock /\ runs[j][s][k].status = "running"
  BY DEF Renew, Renewable
<1>4. row.instance = runs[j][s][k].instance /\ LiveAt(row, clock)
  BY <1>1, <1>3, ConstantsAssumption DEF LiveAt, TypeOK, RunRow
<1>5. runs' = [runs EXCEPT ![j][s] = rows]
  BY DEF Renew, TypeOK
<1>6. rows \in Seq(RunRow)
  BY <1>1, <1>2, ReplaceRow
<1> HIDE DEF row
<1>7. RunsTypeOK'
  BY <1>5, <1>6 DEF RunsTypeOK, TypeOK
<1> QED BY <1>2, <1>3, <1>4, <1>5, <1>7 DEF Renews

-----------------------------------------------------------------------------
(* The jobs table.                                                         *)

JobsTypeOK == jobs \in [Jobs -> JobRow \cup {Null}]

\* Every write of a job leaves a row, or no row.
LEMMA JobWrites ==
  ASSUME TypeOK, NEW j \in Jobs,
         \/ \E value \in Times : Advance(j, value)
         \/ Disable(j)
         \/ Enable(j)
         \/ \E hash \in Hashes, value \in Times : Upsert(j, hash, value)
  PROVE  JobsTypeOK'
<1>1. Exists(j) => jobs[j] \in JobRow
  BY DEF Exists, TypeOK
<1>2. CASE \E value \in Times : Advance(j, value)
  <2>1. PICK value \in Times : Advance(j, value)
    BY <1>2
  <2>2. jobs[j] \in JobRow
    BY <1>1, <2>1 DEF Advance
  <2>3. Advanced(jobs[j].next_run, value) \in Times
    BY <2>2 DEF Advanced, JobRow, Times
  <2>4. [jobs[j] EXCEPT !.next_run = Advanced(jobs[j].next_run, value)] \in JobRow
    BY <2>2, <2>3 DEF JobRow
  <2> QED BY <2>1, <2>4 DEF Advance, JobsTypeOK, TypeOK
<1>3. CASE Disable(j)
  <2>1. [jobs[j] EXCEPT !.enabled = FALSE, !.next_run = Null] \in JobRow
    BY <1>1, <1>3 DEF Disable, JobRow, Times
  <2> QED BY <1>3, <2>1 DEF Disable, JobsTypeOK, TypeOK
<1>4. CASE Enable(j)
  <2>1. NextRunUTC[clock] \in Times
    BY NextRunAssumption DEF TypeOK, Times
  <2>2. [jobs[j] EXCEPT !.enabled = TRUE, !.next_run = NextRunUTC[clock]] \in JobRow
    BY <1>1, <1>4, <2>1 DEF Enable, JobRow
  <2> QED BY <1>4, <2>2 DEF Enable, JobsTypeOK, TypeOK
<1>5. CASE \E hash \in Hashes, value \in Times : Upsert(j, hash, value)
  BY <1>5 DEF Upsert, JobsTypeOK, JobRow, TypeOK
<1> QED BY <1>2, <1>3, <1>4, <1>5

\* Disabling the jobs outside a set of names leaves rows.
LEMMA DisableOthersWrites ==
  ASSUME TypeOK, NEW names \in SUBSET Jobs, DisableOthers(names)
  PROVE  JobsTypeOK'
<1>1. ASSUME NEW j \in Jobs, Exists(j)
      PROVE  [jobs[j] EXCEPT !.enabled = FALSE, !.next_run = Null] \in JobRow
  BY <1>1 DEF Exists, TypeOK, JobRow, Times
<1> QED BY <1>1 DEF DisableOthers, JobsTypeOK, TypeOK

-----------------------------------------------------------------------------
(* Every step.                                                             *)

\* The calls that address one row.
LEMMA RowCallShapes ==
  ASSUME TypeOK, NEW j \in Jobs, NEW s \in Slots, NEW k \in DOMAIN runs[j][s],
         OnRow(j, s, k)
  PROVE  RunsTypeOK' /\ Shapes /\ jobs' = jobs /\ clock' = clock
<1>1. ASSUME NEW i \in Instances, Renew(j, s, k, i)
      PROVE  RunsTypeOK' /\ Shapes /\ jobs' = jobs /\ clock' = clock
  <2>1. jobs' = jobs /\ clock' = clock
    BY <1>1 DEF Renew
  <2> QED BY <1>1, <2>1, RenewRenews DEF Shapes
<1>2. ASSUME NEW i \in Instances, Release(j, s, k, i)
      PROVE  RunsTypeOK' /\ Shapes /\ jobs' = jobs /\ clock' = clock
  <2>1. jobs' = jobs /\ clock' = clock
    BY <1>2 DEF Release
  <2>2. CASE runs[j][s][k].status = "running" /\ runs[j][s][k].instance = i
    <3>1. runs' = [runs EXCEPT ![j][s][k] = Ended(@, "aborted")]
      BY <1>2, <2>2 DEF Release
    <3>2. "aborted" \in Statuses \ {"running"}
      BY DEF Statuses
    <3> QED BY <2>1, <3>1, <3>2, EndRowWeakens DEF Shapes
  <2>3. CASE ~(runs[j][s][k].status = "running" /\ runs[j][s][k].instance = i)
    <3>1. runs' = runs
      BY <1>2, <2>3 DEF Release
    <3>2. clock' \in Nat /\ clock' >= clock
      BY <2>1, ConstantsAssumption DEF TypeOK
    <3> QED BY <2>1, <3>1, <3>2, UnchangedWeakens DEF Shapes
  <2> QED BY <2>2, <2>3
<1>3. ASSUME NEW status \in Statuses \ {"running"}, Finish(j, s, k, status)
      PROVE  RunsTypeOK' /\ Shapes /\ jobs' = jobs /\ clock' = clock
  <2>1. jobs' = jobs /\ clock' = clock
    BY <1>3 DEF Finish
  <2>2. runs' = [runs EXCEPT ![j][s][k] = Ended(@, status)]
    BY <1>3 DEF Finish
  <2> QED BY <2>1, <2>2, EndRowWeakens DEF Shapes
<1> QED BY <1>1, <1>2, <1>3 DEF OnRow

\* The calls that address one job.
LEMMA JobCallShapes ==
  ASSUME TypeOK, NEW j \in Jobs, OnJob(j, Times)
  PROVE  RunsTypeOK' /\ Shapes /\ JobsTypeOK' /\ clock' = clock
<1>1. clock \in Nat /\ clock >= clock
  BY ConstantsAssumption DEF TypeOK
<1>2. ASSUME NEW i \in Instances, NEW s \in Slots, Claim(j, i, s)
      PROVE  RunsTypeOK' /\ Shapes /\ JobsTypeOK' /\ clock' = clock
  <2>1. jobs' = jobs /\ clock' = clock
    BY <1>2 DEF Claim
  <2> QED BY <1>2, <2>1, ClaimAppends DEF Shapes, JobsTypeOK, TypeOK
<1>3. ASSUME NEW value \in Times, Advance(j, value)
      PROVE  RunsTypeOK' /\ Shapes /\ JobsTypeOK' /\ clock' = clock
  <2>1. clock' = clock
    BY <1>3 DEF Advance
  <2>2. runs' = [x \in Jobs |-> [s \in Slots |->
                   IF x \in {j} THEN AbortExpired(runs[x][s]) ELSE runs[x][s]]]
    BY <1>3 DEF Advance, TypeOK
  <2>3. RunsTypeOK' /\ Weakens
    BY <2>1, <2>2, AbortWeakens
  <2>4. JobsTypeOK'
    BY <1>3, JobWrites
  <2> QED BY <2>1, <2>3, <2>4 DEF Shapes
<1>4. ASSUME Disable(j) \/ Enable(j) \/ \E hash \in Hashes, value \in Times : Upsert(j, hash, value)
      PROVE  RunsTypeOK' /\ Shapes /\ JobsTypeOK' /\ clock' = clock
  <2>1. runs' = runs /\ clock' = clock
    BY <1>4 DEF Disable, Enable, Upsert
  <2>2. RunsTypeOK' /\ Weakens
    BY <1>1, <2>1, UnchangedWeakens
  <2>3. JobsTypeOK'
    BY <1>4, JobWrites
  <2> QED BY <2>1, <2>2, <2>3 DEF Shapes
<1> QED BY <1>2, <1>3, <1>4 DEF OnJob

\* Every call of any client, and every tick of the clock, has one of the
\* shapes, and keeps the types.
THEOREM StepShapes ==
  ASSUME TypeOK, [AnyCall(Times)]_dbVars
  PROVE  TypeOK' /\ Shapes
<1>1. clock \in Nat /\ clock >= clock /\ JobsTypeOK /\ RunsTypeOK /\ clock \in 0..MaxTime
  BY ConstantsAssumption DEF TypeOK, JobsTypeOK, RunsTypeOK
<1>2. CASE Initialize
  <2>1. clock' = clock /\ jobs' = jobs
    BY <1>2 DEF Initialize
  <2>2. runs' = [x \in Jobs |-> [s \in Slots |->
                   IF x \in Jobs THEN AbortExpired(runs[x][s]) ELSE runs[x][s]]]
    BY <1>2 DEF Initialize
  <2>3. RunsTypeOK' /\ Weakens
    BY <2>1, <2>2, AbortWeakens
  <2> QED BY <1>1, <2>1, <2>3 DEF Shapes, TypeOK, JobsTypeOK, RunsTypeOK
<1>3. ASSUME NEW j \in Jobs, OnJob(j, Times)
      PROVE  TypeOK' /\ Shapes
  BY <1>1, <1>3, JobCallShapes DEF TypeOK, JobsTypeOK, RunsTypeOK
<1>4. ASSUME NEW j \in Jobs, NEW s \in Slots, NEW k \in DOMAIN runs[j][s], OnRow(j, s, k)
      PROVE  TypeOK' /\ Shapes
  BY <1>1, <1>4, RowCallShapes DEF TypeOK, JobsTypeOK, RunsTypeOK
<1>5. ASSUME NEW names \in SUBSET Jobs, DisableOthers(names)
      PROVE  TypeOK' /\ Shapes
  <2>1. runs' = runs /\ clock' = clock
    BY <1>5 DEF DisableOthers
  <2>2. RunsTypeOK' /\ Weakens
    BY <1>1, <2>1, UnchangedWeakens
  <2>3. JobsTypeOK'
    BY <1>5, DisableOthersWrites
  <2> QED BY <1>1, <2>1, <2>2, <2>3 DEF Shapes, TypeOK, JobsTypeOK, RunsTypeOK
<1>6. CASE Elapse
  <2>1. runs' = runs /\ jobs' = jobs /\ clock' = clock + 1 /\ clock < MaxTime
    BY <1>6 DEF Elapse
  <2>2. clock' \in 0..MaxTime /\ clock' \in Nat /\ clock' >= clock
    BY <1>1, <2>1, ConstantsAssumption
  <2>3. RunsTypeOK' /\ Weakens
    BY <2>1, <2>2, UnchangedWeakens
  <2> QED BY <1>1, <2>1, <2>2, <2>3 DEF Shapes, TypeOK, JobsTypeOK, RunsTypeOK
<1>7. CASE UNCHANGED dbVars
  <2>1. runs' = runs /\ jobs' = jobs /\ clock' = clock
    BY <1>7 DEF dbVars
  <2>2. RunsTypeOK' /\ Weakens
    BY <1>1, <2>1, UnchangedWeakens
  <2> QED BY <1>1, <2>1, <2>2 DEF Shapes, TypeOK, JobsTypeOK, RunsTypeOK
<1> QED BY <1>2, <1>3, <1>4, <1>5, <1>6, <1>7 DEF AnyCall

\* Next only makes calls of AnyCall(Times).
LEMMA NextCalls ==
  ASSUME [Next]_dbVars
  PROVE  [AnyCall(Times)]_dbVars
<1>1. Slots \cup {Null} \subseteq Times
  BY ConstantsAssumption DEF Slots, Times
<1> QED BY <1>1 DEF Next, AnyCall, OnJob

\* The tables are empty at first.
LEMMA InitTypes == Init => TypeOK /\ LiveLeaseIsLatest
  BY ConstantsAssumption DEF Init, TypeOK, Slots, LiveLeaseIsLatest

\* Whatever the clients do, the tables keep their types.
THEOREM TypeCorrect == Spec => []TypeOK
<1>1. TypeOK /\ [Next]_dbVars => TypeOK'
  BY NextCalls, StepShapes
<1> QED BY InitTypes, <1>1, PTL DEF Spec

-----------------------------------------------------------------------------
(* One live lease per slot.                                                *)

\* What AtMostOneLiveLease needs to be inductive: a live lease is that of the
\* latest attempt.  Otherwise a steal could leave an older row that a late
\* renewal brings back to life.
LEMMA LatestPreserved ==
  ASSUME TypeOK, LiveLeaseIsLatest, Shapes
  PROVE  LiveLeaseIsLatest'
<1> USE DEF Attempts
<1>1. ASSUME NEW j \in Jobs, NEW s \in Slots, NEW k \in DOMAIN runs[j][s],
             LiveAt(runs[j][s][k], clock)
      PROVE  k = Len(runs[j][s])
  BY <1>1, LiveIsLiveAt DEF LiveLeaseIsLatest
<1> SUFFICES ASSUME NEW j \in Jobs, NEW s \in Slots, NEW k \in DOMAIN runs'[j][s],
                    LiveAt(runs'[j][s][k], clock')
             PROVE  k = Len(runs'[j][s])
  BY DEF LiveLeaseIsLatest, Live, LiveAt
<1>2. runs[j][s] \in Seq(RunRow)
  BY DEF TypeOK
<1>3. CASE Weakens
  BY <1>1, <1>3 DEF Weakens, Weaker
<1>4. ASSUME NEW x \in Jobs, NEW y \in Slots, Renews(x, y)
      PROVE  k = Len(runs'[j][s])
  <2>1. CASE x = j /\ y = s
    <3>1. PICK row \in RunRow :
            runs' = [runs EXCEPT ![j][s] = [runs[j][s] EXCEPT ![Len(runs[j][s])] = row]]
      BY <1>4, <2>1 DEF Renews
    <3>2. runs'[j][s] = [runs[j][s] EXCEPT ![Len(runs[j][s])] = row] /\ clock' = clock
      BY <1>4, <3>1 DEF Renews, TypeOK
    <3>3. Len(runs'[j][s]) = Len(runs[j][s]) /\ DOMAIN runs'[j][s] = DOMAIN runs[j][s]
      BY <1>2, <3>2
    <3>4. k # Len(runs[j][s]) => runs'[j][s][k] = runs[j][s][k]
      BY <1>2, <3>2, <3>3
    <3> QED BY <1>1, <3>2, <3>3, <3>4
  <2>2. CASE ~(x = j /\ y = s)
    <3>1. runs'[j][s] = runs[j][s] /\ clock' = clock
      BY <1>4, <2>2 DEF Renews, TypeOK
    <3> QED BY <1>1, <3>1
  <2> QED BY <2>1, <2>2
<1>5. ASSUME NEW x \in Jobs, NEW y \in Slots, NEW i \in Instances, Appends(x, y, i)
      PROVE  k = Len(runs'[j][s])
  <2>1. CASE x = j /\ y = s
    <3>1. PICK row \in RunRow : runs' = [runs EXCEPT ![j][s] = Append(runs[j][s], row)]
      BY <1>5, <2>1 DEF Appends
    <3>2. runs'[j][s] = Append(runs[j][s], row) /\ clock' = clock
      BY <1>5, <3>1 DEF Appends, TypeOK
    <3>3. Len(runs'[j][s]) = Len(runs[j][s]) + 1 /\ DOMAIN runs'[j][s] = 1..(Len(runs[j][s]) + 1)
      BY <1>2, <3>2
    <3>4. k # Len(runs'[j][s]) => k \in DOMAIN runs[j][s] /\ runs'[j][s][k] = runs[j][s][k]
      BY <1>2, <3>2, <3>3
    <3>5. ASSUME NEW m \in DOMAIN runs[j][s] PROVE ~LiveAt(runs[j][s][m], clock)
      BY <1>5, <2>1, LiveIsLiveAt DEF Appends, LiveRow
    <3> QED BY <3>2, <3>4, <3>5
  <2>2. CASE ~(x = j /\ y = s)
    <3>1. runs'[j][s] = runs[j][s] /\ clock' = clock
      BY <1>5, <2>2 DEF Appends, TypeOK
    <3> QED BY <1>1, <3>1
  <2> QED BY <2>1, <2>2
<1> QED BY <1>3, <1>4, <1>5 DEF Shapes

\* No two attempts at a slot ever hold live leases together: the mutual
\* exclusion the scheduler gets from the store, for any clients.
THEOREM LeaseExclusion == Spec => []AtMostOneLiveLease
<1>1. TypeOK /\ LiveLeaseIsLatest /\ [Next]_dbVars => (TypeOK /\ LiveLeaseIsLatest)'
  BY NextCalls, StepShapes, LatestPreserved
<1>2. LiveLeaseIsLatest => AtMostOneLiveLease
  BY DEF LiveLeaseIsLatest, AtMostOneLiveLease
<1> QED BY InitTypes, <1>1, <1>2, PTL DEF Spec

-----------------------------------------------------------------------------
(* Ended attempts.                                                         *)

\* A step of any shape keeps the attempts and leaves the ended ones ended.
LEMMA AttemptsStayStep ==
  ASSUME TypeOK, Shapes
  PROVE  AttemptsStay
<1> SUFFICES ASSUME NEW j \in Jobs, NEW s \in Slots, NEW k \in DOMAIN runs[j][s]
             PROVE  /\ k \in DOMAIN runs'[j][s]
                    /\ runs'[j][s][k].instance = runs[j][s][k].instance
                    /\ runs[j][s][k].status # "running" => runs'[j][s][k].status # "running"
  BY DEF AttemptsStay
<1>1. runs[j][s] \in Seq(RunRow)
  BY DEF TypeOK
<1>2. CASE Weakens
  BY <1>2 DEF Weakens, Weaker
<1>3. ASSUME NEW x \in Jobs, NEW y \in Slots, Renews(x, y)
      PROVE  /\ k \in DOMAIN runs'[j][s]
             /\ runs'[j][s][k].instance = runs[j][s][k].instance
             /\ runs[j][s][k].status # "running" => runs'[j][s][k].status # "running"
  <2>1. PICK row \in RunRow :
          /\ row.instance = runs[x][y][Len(runs[x][y])].instance
          /\ runs[x][y][Len(runs[x][y])].status = "running"
          /\ runs' = [runs EXCEPT ![x][y] = [runs[x][y] EXCEPT ![Len(runs[x][y])] = row]]
    BY <1>3 DEF Renews, Attempts
  <2>2. CASE x = j /\ y = s
    <3>1. runs'[j][s] = [runs[j][s] EXCEPT ![Len(runs[j][s])] = row]
      BY <2>1, <2>2 DEF TypeOK
    <3> QED BY <1>1, <2>1, <2>2, <3>1
  <2>3. CASE ~(x = j /\ y = s)
    BY <2>1, <2>3 DEF TypeOK
  <2> QED BY <2>2, <2>3
<1>4. ASSUME NEW x \in Jobs, NEW y \in Slots, NEW i \in Instances, Appends(x, y, i)
      PROVE  /\ k \in DOMAIN runs'[j][s]
             /\ runs'[j][s][k].instance = runs[j][s][k].instance
             /\ runs[j][s][k].status # "running" => runs'[j][s][k].status # "running"
  <2>1. PICK row \in RunRow : runs' = [runs EXCEPT ![x][y] = Append(runs[x][y], row)]
    BY <1>4 DEF Appends
  <2>2. CASE x = j /\ y = s
    <3>1. runs'[j][s] = Append(runs[j][s], row)
      BY <2>1, <2>2 DEF TypeOK
    <3> QED BY <1>1, <3>1
  <2>3. CASE ~(x = j /\ y = s)
    BY <2>1, <2>3 DEF TypeOK
  <2> QED BY <2>2, <2>3
<1> QED BY <1>2, <1>3, <1>4 DEF Shapes

\* An attempt that was ended never runs again, and no attempt is lost or
\* changes hands, for any clients.
THEOREM EndedAttemptsStayEnded == Spec => EndedStaysEnded
<1>1. TypeOK /\ [Next]_dbVars => TypeOK' /\ [AttemptsStay]_dbVars
  BY NextCalls, StepShapes, AttemptsStayStep
<1> QED BY InitTypes, <1>1, PTL DEF Spec, EndedStaysEnded

-----------------------------------------------------------------------------
(* The store implements SlotLease.                                         *)

\* The grantees of a slot are a sequence as long as its attempts.
LEMMA GranteesSeq ==
  ASSUME TypeOK, NEW j \in Jobs, NEW s \in Slots
  PROVE  /\ Grantees(j, s) \in Seq(Instances)
         /\ Len(Grantees(j, s)) = Attempts(j, s)
         /\ DOMAIN Grantees(j, s) = 1..Attempts(j, s)
         /\ Attempts(j, s) \in Nat
<1>1. runs[j][s] \in Seq(RunRow)
  BY DEF TypeOK
<1>2. Grantees(j, s) = [k \in 1..Len(runs[j][s]) |-> runs[j][s][k].instance]
  BY <1>1 DEF Grantees
<1>3. \A k \in 1..Len(runs[j][s]) : runs[j][s][k].instance \in Instances
  <2>1. \A k \in 1..Len(runs[j][s]) : runs[j][s][k] \in RunRow
    BY <1>1
  <2>2. \A row \in RunRow : row.instance \in Instances
    BY DEF RunRow
  <2> QED BY <2>1, <2>2
<1> QED BY <1>1, <1>2, <1>3 DEF Attempts

\* A slot is held by its latest attempt or by nobody.
LEMMA HolderValues ==
  ASSUME TypeOK, NEW j \in Jobs, NEW s \in Slots
  PROVE  /\ Holder(j, s) \in Nat
         /\ LiveRow(j, s) => Holder(j, s) = Attempts(j, s) /\ Holder(j, s) # 0
         /\ ~LiveRow(j, s) => Holder(j, s) = 0
<1>1. Attempts(j, s) \in Nat
  BY GranteesSeq
<1>2. runs[j][s] \in Seq(RunRow)
  BY DEF TypeOK
<1>3. LiveRow(j, s) => Attempts(j, s) # 0
  BY <1>2 DEF LiveRow, Attempts
<1> QED BY <1>1, <1>3 DEF Holder

\* Slots no attempt of which changed have the grantees and holder they had.
LEMMA SameSlot ==
  ASSUME NEW j \in Jobs, NEW s \in Slots, runs'[j][s] = runs[j][s], clock' = clock
  PROVE  /\ Grantees(j, s)' = Grantees(j, s)
         /\ Holder(j, s)' = Holder(j, s)
<1>1. LiveRow(j, s)' <=> LiveRow(j, s)
  BY DEF LiveRow, Live
<1> QED BY <1>1 DEF Grantees, Holder, Attempts

\* Steps that bring no lease to life are lapses.
LEMMA WeakensLapses ==
  ASSUME TypeOK, TypeOK', Weakens
  PROVE  Lease!Lapse
<1>1. ASSUME NEW j \in Jobs, NEW s \in Slots
      PROVE  Grantees(j, s)' = Grantees(j, s)
  BY <1>1 DEF Weakens, Weaker, Grantees
<1>2. ASSUME NEW j \in Jobs, NEW s \in Slots
      PROVE  Holder(j, s)' \in {0, Holder(j, s)}
  <2>1. LiveRow(j, s)' => LiveRow(j, s)
    BY DEF Weakens, Weaker, LiveRow, Live, LiveAt
  <2>2. Attempts(j, s)' = Attempts(j, s)
    BY DEF Weakens, Attempts
  <2> QED BY <2>1, <2>2 DEF Holder
<1>3. ASSUME NEW j \in Jobs, NEW s \in Slots PROVE Holder(j, s)' \in Nat
  BY <1>2, HolderValues
<1> QED BY <1>1, <1>2, <1>3 DEF Lease!Lapse

\* A renewal of a live lease changes nothing, one of an expired lease resumes
\* it.
LEMMA RenewsResumes ==
  ASSUME TypeOK, TypeOK', NEW j \in Jobs, NEW s \in Slots, Renews(j, s)
  PROVE  Lease!Resume(j, s) \/ UNCHANGED Lease!vars
<1>1. PICK row \in RunRow :
        /\ row.instance = runs[j][s][Len(runs[j][s])].instance
        /\ LiveAt(row, clock)
        /\ runs' = [runs EXCEPT ![j][s] = [runs[j][s] EXCEPT ![Len(runs[j][s])] = row]]
  BY DEF Renews, Attempts
<1>2. runs[j][s] \in Seq(RunRow) /\ clock' = clock /\ Len(runs[j][s]) \in DOMAIN runs[j][s]
  BY DEF Renews, Attempts, TypeOK
<1>3. runs'[j][s] = [runs[j][s] EXCEPT ![Len(runs[j][s])] = row]
  BY <1>1 DEF TypeOK
<1>4. ASSUME NEW x \in Jobs, NEW y \in Slots, ~(x = j /\ y = s)
      PROVE  Grantees(x, y)' = Grantees(x, y) /\ Holder(x, y)' = Holder(x, y)
  <2>1. runs'[x][y] = runs[x][y]
    BY <1>1, <1>4 DEF TypeOK
  <2> QED BY <1>2, <2>1, SameSlot
<1>5. Grantees(j, s)' = Grantees(j, s)
  BY <1>1, <1>2, <1>3 DEF Grantees
<1>6. Attempts(j, s)' = Attempts(j, s)
  BY <1>2, <1>3 DEF Attempts
<1>7. LiveRow(j, s)'
  BY <1>1, <1>2, <1>3 DEF LiveRow, Live, LiveAt
<1>8. Holder(j, s)' = Attempts(j, s)
  BY <1>6, <1>7 DEF Holder
<1>9. CASE LiveRow(j, s)
  <2>1. Holder(j, s)' = Holder(j, s)
    BY <1>8, <1>9 DEF Holder
  <2> QED BY <1>4, <1>5, <2>1 DEF Lease!vars
<1>10. CASE ~LiveRow(j, s)
  <2>1. Holder(j, s) = 0
    BY <1>10 DEF Holder
  <2>2. Len(Grantees(j, s)) = Attempts(j, s) /\ Grantees(j, s) # <<>>
    BY <1>2, GranteesSeq DEF Attempts
  <2> QED BY <1>4, <1>5, <1>8, <2>1, <2>2 DEF Lease!Resume
<1> QED BY <1>9, <1>10

\* A claim is a grant.
LEMMA AppendsGrants ==
  ASSUME TypeOK, TypeOK', NEW j \in Jobs, NEW s \in Slots, NEW i \in Instances,
         Appends(j, s, i)
  PROVE  Lease!Grant(j, s, i)
<1>1. PICK row \in RunRow :
        /\ row.instance = i /\ LiveAt(row, clock)
        /\ runs' = [runs EXCEPT ![j][s] = Append(runs[j][s], row)]
  BY DEF Appends
<1>2. runs[j][s] \in Seq(RunRow) /\ clock' = clock /\ ~LiveRow(j, s)
  BY DEF Appends, TypeOK
<1>3. runs'[j][s] = Append(runs[j][s], row)
  BY <1>1 DEF TypeOK
<1>4. ASSUME NEW x \in Jobs, NEW y \in Slots, ~(x = j /\ y = s)
      PROVE  Grantees(x, y)' = Grantees(x, y) /\ Holder(x, y)' = Holder(x, y)
  <2>1. runs'[x][y] = runs[x][y]
    BY <1>1, <1>4 DEF TypeOK
  <2> QED BY <1>2, <2>1, SameSlot
<1>5. Len(Grantees(j, s)) = Len(runs[j][s]) /\ Grantees(j, s) \in Seq(Instances)
  BY GranteesSeq DEF Attempts
<1>6. Grantees(j, s)' = Append(Grantees(j, s), i)
  <2>1. Grantees(j, s)' = [k \in 1..(Len(runs[j][s]) + 1) |->
                             IF k <= Len(runs[j][s]) THEN runs[j][s][k].instance ELSE i]
    BY <1>1, <1>2, <1>3 DEF Grantees
  <2>2. Grantees(j, s) = [k \in 1..Len(runs[j][s]) |-> runs[j][s][k].instance]
    BY <1>2 DEF Grantees
  <2> QED BY <1>2, <1>5, <2>1, <2>2
<1>7. Attempts(j, s)' = Len(Grantees(j, s)) + 1
  BY <1>2, <1>3, <1>5 DEF Attempts
<1>8. LiveRow(j, s)'
  <2>1. Len(runs[j][s]) + 1 \in DOMAIN runs'[j][s] /\ runs'[j][s][Len(runs[j][s]) + 1] = row
    BY <1>2, <1>3
  <2> QED BY <1>1, <1>2, <2>1 DEF LiveRow, Live, LiveAt
<1>9. Holder(j, s)' = Len(Grantees(j, s)) + 1 /\ Holder(j, s) = 0
  BY <1>2, <1>7, <1>8 DEF Holder
<1> QED BY <1>4, <1>6, <1>9 DEF Lease!Grant

\* Any call is a step of the lease, or changes nothing of it.
LEMMA CallsAreLeaseSteps ==
  ASSUME TypeOK, [AnyCall(Times)]_dbVars
  PROVE  TypeOK' /\ [Lease!Next]_(Lease!vars)
<1>1. TypeOK' /\ Shapes
  BY StepShapes
<1>2. CASE Weakens
  BY <1>1, <1>2, WeakensLapses DEF Lease!Next
<1>3. ASSUME NEW j \in Jobs, NEW s \in Slots, Renews(j, s)
      PROVE  [Lease!Next]_(Lease!vars)
  BY <1>1, <1>3, RenewsResumes DEF Lease!Next
<1>4. ASSUME NEW j \in Jobs, NEW s \in Slots, NEW i \in Instances, Appends(j, s, i)
      PROVE  [Lease!Next]_(Lease!vars)
  BY <1>1, <1>4, AppendsGrants DEF Lease!Next
<1> QED BY <1>1, <1>2, <1>3, <1>4 DEF Shapes

\* No lease is granted yet.
LEMMA InitIsLeaseInit == Init => Lease!Init
  BY DEF Init, Lease!Init, Grantees, Holder, LiveRow, Live

\* The store implements the lease of SlotLease: a slot is granted only while
\* nobody holds it, and only its latest grantee can take it up again.
THEOREM StoreIsSlotLease == Spec => LeaseSpec
<1>1. TypeOK /\ [Next]_dbVars => TypeOK' /\ [Lease!Next]_(Lease!vars)
  BY NextCalls, CallsAreLeaseSteps
<1> QED BY InitTypes, InitIsLeaseInit, <1>1, PTL DEF Spec, LeaseSpec, Lease!Spec

-----------------------------------------------------------------------------
(* The inductive invariant.                                                *)

OwnRow(i, j, s, k) == k \in DOMAIN runs[j][s] /\ runs[j][s][k].instance = i

\* Dispatches and stop() only refer to their own instance's rows.
RowsOwned ==
  \A i \in Instances :
    /\ \A j \in Jobs :
         disp[i][j].pc # "none" => OwnRow(i, j, disp[i][j].slot, disp[i][j].attempt)
    /\ \A l \in held[i] : OwnRow(i, l.job, l.slot, l.attempt)

\* An upsert in progress is that of a job.
SyncsOwnJob == \A i \in Instances : sync[i].pc = "write" => sync[i].job \in Jobs

IndInv == SchedulerTypeOK /\ LiveLeaseIsLatest /\ RowsOwned /\ SyncsOwnJob

-----------------------------------------------------------------------------
(* Schedulers touch the tables through calls only.                         *)

\* The slot a job moves to is a time.
LEMMA SuccessorIsTime ==
  ASSUME NEW slot \in Slots, NEW now \in Slots
  PROVE  Successor(NextRun, CatchUpOn, MaxCatchup, slot, now) \in Times
<1>1. NextRun[slot] \in Nat /\ NextRun[now] \in Nat
  BY NextRunAssumption DEF Slots
<1> QED BY <1>1 DEF Successor, Times

\* The calls that neither make a row nor end one that is live: no claim, no
\* finish, no release.
QuietCall ==
  \/ Initialize
  \/ \E j \in Jobs :
       \/ \E value \in Times : Advance(j, value)
       \/ Disable(j)
       \/ Enable(j)
       \/ \E hash \in Hashes, value \in Times : Upsert(j, hash, value)
  \/ \E i \in Instances, j \in Jobs, s \in Slots : \E k \in DOMAIN runs[j][s] : Renew(j, s, k, i)
  \/ \E names \in SUBSET Jobs : DisableOthers(names)
  \/ UNCHANGED dbVars

\* A claim: by a tick, of a due slot, or by the thread a cancelled tick left.
ClaimsAt(i, j, s) ==
  /\ Claim(j, i, s)
  /\ \/ \E d \in tick[i].due : d.job = j /\ d.slot = s /\ TickClaim(i, d)
     \/ /\ OrphanClaim(i)
        /\ orphan[i] # Null /\ orphan[i].job = j /\ orphan[i].slot = s

Claiming(i) == \E j \in Jobs, s \in Slots : ClaimsAt(i, j, s)

\* A step of _dispatch or of its renewal task: a quiet call, or the finish.
LEMMA DispatchCalls ==
  ASSUME IndInv, NEW i \in Instances, NEW j \in Jobs,
         Dispatching(i, j) \/ RenewLease(i, j) \/ RenewalStops(i, j)
  PROVE  QuietCall \/ DispatchFinish(i, j)
<1> DEFINE d == disp[i][j]
<1>1. /\ d \in Dispatches /\ d.slot \in Slots /\ d.now \in Slots
      /\ d.pc # "none" => d.attempt \in DOMAIN runs[j][d.slot]
  BY DEF IndInv, SchedulerTypeOK, Dispatches, RowsOwned, OwnRow
<1>2. CASE DispatchStart(i, j) \/ WorkflowEnds(i, j) \/ DispatchLogged(i, j) \/ RenewalStops(i, j)
  BY <1>2 DEF DispatchStart, WorkflowEnds, DispatchLogged, RenewalStops, QuietCall
<1>3. CASE DispatchAdvance(i, j)
  BY <1>1, <1>3, SuccessorIsTime DEF DispatchAdvance, QuietCall
<1>4. CASE RenewLease(i, j)
  <2>1. Renew(j, d.slot, d.attempt, i) /\ d.pc # "none"
    BY <1>4 DEF RenewLease, Renewing
  <2> QED BY <1>1, <2>1 DEF QuietCall
<1> QED BY <1>2, <1>3, <1>4 DEF Dispatching

\* start(), a reload and the steps of sync_definitions make quiet calls.
LEMMA SyncCalls ==
  ASSUME IndInv, NEW i \in Instances, Start(i) \/ Reload(i) \/ Syncing(i)
  PROVE  QuietCall
<1>1. CASE Start(i)
  BY <1>1 DEF Start, QuietCall
<1>2. CASE Reload(i)
  BY <1>2 DEF Reload, QuietCall
<1>3. ASSUME NEW j \in Jobs, SyncRead(i, j)
      PROVE  QuietCall
  BY <1>3 DEF SyncRead, QuietCall
<1>4. CASE SyncWrite(i)
  <2>1. sync[i].job \in Jobs /\ sync[i].next \in Times
    BY <1>4 DEF SyncWrite, IndInv, SyncsOwnJob, SchedulerTypeOK, Syncs
  <2>2. Hash[i] \in Hashes
    BY SchedulerAssumption
  <2>3. Upsert(sync[i].job, Hash[i], sync[i].next)
    BY <1>4 DEF SyncWrite
  <2> QED BY <2>1, <2>2, <2>3 DEF QuietCall
<1>5. CASE SyncRest(i)
  <2>1. Config[i] \in SUBSET Jobs
    BY SchedulerAssumption
  <2> QED BY <1>5, <2>1 DEF SyncRest, QuietCall
<1> QED BY <1>1, <1>2, <1>3, <1>4, <1>5 DEF Syncing

\* A tick makes quiet calls and claims.
LEMMA TickCalls ==
  ASSUME IndInv, NEW i \in Instances, Ticking(i) \/ TickFails(i)
  PROVE  QuietCall \/ Claiming(i)
<1>1. CASE TickRead(i) \/ TickFails(i)
  BY <1>1 DEF TickRead, TickFails, QuietCall
<1>2. ASSUME NEW d \in tick[i].due, TickDisable(i, d) \/ TickSkip(i, d) \/ TickClaim(i, d)
      PROVE  QuietCall \/ Claiming(i)
  <2>1. d.job \in Jobs /\ d.slot \in Slots
    BY DEF IndInv, SchedulerTypeOK, Ticks, Claims
  <2>2. CASE TickDisable(i, d)
    BY <2>1, <2>2 DEF TickDisable, QuietCall
  <2>3. CASE TickSkip(i, d)
    BY <2>3 DEF TickSkip, QuietCall
  <2>4. CASE TickClaim(i, d)
    <3>1. Claim(d.job, i, d.slot)
      BY <2>4 DEF TickClaim
    <3> QED BY <2>1, <2>4, <3>1 DEF Claiming, ClaimsAt
  <2> QED BY <1>2, <2>2, <2>3, <2>4
<1> QED BY <1>1, <1>2 DEF Ticking

\* stop(), what it leaves behind, exits and crashes: a quiet call, a claim,
\* or a release.
LEMMA StopCalls ==
  ASSUME IndInv, NEW i \in Instances, Stop(i) \/ Stopping(i) \/ Crash(i)
  PROVE  QuietCall \/ Claiming(i) \/ \E l \in held[i] : StopRelease(i, l)
<1>1. CASE Stop(i)
  BY <1>1 DEF Stop, QuietCall
<1>2. CASE Stopped(i)
  BY <1>2 DEF Stopped, QuietCall
<1>3. CASE OrphanClaim(i)
  <2>1. orphan[i] # Null /\ orphan[i].job \in Jobs /\ orphan[i].slot \in Slots
    BY <1>3 DEF OrphanClaim, IndInv, SchedulerTypeOK, Claims
  <2>2. CASE Claim(orphan[i].job, i, orphan[i].slot)
    BY <1>3, <2>1, <2>2 DEF Claiming, ClaimsAt
  <2>3. CASE UNCHANGED dbVars
    BY <2>3 DEF QuietCall
  <2> QED BY <1>3, <2>2, <2>3 DEF OrphanClaim
<1>4. CASE Exit(i) \/ Crash(i)
  BY <1>4 DEF Exit, Crash, Gone, QuietCall
<1> QED BY <1>1, <1>2, <1>3, <1>4 DEF Stopping

\* A step of the scheduler is a quiet call, a claim, one of the two calls that
\* end a row, or the clock.
LEMMA StepKinds ==
  ASSUME IndInv, [SchedulerNext]_vars
  PROVE  \/ QuietCall
         \/ \E i \in Instances : Claiming(i)
         \/ \E i \in Instances, j \in Jobs : DispatchFinish(i, j)
         \/ \E i \in Instances : \E l \in held[i] : StopRelease(i, l)
         \/ PassTime \/ Outage
<1>1. ASSUME NEW i \in Instances, NEW j \in Jobs,
             WorkflowCancelled(i, j) \/ FinishFails(i, j) \/ AdvanceFails(i, j)
      PROVE  QuietCall
  BY <1>1 DEF WorkflowCancelled, FinishFails, AdvanceFails, QuietCall
<1>2. ASSUME NEW i \in Instances, NEW j \in Jobs, Toggle(i, j)
      PROVE  QuietCall
  BY <1>2 DEF Toggle, QuietCall
<1>3. ASSUME NEW i \in Instances, Failing(i)
      PROVE  QuietCall \/ Claiming(i) \/ \E l \in held[i] : StopRelease(i, l)
  BY <1>1, <1>2, <1>3, SyncCalls, TickCalls, StopCalls DEF Failing
<1>4. CASE UNCHANGED vars
  BY <1>4 DEF vars, QuietCall
<1> QED BY <1>3, <1>4, SyncCalls, TickCalls, StopCalls, DispatchCalls DEF SchedulerNext

\* Each step of the scheduler is one call of the store, or none.
LEMMA CallsOnly ==
  ASSUME IndInv, [SchedulerNext]_vars
  PROVE  [AnyCall(Times)]_dbVars
<1>1. CASE QuietCall
  BY <1>1 DEF QuietCall, AnyCall, OnRow, OnJob
<1>5. ASSUME NEW i \in Instances, Claiming(i)
      PROVE  AnyCall(Times)
  BY <1>5 DEF Claiming, ClaimsAt, AnyCall, OnJob
<1>2. ASSUME NEW i \in Instances, NEW j \in Jobs, DispatchFinish(i, j)
      PROVE  AnyCall(Times)
  <2> DEFINE d == disp[i][j]
  <2>1. Finish(j, d.slot, d.attempt, d.result) /\ d.pc # "none"
    BY <1>2 DEF DispatchFinish, At
  <2>2. d.slot \in Slots /\ d.attempt \in DOMAIN runs[j][d.slot]
    BY <2>1 DEF IndInv, SchedulerTypeOK, Dispatches, RowsOwned, OwnRow
  <2>3. d.result \in Statuses \ {"running"}
    BY DEF IndInv, SchedulerTypeOK, Dispatches, Results, Statuses, Terminal
  <2> QED BY <2>1, <2>2, <2>3 DEF AnyCall, OnRow
<1>3. ASSUME NEW i \in Instances, NEW l \in held[i], StopRelease(i, l)
      PROVE  AnyCall(Times)
  <2>1. /\ l.job \in Jobs /\ l.slot \in Slots
        /\ l.attempt \in DOMAIN runs[l.job][l.slot]
    BY DEF IndInv, SchedulerTypeOK, Leases, RowsOwned, OwnRow
  <2>2. Release(l.job, l.slot, l.attempt, i)
    BY <1>3 DEF StopRelease
  <2> QED BY <2>1, <2>2 DEF AnyCall, OnRow
<1>4. CASE PassTime \/ Outage
  BY <1>4 DEF PassTime, Outage, AnyCall
<1> QED BY <1>1, <1>2, <1>3, <1>4, <1>5, StepKinds

-----------------------------------------------------------------------------
(* The types of the instances' own state.                                  *)

InstTypeOK ==
  /\ phase \in [Instances -> Phases]
  /\ tick \in [Instances -> Ticks]
  /\ disp \in [Instances -> [Jobs -> Dispatches]]
  /\ sync \in [Instances -> Syncs]
  /\ held \in [Instances -> SUBSET Leases]
  /\ orphan \in [Instances -> Claims \cup {Null}]
  /\ faults \in 0..MaxFaults

\* The values that stand for "nothing going on" have the types.
LEMMA NothingTypes ==
  /\ NoTick \in Ticks
  /\ NoDisp \in Dispatches
  /\ NoSync \in Syncs
  /\ NoSync.pc # "write"
<1>1. 0 \in Slots
  BY ConstantsAssumption DEF Slots
<1> QED BY <1>1 DEF NoTick, Ticks, NoDisp, Dispatches, Pcs, Results, NoSync, Syncs, Times

\* A fault stays within the bound.
LEMMA FaultTypes ==
  ASSUME faults \in 0..MaxFaults, NEW f, Fault(f)
  PROVE  faults' \in 0..MaxFaults
  BY SchedulerAssumption DEF Fault

\* A dispatch that has not written its outcome yet: it is on its way to it, or
\* has failed to and is about to write an error instead.  One whose logging
\* was cancelled has, and is about to write "aborted" over it.
Open(d) ==
  \/ d.pc \in {"created", "run", "finish"}
  \/ d.pc = "handle" /\ d.result # "aborted"

\* new is what is left of dispatch d: nothing, or the same claim further on.
Follows(new, d) ==
  /\ new \in Dispatches
  /\ new.pc # "none" => new.slot = d.slot /\ new.attempt = d.attempt /\ new.now = d.now
  /\ Open(new) => Open(d)

\* The steps of a dispatch move it on.
LEMMA DispatchWrite ==
  ASSUME InstTypeOK, NEW i \in Instances, NEW j \in Jobs,
         \/ Dispatching(i, j) \/ RenewalStops(i, j)
         \/ WorkflowCancelled(i, j) \/ FinishFails(i, j) \/ AdvanceFails(i, j)
  PROVE  /\ disp[i][j].pc # "none"
         /\ \E new : Follows(new, disp[i][j]) /\ disp' = [disp EXCEPT ![i][j] = new]
<1> DEFINE d == disp[i][j]
<1>1. d \in Dispatches
  BY DEF InstTypeOK
<1>2. /\ \A pc \in {"log", "advance"} : Follows([d EXCEPT !.pc = pc], d)
      /\ \A pc \in Pcs, result \in Results :
           Open(d) => Follows([d EXCEPT !.pc = pc, !.result = result], d)
      /\ \A pc \in Pcs, renew \in BOOLEAN :
           Open(d) => Follows([d EXCEPT !.pc = pc, !.renew = renew], d)
      /\ \A renew \in BOOLEAN : Follows([d EXCEPT !.renew = renew], d)
      /\ Follows(NoDisp, d)
  BY <1>1, NothingTypes DEF Dispatches, Pcs, Follows, NoDisp, Open
<1>3. /\ {"run", "finish", "handle", "log", "advance"} \subseteq Pcs
      /\ {"ok", "error", "aborted"} \subseteq Results
  BY DEF Pcs, Results
<1>4. disp[i][j].pc # "none"
  BY DEF Dispatching, DispatchStart, WorkflowEnds, DispatchFinish, DispatchLogged,
     DispatchAdvance, RenewalStops, Renewing, WorkflowCancelled, FinishFails,
     AdvanceFails, At
<1>5. \E new : Follows(new, d) /\ disp' = [disp EXCEPT ![i][j] = new]
  <2>1. CASE DispatchStart(i, j)
    <3>1. disp' = [disp EXCEPT ![i][j] = [d EXCEPT !.pc = "run", !.renew = TRUE]]
      BY <2>1 DEF DispatchStart, InstTypeOK
    <3>2. Open(d)
      BY <2>1 DEF DispatchStart, At, Open
    <3>3. Follows([d EXCEPT !.pc = "run", !.renew = TRUE], d)
      BY <1>2, <1>3, <3>2
    <3> QED BY <3>1, <3>3
  <2>2. CASE WorkflowEnds(i, j) \/ WorkflowCancelled(i, j)
    <3>1. PICK result \in Results :
            disp' = [disp EXCEPT ![i][j] = [d EXCEPT !.pc = "finish", !.result = result]]
      BY <1>3, <2>2 DEF WorkflowEnds, WorkflowCancelled, InstTypeOK
    <3>2. Open(d)
      BY <2>2 DEF WorkflowEnds, WorkflowCancelled, At, Open
    <3>3. Follows([d EXCEPT !.pc = "finish", !.result = result], d)
      BY <1>2, <1>3, <3>2
    <3> QED BY <3>1, <3>3
  <2>3. CASE DispatchFinish(i, j) \/ DispatchLogged(i, j)
    <3>1. PICK pc \in {"log", "advance"} : disp' = [disp EXCEPT ![i][j] = [d EXCEPT !.pc = pc]]
      BY <2>3 DEF DispatchFinish, DispatchLogged, SetPc, InstTypeOK
    <3>2. Follows([d EXCEPT !.pc = pc], d)
      BY <1>2
    <3> QED BY <3>1, <3>2
  <2>4. CASE FinishFails(i, j)
    <3>1. \/ d.pc = "finish" /\ disp' = [disp EXCEPT ![i][j] = [d EXCEPT !.pc = "handle", !.result = "error"]]
          \/ disp' = [disp EXCEPT ![i][j] = [d EXCEPT !.pc = "advance"]]
      BY <2>4 DEF FinishFails, At, SetPc, InstTypeOK
    <3>2. d.pc = "finish" => Follows([d EXCEPT !.pc = "handle", !.result = "error"], d)
      BY <1>2, <1>3 DEF Open
    <3>3. Follows([d EXCEPT !.pc = "advance"], d)
      BY <1>2
    <3> QED BY <3>1, <3>2, <3>3
  <2>5. CASE DispatchAdvance(i, j) \/ AdvanceFails(i, j)
    BY <1>2, <2>5 DEF DispatchAdvance, AdvanceFails
  <2>6. CASE RenewalStops(i, j)
    <3>1. disp' = [disp EXCEPT ![i][j] = [d EXCEPT !.renew = FALSE]]
      BY <2>6 DEF RenewalStops, InstTypeOK
    <3>2. Follows([d EXCEPT !.renew = FALSE], d)
      BY <1>2
    <3> QED BY <3>1, <3>2
  <2> QED BY <2>1, <2>2, <2>3, <2>4, <2>5, <2>6 DEF Dispatching
<1> QED BY <1>4, <1>5

\* Types: _dispatch.
LEMMA DispatchTypes ==
  ASSUME TypeOK, InstTypeOK, NEW i \in Instances, NEW j \in Jobs,
         \/ Dispatching(i, j) \/ RenewLease(i, j) \/ RenewalStops(i, j)
         \/ WorkflowCancelled(i, j) \/ FinishFails(i, j) \/ AdvanceFails(i, j)
         \/ Toggle(i, j)
  PROVE  InstTypeOK'
<1>1. disp' \in [Instances -> [Jobs -> Dispatches]]
  <2>1. CASE RenewLease(i, j) \/ Toggle(i, j)
    BY <2>1 DEF RenewLease, Toggle, instVars, InstTypeOK
  <2>2. CASE ~(RenewLease(i, j) \/ Toggle(i, j))
    <3>1. PICK new : Follows(new, disp[i][j]) /\ disp' = [disp EXCEPT ![i][j] = new]
      BY <2>2, DispatchWrite
    <3> QED BY <3>1 DEF Follows, InstTypeOK
  <2> QED BY <2>1, <2>2
<1>2. faults' \in 0..MaxFaults
  BY FaultTypes DEF InstTypeOK, Dispatching, DispatchStart, WorkflowEnds, DispatchFinish,
     DispatchLogged, DispatchAdvance, RenewLease, RenewalStops, WorkflowCancelled,
     FinishFails, AdvanceFails, Toggle
<1>3. UNCHANGED <<phase, tick, sync, held, orphan>>
  BY DEF Dispatching, DispatchStart, WorkflowEnds, DispatchFinish,
     DispatchLogged, DispatchAdvance, RenewLease, RenewalStops, WorkflowCancelled,
     FinishFails, AdvanceFails, Toggle, instVars
<1> QED BY <1>1, <1>2, <1>3 DEF InstTypeOK

\* Starts, reloads and the sync_definitions call.
LEMMA SyncTypes ==
  ASSUME TypeOK, InstTypeOK, SyncsOwnJob, NEW i \in Instances,
         Start(i) \/ Reload(i) \/ Syncing(i)
  PROVE  InstTypeOK' /\ SyncsOwnJob'
<1>1. ASSUME NEW new \in Syncs, new.pc = "write" => new.job \in Jobs,
             sync' = [sync EXCEPT ![i] = new]
      PROVE  sync' \in [Instances -> Syncs] /\ SyncsOwnJob'
  BY <1>1 DEF InstTypeOK, SyncsOwnJob
<1>2. \A new \in Phases : [phase EXCEPT ![i] = new] \in [Instances -> Phases]
  BY DEF InstTypeOK
<1>3. CASE Start(i) \/ Reload(i)
  <2>1. [NoSync EXCEPT !.pc = "read", !.todo = Config[i]] \in Syncs
    BY NothingTypes, SchedulerAssumption DEF Syncs
  <2>2. [NoSync EXCEPT !.pc = "read", !.todo = Config[i]].pc # "write"
    BY NothingTypes, SchedulerAssumption DEF Syncs
  <2>3. sync' = [sync EXCEPT ![i] = [NoSync EXCEPT !.pc = "read", !.todo = Config[i]]]
    BY <1>3 DEF Start, Reload
  <2>4. phase' \in [Instances -> Phases] /\ faults' \in 0..MaxFaults
    BY <1>2, <1>3, FaultTypes DEF Start, Reload, InstTypeOK, Phases
  <2>5. UNCHANGED <<tick, disp, held, orphan>>
    BY <1>3 DEF Start, Reload
  <2> QED BY <1>1, <2>1, <2>2, <2>3, <2>4, <2>5 DEF InstTypeOK
<1>4. ASSUME NEW j \in Jobs, SyncRead(i, j)
      PROVE  InstTypeOK' /\ SyncsOwnJob'
  <2> DEFINE next == IF Exists(j) /\ jobs[j].hash = Hash[i] THEN jobs[j].next_run
                     ELSE NextRun[clock]
             new == [sync[i] EXCEPT !.pc = "write", !.job = j, !.next = next]
  <2>1. next \in Times
    <3>1. Exists(j) => jobs[j].next_run \in Times
      BY DEF Exists, TypeOK, JobRow
    <3>2. NextRun[clock] \in Times
      BY NextRunAssumption DEF TypeOK, Times
    <3> QED BY <3>1, <3>2
  <2>2. sync' = [sync EXCEPT ![i] = new]
    BY <1>4 DEF SyncRead
  <2> HIDE DEF next
  <2>3. new \in Syncs /\ new.job \in Jobs
    BY <2>1 DEF InstTypeOK, Syncs
  <2>4. UNCHANGED <<phase, tick, disp, held, orphan, faults>>
    BY <1>4 DEF SyncRead
  <2> QED BY <1>1, <2>2, <2>3, <2>4 DEF InstTypeOK
<1>5. CASE SyncWrite(i)
  <2> DEFINE new == [NoSync EXCEPT !.pc = "read", !.todo = sync[i].todo \ {sync[i].job}]
  <2>1. sync' = [sync EXCEPT ![i] = new]
    BY <1>5 DEF SyncWrite
  <2>2. sync[i].todo \ {sync[i].job} \in SUBSET Jobs
    BY DEF InstTypeOK, Syncs
  <2>3. new \in Syncs /\ new.pc # "write"
    BY <2>2, NothingTypes DEF Syncs
  <2>4. UNCHANGED <<phase, tick, disp, held, orphan, faults>>
    BY <1>5 DEF SyncWrite
  <2> QED BY <1>1, <2>1, <2>3, <2>4 DEF InstTypeOK
<1>6. CASE SyncRest(i)
  <2>1. sync' = [sync EXCEPT ![i] = NoSync]
    BY <1>6 DEF SyncRest
  <2>2. phase' \in [Instances -> Phases]
    BY <1>2, <1>6 DEF SyncRest, InstTypeOK, Phases
  <2>3. UNCHANGED <<tick, disp, held, orphan, faults>>
    BY <1>6 DEF SyncRest
  <2> QED BY <1>1, <2>1, <2>2, <2>3, NothingTypes DEF InstTypeOK
<1> QED BY <1>3, <1>4, <1>5, <1>6 DEF Syncing

\* Ticks.
LEMMA TickTypes ==
  ASSUME TypeOK, InstTypeOK, NEW i \in Instances, Ticking(i) \/ TickFails(i)
  PROVE  InstTypeOK' /\ sync' = sync
<1>1. \A new \in Ticks : [tick EXCEPT ![i] = new] \in [Instances -> Ticks]
  BY DEF InstTypeOK
<1>2. CASE TickRead(i)
  <2> DEFINE due == {[job |-> j, slot |-> jobs[j].next_run] : j \in DueDefinitions}
  <2>1. \A j \in DueDefinitions : j \in Jobs /\ jobs[j].next_run \in Slots
    <3> SUFFICES ASSUME NEW j \in Jobs, Due(j) PROVE jobs[j].next_run \in Slots
      BY DEF DueDefinitions
    <3>1. jobs[j] \in JobRow /\ jobs[j].next_run # Null /\ jobs[j].next_run <= clock
      BY DEF Due, Exists, TypeOK
    <3>2. jobs[j].next_run \in Nat
      BY <3>1 DEF JobRow, Times
    <3> QED BY <3>1, <3>2, ConstantsAssumption DEF TypeOK, Slots
  <2>2. due \in SUBSET Claims
    BY <2>1 DEF Claims
  <2>3. clock \in Slots
    BY DEF TypeOK, Slots
  <2>4. tick' = [tick EXCEPT ![i] = [now |-> clock, due |-> due]]
    BY <1>2 DEF TickRead
  <2> HIDE DEF due
  <2>5. [now |-> clock, due |-> due] \in Ticks
    BY <2>2, <2>3 DEF Ticks
  <2> QED BY <1>1, <1>2, <2>4, <2>5 DEF TickRead, InstTypeOK
<1>3. CASE TickFails(i)
  BY <1>1, <1>3, NothingTypes, FaultTypes DEF TickFails, InstTypeOK
<1>4. ASSUME NEW d \in tick[i].due, TickDisable(i, d) \/ TickSkip(i, d) \/ TickClaim(i, d)
      PROVE  InstTypeOK' /\ sync' = sync
  <2>1. d.job \in Jobs /\ d.slot \in Slots /\ tick[i] \in Ticks /\ tick[i].now \in Slots
    BY DEF InstTypeOK, Ticks, Claims
  <2>2. Done(i, d) => tick' \in [Instances -> Ticks]
    <3>1. [tick[i] EXCEPT !.due = tick[i].due \ {d}] \in Ticks
      BY <2>1 DEF Ticks
    <3>2. Done(i, d) => \/ tick' = [tick EXCEPT ![i] = NoTick]
                        \/ tick' = [tick EXCEPT ![i] = [tick[i] EXCEPT !.due = tick[i].due \ {d}]]
      BY DEF Done, InstTypeOK
    <3> QED BY <1>1, <3>1, <3>2, NothingTypes
  <2>3. CASE TickDisable(i, d) \/ TickSkip(i, d)
    BY <2>2, <2>3 DEF TickDisable, TickSkip, InstTypeOK
  <2>4. CASE TickClaim(i, d)
    <3> DEFINE new == [pc |-> "created", slot |-> d.slot,
                       attempt |-> Attempts(d.job, d.slot) + 1,
                       now |-> tick[i].now, result |-> "ok", renew |-> FALSE]
    <3>1. Attempts(d.job, d.slot) \in Nat
      BY <2>1, GranteesSeq
    <3>2. new \in Dispatches
      BY <2>1, <3>1 DEF Dispatches, Pcs, Results
    <3>3. disp' = [disp EXCEPT ![i][d.job] = new]
      BY <2>4 DEF TickClaim
    <3> HIDE DEF new
    <3>4. disp' \in [Instances -> [Jobs -> Dispatches]]
      BY <2>1, <3>2, <3>3 DEF InstTypeOK
    <3> QED BY <2>2, <2>4, <3>4 DEF TickClaim, InstTypeOK
  <2> QED BY <1>4, <2>3, <2>4
<1> QED BY <1>2, <1>3, <1>4 DEF Ticking

\* stop(), crashes and exits.
LEMMA StopTypes ==
  ASSUME TypeOK, InstTypeOK, NEW i \in Instances, Stop(i) \/ Stopping(i) \/ Crash(i)
  PROVE  InstTypeOK' /\ (sync' = sync \/ sync' = [sync EXCEPT ![i] = NoSync])
<1>1. \A new \in Phases : [phase EXCEPT ![i] = new] \in [Instances -> Phases]
  BY DEF InstTypeOK
<1>2. CASE Stop(i)
  <2>1. HeldLeases(i) \in SUBSET Leases
    BY DEF HeldLeases, Leases, InstTypeOK, Dispatches
  <2>2. held' \in [Instances -> SUBSET Leases]
    BY <1>2, <2>1 DEF Stop, InstTypeOK
  <2>3. orphan' \in [Instances -> Claims \cup {Null}]
    BY <1>2 DEF Stop, InstTypeOK, Ticks
  <2>4. \A d \in Dispatches : Cancelled(d) \in Dispatches
    BY NothingTypes DEF Cancelled, Dispatches, Pcs, Results
  <2>5. disp' \in [Instances -> [Jobs -> Dispatches]]
    <3>1. PICK ignoring \in SUBSET Jobs :
            disp' = [disp EXCEPT ![i] =
                       [j \in Jobs |-> IF j \in ignoring THEN disp[i][j] ELSE Cancelled(disp[i][j])]]
      BY <1>2 DEF Stop
    <3>2. [j \in Jobs |-> IF j \in ignoring THEN disp[i][j] ELSE Cancelled(disp[i][j])]
            \in [Jobs -> Dispatches]
      BY <2>4 DEF InstTypeOK
    <3> QED BY <3>1, <3>2 DEF InstTypeOK
  <2>6. tick' \in [Instances -> Ticks]
    BY <1>2, NothingTypes DEF Stop, InstTypeOK
  <2>7. phase' \in [Instances -> Phases] /\ faults' \in 0..MaxFaults /\ sync' = sync
    BY <1>1, <1>2, FaultTypes DEF Stop, InstTypeOK, Phases
  <2> QED BY <2>2, <2>3, <2>5, <2>6, <2>7 DEF InstTypeOK
<1>3. ASSUME NEW l \in held[i], StopRelease(i, l)
      PROVE  InstTypeOK' /\ sync' = sync
  BY <1>3 DEF StopRelease, InstTypeOK
<1>4. CASE Stopped(i)
  BY <1>1, <1>4 DEF Stopped, InstTypeOK, Phases
<1>5. CASE OrphanClaim(i)
  BY <1>5 DEF OrphanClaim, InstTypeOK
<1>6. ASSUME Gone(i), faults' \in 0..MaxFaults
      PROVE  InstTypeOK' /\ sync' = [sync EXCEPT ![i] = NoSync]
  <2>1. disp' \in [Instances -> [Jobs -> Dispatches]]
    BY <1>6, NothingTypes DEF Gone, InstTypeOK
  <2> QED BY <1>1, <1>6, <2>1, NothingTypes DEF Gone, InstTypeOK, Phases
<1>7. CASE Exit(i) \/ Crash(i)
  BY <1>6, <1>7, FaultTypes DEF Exit, Crash, InstTypeOK
<1> QED BY <1>2, <1>3, <1>4, <1>5, <1>7 DEF Stopping

\* Every step keeps the types of the instances' state.
LEMMA InstTypesStep ==
  ASSUME TypeOK, InstTypeOK, SyncsOwnJob, [SchedulerNext]_vars
  PROVE  InstTypeOK' /\ SyncsOwnJob'
<1>1. sync' = sync => SyncsOwnJob'
  BY DEF SyncsOwnJob
<1>2. ASSUME NEW i \in Instances, sync' = [sync EXCEPT ![i] = NoSync]
      PROVE  SyncsOwnJob'
  BY <1>2, NothingTypes DEF SyncsOwnJob, InstTypeOK
<1>3. ASSUME NEW i \in Instances, NEW j \in Jobs,
             \/ Dispatching(i, j) \/ RenewLease(i, j) \/ RenewalStops(i, j)
             \/ WorkflowCancelled(i, j) \/ FinishFails(i, j) \/ AdvanceFails(i, j)
             \/ Toggle(i, j)
      PROVE  InstTypeOK' /\ SyncsOwnJob'
  <2>1. sync' = sync
    BY <1>3 DEF Dispatching, DispatchStart, WorkflowEnds, DispatchFinish, DispatchLogged,
       DispatchAdvance, RenewLease, RenewalStops, WorkflowCancelled, FinishFails,
       AdvanceFails, Toggle, instVars
  <2> QED BY <1>1, <1>3, <2>1, DispatchTypes
<1>4. ASSUME NEW i \in Instances, Ticking(i) \/ TickFails(i)
      PROVE  InstTypeOK' /\ SyncsOwnJob'
  BY <1>1, <1>4, TickTypes
<1>5. ASSUME NEW i \in Instances, Stop(i) \/ Stopping(i) \/ Crash(i)
      PROVE  InstTypeOK' /\ SyncsOwnJob'
  BY <1>1, <1>2, <1>5, StopTypes
<1>6. ASSUME NEW i \in Instances, Start(i) \/ Reload(i) \/ Syncing(i)
      PROVE  InstTypeOK' /\ SyncsOwnJob'
  BY <1>6, SyncTypes
<1>7. CASE PassTime \/ Outage \/ UNCHANGED vars
  BY <1>1, <1>7, FaultTypes DEF PassTime, Outage, vars, instVars, InstTypeOK
<1> QED BY <1>3, <1>4, <1>5, <1>6, <1>7 DEF SchedulerNext, Failing

-----------------------------------------------------------------------------
(* Dispatches and stop() keep to their own instance's rows.                *)

\* A row that was an instance's own still is after any call of the store.
LEMMA OwnRowStays ==
  ASSUME AttemptsStay, NEW i \in Instances, NEW j \in Jobs, NEW s \in Slots, NEW k,
         OwnRow(i, j, s, k)
  PROVE  OwnRow(i, j, s, k)'
  BY DEF OwnRow, AttemptsStay

\* i's dispatch of j, if there is one after the step, is the one there was.
SameDispatch(i, j) ==
  disp'[i][j].pc # "none" =>
    /\ disp[i][j].pc # "none"
    /\ disp'[i][j].slot = disp[i][j].slot
    /\ disp'[i][j].attempt = disp[i][j].attempt
    /\ disp'[i][j].now = disp[i][j].now
    /\ Open(disp'[i][j]) => Open(disp[i][j])

\* Only a claim makes a dispatch, and only a stop takes a snapshot of claims.
LEMMA DispatchesStay ==
  ASSUME TypeOK, InstTypeOK, [SchedulerNext]_vars
  PROVE  /\ \A i \in Instances, j \in Jobs :
              SameDispatch(i, j) \/ \E d \in tick[i].due : d.job = j /\ TickClaim(i, d)
         /\ \A i \in Instances : held'[i] \subseteq held[i] \cup HeldLeases(i)
<1> DEFINE P == \A i \in Instances, j \in Jobs : SameDispatch(i, j)
           Q == \A i \in Instances : held'[i] \subseteq held[i] \cup HeldLeases(i)
<1>1. disp' = disp => P
  BY DEF SameDispatch
<1>2. held' = held => Q
  OBVIOUS
<1>4. ASSUME NEW x \in Instances, NEW y \in Jobs,
             \/ Dispatching(x, y) \/ RenewLease(x, y) \/ RenewalStops(x, y)
             \/ WorkflowCancelled(x, y) \/ FinishFails(x, y) \/ AdvanceFails(x, y)
             \/ Toggle(x, y)
      PROVE  P /\ Q
  <2>1. held' = held
    BY <1>4 DEF Dispatching, DispatchStart, WorkflowEnds, DispatchFinish, DispatchLogged,
       DispatchAdvance, RenewLease, RenewalStops, WorkflowCancelled, FinishFails,
       AdvanceFails, Toggle, instVars
  <2>2. CASE RenewLease(x, y) \/ Toggle(x, y)
    BY <1>1, <2>2 DEF RenewLease, Toggle, instVars
  <2>3. CASE ~(RenewLease(x, y) \/ Toggle(x, y))
    <3>1. /\ disp[x][y].pc # "none"
          /\ \E new : Follows(new, disp[x][y]) /\ disp' = [disp EXCEPT ![x][y] = new]
      BY <1>4, <2>3, DispatchWrite
    <3>2. P
      BY <3>1 DEF Follows, SameDispatch, InstTypeOK
    <3> QED BY <1>2, <2>1, <3>2
  <2> QED BY <1>2, <2>1, <2>2, <2>3
<1>5. ASSUME NEW x \in Instances, Start(x) \/ Reload(x) \/ Syncing(x) \/ TickRead(x) \/ TickFails(x)
      PROVE  P /\ Q
  BY <1>1, <1>2, <1>5 DEF Start, Reload, Syncing, SyncRead, SyncWrite, SyncRest, TickRead, TickFails
<1>6. ASSUME NEW x \in Instances, NEW d \in tick[x].due,
             TickDisable(x, d) \/ TickSkip(x, d)
      PROVE  P /\ Q
  BY <1>1, <1>2, <1>6 DEF TickDisable, TickSkip
<1>7. ASSUME NEW x \in Instances, NEW d \in tick[x].due, TickClaim(x, d)
      PROVE  /\ Q
             /\ \A i \in Instances, j \in Jobs :
                  SameDispatch(i, j) \/ (i = x /\ d.job = j)
  <2>1. d.job \in Jobs
    BY DEF InstTypeOK, Ticks, Claims
  <2> QED BY <1>2, <1>7, <2>1 DEF TickClaim, SameDispatch, InstTypeOK
<1>8. ASSUME NEW x \in Instances, Stop(x)
      PROVE  P /\ Q
  <2>1. Q
    BY <1>8 DEF Stop, InstTypeOK
  <2>2. ASSUME NEW d \in Dispatches, Cancelled(d).pc # "none"
        PROVE  /\ d.pc # "none"
               /\ Cancelled(d).slot = d.slot
               /\ Cancelled(d).attempt = d.attempt
               /\ Cancelled(d).now = d.now
               /\ Open(Cancelled(d)) => Open(d)
    BY <2>2 DEF Cancelled, Dispatches, NoDisp, Open
  <2>3. PICK ignoring \in SUBSET Jobs :
          disp' = [disp EXCEPT ![x] =
                     [j \in Jobs |-> IF j \in ignoring THEN disp[x][j] ELSE Cancelled(disp[x][j])]]
    BY <1>8 DEF Stop
  <2>4. ASSUME NEW i \in Instances, NEW j \in Jobs PROVE SameDispatch(i, j)
    <3>1. disp[i][j] \in Dispatches
      BY DEF InstTypeOK
    <3>2. disp'[i][j] = disp[i][j] \/ disp'[i][j] = Cancelled(disp[i][j])
      BY <2>3 DEF InstTypeOK
    <3> QED BY <2>2, <3>1, <3>2 DEF SameDispatch
  <2> QED BY <2>1, <2>4
<1>9. ASSUME NEW x \in Instances, Stopping(x) \/ Crash(x)
      PROVE  P /\ Q
  <2>1. CASE Gone(x)
    <3>1. Q
      BY <2>1 DEF Gone, InstTypeOK
    <3>2. P
      BY <2>1 DEF Gone, InstTypeOK, SameDispatch, NoDisp
    <3> QED BY <3>1, <3>2
  <2>2. CASE \E l \in held[x] : StopRelease(x, l)
    BY <1>1, <2>2 DEF StopRelease, InstTypeOK
  <2>3. CASE Stopped(x) \/ OrphanClaim(x)
    BY <1>1, <1>2, <2>3 DEF Stopped, OrphanClaim
  <2> QED BY <1>9, <2>1, <2>2, <2>3 DEF Stopping, Exit, Crash
<1>10. CASE PassTime \/ Outage \/ UNCHANGED vars
  BY <1>1, <1>2, <1>10 DEF PassTime, Outage, vars, instVars
<1> QED BY <1>4, <1>5, <1>6, <1>7, <1>8, <1>9, <1>10 DEF SchedulerNext, Failing, Ticking

\* Every claim a service remembers stays a row of its own in the store.
LEMMA RowsOwnedStep ==
  ASSUME IndInv, TypeOK', InstTypeOK', AttemptsStay, [SchedulerNext]_vars
  PROVE  RowsOwned'
<1>1. InstTypeOK /\ TypeOK /\ RowsOwned
  BY DEF IndInv, SchedulerTypeOK, InstTypeOK
<1>2. ASSUME NEW i \in Instances, NEW j \in Jobs, disp'[i][j].pc # "none"
      PROVE  OwnRow(i, j, disp[i][j].slot, disp[i][j].attempt)'
  <2>1. CASE SameDispatch(i, j)
    <3>1. disp[i][j].slot \in Slots
      BY <1>1 DEF InstTypeOK, Dispatches
    <3>2. OwnRow(i, j, disp[i][j].slot, disp[i][j].attempt)
      BY <1>1, <1>2, <2>1 DEF SameDispatch, RowsOwned
    <3>3. /\ disp[i][j].attempt \in DOMAIN runs'[j][disp[i][j].slot]
          /\ runs'[j][disp[i][j].slot][disp[i][j].attempt].instance = i
      BY <3>1, <3>2, OwnRowStays DEF OwnRow, AttemptsStay
    <3> QED BY <1>2, <2>1, <3>3 DEF SameDispatch, OwnRow
  <2>2. ASSUME NEW d \in tick[i].due, d.job = j, TickClaim(i, d)
        PROVE  OwnRow(i, j, disp[i][j].slot, disp[i][j].attempt)'
    <3>1. d.slot \in Slots /\ runs[j][d.slot] \in Seq(RunRow)
      BY <1>1 DEF InstTypeOK, Ticks, Claims, TypeOK
    <3>2. disp'[i][j].slot = d.slot /\ disp'[i][j].attempt = Len(runs[j][d.slot]) + 1
      BY <1>1, <2>2 DEF TickClaim, InstTypeOK, Attempts
    <3>3. runs' = [runs EXCEPT ![j][d.slot] = Append(runs[j][d.slot],
                     [instance |-> i, status |-> "running", expires |-> clock + LeaseTimeout])]
      BY <2>2 DEF TickClaim, Claim
    <3>4. runs'[j][d.slot] = Append(runs[j][d.slot],
                     [instance |-> i, status |-> "running", expires |-> clock + LeaseTimeout])
      BY <1>1, <3>1, <3>3 DEF TypeOK
    <3>5. /\ Len(runs[j][d.slot]) + 1 \in DOMAIN runs'[j][d.slot]
          /\ runs'[j][d.slot][Len(runs[j][d.slot]) + 1].instance = i
      BY <3>1, <3>4
    <3> QED BY <3>2, <3>5 DEF OwnRow
  <2> QED BY <1>1, <2>1, <2>2, DispatchesStay
<1>3. ASSUME NEW i \in Instances, NEW l \in held'[i]
      PROVE  OwnRow(i, l.job, l.slot, l.attempt)'
  <2>1. l \in Leases
    BY DEF InstTypeOK
  <2>2. l.job \in Jobs /\ l.slot \in Slots
    BY <2>1 DEF Leases
  <2>3. OwnRow(i, l.job, l.slot, l.attempt)
    <3>1. CASE l \in held[i]
      BY <1>1, <3>1 DEF RowsOwned
    <3>2. CASE l \in HeldLeases(i)
      BY <1>1, <3>2 DEF HeldLeases, RowsOwned
    <3> QED BY <1>1, <3>1, <3>2, DispatchesStay
  <2>4. /\ l.attempt \in DOMAIN runs'[l.job][l.slot]
        /\ runs'[l.job][l.slot][l.attempt].instance = i
    BY <2>2, <2>3 DEF OwnRow, AttemptsStay
  <2> QED BY <2>4 DEF OwnRow
<1> QED BY <1>2, <1>3 DEF RowsOwned

-----------------------------------------------------------------------------
(* The invariant, and what follows.                                        *)

\* The inductive invariant holds at the start ...
LEMMA InitInd == SchedulerInit => IndInv
<1> SUFFICES ASSUME SchedulerInit PROVE IndInv
  OBVIOUS
<1>1. TypeOK
  <2>1. 0 \in 0..MaxTime /\ NextRun[0] \in Times
    BY ConstantsAssumption, NextRunAssumption DEF Times
  <2>2. ASSUME NEW j \in Jobs, \E i \in Running : j \in Config[i]
        PROVE  Hash[CHOOSE i \in Running : j \in Config[i]] \in Hashes
    <3>1. (CHOOSE i \in Running : j \in Config[i]) \in Running
      BY <2>2
    <3> QED BY <3>1, SchedulerAssumption
  <2>3. jobs \in [Jobs -> JobRow \cup {Null}]
    BY <2>1, <2>2 DEF SchedulerInit, JobRow
  <2>4. runs \in [Jobs -> [Slots -> Seq(RunRow)]]
    BY DEF SchedulerInit
  <2>5. clock \in 0..MaxTime
    BY <2>1 DEF SchedulerInit
  <2> QED BY <2>3, <2>4, <2>5 DEF TypeOK
<1>2. InstTypeOK
  BY NothingTypes, SchedulerAssumption DEF SchedulerInit, InstTypeOK, Phases
<1>3. LiveLeaseIsLatest /\ RowsOwned /\ SyncsOwnJob
  BY NothingTypes DEF SchedulerInit, LiveLeaseIsLatest, RowsOwned, SyncsOwnJob, NoDisp
<1> QED BY <1>1, <1>2, <1>3 DEF IndInv, SchedulerTypeOK, InstTypeOK

\* ... and every step keeps it.
LEMMA NextInd ==
  ASSUME IndInv, [SchedulerNext]_vars
  PROVE  IndInv' /\ AttemptsStay
<1>1. TypeOK /\ InstTypeOK /\ SyncsOwnJob /\ LiveLeaseIsLatest
  BY DEF IndInv, SchedulerTypeOK, InstTypeOK
<1>2. TypeOK' /\ Shapes
  BY <1>1, CallsOnly, StepShapes
<1>3. LiveLeaseIsLatest' /\ AttemptsStay
  BY <1>1, <1>2, LatestPreserved, AttemptsStayStep
<1>4. InstTypeOK' /\ SyncsOwnJob'
  BY <1>1, InstTypesStep
<1>5. RowsOwned'
  BY <1>2, <1>3, <1>4, RowsOwnedStep
<1> QED BY <1>2, <1>3, <1>4, <1>5 DEF IndInv, SchedulerTypeOK, InstTypeOK

\* The scheduler's state has its types, whatever goes wrong.
THEOREM SchedulerTypeCorrect == SchedulerSpec => []SchedulerTypeOK
<1>1. IndInv => SchedulerTypeOK
  BY DEF IndInv
<1> QED BY InitInd, NextInd, <1>1, PTL DEF SchedulerSpec

\* However many instances there are, and whatever goes wrong with them, no two
\* attempts at one slot hold live leases together.
THEOREM SchedulerLeaseExclusion == SchedulerSpec => []AtMostOneLiveLease
<1>1. IndInv => AtMostOneLiveLease
  BY DEF IndInv, LiveLeaseIsLatest, AtMostOneLiveLease
<1> QED BY InitInd, NextInd, <1>1, PTL DEF SchedulerSpec

\* So a running system implements the lease of SlotLease as the store does,
\* whatever its instances do: crashes, stalls, failed writes and abandoned
\* workflows make no attempt start while another holds the slot.
THEOREM SchedulersShareLease == SchedulerSpec => LeaseSpec
<1>1. SchedulerInit => IndInv /\ Lease!Init
  BY InitInd DEF SchedulerInit, Lease!Init, Grantees, Holder, LiveRow, Live
<1>2. IndInv /\ [SchedulerNext]_vars => IndInv'
  BY NextInd
<1>3. IndInv /\ [SchedulerNext]_vars => [Lease!Next]_(Lease!vars)
  BY CallsOnly, CallsAreLeaseSteps DEF IndInv, SchedulerTypeOK
<1> QED BY <1>1, <1>2, <1>3, PTL DEF SchedulerSpec, LeaseSpec, Lease!Spec

\* And an attempt that was ended stays ended, in a running system.
THEOREM SchedulersEndForGood == SchedulerSpec => EndedStaysEnded
<1>1. SchedulerInit => IndInv
  BY InitInd
<1>2. IndInv /\ [SchedulerNext]_vars => IndInv' /\ [AttemptsStay]_dbVars
  BY NextInd
<1> QED BY <1>1, <1>2, PTL DEF SchedulerSpec, EndedStaysEnded

-----------------------------------------------------------------------------
(* Mutual exclusion of the workflows.                                      *)

\* Only a live process has dispatches.
DispatchesAlive ==
  \A i \in Instances, j \in Jobs : disp[i][j].pc # "none" => Alive(i)

\* The lease of a dispatch that has not written its outcome yet is live.
LeasesKept ==
  \A i \in Instances, j \in Jobs :
    Open(disp[i][j]) => Live(runs[j][disp[i][j].slot][disp[i][j].attempt])

\* A process keeps running, or loses its dispatches.
LEMMA PhasesStay ==
  ASSUME InstTypeOK, [SchedulerNext]_vars, NEW i \in Instances, Alive(i)
  PROVE  Alive(i)' \/ \A j \in Jobs : disp'[i][j].pc = "none"
<1>1. phase' = phase => Alive(i)'
  BY DEF Alive
<1>2. ASSUME NEW x \in Instances, NEW new \in {"starting", "up", "stopping", "stopped"},
             phase' = [phase EXCEPT ![x] = new]
      PROVE  Alive(i)'
  BY <1>2 DEF Alive, InstTypeOK
<1>3. ASSUME NEW x \in Instances, Gone(x)
      PROVE  Alive(i)' \/ \A j \in Jobs : disp'[i][j].pc = "none"
  <2>1. CASE x = i
    BY <1>3, <2>1 DEF Gone, InstTypeOK, NoDisp
  <2>2. CASE x # i
    BY <1>3, <2>2 DEF Gone, Alive, InstTypeOK
  <2> QED BY <2>1, <2>2
<1>4. ASSUME NEW x \in Instances, Ticking(x) \/ TickFails(x) \/ Reload(x)
      PROVE  phase' = phase
  BY <1>4 DEF Ticking, TickRead, TickDisable, TickSkip, TickClaim, TickFails, Reload
<1>5. ASSUME NEW x \in Instances, Syncing(x) \/ Start(x)
      PROVE  Alive(i)'
  BY <1>1, <1>2, <1>5 DEF Syncing, SyncRead, SyncWrite, SyncRest, Start
<1>6. ASSUME NEW x \in Instances, Stop(x)
      PROVE  Alive(i)'
  BY <1>2, <1>6 DEF Stop
<1>7. ASSUME NEW x \in Instances, Stopping(x) \/ Crash(x)
      PROVE  Alive(i)' \/ \A j \in Jobs : disp'[i][j].pc = "none"
  BY <1>1, <1>2, <1>3, <1>7 DEF Stopping, StopRelease, Stopped, OrphanClaim, Exit, Crash
<1>8. ASSUME NEW x \in Instances, NEW y \in Jobs,
             \/ Dispatching(x, y) \/ RenewLease(x, y) \/ RenewalStops(x, y)
             \/ WorkflowCancelled(x, y) \/ FinishFails(x, y) \/ AdvanceFails(x, y)
             \/ Toggle(x, y)
      PROVE  phase' = phase
  BY <1>8 DEF Dispatching, DispatchStart, WorkflowEnds, DispatchFinish, DispatchLogged,
     DispatchAdvance, RenewLease, RenewalStops, WorkflowCancelled, FinishFails,
     AdvanceFails, Toggle, instVars
<1>9. CASE PassTime \/ Outage \/ UNCHANGED vars
  BY <1>1, <1>9 DEF PassTime, Outage, vars, instVars
<1> QED BY <1>1, <1>4, <1>5, <1>6, <1>7, <1>8, <1>9 DEF SchedulerNext, Failing

\* A dispatch belongs to a process that is alive: every step keeps that.
LEMMA DispatchesAliveStep ==
  ASSUME TypeOK, InstTypeOK, DispatchesAlive, [SchedulerNext]_vars
  PROVE  DispatchesAlive'
<1> SUFFICES ASSUME NEW i \in Instances, NEW j \in Jobs, disp'[i][j].pc # "none"
             PROVE  Alive(i)'
  BY DEF DispatchesAlive
<1>1. Alive(i)
  <2>1. CASE SameDispatch(i, j)
    BY <2>1 DEF SameDispatch, DispatchesAlive
  <2>2. CASE \E d \in tick[i].due : TickClaim(i, d)
    BY <2>2 DEF TickClaim, Alive
  <2> QED BY <2>1, <2>2, DispatchesStay
<1> QED BY <1>1, PhasesStay

\* A quiet call or a claim leaves a live lease live: only expired rows are aborted, and
\* a renewal never shortens a lease below now.
LEMMA QuietKeepsLive ==
  ASSUME TypeOK, QuietCall \/ \E i \in Instances : Claiming(i), NEW j \in Jobs, NEW s \in Slots, NEW k \in DOMAIN runs[j][s],
         LiveAt(runs[j][s][k], clock)
  PROVE  LiveAt(runs'[j][s][k], clock')
<1>1. runs[j][s] \in Seq(RunRow) /\ runs[j][s][k] \in RunRow /\ clock \in Nat
  BY ConstantsAssumption DEF TypeOK
<1>2. AbortExpired(runs[j][s])[k] = runs[j][s][k]
  <2>1. ~Expired(runs[j][s][k])
    BY <1>1 DEF Expired, LiveAt, RunRow
  <2> QED BY <2>1 DEF AbortExpired
<1>3. ASSUME runs'[j][s][k] = runs[j][s][k], clock' = clock
      PROVE  LiveAt(runs'[j][s][k], clock')
  BY <1>3
<1>4. CASE Initialize
  BY <1>2, <1>3, <1>4 DEF Initialize
<1>5. CASE (\E names \in SUBSET Jobs : DisableOthers(names)) \/ UNCHANGED dbVars
  BY <1>3, <1>5 DEF DisableOthers, dbVars
<1>6. ASSUME NEW x \in Jobs,
             OnJob(x, Times)
      PROVE  LiveAt(runs'[j][s][k], clock')
  <2>1. CASE Disable(x) \/ Enable(x) \/ \E hash \in Hashes, value \in Times : Upsert(x, hash, value)
    BY <1>3, <2>1 DEF Disable, Enable, Upsert
  <2>2. CASE \E value \in Times : Advance(x, value)
    <3>1. runs'[j][s] \in {runs[j][s], AbortExpired(runs[j][s])} /\ clock' = clock
      BY <2>2 DEF Advance, TypeOK
    <3> QED BY <1>2, <1>3, <3>1
  <2>3. ASSUME NEW i \in Instances, NEW y \in Slots, Claim(x, i, y)
        PROVE  LiveAt(runs'[j][s][k], clock')
    <3>1. PICK row : runs' = [runs EXCEPT ![x][y] = Append(runs[x][y], row)]
      BY <2>3 DEF Claim
    <3>2. runs'[j][s] = runs[j][s] \/ runs'[j][s] = Append(runs[j][s], row)
      BY <3>1 DEF TypeOK
    <3>3. runs'[j][s][k] = runs[j][s][k]
      BY <1>1, <3>2
    <3> QED BY <1>3, <2>3, <3>3 DEF Claim
  <2> QED BY <1>6, <2>1, <2>2, <2>3 DEF OnJob
<1>7. ASSUME NEW i \in Instances, NEW x \in Jobs, NEW y \in Slots, NEW m \in DOMAIN runs[x][y],
             Renew(x, y, m, i)
      PROVE  LiveAt(runs'[j][s][k], clock')
  <2>1. runs' = [runs EXCEPT ![x][y] = [runs[x][y] EXCEPT ![m] =
                   [runs[x][y][m] EXCEPT !.expires = clock + LeaseTimeout]]] /\ clock' = clock
    BY <1>7 DEF Renew, TypeOK
  <2>2. \/ runs'[j][s][k] = runs[j][s][k]
        \/ runs'[j][s][k] = [runs[j][s][k] EXCEPT !.expires = clock + LeaseTimeout]
    BY <1>1, <2>1 DEF TypeOK
  <2>3. LiveAt([runs[j][s][k] EXCEPT !.expires = clock + LeaseTimeout], clock)
    BY <1>1, ConstantsAssumption DEF LiveAt, RunRow
  <2> QED BY <2>1, <2>2, <2>3
<1>8. CASE \E i \in Instances : Claiming(i)
  BY <1>6, <1>8 DEF Claiming, ClaimsAt, OnJob
<1> QED BY <1>4, <1>5, <1>6, <1>7, <1>8 DEF QuietCall, OnJob

\* Ending a row leaves the other rows alone.
LEMMA EndingKeepsOthers ==
  ASSUME TypeOK, NEW x \in Jobs, NEW y \in Slots, NEW m, NEW new,
         runs' = [runs EXCEPT ![x][y][m] = new],
         NEW j \in Jobs, NEW s \in Slots, NEW k, ~(x = j /\ y = s /\ m = k)
  PROVE  runs'[j][s][k] = runs[j][s][k]
<1>1. CASE x = j /\ y = s
  <2>1. runs'[j][s] = [runs[j][s] EXCEPT ![m] = new]
    BY <1>1 DEF TypeOK
  <2> QED BY <1>1, <2>1
<1>2. CASE ~(x = j /\ y = s)
  BY <1>2 DEF TypeOK
<1> QED BY <1>1, <1>2

\* Unless a loop stalls, two renewals in a row fail, or a workflow outlives
\* stop()'s grace period, a dispatch at work never loses its lease: renewals come in time, claims and
\* recoveries of the others leave it alone, and it is only ended by the
\* dispatch itself, or released after the dispatch has unwound.
LEMMA LeasesKeptStep ==
  ASSUME "stall" \notin Faults, "outage" \notin Faults, "ignore" \notin Faults,
         IndInv, DispatchesAlive, LeasesKept, [SchedulerNext]_vars
  PROVE  LeasesKept'
<1>1. TypeOK /\ InstTypeOK /\ RowsOwned /\ LiveLeaseIsLatest
  BY DEF IndInv, SchedulerTypeOK, InstTypeOK
<1> SUFFICES ASSUME NEW i \in Instances, NEW j \in Jobs, Open(disp'[i][j])
             PROVE  LiveAt(runs'[j][disp'[i][j].slot][disp'[i][j].attempt], clock')
  BY DEF LeasesKept, Live, LiveAt
<1>2. \A d : Open(d) => d.pc # "none"
  BY DEF Open
<1>3. ASSUME NEW d \in tick[i].due, d.job = j, TickClaim(i, d)
      PROVE  LiveAt(runs'[j][disp'[i][j].slot][disp'[i][j].attempt], clock')
  <2> DEFINE row == [instance |-> i, status |-> "running", expires |-> clock + LeaseTimeout]
  <2>1. d.slot \in Slots /\ runs[j][d.slot] \in Seq(RunRow)
    BY <1>1 DEF InstTypeOK, Ticks, Claims, TypeOK
  <2>2. disp'[i][j].slot = d.slot /\ disp'[i][j].attempt = Len(runs[j][d.slot]) + 1
    BY <1>1, <1>3 DEF TickClaim, InstTypeOK, Attempts
  <2>3. runs' = [runs EXCEPT ![j][d.slot] = Append(runs[j][d.slot], row)] /\ clock' = clock
    BY <1>3 DEF TickClaim, Claim
  <2>4. LiveAt(row, clock)
    BY <1>1, ConstantsAssumption DEF LiveAt, TypeOK
  <2> HIDE DEF row
  <2>5. runs'[j][d.slot] = Append(runs[j][d.slot], row)
    BY <1>1, <2>1, <2>3 DEF TypeOK
  <2>6. runs'[j][d.slot][Len(runs[j][d.slot]) + 1] = row
    BY <2>1, <2>5
  <2> QED BY <2>2, <2>3, <2>4, <2>6
<1>4. CASE SameDispatch(i, j)
  <2> DEFINE s == disp[i][j].slot
             k == disp[i][j].attempt
  <2>1. /\ disp'[i][j].slot = s /\ disp'[i][j].attempt = k
        /\ Open(disp[i][j]) /\ disp[i][j].pc # "none"
    BY <1>2, <1>4 DEF SameDispatch
  <2>2. s \in Slots /\ k \in DOMAIN runs[j][s] /\ runs[j][s][k].instance = i
    BY <1>1, <2>1 DEF InstTypeOK, Dispatches, RowsOwned, OwnRow
  <2>3. LiveAt(runs[j][s][k], clock)
    BY <2>1 DEF LeasesKept, Live, LiveAt
  <2> HIDE DEF s, k
  <2>4. CASE QuietCall \/ \E x \in Instances : Claiming(x)
    BY <1>1, <2>1, <2>2, <2>3, <2>4, QuietKeepsLive
  <2>5. ASSUME NEW x \in Instances, NEW y \in Jobs, DispatchFinish(x, y)
        PROVE  LiveAt(runs'[j][s][k], clock')
    <3>1. PICK new : runs' = [runs EXCEPT ![y][disp[x][y].slot][disp[x][y].attempt] = new]
      BY <2>5 DEF DispatchFinish, Finish
    <3>2. clock' = clock /\ disp[x][y].pc # "none"
      BY <2>5 DEF DispatchFinish, Finish, At
    <3>3. ~(x = i /\ y = j)
      BY <1>1, <2>5 DEF DispatchFinish, SetPc, InstTypeOK, Dispatches, Open
    <3>4. disp[x][y].slot \in Slots /\ runs[y][disp[x][y].slot][disp[x][y].attempt].instance = x
      BY <1>1, <3>2 DEF InstTypeOK, Dispatches, RowsOwned, OwnRow
    <3>5. ~(y = j /\ disp[x][y].slot = s /\ disp[x][y].attempt = k)
      BY <2>2, <3>3, <3>4
    <3>6. runs'[j][s][k] = runs[j][s][k]
      BY <1>1, <2>2, <3>1, <3>4, <3>5, EndingKeepsOthers
    <3> QED BY <2>3, <3>2, <3>6
  <2>6. ASSUME NEW x \in Instances, NEW l \in held[x], StopRelease(x, l)
        PROVE  LiveAt(runs'[j][s][k], clock')
    <3>1. clock' = clock /\ x # i
      BY <2>1, <2>6 DEF StopRelease, Release, Unwound
    <3>2. /\ l.job \in Jobs /\ l.slot \in Slots
          /\ runs[l.job][l.slot][l.attempt].instance = x
      BY <1>1 DEF InstTypeOK, Leases, RowsOwned, OwnRow
    <3>3. ~(l.job = j /\ l.slot = s /\ l.attempt = k)
      BY <2>2, <3>1, <3>2
    <3>4. runs' = runs \/ \E new : runs' = [runs EXCEPT ![l.job][l.slot][l.attempt] = new]
      BY <2>6 DEF StopRelease, Release
    <3>5. ASSUME NEW new, runs' = [runs EXCEPT ![l.job][l.slot][l.attempt] = new]
          PROVE  runs'[j][s][k] = runs[j][s][k]
      BY <1>1, <2>2, <3>2, <3>3, <3>5, EndingKeepsOthers
    <3> QED BY <2>3, <3>1, <3>4, <3>5
  <2>7. CASE PassTime \/ Outage
    <3>1. KeptUp(i, j)
      BY <2>7 DEF PassTime, Outage, Fault
    <3>2. Alive(i)
      BY <2>1 DEF DispatchesAlive
    <3>3. k = Attempts(j, s)
      BY <1>1, <2>2, <2>3, LiveIsLiveAt DEF LiveLeaseIsLatest
    <3>4. Renewable(j, s, k, i)
      BY <2>2, <2>3, <3>3 DEF Renewable, LiveAt
    <3>5. runs[j][s][k].expires > clock + 1
      BY <2>1, <2>3, <3>1, <3>2, <3>4, LiveIsLiveAt DEF KeptUp, Open, s, k
    <3>6. runs' = runs /\ clock' = clock + 1
      BY <2>7 DEF PassTime, Outage, Elapse
    <3> QED BY <2>1, <2>3, <3>5, <3>6 DEF LiveAt
  <2> QED BY <2>1, <2>4, <2>5, <2>6, <2>7, StepKinds
<1> QED BY <1>1, <1>3, <1>4, DispatchesStay

\* "A scheduled job never runs twice" at a time, for any number of instances,
\* jobs and slots, with crashes, stops, cancellations, failing writes, toggles
\* and reloads: as long as no loop stalls beyond a lease, the database is not
\* locked through two renewals of a lease in a row ("outage"), and no workflow
\* ignores its cancellation.
THEOREM MutualExclusion ==
  ASSUME "stall" \notin Faults, "outage" \notin Faults, "ignore" \notin Faults
  PROVE  SchedulerSpec => []AtMostOneExecuting
<1> DEFINE Inv == IndInv /\ DispatchesAlive /\ LeasesKept
<1>1. SchedulerInit => Inv
  BY InitInd DEF SchedulerInit, DispatchesAlive, LeasesKept, NoDisp, Open
<1>2. Inv /\ [SchedulerNext]_vars => Inv'
  <2> SUFFICES ASSUME Inv, [SchedulerNext]_vars PROVE Inv'
    OBVIOUS
  <2>1. TypeOK /\ InstTypeOK
    BY DEF IndInv, SchedulerTypeOK, InstTypeOK
  <2> QED BY <2>1, NextInd, DispatchesAliveStep, LeasesKeptStep
<1>3. Inv => AtMostOneExecuting
  <2> SUFFICES ASSUME Inv, NEW i \in Instances, NEW h \in Instances, NEW j \in Jobs,
                      disp[i][j].pc = "run", disp[h][j].pc = "run",
                      disp[i][j].slot = disp[h][j].slot
               PROVE  i = h
    BY DEF AtMostOneExecuting
  <2> DEFINE s == disp[i][j].slot
  <2>1. s \in Slots
    BY DEF IndInv, SchedulerTypeOK, Dispatches
  <2>2. ASSUME NEW x \in {i, h}
        PROVE  /\ disp[x][j].attempt \in DOMAIN runs[j][s]
               /\ runs[j][s][disp[x][j].attempt].instance = x
               /\ Live(runs[j][s][disp[x][j].attempt])
    BY DEF IndInv, RowsOwned, OwnRow, LeasesKept, Open
  <2>3. disp[i][j].attempt = Attempts(j, s) /\ disp[h][j].attempt = Attempts(j, s)
    BY <2>1, <2>2 DEF IndInv, LiveLeaseIsLatest
  <2> QED BY <2>2, <2>3
<1> QED BY <1>1, <1>2, <1>3, PTL DEF SchedulerSpec

-----------------------------------------------------------------------------
(* What a step does to the rows.                                           *)

\* Row k of a slot was there before the step, and is what it was or aborted.
RowKept(j, s, k) ==
  /\ k \in DOMAIN runs[j][s]
  /\ runs'[j][s][k].status \in {runs[j][s][k].status, "aborted"}

\* Row k is written by its dispatch.
RowFinished(i, j, s, k) ==
  /\ DispatchFinish(i, j)
  /\ disp[i][j].slot = s /\ disp[i][j].attempt = k
  /\ k \in DOMAIN runs[j][s]
  /\ runs'[j][s][k].status = disp[i][j].result

\* Row k is a new one.
RowClaimed(i, j, s, k) ==
  /\ ClaimsAt(i, j, s)
  /\ k = Attempts(j, s) + 1
  /\ runs'[j][s][k].instance = i
  /\ runs'[j][s][k].status = "running"

RowsStay(j, s) ==
  /\ DOMAIN runs'[j][s] = DOMAIN runs[j][s]
  /\ \A k \in DOMAIN runs[j][s] : RowKept(j, s, k)

\* A quiet call adds no row to a slot, and ends none but by aborting it.
LEMMA QuietRows ==
  ASSUME TypeOK, QuietCall, NEW j \in Jobs, NEW s \in Slots
  PROVE  RowsStay(j, s)
<1>1. runs[j][s] \in Seq(RunRow)
  BY DEF TypeOK
<1>2. ASSUME runs'[j][s] \in {runs[j][s], AbortExpired(runs[j][s])}
      PROVE  RowsStay(j, s)
  <2>1. CASE runs'[j][s] = runs[j][s]
    BY <2>1 DEF RowsStay, RowKept
  <2>2. CASE runs'[j][s] = AbortExpired(runs[j][s])
    <3>1. DOMAIN AbortExpired(runs[j][s]) = DOMAIN runs[j][s]
      BY DEF AbortExpired
    <3>2. ASSUME NEW k \in DOMAIN runs[j][s]
          PROVE  AbortExpired(runs[j][s])[k].status \in {runs[j][s][k].status, "aborted"}
      <4>1. runs[j][s][k] \in RunRow
        BY <1>1
      <4>2. AbortExpired(runs[j][s])[k] \in {runs[j][s][k], Ended(runs[j][s][k], "aborted")}
        BY DEF AbortExpired
      <4>3. Ended(runs[j][s][k], "aborted").status = "aborted"
        BY <4>1 DEF Ended, RunRow
      <4> QED BY <4>2, <4>3
    <3> QED BY <2>2, <3>1, <3>2 DEF RowsStay, RowKept
  <2> QED BY <1>2, <2>1, <2>2
<1>3. CASE Initialize
  BY <1>2, <1>3 DEF Initialize
<1>4. ASSUME NEW x \in Jobs, NEW value, Advance(x, value)
      PROVE  RowsStay(j, s)
  BY <1>2, <1>4 DEF Advance, TypeOK
<1>5. CASE \/ \E x \in Jobs : \/ Disable(x) \/ Enable(x)
                              \/ \E hash \in Hashes, value \in Times : Upsert(x, hash, value)
           \/ \E names \in SUBSET Jobs : DisableOthers(names)
           \/ UNCHANGED dbVars
  BY <1>2, <1>5 DEF Disable, Enable, Upsert, DisableOthers, dbVars
<1>6. ASSUME NEW x \in Jobs, NEW y \in Slots, NEW m \in DOMAIN runs[x][y], NEW i \in Instances,
             Renew(x, y, m, i)
      PROVE  RowsStay(j, s)
  <2>1. PICK row : /\ row = [runs[x][y][m] EXCEPT !.expires = clock + LeaseTimeout]
                   /\ runs' = [runs EXCEPT ![x][y] = [runs[x][y] EXCEPT ![m] = row]]
    BY <1>6 DEF Renew, TypeOK
  <2>2. row.status = runs[x][y][m].status
    BY <2>1 DEF TypeOK, RunRow
  <2>3. CASE x = j /\ y = s
    <3>1. runs'[j][s] = [runs[j][s] EXCEPT ![m] = row]
      BY <2>1, <2>3 DEF TypeOK
    <3> QED BY <1>1, <2>2, <2>3, <3>1 DEF RowsStay, RowKept
  <2>4. CASE ~(x = j /\ y = s)
    BY <1>2, <2>1, <2>4 DEF TypeOK
  <2> QED BY <2>3, <2>4
<1> QED BY <1>3, <1>4, <1>5, <1>6 DEF QuietCall

\* Row m of a slot gets a status; no other row changes, or is added.
RowEnds(x, y, m, status) ==
  /\ runs'[x][y][m].status = status
  /\ \A j \in Jobs, s \in Slots :
       /\ DOMAIN runs'[j][s] = DOMAIN runs[j][s]
       /\ \A k \in DOMAIN runs[j][s] :
            ~(x = j /\ y = s /\ m = k) => runs'[j][s][k] = runs[j][s][k]

\* Ending one row changes that row's status and nothing else.
LEMMA EndingRows ==
  ASSUME TypeOK, NEW x \in Jobs, NEW y \in Slots, NEW m \in DOMAIN runs[x][y],
         NEW status \in Statuses,
         runs' = [runs EXCEPT ![x][y][m] = Ended(@, status)]
  PROVE  RowEnds(x, y, m, status)
<1> DEFINE row == Ended(runs[x][y][m], status)
           rows == [runs[x][y] EXCEPT ![m] = row]
<1>1. runs[x][y] \in Seq(RunRow) /\ runs[x][y][m] \in RunRow
  BY DEF TypeOK
<1>2. row \in RunRow /\ row.status = status
  BY <1>1, RowTypes DEF Ended, RunRow
<1>3. rows \in Seq(RunRow) /\ DOMAIN rows = DOMAIN runs[x][y]
  BY <1>1, <1>2, ReplaceRow
<1>4. /\ rows[m].status = status
      /\ \A k \in DOMAIN runs[x][y] : m # k => rows[k] = runs[x][y][k]
  BY <1>1, <1>2
<1>5. runs' = [runs EXCEPT ![x][y] = rows]
  BY DEF TypeOK
<1> HIDE DEF rows, row
<1>6. /\ runs'[x][y] = rows
      /\ \A j \in Jobs, s \in Slots : x # j \/ y # s => runs'[j][s] = runs[j][s]
  BY <1>3, <1>5 DEF TypeOK
<1> QED BY <1>3, <1>4, <1>6 DEF RowEnds

\* A claim adds one row to one slot.
LEMMA ClaimRows ==
  ASSUME TypeOK, NEW x \in Jobs, NEW y \in Slots, NEW i \in Instances, Claim(x, i, y),
         NEW j \in Jobs, NEW s \in Slots
  PROVE  /\ x # j \/ y # s => runs'[j][s] = runs[j][s]
         /\ DOMAIN runs'[x][y] = 1..(Attempts(x, y) + 1)
         /\ Attempts(x, y) \in Nat /\ DOMAIN runs[x][y] = 1..Attempts(x, y)
         /\ \A k \in DOMAIN runs[x][y] : runs'[x][y][k] = runs[x][y][k]
         /\ runs'[x][y][Attempts(x, y) + 1].instance = i
         /\ runs'[x][y][Attempts(x, y) + 1].status = "running"
<1>1. PICK row : /\ row = [instance |-> i, status |-> "running", expires |-> clock + LeaseTimeout]
                 /\ runs' = [runs EXCEPT ![x][y] = Append(runs[x][y], row)]
  BY DEF Claim
<1>2. row.instance = i /\ row.status = "running"
  BY <1>1
<1>3. runs[x][y] \in Seq(RunRow) /\ runs'[x][y] = Append(runs[x][y], row)
  BY <1>1 DEF TypeOK
<1>4. x # j \/ y # s => runs'[j][s] = runs[j][s]
  BY <1>1 DEF TypeOK
<1> QED BY <1>2, <1>3, <1>4 DEF Attempts

\* db.finish writes the dispatch's result to its row, whatever is there.
LEMMA FinishEnds ==
  ASSUME IndInv, NEW i \in Instances, NEW x \in Jobs, DispatchFinish(i, x)
  PROVE  /\ RowEnds(x, disp[i][x].slot, disp[i][x].attempt, disp[i][x].result)
         /\ disp[i][x].slot \in Slots
         /\ disp[i][x].attempt \in DOMAIN runs[x][disp[i][x].slot]
<1>1. /\ Finish(x, disp[i][x].slot, disp[i][x].attempt, disp[i][x].result)
      /\ disp[i][x].pc # "none"
  BY DEF DispatchFinish, At
<1>2. /\ disp[i][x].slot \in Slots
      /\ disp[i][x].attempt \in DOMAIN runs[x][disp[i][x].slot]
      /\ disp[i][x].result \in Statuses
  BY <1>1 DEF IndInv, SchedulerTypeOK, Dispatches, RowsOwned, OwnRow, Results,
     Statuses, Terminal
<1>3. PICK y \in Slots, status \in Statuses : \E m \in DOMAIN runs[x][y] :
        /\ y = disp[i][x].slot /\ m = disp[i][x].attempt /\ status = disp[i][x].result
        /\ runs' = [runs EXCEPT ![x][y][m] = Ended(@, status)]
  BY <1>1, <1>2 DEF Finish
<1>4. PICK m \in DOMAIN runs[x][y] :
        /\ y = disp[i][x].slot /\ m = disp[i][x].attempt /\ status = disp[i][x].result
        /\ runs' = [runs EXCEPT ![x][y][m] = Ended(@, status)]
  BY <1>3
<1>5. RowEnds(x, y, m, status)
  BY <1>4, EndingRows DEF IndInv, SchedulerTypeOK
<1> QED BY <1>2, <1>4, <1>5

\* stop() ends the row of a claim it releases, if that is still running.
LEMMA ReleaseEnds ==
  ASSUME IndInv, NEW i \in Instances, NEW l \in held[i], StopRelease(i, l),
         runs[l.job][l.slot][l.attempt].status = "running"
  PROVE  RowEnds(l.job, l.slot, l.attempt, "aborted")
<1>1. /\ l.job \in Jobs /\ l.slot \in Slots
      /\ OwnRow(i, l.job, l.slot, l.attempt)
  BY DEF IndInv, SchedulerTypeOK, Leases, RowsOwned
<1>2. runs' = [runs EXCEPT ![l.job][l.slot][l.attempt] = Ended(@, "aborted")]
  BY <1>1 DEF StopRelease, Release, OwnRow
<1>3. PICK x \in Jobs, y \in Slots : \E m \in DOMAIN runs[x][y] :
        /\ x = l.job /\ y = l.slot /\ m = l.attempt
        /\ runs' = [runs EXCEPT ![x][y][m] = Ended(@, "aborted")]
  BY <1>1, <1>2 DEF OwnRow
<1>4. PICK m \in DOMAIN runs[x][y] :
        /\ x = l.job /\ y = l.slot /\ m = l.attempt
        /\ runs' = [runs EXCEPT ![x][y][m] = Ended(@, "aborted")]
  BY <1>3
<1>5. "aborted" \in Statuses
  BY DEF Statuses
<1>6. RowEnds(x, y, m, "aborted")
  BY <1>4, <1>5, EndingRows DEF IndInv, SchedulerTypeOK
<1> QED BY <1>4, <1>6

\* A row has an owner.
LEMMA RowTyped ==
  ASSUME TypeOK, NEW j \in Jobs, NEW s \in Slots, NEW k \in DOMAIN runs[j][s]
  PROVE  runs[j][s][k] \in RunRow /\ runs[j][s][k].instance \in Instances
<1>1. runs[j][s] \in Seq(RunRow)
  BY DEF TypeOK
<1>2. runs[j][s][k] \in RunRow
  BY <1>1
<1> QED BY <1>2 DEF RunRow

\* No dispatch has "running" for an outcome.
LEMMA ResultTypes ==
  ASSUME InstTypeOK, NEW i \in Instances, NEW j \in Jobs
  PROVE  disp[i][j].result \in Results /\ disp[i][j].result # "running"
<1>1. disp[i][j] \in Dispatches
  BY DEF InstTypeOK
<1> QED BY <1>1 DEF Dispatches, Results

\* Every row after a step was there before and is what it was, or aborted; or
\* it is the row of the dispatch that finishes; or it is the one claimed.
LEMMA RowMoves ==
  ASSUME IndInv, [SchedulerNext]_vars,
         NEW j \in Jobs, NEW s \in Slots, NEW k \in DOMAIN runs'[j][s]
  PROVE  \/ RowKept(j, s, k)
         \/ \E i \in Instances : RowFinished(i, j, s, k) \/ RowClaimed(i, j, s, k)
<1>1. TypeOK
  BY DEF IndInv, SchedulerTypeOK
<1>2. runs'[j][s] = runs[j][s] => RowKept(j, s, k)
  BY DEF RowKept
<1>3. CASE QuietCall
  BY <1>1, <1>3, QuietRows DEF RowsStay
<1>4. ASSUME NEW i \in Instances, Claiming(i)
      PROVE  RowKept(j, s, k) \/ RowClaimed(i, j, s, k)
  <2>1. PICK x \in Jobs, y \in Slots : ClaimsAt(i, x, y)
    BY <1>4 DEF Claiming
  <2>2. Claim(x, i, y)
    BY <2>1 DEF ClaimsAt
  <2>3. CASE x = j /\ y = s
    <3>1. k \in DOMAIN runs[j][s] \/ k = Attempts(j, s) + 1
      BY <1>1, <2>2, <2>3, ClaimRows
    <3>2. k \in DOMAIN runs[j][s] => runs'[j][s][k] = runs[j][s][k]
      BY <1>1, <2>2, <2>3, ClaimRows
    <3>3. /\ runs'[j][s][Attempts(j, s) + 1].instance = i
          /\ runs'[j][s][Attempts(j, s) + 1].status = "running"
      BY <1>1, <2>2, <2>3, ClaimRows
    <3> QED BY <2>1, <2>3, <3>1, <3>2, <3>3 DEF RowKept, RowClaimed
  <2>4. CASE ~(x = j /\ y = s)
    BY <1>1, <1>2, <2>2, <2>4, ClaimRows
  <2> QED BY <2>3, <2>4
<1>5. ASSUME NEW i \in Instances, NEW x \in Jobs, DispatchFinish(i, x)
      PROVE  RowKept(j, s, k) \/ RowFinished(i, j, s, k)
  <2>1. /\ RowEnds(x, disp[i][x].slot, disp[i][x].attempt, disp[i][x].result)
        /\ disp[i][x].attempt \in DOMAIN runs[x][disp[i][x].slot]
    BY <1>5, FinishEnds
  <2>2. CASE x = j /\ disp[i][x].slot = s /\ disp[i][x].attempt = k
    BY <1>5, <2>1, <2>2 DEF RowEnds, RowFinished
  <2>3. CASE ~(x = j /\ disp[i][x].slot = s /\ disp[i][x].attempt = k)
    BY <2>1, <2>3 DEF RowEnds, RowKept
  <2> QED BY <2>2, <2>3
<1>6. ASSUME NEW i \in Instances, NEW l \in held[i], StopRelease(i, l)
      PROVE  RowKept(j, s, k)
  <2>1. CASE runs' = runs
    BY <1>2, <2>1
  <2>2. CASE runs' # runs
    <3>1. RowEnds(l.job, l.slot, l.attempt, "aborted")
      BY <1>6, <2>2, ReleaseEnds DEF StopRelease, Release
    <3> QED BY <3>1 DEF RowEnds, RowKept
  <2> QED BY <2>1, <2>2
<1>7. CASE PassTime \/ Outage
  BY <1>2, <1>7 DEF PassTime, Outage, Elapse
<1> QED BY <1>3, <1>4, <1>5, <1>6, <1>7, StepKinds

\* A slot's rows are as many as before, unless one is claimed.
LEMMA RowsGrow ==
  ASSUME IndInv, [SchedulerNext]_vars, NEW j \in Jobs, NEW s \in Slots
  PROVE  \/ DOMAIN runs'[j][s] = DOMAIN runs[j][s]
         \/ \E i \in Instances : ClaimsAt(i, j, s)
<1>1. TypeOK /\ AttemptsStay
  BY NextInd DEF IndInv, SchedulerTypeOK
<1>2. \A k \in DOMAIN runs[j][s] : k \in DOMAIN runs'[j][s]
  BY <1>1 DEF AttemptsStay
<1>3. \A k \in DOMAIN runs'[j][s] :
        k \in DOMAIN runs[j][s] \/ \E i \in Instances : ClaimsAt(i, j, s)
  BY RowMoves DEF RowKept, RowFinished, RowClaimed
<1> QED BY <1>2, <1>3

-----------------------------------------------------------------------------
(* The life of a service.                                                  *)

\* What a step makes of a service's phase, of the claims stop() has still to
\* release and of an acquire left in its thread.
LifeCycle(i) ==
  \/ /\ \/ phase'[i] = phase[i]
        \/ phase[i] = "off" /\ phase'[i] = "starting"
        \/ phase[i] = "starting" /\ phase'[i] = "up"
        \/ Stopped(i) /\ phase'[i] = "stopped"
     /\ held'[i] = held[i] /\ orphan'[i] = orphan[i]
  \/ Stop(i) /\ phase'[i] = "stopping"
  \/ /\ \E l \in held[i] : StopRelease(i, l) /\ held'[i] = held[i] \ {l}
     /\ phase'[i] = phase[i] /\ orphan'[i] = orphan[i]
  \/ /\ OrphanClaim(i) /\ orphan'[i] = Null
     /\ phase'[i] = phase[i] /\ held'[i] = held[i]
  \/ Gone(i) /\ phase'[i] = "dead" /\ held'[i] = {} /\ orphan'[i] = Null

\* The steps of a service's life, and nothing else, move it along.
LEMMA LifeCycles ==
  ASSUME InstTypeOK, [SchedulerNext]_vars, NEW i \in Instances
  PROVE  LifeCycle(i)
<1>1. UNCHANGED <<phase, held, orphan>> => LifeCycle(i)
  BY DEF LifeCycle
<1>2. ASSUME NEW x \in Instances, Ticking(x) \/ TickFails(x) \/ Reload(x)
      PROVE  LifeCycle(i)
  BY <1>1, <1>2 DEF Ticking, TickRead, TickDisable, TickSkip, TickClaim, TickFails, Reload
<1>3. ASSUME NEW x \in Instances, Syncing(x) \/ Start(x)
      PROVE  LifeCycle(i)
  <2>1. CASE \/ Start(x)
             \/ SyncRest(x) /\ phase[x] = "starting"
    <3>1. UNCHANGED <<held, orphan>>
      BY <2>1 DEF Start, SyncRest
    <3>2. \/ phase'[i] = phase[i]
          \/ phase[i] = "off" /\ phase'[i] = "starting"
          \/ phase[i] = "starting" /\ phase'[i] = "up"
      BY <2>1 DEF Start, SyncRest, InstTypeOK
    <3> QED BY <3>1, <3>2 DEF LifeCycle
  <2>2. CASE ~(Start(x) \/ (SyncRest(x) /\ phase[x] = "starting"))
    BY <1>1, <1>3, <2>2 DEF Syncing, SyncRead, SyncWrite, SyncRest
  <2> QED BY <2>1, <2>2
<1>4. ASSUME NEW x \in Instances, Stop(x)
      PROVE  LifeCycle(i)
  <2>1. CASE x = i
    <3>1. phase'[i] = "stopping"
      BY <1>4, <2>1 DEF Stop, InstTypeOK
    <3> QED BY <1>4, <2>1, <3>1 DEF LifeCycle
  <2>2. CASE x # i
    <3>1. phase'[i] = phase[i] /\ held'[i] = held[i]
      BY <1>4, <2>2 DEF Stop, InstTypeOK
    <3>2. orphan'[i] = orphan[i]
      BY <1>4, <2>2 DEF Stop, InstTypeOK
    <3> QED BY <3>1, <3>2 DEF LifeCycle
  <2> QED BY <2>1, <2>2
<1>5. ASSUME NEW x \in Instances, NEW l \in held[x], StopRelease(x, l)
      PROVE  LifeCycle(i)
  BY <1>5 DEF StopRelease, InstTypeOK, LifeCycle
<1>6. ASSUME NEW x \in Instances, Stopped(x)
      PROVE  LifeCycle(i)
  <2>1. CASE x = i
    BY <1>6, <2>1 DEF Stopped, InstTypeOK, LifeCycle
  <2>2. CASE x # i
    BY <1>6, <2>2 DEF Stopped, InstTypeOK, LifeCycle
  <2> QED BY <2>1, <2>2
<1>7. ASSUME NEW x \in Instances, OrphanClaim(x)
      PROVE  LifeCycle(i)
  <2>1. CASE x = i
    BY <1>7, <2>1 DEF OrphanClaim, InstTypeOK, LifeCycle
  <2>2. CASE x # i
    BY <1>7, <2>2 DEF OrphanClaim, InstTypeOK, LifeCycle
  <2> QED BY <2>1, <2>2
<1>8. ASSUME NEW x \in Instances, Gone(x)
      PROVE  LifeCycle(i)
  BY <1>8 DEF Gone, InstTypeOK, LifeCycle
<1>9. ASSUME NEW x \in Instances, NEW y \in Jobs,
             \/ Dispatching(x, y) \/ RenewLease(x, y) \/ RenewalStops(x, y)
             \/ WorkflowCancelled(x, y) \/ FinishFails(x, y) \/ AdvanceFails(x, y)
             \/ Toggle(x, y)
      PROVE  LifeCycle(i)
  BY <1>1, <1>9 DEF Dispatching, DispatchStart, WorkflowEnds, DispatchFinish, DispatchLogged,
     DispatchAdvance, RenewLease, RenewalStops, WorkflowCancelled, FinishFails,
     AdvanceFails, Toggle, instVars
<1>10. CASE PassTime \/ Outage \/ UNCHANGED vars
  BY <1>1, <1>10 DEF PassTime, Outage, vars, instVars
<1> QED BY <1>2, <1>3, <1>4, <1>5, <1>6, <1>7, <1>8, <1>9, <1>10
        DEF SchedulerNext, Failing, Stopping, Exit, Crash

\* An acquire left in its thread is that of a service that was stopped.
OrphansOfStopped == \A i \in Instances : orphan[i] # Null => phase[i] \in {"stopping", "stopped"}

\* Only stop() leaves one, and it is gone before its process is.
LEMMA OrphansOfStoppedStep ==
  ASSUME InstTypeOK, OrphansOfStopped, [SchedulerNext]_vars
  PROVE  OrphansOfStopped'
<1> SUFFICES ASSUME NEW i \in Instances, orphan'[i] # Null
             PROVE  phase'[i] \in {"stopping", "stopped"}
  BY DEF OrphansOfStopped
<1>1. LifeCycle(i)
  BY LifeCycles
<1>2. orphan[i] # Null => phase[i] \in {"stopping", "stopped"}
  BY DEF OrphansOfStopped
<1> QED BY <1>1, <1>2 DEF LifeCycle

-----------------------------------------------------------------------------
(* Claims and dispatches.                                                  *)

\* A running row belongs to a service that has started, and while that service
\* is up it is the row of the dispatch that is still to write its outcome.
RunningIsDispatched ==
  \A j \in Jobs, s \in Slots : \A k \in DOMAIN runs[j][s] : \A i \in Instances :
    runs[j][s][k].status = "running" /\ runs[j][s][k].instance = i =>
      /\ phase[i] \notin {"off", "starting"}
      /\ phase[i] = "up" => /\ Open(disp[i][j])
                            /\ disp[i][j].slot = s /\ disp[i][j].attempt = k

\* While its service stays up and no write fails, a dispatch with an outcome to
\* write goes on until it writes it.
LEMMA OpenUntilFinish ==
  ASSUME "dbfail" \notin Faults, IndInv, [SchedulerNext]_vars,
         NEW i \in Instances, NEW j \in Jobs, Open(disp[i][j]), phase'[i] = "up"
  PROVE  \/ DispatchFinish(i, j)
         \/ /\ Open(disp'[i][j])
            /\ disp'[i][j].slot = disp[i][j].slot
            /\ disp'[i][j].attempt = disp[i][j].attempt
<1> DEFINE Goes == /\ Open(disp'[i][j])
                   /\ disp'[i][j].slot = disp[i][j].slot
                   /\ disp'[i][j].attempt = disp[i][j].attempt
<1>1. InstTypeOK /\ disp[i][j] \in Dispatches
  BY DEF IndInv, SchedulerTypeOK, InstTypeOK
<1>2. disp'[i][j] = disp[i][j] => Goes
  OBVIOUS
<1> HIDE DEF Goes
<1>3. ASSUME NEW x \in Instances, NEW y \in Jobs, Dispatching(x, y)
      PROVE  DispatchFinish(i, j) \/ Goes
  <2>1. CASE ~(x = i /\ y = j)
    <3>1. PICK new : disp' = [disp EXCEPT ![x][y] = new]
      BY <1>1, <1>3, DispatchWrite
    <3> QED BY <1>1, <1>2, <2>1, <3>1 DEF InstTypeOK
  <2>2. CASE x = i /\ y = j
    <3>1. CASE DispatchStart(i, j)
      <4>1. disp'[i][j] = [disp[i][j] EXCEPT !.pc = "run", !.renew = TRUE]
        BY <1>1, <3>1 DEF DispatchStart, InstTypeOK
      <4> QED BY <1>1, <4>1 DEF Goes, Dispatches, Open
    <3>2. CASE WorkflowEnds(i, j)
      <4>1. PICK result \in {"ok", "error"} :
              disp' = [disp EXCEPT ![i][j] = [@ EXCEPT !.pc = "finish", !.result = result]]
        BY <3>2 DEF WorkflowEnds
      <4>2. disp'[i][j] = [disp[i][j] EXCEPT !.pc = "finish", !.result = result]
        BY <1>1, <4>1 DEF InstTypeOK
      <4> QED BY <1>1, <4>2 DEF Goes, Dispatches, Open
    <3>3. ~(DispatchLogged(i, j) \/ DispatchAdvance(i, j))
      BY DEF DispatchLogged, DispatchAdvance, At, Open
    <3> QED BY <1>3, <2>2, <3>1, <3>2, <3>3 DEF Dispatching
  <2> QED BY <2>1, <2>2
<1>4. ASSUME NEW x \in Instances, NEW y \in Jobs, WorkflowCancelled(x, y) \/ RenewalStops(x, y)
      PROVE  Goes
  <2>1. CASE ~(x = i /\ y = j)
    BY <1>1, <1>2, <1>4, <2>1 DEF WorkflowCancelled, RenewalStops, InstTypeOK
  <2>2. CASE x = i /\ y = j /\ WorkflowCancelled(x, y)
    <3>1. disp'[i][j] = [disp[i][j] EXCEPT !.pc = "finish", !.result = "aborted"]
      BY <1>1, <2>2 DEF WorkflowCancelled, InstTypeOK
    <3> QED BY <1>1, <3>1 DEF Goes, Dispatches, Open
  <2>3. CASE x = i /\ y = j /\ RenewalStops(x, y)
    <3>1. disp'[i][j] = [disp[i][j] EXCEPT !.renew = FALSE]
      BY <1>1, <2>3 DEF RenewalStops, InstTypeOK
    <3> QED BY <1>1, <3>1 DEF Goes, Dispatches, Open
  <2> QED BY <1>4, <2>1, <2>2, <2>3
<1>5. ASSUME NEW x \in Instances, NEW d \in tick[x].due, TickClaim(x, d)
      PROVE  Goes
  <2>1. d.job \in Jobs
    BY <1>1 DEF InstTypeOK, Ticks, Claims
  <2>2. ~(x = i /\ d.job = j)
    BY <1>5 DEF TickClaim, Open
  <2> QED BY <1>1, <1>2, <1>5, <2>1, <2>2 DEF TickClaim, InstTypeOK
<1>6. ASSUME NEW x \in Instances, Stop(x) \/ Gone(x)
      PROVE  Goes
  <2>1. x # i
    BY <1>1, <1>6 DEF Stop, Gone, InstTypeOK
  <2>2. disp'[i][j] = disp[i][j]
    BY <1>1, <1>6, <2>1 DEF Stop, Gone, InstTypeOK
  <2> QED BY <1>2, <2>2
<1>7. disp' = disp => Goes
  BY <1>2
<1>8. ASSUME NEW x \in Instances, NEW y \in Jobs
      PROVE  ~(FinishFails(x, y) \/ AdvanceFails(x, y))
  BY DEF FinishFails, AdvanceFails, Fault
<1>9. ASSUME NEW x \in Instances, Ticking(x) \/ TickFails(x) \/ Syncing(x) \/ Start(x) \/ Reload(x)
      PROVE  Goes
  BY <1>5, <1>7, <1>9 DEF Ticking, TickRead, TickDisable, TickSkip, TickFails, Syncing,
     SyncRead, SyncWrite, SyncRest, Start, Reload
<1>10. ASSUME NEW x \in Instances, Stop(x) \/ Stopping(x) \/ Crash(x)
       PROVE  Goes
  BY <1>6, <1>7, <1>10 DEF Stopping, StopRelease, Stopped, OrphanClaim, Exit, Crash
<1>11. ASSUME NEW x \in Instances, NEW y \in Jobs, RenewLease(x, y) \/ Toggle(x, y)
       PROVE  Goes
  BY <1>7, <1>11 DEF RenewLease, Toggle, instVars
<1>12. ASSUME PassTime \/ Outage \/ UNCHANGED vars
       PROVE  Goes
  BY <1>7, <1>12 DEF PassTime, Outage, vars, instVars
<1>13. DispatchFinish(i, j) \/ Goes
  BY <1>3, <1>4, <1>8, <1>9, <1>10, <1>11, <1>12 DEF SchedulerNext, Failing
<1> QED BY <1>13 DEF Goes

\* Every step keeps a running row the row of its owner's dispatch.
LEMMA RunningIsDispatchedStep ==
  ASSUME "dbfail" \notin Faults, IndInv, OrphansOfStopped, RunningIsDispatched,
         [SchedulerNext]_vars
  PROVE  RunningIsDispatched'
<1>1. TypeOK /\ InstTypeOK /\ AttemptsStay
  BY NextInd DEF IndInv, SchedulerTypeOK, InstTypeOK
<1> SUFFICES ASSUME NEW j \in Jobs, NEW s \in Slots, NEW k \in DOMAIN runs'[j][s],
                    NEW i \in Instances,
                    runs'[j][s][k].status = "running", runs'[j][s][k].instance = i
             PROVE  /\ phase'[i] \notin {"off", "starting"}
                    /\ phase'[i] = "up" => /\ Open(disp'[i][j])
                                           /\ disp'[i][j].slot = s /\ disp'[i][j].attempt = k
  BY DEF RunningIsDispatched
<1>2. LifeCycle(i)
  BY <1>1, LifeCycles
<1>3. CASE RowKept(j, s, k)
  <2>1. /\ k \in DOMAIN runs[j][s]
        /\ runs[j][s][k].status = "running" /\ runs[j][s][k].instance = i
    BY <1>1, <1>3 DEF RowKept, AttemptsStay
  <2>2. /\ phase[i] \notin {"off", "starting"}
        /\ phase[i] = "up" => /\ Open(disp[i][j])
                              /\ disp[i][j].slot = s /\ disp[i][j].attempt = k
    BY <2>1 DEF RunningIsDispatched
  <2>3. /\ phase'[i] \notin {"off", "starting"}
        /\ phase'[i] = "up" => phase[i] = "up"
    BY <1>2, <2>2 DEF LifeCycle
  <2>4. ASSUME phase'[i] = "up", DispatchFinish(i, j)
        PROVE  FALSE
    <3>1. RowEnds(j, s, k, disp[i][j].result)
      BY <2>2, <2>3, <2>4, FinishEnds
    <3>2. disp[i][j].result # "running"
      BY <1>1, ResultTypes
    <3> QED BY <3>1, <3>2 DEF RowEnds
  <2>5. ASSUME phase'[i] = "up"
        PROVE  /\ Open(disp'[i][j])
               /\ disp'[i][j].slot = s /\ disp'[i][j].attempt = k
    BY <2>2, <2>3, <2>4, <2>5, OpenUntilFinish
  <2> QED BY <2>3, <2>5
<1>4. ASSUME NEW x \in Instances, RowFinished(x, j, s, k)
      PROVE  FALSE
  BY <1>1, <1>4, ResultTypes DEF RowFinished
<1>5. ASSUME NEW x \in Instances, RowClaimed(x, j, s, k)
      PROVE  /\ phase'[i] \notin {"off", "starting"}
             /\ phase'[i] = "up" => /\ Open(disp'[i][j])
                                    /\ disp'[i][j].slot = s /\ disp'[i][j].attempt = k
  <2>1. x = i /\ k = Attempts(j, s) + 1 /\ ClaimsAt(i, j, s)
    BY <1>5 DEF RowClaimed
  <2>2. ASSUME NEW d \in tick[i].due, d.job = j, d.slot = s, TickClaim(i, d)
        PROVE  /\ phase'[i] = "up"
               /\ disp'[i][j].pc = "created" /\ disp'[i][j].slot = s /\ disp'[i][j].attempt = k
    <3>1. disp' = [disp EXCEPT ![i][j] =
                     [pc |-> "created", slot |-> s, attempt |-> k,
                      now |-> tick[i].now, result |-> "ok", renew |-> FALSE]]
      BY <2>1, <2>2 DEF TickClaim
    <3> QED BY <1>1, <2>2, <3>1 DEF TickClaim, InstTypeOK
  <2>3. CASE OrphanClaim(i) /\ orphan[i] # Null
    BY <2>3 DEF OrphanClaim, OrphansOfStopped
  <2> QED BY <2>1, <2>2, <2>3 DEF ClaimsAt, Open
<1> QED BY <1>3, <1>4, <1>5, RowMoves

\* It holds at the start, when there is no row.
LEMMA RunningIsDispatchedInit == SchedulerInit => RunningIsDispatched /\ OrphansOfStopped
  BY DEF SchedulerInit, RunningIsDispatched, OrphansOfStopped

\* Unless a write fails, a service that is up never loses a claim between the
\* acquire, the dispatch and the finish: its running rows are those of its
\* dispatches, whoever else starts, stops, crashes, stalls, reloads or toggles.
THEOREM NoClaimLost ==
  ASSUME "dbfail" \notin Faults
  PROVE  SchedulerSpec => []ClaimIsDispatched
<1> DEFINE Inv == IndInv /\ OrphansOfStopped /\ RunningIsDispatched
<1>1. SchedulerInit => Inv
  BY InitInd, RunningIsDispatchedInit
<1>2. Inv /\ [SchedulerNext]_vars => Inv'
  <2> SUFFICES ASSUME Inv, [SchedulerNext]_vars PROVE Inv'
    OBVIOUS
  <2>1. InstTypeOK
    BY DEF IndInv, SchedulerTypeOK, InstTypeOK
  <2> QED BY <2>1, NextInd, OrphansOfStoppedStep, RunningIsDispatchedStep
<1>3. Inv => ClaimIsDispatched
  <2> SUFFICES ASSUME Inv, NEW j \in Jobs, NEW s \in Slots, NEW k \in DOMAIN runs[j][s],
                      runs[j][s][k].status = "running",
                      phase[runs[j][s][k].instance] = "up"
               PROVE  LET d == disp[runs[j][s][k].instance][j]
                      IN  d.pc # "none" /\ d.slot = s /\ d.attempt = k
    BY DEF ClaimIsDispatched
  <2>1. runs[j][s][k].instance \in Instances
    BY RowTyped DEF IndInv, SchedulerTypeOK
  <2> QED BY <2>1 DEF RunningIsDispatched, Open
<1> QED BY <1>1, <1>2, <1>3, PTL DEF SchedulerSpec

\* A service that is being stopped has yet to release each of its running
\* rows, and one that was stopped has none.
StoppingReleases ==
  \A j \in Jobs, s \in Slots : \A k \in DOMAIN runs[j][s] : \A i \in Instances :
    runs[j][s][k].status = "running" /\ runs[j][s][k].instance = i =>
      /\ phase[i] = "stopping" => [job |-> j, slot |-> s, attempt |-> k] \in held[i]
      /\ phase[i] # "stopped"

NoOrphans == \A i \in Instances : orphan[i] = Null

\* No acquire is left behind if no service is stopped in the middle of one.
LEMMA NoOrphansStep ==
  ASSUME "inflight" \notin Faults, InstTypeOK, NoOrphans, [SchedulerNext]_vars
  PROVE  NoOrphans'
<1> SUFFICES ASSUME NEW i \in Instances PROVE orphan'[i] = Null
  BY DEF NoOrphans
<1>1. LifeCycle(i)
  BY LifeCycles
<1> QED BY <1>1 DEF LifeCycle, Stop, NoOrphans

\* Every step keeps the running rows of a stopping service in its snapshot.
LEMMA StoppingReleasesStep ==
  ASSUME IndInv, NoOrphans, RunningIsDispatched, StoppingReleases, [SchedulerNext]_vars
  PROVE  StoppingReleases'
<1>1. TypeOK /\ InstTypeOK /\ AttemptsStay
  BY NextInd DEF IndInv, SchedulerTypeOK, InstTypeOK
<1> SUFFICES ASSUME NEW j \in Jobs, NEW s \in Slots, NEW k \in DOMAIN runs'[j][s],
                    NEW i \in Instances,
                    runs'[j][s][k].status = "running", runs'[j][s][k].instance = i
             PROVE  /\ phase'[i] = "stopping" =>
                         [job |-> j, slot |-> s, attempt |-> k] \in held'[i]
                    /\ phase'[i] # "stopped"
  BY DEF StoppingReleases
<1> DEFINE lease == [job |-> j, slot |-> s, attempt |-> k]
<1>2. LifeCycle(i)
  BY <1>1, LifeCycles
<1>3. CASE RowKept(j, s, k)
  <2>1. /\ k \in DOMAIN runs[j][s]
        /\ runs[j][s][k].status = "running" /\ runs[j][s][k].instance = i
    BY <1>1, <1>3 DEF RowKept, AttemptsStay
  <2>2. /\ phase[i] = "stopping" => lease \in held[i]
        /\ phase[i] # "stopped"
    BY <2>1 DEF StoppingReleases
  <2>3. CASE Stop(i) /\ phase'[i] = "stopping"
    <3>1. Open(disp[i][j]) /\ disp[i][j].slot = s /\ disp[i][j].attempt = k
      BY <2>1, <2>3 DEF RunningIsDispatched, Stop
    <3>2. held'[i] = HeldLeases(i)
      BY <1>1, <2>3 DEF Stop, InstTypeOK
    <3>3. lease \in HeldLeases(i)
      BY <3>1 DEF HeldLeases, Open
    <3> QED BY <2>3, <3>2, <3>3
  <2>4. CASE Stopped(i) /\ phase'[i] = "stopped"
    BY <2>2, <2>4 DEF Stopped
  <2>5. ASSUME NEW l \in held[i], StopRelease(i, l), held'[i] = held[i] \ {l},
               phase'[i] = phase[i]
        PROVE  /\ phase'[i] = "stopping" => lease \in held'[i]
               /\ phase'[i] # "stopped"
    <3>1. l # lease
      <4> SUFFICES ASSUME l = lease PROVE FALSE
        OBVIOUS
      <4>1. RowEnds(j, s, k, "aborted")
        BY <2>1, <2>5, ReleaseEnds
      <4> QED BY <4>1 DEF RowEnds
    <3> QED BY <2>2, <2>5, <3>1
  <2> QED BY <1>2, <2>2, <2>3, <2>4, <2>5 DEF LifeCycle
<1>4. ASSUME NEW x \in Instances, RowFinished(x, j, s, k)
      PROVE  FALSE
  BY <1>1, <1>4, ResultTypes DEF RowFinished
<1>5. ASSUME NEW x \in Instances, RowClaimed(x, j, s, k)
      PROVE  phase'[i] = "up"
  BY <1>5 DEF RowClaimed, ClaimsAt, TickClaim, NoOrphans
<1> QED BY <1>3, <1>4, <1>5, RowMoves

\* Unless a write fails or a tick is cancelled inside its acquire, a service
\* that was stopped leaves no lease behind for a peer to wait out: stop() has
\* every claim in its snapshot and releases it.
THEOREM StoppedHoldsNoLease ==
  ASSUME "dbfail" \notin Faults, "inflight" \notin Faults
  PROVE  SchedulerSpec => []StopLeavesNoLease
<1> DEFINE Inv == /\ IndInv /\ OrphansOfStopped /\ NoOrphans
                  /\ RunningIsDispatched /\ StoppingReleases
<1>1. SchedulerInit => Inv
  BY InitInd, RunningIsDispatchedInit DEF SchedulerInit, NoOrphans, StoppingReleases
<1>2. Inv /\ [SchedulerNext]_vars => Inv'
  <2> SUFFICES ASSUME Inv, [SchedulerNext]_vars PROVE Inv'
    OBVIOUS
  <2>1. InstTypeOK
    BY DEF IndInv, SchedulerTypeOK, InstTypeOK
  <2> QED BY <2>1, NextInd, OrphansOfStoppedStep, NoOrphansStep, RunningIsDispatchedStep,
             StoppingReleasesStep
<1>3. Inv => StopLeavesNoLease
  <2> SUFFICES ASSUME Inv, NEW j \in Jobs, NEW s \in Slots, NEW k \in DOMAIN runs[j][s],
                      Live(runs[j][s][k])
               PROVE  phase[runs[j][s][k].instance] # "stopped"
    BY DEF StopLeavesNoLease
  <2>1. runs[j][s][k].instance \in Instances /\ runs[j][s][k].status = "running"
    BY RowTyped DEF IndInv, SchedulerTypeOK, Live
  <2> QED BY <2>1 DEF StoppingReleases
<1> QED BY <1>1, <1>2, <1>3, PTL DEF SchedulerSpec

-----------------------------------------------------------------------------
(* Slots that ran to the end.                                              *)

\* Sequences with the same domain are as long as each other.
LEMMA SameLength ==
  ASSUME NEW S, NEW p \in Seq(S), NEW q \in Seq(S), DOMAIN p = DOMAIN q
  PROVE  Len(p) = Len(q)
<1>1. PICK m \in Nat, n \in Nat : m = Len(p) /\ n = Len(q) /\ 1..m = 1..n
  OBVIOUS
<1>2. m = n
  <2>1. m \in 1..m <=> m # 0
    BY <1>1
  <2>2. n \in 1..n <=> n # 0
    BY <1>1
  <2>3. \A x \in Nat : (x \in 1..m <=> 1 <= x /\ x <= m) /\ (x \in 1..n <=> 1 <= x /\ x <= n)
    BY <1>1
  <2> QED BY <1>1, <2>1, <2>2, <2>3
<1> QED BY <1>1, <1>2

\* Only the latest attempt at a slot can have run to the end.
TerminalIsLatest ==
  \A j \in Jobs, s \in Slots : \A k \in DOMAIN runs[j][s] :
    runs[j][s][k].status \in Terminal => k = Attempts(j, s)

\* A slot is as long as it was, and so it stays if it ran to the end.
LEMMA AttemptsGrow ==
  ASSUME IndInv, TerminalIsLatest, [SchedulerNext]_vars, NEW j \in Jobs, NEW s \in Slots
  PROVE  \/ DOMAIN runs'[j][s] = DOMAIN runs[j][s] /\ Len(runs'[j][s]) = Len(runs[j][s])
         \/ ~EndedWith(j, s, Terminal)
<1>1. TypeOK /\ TypeOK'
  BY NextInd DEF IndInv, SchedulerTypeOK
<1>2. runs[j][s] \in Seq(RunRow) /\ runs'[j][s] \in Seq(RunRow)
  BY <1>1 DEF TypeOK
<1>3. CASE DOMAIN runs'[j][s] = DOMAIN runs[j][s]
  BY <1>2, <1>3, SameLength
<1>4. ASSUME NEW i \in Instances, ClaimsAt(i, j, s), EndedWith(j, s, Terminal)
      PROVE  FALSE
  <2>1. PICK k \in DOMAIN runs[j][s] : runs[j][s][k].status \in Terminal
    BY <1>4 DEF EndedWith
  <2>2. k = Attempts(j, s) /\ runs[j][s] # <<>>
    BY <2>1 DEF TerminalIsLatest
  <2> QED BY <1>4, <2>1, <2>2 DEF ClaimsAt, Claim, Claimable
<1> QED BY <1>3, <1>4, RowsGrow

\* As long as dispatches keep their leases, their outcomes are written to the
\* latest attempt.
LEMMA TerminalIsLatestStep ==
  ASSUME IndInv, LeasesKept, TerminalIsLatest, [SchedulerNext]_vars
  PROVE  TerminalIsLatest'
<1>1. TypeOK /\ InstTypeOK /\ LiveLeaseIsLatest /\ RowsOwned /\ TypeOK'
  BY NextInd DEF IndInv, SchedulerTypeOK, InstTypeOK
<1> SUFFICES ASSUME NEW j \in Jobs, NEW s \in Slots, NEW k \in DOMAIN runs'[j][s],
                    runs'[j][s][k].status \in Terminal
             PROVE  k = Len(runs'[j][s])
  BY DEF TerminalIsLatest, Attempts
<1>2. CASE RowKept(j, s, k)
  <2>1. k \in DOMAIN runs[j][s] /\ runs[j][s][k].status \in Terminal
    BY <1>2 DEF RowKept, Terminal
  <2>2. k = Attempts(j, s) /\ EndedWith(j, s, Terminal)
    BY <2>1 DEF TerminalIsLatest, EndedWith
  <2> QED BY <2>2, AttemptsGrow DEF Attempts
<1>3. ASSUME NEW i \in Instances, RowFinished(i, j, s, k)
      PROVE  k = Len(runs'[j][s])
  <2>1. /\ DispatchFinish(i, j) /\ disp[i][j].slot = s /\ disp[i][j].attempt = k
        /\ k \in DOMAIN runs[j][s] /\ disp[i][j].result \in Terminal
    BY <1>3 DEF RowFinished
  <2>2. Open(disp[i][j])
    BY <2>1 DEF DispatchFinish, At, Open, Terminal
  <2>3. k = Len(runs[j][s])
    BY <1>1, <2>1, <2>2 DEF LeasesKept, LiveLeaseIsLatest, Attempts
  <2>4. DOMAIN runs'[j][s] = DOMAIN runs[j][s]
    BY <2>1, FinishEnds DEF RowEnds
  <2>5. Len(runs'[j][s]) = Len(runs[j][s])
    <3>1. runs[j][s] \in Seq(RunRow) /\ runs'[j][s] \in Seq(RunRow)
      BY <1>1 DEF TypeOK
    <3> QED BY <2>4, <3>1, SameLength
  <2> QED BY <2>3, <2>5
<1>4. ASSUME NEW i \in Instances, RowClaimed(i, j, s, k)
      PROVE  FALSE
  BY <1>4 DEF RowClaimed, Terminal
<1> QED BY <1>2, <1>3, <1>4, RowMoves

\* "Never re-run it": unless a loop stalls beyond a lease, two renewals of a
\* lease in a row fail ("outage") or a workflow ignores its cancellation, a slot an attempt at which ran to the end gets no other,
\* over crashes, failing writes, stops, reloads and toggles.
THEOREM FinishedSlotNotRerun ==
  ASSUME "stall" \notin Faults, "outage" \notin Faults, "ignore" \notin Faults
  PROVE  SchedulerSpec => TerminalNeverRerun
<1> DEFINE Inv == IndInv /\ DispatchesAlive /\ LeasesKept /\ TerminalIsLatest
<1>1. SchedulerInit => Inv
  BY InitInd DEF SchedulerInit, DispatchesAlive, LeasesKept, NoDisp, Open, TerminalIsLatest
<1>2. Inv /\ [SchedulerNext]_vars => Inv'
  <2> SUFFICES ASSUME Inv, [SchedulerNext]_vars PROVE Inv'
    OBVIOUS
  <2>1. TypeOK /\ InstTypeOK
    BY DEF IndInv, SchedulerTypeOK, InstTypeOK
  <2> QED BY <2>1, NextInd, DispatchesAliveStep, LeasesKeptStep, TerminalIsLatestStep
<1>3. Inv /\ [SchedulerNext]_vars =>
        [\A j \in Jobs, s \in Slots :
           EndedWith(j, s, Terminal) => Len(runs'[j][s]) = Len(runs[j][s])]_vars
  BY AttemptsGrow
<1> QED BY <1>1, <1>2, <1>3, PTL DEF SchedulerSpec, TerminalNeverRerun

-----------------------------------------------------------------------------
(* The jobs table, when nothing synchronises.                              *)

\* No definitions are being synchronised.
NoSyncs == \A i \in Instances : sync[i].pc = "idle"

\* They are only by a start or a reload.
LEMMA NoSyncsStep ==
  ASSUME "start" \notin Faults, "reload" \notin Faults, InstTypeOK, NoSyncs,
         [SchedulerNext]_vars
  PROVE  NoSyncs'
<1>1. sync' = sync => NoSyncs'
  BY DEF NoSyncs
<1>2. ASSUME NEW x \in Instances
      PROVE  ~(Start(x) \/ Reload(x) \/ Syncing(x))
  BY DEF Start, Reload, Fault, Syncing, SyncRead, SyncWrite, SyncRest, NoSyncs
<1>3. ASSUME NEW x \in Instances, Gone(x)
      PROVE  NoSyncs'
  BY <1>3 DEF Gone, NoSyncs, NoSync, InstTypeOK
<1>4. ASSUME NEW x \in Instances, Ticking(x) \/ TickFails(x)
      PROVE  sync' = sync
  BY <1>4 DEF Ticking, TickRead, TickDisable, TickSkip, TickClaim, TickFails
<1>5. ASSUME NEW x \in Instances, Stop(x) \/ Stopping(x) \/ Crash(x)
      PROVE  sync' = sync \/ Gone(x)
  BY <1>5 DEF Stop, Stopping, StopRelease, Stopped, OrphanClaim, Exit, Crash
<1>6. ASSUME NEW x \in Instances, NEW y \in Jobs,
             \/ Dispatching(x, y) \/ RenewLease(x, y) \/ RenewalStops(x, y)
             \/ WorkflowCancelled(x, y) \/ FinishFails(x, y) \/ AdvanceFails(x, y)
             \/ Toggle(x, y)
      PROVE  sync' = sync
  BY <1>6 DEF Dispatching, DispatchStart, WorkflowEnds, DispatchFinish, DispatchLogged,
     DispatchAdvance, RenewLease, RenewalStops, WorkflowCancelled, FinishFails,
     AdvanceFails, Toggle, instVars
<1>7. PassTime \/ Outage \/ UNCHANGED vars => sync' = sync
  BY DEF PassTime, Outage, vars, instVars
<1> QED BY <1>1, <1>2, <1>3, <1>4, <1>5, <1>6, <1>7 DEF SchedulerNext, Failing

\* What a step makes of a job's row.
JobMoves(j) ==
  \/ jobs'[j] = jobs[j]
  \/ Exists(j) /\ jobs'[j] = [jobs[j] EXCEPT !.enabled = FALSE, !.next_run = Null]
  \/ /\ "toggle" \in Faults /\ Exists(j) /\ UNCHANGED <<runs, clock>>
     /\ jobs'[j] = [jobs[j] EXCEPT !.enabled = TRUE, !.next_run = NextRunUTC[clock]]
  \/ \E i \in Instances : DispatchAdvance(i, j)

\* With no synchronisation, a job's row is only written by a disable, an enable
\* or the dispatch of one of its slots.
LEMMA JobsMove ==
  ASSUME TypeOK, InstTypeOK, NoSyncs, "start" \notin Faults, "reload" \notin Faults,
         [SchedulerNext]_vars, NEW j \in Jobs
  PROVE  JobMoves(j)
<1>1. jobs' = jobs => JobMoves(j)
  BY DEF JobMoves
<1>2. ASSUME NEW x \in Instances
      PROVE  ~(Start(x) \/ Reload(x) \/ Syncing(x))
  BY DEF Start, Reload, Fault, Syncing, SyncRead, SyncWrite, SyncRest, NoSyncs
<1>3. ASSUME NEW x \in Jobs, Disable(x)
      PROVE  JobMoves(j)
  <2>1. jobs' = [jobs EXCEPT ![x] = [@ EXCEPT !.enabled = FALSE, !.next_run = Null]]
    BY <1>3 DEF Disable
  <2> QED BY <1>3, <2>1 DEF JobMoves, Disable, TypeOK
<1>4. ASSUME NEW x \in Jobs, Enable(x), "toggle" \in Faults
      PROVE  JobMoves(j)
  <2>1. jobs' = [jobs EXCEPT ![x] = [@ EXCEPT !.enabled = TRUE, !.next_run = NextRunUTC[clock]]]
    BY <1>4 DEF Enable
  <2> QED BY <1>4, <2>1 DEF JobMoves, Enable, TypeOK
<1>5. ASSUME NEW i \in Instances, NEW x \in Jobs, DispatchAdvance(i, x)
      PROVE  JobMoves(j)
  <2>1. CASE x = j
    BY <1>5, <2>1 DEF JobMoves
  <2>2. CASE x # j
    BY <1>5, <2>2 DEF JobMoves, DispatchAdvance, Advance, TypeOK
  <2> QED BY <2>1, <2>2
<1>6. ASSUME NEW x \in Instances, Ticking(x) \/ TickFails(x)
      PROVE  JobMoves(j)
  <2>1. ASSUME NEW d \in tick[x].due, TickDisable(x, d)
        PROVE  JobMoves(j)
    <3>1. d.job \in Jobs
      BY DEF InstTypeOK, Ticks, Claims
    <3> QED BY <1>3, <2>1, <3>1 DEF TickDisable
  <2>2. ASSUME NEW d \in tick[x].due, TickSkip(x, d) \/ TickClaim(x, d)
        PROVE  jobs' = jobs
    BY <2>2 DEF TickSkip, TickClaim, Claim, dbVars
  <2>3. TickRead(x) \/ TickFails(x) => jobs' = jobs
    BY DEF TickRead, TickFails, dbVars
  <2> QED BY <1>1, <1>6, <2>1, <2>2, <2>3 DEF Ticking
<1>7. ASSUME NEW x \in Instances, Stop(x) \/ Stopping(x) \/ Crash(x)
      PROVE  jobs' = jobs
  BY <1>7 DEF Stop, Stopping, StopRelease, Release, Stopped, OrphanClaim, Claim, Exit, Crash,
     Gone, dbVars
<1>8. ASSUME NEW x \in Instances, NEW y \in Jobs, Toggle(x, y)
      PROVE  JobMoves(j)
  BY <1>3, <1>4, <1>8 DEF Toggle, Fault
<1>9. ASSUME NEW x \in Instances, NEW y \in Jobs,
             \/ DispatchStart(x, y) \/ WorkflowEnds(x, y) \/ DispatchFinish(x, y)
             \/ DispatchLogged(x, y) \/ RenewLease(x, y) \/ RenewalStops(x, y)
             \/ WorkflowCancelled(x, y) \/ FinishFails(x, y) \/ AdvanceFails(x, y)
      PROVE  jobs' = jobs
  BY <1>9 DEF DispatchStart, WorkflowEnds, DispatchFinish, Finish, DispatchLogged, RenewLease,
     Renew, RenewalStops, WorkflowCancelled, FinishFails, AdvanceFails, dbVars
<1>10. PassTime \/ Outage \/ UNCHANGED vars => jobs' = jobs
  BY DEF PassTime, Outage, Elapse, vars, dbVars
<1> QED BY <1>1, <1>2, <1>5, <1>6, <1>7, <1>8, <1>9, <1>10
        DEF SchedulerNext, Failing, Dispatching

\* The slot a job moves to is a time after the slot that has run, and whether
\* it catches up or not.
LEMMA SuccessorLater ==
  ASSUME NEW slot \in Slots, NEW now \in Slots
  PROVE  /\ Successor(NextRun, CatchUpOn, MaxCatchup, slot, now) \in Nat
         /\ slot <= now => Successor(NextRun, CatchUpOn, MaxCatchup, slot, now) > slot
<1>1. PICK step \in Nat, future \in Nat :
        /\ step = NextRun[slot] /\ future = NextRun[now]
        /\ step > slot /\ future > now
  BY NextRunAssumption DEF Slots
<1>2. Successor(NextRun, CatchUpOn, MaxCatchup, slot, now) \in {step, future}
  BY <1>1 DEF Successor
<1>3. slot \in Nat /\ now \in Nat
  BY ConstantsAssumption DEF Slots
<1>4. slot <= now => step > slot /\ future > slot
  BY <1>1, <1>3
<1> QED BY <1>1, <1>2, <1>4

\* A dispatch moves its job on, from a time to one that is not before it and
\* is not before the successor of its slot.
LEMMA AdvanceMoves ==
  ASSUME TypeOK, InstTypeOK, NEW i \in Instances, NEW j \in Jobs, DispatchAdvance(i, j)
  PROVE  /\ Exists(j)
         /\ jobs'[j].enabled = jobs[j].enabled
         /\ jobs'[j].next_run \in Nat
         /\ jobs[j].next_run \in Nat => jobs'[j].next_run >= jobs[j].next_run
         /\ disp[i][j].slot <= disp[i][j].now => jobs'[j].next_run > disp[i][j].slot
<1>1. PICK d \in Dispatches : d = disp[i][j]
  BY DEF InstTypeOK
<1>2. PICK v \in Nat : /\ v = Successor(NextRun, CatchUpOn, MaxCatchup, d.slot, d.now)
                       /\ d.slot <= d.now => v > d.slot
  BY <1>1, SuccessorLater DEF Dispatches
<1>3. Advance(j, v)
  BY <1>1, <1>2 DEF DispatchAdvance
<1>4. PICK row \in JobRow : row = jobs[j] /\ Exists(j)
  BY <1>3 DEF Advance, Exists, TypeOK
<1>5. PICK n : n = Advanced(row.next_run, v) /\ jobs'[j] = [row EXCEPT !.next_run = n]
  BY <1>3, <1>4 DEF Advance, TypeOK
<1>6. row.next_run \in Nat \/ row.next_run = Null
  BY <1>4 DEF JobRow, Times
<1>7. n \in Nat /\ n >= v /\ (row.next_run \in Nat => n >= row.next_run)
  <2>1. v # Null
    BY <1>2, ConstantsAssumption
  <2>2. CASE row.next_run = Null
    BY <1>2, <1>5, <2>1, <2>2, ConstantsAssumption DEF Advanced
  <2>3. CASE row.next_run \in Nat
    <3>1. PICK r \in Nat : r = row.next_run /\ r # Null
      BY <2>3, ConstantsAssumption
    <3>2. n = IF r < v THEN v ELSE r
      BY <1>5, <2>1, <3>1 DEF Advanced
    <3> QED BY <1>2, <3>1, <3>2
  <2> QED BY <1>6, <2>2, <2>3
<1>8. jobs'[j].next_run = n /\ jobs'[j].enabled = row.enabled
  BY <1>4, <1>5 DEF JobRow
<1>9. d.slot <= d.now => n > d.slot
  <2>1. d.slot \in Nat
    BY <1>1, ConstantsAssumption DEF Dispatches, Slots
  <2> QED BY <1>2, <1>7, <2>1
<1> QED BY <1>1, <1>4, <1>7, <1>8, <1>9

\* "A slow instance finishing an old slot can never drag next_run backwards":
\* as long as no definitions are synchronised and none is enabled by hand, a
\* job's next_run only grows, for any number of instances, however slow.
THEOREM NextRunOnlyGrows ==
  ASSUME "start" \notin Faults, "reload" \notin Faults, "toggle" \notin Faults
  PROVE  SchedulerSpec => NextRunNeverRegresses
<1> DEFINE Inv == IndInv /\ NoSyncs
<1>1. SchedulerInit => Inv
  BY InitInd DEF SchedulerInit, NoSyncs, NoSync
<1>2. Inv /\ [SchedulerNext]_vars => Inv'
  <2> SUFFICES ASSUME Inv, [SchedulerNext]_vars PROVE Inv'
    OBVIOUS
  <2>1. InstTypeOK
    BY DEF IndInv, SchedulerTypeOK, InstTypeOK
  <2> QED BY <2>1, NextInd, NoSyncsStep
<1>3. Inv /\ [SchedulerNext]_vars =>
        [\A j \in Jobs :
           Exists(j) /\ jobs[j].enabled /\ jobs[j].next_run # Null
           /\ jobs'[j].enabled /\ jobs'[j].next_run # Null
           => jobs'[j].next_run >= jobs[j].next_run]_vars
  <2> SUFFICES ASSUME Inv, [SchedulerNext]_vars, NEW j \in Jobs,
                      Exists(j), jobs[j].next_run # Null, jobs'[j].enabled
               PROVE  jobs'[j].next_run >= jobs[j].next_run
    OBVIOUS
  <2>1. TypeOK /\ InstTypeOK
    BY DEF IndInv, SchedulerTypeOK, InstTypeOK
  <2>2. jobs[j] \in JobRow /\ jobs[j].next_run \in Nat
    BY <2>1 DEF Exists, TypeOK, JobRow, Times
  <2>3. JobMoves(j)
    BY <2>1, JobsMove
  <2>4. CASE jobs'[j] = jobs[j]
    BY <2>2, <2>4
  <2>5. ~(jobs'[j] = [jobs[j] EXCEPT !.enabled = FALSE, !.next_run = Null])
    BY <2>2 DEF JobRow
  <2>6. CASE \E i \in Instances : DispatchAdvance(i, j)
    BY <2>1, <2>2, <2>6, AdvanceMoves
  <2> QED BY <2>3, <2>4, <2>5, <2>6 DEF JobMoves
<1> QED BY <1>1, <1>2, <1>3, PTL DEF SchedulerSpec, NextRunNeverRegresses

-----------------------------------------------------------------------------
(* A slot that has run is left behind.                                     *)

\* The job's next slot is not before s, if the job is enabled at all.
Passed(j, s) ==
  Exists(j) /\ jobs[j].enabled => jobs[j].next_run \in Nat /\ s <= jobs[j].next_run

Attempted(j, s) == DOMAIN runs[j][s] # {}

\* Slots are attempted, and taken to be due, when their time has come, and no
\* job points before a slot that was.
SlotsPassed ==
  /\ \A j \in Jobs, s \in Slots : Attempted(j, s) => s <= clock /\ Passed(j, s)
  /\ \A i \in Instances : \A d \in tick[i].due :
       d.slot <= tick[i].now /\ d.slot <= clock /\ Passed(d.job, d.slot)
  /\ \A i \in Instances :
       orphan[i] # Null => orphan[i].slot <= clock /\ Passed(orphan[i].job, orphan[i].slot)

\* The wall clock does not go back.
LEMMA ClockGrows ==
  ASSUME IndInv, [SchedulerNext]_vars
  PROVE  clock \in Nat /\ clock' \in Nat /\ clock <= clock'
<1>1. TypeOK /\ clock \in Nat
  BY ConstantsAssumption DEF IndInv, SchedulerTypeOK, TypeOK
<1>2. clock' = clock \/ clock' = clock + 1
  <2>1. [AnyCall(Times)]_dbVars
    BY CallsOnly
  <2>2. ASSUME NEW j \in Jobs, OnJob(j, Times)
        PROVE  clock' = clock
    BY <1>1, <2>2, JobCallShapes
  <2>3. ASSUME NEW j \in Jobs, NEW s \in Slots, NEW k \in DOMAIN runs[j][s], OnRow(j, s, k)
        PROVE  clock' = clock
    BY <1>1, <2>3, RowCallShapes
  <2> QED BY <2>1, <2>2, <2>3 DEF AnyCall, Initialize, DisableOthers, Elapse, dbVars
<1> QED BY <1>1, <1>2

\* A job never comes back to before a slot whose time has come: it is moved on
\* by dispatches, and an enable starts it after now.
LEMMA PassedStays ==
  ASSUME TypeOK, InstTypeOK, NoSyncs, "start" \notin Faults, "reload" \notin Faults,
         [SchedulerNext]_vars,
         NEW j \in Jobs, NEW s \in Nat, s <= clock, Passed(j, s)
  PROVE  Passed(j, s)'
<1>1. SUFFICES ASSUME jobs'[j] # Null, jobs'[j].enabled
               PROVE  jobs'[j].next_run \in Nat /\ s <= jobs'[j].next_run
  BY DEF Passed, Exists
<1>2. Exists(j) => jobs[j] \in JobRow
  BY DEF Exists, TypeOK
<1>3. JobMoves(j)
  BY JobsMove
<1>4. CASE jobs'[j] = jobs[j]
  BY <1>1, <1>4 DEF Passed, Exists
<1>5. CASE Exists(j) /\ jobs'[j] = [jobs[j] EXCEPT !.enabled = FALSE, !.next_run = Null]
  BY <1>1, <1>2, <1>5 DEF JobRow
<1>6. CASE Exists(j) /\ jobs'[j] = [jobs[j] EXCEPT !.enabled = TRUE, !.next_run = NextRunUTC[clock]]
  <2>1. PICK n \in Nat, t \in Nat : n = NextRunUTC[clock] /\ t = clock /\ n > t
    BY NextRunAssumption, ConstantsAssumption DEF TypeOK
  <2>2. jobs'[j].next_run = n
    BY <1>2, <1>6, <2>1 DEF JobRow
  <2>3. s <= n
    BY <2>1
  <2> QED BY <2>2, <2>3
<1>7. ASSUME NEW i \in Instances, DispatchAdvance(i, j)
      PROVE  jobs'[j].next_run \in Nat /\ s <= jobs'[j].next_run
  <2>1. /\ Exists(j) /\ jobs[j].enabled
        /\ jobs'[j].next_run \in Nat
        /\ jobs[j].next_run \in Nat => jobs'[j].next_run >= jobs[j].next_run
    BY <1>1, <1>7, AdvanceMoves
  <2>2. jobs[j].next_run \in Nat /\ s <= jobs[j].next_run
    BY <2>1 DEF Passed
  <2>3. PICK m \in Nat, n \in Nat : m = jobs[j].next_run /\ n = jobs'[j].next_run
    BY <2>1, <2>2
  <2> QED BY <2>1, <2>2, <2>3
<1> QED BY <1>3, <1>4, <1>5, <1>6, <1>7 DEF JobMoves

\* A tick works off what it has read, or reads anew.
LEMMA TicksMove ==
  ASSUME InstTypeOK, [SchedulerNext]_vars, NEW i \in Instances
  PROVE  \/ tick'[i].due = {}
         \/ tick'[i].due \subseteq tick[i].due /\ tick'[i].now = tick[i].now
         \/ TickRead(i)
<1> DEFINE Goes == \/ tick'[i].due = {}
                   \/ tick'[i].due \subseteq tick[i].due /\ tick'[i].now = tick[i].now
<1>1. tick'[i] = tick[i] => Goes
  OBVIOUS
<1>2. tick'[i] = NoTick => Goes
  BY DEF NoTick
<1> HIDE DEF Goes
<1>4. ASSUME NEW x \in Instances, NEW d \in tick[x].due, Done(x, d)
      PROVE  Goes
  <2>1. CASE x # i
    BY <1>1, <1>4, <2>1 DEF Done, InstTypeOK
  <2>2. CASE x = i
    <3>1. tick[i] \in Ticks
      BY DEF InstTypeOK
    <3>2. \/ tick'[i] = NoTick
          \/ tick'[i] = [tick[i] EXCEPT !.due = tick[i].due \ {d}]
      BY <1>4, <2>2 DEF Done, InstTypeOK
    <3>3. tick'[i] = [tick[i] EXCEPT !.due = tick[i].due \ {d}] =>
            tick'[i].due \subseteq tick[i].due /\ tick'[i].now = tick[i].now
      BY <3>1 DEF Ticks
    <3> QED BY <1>2, <3>2, <3>3 DEF Goes
  <2> QED BY <2>1, <2>2
<1>5. ASSUME NEW x \in Instances, TickFails(x) \/ Stop(x) \/ Gone(x)
      PROVE  Goes
  <2>1. tick' = [tick EXCEPT ![x] = NoTick]
    BY <1>5 DEF TickFails, Stop, Gone
  <2>2. tick'[i] = tick[i] \/ tick'[i] = NoTick
    BY <2>1 DEF InstTypeOK
  <2> QED BY <1>1, <1>2, <2>2
<1>6. ASSUME NEW x \in Instances, TickRead(x)
      PROVE  Goes \/ TickRead(i)
  <2>1. CASE x # i
    BY <1>1, <1>6, <2>1 DEF TickRead, InstTypeOK
  <2>2. CASE x = i
    BY <1>6, <2>2
  <2> QED BY <2>1, <2>2
<1>7. ASSUME NEW x \in Instances, Ticking(x)
      PROVE  Goes \/ TickRead(i)
  BY <1>4, <1>6, <1>7 DEF Ticking, TickDisable, TickSkip, TickClaim
<1>8. ASSUME NEW x \in Instances, Start(x) \/ Reload(x) \/ Syncing(x)
      PROVE  Goes
  BY <1>1, <1>8 DEF Start, Reload, Syncing, SyncRead, SyncWrite, SyncRest
<1>9. ASSUME NEW x \in Instances, Stopping(x) \/ Crash(x)
      PROVE  Goes
  BY <1>1, <1>5, <1>9 DEF Stopping, StopRelease, Stopped, OrphanClaim, Exit, Crash
<1>10. ASSUME NEW x \in Instances, NEW y \in Jobs,
              \/ Dispatching(x, y) \/ RenewLease(x, y) \/ RenewalStops(x, y)
              \/ WorkflowCancelled(x, y) \/ FinishFails(x, y) \/ AdvanceFails(x, y)
              \/ Toggle(x, y)
       PROVE  tick' = tick
  BY <1>10 DEF Dispatching, DispatchStart, WorkflowEnds, DispatchFinish, DispatchLogged,
     DispatchAdvance, RenewLease, RenewalStops, WorkflowCancelled, FinishFails,
     AdvanceFails, Toggle, instVars
<1>11. PassTime \/ Outage \/ UNCHANGED vars => tick' = tick
  BY DEF PassTime, Outage, vars, instVars
<1>12. Goes \/ TickRead(i)
  BY <1>1, <1>5, <1>7, <1>8, <1>9, <1>10, <1>11 DEF SchedulerNext, Failing
<1> QED BY <1>12 DEF Goes

\* What is due is due now, and no job is past it.
LEMMA DueSlots ==
  ASSUME TypeOK, InstTypeOK, NEW i \in Instances, TickRead(i), NEW d \in tick'[i].due
  PROVE  /\ d.job \in Jobs /\ d.slot \in Nat
         /\ d.slot <= tick'[i].now /\ d.slot <= clock
         /\ Passed(d.job, d.slot)'
<1>1. tick'[i] = [now |-> clock,
                  due |-> {[job |-> j, slot |-> jobs[j].next_run] : j \in DueDefinitions}]
  BY DEF TickRead, InstTypeOK
<1>2. PICK j \in DueDefinitions : d = [job |-> j, slot |-> jobs[j].next_run]
  BY <1>1
<1>3. j \in Jobs /\ Exists(j) /\ jobs[j].next_run # Null /\ jobs[j].next_run <= clock
  BY DEF DueDefinitions, Due
<1>4. jobs[j].next_run \in Nat
  BY <1>3 DEF Exists, TypeOK, JobRow, Times
<1>5. PICK n \in Nat : n = jobs[j].next_run /\ n <= n
  BY <1>4
<1>6. jobs' = jobs
  BY DEF TickRead, dbVars
<1>7. Passed(j, n)'
  BY <1>5, <1>6 DEF Passed
<1>8. d.job = j /\ d.slot = n /\ tick'[i].now = clock
  BY <1>1, <1>2, <1>5
<1> QED BY <1>3, <1>5, <1>7, <1>8 DEF Passed

\* Every step keeps attempts and due slots behind the jobs.
LEMMA SlotsPassedStep ==
  ASSUME IndInv, NoSyncs, "start" \notin Faults, "reload" \notin Faults, SlotsPassed,
         [SchedulerNext]_vars
  PROVE  SlotsPassed'
<1>1. TypeOK /\ InstTypeOK /\ InstTypeOK'
  BY NextInd DEF IndInv, SchedulerTypeOK, InstTypeOK
<1>2. clock \in Nat /\ clock' \in Nat /\ clock <= clock' /\ Slots \subseteq Nat
  BY ClockGrows, ConstantsAssumption DEF Slots
<1>3. ASSUME NEW j \in Jobs, NEW s \in Slots, s <= clock, Passed(j, s)
      PROVE  s <= clock' /\ Passed(j, s)'
  <2>1. s \in Nat
    BY <1>2
  <2>2. s <= clock'
    BY <1>2, <1>3, <2>1
  <2> QED BY <1>1, <1>3, <2>1, <2>2, PassedStays
<1>4. ASSUME NEW j \in Jobs, NEW s \in Slots, Attempted(j, s)'
      PROVE  s <= clock' /\ Passed(j, s)'
  <2>1. CASE DOMAIN runs'[j][s] = DOMAIN runs[j][s]
    BY <1>3, <1>4, <2>1 DEF Attempted, SlotsPassed
  <2>2. CASE \E i \in Instances : ClaimsAt(i, j, s)
    BY <1>3, <2>2 DEF ClaimsAt, SlotsPassed
  <2> QED BY <2>1, <2>2, RowsGrow
<1>5. ASSUME NEW i \in Instances, NEW d \in tick[i].due
      PROVE  d.slot <= clock' /\ Passed(d.job, d.slot)'
  <2>1. PICK j \in Jobs, s \in Slots : j = d.job /\ s = d.slot
    BY <1>1 DEF InstTypeOK, Ticks, Claims
  <2>2. s <= clock' /\ Passed(j, s)'
    BY <1>3, <2>1 DEF SlotsPassed
  <2> QED BY <2>1, <2>2 DEF Passed
<1>6. ASSUME NEW i \in Instances, NEW d \in tick'[i].due
      PROVE  d.slot <= tick'[i].now /\ d.slot <= clock' /\ Passed(d.job, d.slot)'
  <2>1. CASE tick'[i].due \subseteq tick[i].due /\ tick'[i].now = tick[i].now
    BY <1>5, <1>6, <2>1 DEF SlotsPassed
  <2>2. CASE TickRead(i)
    <3>1. clock' = clock
      BY <2>2 DEF TickRead, dbVars
    <3> QED BY <1>1, <1>6, <2>2, <3>1, DueSlots
  <2> QED BY <1>1, <1>6, <2>1, <2>2, TicksMove
<1>7. ASSUME NEW i \in Instances, NEW o \in Claims, o = orphan'[i], o # Null
      PROVE  o.slot <= clock' /\ Passed(o.job, o.slot)'
  <2>1. PICK j \in Jobs, s \in Slots : j = o.job /\ s = o.slot
    BY <1>7 DEF Claims
  <2>2. CASE orphan'[i] = orphan[i]
    <3>1. s <= clock /\ Passed(j, s)
      BY <1>7, <2>1, <2>2 DEF SlotsPassed
    <3>2. s <= clock' /\ Passed(j, s)'
      BY <1>3, <3>1
    <3> QED BY <2>1, <3>2 DEF Passed
  <2>3. CASE o \in tick[i].due
    BY <1>5, <2>3
  <2>4. orphan'[i] = orphan[i] \/ o \in tick[i].due
    <3>1. CASE Stop(i)
      BY <1>1, <1>7, <3>1 DEF Stop, InstTypeOK
    <3>2. LifeCycle(i)
      BY <1>1, LifeCycles
    <3> QED BY <1>1, <1>7, <3>1, <3>2 DEF LifeCycle
  <2> QED BY <2>2, <2>3, <2>4
<1> QED BY <1>1, <1>4, <1>6, <1>7 DEF SlotsPassed, Passed, InstTypeOK

\* A dispatch's slot was due when it was claimed.
DispatchNows ==
  \A i \in Instances, j \in Jobs : disp[i][j].pc # "none" => disp[i][j].slot <= disp[i][j].now

\* Only a tick makes dispatches, for what it has read to be due.
LEMMA DispatchNowsStep ==
  ASSUME TypeOK, InstTypeOK, SlotsPassed, DispatchNows, [SchedulerNext]_vars
  PROVE  DispatchNows'
<1> SUFFICES ASSUME NEW i \in Instances, NEW j \in Jobs, disp'[i][j].pc # "none"
             PROVE  disp'[i][j].slot <= disp'[i][j].now
  BY DEF DispatchNows
<1>1. CASE SameDispatch(i, j)
  BY <1>1 DEF SameDispatch, DispatchNows
<1>2. ASSUME NEW d \in tick[i].due, d.job = j, TickClaim(i, d)
      PROVE  disp'[i][j].slot <= disp'[i][j].now
  <2>1. disp'[i][j] = [pc |-> "created", slot |-> d.slot, attempt |-> Attempts(d.job, d.slot) + 1,
                       now |-> tick[i].now, result |-> "ok", renew |-> FALSE]
    BY <1>2 DEF TickClaim, InstTypeOK
  <2>2. d.slot <= tick[i].now
    BY DEF SlotsPassed
  <2> QED BY <2>1, <2>2
<1> QED BY <1>1, <1>2, DispatchesStay

\* A service whose stop is over has no dispatches.
StoppedIdle ==
  \A i \in Instances : phase[i] = "stopped" => \A j \in Jobs : disp[i][j].pc = "none"

\* stop() ends when the dispatches have, as long as none ignores it.
LEMMA StoppedIdleStep ==
  ASSUME "ignore" \notin Faults, TypeOK, InstTypeOK, StoppedIdle, [SchedulerNext]_vars
  PROVE  StoppedIdle'
<1> SUFFICES ASSUME NEW i \in Instances, NEW j \in Jobs, phase'[i] = "stopped"
             PROVE  disp'[i][j].pc = "none"
  BY DEF StoppedIdle
<1>1. CASE Stopped(i)
  BY <1>1 DEF Stopped, Unwound
<1>2. CASE phase[i] = "stopped"
  <2>1. disp[i][j].pc = "none"
    BY <1>2 DEF StoppedIdle
  <2>2. ASSUME NEW d \in tick[i].due
        PROVE  ~TickClaim(i, d)
    BY <1>2 DEF TickClaim
  <2>3. SameDispatch(i, j)
    BY <2>2, DispatchesStay
  <2> QED BY <2>1, <2>3 DEF SameDispatch
<1>3. LifeCycle(i)
  BY LifeCycles
<1> QED BY <1>1, <1>2, <1>3 DEF LifeCycle

\* i is about to move job j on from slot s, its outcome written.
Advancing(i, j, s) ==
  Alive(i) /\ disp[i][j].slot = s /\ disp[i][j].pc \in {"log", "advance", "handle"}

\* While no process crashes and no write fails, it goes on until it has.
LEMMA AdvancingMoves ==
  ASSUME "crash" \notin Faults, "dbfail" \notin Faults, TypeOK, InstTypeOK, StoppedIdle,
         [SchedulerNext]_vars,
         NEW i \in Instances, NEW j \in Jobs, NEW s, Advancing(i, j, s)
  PROVE  Advancing(i, j, s)' \/ DispatchAdvance(i, j)
<1> DEFINE Goes == disp'[i][j].slot = s /\ disp'[i][j].pc \in {"log", "advance", "handle"}
<1>1. /\ disp[i][j] \in Dispatches /\ disp[i][j].slot = s
      /\ disp[i][j].pc \in {"log", "advance", "handle"}
  BY DEF InstTypeOK, Advancing
<1>2. disp'[i][j] = disp[i][j] => Goes
  BY <1>1
<1>3. \A pc \in {"log", "advance"} : disp'[i][j] = [disp[i][j] EXCEPT !.pc = pc] => Goes
  BY <1>1 DEF Dispatches
<1>4. disp'[i][j] = [disp[i][j] EXCEPT !.pc = "handle", !.result = "aborted"] => Goes
  BY <1>1 DEF Dispatches
<1>5. disp'[i][j] = [disp[i][j] EXCEPT !.renew = FALSE] => Goes
  BY <1>1 DEF Dispatches
<1> HIDE DEF Goes
<1>6. ASSUME NEW x \in Instances, NEW y \in Jobs,
             Dispatching(x, y) \/ RenewalStops(x, y) \/ WorkflowCancelled(x, y)
      PROVE  DispatchAdvance(i, j) \/ Goes
  <2>1. CASE ~(x = i /\ y = j)
    <3>1. PICK new : disp' = [disp EXCEPT ![x][y] = new]
      BY <1>6, DispatchWrite
    <3> QED BY <1>2, <2>1, <3>1 DEF InstTypeOK
  <2>2. CASE x = i /\ y = j
    <3>1. CASE DispatchFinish(i, j) \/ DispatchLogged(i, j)
      <4>1. PICK pc \in {"log", "advance"} : disp'[i][j] = [disp[i][j] EXCEPT !.pc = pc]
        BY <3>1 DEF DispatchFinish, DispatchLogged, SetPc, InstTypeOK
      <4> QED BY <1>3, <4>1
    <3>2. CASE RenewalStops(i, j)
      BY <1>5, <3>2 DEF RenewalStops, InstTypeOK
    <3>3. ~(DispatchStart(i, j) \/ WorkflowEnds(i, j) \/ WorkflowCancelled(i, j))
      BY <1>1 DEF DispatchStart, WorkflowEnds, WorkflowCancelled, At
    <3> QED BY <1>6, <2>2, <3>1, <3>2, <3>3 DEF Dispatching
  <2> QED BY <2>1, <2>2
<1>7. ASSUME NEW x \in Instances, NEW d \in tick[x].due, TickClaim(x, d)
      PROVE  Goes
  <2>1. d.job \in Jobs
    BY DEF InstTypeOK, Ticks, Claims
  <2>2. ~(x = i /\ d.job = j)
    BY <1>1, <1>7 DEF TickClaim
  <2> QED BY <1>2, <1>7, <2>1, <2>2 DEF TickClaim, InstTypeOK
<1>8. ASSUME NEW x \in Instances, Stop(x)
      PROVE  Goes
  <2>1. CASE x # i
    BY <1>2, <1>8, <2>1 DEF Stop, InstTypeOK
  <2>2. CASE x = i
    <3>1. disp'[i][j] = disp[i][j] \/ disp'[i][j] = Cancelled(disp[i][j])
      BY <1>8, <2>2 DEF Stop, InstTypeOK
    <3>2. \/ Cancelled(disp[i][j]) = disp[i][j]
          \/ Cancelled(disp[i][j]) = [disp[i][j] EXCEPT !.pc = "handle", !.result = "aborted"]
      BY <1>1 DEF Cancelled
    <3> QED BY <1>2, <1>4, <3>1, <3>2
  <2> QED BY <2>1, <2>2
<1>9. ASSUME NEW x \in Instances, Exit(x)
      PROVE  Goes
  <2>1. x # i
    BY <1>1, <1>9 DEF Exit, StoppedIdle
  <2> QED BY <1>2, <1>9, <2>1 DEF Exit, Gone, InstTypeOK
<1>10. disp' = disp => Goes
  BY <1>2
<1>11. ASSUME NEW x \in Instances, NEW y \in Jobs
       PROVE  ~(Crash(x) \/ FinishFails(x, y) \/ AdvanceFails(x, y))
  BY DEF Crash, FinishFails, AdvanceFails, Fault
<1>12. ASSUME NEW x \in Instances, Ticking(x) \/ TickFails(x) \/ Syncing(x) \/ Start(x) \/ Reload(x)
       PROVE  Goes
  BY <1>7, <1>10, <1>12 DEF Ticking, TickRead, TickDisable, TickSkip, TickFails, Syncing,
     SyncRead, SyncWrite, SyncRest, Start, Reload
<1>13. ASSUME NEW x \in Instances, Stopping(x)
       PROVE  Goes
  BY <1>9, <1>10, <1>13 DEF Stopping, StopRelease, Stopped, OrphanClaim
<1>14. ASSUME NEW x \in Instances, NEW y \in Jobs, RenewLease(x, y) \/ Toggle(x, y)
       PROVE  Goes
  BY <1>10, <1>14 DEF RenewLease, Toggle, instVars
<1>15. ASSUME PassTime \/ Outage \/ UNCHANGED vars
       PROVE  Goes
  BY <1>10, <1>15 DEF PassTime, Outage, vars, instVars
<1>16. ASSUME NEW x \in Instances
       PROVE  ~Crash(x)
  BY DEF Crash, Fault
<1>17. DispatchAdvance(i, j) \/ Goes
  BY <1>6, <1>8, <1>11, <1>12, <1>13, <1>14, <1>15, <1>16 DEF SchedulerNext, Failing
<1>18. Goes => Alive(i)'
  BY PhasesStay DEF Goes, Advancing
<1> QED BY <1>17, <1>18 DEF Goes, Advancing

LastTerminal(j, s) == Attempted(j, s) /\ runs[j][s][Attempts(j, s)].status \in Terminal

\* A job that points at a slot that was attempted pointed at it before the
\* step, and the step is not the one that moves it on from there.
LEMMA ArmedBefore ==
  ASSUME TypeOK, InstTypeOK, NoSyncs, SlotsPassed, DispatchNows,
         "start" \notin Faults, "reload" \notin Faults, [SchedulerNext]_vars,
         NEW j \in Jobs, NEW s \in Slots, Attempted(j, s), Armed(j, s)'
  PROVE  /\ Armed(j, s)
         /\ \A i \in Instances : disp[i][j].slot = s => ~DispatchAdvance(i, j)
<1>1. s \in Nat /\ s <= clock /\ Passed(j, s)
  BY ConstantsAssumption DEF SlotsPassed, Slots
<1>2. jobs'[j] # Null /\ jobs'[j].enabled /\ jobs'[j].next_run = s
  BY DEF Armed, Exists
<1>3. Exists(j) => jobs[j] \in JobRow
  BY DEF Exists, TypeOK
<1>4. ASSUME NEW i \in Instances, DispatchAdvance(i, j)
      PROVE  Armed(j, s) /\ disp[i][j].slot # s
  <2>1. /\ Exists(j) /\ jobs[j].enabled
        /\ jobs[j].next_run \in Nat => s >= jobs[j].next_run
        /\ disp[i][j].slot <= disp[i][j].now => s > disp[i][j].slot
    BY <1>2, <1>4, AdvanceMoves
  <2>2. disp[i][j].slot \in Nat /\ disp[i][j].slot <= disp[i][j].now
    BY <1>4, ConstantsAssumption DEF DispatchNows, DispatchAdvance, At, InstTypeOK, Dispatches, Slots
  <2>3. PICK m \in Nat : m = jobs[j].next_run /\ s <= m
    BY <1>1, <2>1 DEF Passed
  <2>4. s >= m
    BY <2>1, <2>3
  <2>5. m = s
    BY <1>1, <2>3, <2>4
  <2>6. disp[i][j].slot # s
    <3>1. PICK n \in Nat : n = disp[i][j].slot /\ s > n
      BY <2>1, <2>2
    <3> QED BY <1>1, <3>1
  <2> QED BY <2>1, <2>3, <2>5, <2>6 DEF Armed
<1>5. JobMoves(j)
  BY JobsMove
<1>6. jobs'[j] = jobs[j] => Armed(j, s)
  BY <1>2 DEF Armed, Exists
<1>7. ~(Exists(j) /\ jobs'[j] = [jobs[j] EXCEPT !.enabled = FALSE, !.next_run = Null])
  BY <1>2, <1>3 DEF JobRow
<1>8. ~(Exists(j) /\ jobs'[j] = [jobs[j] EXCEPT !.enabled = TRUE, !.next_run = NextRunUTC[clock]])
  <2>1. PICK t \in 0..MaxTime : t = clock /\ t \in Nat
    BY ConstantsAssumption DEF TypeOK
  <2>2. PICK n \in Nat : n = NextRunUTC[clock] /\ n > t
    BY <2>1, NextRunAssumption
  <2>3. n # s
    BY <1>1, <2>1, <2>2
  <2> QED BY <1>2, <1>3, <2>2, <2>3 DEF JobRow
<1>9. Armed(j, s)
  BY <1>4, <1>5, <1>6, <1>7, <1>8 DEF JobMoves
<1> QED BY <1>4, <1>9

\* A job that points at a slot that ran to the end is about to be moved on.
LeftBehind ==
  \A j \in Jobs, s \in Slots :
    Armed(j, s) /\ LastTerminal(j, s) => \E i \in Instances : Advancing(i, j, s)

\* Every step keeps that.
LEMMA LeftBehindStep ==
  ASSUME "crash" \notin Faults, "dbfail" \notin Faults, "start" \notin Faults,
         "reload" \notin Faults, IndInv, DispatchesAlive, NoSyncs, SlotsPassed, DispatchNows,
         StoppedIdle, LeftBehind, [SchedulerNext]_vars
  PROVE  LeftBehind'
<1>1. TypeOK /\ InstTypeOK /\ TypeOK' /\ InstTypeOK' /\ DispatchesAlive'
  BY NextInd, DispatchesAliveStep DEF IndInv, SchedulerTypeOK, InstTypeOK
<1> SUFFICES ASSUME NEW j \in Jobs, NEW s \in Slots, Armed(j, s)', LastTerminal(j, s)'
             PROVE  \E i \in Instances : Advancing(i, j, s)'
  BY DEF LeftBehind
<1>2. PICK k \in DOMAIN runs'[j][s] : k = Len(runs'[j][s]) /\ runs'[j][s][k].status \in Terminal
  <2>1. runs'[j][s] \in Seq(RunRow) /\ DOMAIN runs'[j][s] # {}
    BY <1>1 DEF TypeOK, LastTerminal, Attempted
  <2>2. Len(runs'[j][s]) \in DOMAIN runs'[j][s]
    BY <2>1
  <2> QED BY <2>2 DEF LastTerminal, Attempts
<1>3. CASE RowKept(j, s, k)
  <2>1. k \in DOMAIN runs[j][s] /\ runs[j][s][k].status \in Terminal
    BY <1>2, <1>3 DEF RowKept, Terminal
  <2>2. Attempted(j, s)
    BY <2>1 DEF Attempted
  <2>3. Armed(j, s) /\ \A i \in Instances : disp[i][j].slot = s => ~DispatchAdvance(i, j)
    BY <1>1, <2>2, ArmedBefore
  <2>4. k = Len(runs[j][s])
    <3>1. runs[j][s] \in Seq(RunRow) /\ runs'[j][s] \in Seq(RunRow)
      BY <1>1 DEF TypeOK
    <3>2. CASE DOMAIN runs'[j][s] = DOMAIN runs[j][s]
      BY <1>2, <3>1, <3>2, SameLength
    <3>3. ASSUME NEW i \in Instances, ClaimsAt(i, j, s)
          PROVE  FALSE
      <4>1. Claim(j, i, s)
        BY <3>3 DEF ClaimsAt
      <4>2. Len(runs'[j][s]) = Len(runs[j][s]) + 1
        BY <1>1, <3>1, <4>1 DEF Claim, TypeOK
      <4>3. PICK m \in Nat : m = Len(runs[j][s]) /\ 1 <= k /\ k <= m /\ k \in Nat
        BY <2>1, <3>1
      <4> QED BY <1>2, <4>2, <4>3
    <3> QED BY <3>2, <3>3, RowsGrow
  <2>5. PICK i \in Instances : Advancing(i, j, s)
    BY <2>1, <2>2, <2>3, <2>4 DEF LeftBehind, LastTerminal, Attempts
  <2>6. ~DispatchAdvance(i, j)
    BY <2>3, <2>5 DEF Advancing
  <2> QED BY <1>1, <2>5, <2>6, AdvancingMoves
<1>4. ASSUME NEW i \in Instances, RowFinished(i, j, s, k)
      PROVE  Advancing(i, j, s)'
  <2>1. DispatchFinish(i, j) /\ disp[i][j].slot = s /\ disp[i][j] \in Dispatches
    BY <1>1, <1>4 DEF RowFinished, InstTypeOK
  <2>2. PICK pc \in {"log", "advance"} : disp'[i][j] = [disp[i][j] EXCEPT !.pc = pc]
    <3>1. disp \in [Instances -> [Jobs -> Dispatches]]
      BY <1>1 DEF InstTypeOK
    <3> QED BY <2>1, <3>1 DEF DispatchFinish, SetPc
  <2>3. disp'[i][j].slot = s /\ disp'[i][j].pc = pc
    BY <2>1, <2>2 DEF Dispatches
  <2> QED BY <1>1, <2>2, <2>3 DEF Advancing, DispatchesAlive
<1>5. ASSUME NEW i \in Instances, RowClaimed(i, j, s, k)
      PROVE  FALSE
  BY <1>2, <1>5 DEF RowClaimed, Terminal
<1> QED BY <1>2, <1>3, <1>4, <1>5, RowMoves

\* A job is never left pointing at a slot that ran to the end with nobody about
\* to advance it, by stops, cancellations, toggles and stalled loops, for any
\* number of instances.  Each of the faults that are excluded can leave it there.
THEOREM FinishedSlotLeftBehind ==
  ASSUME "crash" \notin Faults, "dbfail" \notin Faults, "ignore" \notin Faults,
         "start" \notin Faults, "reload" \notin Faults
  PROVE  SchedulerSpec => []NeverStuck
<1> DEFINE Inv == /\ IndInv /\ DispatchesAlive /\ NoSyncs /\ SlotsPassed
                  /\ DispatchNows /\ StoppedIdle /\ LeftBehind
<1>1. SchedulerInit => Inv
  <2> SUFFICES ASSUME SchedulerInit PROVE Inv
    OBVIOUS
  <2>1. IndInv /\ InstTypeOK /\ TypeOK
    BY InitInd DEF IndInv, SchedulerTypeOK, InstTypeOK
  <2>2. /\ \A i \in Instances : tick[i] = NoTick /\ sync[i] = NoSync /\ orphan[i] = Null
        /\ \A i \in Instances, j \in Jobs : disp[i][j] = NoDisp
        /\ \A j \in Jobs, s \in Slots : runs[j][s] = <<>>
    BY DEF SchedulerInit, Init
  <2>3. \A j \in Jobs, s \in Slots : ~Attempted(j, s)
    BY <2>2 DEF Attempted
  <2>4. DispatchesAlive /\ NoSyncs /\ DispatchNows /\ StoppedIdle
    BY <2>2 DEF DispatchesAlive, NoSyncs, NoSync, DispatchNows, StoppedIdle, NoDisp
  <2>5. SlotsPassed
    BY <2>2, <2>3 DEF SlotsPassed, NoTick
  <2>6. LeftBehind
    BY <2>3 DEF LeftBehind, LastTerminal
  <2> QED BY <2>1, <2>4, <2>5, <2>6
<1>2. Inv /\ [SchedulerNext]_vars => Inv'
  <2> SUFFICES ASSUME Inv, [SchedulerNext]_vars PROVE Inv'
    OBVIOUS
  <2>1. TypeOK /\ InstTypeOK
    BY DEF IndInv, SchedulerTypeOK, InstTypeOK
  <2>2. IndInv' /\ DispatchesAlive' /\ NoSyncs' /\ SlotsPassed'
    BY <2>1, NextInd, DispatchesAliveStep, NoSyncsStep, SlotsPassedStep
  <2>3. DispatchNows' /\ StoppedIdle' /\ LeftBehind'
    BY <2>1, DispatchNowsStep, StoppedIdleStep, LeftBehindStep
  <2> QED BY <2>2, <2>3
<1>3. Inv => NeverStuck
  <2> SUFFICES ASSUME Inv, NEW j \in Jobs, NEW s \in Slots, Armed(j, s),
                      Attempts(j, s) > 0, ~Claimable(j, s), ~LiveRow(j, s)
               PROVE  \E i \in Instances : Advancing(i, j, s)
    BY DEF NeverStuck, Advancing
  <2>1. runs[j][s] \in Seq(RunRow)
    BY DEF IndInv, SchedulerTypeOK, TypeOK
  <2>2. runs[j][s][Attempts(j, s)].status \in Terminal /\ DOMAIN runs[j][s] # {}
    <3>1. runs[j][s] # <<>> /\ runs[j][s][Attempts(j, s)].status \in Terminal
      BY DEF Claimable
    <3>2. PICK n \in Nat : n = Attempts(j, s) /\ n > 0 /\ DOMAIN runs[j][s] = 1..n
      BY <2>1 DEF Attempts
    <3>3. 1 \in 1..n
      BY <3>2
    <3> QED BY <3>1, <3>2, <3>3
  <2> QED BY <2>2 DEF LeftBehind, LastTerminal, Attempted
<1> QED BY <1>1, <1>2, <1>3, PTL DEF SchedulerSpec

=============================================================================
