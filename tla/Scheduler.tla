----------------------------- MODULE Scheduler -----------------------------
(***************************************************************************)
(* SchedulerService (src/cecli/helpers/scheduler/service.py): any number   *)
(* of cecli instances, each ticking on its own event loop, claim due slots *)
(* from the shared SchedulerDB, run the workflow, renew the lease while it *)
(* runs, record the outcome and advance the job.                           *)
(*                                                                         *)
(* Each database call is a transaction run on a worker thread and awaited, *)
(* so other coroutines and other instances act between any two of them:    *)
(* every action below contains at most one call.  What may go wrong in a   *)
(* run is the constant Faults:                                             *)
(*   "crash"   a process dies at any step                                  *)
(*   "stall"   a loop stalls (or the laptop sleeps) beyond a lease         *)
(*   "dbfail"  a write fails: locked for longer than busy_timeout          *)
(*   "outage"  two renewals of a lease in a row fail                       *)
(*   "cancel"  the user cancels a running workflow                         *)
(*   "stop"    a service is stopped (exit, /reload)                        *)
(*   "inflight" ... while its tick is inside try_acquire                   *)
(*   "ignore"  a cancelled workflow outlives stop()'s grace period         *)
(*   "start"   a service starts after Init                                 *)
(*   "reload"  /workflows reload synchronises the definitions again        *)
(*   "toggle"  /workflows enable and disable                               *)
(***************************************************************************)
EXTENDS SchedulerDB, CatchUp, FiniteSets

CONSTANTS
  Config,      \* Config[i]: the workflow names in instance i's YAML
  Hash,        \* Hash[i]: the definition hash its workflows have
  CatchUpOn,   \* the catch_up option
  MaxCatchup,  \* the max_catchup option
  Running,     \* the instances that are up, and in sync, in the first state
  Faults,      \* what may go wrong
  MaxFaults    \* bound: how many times something does

ASSUME SchedulerAssumption ==
  /\ Config \in [Instances -> SUBSET Jobs]
  /\ Hash \in [Instances -> Hashes]
  /\ CatchUpOn \in BOOLEAN
  /\ MaxCatchup \in Nat
  /\ Running \subseteq Instances
  /\ MaxFaults \in Nat

VARIABLES
  phase,   \* life cycle of the instance's service
  tick,    \* _tick: its now and the due jobs it has still to look at
  disp,    \* _active and _held_leases: the dispatch of each job
  sync,    \* the sync_definitions call in progress
  held,    \* stop()'s snapshot of the claims it still has to release
  orphan,  \* an acquire whose caller was cancelled, still in its thread
  faults   \* faults so far

instVars == <<phase, tick, disp, sync, held, orphan>>
vars == <<dbVars, instVars, faults>>

Phases == {"off", "starting", "up", "stopping", "stopped", "dead"}
Pcs == {"none", "created", "run", "finish", "handle", "log", "advance"}
Results == {"ok", "error", "aborted"}

Claims == [job : Jobs, slot : Slots]
Leases == [job : Jobs, slot : Slots, attempt : Nat]

Ticks == [now : Slots, due : SUBSET Claims]
Syncs == [pc : {"idle", "read", "write"}, todo : SUBSET Jobs, job : Jobs \cup {Null},
          next : Times]
Dispatches == [pc : Pcs, slot : Slots, attempt : Nat, now : Slots, result : Results,
               renew : BOOLEAN]

NoTick == [now |-> 0, due |-> {}]
NoSync == [pc |-> "idle", todo |-> {}, job |-> Null, next |-> Null]
NoDisp == [pc |-> "none", slot |-> 0, attempt |-> 0, now |-> 0,
           result |-> "ok", renew |-> FALSE]

SchedulerTypeOK ==
  /\ TypeOK
  /\ phase \in [Instances -> Phases]
  /\ tick \in [Instances -> Ticks]
  /\ disp \in [Instances -> [Jobs -> Dispatches]]
  /\ sync \in [Instances -> Syncs]
  /\ held \in [Instances -> SUBSET Leases]
  /\ orphan \in [Instances -> Claims \cup {Null}]
  /\ faults \in 0..MaxFaults

\* The instances in Running have gone through start() at time 0: the jobs of
\* all of them are armed and nothing has run yet.
SchedulerInit ==
  /\ jobs = [j \in Jobs |->
               IF \E i \in Running : j \in Config[i]
               THEN [hash |-> Hash[CHOOSE i \in Running : j \in Config[i]],
                     enabled |-> TRUE, next_run |-> NextRun[0]]
               ELSE Null]
  /\ runs = [j \in Jobs |-> [s \in Slots |-> <<>>]]
  /\ clock = 0
  /\ phase = [i \in Instances |-> IF i \in Running THEN "up" ELSE "off"]
  /\ tick = [i \in Instances |-> NoTick]
  /\ disp = [i \in Instances |-> [j \in Jobs |-> NoDisp]]
  /\ sync = [i \in Instances |-> NoSync]
  /\ held = [i \in Instances |-> {}]
  /\ orphan = [i \in Instances |-> Null]
  /\ faults = 0

Fault(f) ==
  /\ f \in Faults
  /\ faults < MaxFaults
  /\ faults' = faults + 1

Alive(i) == phase[i] \in {"starting", "up", "stopping", "stopped"}

SetPc(i, j, pc) == disp' = [disp EXCEPT ![i][j] = [@ EXCEPT !.pc = pc]]

-----------------------------------------------------------------------------
(* start() and sync_definitions.                                           *)

Start(i) ==
  /\ phase[i] = "off"
  /\ Fault("start")
  /\ Initialize
  /\ phase' = [phase EXCEPT ![i] = "starting"]
  /\ sync' = [sync EXCEPT ![i] = [NoSync EXCEPT !.pc = "read", !.todo = Config[i]]]
  /\ UNCHANGED <<tick, disp, held, orphan>>

\* /workflows reload, /reload: another sync_definitions task, beside the ticks.
Reload(i) ==
  /\ phase[i] = "up"
  /\ sync[i].pc = "idle"
  /\ Fault("reload")
  /\ sync' = [sync EXCEPT ![i] = [NoSync EXCEPT !.pc = "read", !.todo = Config[i]]]
  /\ UNCHANGED <<dbVars, phase, tick, disp, held, orphan>>

\* The SELECT of _sync_definitions, outside any transaction.  The row's
\* next_run is kept if the definition has not changed.
SyncRead(i, j) ==
  /\ Alive(i)
  /\ sync[i].pc = "read"
  /\ j \in sync[i].todo
  /\ LET next == IF Exists(j) /\ jobs[j].hash = Hash[i] THEN jobs[j].next_run
                 ELSE NextRun[clock]
     IN  sync' = [sync EXCEPT ![i] = [@ EXCEPT !.pc = "write", !.job = j, !.next = next]]
  /\ UNCHANGED <<dbVars, phase, tick, disp, held, orphan, faults>>

\* ... and the _upsert_definition that writes back what was read.
SyncWrite(i) ==
  /\ Alive(i)
  /\ sync[i].pc = "write"
  /\ Upsert(sync[i].job, Hash[i], sync[i].next)
  /\ sync' = [sync EXCEPT ![i] = [NoSync EXCEPT !.pc = "read",
                                             !.todo = sync[i].todo \ {sync[i].job}]]
  /\ UNCHANGED <<phase, tick, disp, held, orphan, faults>>

\* Last, whatever the mapping does not name is disabled; start() then ticks.
SyncRest(i) ==
  /\ Alive(i)
  /\ sync[i].pc = "read"
  /\ sync[i].todo = {}
  /\ DisableOthers(Config[i])
  /\ sync' = [sync EXCEPT ![i] = NoSync]
  /\ phase' = IF phase[i] = "starting" THEN [phase EXCEPT ![i] = "up"] ELSE phase
  /\ UNCHANGED <<tick, disp, held, orphan, faults>>

-----------------------------------------------------------------------------
(* _tick.                                                                  *)

\* due_definitions: a snapshot, and what follows acts on it.
TickRead(i) ==
  /\ phase[i] = "up"
  /\ tick[i].due = {}
  /\ DueDefinitions # {}
  /\ tick' = [tick EXCEPT ![i] =
                [now |-> clock,
                 due |-> {[job |-> j, slot |-> jobs[j].next_run] : j \in DueDefinitions}]]
  /\ UNCHANGED <<dbVars, phase, disp, sync, held, orphan, faults>>

\* The due jobs in ORDER BY next_run order.
NextDue(i, d) ==
  /\ d \in tick[i].due
  /\ \A e \in tick[i].due : d.slot <= e.slot

Done(i, d) ==
  LET rest == tick[i].due \ {d}
  IN  tick' = [tick EXCEPT ![i] = IF rest = {} THEN NoTick ELSE [@ EXCEPT !.due = rest]]

\* wf is None: the name is not among this instance's workflows.
TickDisable(i, d) ==
  /\ phase[i] = "up"
  /\ NextDue(i, d)
  /\ d.job \notin Config[i]
  /\ Disable(d.job)
  /\ Done(i, d)
  /\ UNCHANGED <<phase, disp, sync, held, orphan, faults>>

\* name in self._active, or try_acquire returned None.
TickSkip(i, d) ==
  /\ phase[i] = "up"
  /\ NextDue(i, d)
  /\ d.job \in Config[i]
  /\ disp[i][d.job].pc # "none" \/ ~Claimable(d.job, d.slot)
  /\ Done(i, d)
  /\ UNCHANGED <<dbVars, phase, disp, sync, held, orphan, faults>>

\* try_acquire won: record the lease and create the dispatch task.
TickClaim(i, d) ==
  /\ phase[i] = "up"
  /\ NextDue(i, d)
  /\ d.job \in Config[i]
  /\ disp[i][d.job].pc = "none"
  /\ Claim(d.job, i, d.slot)
  /\ disp' = [disp EXCEPT ![i][d.job] =
                [pc |-> "created", slot |-> d.slot, attempt |-> Attempts(d.job, d.slot) + 1,
                 now |-> tick[i].now, result |-> "ok", renew |-> FALSE]]
  /\ Done(i, d)
  /\ UNCHANGED <<phase, sync, held, orphan, faults>>

\* A failing call ends the tick: _loop logs it and sleeps.
TickFails(i) ==
  /\ phase[i] = "up"
  /\ tick[i].due # {}
  /\ Fault("dbfail")
  /\ tick' = [tick EXCEPT ![i] = NoTick]
  /\ UNCHANGED <<dbVars, phase, disp, sync, held, orphan>>

-----------------------------------------------------------------------------
(* _dispatch.                                                              *)

\* A dispatch task of a live process makes progress, also one that stop()
\* abandoned.
At(i, j, pc) == Alive(i) /\ disp[i][j].pc = pc

DispatchStart(i, j) ==
  /\ At(i, j, "created")
  /\ disp' = [disp EXCEPT ![i][j] = [@ EXCEPT !.pc = "run", !.renew = TRUE]]
  /\ UNCHANGED <<dbVars, phase, tick, sync, held, orphan, faults>>

\* execute_workflow never raises: it returns a result of some status.
WorkflowEnds(i, j) ==
  /\ At(i, j, "run")
  /\ \E result \in {"ok", "error"} :
       disp' = [disp EXCEPT ![i][j] = [@ EXCEPT !.pc = "finish", !.result = result]]
  /\ UNCHANGED <<dbVars, phase, tick, sync, held, orphan, faults>>

\* Broken variant of WorkflowCancelled: the dispatch ends without finishing.
WorkflowCancelledUnrecorded(i, j) ==
  /\ At(i, j, "run")
  /\ Fault("cancel")
  /\ disp' = [disp EXCEPT ![i][j] = NoDisp]
  /\ UNCHANGED <<dbVars, phase, tick, sync, held, orphan>>

\* The user cancels the workflow's sub-agent: _await_run reports 'aborted'.
WorkflowCancelled(i, j) ==
  /\ At(i, j, "run")
  /\ Fault("cancel")
  /\ disp' = [disp EXCEPT ![i][j] = [@ EXCEPT !.pc = "finish", !.result = "aborted"]]
  /\ UNCHANGED <<dbVars, phase, tick, sync, held, orphan>>

\* db.finish, in the body ("finish") or in an except clause ("handle").
DispatchFinish(i, j) ==
  /\ \/ At(i, j, "finish") /\ SetPc(i, j, "log")
     \/ At(i, j, "handle") /\ SetPc(i, j, "advance")
  /\ LET d == disp[i][j] IN Finish(j, d.slot, d.attempt, d.result)
  /\ UNCHANGED <<phase, tick, sync, held, orphan, faults>>

\* db.finish raised: the except clause tries to record an error; if that
\* raises too the finally clause runs and the row is left as it is.
FinishFails(i, j) ==
  /\ \/ /\ At(i, j, "finish")
        /\ disp' = [disp EXCEPT ![i][j] = [@ EXCEPT !.pc = "handle", !.result = "error"]]
     \/ /\ At(i, j, "handle")
        /\ SetPc(i, j, "advance")
  /\ Fault("dbfail")
  /\ UNCHANGED <<dbVars, phase, tick, sync, held, orphan>>

\* _log_tasks is over; finally: the renewal is cancelled, the lease not held.
DispatchLogged(i, j) ==
  /\ At(i, j, "log")
  /\ SetPc(i, j, "advance")
  /\ UNCHANGED <<dbVars, phase, tick, sync, held, orphan, faults>>

DispatchAdvance(i, j) ==
  /\ At(i, j, "advance")
  /\ LET d == disp[i][j]
     IN  Advance(j, Successor(NextRun, CatchUpOn, MaxCatchup, d.slot, d.now))
  /\ disp' = [disp EXCEPT ![i][j] = NoDisp]
  /\ UNCHANGED <<phase, tick, sync, held, orphan, faults>>

\* db.advance raised: the task ends and next_run stays where it was.
AdvanceFails(i, j) ==
  /\ At(i, j, "advance")
  /\ Fault("dbfail")
  /\ disp' = [disp EXCEPT ![i][j] = NoDisp]
  /\ UNCHANGED <<dbVars, phase, tick, sync, held, orphan>>

\* The renewal task, alive from the start of the dispatch to its finally.
Renewing(i, j) ==
  /\ Alive(i)
  /\ disp[i][j].renew
  /\ disp[i][j].pc \in {"run", "finish", "handle", "log"}

\* A renewal whose write fails is logged and skipped: it changes nothing, and
\* the next one is a third of a lease later (see KeptUp and Outage).
RenewLease(i, j) ==
  /\ Renewing(i, j)
  /\ LET d == disp[i][j]
     IN  /\ Renew(j, d.slot, d.attempt, i)
         /\ runs[j][d.slot][d.attempt].expires # clock + LeaseTimeout  \* else a stutter
  /\ UNCHANGED <<instVars, faults>>

\* renew() updated no row: the lease was stolen or the row ended.  The
\* renewal stops; the workflow is not told.
RenewalStops(i, j) ==
  /\ Renewing(i, j)
  /\ LET d == disp[i][j] IN ~Renewable(j, d.slot, d.attempt, i)
  /\ disp' = [disp EXCEPT ![i][j] = [@ EXCEPT !.renew = FALSE]]
  /\ UNCHANGED <<dbVars, phase, tick, sync, held, orphan, faults>>

-----------------------------------------------------------------------------
(* stop(), crashes, commands, time.                                        *)

\* Broken variant of HeldLeases: the claim is recorded by the task itself.
HeldLeasesOfStarted(i) ==
  {[job |-> j, slot |-> disp[i][j].slot, attempt |-> disp[i][j].attempt] :
     j \in {x \in Jobs : disp[i][x].pc \in {"run", "finish", "handle", "log"}}}

HeldLeases(i) ==
  {[job |-> j, slot |-> disp[i][j].slot, attempt |-> disp[i][j].attempt] :
     j \in {x \in Jobs : disp[i][x].pc \in {"created", "run", "finish", "handle", "log"}}}

\* What task.cancel() does to a dispatch, by the await it is parked at: one
\* that never started just ends; a running workflow comes back as 'aborted';
\* the logging of a finished run is taken for a cancelled run; a database
\* call goes on in its thread.  Of that only the write is kept: the task goes
\* from db.finish to its except clause, whose second write finds the row ended
\* (after a first that fails it writes "aborted" where FinishFails has
\* "error", both terminal); from db.advance, or from the except clause, it
\* goes to its end, a little before the write instead of after it.
Cancelled(d) ==
  CASE d.pc = "created" -> NoDisp
    [] d.pc = "run"     -> [d EXCEPT !.pc = "finish", !.result = "aborted"]
    [] d.pc = "log"     -> [d EXCEPT !.pc = "handle", !.result = "aborted"]
    [] OTHER            -> d

\* stop() snapshots the claims, cancels the tick and every dispatch.  A tick
\* cancelled inside try_acquire leaves the call running in its thread.
Stop(i) ==
  /\ phase[i] = "up"
  /\ Fault("stop")
  /\ phase' = [phase EXCEPT ![i] = "stopping"]
  /\ held' = [held EXCEPT ![i] = HeldLeases(i)]
  /\ \/ orphan' = orphan
     \/ /\ "inflight" \in Faults
        /\ \E d \in tick[i].due :
             /\ NextDue(i, d)
             /\ d.job \in Config[i]
             /\ disp[i][d.job].pc = "none"
             /\ orphan' = [orphan EXCEPT ![i] = d]
  /\ tick' = [tick EXCEPT ![i] = NoTick]
  /\ \E ignoring \in SUBSET {j \in Jobs : "ignore" \in Faults /\ disp[i][j].pc = "run"} :
       disp' = [disp EXCEPT ![i] =
                  [j \in Jobs |-> IF j \in ignoring THEN disp[i][j] ELSE Cancelled(disp[i][j])]]
  /\ UNCHANGED <<dbVars, sync>>

\* The cancelled tasks have ended, or the grace period has.
Unwound(i) == "ignore" \in Faults \/ \A j \in Jobs : disp[i][j].pc = "none"

StopRelease(i, l) ==
  /\ phase[i] = "stopping"
  /\ Unwound(i)
  /\ l \in held[i]
  /\ Release(l.job, l.slot, l.attempt, i)
  /\ held' = [held EXCEPT ![i] = @ \ {l}]
  /\ UNCHANGED <<phase, tick, disp, sync, orphan, faults>>

Stopped(i) ==
  /\ phase[i] = "stopping"
  /\ Unwound(i)
  /\ held[i] = {}
  /\ phase' = [phase EXCEPT ![i] = "stopped"]
  /\ UNCHANGED <<dbVars, tick, disp, sync, held, orphan, faults>>

\* The thread of the cancelled acquire: the claim is made, nobody learns of it.
OrphanClaim(i) ==
  /\ Alive(i)
  /\ orphan[i] # Null
  /\ IF Claimable(orphan[i].job, orphan[i].slot)
     THEN Claim(orphan[i].job, i, orphan[i].slot)
     ELSE UNCHANGED dbVars
  /\ orphan' = [orphan EXCEPT ![i] = Null]
  /\ UNCHANGED <<phase, tick, disp, sync, held, faults>>

Gone(i) ==
  /\ phase' = [phase EXCEPT ![i] = "dead"]
  /\ tick' = [tick EXCEPT ![i] = NoTick]
  /\ disp' = [disp EXCEPT ![i] = [j \in Jobs |-> NoDisp]]
  /\ sync' = [sync EXCEPT ![i] = NoSync]
  /\ held' = [held EXCEPT ![i] = {}]
  /\ orphan' = [orphan EXCEPT ![i] = Null]
  /\ UNCHANGED dbVars

\* Interpreter exit after stop() waits for the worker threads.
Exit(i) ==
  /\ phase[i] = "stopped"
  /\ orphan[i] = Null /\ sync[i].pc = "idle"
  /\ Gone(i)
  /\ UNCHANGED faults

\* Bound: a crash leaves enough of the horizon for its lease to run out.
Crash(i) ==
  /\ phase[i] \in {"starting", "up", "stopping"}
  /\ clock + LeaseTimeout < MaxTime
  /\ Fault("crash")
  /\ Gone(i)

\* /workflows disable and /workflows enable, in some running session.
Toggle(i, j) ==
  /\ phase[i] = "up"
  /\ j \in Config[i]
  /\ Disable(j) \/ Enable(j)
  /\ Fault("toggle")
  /\ UNCHANGED instVars

\* A lease is renewed every third of its length (max(5 s, ...): leases are
\* taken to be of 15 s at least).  One renewal may fail: the next is in time.
\* So unless the loop stalls, or two renewals in a row fail, time does not
\* reach the expiry of a live lease that a dispatch is keeping up.
KeptUp(i, j) ==
  LET d == disp[i][j]
  IN  /\ Alive(i) /\ d.pc \in {"created", "run", "finish", "handle", "log"}
      /\ Renewable(j, d.slot, d.attempt, i)
      /\ Live(runs[j][d.slot][d.attempt])
      => runs[j][d.slot][d.attempt].expires > clock + 1

PassTime ==
  /\ "stall" \in Faults \/ \A i \in Instances, j \in Jobs : KeptUp(i, j)
  /\ Elapse
  /\ UNCHANGED <<instVars, faults>>

\* The database is locked through two renewals in a row of every lease that
\* time now outruns; the renewal loops go on.
Outage ==
  /\ \E i \in Instances, j \in Jobs : ~KeptUp(i, j)
  /\ \A i \in Instances, j \in Jobs : KeptUp(i, j) \/ Renewing(i, j)
  /\ Fault("outage")
  /\ Elapse
  /\ UNCHANGED instVars

-----------------------------------------------------------------------------

Ticking(i) ==
  \/ TickRead(i)
  \/ \E d \in tick[i].due : TickDisable(i, d) \/ TickSkip(i, d) \/ TickClaim(i, d)

Dispatching(i, j) ==
  \/ DispatchStart(i, j) \/ WorkflowEnds(i, j) \/ DispatchFinish(i, j)
  \/ DispatchLogged(i, j) \/ DispatchAdvance(i, j)

Syncing(i) == (\E j \in Jobs : SyncRead(i, j)) \/ SyncWrite(i) \/ SyncRest(i)

Stopping(i) == (\E l \in held[i] : StopRelease(i, l)) \/ Stopped(i) \/ OrphanClaim(i) \/ Exit(i)

Failing(i) ==
  \/ Start(i) \/ Reload(i) \/ Stop(i) \/ Crash(i) \/ TickFails(i)
  \/ \E j \in Jobs : 
       WorkflowCancelled(i, j) \/ FinishFails(i, j) \/ AdvanceFails(i, j) \/ Toggle(i, j)

SchedulerNext ==
  \/ \E i \in Instances : Ticking(i) \/ Syncing(i) \/ Stopping(i) \/ Failing(i)
  \/ \E i \in Instances, j \in Jobs :
       Dispatching(i, j) \/ RenewLease(i, j) \/ RenewalStops(i, j)
  \/ PassTime \/ Outage

SchedulerSpec == SchedulerInit /\ [][SchedulerNext]_vars

\* What the event loops, the worker threads and the clock guarantee.  A
\* workflow is assumed to end (_await_run sets no limit on it); starts,
\* stops, crashes, toggles and failures are never owed.
Fairness ==
  /\ \A i \in Instances :
       WF_vars(Ticking(i)) /\ WF_vars(Syncing(i)) /\ WF_vars(Stopping(i))
  /\ \A i \in Instances, j \in Jobs :
       WF_vars(Dispatching(i, j)) /\ WF_vars(RenewLease(i, j) \/ RenewalStops(i, j))
  /\ WF_vars(PassTime)

FairSpec == SchedulerSpec /\ Fairness

-----------------------------------------------------------------------------
(* Properties.                                                             *)

Armed(j, s) == Exists(j) /\ jobs[j].enabled /\ jobs[j].next_run = s

EndedWith(j, s, statuses) == \E k \in DOMAIN runs[j][s] : runs[j][s][k].status \in statuses

\* "a scheduled job never runs twice" (scheduler/__init__.py): no two
\* instances are inside execute_workflow for the same slot.
AtMostOneExecuting ==
  \A i, h \in Instances, j \in Jobs :
    /\ disp[i][j].pc = "run" /\ disp[h][j].pc = "run"
    /\ disp[i][j].slot = disp[h][j].slot
    => i = h

\* A job is not left pointing at a slot that already ran to the end with
\* nobody about to advance it: try_acquire refuses such a slot for good, so
\* the job would never run again.
NeverStuck ==
  \A j \in Jobs, s \in Slots :
    Armed(j, s) /\ Attempts(j, s) > 0 /\ ~Claimable(j, s) /\ ~LiveRow(j, s)
    => \E i \in Instances :
         Alive(i) /\ disp[i][j].slot = s /\ disp[i][j].pc \in {"log", "advance", "handle"}

\* Every running row of a service that is up is the row of its dispatch of
\* that job, so stop() has it to release: no claim is lost between the
\* acquire, the dispatch and the finish.
ClaimIsDispatched ==
  \A j \in Jobs, s \in Slots : \A k \in DOMAIN runs[j][s] :
    LET row == runs[j][s][k]
        d   == disp[row.instance][j]
    IN  row.status = "running" /\ phase[row.instance] = "up"
        => d.pc # "none" /\ d.slot = s /\ d.attempt = k

\* "releasing held leases" (stop): a stopped service holds no live lease.
StopLeavesNoLease ==
  \A j \in Jobs, s \in Slots : \A k \in DOMAIN runs[j][s] :
    Live(runs[j][s][k]) => phase[runs[j][s][k].instance] # "stopped"

\* Once a slot has an attempt that ran to a terminal status, no attempt is
\* added ("never re-run it", _try_acquire; scheduler.md says the same).
TerminalNeverRerun ==
  [][\A j \in Jobs, s \in Slots :
       EndedWith(j, s, Terminal) => Len(runs'[j][s]) = Len(runs[j][s])]_vars

\* "a slow instance finishing an old slot can never drag next_run backwards"
\* (scheduler.md): while its definition is neither disabled nor enabled, a
\* job's next_run only grows.
NextRunNeverRegresses ==
  [][\A j \in Jobs :
       Exists(j) /\ jobs[j].enabled /\ jobs[j].next_run # Null
       /\ jobs'[j].enabled /\ jobs'[j].next_run # Null
       => jobs'[j].next_run >= jobs[j].next_run]_vars

\* An enabled job with a schedule has a slot to run at: disabling clears
\* next_run, and "the job [would be] permanently dead" (_enable) if enabling
\* it again did not seed it.
EnabledIsArmed ==
  \A j \in Jobs : Exists(j) /\ jobs[j].enabled => jobs[j].next_run # Null

\* As long as nothing fails every due slot is eventually passed: some instance
\* claims it, runs it and moves the job on.
QuietSlotPasses ==
  \A j \in Jobs, s \in Slots : Armed(j, s) /\ s <= clock ~> ~Armed(j, s) \/ faults > 0

\* Every due slot is eventually passed: the job is never wedged on it.
DueSlotPasses ==
  \A j \in Jobs, s \in Slots : Armed(j, s) /\ s <= clock ~> ~Armed(j, s)

\* A slot whose owner crashed is retried by a survivor: a due slot no attempt
\* of which has run to the end gets one that has.
CrashedSlotRetried ==
  \A j \in Jobs, s \in Slots :
    Armed(j, s) /\ s <= clock ~> ~Armed(j, s) \/ EndedWith(j, s, Terminal)

=============================================================================
