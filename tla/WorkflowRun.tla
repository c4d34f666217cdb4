---------------------------- MODULE WorkflowRun ----------------------------
(***************************************************************************)
(* The runs of one workflow: src/cecli/helpers/workflows/runner.py, with   *)
(* what of the agents service and of the worker's drain it goes by.        *)
(*                                                                         *)
(* A run is a call of execute_workflow: by the scheduler or by /workflows  *)
(* run, which may overlap.  It takes a worker, stages the tasks behind the *)
(* first on the worker's queue, starts the first, awaits the generate()    *)
(* task and concludes what became of each task from its outcome and from   *)
(* the number of prompts left.  A generate() task is named by its run.     *)
(***************************************************************************)
EXTENDS Integers, Sequences

CONSTANTS
  Runs,
  Null,
  Tasks,            \* the number of tasks of the workflow
  Disturbances,     \* what may happen, among DisturbanceNames
  MaxDisturbances   \* bound: how often

DisturbanceNames == {"cancel", "error", "spawn fails", "queued error", "hook", "interrupt", "rebuild"}
Indices == 1..Tasks
Items == Runs \X Indices
Ended == {"ok", "error", "aborted"}

ASSUME RunAssumption ==
  /\ Tasks \in Nat \ {0}
  /\ Disturbances \subseteq DisturbanceNames
  /\ MaxDisturbances \in Nat
  /\ Null \notin Runs

VARIABLES
  persist, stops,   \* the definition: persist, and which failing task stops the rest
  \* runs
  phase, worker, awaited, late, result,
  \* workers, named by the run that spawned them
  newest,           \* the last one kept for reuse
  generating,       \* info.generate_task
  queue,            \* worker.prompt_queue
  rebuilt,          \* runs whose worker has another coder by now
  \* generate() tasks
  step, at, cancelled,
  \* history
  completed,        \* prompts processed to completion
  swallowed,        \* queued prompts that raised, which the drain skipped over
  cutShort,         \* runs whose task returned although prompts were left
  contended,        \* runs begun on a worker before another's run of it was concluded, and that other
  disturbed

runVars == <<phase, worker, awaited, late, result>>
workerVars == <<newest, generating, queue, rebuilt>>
taskVars == <<step, at, cancelled>>
historyVars == <<completed, swallowed, cutShort>>
vars == <<persist, stops, runVars, workerVars, taskVars, historyVars, contended, disturbed>>

Phases == {"idle", "spawning", "waiting", "awaiting", "done", "raised"}
Steps == {"none", "created", "working", "queued"} \cup Ended
Results == [status : Ended, tasks : [Indices -> Ended \cup {"skipped"}]]

RunTypeOK ==
  /\ persist \in BOOLEAN /\ stops \in [Indices -> BOOLEAN]
  /\ phase \in [Runs -> Phases]
  /\ worker \in [Runs -> Runs \cup {Null}]
  /\ awaited \in [Runs -> Runs \cup {Null}]
  /\ late \subseteq Runs
  /\ result \in [Runs -> Results \cup {Null}]
  /\ newest \in Runs \cup {Null}
  /\ generating \in [Runs -> Runs \cup {Null}]
  /\ queue \in [Runs -> Seq(Items)]
  /\ rebuilt \subseteq Runs
  /\ step \in [Runs -> Steps]
  /\ at \in [Runs -> Items \cup {Null}]
  /\ cancelled \subseteq Runs
  /\ completed \subseteq Items
  /\ swallowed \subseteq Items
  /\ cutShort \subseteq Runs
  /\ contended \subseteq Runs
  /\ disturbed \in Nat

Init ==
  /\ persist \in BOOLEAN /\ stops \in [Indices -> BOOLEAN]
  /\ phase = [r \in Runs |-> "idle"]
  /\ worker = [r \in Runs |-> Null]
  /\ awaited = [r \in Runs |-> Null]
  /\ late = {}
  /\ result = [r \in Runs |-> Null]
  /\ newest = Null
  /\ generating = [w \in Runs |-> Null]
  /\ queue = [w \in Runs |-> <<>>]
  /\ rebuilt = {}
  /\ step = [r \in Runs |-> "none"]
  /\ at = [r \in Runs |-> Null]
  /\ cancelled = {}
  /\ completed = {}
  /\ swallowed = {}
  /\ cutShort = {}
  /\ contended = {}
  /\ disturbed = 0

Disturb(name) ==
  /\ name \in Disturbances
  /\ disturbed < MaxDisturbances
  /\ disturbed' = disturbed + 1

Active(r) == step[r] \in {"created", "working", "queued"}

-----------------------------------------------------------------------------
(* Runs.                                                                   *)

Staged(r) == [i \in 1..(Tasks - 1) |-> <<r, i + 1>>]

\* Other runs that have not yet concluded what became of their tasks on this worker.
Unconcluded(r, w) == {q \in Runs \ {r} : phase[q] = "awaiting" /\ worker[q] = w}

Contend(r, w) ==
  contended' = IF Unconcluded(r, w) = {} THEN contended ELSE contended \cup Unconcluded(r, w) \cup {r}

\* Broken variant of Stage: the worker is not reset.
StageBehind(r, w) ==
  /\ phase' = [phase EXCEPT ![r] = "awaiting"]
  /\ worker' = [worker EXCEPT ![r] = w]
  /\ queue' = [queue EXCEPT ![w] = @ \o Staged(r)]
  /\ cancelled' = cancelled \cup {x \in Runs : x = generating[w] /\ Active(x)}
  /\ generating' = [generating EXCEPT ![w] = r]
  /\ step' = [step EXCEPT ![r] = "created"]
  /\ at' = [at EXCEPT ![r] = <<r, 1>>]
  /\ Contend(r, w)

\* The worker is reset, the tasks behind the first are staged, and the first is
\* started in a task of its own, which cancels the one before.
Stage(r, w) ==
  /\ phase' = [phase EXCEPT ![r] = "awaiting"]
  /\ worker' = [worker EXCEPT ![r] = w]
  /\ queue' = [queue EXCEPT ![w] = Staged(r)]
  /\ cancelled' = cancelled \cup {x \in Runs : x = generating[w] /\ Active(x)}
  /\ generating' = [generating EXCEPT ![w] = r]
  /\ step' = [step EXCEPT ![r] = "created"]
  /\ at' = [at EXCEPT ![r] = <<r, 1>>]
  /\ Contend(r, w)

Busy(w) == \E x \in Runs : x = generating[w] /\ Active(x)

\* execute_workflow up to its first await.
Begin(r) ==
  /\ phase[r] = "idle"
  /\ IF persist /\ newest # Null
     THEN IF Busy(newest)
          THEN /\ phase' = [phase EXCEPT ![r] = "waiting"]
               /\ worker' = [worker EXCEPT ![r] = newest]
               /\ awaited' = [awaited EXCEPT ![r] = generating[newest]]
               /\ UNCHANGED <<generating, queue, taskVars, contended>>
          ELSE Stage(r, newest) /\ UNCHANGED awaited
     ELSE /\ phase' = [phase EXCEPT ![r] = "spawning"]
          /\ UNCHANGED <<worker, awaited, generating, queue, taskVars, contended>>
  /\ UNCHANGED <<persist, stops, late, result, newest, rebuilt, historyVars, disturbed>>

\* The worker is there.
Spawned(r) ==
  /\ phase[r] = "spawning"
  /\ newest' = IF persist THEN r ELSE newest
  /\ Stage(r, r)
  /\ UNCHANGED <<persist, stops, awaited, late, result, rebuilt, historyVars, disturbed>>

\* It is not: the limit, or an error.
SpawnFails(r) ==
  /\ Disturb("spawn fails")
  /\ phase[r] = "spawning"
  /\ phase' = [phase EXCEPT ![r] = "done"]
  /\ UNCHANGED <<persist, stops, worker, awaited, late, result, workerVars, taskVars, historyVars, contended>>

\* Broken variant of Resume: it waits for a run before that ends well.
ResumeAfterSuccess(r) ==
  /\ phase[r] = "waiting"
  /\ step[awaited[r]] = "ok" /\ phase[awaited[r]] # "awaiting"
  /\ Stage(r, worker[r])
  /\ UNCHANGED <<persist, stops, awaited, late, result, newest, rebuilt, historyVars, disturbed>>

\* The run before has ended, however; it heard of that first.
Resume(r) ==
  /\ phase[r] = "waiting"
  /\ step[awaited[r]] \in Ended /\ phase[awaited[r]] # "awaiting"
  /\ Stage(r, worker[r])
  /\ UNCHANGED <<persist, stops, awaited, late, result, newest, rebuilt, historyVars, disturbed>>

\* Broken variant of FailingIndex: the task behind the one that ended the run.
FailingIndexNext(executed) == IF executed + 2 <= Tasks THEN executed + 2 ELSE Tasks

\* _failing_index, counted from one: executed is how many prompts of the tail
\* have been taken.
FailingIndex(executed) ==
  IF executed < 0 THEN 1 ELSE IF executed + 1 <= Tasks THEN executed + 1 ELSE Tasks

\* _task_results.
TaskResults(outcome, failing) ==
  [i \in Indices |-> IF outcome = "ok" \/ i < failing THEN "ok"
                     ELSE IF i = failing THEN outcome ELSE "skipped"]

\* The prompts left at the coder the run was begun with.
Pending(r) == IF r \in rebuilt THEN <<>> ELSE queue[worker[r]]

\* The generate() task is over: the outcome, the results, and the rest of the queue.
Conclude(r) ==
  /\ phase[r] = "awaiting"
  /\ step[r] \in Ended
  /\ LET outcome == IF r \in late THEN "aborted" ELSE step[r]
         failing == FailingIndex(Tasks - 1 - Len(Pending(r)))
     IN  /\ result' = [result EXCEPT ![r] = [status |-> outcome, tasks |-> TaskResults(outcome, failing)]]
         /\ queue' = IF outcome # "ok" /\ stops[failing] /\ r \notin rebuilt
                     THEN [queue EXCEPT ![worker[r]] = <<>>] ELSE queue
  /\ phase' = [phase EXCEPT ![r] = "done"]
  /\ UNCHANGED <<persist, stops, worker, awaited, late, newest, generating, rebuilt, taskVars, historyVars, contended, disturbed>>

\* The caller is cancelled: what the run awaits is, too, or the cancellation
\* reaches the run when that is already over.
CancelRun(r) ==
  /\ Disturb("cancel")
  /\ \/ /\ phase[r] = "spawning"
        /\ phase' = [phase EXCEPT ![r] = "raised"]
        /\ UNCHANGED <<late, cancelled>>
     \/ /\ phase[r] = "waiting"
        /\ cancelled' = cancelled \cup {x \in Runs : x = awaited[r] /\ Active(x)}
        /\ UNCHANGED <<phase, late>>
     \/ /\ phase[r] = "awaiting" /\ Active(r)
        /\ cancelled' = cancelled \cup {r}
        /\ UNCHANGED <<phase, late>>
     \/ /\ phase[r] = "awaiting" /\ ~Active(r)
        /\ late' = late \cup {r}
        /\ UNCHANGED <<phase, cancelled>>
  /\ UNCHANGED <<persist, stops, worker, awaited, result, workerVars, step, at, historyVars, contended>>

-----------------------------------------------------------------------------
(* The generate() task of a run.                                           *)

\* The loop is in order: whoever awaits a task that was over when x was created
\* is resumed before x starts (a task that was not has been cancelled by then).
Heard(x) ==
  \A q \in Runs : worker[q] = worker[x] =>
    /\ phase[q] = "awaiting" /\ q \notin cancelled => Active(q)
    /\ phase[q] = "waiting" /\ awaited[q] \notin cancelled => Active(awaited[q])

Start(x) ==
  /\ step[x] = "created" /\ x \notin cancelled
  /\ Heard(x)
  /\ step' = [step EXCEPT ![x] = "working"]
  /\ UNCHANGED <<persist, stops, runVars, workerVars, at, cancelled, historyVars, contended, disturbed>>

\* The drain goes on, or ends with the task.
NextPrompt(x) ==
  IF queue[worker[x]] = <<>>
  THEN /\ step' = [step EXCEPT ![x] = "ok"]
       /\ at' = [at EXCEPT ![x] = Null]
       /\ UNCHANGED queue
  ELSE /\ step' = [step EXCEPT ![x] = "queued"]
       /\ at' = [at EXCEPT ![x] = Head(queue[worker[x]])]
       /\ queue' = [queue EXCEPT ![worker[x]] = Tail(@)]

\* A prompt has been processed to completion.
Complete(x) ==
  /\ step[x] \in {"working", "queued"} /\ x \notin cancelled
  /\ completed' = completed \cup {at[x]}
  /\ NextPrompt(x)
  /\ UNCHANGED <<persist, stops, runVars, newest, generating, rebuilt, cancelled, swallowed, cutShort, contended, disturbed>>

\* The same, and the prompt was a command that rebuilds the worker's coder:
\* the queue moves to the new one.
Rebuild(x) ==
  /\ Disturb("rebuild")
  /\ step[x] \in {"working", "queued"} /\ x \notin cancelled
  /\ completed' = completed \cup {at[x]}
  /\ NextPrompt(x)
  /\ rebuilt' = rebuilt \cup {x}
  /\ UNCHANGED <<persist, stops, runVars, newest, generating, cancelled, swallowed, cutShort, contended>>

\* The first prompt raises; a queued one that does is skipped over.
Raise(x) ==
  /\ \/ /\ step[x] = "working" /\ Disturb("error")
        /\ step' = [step EXCEPT ![x] = "error"]
        /\ UNCHANGED <<queue, at, swallowed>>
     \/ /\ step[x] = "queued" /\ Disturb("queued error")
        /\ NextPrompt(x)
        /\ swallowed' = swallowed \cup {at[x]}
  /\ x \notin cancelled
  /\ UNCHANGED <<persist, stops, runVars, newest, generating, rebuilt, cancelled, completed, cutShort, contended>>

\* The prompt of x goes back to the front of the queue, if it was a queued one.
PutBack(x) ==
  IF step[x] = "queued" THEN queue' = [queue EXCEPT ![worker[x]] = <<at[x]>> \o @] ELSE UNCHANGED queue

\* A start hook or the cost limit ends the first prompt, an interruption a queued one.
Stop(x) ==
  /\ \/ step[x] = "working" /\ Disturb("hook")
     \/ step[x] = "queued" /\ Disturb("interrupt")
  /\ x \notin cancelled
  /\ PutBack(x)
  /\ step' = [step EXCEPT ![x] = "ok"]
  /\ cutShort' = cutShort \cup {x}
  /\ UNCHANGED <<persist, stops, runVars, newest, generating, rebuilt, at, cancelled, completed, swallowed, contended>>

\* The cancellation reaches the task.
Unwind(x) ==
  /\ x \in cancelled /\ Active(x)
  /\ PutBack(x)
  /\ step' = [step EXCEPT ![x] = "aborted"]
  /\ UNCHANGED <<persist, stops, runVars, newest, generating, rebuilt, at, cancelled, historyVars, contended, disturbed>>

Work(x) == Start(x) \/ Complete(x) \/ Unwind(x)
Go(r) == Spawned(r) \/ Resume(r) \/ Conclude(r)

Next == \E r \in Runs :
  \/ Begin(r) \/ Go(r) \/ SpawnFails(r) \/ CancelRun(r)
  \/ Work(r) \/ Rebuild(r) \/ Raise(r) \/ Stop(r)

Spec == Init /\ [][Next]_vars

\* The loop runs what is ready, workers are spawned, prompts end.
FairSpec == Spec /\ \A r \in Runs : WF_vars(Work(r)) /\ WF_vars(Go(r))

-----------------------------------------------------------------------------

\* What a run reports of its tasks: one reported as skipped has not been
\* processed, one reported as ok has been, although all the run goes by is the
\* number of prompts left on a queue that cancellations put prompts back on and
\* the next run resets (_task_results, _failing_index).  Three times the code
\* knows no better, and reports as ok: a queued prompt that raised, which the
\* drain logs and skips over (base_coder.py:2100-2103); everything behind a
\* start hook, the cost limit or an interruption that lets generate() return as
\* if all was done; and, of a run that failed or was aborted with another coder
\* in the place of the one whose queue it counts, all but the last.
Truthful(r) ==
  result[r] # Null => \A i \in Indices :
    /\ result[r].tasks[i] = "skipped" => <<r, i>> \notin completed
    /\ result[r].tasks[i] = "ok" /\ <<r, i>> \notin completed \cup swallowed =>
         IF result[r].status = "ok" THEN r \in cutShort ELSE r \in rebuilt

\* The reports of all runs but those that contend for a worker are truthful,
\* however runs fail, are cancelled or wait for one another (runner.py:85-101).
ResultTruthful == \A r \in Runs \ contended : Truthful(r)

\* A run processes its own tasks, none twice and in the order of the
\* definition, skipping over none but those that raised, whatever runs before
\* it have left on the worker they share (_prepare_reused_worker).
OnlyOwnTasks ==
  \A x \in Runs \ contended : step[x] = "queued" =>
    /\ at[x][1] = x
    /\ \A i \in Indices : <<x, i>> \in completed => i < at[x][2]
    /\ \A i \in 1..(at[x][2] - 1) : <<x, i>> \in completed \cup swallowed

\* Every run ends: with a result, also when its caller is cancelled, when what
\* it waits for is, or when another run takes the worker over.
RunsEnd == \A r \in Runs : phase[r] # "idle" ~> phase[r] \in {"done", "raised"}

\* The same of the runs that contend, too.  They do when one begins between the
\* end of the generate() task on a worker and the step of the run that awaits
\* it, and when two wait for a third: nothing between runner.py:201 and :238
\* asks whether the run before has counted what it left.
AllTruthful == \A r \in Runs : Truthful(r)

\* No task is processed behind one that raised, if that is to stop the rest
\* (workflows.md:88: "`stop` drops the remaining tasks").
ErrorsStop ==
  \A r \in Runs, i \in Indices : <<r, i>> \in swallowed /\ stops[i] =>
    \A n \in Indices : n > i => <<r, n>> \notin completed

\* A task is named as the one that ended the run if it was at work
\* (runner.py:321: "the deepest one still on the run_one stack when the failure
\* surfaced is task executed_tail").
FailingTaskNamed ==
  \A r \in Runs : result[r] # Null => \A i \in Indices :
    result[r].tasks[i] = "aborted" /\ r \notin late => <<r, i>> \notin completed

=============================================================================
