# A verification project for cecli

cecli is an AI pair-programming agent that runs in a terminal, as a server or
as a desktop application. Around the model calls it is a concurrent program:
an asyncio loop per coder, a Textual loop, worker threads, background processes,
sub-agents, and any number of cecli processes that share one scheduler database.
This directory holds TLA+ modules of those parts, the TLC runs that check
them on small instances and the proofs TLAPS checks for every value of the
constants.

Source paths below are relative to `src/cecli/`, documentation paths to
`src/cecli/website/docs/`.

## 1. Inventory

| component | state it keeps | operations | hard behaviour | correct when |
|---|---|---|---|---|
| Scheduler store, `helpers/scheduler/db.py` | tables `jobs` (hash, enabled, next_run) and `runs` (slot, attempt, status, instance, lease) of one SQLite file | sync_definitions, due_definitions, try_acquire, renew, finish, release, advance, disable, enable | several processes; each call one transaction on a worker thread; leases expire by wall clock | a slot has one live lease; ended attempts stay ended; next_run never goes back |
| Scheduler service, `service.py`, `lock.py` | `_task`, `_active`, `_held_leases`, one dispatch and one renewal task per job | start, `_tick`, `_dispatch`, stop; reload, enable, disable commands | awaits between any two calls; cancellation at every await; crash, stall, failing write | a slot is run once, a due slot is passed, a stopped service keeps no lease |
| Catch-up, `service.py` `_successor`, `cron.py` | none | successor of a slot | uneven schedules, long downtime, off-by-one | slots run in order, at most once, few of them late |
| Workflow runner, `helpers/workflows/runner.py` | the worker, its queue and its task, by way of the agents service | execute_workflow: take a worker, stage, await, conclude | runs that overlap on one worker; cancellation; results told from a queue | every run ends; it processes its own tasks and reports what became of them |
| Input queues, `helpers/queues.py`, `tui/io.py`, `helpers/io_proxy.py` | a thread-safe queue per coder, one wake event per loop | push, pop, wait, get_input, confirm_ask | producers on other threads; several readers; events bound to loops | every payload reaches the reader it is for; nobody sleeps beside a payload |
| Prompt queue, `helpers/command_queue.py`, `coders/base_coder.py` | FIFO of prompts, active prompt, processing flag | enqueue, insert, remove, clear, drain, requeue | commands edit it while it drains; interrupts | prompts run once, in order, none lost |
| Agents service, `helpers/agents/service.py`, `tree.py` | sub-agents, their tasks and statuses, the tree, the foreground agent | spawn, generate, switch, cancel, cleanup | locks per parent over service-wide limits; cancelled tasks that still write | limits hold; a parent hears of every child once |
| Worktrees, `helpers/worktrees/` | git worktrees and their records | create, adopt, recreate, release, sweep | crash between git and record; git that fails; runs and sessions in parallel | no work is lost, no worktree leaks |
| Background commands, `helpers/background_commands.py` | processes and bounded output buffers | start, read, page, stop | reader threads, eviction, clearing | a reader misses only what was evicted |
| MCP, `mcp/manager.py`, `mcp/server.py` | connections and tools | connect, disconnect, reconnect, call | overlapping connects and disconnects | a connected server has a session |
| Conversation, `helpers/conversation/` | messages by tag and priority | add, remove, mark, promote | promotion that runs out, ordering | the order of messages is the specified one |
| Task helpers, `helpers/coroutines.py` | background tasks | cancel_and_abandon, interruptible, fire_and_forget | a task that ignores its cancellation | the caller is never held beyond its grace period |
| Loop detector, `helpers/loop_detect.py` | a window of recent calls | record, detect | boundaries of the window | a repeated pattern is reported, nothing else is |
| the rest | see the table in section 8 | | | |

How they interact. `main.py` starts one scheduler service per process and stops
it at exit and at hot reload. The service asks the store for due jobs, runs a
workflow through the runner, which spawns a sub-agent in the agents service, whose
coder drains its prompt queue, reads its input queue, starts background
commands, calls MCP servers and may work in a worktree of its own. The store
is the only state shared between processes; everything else is shared between the
coroutines and threads of one.

The hazards of each component, with the line where each bites, are in
`PROJECT.json`. Those no property covers say why.

## 2. Modules

| module | models | relation |
|---|---|---|
| `SlotLease` | what the store promises about a slot: a lease with one holder | abstract specification |
| `SchedulerDB` | the two tables and every call that writes them | implements `SlotLease` (property `LeaseSpec`) |
| `CatchUp` | `_successor` | pure operators |
| `CatchUpReplay` | one job over downtime | uses `CatchUp` |
| `Scheduler` | the services of several instances | EXTENDS `SchedulerDB`, `CatchUp` |
| `InputQueues` | the input queues of the coders, their readers and the threads that push | stands alone |
| `PromptQueue` | the prompts staged for one agent, its drain, and its coder being replaced | stands alone |
| `AgentTree` | the tree that says who sees whom | pure operators |
| `AgentService` | the life of sub-agents: spawns, tasks, results, Yield, delegations, reaping | EXTENDS `AgentTree` |
| `OutputBuffers` | the two buffers of a background command | pure operators |
| `BackgroundCommand` | one command, its threads, and who reads and stops it | EXTENDS `OutputBuffers` |
| `Worktrees` | the worktrees of one workflow's agent, by several processes | stands alone |
| `WorkflowRun` | runs of one workflow that may share a persistent worker | stands alone |
| `MCPServer` | one HTTP connection to an MCP server, with its keepalive | stands alone |
| `MC*` | constants of the small instances | one per specification that is run |
| `Scheduler_proofs`, `CatchUpReplay_proofs`, `InputQueues_proofs`, `PromptQueue_proofs`, `AgentService_proofs`, `BackgroundCommand_proofs`, `Worktrees_proofs`, `WorkflowRun_proofs` | theorems | |

### How they correspond to the code

*SchedulerDB.* `jobs[j]` is the row of a workflow, `runs[j][s]` the sequence of
the attempts at slot `s`: the attempt number is the position, as
`_try_acquire` numbers them by MAX(attempts)+1. `clock` is wall time, in units a few of which
make up a lease. Each write is one `BEGIN IMMEDIATE` transaction
(`_write_txn`) and one operator; `Next` lets any client make any call with any
arguments, which is more than the service does and is what a store must
withstand. Times are numbers: `_to_iso` makes strings that sort as their times do.
A definition's hash is a model value; the schedule is the function `NextRun`, the
first slot after a time, and `NextRunUTC` the same expression read without
its timezone, which is what `_enable` uses. A
claim (`_try_acquire`) only inserts: no attempt if a live or a terminal one is found, the next attempt otherwise, beside expired ones that
still say running. Those are aborted by `_advance` and at start-up.

*Scheduler.* One action per step between two awaits, each with at most one call of
the store. `phase` is the service's life cycle; `tick` the due list `_tick`
iterates over, a snapshot that grows stale; `disp[i][j]` the dispatch of job j: its pc
is the await `_dispatch` is parked at (`created`: the task exists and has not
run; `run`: in execute_workflow; `finish`, `handle`: in db.finish, from the body or an
except clause; `log`: in `_log_tasks`; `advance`: in the finally clause).
`_active` holds the jobs whose pc is not `none`, `_held_leases` those before
`advance`. `renew` says whether the renewal task is alive. `sync` is a
sync_definitions call: a read outside any transaction, a write per workflow, one
final write. `held` is the snapshot `stop` iterates over. `orphan` is a
`try_acquire` whose awaiting tick was cancelled while its thread goes on.
Cancellation (`Cancelled`) does what each await does with a CancelledError.

What can go wrong is the constant `Faults`, a set of names; each occurrence
counts against `MaxFaults`. "stall" is a loop that is late beyond a lease, "outage" a database that is unreachable for two renewals of a lease in a row
(`lock.py:47` logs a failed renewal and sleeps a third of a lease more, so that one failure alone costs nothing; leases are taken to be 15 s or more, below which
the minimum interval of 5 s changes the arithmetic). A cfg thereby says exactly which hazards it exposes the
system to, and a property that fails under one fault is not lost for the others.

*CatchUp.* The probing loop is the recursive function `Probe`, of depth
`maxCatchup + 1` as the loop of the code makes that many steps.

*InputQueues.* Two kinds of actors. Producers are threads: `Put` is `push_coder_input` up to the
wake, `Wake` the `call_soon_threadsafe(_input_wake.set)`, which appends the callback `Set` to the ready
queue of the worker loop. Readers are coroutines of that loop: `ready` is its ready queue and `parked` the waiters of
the event, so that a reader runs only at the head of `ready`, and parks, is woken and runs in
the order asyncio has. A sweep visits the queues one by one and a producer may act between any two visits
(`rest` is what is left of the sweep); `Pass` visits a queue that is empty or starts with somebody else's
payload, which is dropped, `Take` one that starts with what the reader wants. `Park` is `wait_for_input`,
whose clear and wait are one step of the loop. `Route` is the branch of `IOProxy.get_input` for a text
addressed to a sub-agent; it cancels that sub-agent's reader as `start_generate_task` does, and `Listen` starts
`get_input` again. `activity` is what a coder's task is doing, `questions` what the
interface has still to ask the user, one at a time (`_confirmation_lock`).
A payload is the key its reader looks for; what it says does not matter.

*PromptQueue.* An agent is a series of coder objects, numbered. `current` is the one that has the agent's queue, the old one until a
rebuild is over; `known` is the one the session finds, which for a sub-agent is the new one from its constructor on
(`coders/base_coder.py:676`, `helpers/agents/service.py:157`). Per coder there are the fields of the code (the queue, `_active_queue_prompt`, `_processing_queue`, `_drain_queue_after_command` and the interrupt
event). A task is at `opening` (generate() sleeps before it clears the interrupt event), `working` (its own message), `next` (a queued
prompt taken, generate() not yet past its sleep), `running` (it is), `creating` (the new coder's constructor has run) and `copied` (it has a
copy of the queue). A rebuild ends with `AdoptPrimary` or `AdoptSubAgent`, is refused before the constructor (`SwitchRefused`), or is given up
behind it, by a failure (`SwitchFails`) or a cancellation (`Unwind`); `GiveUp` says who has which queue then.
`Check` and `Add` are the two halves of enqueue_prompt and insert_prompt, outside and under the lock. `Own` are the agent's tasks, `Foreign` a
/queue run typed to another coder that drains this one's queue. Whether the agent is the primary, a
sub-agent or a workflow's worker (`agent`) decides which tasks may overlap and how a new coder is adopted. `fate` and `starts` are
history. `Races` names interleavings the code does not exclude and does not survive; see section 3.

*AgentService.* Everything here runs on one loop, so an action is what happens between two awaits. `run[a]` is the
sequence of agent a's tasks (`created`, `generating`, `ended`), `cancelled` the tasks a CancelledError is on its way to.
The constructor of a coder runs before create() first awaits, hence `SpawnBegin` is one step with the first test of the limit; `SpawnRegister` is the
second test with everything up to start_generate_task. `Returns`, `CancelledOut` and `Fails` are the
three ways out of `_run_generate`, with the injection of the result before the status is set, as in the code. `Yield` marks its caller in
the service of the caller's parent; `YieldWaits`, `YieldPolls` and `YieldReturns` are its two waits.
`Cleanup` is `_cleanup_sub_agent` for a set of agents, `Eligible` the test of the reapers; `order` says which tracked agent comes before which in `_sub_agent_order`. `AgentTree` has one operator per
method of the tree, each of which holds its lock throughout. `owed` (yields not told yet) and `strays` are history.

*BackgroundCommand.* Four actors: the process (`Emit`, `Exit`), the thread that reads it, the thread that writes its input, and the worker loop. A
character is its number in the output, so that a read out of order or twice shows. A buffer is a record, its operations are
functions of it: `paged`, `circular`, and `window`, the paged one the shell tool brings along when it waits with a
timeout. `Added` spills page by page, and `DiskFaults` says which page of a spill may fail. `loop` says where the worker loop is in a
call that takes several steps (`ListCommands`, `ReadNew`, `StopFinished` is get_background_command_output).

*Worktrees.* A commit is a set of changes, a branch or a HEAD what it contains. A call of git is a step, and so is a transaction on
the registry, and a process may die between any two. `release` holds the locals of a release in progress: the record it was
called with, what it has read of the checkout (dirty, active, ahead) and which step comes next; `lock` is `_repo_lock`. `todo` is the
snapshot of records a sweep or an exit iterates over. What an agent does in its checkout (write, commit,
detach, switch branches) and the user's merge are environment actions, possible at any step of anybody's release. Within a release each call of git may
fail, with what the code makes of it: a status is clean (`git.py:157`), a count 0 (`git.py:187`), a HEAD detached (`git.py:147`), a checkout not a managed one
(`manager.py:664`), a saved HEAD not saved (`manager.py:332`), a branch not deleted; git that cannot be run ends the release where it is (`GiveUp`). No order is excluded by a guard. What
the code loses, leaks or takes is recorded where it happens instead: `atRisk` has the changes that were dirty when a status failed, on a
branch when a count failed, on a HEAD or a branch `git branch -f` did not save or overwrote, or made in a checkout whose status or on a branch whose
count a release had already read; `orphans` the checkouts of a process that died between `git worktree add` and the registry and
of those taken for unmanaged; `contested` those that were adopted or reattached while another process was at them or releasing them, or restored while a sweep or an exit had
the record of before.

*WorkflowRun.* A run is a call of execute_workflow and names the generate() task it starts and the worker it spawns. `phase` is the await the call is at
(`spawning`, `waiting` for the run before on a worker it reuses, `awaiting` its own task), and what comes between two awaits is one action: `Stage` resets
the worker, stages the tail and starts the first task; `Conclude` reads the queue, computes the results, clears what is left. A task is
at its first prompt (`working`) or at one from the queue (`queued`); `NextPrompt` is the drain. `newest` is the worker `_find_reusable_worker` finds,
`generating` what `info.generate_task` is. `rebuilt` are the runs that hold a coder their worker has replaced. History: the prompts `completed`
and those that raised on the queue and were `swallowed` by the drain, the runs `cutShort` by an early return of generate(), and those that `contended`:
begun on a worker another run has not concluded on, and that other. Any order of the runs is possible; `Heard` and the guard of `Resume` are the order in which
the event loop wakes up those that await one task, before a task that was created after its end.

*MCPServer.* The n-th connect() makes the n-th future, event, session task and keepalive loop; the attributes of the server hold such
numbers or Null, so that an attribute another call has replaced can be told from the one that was meant. `at` is where a caller or a keepalive loop
awaits; `PlacesCancelling` and `FuturesCancelling` are what a cancel() of a loop does there. The state a connection starts in is
CONNECTED, as in the code. Only HTTP servers have a keepalive.

## 3. Runs

Every cfg says CHECK_DEADLOCK FALSE: time, texts, prompts, output and events are bounded by constants, and a system
whose services have all stopped, or whose users do nothing more, rightly does nothing.

| run | asks | properties |
|---|---|---|
| SchedulerCrash | two instances; one crashes, or a write fails, at any step | AtMostOneExecuting, QuietSlotPasses, CrashedSlotRetried, LeaseSpec |
| SchedulerStall | loops that stall beyond a lease, renewals that fail until it lapses, stops in mid-tick, cancelled runs | NeverStuck, AtMostOneLiveLease, NextRunNeverRegresses |
| SchedulerStop | four of: starts, reloads and toggles with different YAML, stops, cancelled runs, workflows that ignore their cancellation, crashes; loops on time | ClaimIsDispatched, StopLeavesNoLease, TerminalNeverRerun |
| Replay | one job, sleeps of any length, an uneven schedule and an interval, catch-up on and off | FiredOnceInOrder, BacklogReplayed |
| InputQueues | two coders, two threads that push, a primary that asks | InputTypeOK, TextIsHeard, TextGetsThrough, UncrowdedQuestionReturns |
| PromptQueue | a primary or a workflow's worker, interruptions, cancellations, failures, a rebuilt coder, /queue run from elsewhere, edits at any time | NoPromptLost, RerunsAreInterruptions, OneDrain, CapacityOvershoot, OrderKept, QueueIsServed |
| BackgroundCommand | one command with or without a terminal, any buffer, a failing disk, reads, inputs and stops between any steps of its threads | NothingUnaccounted, ReadsFollowStream, InputArrives, ThreadsEnd |
| AgentService | three spawns at a limit of two, nested, delegated or a workflow's, and one message, failure, interruption, cancellation or reap | AgentTypeOK, StatusFollowsRun, YieldIsDelivered, ReapSafe, LimitHolds, TreeFollowsSpawns, InvokeIsReleased |
| Worktrees | three processes over one repository, in any order, a crash between any two steps or a failing git in a release: which changes, checkouts and owners are not safe | WorktreesTypeOK, NoWorkLost, NothingLeaks, OwnerKeepsCheckout |
| WorkflowRun | two runs of three tasks, on one worker or on two, with three of: cancelled callers, failing tasks, interruptions, start hooks, rebuilt coders, a spawn refused | ResultTruthful, OnlyOwnTasks, RunsEnd |

and two runs that find a statement of the documentation or of a comment violated by what the
code does (each finding in `PROJECT.json` quotes the sentence):

| run | under | refuted |
|---|---|---|
| SchedulerWedged | a crash between finish and advance | the slot is retried or the job moves on (DueSlotPasses) |
| KeepaliveReconnect | three failed pings | the connection recovers (Recovers) |

SchedulerCrash has LeaseSpec, SchedulerStall AtMostOneLiveLease: the store as the services use it, against the theorems of the store as anybody
may use it. `WorkflowRuns.cfg`, three runs and one disturbance with RunTypeOK, is kept for readers only; it holds. The theorems of the store, SchedulerTypeOK,
PromptTypeOK and CommandTypeOK are proved and in no run.

### Disagreements that no run is spent on

The cfgs named here are in this directory; each fails in seconds or minutes on the property it has.

In the scheduler:

- A stalled owner finishes its row after another attempt at the slot has been made (`db.py:440` only tests that the row is
  running): a slot that ended ok may be run again. `config/scheduler.md:45` says that only crashed or expired attempts are
  retried. Faults "stall" and "cancel" against TerminalNeverRerun; of three instances, "stop" and "ignore" do too (in SchedulerStop only one
  instance has the workflow, so that it holds there with "ignore").
- An instance that starts beside a running one writes back the next_run it read before the other advanced the job;
  `config/scheduler.md:47` says it is never dragged back. SchedulerStall with `Running = {a}` and fault "start" against NextRunNeverRegresses.
- Start of an instance without a workflow, then reload of one with it: the job is enabled and its next_run is NULL, as
  `db.py:254` keeps it; the comment at `db.py:522` says that this "would leave the job permanently dead until its definition was edited".
  `SchedulerDisarmed.cfg`, EnabledIsArmed.
- `stop()` releases the lease of every claim of its snapshot, also of a dispatch
  cancel_and_abandon gave up on and which is still executing (`service.py:104`); a peer then runs the slot beside
  it. `helpers/scheduler/__init__.py:5` says "so a scheduled job never runs twice". Faults "ignore" and "stop" against
  AtMostOneExecuting. Such a dispatch may also be cut off by the exit of the process between finish and advance, which
  wedges the job as a crash does (NeverStuck).
- A tick that stop() cancels while it awaits try_acquire loses a lease its thread commits later
  (`service.py:97`): nobody releases or renews it. Fault "inflight" against StopLeavesNoLease.
- `_enable` arms the job with its cron expression read in UTC
  (`db.py:542`); `config/scheduler.md:52` says the workflow's `timezone:`
  controls it. The model has both readings, `NextRun` and `NextRunUTC`.
- A run its user cancelled is recorded as aborted, and a peer may claim the slot again
  before its owner advances the job (`db.py:371`); `config/scheduler.md:45`
  says otherwise. The model has this step.
- The probing loop allows a backlog of max_catchup + 1 (`service.py:280`), where
  `config/scheduler.md:19` has "how many missed slots to replay before skipping ahead", `:28` and the comment at `service.py:273` skip when the backlog "is deeper than max_catchup".
  `ReplayLimit.cfg`, DeepBacklogSkipped. `CatchUp` follows the code; BacklogReplayed holds of both readings and leaves the depth max_catchup + 1 open.
- The database is unreachable for two renewals of a lease in a row: the lease lapses, the dispatch goes on, a peer executes the slot
  beside it. `config/scheduler.md:45` has "while a run is in flight its lease is renewed". `SchedulerOutage.cfg`, AtMostOneExecuting.
- With catch_up off the oldest overdue slot fires (`service.py:264`), where
  `config/scheduler.md:29` says the most recent one.

In the input queues:

- A sub-agent asks while the primary waits for input: both are woken by the answer, the primary, which parked first, takes it from
  the sub-agent's queue and drops it, and the sub-agent waits for ever (`tui/io.py:518`). `helpers/io_proxy.py:67` says
  "so the TUI can push input directly to the correct coder without iterating a shared queue". `InputConfirm.cfg`, QuestionReturns.
- A sweep takes one payload of each queue and then waits for the next push (`tui/io.py:516`, `:643`). With two texts
  in a coder's queue before it asks, the answer is left behind a text and the coder waits
  although it is alone; the texts it popped are lost. This is the step the hypothesis of
  UncrowdedQuestionReturns excludes.

In the prompt queue, each a member of `RaceNames`; PromptQueue.cfg has none of them, and with any one of them NoPromptLost or OneDrain fails (the first breaks CapacityOvershoot too):

- "edit while handing over": a queue is edited while it is on its way to another coder, by the interface's thread (`tui/app.py:1052`) or a command.
  For a sub-agent that is from the new coder's constructor on, with which get_instance makes it the one everybody finds
  (`helpers/agents/service.py:157`): what is queued during the awaits of Coder.create is overwritten by the copy
  (`coders/base_coder.py:452`) and again at `service.py:1048`. For the primary it is from the copy to its adoption by the worker. A producer that had looked up
  the old coder before appends to the queue that is left behind. `service.py:1026` says "Atomically hand a sub-agent's remaining queue to a
  replacement coder." `PromptHandover.cfg`, NoPromptLost. A prompt that slips in this way is not counted in the copy, so repeated rebuilds may also
  carry a queue past CapacityOvershoot.
- "foreign run while handing over", "foreign run while resetting": /queue run typed to another coder drains this one's queue in a
  task of its own; neither a switch nor the reset of a workflow's worker (`helpers/workflows/runner.py:216`) waits for that task.
- "two runs waiting": two runs of one workflow wait for its worker, and the one that goes second resets it while the first is at work.
- "slow unwinding": a cancelled task is still in its handler when the next one drains.

One thing is no race: when Coder.create fails or is cancelled behind the constructor, a sub-agent keeps the new coder, as nothing sets `info.coder` back. Before the copy
that coder's queue is empty, and the prompts of the old one are lost with it, against the same sentence of `service.py:1026`.
The model marks them (`fate` "lost"), NoPromptLost is about the others, and `PromptGivenUp.cfg`, RebuildKeepsQueue, shows the loss with no race at all.

In background commands:

- A command that was listed as finished is stopped and dropped once its new output has been read, but the process ends before its reader
  thread has read the rest (`coders/agent_coder.py:2039`, "Clean up stale (finished) background commands after reading their
  output"; likewise `tools/shell.py:495`). What is left in the pipe is never shown. `BackgroundTail.cfg`, OutputReported.
- Every agent of the process shares one manager and one read position per command: the agent that prompts first takes output another
  agent started the command for.
- What TimedOut shows is told again by the next incremental read: get_all does not move the read position.

In agents:

- The Yield of a sub-agent whose parent is a sub-agent looks for its caller in the service of that parent (`helpers/agents/service.py:257`); all are
  registered in the primary's, so nobody is marked, and the result is not told (`:1254`). `config/agent-mode.md:292` says "Sub-agent results
  are reported back to the parent conversation as summaries or errors". `NestedResult.cfg`, ResultsReachParent.
- "cancel before start": a task cancelled before its first step runs none of `_run_generate`, whose except clause would set the status; the
  agent stays `created` with its task over, and a Yield that polls for it waits until it is interrupted.
- "message while running": start_generate_task cancels the task before and starts the next, whose status the old one's handler then
  overwrites; the result of the old run is lost. Both are in `RaceNames` and break StatusFollowsRun, the second YieldIsDelivered and TreeFollowsSpawns too.
- start_generate_task "Sets status to RUNNING before starting" (`helpers/agents/service.py:1064`); it is set by the task's
  first step. ReapSafe exempts tasks that have not taken it.
- At the limit _check_max reaps one finished agent and raises all the same; finished ones were not counted, so the reap gains nothing.
- A result that ends in an error is never told to the parent: the status is set after the injection that asks for it.

In workflow runs:

- Two runs that wait for a third go on one after the other without waiting again (`helpers/workflows/runner.py:201`): the second cancels the task the first has
  just started, and the first, which ends aborted, drops the tasks of the second, which reports them as ok.
  `config/workflows.md:107` says "Before staging the new tasks, the runner waits for any in-flight run". `WorkflowWaiting.cfg`, AllTruthful; RunsEnd holds all the same.
- A run that begins after the task of another has ended and before that one's coroutine has run resets the queue the other is about to count
  (`runner.py:87`), and the other, if it failed, may clear the queue of the first (`:92`), which then reports tasks as ok it never ran. `WorkflowEarly.cfg`, AllTruthful.
  Both orders are steps of every run of the model; ResultTruthful and OnlyOwnTasks say nothing of the two runs concerned (`contended`).
- A prompt from the queue that is cancelled goes back to the queue, and the run is said to have ended at the task before, which was
  completed; `runner.py:335` has "the deepest one still on the ``run_one`` stack". `WorkflowNamed.cfg`, FailingTaskNamed.
- A caller that is cancelled while it waits for the run before cancels that one's task, swallows its own cancellation and goes
  on to run its tasks (`runner.py:205`). RunsEnd and ResultTruthful hold all the same.
- A queued prompt that raises is logged and skipped over (`coders/base_coder.py:2100`), the tasks behind it run, and all are reported ok, also under
  `on_failure: stop`, where `config/workflows.md:88` has "`stop` drops the remaining tasks". `WorkflowErrors.cfg`, ErrorsStop. (`:105` has the caveat that
  "errors handled inside a prompt continue normally".)
- An interruption, a start hook or the cost limit leaves prompts undone, and the run is ok with all its tasks.
- A run that fails or is aborted after a command has rebuilt the coder counts the empty queue it left behind: all tasks but the last are reported ok.
  Truthful names these three cases, by the prompt or the run, and admits no other.
- Two runs that begin before the first worker is there both spawn a persistent one; the first is never used again.

In worktrees all of these are steps of every run; the properties excuse by name what they lose, and `WorktreePromises.cfg` has the three without the
excuse (`tlc -continue` reports each):

- Two runs of a workflow in two processes share a checkout, as `worktrees.md:20` has it ("so repeated or concurrent workflow runs share one checkout"), and the first one to end
  removes it under the other. A sweep or an exit goes by a snapshot of records (`manager.py:386`): a checkout adopted meanwhile is released under its new
  owner, too. `WorktreePromises.cfg`, SharersKeepCheckout.
- A git status that fails counts as clean and is followed by `remove --force` (`git.py:157`, `manager.py:339`), a count that fails as nothing ahead, and the branch is dropped
  (`git.py:187`), against `worktrees.md:8`, "committing unfinished changes so nothing is lost". `WorktreePromises.cfg`, WorkKept.
- Status and count are read outside the lock the checkout and the branch are removed in: a change made or committed in between is lost the same way.
- Commits on a detached HEAD are counted against the user's HEAD (`cwd` is the repository, `manager.py:328`), by default not ahead, and are then not saved;
  `git branch -f` overwrites what an earlier release saved under the same name, and its failure is not seen.
- A crash between `git worktree add` and the save of its record leaves a checkout no sweep finds; a checkout git does not answer for is taken for unmanaged,
  and its record thrown away (`manager.py:297`). `WorktreePromises.cfg`, AllRecorded.
- Two sessions saved with the same worktree, or one session opened in turn by two processes that die, are recreated at
  one checkout under two new uuids; `_replace_record` (`manager.py:709`) removes the record of the session's uuid only, so the first restorer's stays, with a
  dead pid, and the sweep of the next process (`manager.py:386`) releases the checkout of the agent at work. `worktrees.md` has nothing on it.
- A registry that cannot be read counts as empty, and the next save forgets every record. It is no step of the model.

In MCP connections:

- On an HTTP server reconnect() is the keepalive's (`mcp/server.py:579`), which does nothing unless the state is DISCONNECTED: after a 404 the tool call's
  reconnect (`coders/agent_coder.py:432`) leaves the dead session in place and returns None, where `server.py:203` says "The
  client MUST then start a new session".
- Overlapping calls: the second of two connect() replaces the future of the first, whose caller hangs until its timeout; the end
  of a disconnect clears the future and the event of a connect() made meanwhile (`server.py:176`); a session task whose event was
  replaced waits for the wrong one. Over all interleavings of `MCPServer` nothing worth stating is left but that one task at a time tears
  down. No passing run checks this module for that reason.

### Bounds

Scheduler: two instances are enough for an owner and a thief, one job for the
properties, all of which are per job (jobs meet only in the order of the
due list and in the last write of a synchronisation). A lease of 2 units and a horizon of 5 leave room to
claim, expire, be stolen, finish late and be due again; slots come every 2 units, so that two or three are
due within the horizon. `MaxFaults` is 1, or 4 where faults of several kinds have to meet (SchedulerStop). Replay runs 12 time units over an
uneven schedule or an interval of 2, with `MaxCatchup` 1, so that backlogs of none, one, two, three
and more slots occur. A crash (`Crash`) only happens while enough of the horizon is
left for its lease to run out, or the liveness property would fail for want of time.

InputQueues has a primary and one sub-agent, two threads, three texts and two questions: enough for a text
for each coder with one more behind it, a put between any two visits of a sweep, two wakes in the
ready queue at once, and a question that is asked after texts have piled up.

PromptQueue has two tasks of the agent and one foreign one, a producer, a capacity of 1, three prompts, two messages, one stop and one
rebuilt coder: a second task begins while the first unwinds, a prompt waits behind one that is put back, and the capacity is passed by
the producer that had checked. MaxStops also bounds reruns, so that RerunsAreInterruptions is not vacuous.

BackgroundCommand has pages and windows of two characters and three characters of output, read in chunks of up to three: a chunk
fills one page and part of the next, a window drops, and positions point into, before and behind what is in memory. Two inputs are enough for one to be
queued between the wake of the writer and its pop.

AgentService spawns up to three agents, so that there is one below another below the primary, one beside it, and a third that finds the limit of
two reached, between its two tests or before them. One event (a later message, a failure, an interruption, a cancellation or a reap) meets any state of
these; delegations, yields and returns are not counted.

WorkflowRun has two runs and three tasks, so that a queue is empty, has one or two prompts left, or one put back, when the other run comes; three disturbances reach
a cancelled run behind a failing one whose tasks were left. Two that wait for a third are in `WorkflowRuns.cfg`, with one disturbance.

Worktrees has three processes, two of them alive at a time, two checkouts, a change and one move (a merge, a switch, a detached HEAD or a saved session): an
owner, one that sweeps and one that adopts or recreates; a branch that is kept and one that is dropped. One fault is a crash or a call of git that fails. Processes are symmetric.
The same properties hold where the bounds are drawn otherwise: two moves of two processes, three without faults, three processes alive at once without moves, and two
faults with two changes. For every one of the exemptions in `atRisk`, `orphans` and `contested` TLC finds a property that fails without it.

### Fairness

The scheduler's `Fairness` has weak fairness of ticking, synchronising, stopping, dispatching,
renewing and of time. The first ones are coroutines and worker threads: an asyncio loop runs every ready
task and the executor every submitted call, and `_loop` catches every exception
and sleeps again. `WF_vars(Dispatching(i, j))` contains the assumption that a workflow
ends; the runner sets no limit on one, so a workflow that hangs keeps its lease for good,
and nothing is claimed about that case. Faults are never fair.

InputQueues has weak fairness of the worker loop (it runs what is ready; which reader that is the order of
`ready` says), of `Wake` (a thread between the two statements of `push_coder_input` goes on),
of `Listen` (the primary's generation ends) and of `Answer` (the user answers the
question on display). Nobody has to send a text, ask, or finish a sub-agent.

PromptQueue has weak fairness of each task (model calls and commands end; an agent that hangs serves no queue) and of `Add`. Nothing
that interrupts is fair, and QueueIsServed speaks of what happens as long as nothing does.

BackgroundCommand has weak fairness of its threads, of a call in progress on the worker loop, and of the exit of a process that was signalled (stop
kills what does not end). A grandchild that keeps the pipe open would keep the reader blocked: it is assumed away.

AgentService has weak fairness of what the loop has ready: first steps, cancellations that unwind, callers that are released. The work of an
agent need not end, and InvokeIsReleased only speaks of callers nobody works for any more.

`MCPServer` has weak fairness of the loop's steps; delays pass, and the server refuses `MaxFaults` times at most. Pings need not be sent. In
KeepaliveReconnect it never refuses, and tool calls, which would connect again, need not come.

WorkflowRun has weak fairness of each task (prompts end, cancellations unwind) and of a run whose worker is there, whose predecessor or whose own task has
ended. Nobody has to begin a run.

Worktrees, SchedulerStall and SchedulerStop have safety properties only.

## 4. Theorems

`Scheduler_proofs`, of the store, for all jobs, instances, lease lengths, schedules and horizons, and any calls in any order:

- `TypeCorrect`: Spec => []TypeOK.
- `LeaseExclusion`: Spec => []AtMostOneLiveLease. AtMostOneLiveLease is not inductive: a renewal of an
  attempt that was superseded would revive it beside its successor. The inductive invariant
  adds `LiveLeaseIsLatest` (only the latest attempt of a slot may be running
  unexpired), which the NOT EXISTS clause of `_renew` and the test of live leases in `_try_acquire` preserve.
- `EndedAttemptsStayEnded`: the action property EndedStaysEnded.
- `StoreIsSlotLease`: Spec => LeaseSpec, the refinement.

The proof classifies every call by what it does to the attempts (`StepShapes`: it weakens rows,
appends one, or renews the latest one) and every property follows from the three shapes.

Of the schedulers, for all of the above and any configuration, set of faults and number of them:

- `SchedulerTypeCorrect`: SchedulerSpec => []SchedulerTypeOK.
- `SchedulerLeaseExclusion`: the schedulers change the tables only through calls of
  the store (`CallsOnly`), so lease exclusion carries over.
- `MutualExclusion`: if neither "stall", "outage" nor "ignore" is among the faults,
  SchedulerSpec => []AtMostOneExecuting. A single renewal that fails is allowed for, any number of times.
- `NoClaimLost`: without "dbfail", SchedulerSpec => []ClaimIsDispatched.
- `StoppedHoldsNoLease`: without "dbfail" and "inflight", SchedulerSpec => []StopLeavesNoLease.
- `FinishedSlotNotRerun`: without "stall", "outage" and "ignore", SchedulerSpec => TerminalNeverRerun, over crashes, failing writes, stops, reloads and toggles.
- `NextRunOnlyGrows`: without "start", "reload" and "toggle", SchedulerSpec => NextRunNeverRegresses, however slow an instance is.
- `FinishedSlotLeftBehind`: without "crash", "dbfail", "ignore", "start" and "reload", SchedulerSpec => []NeverStuck.
- `SchedulersShareLease`: SchedulerSpec => LeaseSpec. Every step of the composition leaves the tables alone or makes one call of the store, and `CallsAreLeaseSteps` says that each call is a step of the abstract lease.
- `SchedulersEndForGood`: SchedulerSpec => EndedStaysEnded, by the same way.

`IndInv` is SchedulerTypeOK, LiveLeaseIsLatest, `RowsOwned` (the row a dispatch points at exists and
names its instance) and `SyncsOwnJob`. Mutual exclusion needs two more: `DispatchesAlive` (only a live process has
dispatches) and `LeasesKept` (a dispatch that is created, running or finishing has a live
lease), the conjunct that stalled loops, renewals that keep failing and abandoned workflows break.
Two executing dispatches of one slot would each have a live lease, and LiveLeaseIsLatest
leaves one.

The five theorems after MutualExclusion each add an invariant to IndInv. `RunningIsDispatched` says that a running row of a service that is up is that of a dispatch
which has its outcome still to write (`OpenUntilFinish`: it keeps that until it writes it); `StoppingReleases` adds that a running row of a
stopping service is in stop()'s snapshot until it is released, for which no acquire may be left in its thread (`NoOrphans`). `TerminalIsLatest` says that only the latest
attempt at a slot has run to the end, which follows from LeasesKept: who writes a terminal outcome still has the latest row. NextRunOnlyGrows needs no more than that no synchronisation is under way
(`NoSyncs`) and that a job's successor slot is later than its slot (`SuccessorLater`), with catch-up and without. NeverStuck is about three
steps of several instances: attempt, finish, advance. `SlotsPassed` says that no job points before a slot that has been attempted, is in a tick's list, or is
being acquired in a thread, so that a job at a finished slot is still there and never there again; `DispatchNows`, that a dispatch's slot was due, so that its advance
does leave the slot; `StoppedIdle`, that no dispatch is cut off by an exit; and `LeftBehind`, that a job still at a slot which ran to the end has a dispatch between finish and
advance. What a step can do to a row, to a job, to a service's phase and to a tick's list is stated once for each (`RowMoves`, `JobsMove`,
`LifeCycles`, `TicksMove`).

TLC agrees that these invariants hold on instances with two faults; and each excluded fault is needed: with it alone (with a stop, for "ignore" and "inflight"; a cancelled
run, for "stall" against TerminalNeverRerun, or a third instance, for "ignore" against it; an offset of the UTC reading, for "toggle") TLC finds the property violated on an instance like that of SchedulerStall.cfg.

`CatchUpReplay_proofs`, for any schedules whose next run is later (cron expressions and `@every` intervals; `ReplayAssumption`), any limit and horizon, catch-up on or off:

- `ReplayInOrder`: Spec => []FiredOnceInOrder.
- `BacklogIsReplayed`: Spec => BacklogReplayed, that is, which missed slots `_successor` gives up.

The loop is a recursive function, and so is the list of missed slots. That they have values at all (`SomeSteps`) and what they are is shown by induction over their steps. The library's induction
theorems take an operator, which the provers cannot instantiate; its theorem that a well-founded relation has minimal elements (`WFMin`) takes a set, and gives
induction for sets of numbers (`Inductive`). `Passed` is the loop's invariant: after d steps d + 1 slots lie before now, or it has reached now with at most d before it. The loop and the
list go through the same slots (`StepsAgree`), the loop at most max_catchup + 1 of them, the list all, which compares the two cardinalities (`LoopCounts`).

`InputQueues_proofs`, for any coders, threads, texts and questions:

- `InputTypeCorrect`: Spec => []InputTypeOK, whoever asks. Types alone are not inductive: that a reader which leaves was scheduled or parked needs that it is in one of the two,
  once, exactly while it reads (`EachOnce`, `ReaderOf`).
- `TextHeard`: if no coder but the primary asks (`PrimaryAsks`), Spec => []TextIsHeard. A parked reader that has a payload in
  some queue is about to be woken. TextIsHeard only speaks of a reader that is
  parked; the inductive invariant `IInv` says it of each queue as soon as the running reader has passed it (`Swept`).
  It needs that there is one reader, scheduled or parked (`OneReader`), which starts with all queues
  (`FullSweep`), and that a reader of texts never finds an answer in front of a text, which it would drop and leave the text
  (`AnswersAsked`). The last conjunct is where PrimaryAsks is needed: it fails under
  `InputConfirm.cfg`.

`PromptQueue_proofs`, for any tasks, producers, capacity and numbers of prompts, messages, stops and coders:

- `PromptTypeCorrect`: Spec => []PromptTypeOK, under any races. `TypeInv` adds what keeps the steps inside the bounds: prompts
  about to be appended have a number (`Reserved`), and one task at a time
  replaces a coder, its own, which is what makes known one of two coders (`OneSwitch`).
- `CapacityBound`: Spec => []CapacityOvershoot, unless "edit while handing over" or "foreign run while handing over" is let in (`Apart`). The length of the queue alone is not inductive: a requeue adds the
  active prompt, and a producer that has passed the check outside the lock will append. `CapOK` bounds the queue, the active prompt and those producers
  together. The copy of a handover needs that nobody is about to append to it, and that the coders in front of the one that is being made are untouched (`AheadInv`).
- `SingleDrain`: if no race but "edit while handing over" is let in (`OneAtATime`), Spec => []OneDrain. The flag
  `_processing_queue` alone does not keep drains apart, as cancellation, a switch and a reset clear it or the active prompt. The invariant
  adds that of two tasks of an agent one is being cancelled (`OneOwn`), that one at most is past its opening
  (`Opened`: a new task sleeps until the cancelled one has unwound), and that nobody else drains while a coder is replaced (`SwitchQuiet`). Of the other races
  "slow unwinding" breaks Opened, "foreign run while handing over" SwitchQuiet, and the two about a reset let RunWorkflow clear the flag and the
  active prompt under a drain.
- `PromptsStayInLine`: with none of the races (`Races = {}`), Spec => []NoPromptLost. That is of prompts not marked as lost: those of a rebuild given up before the copy are.
- `FirstInFirstOut`: with none of the races, Spec => OrderKept.
- `RerunsNeedStops`: with none of the races, Spec => []RerunsAreInterruptions.

PromptsStayInLine and FirstInFirstOut look at the line of the agent, its active prompt with the queue behind it. A step makes the line one that follows the line before (`Follows`:
what is left of it, in its order, with newly numbered prompts put in), and a prompt that still waits is in it (`LineStep`); a line of different accepted prompts then
stays one and no two change places (`FollowsKeeps`). The lemmas about Follows say so of each thing the code does to the list (insert, remove at, drop the head,
put the active prompt back, clear, stage), whatever its length. That every action is such a step needs, besides SingleDrain's invariant, that an active
prompt which waits is being run (`ActiveServed`; a second drain would drop it), that a producer appends to the coder that is the agent's (`ProducersHere`), and that the copy a
handover has made is still the queue when it is adopted or given up (`Handover`, which is what "edit while handing over" breaks).

A stop is counted when it happens and the start it costs comes later, perhaps at another coder. `RerunInv` therefore bounds the starts that are still owed together
with those there were (`due`): a prompt that was started, still waits and has nobody at work on it who will finish it is going to be started again (`Owed`, `Served`). No step adds to due
without a stop, which needs that what is queued or run has not been done (`Waits`), that a number not given yet was never started (`Unstarted`), and that whoever drains
does so at the coder the agent has now, the older ones holding nothing (`Here`).

TLC agrees: TypeInv, AheadInv, CapOK, OneOwn, Opened, SwitchQuiet, `LineInv` and RerunInv hold as invariants of the instance of PromptQueue.cfg, and every step of it is a LineStep.

`WorkflowRun_proofs`, for any runs, tasks and disturbances and in any order of the runs:

- `ResultsTruthful`: Spec => []ResultTruthful.
- `TasksInOrder`: Spec => []OnlyOwnTasks.
- `RunTypeCorrect`: Spec => []RunTypeOK.

All three from `RunInv`. A run concludes from the length of a queue, so the invariant says what that length means at every step (`QueueTells`): as long as a run that does not
contend is awaiting, the queue of its worker is its last k tasks (`Rest`), and step, prompt, completed and swallowed tasks agree with k (`Progress`). That nobody else touches the
queue needs that it is alone on its worker (`Exclusive`), and that no run which contends elsewhere ever processes a task of it, then or after it is over, that whatever lies
on a queue is the run's own or of a run that contends (`Owned`). Every step of a
generate() task goes through `TaskStepKeeps`, every staging through `StageKeeps`. The loop's order (`Heard`) is not used. TLC agrees that RunInv holds on the instances of WorkflowRun.cfg and WorkflowRuns.cfg.

`Worktrees_proofs`, for any processes, checkouts, changes, moves and faults, in any order, with the excuses of the three histories (section 2) and no other hypothesis:

- `WorktreesTypes`: Spec => []WorktreesTypeOK. `TypeInv` adds that a process has a record of its own exactly while it is busy with a checkout, and
  that the branch a HEAD is on exists.
- `CheckoutsAreRecorded`: Spec => []NothingLeaks. A record is only discarded when its checkout is gone, which
  is read several steps before: `LeakInv` says that it does not come back (`GoneForGood`), as uuids are given once and a path has one uuid behind it (`IdsStand`), and
  that the record a recreation replaces is that of the same checkout or of none (`ReplacesSession`).
- `OwnersKeepTheirs`: Spec => []OwnerKeepsCheckout. `OwnerInv` adds that a checkout which is not contested has one process at it (`Exclusive`) and one record (`OneRecord`), that
  no snapshot and no release in progress names the checkout of an agent that has not ended (`NotReleased`), and what the registry says of it at each await of its creation (`RecordOf`).
- `NoChangeIsLost`: Spec => []NoWorkLost. A release removes on what it read steps before, so `WorkInv` says that what it read still holds, but for what is at risk: a checkout past its
  status has nothing uncommitted that is not (`Cleared`), past its HEAD nothing on it that is in no branch (`Cleared` too), and a branch that was found empty contains nothing
  beyond the base (`Counted`). For that a recorded base must be part of the main branch and a branch carry the number of a uuid that was given (`RecordNames`, `FreshNames`), so that a new
  branch overwrites none. `BranchesChange` and `CheckoutsChange` say where the changes go in one step: out of a branch only into the base, another branch or
  `atRisk`, out of a checkout only to such a place (`Safe`).

TLC agrees that the four invariants hold on the instance of Worktrees.cfg.

`BackgroundCommand_proofs`, for buffers, pages, reads, outputs and inputs of any size, over each of the three kinds of buffer:

- `CommandTypeCorrect`: Spec => []CommandTypeOK, whichever pages fail to be written.
- `OutputAccounted`: Spec => []NothingUnaccounted, whichever pages fail.
- `ReadsInOrder`: if a spill fails at its first page or not at all (`DiskFaults \subseteq {0, 1}`), Spec => []ReadsFollowStream.

All three from `CommandInv`. A read compares a position taken before with counters that the reader thread has moved since, so the invariant says what the
counters mean at every step: what is in memory is the end of the stream, and what the reader has in hand is what comes after it; total_added counts the stream, and
window_start is where the memory begins, or ahead of it once a page behind the first has failed (`Stream`). What was told is in the
stream, in its order, and all of it lies before last_read_position (`Telling`). `Calls` says who is where: only a listed command is read, and a bounded buffer is never waited for.
What append, spill, trim, clear and get_new_output do to a buffer is stated once for all
buffers, pages and faults (`AddedKeeps`, `SpillKeeps`, `ClearedKeeps`, `NewOutputGives`). The hypothesis of ReadsInOrder is no convenience: when a later page fails, window_start
stays ahead of the window, the next read begins further back than it believes, and text is told twice; TLC shows that with `DiskFaults = {0, 2}`. TLC agrees that CommandInv holds on the instance of
BackgroundCommand.cfg, and on a smaller one in which the second page may fail too.

`AgentService_proofs`, for any spawns, events, limit and kinds:

- `AgentTypeCorrect`: Spec => []AgentTypeOK, under any races.
- `LimitKept`: Spec => []LimitHolds, under any races. The two tests count agents whose status is not final, the property those at their first prompt. The
  invariant adds that an agent whose first task has not started still has the status it was created with (`FirstTaskFresh`): nothing but the task itself turns a final
  status back, so that a start adds nobody to those counted.
- `ResultsDelivered`: without "message while running", Spec => []YieldIsDelivered.
- `ReapersSafe`: without "message while running", Spec => []ReapSafe.
- `StatusTruthful`: with no race (`Races = {}`), Spec => []StatusFollowsRun.
- `TreeFollows`: without "message while running", Spec => []TreeFollowsSpawns.

ResultsDelivered and ReapersSafe come from `WorkInv`. A result is injected before the status is set, and a reaper only sees statuses, so the invariant says what a status means while a task is at
work: one task of an agent is, at most (`OneAtWork`), and it is running, or it has yielded in that very run, which is noted on children of the primary only (`WorkIsMarked`); a yield not told yet
is that of a run at work, with its status final (`YieldIsHeld`), for which an agent that yields must still be tracked: what was removed at work has a cancellation on its way
(`GoneIsCancelled`). Who has delegated something is at work (`DelegatesWork`). ReapSafe then holds at any depth: what is at work below an agent was not spawned by the primary
(`BelowHasParent`), so its status is not final. `StatusInv` adds that a tracked agent whose task is over is final and that none is cancelled before its first step, which sets the status; that is
the race "cancel before start", and a message to an agent that is still unwinding is the other: two tasks then share one status. `AgentMoves` says the few things a step does
to one agent, and the invariants follow move by move. TLC agrees that the invariants hold on the instance of AgentService.cfg, that WorkInv and LimitInv hold with "cancel before start",
and that TypeInv and LimitInv hold with both races.

TreeFollows is about functions that recur over parents: the property's Home and Domain, the subtree a registration moves, and the fold that takes agents out of the tree.
`Inductive` (a set that holds 0 and the successors of its members holds every number, from the well-foundedness of < on Nat) gives, for any function that recurs from larger numbers to
smaller ones, that there is one (`ChainExists`), only one (`ChainUnique`), and that it has what its base has and its recursion hands down (`ChainHolds`); parents were asked for
before their children (`SpawnOrder`). An agent's home is therefore in the tree, and nobody's home is an agent that is no one's parent (`HomeRange`). Of the operators of AgentTree: who has no
children joins a domain alone (`SubtreeAlone`, `JoinsAlone`), as every agent that is registered; registering and unregistering keep places, domains and links (`RegisterKeeps`,
`UnregisterKeeps`), and so does taking out any set, in whatever order CHOOSE has it (`FoldKeeps`, by induction over the size of the set). `TreeInv` adds to WorkInv what the tree holds (`Held`) and that it is
one of these parents and kinds (`TreeIsOf`); WorkInv is what says that a spawn which registers has its parent in the tree. Without the hypothesis it need not: TLC finds a delegation in flight whose
caller gets a message and is reaped; the caller's old task ends, the child registers below an agent that is gone, and `_ensure_node` puts that one back into the tree.

The theorems assume `AgentAssumption`, `CommandAssumption`, `BufferAssumption`, `WorktreesAssumption`, `ConstantsAssumption`, `NextRunAssumption`, `SchedulerAssumption`, `ReplayAssumption`, `InputAssumption`, `PromptAssumption` and `RunAssumption` of the modules, which TLC
evaluates in every run that extends them.

## 5. Only model-checked

- Liveness, out of the prover's reach: QuietSlotPasses, CrashedSlotRetried, TextGetsThrough, UncrowdedQuestionReturns, QueueIsServed,
  InputArrives, ThreadsEnd, InvokeIsReleased, RunsEnd.
- Of the scheduler, TerminalNeverRerun with "ignore" where one instance has the workflow (SchedulerStop), which the theorem excludes.
- Of BackgroundCommand, that OutputReported fails when the output outlives the process. Of Worktrees, that each excuse is needed (section 3).

## 6. Plan

Done: the scheduler, the input queues of the terminal interface, the prompt queue, the life of sub-agents, background commands, worktrees, the runs of a workflow, and
one MCP connection. What is left, in this order:

1. Proofs: TextHeard without PrimaryAsks, in a weaker form.
2. `InputQueues`: foreign loops, the rebinding after a hot reload and the terminal path without the TUI (`pop_coder_input`,
   `_terminal_or_queued`). Then the composition of the input and prompt queues of one
   coder.
3. The composition of `WorkflowRun` with `PromptQueue`, whose drain it abstracts, and with the limit of `AgentService`; interruptible.
4. `AgentService`: the end of a session and detached agents.
5. `MCPServer`: the manager over several servers, once a property holds that is worth a passing run.
6. `Conversation` (promotions, the order of tags) and the loop detector, as operators against reference definitions.

## 7. Not modelled, within the modelled components

*Scheduler.* Recent-run listings and their limits, log files of tasks, connection handling, SQLite's busy
timeout (a write that is locked out for longer is the fault "dbfail"), the wording of errors. `now` is read
a little before its transaction begins; the unit of time is coarser than that.
Clocks of different processes are one clock: they run on one machine.

*Input queues.* Wake events of foreign loops, the rebinding of the loop after a hot reload, coders that
register or unregister while others read, the shared queue a coder without one of its own falls back to, file-watch
interrupts of get_input, and the answers of a confirmation group that need no question. Texts the interface
puts into the conversation of a busy coder never come near the queues.

*Prompt queue.* Of `base_coder.py` only what drains and stages prompts: what a message does between its start and its end is one step with an outcome.
Nor is a producer that looks up the coder in the middle of a constructor, and a sub-agent of a sub-agent whose parent has no service of its own
(`service.py:151`): the old coder of such a one stays the one everybody finds until `:1054`.

*Background commands.* How a process is started, the order of stdout and stderr: over pipes there are two reader threads, one for each, that append to one buffer, and the model has
one, whose stream is what reaches the buffer in the order of their appends, which are under its lock. The end of the output is thus that of the later of the two. Left out, too: that stop() may take up to 5 s under the
manager's lock and may fail. An input that is not latin-1 ends the writer thread of a terminal and closes it; a writer closes the terminal up to a
second after the exit, which can cut the reader off. The instance lets the first page of a spill fail; when the
second fails, the window a call brings along no longer equals the stream.

*Agents.* The text of summaries, detached agents, cleanup_all_for_parent at the end of a session, wait(), the foreground agent. A rebuilt coder keeps
its uuid, so that the tree's replace does nothing. An interrupted Yield does not wait for the children it cancels; the delayed cleanup of 5 s
ends an agent that got a message meanwhile; a nested spawn that is refused or cancelled leaves the node its constructor made in the
tree.

*Worktrees.* Several repositories and agents, remote caches, names that are taken, files too large to save beyond the step `GiveUp`,
a pid used again, other hosts, a registry that cannot be read, failing calls of git outside of a release (a creation that fails makes nothing).
The user merges branches that are not checked out. The order in which an exit visits records is left open.

*Workflow runs.* The status that the task of a user's message to the worker leaves behind, prompts a user stages on it, save_to outputs, logs, the archived session, the
worktree. A spawn is one step, and so is the rebuild of a coder (`PromptQueue` has its steps). A worker that is not kept is reaped at the end of its run, which nothing
in the model reads. The scheduler's daemon runs are spawned as independent agents; their runs are the same.

*MCP.* The manager's lists and retries, stdio servers, a change of event loop, sign-in. With no session task, disconnect() awaits the end of the keepalive loop it has
cancelled, for up to 15 s with `_disconnecting` set (`server.py:167`, `:619`); `NoOwner` is one step, so that a call
which comes meanwhile, and would return at once in the code, finds it over. Every disconnect() of KeepaliveReconnect's trace has a session task and does not go that way.

## 8. Not modelled components

| part | why |
|---|---|
| `main.py`, `commands/` | wiring and thin calls; what acts on the scheduler is in `Scheduler` |
| `tui/` apart from its queues, `helpers/server/` | rendering and protocol adapters |
| `helpers/sessions/`, `hooks/` | files read and written whole; user scripts |
| `tools/`, edit formats, `hashline`, `hashpos` | text processing: properties about strings |
| `repo.py`, `repomap.py`, `grep_ast` | git, tree-sitter, numerics |
| `watch.py`, `helpers/file_system` | file events of the operating system |
| `models.py`, `helpers/llms`, `helpers/model_config` | requests and tables |
| `helpers/memory`, `observations`, `system_one`, `orchestration` | prompt construction |
| website, scripts, benchmark | not the program |
