---------------------------- MODULE AgentService ----------------------------
(***************************************************************************)
(* The life of sub-agents: src/cecli/helpers/agents/service.py, the        *)
(* Delegate and Yield tools that call it, and the commands that spawn,     *)
(* message, cancel and reap agents.  All of it runs on the worker loop, so *)
(* an action is what happens between two awaits.                           *)
(*                                                                         *)
(* A sub-agent runs its messages one task at a time; a task is created,    *)
(* takes its first step later, and may be cancelled before or after it.    *)
(* The work inside generate() is external: it delegates, yields, returns   *)
(* or fails at any time.                                                   *)
(***************************************************************************)
EXTENDS AgentTree, FiniteSetsExt, SequencesExt

CONSTANTS
  MaxSpawns,  \* bound: sub-agents ever asked for
  MaxEvents,  \* bound: later messages, interruptions, cancellations, failures, reaps
  Limit,      \* max_sub_agents
  Kinds,      \* what each spawn may be, among KindNames
  Races       \* what may meet, among RaceNames

Primary == 0
Agents == 1..MaxSpawns
Actors == {Primary} \cup Agents

\* "delegate" and "persistent" come from Delegate, "memorizer" from the memory
\* helpers, "user" from /spawn-agent and "workflow" from the workflow runner.
KindNames == {"delegate", "persistent", "memorizer", "user", "workflow"}
Delegated == {"delegate", "persistent"}
AutoReap == {"delegate", "memorizer"}
Independent == {"memorizer", "user"}
RaceNames == {"cancel before start", "message while running"}

ASSUME AgentAssumption ==
  /\ MaxSpawns \in Nat /\ MaxEvents \in Nat
  /\ Limit \in Nat \ {0}
  /\ Kinds \in [Agents -> SUBSET KindNames]
  /\ Races \subseteq RaceNames
  /\ Null \notin Actors /\ Null \notin KindNames

VARIABLES
  kind, parent,     \* of each sub-agent
  phase,            \* "unused", "creating", "live", "gone" or "dropped"
  order,            \* _sub_agent_order: which tracked sub-agent is older than which
  status, cancelRequested,  \* fields of SubAgentInfo
  run,              \* its tasks, in order: the last is generate_task
  cancelled,        \* the tasks a cancellation is on its way to
  waiter,           \* of a blocking invoke: "spawning" and then "waiting"
  yielding, awaited,  \* an actor inside Yield, and the tasks it awaits
  linger,           \* sub-agents whose delayed cleanup is pending
  instances,        \* the uuids of sub-agents with an AgentService of their own
  tree,             \* AgentTree._nodes
  interrupted,      \* the primary's output task is being cancelled
  owed, strays,     \* history: runs whose yield is yet to be told; other results told
  events

fields == <<kind, parent>>
infos == <<status, cancelRequested>>
tasks == <<run, cancelled>>
tracking == <<phase, order, linger, instances, tree>>
waits == <<waiter, yielding, awaited, interrupted>>
history == <<owed, strays>>
vars == <<fields, infos, tasks, tracking, waits, history, events>>

Runs == 1..(MaxEvents + 1)
Terminal == {"finished", "error"}
Tracked == {a \in Agents : phase[a] = "live"}

AgentTypeOK ==
  /\ kind \in [Agents -> KindNames \cup {Null}]
  /\ parent \in [Agents -> Actors \cup {Null}]
  /\ phase \in [Agents -> {"unused", "creating", "live", "gone", "dropped"}]
  /\ order \subseteq Tracked \X Tracked
  /\ \A a, b \in Tracked : <<a, b>> \in order <=> a # b /\ <<b, a>> \notin order
  /\ status \in [Agents -> {"created", "running"} \cup Terminal]
  /\ cancelRequested \in [Agents -> BOOLEAN]
  /\ run \in [Agents -> Seq({"created", "generating", "ended"})]
  /\ \A a \in Agents : Len(run[a]) <= MaxEvents + 1
  /\ cancelled \subseteq Agents \X Runs
  /\ waiter \in [Agents -> {"none", "spawning", "waiting"}]
  /\ yielding \in [Actors -> {"no", "tasks", "statuses"}]
  /\ awaited \in [Actors -> SUBSET (Agents \X Runs)]
  /\ linger \subseteq Agents /\ instances \subseteq Agents
  /\ interrupted \in BOOLEAN
  /\ owed \subseteq Agents \X Runs
  /\ strays \in Nat
  /\ events \in 0..MaxEvents

Init ==
  /\ kind = [a \in Agents |-> Null] /\ parent = [a \in Agents |-> Null]
  /\ phase = [a \in Agents |-> "unused"]
  /\ order = {}
  /\ status = [a \in Agents |-> "created"]
  /\ cancelRequested = [a \in Agents |-> FALSE]
  /\ run = [a \in Agents |-> <<>>] /\ cancelled = {}
  /\ waiter = [a \in Agents |-> "none"]
  /\ yielding = [p \in Actors |-> "no"] /\ awaited = [p \in Actors |-> {}]
  /\ linger = {} /\ instances = {}
  /\ tree = Register(<<>>, Primary, Null, "primary")
  /\ interrupted = FALSE
  /\ owed = {} /\ strays = 0
  /\ events = 0

-----------------------------------------------------------------------------
(* What the steps look at.                                                 *)

Current(a) == <<a, Len(run[a])>>
Done(a) == run[a] # <<>> => Last(run[a]) = "ended"
Ended(t) == run[t[1]][t[2]] = "ended"
Children(p) == {a \in Tracked : parent[a] = p}
Stopping(p) == IF p = Primary THEN interrupted ELSE Current(p) \in cancelled

\* p is inside generate() and its task has not been cancelled.
AtWork(p) ==
  /\ p # Primary => ~Done(p) /\ Last(run[p]) = "generating"
  /\ ~Stopping(p)
  /\ yielding[p] = "no"

\* What a call of Delegate by p has under way.
Outstanding(p) ==
  {a \in Agents : /\ parent[a] = p /\ kind[a] \in Delegated
                  /\ phase[a] = "creating" \/ waiter[a] = "waiting"}

Active == {a \in Tracked : status[a] \notin Terminal}
AtLimit == Cardinality(Active) >= Limit

\* What was spawned below a and is still tracked, through agents that are: what
\* is in every set that holds a and the children of its members.
Below(a) ==
  LET Closed == {S \in SUBSET Agents : a \in S /\ \A b \in S : Children(b) \subseteq S}
  IN {b \in Tracked : \A S \in Closed : b \in S} \ {a}

\* Broken variant of Eligible: only its children are looked at.
EligibleByChildren(a) ==
  /\ a \in Tracked
  /\ status[a] \in Terminal
  /\ kind[a] \in AutoReap
  /\ Done(a)
  /\ \A b \in Children(a) : status[b] \in Terminal

Eligible(a) ==
  /\ a \in Tracked
  /\ status[a] \in Terminal
  /\ kind[a] \in AutoReap
  /\ Done(a)
  /\ \A b \in Below(a) : status[b] \in Terminal

Finished == {a \in Agents : Eligible(a)}
Oldest(s) == {a \in s : \A b \in s \ {a} : <<a, b>> \in order}

\* The tree ends up the same in whatever order they leave it.
UnregisterAll(s) == FoldSet(LAMBDA a, t : Unregister(t, a), tree, s)
Unfinished(s) == {Current(a) : a \in {b \in s : ~Done(b)}}
Left(s) == (Tracked \ s) \X (Tracked \ s)

\* Broken variant of Cleanup: the task goes on.
CleanupLeavesTask(s) ==
  /\ order' = order \cap Left(s)
  /\ phase' = [a \in Agents |-> IF a \in s THEN "gone" ELSE phase[a]]
  /\ instances' = instances \ s
  /\ tree' = UnregisterAll(s)
  /\ UNCHANGED tasks

\* Broken variant of Cleanup: it stays in the list of agents.
CleanupKeepsOrder(s) ==
  /\ phase' = [a \in Agents |-> IF a \in s THEN "gone" ELSE phase[a]]
  /\ cancelled' = cancelled \cup Unfinished(s)
  /\ instances' = instances \ s
  /\ tree' = UnregisterAll(s)
  /\ UNCHANGED <<run, order>>

\* _cleanup_sub_agent for each agent of s.
Cleanup(s) ==
  /\ order' = order \cap Left(s)
  /\ phase' = [a \in Agents |-> IF a \in s THEN "gone" ELSE phase[a]]
  /\ cancelled' = cancelled \cup Unfinished(s)
  /\ instances' = instances \ s
  /\ tree' = UnregisterAll(s)
  /\ UNCHANGED run

Event == events < MaxEvents /\ events' = events + 1

\* A cancellation reaches tasks ts before their first step only as a race.
Cancellable(ts) ==
  \/ "cancel before start" \in Races
  \/ \A t \in ts : run[t[1]][t[2]] # "created"

-----------------------------------------------------------------------------
(* Spawning: the limit is tested, the coder built, the limit tested again  *)
(* and the sub-agent registered.                                           *)

\* At the limit the oldest finished agent is reaped; finished ones are not
\* counted, so the spawn is refused all the same.
LazyReap == Cleanup(Oldest(Finished))

MayAsk(p, k) ==
  /\ k \in Delegated => AtWork(p)
  /\ k \notin Delegated => p = Primary

\* The coder's constructor, which runs before anything is awaited, calls
\* get_instance: a sub-agent of a sub-agent without a service gets one, which
\* puts it into the tree.
SpawnBegin(p, a, k, w) ==
  /\ MayAsk(p, k)
  /\ w = "spawning" => k \in Delegated
  /\ phase[a] = "unused" /\ \A b \in 1..(a - 1) : phase[b] # "unused"
  /\ ~AtLimit
  /\ kind' = [kind EXCEPT ![a] = k]
  /\ parent' = [parent EXCEPT ![a] = p]
  /\ phase' = [phase EXCEPT ![a] = "creating"]
  /\ waiter' = [waiter EXCEPT ![a] = w]
  /\ LET own == p # Primary /\ p \notin instances IN
     /\ instances' = IF own THEN instances \cup {a} ELSE instances
     /\ tree' = IF own THEN Register(tree, a, p, "primary") ELSE tree
  /\ UNCHANGED <<infos, tasks, order, linger, yielding, awaited, interrupted, history, events>>

SpawnRefused(p) ==
  /\ \E k \in KindNames : MayAsk(p, k)
  /\ AtLimit
  /\ LazyReap
  /\ UNCHANGED <<fields, infos, linger, waits, history, events>>

Wanted(a) == kind[a] \in Delegated => ~Stopping(parent[a])

NameOf(k) == IF k = "workflow" THEN "wf" ELSE "agent"
\* /spawn-agent without a prompt waits for the user.
FirstTask(a) == IF kind[a] = "user" THEN run ELSE [run EXCEPT ![a] = <<"created">>]

\* From the second test to the task of its prompt nothing is awaited.
Joins(a) ==
  /\ phase' = [phase EXCEPT ![a] = "live"]
  /\ order' = order \cup (Tracked \X {a})
  /\ tree' = Register(tree, a, parent[a], NameOf(kind[a]))
  /\ run' = FirstTask(a)
  /\ waiter' = [waiter EXCEPT ![a] = IF @ = "spawning" THEN "waiting" ELSE @]

\* Broken variant of SpawnRegister: only the first test.
SpawnRegisterUnchecked(a) ==
  /\ phase[a] = "creating" /\ Wanted(a)
  /\ Joins(a)
  /\ UNCHANGED <<fields, infos, cancelled, linger, instances, yielding, awaited,
                 interrupted, history, events>>

SpawnRegister(a) ==
  /\ phase[a] = "creating" /\ Wanted(a)
  /\ ~AtLimit
  /\ Joins(a)
  /\ UNCHANGED <<fields, infos, cancelled, linger, instances, yielding, awaited,
                 interrupted, history, events>>

\* The second test fails: what the constructor left stays behind.
SpawnTooLate(a) ==
  /\ phase[a] = "creating" /\ Wanted(a)
  /\ AtLimit
  /\ LET s == Oldest(Finished) IN
     /\ order' = order \cap Left(s)
     /\ phase' = [b \in Agents |-> IF b = a THEN "dropped"
                                   ELSE IF b \in s THEN "gone" ELSE phase[b]]
     /\ instances' = instances \ s
     /\ tree' = UnregisterAll(s)
  /\ UNCHANGED <<fields, infos, tasks, linger, waits, history, events>>

\* The caller's task is cancelled while the coder is being built.
SpawnDies(a) ==
  /\ phase[a] = "creating" /\ ~Wanted(a)
  /\ phase' = [phase EXCEPT ![a] = "dropped"]
  /\ UNCHANGED <<fields, infos, tasks, order, linger, instances, tree, waits, history, events>>

-----------------------------------------------------------------------------
(* Running.                                                                *)

\* start_generate_task for a message typed to the agent or broadcast to it.
Message(a) ==
  /\ a \in Tracked /\ Event
  /\ Done(a) \/ "message while running" \in Races
  /\ run' = [run EXCEPT ![a] = Append(@, "created")]
  /\ cancelled' = IF Done(a) THEN cancelled ELSE cancelled \cup {Current(a)}
  /\ UNCHANGED <<fields, infos, tracking, waits, owed, strays>>

End(a, n) ==
  /\ run' = [run EXCEPT ![a][n] = "ended"]
  /\ cancelled' = cancelled \ {<<a, n>>}

FirstStep(a, n) ==
  /\ run[a][n] = "created" /\ <<a, n>> \notin cancelled
  /\ run' = [run EXCEPT ![a][n] = "generating"]
  /\ status' = [status EXCEPT ![a] = "running"]
  /\ cancelRequested' = [cancelRequested EXCEPT ![a] = FALSE]
  /\ UNCHANGED <<fields, cancelled, tracking, waits, history, events>>

\* Cancelled before its first step, a task runs none of its body.
NeverStarts(a, n) ==
  /\ run[a][n] = "created" /\ <<a, n>> \in cancelled
  /\ End(a, n)
  /\ UNCHANGED <<fields, infos, tracking, waits, history, events>>

\* Nothing of this agent is under way but the task itself.
MayEnd(a, n) ==
  /\ run[a][n] = "generating"
  /\ n = Len(run[a]) => yielding[a] = "no" /\ Outstanding(a) = {}

Tell(a, n) ==
  /\ owed' = owed \ {<<a, n>>}
  /\ strays' = IF <<a, n>> \in owed THEN strays ELSE strays + 1
\* Broken variant of Inject: the status is set first.
InjectAlways(a, n) ==
  IF parent[a] = Primary \/ parent[a] \in Tracked THEN Tell(a, n) ELSE UNCHANGED <<owed, strays>>

\* Only a result that is final when the task ends is told to the parent.
Inject(a, n) ==
  IF status[a] \in Terminal /\ (parent[a] = Primary \/ parent[a] \in Tracked)
  THEN Tell(a, n) ELSE UNCHANGED <<owed, strays>>

\* Broken variant of Finish: the status is left to Yield.
FinishQuietly(a, n) == UNCHANGED status

\* A run that did not yield is finished when it returns.
Finish(a, n) == status' = [status EXCEPT ![a] = IF @ = "running" THEN "finished" ELSE @]
\* generate() returns, also when it took the cancellation for a ^C.
Returns(a, n) ==
  /\ MayEnd(a, n)
  /\ End(a, n)
  /\ Inject(a, n)
  /\ Finish(a, n)
  /\ linger' = IF kind[a] \in AutoReap \cap Independent THEN linger \cup {a} ELSE linger
  /\ UNCHANGED <<fields, cancelRequested, phase, order, instances, tree, waits,
                 events>>

CancelledOut(a, n) ==
  /\ MayEnd(a, n) /\ <<a, n>> \in cancelled
  /\ End(a, n)
  /\ Inject(a, n)
  /\ status' = [status EXCEPT ![a] = "finished"]
  /\ UNCHANGED <<fields, cancelRequested, tracking, waits, events>>

Fails(a, n) ==
  /\ MayEnd(a, n) /\ Event
  /\ End(a, n)
  /\ Inject(a, n)
  /\ status' = [status EXCEPT ![a] = "error"]
  /\ UNCHANGED <<fields, cancelRequested, tracking, waits>>

-----------------------------------------------------------------------------
(* Yield.                                                                  *)

Dependents(p) == {a \in Children(p) : kind[a] \notin Independent}
Busy(p) == {a \in Dependents(p) : ~Done(a)}

\* With no child at work: reap what has finished, then mark the caller.
\* The mark is looked up in the parent's own service.
Yield(p) ==
  /\ AtWork(p) /\ Outstanding(p) = {}
  /\ Busy(p) = {}
  /\ Cleanup(Finished)
  /\ LET marked == p # Primary /\ parent[p] = Primary /\ p \in Tracked IN
     status' = IF marked THEN [status EXCEPT ![p] = "finished"] ELSE status
  /\ owed' = IF p = Primary THEN owed ELSE owed \cup {Current(p)}
  /\ UNCHANGED <<fields, cancelRequested, linger, waits, strays, events>>

YieldWaits(p) ==
  /\ AtWork(p) /\ Outstanding(p) = {}
  /\ Busy(p) # {}
  /\ yielding' = [yielding EXCEPT ![p] = "tasks"]
  /\ awaited' = [awaited EXCEPT ![p] = {Current(a) : a \in Busy(p)}]
  /\ UNCHANGED <<fields, infos, tasks, tracking, waiter, interrupted, history, events>>

Leave(p) ==
  /\ yielding' = [yielding EXCEPT ![p] = "no"]
  /\ awaited' = [awaited EXCEPT ![p] = {}]
  /\ UNCHANGED <<waiter, interrupted>>

\* The tasks are over; the statuses are polled.
YieldPolls(p) ==
  /\ yielding[p] = "tasks" /\ ~Stopping(p)
  /\ \A t \in awaited[p] : Ended(t)
  /\ yielding' = [yielding EXCEPT ![p] = "statuses"]
  /\ awaited' = [awaited EXCEPT ![p] = {}]
  /\ UNCHANGED <<fields, infos, tasks, tracking, waiter, interrupted, history, events>>

YieldReturns(p) ==
  /\ yielding[p] = "statuses" /\ ~Stopping(p)
  /\ \A a \in Dependents(p) : status[a] \in Terminal
  /\ Cleanup(Finished)
  /\ Leave(p)
  /\ UNCHANGED <<fields, infos, linger, history, events>>

\* interrupt_event is set: the children awaited are cancelled, or the poll
\* is given up.
YieldInterrupted(p) ==
  /\ ~Stopping(p) /\ Event
  /\ \/ /\ yielding[p] = "tasks"
        /\ LET ts == {t \in awaited[p] : ~Ended(t)} IN
           Cancellable(ts) /\ cancelled' = cancelled \cup ts
        /\ UNCHANGED <<tracking, run>>
     \/ /\ yielding[p] = "statuses"
        /\ Cleanup(Finished)
        /\ UNCHANGED linger
  /\ Leave(p)
  /\ UNCHANGED <<fields, infos, history>>

YieldCancelled(p) ==
  /\ yielding[p] # "no" /\ Stopping(p)
  /\ Leave(p)
  /\ UNCHANGED <<fields, infos, tasks, tracking, history, events>>

-----------------------------------------------------------------------------
(* Waiting for a blocking delegation, cancelling and reaping.              *)

InvokeReturns(a) ==
  /\ waiter[a] = "waiting" /\ run[a][1] = "ended"
  /\ waiter' = [waiter EXCEPT ![a] = "none"]
  /\ UNCHANGED <<fields, infos, tasks, tracking, yielding, awaited, interrupted, history, events>>

\* The caller is cancelled: it stops the sub-agent it was waiting for, unless
\* that one was cancelled itself.
CallerCancelled(a) ==
  /\ waiter[a] = "waiting" /\ Stopping(parent[a])
  /\ ~cancelRequested[a] /\ run[a][1] # "ended"
  /\ Cancellable({<<a, 1>>})
  /\ waiter' = [waiter EXCEPT ![a] = "none"]
  /\ cancelRequested' = [cancelRequested EXCEPT ![a] = TRUE]
  /\ cancelled' = cancelled \cup {<<a, 1>>}
  /\ UNCHANGED <<fields, status, run, tracking, yielding, awaited, interrupted,
                 history, events>>

\* cancel_sub_agent
CancelAgent(a) ==
  /\ a \in Tracked /\ ~Done(a) /\ Event
  /\ Cancellable({Current(a)})
  /\ cancelRequested' = [cancelRequested EXCEPT ![a] = TRUE]
  /\ cancelled' = cancelled \cup {Current(a)}
  /\ UNCHANGED <<fields, status, run, tracking, waits, history>>

\* The user stops the primary: its output task is cancelled.
Interrupt ==
  /\ ~interrupted /\ Event
  /\ Outstanding(Primary) # {} \/ yielding[Primary] # "no"
  /\ interrupted' = TRUE
  /\ UNCHANGED <<fields, infos, tasks, tracking, waiter, yielding, awaited, history>>

\* ... and has unwound.
Interrupted ==
  /\ interrupted /\ Outstanding(Primary) = {} /\ yielding[Primary] = "no"
  /\ interrupted' = FALSE
  /\ UNCHANGED <<fields, infos, tasks, tracking, waiter, yielding, awaited, history, events>>

\* /reap-agent removes any sub-agent; so does a workflow its worker.
ReapAgent(a) ==
  /\ a \in Tracked /\ Event
  /\ Cleanup({a})
  /\ UNCHANGED <<fields, infos, linger, waits, history>>

DelayedCleanup(a) ==
  /\ a \in linger
  /\ linger' = linger \ {a}
  /\ Cleanup({a} \cap Tracked)
  /\ UNCHANGED <<fields, infos, waits, history, events>>

-----------------------------------------------------------------------------
Spawning(a) ==
  \/ \E p \in Actors, k \in Kinds[a], w \in {"none", "spawning"} : SpawnBegin(p, a, k, w)
  \/ SpawnRegister(a) \/ SpawnTooLate(a) \/ SpawnDies(a)

Running(a) ==
  \E n \in DOMAIN run[a] : \/ FirstStep(a, n) \/ NeverStarts(a, n)
                           \/ Returns(a, n) \/ CancelledOut(a, n) \/ Fails(a, n)

Yielding(p) ==
  Yield(p) \/ YieldWaits(p) \/ YieldPolls(p) \/ YieldReturns(p)
  \/ YieldInterrupted(p) \/ YieldCancelled(p)

Ending(a) == InvokeReturns(a) \/ CallerCancelled(a) \/ CancelAgent(a) \/ ReapAgent(a) \/ DelayedCleanup(a)

Next ==
  \/ \E a \in Agents : Spawning(a) \/ Message(a) \/ Running(a) \/ Ending(a)
  \/ \E p \in Actors : SpawnRefused(p) \/ Yielding(p)
  \/ Interrupt \/ Interrupted

\* The loop runs what is ready, and what is cancelled unwinds; work itself need
\* not end.
Unwinds(a) ==
  \E n \in DOMAIN run[a] : \/ FirstStep(a, n) \/ NeverStarts(a, n)
                           \/ <<a, n>> \in cancelled /\ (Returns(a, n) \/ CancelledOut(a, n))
Ready(a) ==
  Unwinds(a) \/ YieldCancelled(a) \/ SpawnDies(a) \/ InvokeReturns(a) \/ CallerCancelled(a)

Fairness == WF_vars(YieldCancelled(Primary)) /\ \A a \in Agents : WF_vars(Ready(a))

Spec == Init /\ [][Next]_vars /\ Fairness

-----------------------------------------------------------------------------
(* Properties.                                                             *)

\* What is polled is the status, what runs is the task: a tracked agent whose
\* task is over has a final status, one whose task is at work is running or has
\* yielded in that very run, and at most one task of it is at work.  A stale
\* status would make Yield wait for good, or let a working agent be reaped.
StatusFollowsRun ==
  \A a \in Tracked :
    /\ run[a] # <<>> /\ Done(a) => status[a] \in Terminal
    /\ run[a] # <<>> /\ Last(run[a]) = "generating" =>
         status[a] = "running" \/ (status[a] = "finished" /\ Current(a) \in owed)
    /\ \A n \in 1..(Len(run[a]) - 1) : run[a][n] = "ended"

\* The result of a sub-agent of the primary is told to it once for each run in
\* which it yielded, however that run then ended, and a run that did not yield
\* tells nothing.
YieldIsDelivered ==
  /\ strays = 0
  /\ \A t \in owed : parent[t[1]] = Primary => ~Ended(t)

\* Results "are reported back to the parent conversation" (agent-mode.md:292),
\* whoever the parent is, as long as it is there.
ResultsReachParent ==
  \A t \in owed : parent[t[1]] \in Tracked \cup {Primary} => ~Ended(t)

\* A reaper goes by status; what it may take has nothing at work, at any depth
\* below it through tracked agents, and no spawn of its own in flight.  (A task
\* that has not taken its first step is invisible to it: the status is set
\* there.)
ReapSafe ==
  \A a \in Agents : Eligible(a) =>
    Outstanding(a) = {} /\ \A b \in Below(a) : ~Done(b) => Last(run[b]) = "created"

\* A caller that waits for a sub-agent which was cancelled or removed, or that
\* was cancelled itself, is not left waiting: again and again there is none.
LeftWaiting(a) ==
  waiter[a] = "waiting" /\ (phase[a] = "gone" \/ <<a, 1>> \in cancelled \/ Stopping(parent[a]))
InvokeIsReleased == []<>(\A a \in Agents : ~LeftWaiting(a))

\* However many spawns are in flight, the agents at work on the prompt they were
\* spawned for never exceed max_sub_agents.  (A later message is not counted.)
LimitHolds == Cardinality({a \in Active : Len(run[a]) <= 1}) <= Limit

\* Where an agent belongs: below the nearest of those it descends from that is
\* left, and in the domain of the workflow it works for.
Home[a \in Agents] ==
  IF parent[a] = Null \/ parent[a] \in DOMAIN tree THEN parent[a] ELSE Home[parent[a]]
Domain[a \in Actors] ==
  IF a = Primary THEN Null
  ELSE IF kind[a] = "workflow" THEN a
  ELSE IF parent[a] = Null THEN Null ELSE Domain[parent[a]]

\* The tree holds the tracked agents (and what the constructor put there for a
\* spawn in flight or given up), each at its place and in the domain of its
\* origin, also after agents above it are gone; links agree in both directions.
TreeFollowsSpawns ==
  /\ DOMAIN tree = {Primary} \cup Tracked \cup {a \in instances : phase[a] \in {"creating", "dropped"}}
  /\ \A a \in DOMAIN tree \ {Primary} :
       tree[a].parent = Home[a] /\ tree[a].workflow = Domain[a]
  /\ \A a, b \in DOMAIN tree : a \in tree[b].children <=> tree[a].parent = b

=============================================================================
