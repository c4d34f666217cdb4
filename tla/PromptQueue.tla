---------------------------- MODULE PromptQueue ----------------------------
(***************************************************************************)
(* The queue of prompts of one agent: src/cecli/helpers/command_queue.py,  *)
(* its drain process_prompt_queue and the calls of it in run_one           *)
(* (src/cecli/coders/base_coder.py), the tasks a workflow stages on it     *)
(* (helpers/workflows/runner.py) and its handover to a replacement coder.  *)
(*                                                                         *)
(* An agent is a series of coder objects: a command may ask for the coder  *)
(* to be rebuilt.  Everybody finds the new coder of a sub-agent as soon as *)
(* its constructor has run, before it has the queue.  Tasks run on the     *)
(* worker loop and interleave where they await; producers (the interface's *)
(* thread, and the queue commands) edit the queue between any two steps.   *)
(***************************************************************************)
EXTENDS Integers, SequencesExt

CONSTANTS
  Agents,       \* the kinds of agent considered, among AgentKinds
  Own,          \* the agent's generate() tasks
  Foreign,      \* /queue run of another coder that drains this one's queue
  Producers,    \* who edits the queue
  Null,
  Capacity,     \* MAX_QUEUE_SIZE
  Races,        \* what may meet, among RaceNames
  MaxPrompts,   \* bound: prompts accepted
  MaxMessages,  \* bound: messages begun
  MaxStops,     \* bound: interruptions, failures and switches
  MaxSwitches   \* bound: coders rebuilt

Tasks == Own \cup Foreign
Coders == 1..(MaxSwitches + 1)
Prompts == 1..MaxPrompts
AgentKinds == {"primary", "subagent", "worker"}
RaceNames == {"edit while handing over", "foreign run while handing over",
              "foreign run while resetting", "two runs waiting", "slow unwinding"}
\* "compact" stands for the commands that drain: /compact and /queue run.
Kinds == {"chat", "command", "compact", "switch"}

ASSUME PromptAssumption ==
  /\ Agents \subseteq AgentKinds
  /\ Races \subseteq RaceNames
  /\ IsFiniteSet(Own) /\ IsFiniteSet(Producers)
  /\ Own \cap Foreign = {}
  /\ Capacity \in Nat \ {0}
  /\ MaxPrompts \in Nat /\ MaxMessages \in Nat /\ MaxStops \in Nat /\ MaxSwitches \in Nat
  /\ Null \notin Prompts /\ Null \notin [coder : Coders, place : Nat]

VARIABLES
  agent,       \* the kind of agent
  current,     \* the coder that has the agent's queue: the old one until a
               \* rebuild is over
  known,       \* the coder the session finds: worker.coder, info.coder
  \* fields of each coder object
  queue, active, processing, drainAfter, interrupt,
  \* tasks: where each one is, with which coder, queued prompt and message
  pc, on, item, kind,
  cancelled,   \* the tasks a cancellation is on its way to
  producer,    \* a producer between its capacity check and the append
  \* history
  fate,        \* what became of each prompt
  starts,      \* how often it was started
  accepted, messages, stops

coderVars == <<queue, active, processing, drainAfter, interrupt>>
taskVars == <<pc, on, item, kind, cancelled>>
history == <<fate, starts, accepted, messages, stops>>
vars == <<agent, current, known, coderVars, taskVars, producer, history>>

Steps == {"idle", "opening", "working", "next", "running", "creating", "copied"}

PromptTypeOK ==
  /\ agent \in AgentKinds
  /\ current \in Coders /\ known \in Coders
  /\ queue \in [Coders -> Seq(Prompts)]
  /\ active \in [Coders -> Prompts \cup {Null}]
  /\ processing \in [Coders -> BOOLEAN]
  /\ drainAfter \in [Coders -> BOOLEAN]
  /\ interrupt \in [Coders -> BOOLEAN]
  /\ pc \in [Tasks -> Steps]
  /\ on \in [Tasks -> Coders]
  /\ item \in [Tasks -> Prompts \cup {Null}]
  /\ kind \in [Tasks -> Kinds]
  /\ cancelled \subseteq Tasks
  /\ \A t \in Tasks : item[t] # Null => pc[t] \in {"next", "running", "creating", "copied"}
  /\ producer \in [Producers -> [coder : Coders, place : Nat] \cup {Null}]
  /\ fate \in [Prompts -> {"new", "waiting", "done", "failed", "removed", "lost"}]
  /\ starts \in [Prompts -> Nat]
  /\ accepted \in 0..MaxPrompts
  /\ messages \in 0..MaxMessages
  /\ stops \in Nat

Init ==
  /\ agent \in Agents
  /\ current = 1 /\ known = 1
  /\ queue = [c \in Coders |-> <<>>]
  /\ active = [c \in Coders |-> Null]
  /\ processing = [c \in Coders |-> FALSE]
  /\ drainAfter = [c \in Coders |-> FALSE]
  /\ interrupt = [c \in Coders |-> FALSE]
  /\ pc = [t \in Tasks |-> "idle"]
  /\ on = [t \in Tasks |-> 1]
  /\ item = [t \in Tasks |-> Null]
  /\ kind = [t \in Tasks |-> "chat"]
  /\ cancelled = {}
  /\ producer = [p \in Producers |-> Null]
  /\ fate = [p \in Prompts |-> "new"]
  /\ starts = [p \in Prompts |-> 0]
  /\ accepted = 0 /\ messages = 0 /\ stops = 0

Switching == {t \in Tasks : pc[t] \in {"creating", "copied"}}
\* The queue is about to be overwritten or left behind: that of a sub-agent's
\* new coder from its constructor on, that of the primary once it is copied.
HandingOver == \E t \in Switching : pc[t] = "copied" \/ agent # "primary"
Idle(t) == pc[t] = "idle"

\* Prompts in front of the agent: the active one first.
Line(c) == (IF active[c] = Null THEN <<>> ELSE <<active[c]>>) \o queue[c]

-----------------------------------------------------------------------------
(* Producers.                                                              *)

\* The producers about to append.
Checked == {p \in Producers : producer[p] # Null}

\* Broken variant of Check: one too many.
CheckLate(p, place) ==
  /\ place <= Len(queue[known]) \/ place = MaxPrompts
  /\ producer[p] = Null
  /\ Len(queue[known]) <= Capacity
  /\ accepted + Cardinality(Checked) < MaxPrompts
  /\ producer' = [producer EXCEPT ![p] = [coder |-> known, place |-> place]]
  /\ UNCHANGED <<agent, current, known, coderVars, taskVars, history>>

\* enqueue_prompt and insert_prompt up to the lock: who is in the foreground,
\* is there room, and where to insert; the last place appends.
Check(p, place) ==
  /\ place <= Len(queue[known]) \/ place = MaxPrompts
  /\ producer[p] = Null
  /\ Len(queue[known]) < Capacity
  /\ accepted + Cardinality(Checked) < MaxPrompts
  /\ producer' = [producer EXCEPT ![p] = [coder |-> known, place |-> place]]
  /\ UNCHANGED <<agent, current, known, coderVars, taskVars, history>>

\* ... and under the lock.
Add(p) ==
  /\ producer[p] # Null
  /\ LET c == producer[p].coder
         place == IF producer[p].place < Len(queue[c]) THEN producer[p].place ELSE Len(queue[c])
     IN  queue' = [queue EXCEPT ![c] = InsertAt(@, place + 1, accepted + 1)]
  /\ accepted' = accepted + 1
  /\ fate' = [fate EXCEPT ![accepted + 1] = "waiting"]
  /\ producer' = [producer EXCEPT ![p] = Null]
  /\ UNCHANGED <<agent, current, known, active, processing, drainAfter, interrupt, taskVars, starts, messages, stops>>

\* remove_from_queue: the place is tested under the lock.
RemoveFrom(i) ==
  /\ i \in DOMAIN queue[known]
  /\ queue' = [queue EXCEPT ![known] = RemoveAt(@, i)]
  /\ fate' = [fate EXCEPT ![queue[known][i]] = "removed"]
  /\ UNCHANGED <<agent, current, known, active, processing, drainAfter, interrupt, taskVars, producer, starts, accepted, messages, stops>>

Dropped(set) == [p \in Prompts |-> IF p \in set THEN "removed" ELSE fate[p]]

\* clear_queue.
Clear ==
  /\ queue[known] # <<>>
  /\ queue' = [queue EXCEPT ![known] = <<>>]
  /\ fate' = Dropped(ToSet(queue[known]))
  /\ UNCHANGED <<agent, current, known, active, processing, drainAfter, interrupt, taskVars, producer, starts, accepted, messages, stops>>

-----------------------------------------------------------------------------
(* The drain.                                                              *)

\* A task returns.
Leave(t) ==
  /\ pc' = [pc EXCEPT ![t] = "idle"]
  /\ item' = [item EXCEPT ![t] = Null]
  /\ kind' = [kind EXCEPT ![t] = "chat"]
  /\ cancelled' = cancelled \ {t}

\* dequeue_for_processing, on queues q and active prompts a; when nothing is
\* left, the drain ends.
Dequeue(t, c, q, a) ==
  /\ on' = [on EXCEPT ![t] = c]
  /\ drainAfter' = [drainAfter EXCEPT ![c] = FALSE]
  /\ processing' = [processing EXCEPT ![c] = q[c] # <<>>]
  /\ \/ /\ q[c] = <<>>
        /\ queue' = q
        /\ active' = [a EXCEPT ![c] = Null]
        /\ Leave(t)
     \/ /\ q[c] # <<>>
        /\ queue' = [q EXCEPT ![c] = Tail(@)]
        /\ active' = [a EXCEPT ![c] = Head(q[c])]
        /\ pc' = [pc EXCEPT ![t] = "next"]
        /\ item' = [item EXCEPT ![t] = Head(q[c])]
        /\ kind' = [kind EXCEPT ![t] = "chat"]
        /\ UNCHANGED cancelled

\* Broken variant of Enter: a drain in progress is not noticed.
EnterTwice(t) == Dequeue(t, on[t], queue, active)

\* process_prompt_queue: re-entrant calls return immediately; run_one has reset
\* _drain_queue_after_command behind a command.
Enter(t) ==
  \/ ~processing[on[t]] /\ Dequeue(t, on[t], queue, active)
  \/ /\ processing[on[t]]
     /\ Leave(t)
     /\ drainAfter' = [drainAfter EXCEPT ![on[t]] = @ /\ kind[t] = "chat"]
     /\ UNCHANGED <<queue, active, processing, on>>

\* Broken variant of Requeue: at the end of the queue.
RequeueLast(c) ==
  queue' = IF active[c] = Null THEN queue ELSE [queue EXCEPT ![c] = Append(@, active[c])]

\* requeue_active_prompt: back to the front.
Requeue(c) ==
  queue' = IF active[c] = Null THEN queue ELSE [queue EXCEPT ![c] = <<active[c]>> \o @]

\* The drain ends with the active prompt put back.
Pause(t) ==
  /\ Requeue(on[t])
  /\ active' = [active EXCEPT ![on[t]] = Null]
  /\ processing' = [processing EXCEPT ![on[t]] = FALSE]
  /\ drainAfter' = [drainAfter EXCEPT ![on[t]] = FALSE]
  /\ Leave(t)
  /\ UNCHANGED on

\* generate() of a queued prompt has slept and clears the interrupt event.
Start(t) ==
  /\ pc[t] = "next"
  /\ t \notin cancelled
  /\ pc' = [pc EXCEPT ![t] = "running"]
  /\ interrupt' = [interrupt EXCEPT ![on[t]] = FALSE]
  /\ starts' = [starts EXCEPT ![item[t]] = @ + 1]
  /\ UNCHANGED <<agent, current, known, queue, active, processing, drainAfter, on, item, kind, cancelled, producer, fate, accepted, messages, stops>>

\* Broken variant of Done: a prompt that failed is tried again.
DoneRetry(t, outcome) ==
  /\ pc[t] = "running"
  /\ t \notin cancelled
  /\ ~interrupt[on[t]]
  /\ outcome = "done"
  /\ pc' = [pc EXCEPT ![t] = "next"]
  /\ UNCHANGED <<agent, current, known, coderVars, on, item, kind, cancelled, producer, history>>

\* generate() returns and nobody has interrupted, or it raises an Exception:
\* the next prompt.
Done(t, outcome) ==
  /\ pc[t] = "running"
  /\ t \notin cancelled
  /\ ~interrupt[on[t]] \/ outcome = "failed"
  /\ fate' = [fate EXCEPT ![item[t]] = outcome]
  /\ Dequeue(t, on[t], queue, active)
  /\ UNCHANGED <<agent, current, known, interrupt, producer, starts, accepted, messages, stops>>

\* generate() returns and the interrupt event is set.
Interrupted(t) ==
  /\ pc[t] = "running"
  /\ t \notin cancelled
  /\ interrupt[on[t]]
  /\ Pause(t)
  /\ UNCHANGED <<agent, current, known, interrupt, producer, history>>

\* Each model call and each batch of tools clears the interrupt event.
Swallow(t) ==
  /\ pc[t] \in {"working", "running"}
  /\ interrupt[on[t]]
  /\ interrupt' = [interrupt EXCEPT ![on[t]] = FALSE]
  /\ UNCHANGED <<agent, current, known, queue, active, processing, drainAfter, taskVars, producer, history>>

-----------------------------------------------------------------------------
(* Messages.                                                               *)

\* A message for the agent.  The primary has one task at a time; a new task
\* of a sub-agent cancels the one before (start_generate_task).
Begin(t, k) ==
  /\ Idle(t) /\ t \in Own
  /\ messages < MaxMessages
  /\ agent = "primary" => \A u \in Own : Idle(u)
  /\ LET others == {u \in Own : ~Idle(u)}
     IN  /\ cancelled' = cancelled \cup others
         /\ stops' = stops + Cardinality(others \ cancelled)
  /\ stops' <= MaxStops
  /\ pc' = [pc EXCEPT ![t] = "opening"]
  /\ on' = [on EXCEPT ![t] = known]
  /\ kind' = [kind EXCEPT ![t] = k]
  /\ messages' = messages + 1
  /\ UNCHANGED <<agent, current, known, coderVars, item, producer, fate, starts, accepted>>

\* A run of a workflow: the worker of the previous run is reset when that has
\* ended, even if another run that waited for it has begun since; the tasks
\* behind the first one are staged; the first one is begun.
RunWorkflow(t, k, n) ==
  /\ agent = "worker"
  /\ t \in Own /\ Idle(t)
  /\ (\A u \in Own : Idle(u)) \/ "two runs waiting" \in Races
  /\ cancelled' = cancelled \cup {u \in Own : ~Idle(u)}
  /\ (\A u \in Foreign : Idle(u)) \/ "foreign run while resetting" \in Races
  /\ messages < MaxMessages
  /\ n <= Capacity /\ accepted + n + Cardinality(Checked) <= MaxPrompts
  /\ queue' = [queue EXCEPT ![known] = [i \in 1..n |-> accepted + i]]
  /\ active' = [active EXCEPT ![known] = Null]
  /\ processing' = [processing EXCEPT ![known] = FALSE]
  /\ drainAfter' = [drainAfter EXCEPT ![known] = TRUE]
  /\ fate' = [p \in Prompts |-> IF p \in accepted + 1 .. accepted + n THEN "waiting"
                                ELSE Dropped(ToSet(Line(known)))[p]]
  /\ accepted' = accepted + n
  /\ messages' = messages + 1
  /\ pc' = [pc EXCEPT ![t] = "opening"]
  /\ on' = [on EXCEPT ![t] = known]
  /\ kind' = [kind EXCEPT ![t] = k]
  /\ UNCHANGED <<agent, current, known, interrupt, item, producer, starts, stops>>

\* generate() of a message has slept, long enough for the task it cancelled to
\* unwind, and clears the interrupt event.
Open(t) ==
  /\ pc[t] = "opening"
  /\ t \notin cancelled
  /\ Own \cap cancelled = {} \/ "slow unwinding" \in Races
  /\ pc' = [pc EXCEPT ![t] = "working"]
  /\ interrupt' = [interrupt EXCEPT ![on[t]] = FALSE]
  /\ UNCHANGED <<agent, current, known, queue, active, processing, drainAfter, on, item, kind, cancelled, producer, history>>

\* Broken variant of DrainsAfter: /compact does not ask for the drain.
DrainsAfterMessage(t) == kind[t] = "chat" \/ processing[on[t]] \/ drainAfter[on[t]]

\* run_one drains after a message, and after a command that asks for it.
DrainsAfter(t) == kind[t] \in {"chat", "compact"} \/ processing[on[t]] \/ drainAfter[on[t]]

MessageEnds(t) ==
  /\ pc[t] = "working"
  /\ t \notin cancelled
  /\ \/ DrainsAfter(t) /\ Enter(t)
     \/ ~DrainsAfter(t) /\ Leave(t) /\ UNCHANGED <<queue, active, processing, drainAfter, on>>
  /\ UNCHANGED <<agent, current, known, interrupt, producer, history>>

\* The message raises, or a start hook or the cost limit stops it.
MessageFails(t) ==
  /\ pc[t] = "working"
  /\ t \notin cancelled
  /\ stops < MaxStops
  /\ Leave(t)
  /\ stops' = stops + 1
  /\ UNCHANGED <<agent, current, known, coderVars, on, producer, fate, starts, accepted, messages>>

\* get_active_coder.  The service has the primary's new coder too, until the
\* interface asks with the one the worker still has.
Found == IF agent = "primary" /\ Switching # {} THEN {current, current + 1} ELSE {known}

\* Another coder's /queue run finds this agent in the foreground.
QueueRun(t) ==
  /\ t \in Foreign /\ Idle(t)
  /\ Switching = {} \/ "foreign run while handing over" \in Races
  /\ \E c \in Found : queue[c] # <<>> /\ ~processing[c] /\ Dequeue(t, c, queue, active)
  /\ UNCHANGED <<agent, current, known, interrupt, producer, history>>

-----------------------------------------------------------------------------
(* Interruptions and cancellations.                                        *)

Interrupt ==
  /\ \E t \in Tasks : ~Idle(t)
  /\ ~interrupt[known]
  /\ stops < MaxStops
  /\ interrupt' = [interrupt EXCEPT ![known] = TRUE]
  /\ stops' = stops + 1
  /\ UNCHANGED <<agent, current, known, queue, active, processing, drainAfter, taskVars, producer, fate, starts, accepted, messages>>

Cancel(t) ==
  /\ ~Idle(t) /\ (agent = "primary" => t \notin Switching)
  /\ t \notin cancelled
  /\ stops < MaxStops
  /\ cancelled' = cancelled \cup {t}
  /\ stops' = stops + 1
  /\ UNCHANGED <<agent, current, known, coderVars, pc, on, item, kind, producer, fate, starts, accepted, messages>>

\* The drain that a switch was raised in ends with it.
EndDrain(t) ==
  /\ processing' = [processing EXCEPT ![on[t]] = @ /\ item[t] = Null]
  /\ drainAfter' = [drainAfter EXCEPT ![on[t]] = @ /\ item[t] = Null]
  /\ Leave(t)

\* Coder.create is given up behind the constructor.  The primary's worker keeps
\* the old coder.  A sub-agent is left with the new one: with the copy of the
\* queue that Coder.create has made, or with none, and then the old coder's
\* prompts are lost with it.
GiveUp(t) ==
  /\ EndDrain(t)
  /\ IF agent = "primary"
     THEN queue' = [queue EXCEPT ![current + 1] = <<>>] /\ UNCHANGED <<current, fate>>
     ELSE /\ current' = current + 1
          /\ queue' = [queue EXCEPT ![current] = <<>>]
          /\ fate' = [p \in Prompts |->
                       IF pc[t] = "creating" /\ p \in ToSet(queue[current]) THEN "lost" ELSE fate[p]]

\* The cancellation reaches the task where it awaits.
Unwind(t) ==
  /\ t \in cancelled
  /\ \/ /\ pc[t] \in {"opening", "working"}
        /\ Leave(t)
        /\ UNCHANGED <<current, queue, active, processing, drainAfter, on, fate>>
     \/ pc[t] \in {"next", "running"} /\ Pause(t) /\ UNCHANGED <<current, fate>>
     \/ t \in Switching /\ GiveUp(t) /\ UNCHANGED <<active, on>>
  /\ UNCHANGED <<agent, known, interrupt, producer, starts, accepted, messages, stops>>

-----------------------------------------------------------------------------
(* A new coder for the agent.                                              *)

\* The message or the queued prompt, a command, raises SwitchCoderSignal.
Signals(t) ==
  /\ (pc[t] = "working" /\ kind[t] = "switch") \/ pc[t] = "running"
  /\ t \notin cancelled
  /\ current \in 1..MaxSwitches /\ on[t] = current
  /\ Switching = {}
  /\ (\A u \in Foreign : Idle(u)) \/ "foreign run while handing over" \in Races
  /\ fate' = IF item[t] = Null THEN fate ELSE [fate EXCEPT ![item[t]] = "done"]

\* The constructor of the new coder, the first step of Coder.create: for a
\* sub-agent it is the one the service finds from here on (get_instance).  The
\* primary's drain has ended with the signal; a sub-agent's is in its handler.
Switch(t) ==
  /\ Signals(t)
  /\ pc' = [pc EXCEPT ![t] = "creating"]
  /\ known' = IF agent = "primary" THEN known ELSE current + 1
  /\ IF agent = "primary" /\ item[t] # Null
     THEN /\ processing' = [processing EXCEPT ![current] = FALSE]
          /\ drainAfter' = [drainAfter EXCEPT ![current] = FALSE]
     ELSE UNCHANGED <<processing, drainAfter>>
  /\ UNCHANGED <<agent, current, queue, active, interrupt, on, item, kind, cancelled, producer, starts, accepted, messages, stops>>

\* Coder.create fails before the new coder is known.
SwitchRefused(t) ==
  /\ Signals(t)
  /\ stops < MaxStops
  /\ stops' = stops + 1
  /\ EndDrain(t)
  /\ UNCHANGED <<agent, current, known, queue, active, interrupt, on, producer, starts, accepted, messages>>

\* Broken variant of Copy: the queue stays behind.
CopyNothing(t) ==
  /\ pc[t] = "creating" /\ t \notin cancelled
  /\ pc' = [pc EXCEPT ![t] = "copied"]
  /\ UNCHANGED <<agent, current, known, coderVars, on, item, kind, cancelled, producer, history>>

\* Coder.create, in the middle: the new coder gets a copy of the queue in place
\* of the one it has.
Copy(t) ==
  /\ pc[t] = "creating" /\ t \notin cancelled
  /\ pc' = [pc EXCEPT ![t] = "copied"]
  /\ queue' = [queue EXCEPT ![current + 1] = queue[current]]
  /\ UNCHANGED <<agent, current, known, active, processing, drainAfter, interrupt, on, item, kind, cancelled, producer, history>>

\* Coder.create fails after it: its MCP manager or tools do.
SwitchFails(t) ==
  /\ t \in Switching /\ t \notin cancelled
  /\ stops < MaxStops
  /\ stops' = stops + 1
  /\ GiveUp(t)
  /\ UNCHANGED <<agent, known, active, interrupt, on, producer, starts, accepted, messages>>

\* The primary's worker goes on with the new coder, and waits for input.
AdoptPrimary(t) ==
  /\ agent = "primary"
  /\ pc[t] = "copied" /\ t \notin cancelled
  /\ current' = current + 1
  /\ known' = current + 1
  /\ Leave(t)
  /\ stops' = stops + 1
  /\ UNCHANGED <<agent, coderVars, on, producer, fate, starts, accepted, messages>>

\* switch_sub_agent_coder, once it has the new coder: a second copy of the
\* queue, the old coder is emptied and the new one drained.
AdoptSubAgent(t) ==
  /\ agent # "primary"
  /\ pc[t] = "copied" /\ t \notin cancelled
  /\ current' = current + 1
  /\ LET q == [queue EXCEPT ![current + 1] = queue[current], ![current] = <<>>]
         a == [active EXCEPT ![current] = Null]
     IN  \/ ~processing[current + 1] /\ Dequeue(t, current + 1, q, a)
         \/ /\ processing[current + 1]
            /\ Leave(t)
            /\ queue' = q /\ active' = a
            /\ UNCHANGED <<processing, drainAfter, on>>
  /\ UNCHANGED <<agent, known, interrupt, producer, history>>

Task(t) ==
  \/ Open(t) \/ MessageEnds(t) \/ Start(t) \/ Interrupted(t) \/ Unwind(t)
  \/ \E outcome \in {"done", "failed"} : Done(t, outcome)
  \/ Switch(t) \/ Copy(t) \/ AdoptPrimary(t) \/ AdoptSubAgent(t)

Loop ==
  \/ \E t \in Tasks : Task(t) \/ Swallow(t) \/ MessageFails(t) \/ SwitchRefused(t) \/ SwitchFails(t) \/ QueueRun(t) \/ Cancel(t)
  \/ \E t \in Own, k \in Kinds : Begin(t, k) \/ \E n \in 1..MaxPrompts : RunWorkflow(t, k, n)
  \/ Interrupt

Edit ==
  \/ \E p \in Producers, place \in 0..MaxPrompts : Check(p, place)
  \/ \E i \in 1..MaxPrompts : RemoveFrom(i)
  \/ Clear

\* Whether the queue may be edited while it is handed over, also by a producer
\* that looked up the coder before, is up to Races; the code does not ask.
Next ==
  \/ \E p \in Producers : Add(p)
  \/ Edit /\ (HandingOver => "edit while handing over" \in Races)
  \/ Loop /\ (HandingOver' /\ Checked # {} => "edit while handing over" \in Races)

Spec == Init /\ [][Next]_vars

\* The loop runs its tasks, model calls and commands end, and a producer that
\* has checked appends.
FairSpec ==
  /\ Spec
  /\ \A t \in Tasks : WF_vars(Task(t))
  /\ \A p \in Producers : WF_vars(Add(p))

-----------------------------------------------------------------------------

\* No prompt is lost but where the code gives its queue up: one that was
\* accepted and has neither run, failed nor been removed is queued or active at
\* the coder that has the agent's queue, once, whatever drains, interruptions,
\* cancellations, edits and rebuilds met (requeue_active_prompt,
\* Coder.create, switch_sub_agent_coder).  The exception is GiveUp.
NoPromptLost ==
  /\ \A p \in Prompts : fate[p] = "waiting" => Contains(Line(current), p)
  /\ IsInjective(Line(current))

\* ... and without that exception: "Atomically hand a sub-agent's remaining
\* queue to a replacement coder".
RebuildKeepsQueue == \A p \in Prompts : fate[p] # "lost"

\* The starts of prompts that were not their first, with times[p] of prompt p.
Repeated(times) == UNION {{p} \X (2..times[p]) : p \in Prompts}

\* A prompt is run again only if somebody has interrupted, cancelled or failed
\* something: there are at most as many second starts as there were stops.
RerunsAreInterruptions == Cardinality(Repeated(starts)) <= stops

\* The drain is one: a queued prompt is run by one task, as the active prompt
\* of its coder (_processing_queue).
OneDrain ==
  \A t \in Tasks : pc[t] \in {"next", "running"} =>
    /\ processing[on[t]] /\ active[on[t]] = item[t]
    /\ \A u \in Tasks \ {t} : pc[u] \in {"next", "running"} => on[u] # on[t]

\* MAX_QUEUE_SIZE is exceeded at most by the producers that have passed the
\* check together, or by a requeue among them.
CapacityOvershoot ==
  \A c \in Coders : Len(queue[c]) <= Capacity + Cardinality(Producers)

\* First in, first out, through every pause and handover: two prompts in line
\* never change places.
OrderKept ==
  [][\A i, j \in DOMAIN Line(current) : i < j =>
      ~ \E k, l \in DOMAIN Line(current)' :
          l < k /\ Line(current)'[k] = Line(current)[i] /\ Line(current)'[l] = Line(current)[j]]_vars

\* The agent is on its way through its queue, and nothing stops it.
Serving ==
  /\ cancelled = {}
  /\ ~ \E t \in Tasks : pc[t] = "running" /\ interrupt[on[t]]
  /\ \E t \in Tasks :
       /\ on[t] = current
       /\ \/ pc[t] \in {"next", "running"}
          \/ pc[t] \in {"opening", "working"} /\ (kind[t] \in {"chat", "compact"} \/ drainAfter[current])

\* An agent that answers a message, is compacted, runs a workflow or drains
\* gets through all that is in its queue, if nothing is interrupted, cancelled
\* or fails meanwhile.
QueueIsServed ==
  \A n \in 0..MaxStops + MaxSwitches :
    Line(current) # <<>> /\ Serving /\ stops = n ~> Line(current) = <<>> \/ stops > n

=============================================================================
