------------------------- MODULE PromptQueue_proofs -------------------------
(***************************************************************************)
(* Theorems about the queue of prompts (PromptQueue), for any number of    *)
(* tasks, producers, prompts, coders and stops:                            *)
(*   PromptTypeCorrect  the type invariant;                                *)
(*   CapacityBound      how far the queue may exceed its capacity;         *)
(*   SingleDrain        a queued prompt is run by one task at a time;      *)
(*   PromptsStayInLine  a prompt that waits is in line, once;              *)
(*   FirstInFirstOut    prompts in line never change places;               *)
(*   RerunsNeedStops    no more repeated starts than there were stops.     *)
(***************************************************************************)
EXTENDS PromptQueue, FiniteSetTheorems, TLAPS

-----------------------------------------------------------------------------
(* Types.                                                                  *)

CoderTypes ==
  /\ queue \in [Coders -> Seq(Prompts)]
  /\ active \in [Coders -> Prompts \cup {Null}]
  /\ processing \in [Coders -> BOOLEAN]
  /\ drainAfter \in [Coders -> BOOLEAN]

TaskTypes ==
  /\ pc \in [Tasks -> Steps]
  /\ on \in [Tasks -> Coders]
  /\ item \in [Tasks -> Prompts \cup {Null}]
  /\ kind \in [Tasks -> Kinds]
  /\ cancelled \subseteq Tasks
  /\ \A t \in Tasks : item[t] # Null => pc[t] \in {"next", "running", "creating", "copied"}

\* A task that returns keeps its fields typed.
LEMMA LeaveTypes ==
  ASSUME NEW t \in Tasks, TaskTypes, Leave(t), on' \in [Tasks -> Coders]
  PROVE  TaskTypes'
BY DEF TaskTypes, Leave, Steps, Kinds

\* dequeue_for_processing keeps coders and tasks typed.
LEMMA DequeueTypes ==
  ASSUME NEW t \in Tasks, NEW c \in Coders, NEW q \in [Coders -> Seq(Prompts)],
         NEW a \in [Coders -> Prompts \cup {Null}],
         CoderTypes, TaskTypes, Dequeue(t, c, q, a)
  PROVE  CoderTypes' /\ TaskTypes'
<1>1. on' \in [Tasks -> Coders] /\ drainAfter' \in [Coders -> BOOLEAN] /\ processing' \in [Coders -> BOOLEAN]
  BY DEF Dequeue, TaskTypes, CoderTypes
<1>2. CASE q[c] = <<>>
  BY <1>1, <1>2, LeaveTypes DEF Dequeue, CoderTypes
<1>3. CASE q[c] # <<>>
  <2>1. q[c] \in Seq(Prompts) /\ Head(q[c]) \in Prompts /\ Tail(q[c]) \in Seq(Prompts)
    BY <1>3
  <2>2. /\ queue' = [q EXCEPT ![c] = Tail(q[c])]
        /\ active' = [a EXCEPT ![c] = Head(q[c])]
        /\ pc' = [pc EXCEPT ![t] = "next"]
        /\ item' = [item EXCEPT ![t] = Head(q[c])]
        /\ kind' = [kind EXCEPT ![t] = "chat"]
        /\ cancelled' = cancelled
    BY <1>3 DEF Dequeue
  <2>3. queue' \in [Coders -> Seq(Prompts)]
    BY <2>1, <2>2
  <2>4. active' \in [Coders -> Prompts \cup {Null}]
    BY <2>1, <2>2
  <2>5. TaskTypes'
    BY <1>1, <2>1, <2>2 DEF TaskTypes, Steps, Kinds
  <2> QED BY <1>1, <2>3, <2>4, <2>5 DEF CoderTypes
<1> QED BY <1>2, <1>3

\* process_prompt_queue keeps coders and tasks typed.
LEMMA EnterTypes ==
  ASSUME NEW t \in Tasks, CoderTypes, TaskTypes, Enter(t)
  PROVE  CoderTypes' /\ TaskTypes'
<1>1. CASE processing[on[t]]
  BY <1>1, LeaveTypes DEF Enter, CoderTypes, TaskTypes
<1>2. CASE ~processing[on[t]]
  <2>1. on[t] \in Coders BY DEF TaskTypes
  <2> QED BY <1>2, <2>1, DequeueTypes DEF Enter, CoderTypes
<1> QED BY <1>1, <1>2

\* So does the end of a drain that puts its prompt back.
LEMMA PauseTypes ==
  ASSUME NEW t \in Tasks, CoderTypes, TaskTypes, Pause(t)
  PROVE  CoderTypes' /\ TaskTypes'
<1>1. on[t] \in Coders BY DEF TaskTypes
<1>2. queue' \in [Coders -> Seq(Prompts)]
  BY <1>1 DEF Pause, Requeue, CoderTypes
<1>3. active' \in [Coders -> Prompts \cup {Null}] /\ processing' \in [Coders -> BOOLEAN] /\ drainAfter' \in [Coders -> BOOLEAN]
  BY <1>1 DEF Pause, CoderTypes
<1>4. TaskTypes'
  BY LeaveTypes DEF Pause, TaskTypes
<1> QED BY <1>2, <1>3, <1>4 DEF CoderTypes

-----------------------------------------------------------------------------
(* What the helpers do to a task and to the active prompts.                *)

\* t moves to a place outside a handover, and only coder c, its own, may have
\* another active prompt than under a.
Moves(t, c, a) ==
  /\ \E place \in {"idle", "next"} : pc' = [pc EXCEPT ![t] = place]
  /\ on' = [on EXCEPT ![t] = c]
  /\ \A d \in Coders \ {c} : active'[d] = a[d]

\* A drain moves its task and touches the active prompt of its coder alone.
LEMMA DequeueMoves ==
  ASSUME NEW t \in Tasks, NEW c \in Coders, NEW q, NEW a \in [Coders -> Prompts \cup {Null}],
         Dequeue(t, c, q, a)
  PROVE  Moves(t, c, a)
<1>1. CASE q[c] = <<>>
  BY <1>1 DEF Dequeue, Moves, Leave
<1>2. CASE q[c] # <<>>
  BY <1>2 DEF Dequeue, Moves
<1> QED BY <1>1, <1>2

\* So does process_prompt_queue.
LEMMA EnterMoves ==
  ASSUME NEW t \in Tasks, CoderTypes, TaskTypes, Enter(t)
  PROVE  Moves(t, on[t], active)
<1>1. on[t] \in Coders /\ on = [on EXCEPT ![t] = on[t]] BY DEF TaskTypes
<1>2. CASE processing[on[t]]
  BY <1>1, <1>2 DEF Enter, Leave, Moves
<1>3. CASE ~processing[on[t]]
  BY <1>1, <1>3, DequeueMoves DEF Enter, CoderTypes
<1> QED BY <1>2, <1>3

\* So does the end of a drain.
LEMMA PauseMoves ==
  ASSUME NEW t \in Tasks, CoderTypes, TaskTypes, Pause(t)
  PROVE  Moves(t, on[t], active)
<1>1. on[t] \in Coders /\ on = [on EXCEPT ![t] = on[t]] BY DEF TaskTypes
<1> QED BY <1>1 DEF Pause, Leave, Moves, CoderTypes

-----------------------------------------------------------------------------
(* The type invariant, with what keeps a step inside the bounds.           *)

RestTypes ==
  /\ agent \in AgentKinds
  /\ current \in Coders /\ known \in Coders
  /\ interrupt \in [Coders -> BOOLEAN]
  /\ producer \in [Producers -> [coder : Coders, place : Nat] \cup {Null}]
  /\ fate \in [Prompts -> {"new", "waiting", "done", "failed", "removed", "lost"}]
  /\ starts \in [Prompts -> Nat]
  /\ accepted \in 0..MaxPrompts
  /\ messages \in 0..MaxMessages
  /\ stops \in Nat

\* The type invariant is its three parts.
LEMMA TypesSplit == PromptTypeOK <=> CoderTypes /\ TaskTypes /\ RestTypes
BY DEF PromptTypeOK, CoderTypes, TaskTypes, RestTypes

\* Prompts about to be added have a number.
Reserved == accepted + Cardinality(Checked) <= MaxPrompts

\* One task at a time replaces the coder, which is its own, and a sub-agent's
\* new coder is known meanwhile.
OneSwitch ==
  /\ \A t, u \in Switching : t = u
  /\ \A t \in Switching : on[t] = current
  /\ Switching # {} => current <= MaxSwitches
  /\ known = IF agent # "primary" /\ Switching # {} THEN current + 1 ELSE current

TypeInv == CoderTypes /\ TaskTypes /\ RestTypes /\ Reserved /\ OneSwitch

\* The producers about to append can be counted.
LEMMA CheckedFinite ==
  /\ IsFiniteSet(Checked) /\ Cardinality(Checked) \in Nat
  /\ IsFiniteSet(Checked') /\ Cardinality(Checked') \in Nat
BY PromptAssumption, FS_Subset, FS_CardinalityType DEF Checked

\* The invariant holds at the start.
LEMMA InitTypes == Init => TypeInv
<1> SUFFICES ASSUME Init PROVE TypeInv OBVIOUS
<1> USE PromptAssumption
<1>1. CoderTypes /\ TaskTypes
  BY DEF Init, CoderTypes, TaskTypes, Coders, Steps, Kinds
<1>2. RestTypes
  BY DEF Init, RestTypes, Coders
<1>3. Reserved
  <2>1. Checked = {} BY DEF Init, Checked
  <2> QED BY <2>1, FS_EmptySet DEF Init, Reserved
<1>4. OneSwitch
  BY DEF Init, OneSwitch, Switching
<1> QED BY <1>1, <1>2, <1>3, <1>4 DEF TypeInv

\* A task that moves outside a handover disturbs none.
LEMMA MovesKeep ==
  ASSUME TypeInv, NEW t \in Tasks, t \notin Switching, NEW c \in Coders, Moves(t, c, active),
         UNCHANGED <<agent, current, known>>
  PROVE  OneSwitch' /\ Switching' = Switching
<1> USE DEF TypeInv
<1>1. PICK place \in {"idle", "next"} : pc' = [pc EXCEPT ![t] = place]
  BY DEF Moves
<1>2. Switching' = Switching
  BY <1>1 DEF Switching, TaskTypes
<1>3. \A u \in Switching : on'[u] = on[u]
  BY DEF Moves, TaskTypes, Switching
<1>4. OneSwitch'
  BY <1>2, <1>3 DEF OneSwitch
<1> QED BY <1>2, <1>4

\* Nor does one that returns.
LEMMA LeaveKeeps ==
  ASSUME TypeInv, NEW t \in Tasks, t \notin Switching, Leave(t), UNCHANGED <<agent, current, known, on, active>>
  PROVE  TaskTypes' /\ OneSwitch'
<1> USE DEF TypeInv
<1>1. TaskTypes'
  BY LeaveTypes DEF TaskTypes
<1>2. on[t] \in Coders /\ on = [on EXCEPT ![t] = on[t]]
  BY DEF TaskTypes
<1>3. Moves(t, on[t], active)
  BY <1>2 DEF Moves, Leave
<1> QED BY <1>1, <1>2, <1>3, MovesKeep

\* Steps that leave the producers, the count of prompts and the coder alone.
LEMMA ReservedKept ==
  ASSUME TypeInv, UNCHANGED <<producer, accepted>>
  PROVE  Reserved'
BY DEF TypeInv, Reserved, Checked

\* Check keeps the invariant: the prompt to come has a number.
LEMMA CheckTypes ==
  ASSUME TypeInv, NEW p \in Producers, NEW place \in 0..MaxPrompts, Check(p, place)
  PROVE  TypeInv'
<1> USE PromptAssumption DEF TypeInv
<1>1. CoderTypes' /\ TaskTypes' /\ OneSwitch'
  BY DEF Check, coderVars, taskVars, CoderTypes, TaskTypes, OneSwitch, Switching
<1>2. RestTypes'
  BY DEF Check, coderVars, history, RestTypes
<1>3. Checked' = Checked \cup {p} /\ p \notin Checked
  <2>1. producer' = [producer EXCEPT ![p] = [coder |-> known, place |-> place]] /\ producer[p] = Null
    BY DEF Check
  <2>2. [coder |-> known, place |-> place] # Null
    BY DEF RestTypes
  <2> QED BY <2>1, <2>2 DEF Checked, RestTypes
<1>4. Reserved'
  <2>1. Cardinality(Checked') = Cardinality(Checked) + 1
    BY <1>3, CheckedFinite, FS_AddElement
  <2> QED BY <2>1, CheckedFinite DEF Check, history, Reserved, RestTypes
<1> QED BY <1>1, <1>2, <1>4

\* The type and the length of a concatenation.
LEMMA ConcatSeq ==
  ASSUME NEW S, NEW s \in Seq(S), NEW r \in Seq(S)
  PROVE  s \o r \in Seq(S) /\ Len(s \o r) = Len(s) + Len(r)
OBVIOUS

\* The type and the length after an insertion.
LEMMA InsertAtSeq ==
  ASSUME NEW S, NEW s \in Seq(S), NEW e \in S, NEW i \in 1..(Len(s) + 1)
  PROVE  InsertAt(s, i, e) \in Seq(S) /\ Len(InsertAt(s, i, e)) = Len(s) + 1
<1> DEFINE before == SubSeq(s, 1, i - 1)
           with == before \o <<e>>
           behind == SubSeq(s, i, Len(s))
<1>1. before \in Seq(S) /\ Len(before) = i - 1
  OBVIOUS
<1>2. behind \in Seq(S) /\ Len(behind) = Len(s) - i + 1
  OBVIOUS
<1>3. <<e>> \in Seq(S) /\ Len(<<e>>) = 1
  OBVIOUS
<1>4. InsertAt(s, i, e) = with \o behind
  BY Zenon DEF InsertAt
<1> HIDE DEF before
<1>5. with \in Seq(S) /\ Len(with) = i
  BY <1>1, <1>3, ConcatSeq
<1> HIDE DEF with, behind
<1>6. with \o behind \in Seq(S) /\ Len(with \o behind) = Len(with) + Len(behind)
  BY <1>2, <1>5, ConcatSeq, Zenon
<1>7. Len(with) + Len(behind) = Len(s) + 1
  BY <1>2, <1>5
<1> QED BY <1>4, <1>6, <1>7, Zenon

\* The type and the length after a removal.
LEMMA RemoveAtSeq ==
  ASSUME NEW S, NEW s \in Seq(S), NEW i \in DOMAIN s
  PROVE  RemoveAt(s, i) \in Seq(S) /\ Len(RemoveAt(s, i)) = Len(s) - 1
<1> DEFINE before == SubSeq(s, 1, i - 1)
           behind == SubSeq(s, i + 1, Len(s))
<1>1. before \in Seq(S) /\ Len(before) = i - 1
  OBVIOUS
<1>2. behind \in Seq(S) /\ Len(behind) = Len(s) - i
  OBVIOUS
<1>3. RemoveAt(s, i) = before \o behind
  BY Zenon DEF RemoveAt
<1>4. i \in Int /\ Len(s) \in Nat
  OBVIOUS
<1> HIDE DEF before, behind
<1>5. before \o behind \in Seq(S) /\ Len(before \o behind) = Len(before) + Len(behind)
  BY <1>1, <1>2, ConcatSeq, Zenon
<1>6. Len(before) + Len(behind) = Len(s) - 1
  BY <1>1, <1>2, <1>4
<1> QED BY <1>3, <1>5, <1>6, Zenon

\* Add keeps the invariant, and adds one prompt at one coder.
LEMMA AddTypes ==
  ASSUME TypeInv, NEW p \in Producers, Add(p)
  PROVE  /\ TypeInv'
         /\ \E c \in Coders : /\ c = producer[p].coder
                              /\ Len(queue'[c]) = Len(queue[c]) + 1
                              /\ \A d \in Coders \ {c} : queue'[d] = queue[d]
<1> USE PromptAssumption DEF TypeInv
<1> DEFINE c == producer[p].coder
           place == IF producer[p].place < Len(queue[c]) THEN producer[p].place ELSE Len(queue[c])
<1>1. c \in Coders /\ queue[c] \in Seq(Prompts) /\ place \in 0..Len(queue[c])
  BY DEF Add, RestTypes, CoderTypes
<1>2. Checked' = Checked \ {p} /\ p \in Checked
  BY DEF Add, Checked, RestTypes
<1>3. Cardinality(Checked') = Cardinality(Checked) - 1
  BY <1>2, CheckedFinite, FS_RemoveElement
<1>4. accepted + 1 \in Prompts /\ accepted' = accepted + 1
  BY <1>3, CheckedFinite DEF Reserved, RestTypes, Add, Prompts
<1>5. queue' = [queue EXCEPT ![c] = InsertAt(queue[c], place + 1, accepted + 1)]
  BY DEF Add
<1>6. InsertAt(queue[c], place + 1, accepted + 1) \in Seq(Prompts)
      /\ Len(InsertAt(queue[c], place + 1, accepted + 1)) = Len(queue[c]) + 1
  <2> HIDE DEF place, c
  <2>1. place + 1 \in 1..(Len(queue[c]) + 1)
    BY <1>1
  <2> QED BY <1>1, <1>4, <2>1, InsertAtSeq, Zenon
<1>7. CoderTypes'
  BY <1>1, <1>5, <1>6 DEF Add, CoderTypes
<1>8. TaskTypes' /\ OneSwitch'
  BY DEF Add, taskVars, TaskTypes, OneSwitch, Switching
<1>9. RestTypes'
  BY <1>4 DEF Add, taskVars, RestTypes, Prompts
<1>10. Reserved'
  BY <1>3, <1>4, CheckedFinite DEF Reserved, RestTypes
<1>11. Len(queue'[c]) = Len(queue[c]) + 1 /\ \A d \in Coders \ {c} : queue'[d] = queue[d]
  BY <1>1, <1>5, <1>6 DEF CoderTypes
<1> QED BY <1>1, <1>7, <1>8, <1>9, <1>10, <1>11

\* Removing and clearing keep the invariant.
LEMMA EditTypes ==
  ASSUME TypeInv, Clear \/ \E i \in 1..MaxPrompts : RemoveFrom(i)
  PROVE  TypeInv'
<1> USE PromptAssumption DEF TypeInv
<1>1. /\ UNCHANGED <<active, processing, drainAfter, interrupt, taskVars, producer>>
      /\ UNCHANGED <<agent, current, known, starts, accepted, messages, stops>>
  BY DEF Clear, RemoveFrom
<1>2. TaskTypes' /\ OneSwitch' /\ Reserved'
  BY <1>1, ReservedKept DEF taskVars, TaskTypes, OneSwitch, Switching
<1>3. queue' \in [Coders -> Seq(Prompts)]
  <2>1. CASE Clear
    <3>1. queue' = [queue EXCEPT ![known] = <<>>]
      BY <2>1 DEF Clear
    <3>2. <<>> \in Seq(Prompts)
      OBVIOUS
    <3> QED BY <3>1, <3>2 DEF CoderTypes
  <2>2. ASSUME NEW i \in 1..MaxPrompts, RemoveFrom(i) PROVE queue' \in [Coders -> Seq(Prompts)]
    <3>1. queue[known] \in Seq(Prompts) /\ i \in DOMAIN queue[known]
      BY <2>2 DEF RemoveFrom, CoderTypes, RestTypes
    <3>2. RemoveAt(queue[known], i) \in Seq(Prompts)
      BY <3>1, RemoveAtSeq
    <3>3. queue' = [queue EXCEPT ![known] = RemoveAt(queue[known], i)]
      BY <2>2 DEF RemoveFrom
    <3> QED BY <3>2, <3>3 DEF CoderTypes
  <2> QED BY <2>1, <2>2
<1>4. fate' \in [Prompts -> {"new", "waiting", "done", "failed", "removed", "lost"}]
  <2>1. CASE Clear
    BY <2>1 DEF Clear, Dropped, RestTypes
  <2>2. CASE \E i \in 1..MaxPrompts : RemoveFrom(i)
    BY <2>2 DEF RemoveFrom, RestTypes
  <2> QED BY <2>1, <2>2
<1> QED BY <1>1, <1>2, <1>3, <1>4 DEF CoderTypes, RestTypes

\* Steps of a task that has left, paused or gone on with its drain.
LEMMA MovedTypes ==
  ASSUME TypeInv, NEW t \in Tasks, t \notin Switching, CoderTypes', TaskTypes', Moves(t, on[t], active),
         UNCHANGED <<agent, current, known, interrupt, producer, accepted, messages>>,
         fate' \in [Prompts -> {"new", "waiting", "done", "failed", "removed", "lost"}],
         starts' = starts, stops' \in Nat
  PROVE  TypeInv'
<1> USE DEF TypeInv
<1>1. on[t] \in Coders
  BY DEF TaskTypes
<1>2. OneSwitch'
  BY <1>1, MovesKeep
<1>3. RestTypes'
  BY DEF RestTypes
<1> QED BY <1>2, <1>3, ReservedKept

\* Start keeps the invariant.
LEMMA StartTypes == ASSUME TypeInv, NEW t \in Tasks, Start(t) PROVE TypeInv'
<1> USE DEF TypeInv
<1>1. CoderTypes' /\ TaskTypes' BY DEF Start, CoderTypes, TaskTypes, Steps
<1>2. RestTypes'
  <2>1. starts' = [starts EXCEPT ![item[t]] = starts[item[t]] + 1]
    BY DEF Start
  <2>2. \A p \in Prompts : starts[p] \in Nat /\ starts[p] + 1 \in Nat
    BY DEF RestTypes
  <2>3. starts' \in [Prompts -> Nat]
    BY <2>1, <2>2 DEF RestTypes
  <2>4. interrupt' \in [Coders -> BOOLEAN]
    BY DEF Start, RestTypes
  <2> QED BY <2>3, <2>4 DEF Start, RestTypes
<1>3. OneSwitch' BY DEF Start, OneSwitch, Switching, TaskTypes
<1> QED BY <1>1, <1>2, <1>3, ReservedKept DEF Start

\* Done keeps the invariant.
LEMMA DoneTypes ==
  ASSUME TypeInv, NEW t \in Tasks, NEW outcome \in {"done", "failed"}, Done(t, outcome)
  PROVE  TypeInv'
<1> USE DEF TypeInv
<1>1. on[t] \in Coders BY DEF TaskTypes
<1>2. Dequeue(t, on[t], queue, active) BY DEF Done
<1>3. CoderTypes' /\ TaskTypes' BY <1>1, <1>2, DequeueTypes DEF CoderTypes
<1>4. Moves(t, on[t], active) BY <1>1, <1>2, DequeueMoves DEF CoderTypes
<1>5. fate' \in [Prompts -> {"new", "waiting", "done", "failed", "removed", "lost"}] /\ stops' \in Nat
  BY DEF Done, RestTypes
<1>6. t \notin Switching BY DEF Done, Switching
<1> QED BY <1>3, <1>4, <1>5, <1>6, MovedTypes DEF Done

\* Interrupted keeps the invariant.
LEMMA InterruptedTypes == ASSUME TypeInv, NEW t \in Tasks, Interrupted(t) PROVE TypeInv'
<1> USE DEF TypeInv
<1>1. CoderTypes' /\ TaskTypes' /\ Moves(t, on[t], active)
  BY PauseTypes, PauseMoves DEF Interrupted
<1>2. t \notin Switching BY DEF Interrupted, Switching
<1> QED BY <1>1, <1>2, MovedTypes DEF Interrupted, history, RestTypes

\* MessageEnds keeps the invariant.
LEMMA MessageEndsTypes == ASSUME TypeInv, NEW t \in Tasks, MessageEnds(t) PROVE TypeInv'
<1> USE DEF TypeInv
<1>0. t \notin Switching BY DEF MessageEnds, Switching
<1>1. CASE Enter(t)
  <2>1. CoderTypes' /\ TaskTypes' /\ Moves(t, on[t], active)
    BY <1>1, EnterTypes, EnterMoves
  <2> QED BY <1>0, <2>1, MovedTypes DEF MessageEnds, history, RestTypes
<1>2. CASE Leave(t) /\ UNCHANGED <<queue, active, processing, drainAfter, on>>
  <2>1. CoderTypes' /\ TaskTypes' /\ OneSwitch'
    BY <1>0, <1>2, LeaveKeeps DEF CoderTypes, MessageEnds
  <2> QED BY <2>1, ReservedKept DEF MessageEnds, history, RestTypes
<1> QED BY <1>1, <1>2 DEF MessageEnds

\* Whoever a foreign run finds, it is a coder.
LEMMA FoundCoder == ASSUME TypeInv PROVE Found \subseteq Coders
BY PromptAssumption DEF TypeInv, RestTypes, OneSwitch, Found, Coders

\* QueueRun keeps the invariant.
LEMMA QueueRunTypes == ASSUME TypeInv, NEW t \in Tasks, QueueRun(t) PROVE TypeInv'
<1> USE DEF TypeInv
<1>1. PICK c \in Coders : Dequeue(t, c, queue, active) BY FoundCoder DEF QueueRun
<1>2. CoderTypes' /\ TaskTypes' BY <1>1, DequeueTypes DEF CoderTypes
<1>3. Moves(t, c, active) BY <1>1, DequeueMoves DEF CoderTypes
<1>4. t \notin Switching BY DEF QueueRun, Idle, Switching
<1>5. OneSwitch'
  BY <1>3, <1>4, MovesKeep DEF QueueRun
<1> QED BY <1>2, <1>5, ReservedKept DEF QueueRun, history, RestTypes

\* Who is giving up a switch, or has failed to begin it, keeps the types of coders and tasks.
LEMMA EndDrainTypes ==
  ASSUME TypeInv, NEW t \in Tasks, EndDrain(t), UNCHANGED <<on, active>>, queue' \in [Coders -> Seq(Prompts)]
  PROVE  CoderTypes' /\ TaskTypes'
<1> USE DEF TypeInv
<1>1. processing' \in [Coders -> BOOLEAN] /\ drainAfter' \in [Coders -> BOOLEAN]
  BY DEF EndDrain, CoderTypes
<1>2. TaskTypes'
  BY LeaveTypes DEF EndDrain, TaskTypes
<1> QED BY <1>1, <1>2 DEF CoderTypes

\* When the switching task leaves, nobody switches any more.
LEMMA SwitchEnds ==
  ASSUME TypeInv, NEW t \in Switching, NEW place \in {"idle", "next"}, pc' = [pc EXCEPT ![t] = place]
  PROVE  Switching' = {}
BY DEF TypeInv, OneSwitch, Switching, TaskTypes

\* A rebuild that is given up empties a queue, and leaves the known coder.
LEMMA GiveUpTypes ==
  ASSUME TypeInv, NEW t \in Switching, GiveUp(t), UNCHANGED <<agent, known, active, on>>
  PROVE  /\ CoderTypes' /\ TaskTypes' /\ OneSwitch' /\ current' \in Coders
         /\ fate' \in [Prompts -> {"new", "waiting", "done", "failed", "removed", "lost"}]
         /\ \E c \in Coders : queue' = [queue EXCEPT ![c] = <<>>]
<1> USE DEF TypeInv
<1>1. t \in Tasks /\ EndDrain(t) BY DEF Switching, GiveUp
<1>2. current \in Coders /\ current + 1 \in Coders
  BY PromptAssumption DEF OneSwitch, RestTypes, Coders
<1>3. PICK c \in Coders : queue' = [queue EXCEPT ![c] = <<>>]
  BY <1>2 DEF GiveUp
<1>4. <<>> \in Seq(Prompts) OBVIOUS
<1>5. queue' \in [Coders -> Seq(Prompts)] BY <1>3, <1>4 DEF CoderTypes
<1>6. CoderTypes' /\ TaskTypes' BY <1>1, <1>5, EndDrainTypes
<1>7. Switching' = {} BY <1>1, SwitchEnds DEF EndDrain, Leave
<1>8. OneSwitch'
  BY <1>7, Zenon DEF OneSwitch, GiveUp
<1>9. current' \in Coders BY <1>2 DEF GiveUp
<1>10. fate' \in [Prompts -> {"new", "waiting", "done", "failed", "removed", "lost"}]
  BY DEF GiveUp, RestTypes
<1> QED BY <1>3, <1>6, <1>8, <1>9, <1>10

\* Unwind keeps the invariant.
LEMMA UnwindTypes == ASSUME TypeInv, NEW t \in Tasks, Unwind(t) PROVE TypeInv'
<1> USE DEF TypeInv
<1>1. CASE pc[t] \in {"next", "running"} /\ Pause(t) /\ UNCHANGED <<current, fate>>
  <2>1. CoderTypes' /\ TaskTypes' /\ Moves(t, on[t], active)
    BY <1>1, PauseTypes, PauseMoves
  <2>2. t \notin Switching BY <1>1 DEF Switching
  <2> QED BY <1>1, <2>1, <2>2, MovedTypes DEF Unwind, RestTypes
<1>2. CASE /\ pc[t] \in {"opening", "working"}
           /\ Leave(t)
           /\ UNCHANGED <<current, queue, active, processing, drainAfter, on, fate>>
  <2>1. t \notin Switching BY <1>2 DEF Switching
  <2>2. CoderTypes' /\ TaskTypes' /\ OneSwitch'
    BY <1>2, <2>1, LeaveKeeps DEF CoderTypes, Unwind
  <2> QED BY <1>2, <2>2, ReservedKept DEF Unwind, RestTypes
<1>3. CASE t \in Switching /\ GiveUp(t) /\ UNCHANGED <<active, on>>
  BY <1>3, GiveUpTypes, ReservedKept DEF Unwind, RestTypes
<1> QED BY <1>1, <1>2, <1>3 DEF Unwind

\* Swallow keeps the invariant.
LEMMA SwallowTypes == ASSUME TypeInv, NEW t \in Tasks, Swallow(t) PROVE TypeInv'
<1> USE DEF TypeInv
<1>1. CoderTypes' /\ TaskTypes' BY DEF Swallow, taskVars, CoderTypes, TaskTypes
<1>2. RestTypes' BY DEF Swallow, history, RestTypes
<1>3. OneSwitch' BY DEF Swallow, taskVars, OneSwitch, Switching
<1> QED BY <1>1, <1>2, <1>3, ReservedKept DEF Swallow, history

\* A task that was idle is at work with the coder of the session.
LEMMA Joins ==
  ASSUME TypeInv, NEW t \in Own, Idle(t), NEW k \in Kinds,
         pc' = [pc EXCEPT ![t] = "opening"], on' = [on EXCEPT ![t] = known],
         kind' = [kind EXCEPT ![t] = k], item' = item, cancelled' \subseteq Tasks,
         UNCHANGED <<agent, current, known>>
  PROVE  TaskTypes' /\ OneSwitch'
<1> USE DEF TypeInv, Idle
<1>1. t \in Tasks /\ known \in Coders BY DEF Tasks, RestTypes
<1>2. item[t] = Null BY <1>1 DEF TaskTypes
<1>3. TaskTypes' BY <1>1, <1>2 DEF TaskTypes, Steps
<1>4. Switching' = Switching /\ t \notin Switching BY <1>1 DEF Switching, TaskTypes
<1>5. OneSwitch' BY <1>1, <1>4 DEF OneSwitch, Switching, TaskTypes
<1> QED BY <1>3, <1>5

\* Begin keeps the invariant.
LEMMA BeginTypes == ASSUME TypeInv, NEW t \in Own, NEW k \in Kinds, Begin(t, k) PROVE TypeInv'
<1> USE DEF TypeInv
<1> DEFINE others == {u \in Own : ~Idle(u)}
<1>1. cancelled' = cancelled \cup others /\ stops' = stops + Cardinality(others \ cancelled)
  BY DEF Begin
<1>2. Cardinality(others \ cancelled) \in Nat
  BY PromptAssumption, FS_Subset, FS_CardinalityType
<1>3. cancelled' \subseteq Tasks
  BY <1>1 DEF TaskTypes, Tasks
<1> HIDE DEF others
<1>4. TaskTypes' /\ OneSwitch'
  BY <1>3, Joins DEF Begin
<1>5. CoderTypes' BY DEF Begin, coderVars, CoderTypes
<1>6. RestTypes'
  BY <1>1, <1>2, PromptAssumption DEF Begin, coderVars, RestTypes
<1> QED BY <1>4, <1>5, <1>6, ReservedKept DEF Begin

\* RunWorkflow keeps the invariant.
LEMMA RunWorkflowTypes ==
  ASSUME TypeInv, NEW t \in Own, NEW k \in Kinds, NEW n \in 1..MaxPrompts, RunWorkflow(t, k, n)
  PROVE  TypeInv' /\ n <= Capacity /\ queue' = [queue EXCEPT ![known] = [i \in 1..n |-> accepted + i]]
<1> USE DEF TypeInv
<1>1. known \in Coders /\ accepted \in Nat /\ n \in Nat BY DEF RestTypes
<1>2. n <= Capacity /\ accepted + n + Cardinality(Checked) <= MaxPrompts
  BY DEF RunWorkflow
<1>3. \A i \in 1..n : accepted + i \in Prompts
  BY <1>1, <1>2, CheckedFinite, PromptAssumption DEF Prompts
<1>4. [i \in 1..n |-> accepted + i] \in Seq(Prompts)
  BY <1>1, <1>3
<1>5. queue' = [queue EXCEPT ![known] = [i \in 1..n |-> accepted + i]]
  BY DEF RunWorkflow
<1>6. queue' \in [Coders -> Seq(Prompts)]
  BY <1>4, <1>5 DEF CoderTypes
<1>7. CoderTypes' BY <1>6 DEF RunWorkflow, CoderTypes
<1>8. cancelled' \subseteq Tasks BY DEF RunWorkflow, TaskTypes, Tasks
<1>10. TaskTypes' /\ OneSwitch'
  BY <1>8, Joins DEF RunWorkflow
<1>11. accepted' = accepted + n /\ accepted' \in 0..MaxPrompts
  <2>1. accepted' = accepted + n BY DEF RunWorkflow
  <2>2. accepted + n \in 0..MaxPrompts
    BY <1>1, <1>2, CheckedFinite, PromptAssumption
  <2> QED BY <2>1, <2>2
<1>12. fate' \in [Prompts -> {"new", "waiting", "done", "failed", "removed", "lost"}]
  <2> DEFINE lost == ToSet(Line(known))
  <2>1. fate' = [p \in Prompts |-> IF p \in accepted + 1 .. accepted + n THEN "waiting" ELSE Dropped(lost)[p]]
    BY DEF RunWorkflow
  <2> HIDE DEF lost
  <2>2. \A p \in Prompts : Dropped(lost)[p] \in {"new", "waiting", "done", "failed", "removed", "lost"}
    BY DEF Dropped, RestTypes
  <2> QED BY <2>1, <2>2
<1>13. RestTypes'
  <2>1. messages < MaxMessages /\ messages' = messages + 1
    BY DEF RunWorkflow
  <2>2. messages' \in 0..MaxMessages
    BY <2>1, PromptAssumption DEF RestTypes
  <2>3. UNCHANGED <<agent, current, known, interrupt, producer, starts, stops>>
    BY DEF RunWorkflow
  <2> QED BY <1>11, <1>12, <2>2, <2>3 DEF RestTypes
<1>14. Reserved'
  BY <1>1, <1>2, <1>11, CheckedFinite DEF RunWorkflow, Reserved, Checked
<1> QED BY <1>2, <1>5, <1>7, <1>10, <1>13, <1>14

\* Open keeps the invariant.
LEMMA OpenTypes == ASSUME TypeInv, NEW t \in Tasks, Open(t) PROVE TypeInv'
<1> USE DEF TypeInv
<1>1. CoderTypes' BY DEF Open, CoderTypes
<1>2. TaskTypes' BY DEF Open, TaskTypes, Steps
<1>3. RestTypes' BY DEF Open, history, RestTypes
<1>4. OneSwitch' BY DEF Open, OneSwitch, Switching, TaskTypes
<1> QED BY <1>1, <1>2, <1>3, <1>4, ReservedKept DEF Open, history

\* MessageFails keeps the invariant.
LEMMA MessageFailsTypes == ASSUME TypeInv, NEW t \in Tasks, MessageFails(t) PROVE TypeInv'
<1> USE DEF TypeInv
<1>1. TaskTypes' /\ OneSwitch'
  BY LeaveKeeps DEF MessageFails, coderVars, Switching
<1>2. CoderTypes' BY DEF MessageFails, coderVars, CoderTypes
<1>3. RestTypes' BY DEF MessageFails, coderVars, RestTypes
<1> QED BY <1>1, <1>2, <1>3, ReservedKept DEF MessageFails

\* Interrupt keeps the invariant.
LEMMA InterruptTypes == ASSUME TypeInv, Interrupt PROVE TypeInv'
<1> USE DEF TypeInv
<1>1. CoderTypes' /\ TaskTypes' BY DEF Interrupt, taskVars, CoderTypes, TaskTypes
<1>2. RestTypes' BY DEF Interrupt, RestTypes
<1>3. OneSwitch' BY DEF Interrupt, taskVars, OneSwitch, Switching
<1> QED BY <1>1, <1>2, <1>3, ReservedKept DEF Interrupt

\* Cancel keeps the invariant.
LEMMA CancelTypes == ASSUME TypeInv, NEW t \in Tasks, Cancel(t) PROVE TypeInv'
<1> USE DEF TypeInv
<1>1. CoderTypes' /\ TaskTypes' BY DEF Cancel, coderVars, CoderTypes, TaskTypes
<1>2. RestTypes' BY DEF Cancel, coderVars, RestTypes
<1>3. OneSwitch' BY DEF Cancel, coderVars, OneSwitch, Switching
<1> QED BY <1>1, <1>2, <1>3, ReservedKept DEF Cancel

-----------------------------------------------------------------------------
(* The handover.                                                           *)

\* Switch keeps the invariant.
LEMMA SwitchTypes == ASSUME TypeInv, NEW t \in Tasks, Switch(t) PROVE TypeInv'
<1> USE DEF TypeInv
<1>1. CoderTypes'
  <2>1. queue' = queue /\ active' = active BY DEF Switch
  <2>2. processing' \in [Coders -> BOOLEAN] /\ drainAfter' \in [Coders -> BOOLEAN]
    BY DEF Switch, CoderTypes
  <2> QED BY <2>1, <2>2 DEF CoderTypes
<1>2. TaskTypes' BY DEF Switch, Signals, TaskTypes, Steps
<1>3. fate' \in [Prompts -> {"new", "waiting", "done", "failed", "removed", "lost"}]
  BY DEF Switch, Signals, RestTypes
<1>4. on[t] = current /\ current <= MaxSwitches /\ current + 1 \in Coders
  <2>1. current \in 1..MaxSwitches /\ on[t] = current
    BY DEF Switch, Signals
  <2> QED BY <2>1, PromptAssumption DEF Coders
<1>5. RestTypes' BY <1>3, <1>4 DEF Switch, RestTypes
<1>6. OneSwitch'
  <2>1. Switching' = {t} /\ on' = on /\ current' = current /\ agent' = agent
    BY DEF Switch, Signals, Switching, TaskTypes
  <2>2. known' = IF agent # "primary" THEN current + 1 ELSE current
    BY DEF Switch, Signals, OneSwitch
  <2> QED BY <1>4, <2>1, <2>2 DEF OneSwitch
<1> QED BY <1>1, <1>2, <1>5, <1>6, ReservedKept DEF Switch

\* SwitchRefused keeps the invariant.
LEMMA SwitchRefusedTypes == ASSUME TypeInv, NEW t \in Tasks, SwitchRefused(t) PROVE TypeInv'
<1> USE DEF TypeInv
<1>1. CoderTypes' /\ TaskTypes'
  BY EndDrainTypes DEF SwitchRefused, CoderTypes
<1>2. fate' \in [Prompts -> {"new", "waiting", "done", "failed", "removed", "lost"}]
  BY DEF SwitchRefused, Signals, RestTypes
<1>3. RestTypes' BY <1>2 DEF SwitchRefused, RestTypes
<1>4. Switching' = Switching
  BY DEF SwitchRefused, Signals, EndDrain, Leave, Switching, TaskTypes
<1>5. OneSwitch' BY <1>4 DEF SwitchRefused, OneSwitch
<1> QED BY <1>1, <1>3, <1>5, ReservedKept DEF SwitchRefused

\* Copy keeps the invariant.
LEMMA CopyTypes ==
  ASSUME TypeInv, NEW t \in Tasks, Copy(t)
  PROVE  TypeInv' /\ current + 1 \in Coders /\ queue' = [queue EXCEPT ![current + 1] = queue[current]]
<1> USE DEF TypeInv
<1>1. t \in Switching BY DEF Copy, Switching
<1>2. current \in Coders /\ current + 1 \in Coders
  BY <1>1, PromptAssumption DEF OneSwitch, Switching, RestTypes, Coders
<1>3. queue' = [queue EXCEPT ![current + 1] = queue[current]] BY DEF Copy
<1>4. CoderTypes' BY <1>2, <1>3 DEF Copy, CoderTypes
<1>5. TaskTypes' BY DEF Copy, TaskTypes, Steps
<1>6. RestTypes' BY DEF Copy, history, RestTypes
<1>7. Switching' = Switching BY <1>1 DEF Copy, Switching, TaskTypes
<1>8. OneSwitch' BY <1>7 DEF Copy, OneSwitch, Switching
<1> QED BY <1>2, <1>3, <1>4, <1>5, <1>6, <1>8, ReservedKept DEF Copy, history

\* SwitchFails keeps the invariant.
LEMMA SwitchFailsTypes == ASSUME TypeInv, NEW t \in Tasks, SwitchFails(t) PROVE TypeInv'
<1> USE DEF TypeInv
<1>1. /\ CoderTypes' /\ TaskTypes' /\ OneSwitch' /\ current' \in Coders
      /\ fate' \in [Prompts -> {"new", "waiting", "done", "failed", "removed", "lost"}]
  BY GiveUpTypes DEF SwitchFails
<1>2. RestTypes' BY <1>1 DEF SwitchFails, RestTypes
<1> QED BY <1>1, <1>2, ReservedKept DEF SwitchFails

\* The replacement is complete.
LEMMA Adopted ==
  ASSUME TypeInv, NEW t \in Tasks, pc[t] = "copied", current' = current + 1, known' = current + 1,
         \E place \in {"idle", "next"} : pc' = [pc EXCEPT ![t] = place]
  PROVE  current \in Coders /\ current + 1 \in Coders /\ OneSwitch'
<1> USE DEF TypeInv
<1>1. t \in Switching BY DEF Switching
<1>2. current \in Coders /\ current + 1 \in Coders
  BY <1>1, PromptAssumption DEF OneSwitch, Switching, RestTypes, Coders
<1>3. Switching' = {}
  BY <1>1, SwitchEnds
<1>4. OneSwitch' BY <1>3 DEF OneSwitch
<1> QED BY <1>2, <1>4

\* AdoptPrimary keeps the invariant.
LEMMA AdoptPrimaryTypes == ASSUME TypeInv, NEW t \in Tasks, AdoptPrimary(t) PROVE TypeInv'
<1> USE DEF TypeInv
<1>1. TaskTypes' BY LeaveTypes DEF AdoptPrimary, TaskTypes
<1>2. CoderTypes' BY DEF AdoptPrimary, coderVars, CoderTypes
<1>3. current + 1 \in Coders /\ OneSwitch'
  BY Adopted DEF AdoptPrimary, Leave
<1>4. RestTypes' BY <1>3 DEF AdoptPrimary, coderVars, RestTypes
<1> QED BY <1>1, <1>2, <1>3, <1>4, ReservedKept DEF AdoptPrimary

\* The queues and the active prompts that a sub-agent's adoption leaves.
Handed == [queue EXCEPT ![current + 1] = queue[current], ![current] = <<>>]
Emptied == [active EXCEPT ![current] = Null]

\* AdoptSubAgent keeps the invariant.
LEMMA AdoptSubAgentTypes ==
  ASSUME TypeInv, NEW t \in Tasks, AdoptSubAgent(t)
  PROVE  /\ TypeInv' /\ current \in Coders /\ current + 1 \in Coders
         /\ Handed \in [Coders -> Seq(Prompts)] /\ Emptied \in [Coders -> Prompts \cup {Null}]
<1> USE DEF TypeInv
<1>1. t \in Switching BY DEF AdoptSubAgent, Switching
<1>2. current \in Coders /\ current + 1 \in Coders
  BY <1>1, PromptAssumption DEF OneSwitch, Switching, RestTypes, Coders
<1>3. Handed \in [Coders -> Seq(Prompts)] /\ Emptied \in [Coders -> Prompts \cup {Null}]
  <2>1. <<>> \in Seq(Prompts) OBVIOUS
  <2> QED BY <1>2, <2>1 DEF CoderTypes, Handed, Emptied
<1>4. \/ Dequeue(t, current + 1, Handed, Emptied)
      \/ Leave(t) /\ queue' = Handed /\ active' = Emptied /\ UNCHANGED <<processing, drainAfter, on>>
  BY DEF AdoptSubAgent, Handed, Emptied
<1>5. CoderTypes' /\ TaskTypes' /\ \E place \in {"idle", "next"} : pc' = [pc EXCEPT ![t] = place]
  <2> HIDE DEF TypeInv
  <2>0. CoderTypes /\ TaskTypes BY DEF TypeInv
  <2>1. CASE Dequeue(t, current + 1, Handed, Emptied)
    BY <1>2, <1>3, <2>0, <2>1, DequeueTypes, DequeueMoves DEF Moves
  <2>2. CASE Leave(t) /\ queue' = Handed /\ active' = Emptied /\ UNCHANGED <<processing, drainAfter, on>>
    <3>1. TaskTypes' BY <2>0, <2>2, LeaveTypes DEF TaskTypes
    <3>2. CoderTypes' BY <1>3, <2>0, <2>2 DEF CoderTypes
    <3> QED BY <2>2, <3>1, <3>2 DEF Leave
  <2> QED BY <1>4, <2>1, <2>2
<1>6. known' = current + 1
  BY <1>1 DEF AdoptSubAgent, OneSwitch
<1>7. OneSwitch'
  BY <1>5, <1>6, Adopted DEF AdoptSubAgent
<1>8. RestTypes' BY <1>2, <1>6 DEF AdoptSubAgent, history, RestTypes
<1> QED BY <1>2, <1>3, <1>5, <1>7, <1>8, ReservedKept DEF AdoptSubAgent, history

-----------------------------------------------------------------------------

\* Every step of a task keeps the invariant.
LEMMA TaskTypesKept == ASSUME TypeInv, NEW t \in Tasks, Task(t) PROVE TypeInv'
BY OpenTypes, MessageEndsTypes, StartTypes, InterruptedTypes, UnwindTypes, DoneTypes,
   SwitchTypes, CopyTypes, AdoptPrimaryTypes, AdoptSubAgentTypes DEF Task

\* Every step keeps the invariant.
LEMMA NextTypes == ASSUME TypeInv, [Next]_vars PROVE TypeInv'
<1>1. CASE UNCHANGED vars
  BY <1>1 DEF vars, coderVars, taskVars, history, TypeInv, CoderTypes, TaskTypes, RestTypes,
              Reserved, Checked, OneSwitch, Switching
<1>2. ASSUME NEW p \in Producers, Add(p) PROVE TypeInv'
  BY <1>2, AddTypes
<1>3. CASE Edit
  BY <1>3, CheckTypes, EditTypes DEF Edit
<1>4. ASSUME NEW t \in Tasks,
             \/ Task(t) \/ Swallow(t) \/ MessageFails(t) \/ QueueRun(t) \/ Cancel(t)
             \/ SwitchRefused(t) \/ SwitchFails(t)
      PROVE  TypeInv'
  BY <1>4, TaskTypesKept, SwallowTypes, MessageFailsTypes, SwitchRefusedTypes, SwitchFailsTypes,
     QueueRunTypes, CancelTypes
<1>5. ASSUME NEW t \in Own, NEW k \in Kinds, Begin(t, k) \/ \E n \in 1..MaxPrompts : RunWorkflow(t, k, n)
      PROVE  TypeInv'
  BY <1>5, BeginTypes, RunWorkflowTypes
<1>6. CASE Loop
  BY <1>4, <1>5, <1>6, InterruptTypes DEF Loop
<1> QED BY <1>1, <1>2, <1>3, <1>6 DEF Next

\* The fields of the coders and tasks keep their types: in particular a prompt
\* accepted by enqueue_prompt has a number, and a rebuild finds its coder.
THEOREM PromptTypeCorrect == Spec => []PromptTypeOK
<1>1. Spec => []TypeInv
  BY InitTypes, NextTypes, PTL DEF Spec
<1>2. TypeInv => PromptTypeOK
  BY TypesSplit DEF TypeInv
<1> QED BY <1>1, <1>2, PTL

-----------------------------------------------------------------------------
(* A rebuild and the queue.  Nobody is at the coder to come but a task that *)
(* has cancelled the rebuild, and no producer appends while the queue is    *)
(* handed over, if neither the named race lets it nor a foreign run does.   *)

Apart == "edit while handing over" \notin Races /\ "foreign run while handing over" \notin Races

\* Nobody is beyond coder n.
Reach(n) == (\A t \in Tasks : on[t] <= n) /\ \A c \in Coders : c > n => active[c] = Null

\* Whoever is rebuilding the coder will find that it is cancelled.
Abandoned == Switching # {} /\ Switching \subseteq cancelled

AheadInv ==
  /\ Switching \subseteq Own
  /\ Reach(known)
  /\ Abandoned \/ Reach(current)
  /\ HandingOver => Checked = {}

\* It holds at the start.
LEMMA InitAhead == Init => AheadInv
<1> SUFFICES ASSUME Init PROVE AheadInv OBVIOUS
<1>1. Switching = {} /\ ~HandingOver BY DEF Init, Switching, HandingOver
<1>2. \A t \in Tasks : on[t] <= 1 BY DEF Init
<1>3. \A c \in Coders : active[c] = Null BY DEF Init
<1> QED BY <1>1, <1>2, <1>3 DEF Init, AheadInv, Reach

\* The loop leaves the producers alone.
LEMMA LoopProducers == Loop => producer' = producer
BY DEF Loop, Task, Open, MessageEnds, Start, Interrupted, Unwind, Done, Switch, Copy, AdoptPrimary,
       AdoptSubAgent, Swallow, MessageFails, SwitchRefused, SwitchFails, QueueRun, Cancel, Begin,
       RunWorkflow, Interrupt, history

\* Nobody appends while the queue is handed over.
LEMMA NoOverlapKept ==
  ASSUME Apart, HandingOver => Checked = {}, [Next]_vars
  PROVE  HandingOver' => Checked' = {}
<1>1. CASE UNCHANGED vars
  BY <1>1 DEF vars, taskVars, HandingOver, Switching, Checked
<1>2. ASSUME NEW p \in Producers, Add(p) PROVE HandingOver' => Checked' = {}
  BY <1>2 DEF Add, taskVars, HandingOver, Switching, Checked
<1>3. ASSUME Edit, ~HandingOver PROVE HandingOver' => Checked' = {}
  BY <1>3 DEF Edit, Check, RemoveFrom, Clear, taskVars, HandingOver, Switching
<1>4. ASSUME Loop, HandingOver' => Checked = {} PROVE HandingOver' => Checked' = {}
  BY <1>4, LoopProducers DEF Checked
<1> QED BY <1>1, <1>2, <1>3, <1>4 DEF Next, Apart

\* What is left of the invariant, which the producers have no part in.
Near == Switching \subseteq Own /\ Reach(known) /\ (Abandoned \/ Reach(current))

\* Nobody is farther than the coder that is known.
LEMMA KnownNext == ASSUME TypeInv PROVE known \in Int /\ current \in Int /\ current <= known /\ known <= current + 1
BY PromptAssumption DEF TypeInv, RestTypes, OneSwitch, Coders

\* A step that leaves coders, tasks and active prompts where they are.
LEMMA NearSame ==
  ASSUME Near, UNCHANGED <<current, known, on, active>>, Switching' = Switching,
         Abandoned => Abandoned'
  PROVE  Near'
BY DEF Near, Reach

\* A task that moves outside a handover.
LEMMA NearMoves ==
  ASSUME TypeInv, Near, NEW t \in Tasks, t \notin Switching, NEW c \in Coders,
         c = on[t] \/ (c = current /\ Switching = {}),
         Moves(t, c, active), cancelled \ {t} \subseteq cancelled', UNCHANGED <<agent, current, known>>
  PROVE  Near'
<1> USE DEF TypeInv
<1>1. Switching' = Switching BY MovesKeep
<1>2. on' = [on EXCEPT ![t] = c] /\ \A d \in Coders \ {c} : active'[d] = active[d] BY DEF Moves
<1>3. ASSUME NEW n \in {current, known}, Reach(n)
      PROVE  (\A u \in Tasks : on'[u] <= n) /\ \A d \in Coders : d > n => active'[d] = Null
  <2>1. c <= n
    BY <1>3, KnownNext DEF Reach
  <2> QED BY <1>2, <1>3, <2>1, KnownNext, PromptAssumption DEF Reach, TaskTypes, CoderTypes, Coders
<1>4. Abandoned => Abandoned' BY <1>1 DEF Abandoned
<1> QED BY <1>1, <1>3, <1>4 DEF Near, Reach

\* A message begins with the coder that is known, and cancels a rebuild.
LEMMA NearJoins ==
  ASSUME TypeInv, Near, NEW t \in Own, Idle(t), pc' = [pc EXCEPT ![t] = "opening"],
         on' = [on EXCEPT ![t] = known], cancelled' = cancelled \cup {u \in Own : ~Idle(u)},
         UNCHANGED <<agent, current, known>>, \A d \in Coders : d > current => active'[d] \in {active[d], Null}
  PROVE  Near'
<1> USE DEF TypeInv
<1>1. t \in Tasks BY DEF Tasks
<1>2. Switching' = Switching BY <1>1 DEF Switching, TaskTypes, Idle
<1>3. Reach(known)'
  BY KnownNext, PromptAssumption DEF Near, Reach, TaskTypes, Coders
<1>4. CASE Switching = {}
  <2>1. known = current BY <1>4 DEF OneSwitch
  <2> QED BY <1>2, <1>3, <2>1 DEF Near, Reach
<1>5. CASE Switching # {}
  <2>1. Switching \subseteq cancelled' BY DEF Near, Switching, Idle
  <2> QED BY <1>2, <1>3, <1>5, <2>1 DEF Near, Abandoned
<1> QED BY <1>4, <1>5

\* A rebuild that is over, at the coder that was known.
LEMMA NearOver ==
  ASSUME TypeInv, Near, Switching' = {}, current' = known', current <= current', known <= known',
         current' \in Int, \A u \in Tasks : on'[u] = on[u] \/ on'[u] = current',
         \A d \in Coders : d # current' => active'[d] \in {active[d], Null}
  PROVE  Near'
<1> USE DEF TypeInv
<1>1. Reach(known)'
  <2> SUFFICES /\ \A u \in Tasks : on'[u] <= known'
               /\ \A d \in Coders : d > known' => active'[d] = Null
    BY DEF Reach
  <2> QED BY KnownNext, PromptAssumption DEF Near, Reach, TaskTypes, Coders
<1> QED BY <1>1 DEF Near, Reach

\* A rebuild that is given up.
LEMMA GiveUpNear ==
  ASSUME TypeInv, Near, NEW t \in Switching, GiveUp(t), UNCHANGED <<agent, known, active, on>>
  PROVE  Near'
<1> USE DEF TypeInv
<1>1. Switching' = {} BY SwitchEnds DEF GiveUp, EndDrain, Leave, Switching
<1>2. current' = known'
  BY DEF GiveUp, OneSwitch
<1>3. current' \in Int /\ current <= current' /\ known <= known'
  BY <1>2, KnownNext
<1> QED BY <1>1, <1>2, <1>3, NearOver

\* The steps of a task.
LEMMA TaskNear == ASSUME Apart, TypeInv, TypeInv', Near, NEW t \in Tasks, Task(t) PROVE Near'
<1>0. TaskTypes /\ CoderTypes /\ OneSwitch /\ on[t] \in Coders BY DEF TypeInv, TaskTypes
<1>1. ASSUME pc[t] \notin {"creating", "copied"}, Moves(t, on[t], active), cancelled \ {t} \subseteq cancelled',
             UNCHANGED <<agent, current, known>>
      PROVE  Near'
  BY <1>0, <1>1, NearMoves DEF Switching
<1>2. CASE Open(t) \/ Start(t)
  <2>1. Switching' = Switching BY <1>0, <1>2 DEF Open, Start, Switching, TaskTypes
  <2> QED BY <1>2, <2>1, NearSame DEF Open, Start, Abandoned
<1>3. CASE MessageEnds(t)
  <2>1. Moves(t, on[t], active)
    <3>1. CASE Enter(t) BY <1>0, <3>1, EnterMoves
    <3>2. CASE Leave(t) /\ UNCHANGED <<queue, active, processing, drainAfter, on>>
      BY <1>0, <3>2 DEF Leave, Moves, TaskTypes
    <3> QED BY <1>3, <3>1, <3>2 DEF MessageEnds
  <2>2. cancelled \ {t} \subseteq cancelled' BY <1>3 DEF MessageEnds, Enter, Dequeue, Leave
  <2> QED BY <1>1, <1>3, <2>1, <2>2 DEF MessageEnds
<1>4. CASE Interrupted(t)
  BY <1>0, <1>1, <1>4, PauseMoves DEF Interrupted, Pause, Leave
<1>5. CASE Unwind(t)
  <2>1. CASE pc[t] \in {"opening", "working"} /\ Leave(t) /\ UNCHANGED <<current, active, on>>
    <3>1. Moves(t, on[t], active) BY <1>0, <2>1 DEF Leave, Moves, TaskTypes
    <3> QED BY <1>1, <1>5, <2>1, <3>1 DEF Unwind, Leave
  <2>2. CASE pc[t] \in {"next", "running"} /\ Pause(t) /\ UNCHANGED current
    BY <1>0, <1>1, <1>5, <2>2, PauseMoves DEF Unwind, Pause, Leave
  <2>3. CASE t \in Switching /\ GiveUp(t) /\ UNCHANGED <<active, on>>
    BY <1>5, <2>3, GiveUpNear DEF Unwind
  <2> QED BY <1>5, <2>1, <2>2, <2>3 DEF Unwind
<1>6. ASSUME NEW outcome \in {"done", "failed"}, Done(t, outcome) PROVE Near'
  <2>1. Moves(t, on[t], active) BY <1>0, <1>6, DequeueMoves DEF Done, CoderTypes
  <2>2. cancelled \ {t} \subseteq cancelled' BY <1>6 DEF Done, Dequeue, Leave
  <2> QED BY <1>1, <1>6, <2>1, <2>2 DEF Done
<1>7. CASE Switch(t)
  <2>1. t \in Own
    <3>1. ~Idle(t) BY <1>7 DEF Switch, Signals, Idle
    <3>2. \A u \in Foreign : Idle(u) BY <1>7 DEF Switch, Signals, Apart
    <3> QED BY <3>1, <3>2 DEF Tasks
  <2>2. Switching = {} /\ Switching' = {t} /\ ~Abandoned
    BY <1>0, <1>7 DEF Switch, Signals, Switching, TaskTypes, Abandoned
  <2>3. Reach(current) BY <2>2 DEF Near
  <2>4. UNCHANGED <<current, on, active>> BY <1>7 DEF Switch, Signals
  <2>5. Reach(current)' BY <2>3, <2>4 DEF Reach
  <2>6. current' <= known' /\ current' \in Int /\ known' \in Int 
    <3>1. known = current BY <1>0, <2>2 DEF OneSwitch
    <3>2. current' = current /\ known' \in {current, current + 1} BY <1>7, <3>1 DEF Switch, Signals
    <3> QED BY <3>2, KnownNext
  <2>7. Reach(known)' 
    <3> SUFFICES /\ \A u \in Tasks : on'[u] <= known'
                 /\ \A d \in Coders : d > known' => active'[d] = Null
      BY DEF Reach
    <3> QED BY <2>5, <2>6, PromptAssumption DEF Reach, TypeInv, TaskTypes, Coders
  <2> QED BY <2>1, <2>2, <2>5, <2>7 DEF Near
<1>8. CASE Copy(t)
  <2>1. Switching' = Switching BY <1>0, <1>8 DEF Copy, Switching, TaskTypes
  <2> QED BY <1>8, <2>1, NearSame DEF Copy, Abandoned
<1>9. CASE AdoptPrimary(t)
  <2>1. t \in Switching BY <1>9 DEF AdoptPrimary, Switching
  <2>2. Switching' = {} BY <1>9, <2>1, SwitchEnds DEF AdoptPrimary, Leave
  <2>3. current' = known' /\ current' \in Int /\ current <= current' /\ known <= known'
    BY <1>9, KnownNext DEF AdoptPrimary
  <2> QED BY <1>9, <2>2, <2>3, NearOver DEF AdoptPrimary, coderVars
<1>10. CASE AdoptSubAgent(t)
  <2>1. t \in Switching BY <1>10 DEF AdoptSubAgent, Switching
  <2>2. /\ current + 1 \in Coders /\ current \in Coders
        /\ Emptied \in [Coders -> Prompts \cup {Null}]
    BY <1>10, AdoptSubAgentTypes
  <2>3. Dequeue(t, current + 1, Handed, Emptied) \/ (Leave(t) /\ active' = Emptied /\ on' = on)
    BY <1>10 DEF AdoptSubAgent, Handed, Emptied
  <2>4. /\ \E place \in {"idle", "next"} : pc' = [pc EXCEPT ![t] = place]
        /\ \A u \in Tasks : on'[u] = on[u] \/ on'[u] = current + 1
        /\ \A d \in Coders : d # current + 1 => active'[d] = Emptied[d]
    <3>1. CASE Dequeue(t, current + 1, Handed, Emptied)
      BY <1>0, <2>2, <3>1, DequeueMoves DEF Moves, TaskTypes
    <3>2. CASE Leave(t) /\ active' = Emptied /\ on' = on
      BY <3>2 DEF Leave
    <3> QED BY <2>3, <3>1, <3>2
  <2>5. Switching' = {} BY <2>1, <2>4, SwitchEnds
  <2>6. current' = current + 1 /\ known' = current'
    BY <1>0, <1>10, <2>1 DEF AdoptSubAgent, OneSwitch
  <2>7. current' \in Int /\ current <= current' /\ known <= known' BY <2>6, KnownNext
  <2>8. \A d \in Coders : Emptied[d] \in {active[d], Null} BY <1>0 DEF Emptied, CoderTypes
  <2> QED BY <2>4, <2>5, <2>6, <2>7, <2>8, NearOver
<1> QED BY <1>2, <1>3, <1>4, <1>5, <1>6, <1>7, <1>8, <1>9, <1>10 DEF Task

\* Every step.
LEMMA NextNear == ASSUME Apart, TypeInv, TypeInv', Near, [Next]_vars PROVE Near'
<1>0. TaskTypes /\ CoderTypes /\ OneSwitch BY DEF TypeInv
<1>1. CASE UNCHANGED vars
  <2>1. Switching' = Switching BY <1>1 DEF vars, taskVars, Switching
  <2> QED BY <1>1, <2>1, NearSame DEF vars, coderVars, taskVars, Abandoned
<1>2. CASE Edit \/ (\E p \in Producers : Add(p)) \/ Interrupt \/ \E t \in Tasks : Swallow(t)
  <2>1. UNCHANGED <<current, known, on, pc, active, cancelled>>
    BY <1>2 DEF Edit, Check, RemoveFrom, Clear, Add, Interrupt, Swallow, taskVars, coderVars
  <2>2. Switching' = Switching BY <2>1 DEF Switching
  <2> QED BY <2>1, <2>2, NearSame DEF Abandoned
<1>3. ASSUME NEW t \in Tasks, Cancel(t) PROVE Near'
  <2>1. UNCHANGED <<current, known, on, pc, active>> /\ cancelled \subseteq cancelled'
    BY <1>3 DEF Cancel, coderVars
  <2>2. Switching' = Switching BY <2>1 DEF Switching
  <2> QED BY <2>1, <2>2, NearSame DEF Abandoned
<1>4. ASSUME NEW t \in Tasks, MessageFails(t) \/ SwitchRefused(t) PROVE Near'
  <2>1. Leave(t) /\ UNCHANGED <<agent, current, known, on, active>> /\ t \notin Switching
    BY <1>4 DEF MessageFails, SwitchRefused, Signals, EndDrain, Switching, coderVars
  <2>2. on[t] \in Coders /\ Moves(t, on[t], active) BY <1>0, <2>1 DEF Leave, Moves, TaskTypes
  <2> QED BY <2>1, <2>2, NearMoves DEF Leave
<1>5. ASSUME NEW t \in Tasks, SwitchFails(t) PROVE Near'
  BY <1>5, GiveUpNear DEF SwitchFails
<1>6. ASSUME NEW t \in Tasks, QueueRun(t) PROVE Near'
  <2>1. Switching = {} BY <1>6 DEF QueueRun, Apart
  <2>2. Dequeue(t, current, queue, active) /\ current \in Coders
    BY <1>0, <1>6, <2>1 DEF QueueRun, Found, OneSwitch, TypeInv, RestTypes
  <2>3. Moves(t, current, active) BY <1>0, <2>2, DequeueMoves DEF CoderTypes
  <2>4. cancelled \ {t} \subseteq cancelled' BY <2>2 DEF Dequeue, Leave
  <2> QED BY <1>6, <2>1, <2>2, <2>3, <2>4, NearMoves DEF QueueRun
<1>7. ASSUME NEW t \in Own, NEW k \in Kinds, Begin(t, k) PROVE Near'
  <2>1. cancelled' = cancelled \cup {u \in Own : ~Idle(u)} BY <1>7 DEF Begin
  <2> QED BY <1>7, <2>1, NearJoins DEF Begin, coderVars
<1>8. ASSUME NEW t \in Own, NEW k \in Kinds, NEW n \in 1..MaxPrompts, RunWorkflow(t, k, n) PROVE Near'
  <2>1. cancelled' = cancelled \cup {u \in Own : ~Idle(u)} BY <1>8 DEF RunWorkflow
  <2>2. \A d \in Coders : d > current => active'[d] \in {active[d], Null}
    BY <1>0, <1>8 DEF RunWorkflow, CoderTypes
  <2> QED BY <1>8, <2>1, <2>2, NearJoins DEF RunWorkflow
<1> QED BY <1>1, <1>2, <1>3, <1>4, <1>5, <1>6, <1>7, <1>8, TaskNear DEF Next, Loop

\* Every step keeps the invariant of a rebuild.
LEMMA NextAhead == ASSUME Apart, TypeInv, TypeInv', AheadInv, [Next]_vars PROVE AheadInv'
BY NextNear, NoOverlapKept DEF AheadInv, Near

-----------------------------------------------------------------------------
(* The capacity.  A prompt that leaves the queue may come back by a         *)
(* requeue, and a producer that has checked will append: the bound is one   *)
(* on the queue, the active prompt and those producers together.            *)

Held(a, c) == IF a[c] = Null THEN 0 ELSE 1
Load(q, a, c) == Len(q[c]) + Held(a, c)

Adding(c) == {p \in Producers : producer[p] # Null /\ producer[p].coder = c}

CapOK ==
  \A c \in Coders : Load(queue, active, c) + Cardinality(Adding(c)) <= Capacity + Cardinality(Producers)

\* The producers about to append to a queue are at most all of them,
LEMMA AddingBound ==
  ASSUME NEW c \in Coders
  PROVE  /\ IsFiniteSet(Adding(c)) /\ Cardinality(Adding(c)) \in Nat
         /\ Cardinality(Adding(c)) <= Cardinality(Producers) /\ Cardinality(Producers) \in Nat
<1>1. Adding(c) \subseteq Producers BY DEF Adding
<1> QED BY <1>1, PromptAssumption, FS_Subset, FS_CardinalityType

\* ... after a step too.
LEMMA AddingBoundNext ==
  ASSUME NEW c \in Coders
  PROVE  /\ IsFiniteSet(Adding(c)') /\ Cardinality(Adding(c)') \in Nat
         /\ Cardinality(Adding(c)') <= Cardinality(Producers) /\ Cardinality(Producers) \in Nat
<1>1. Adding(c)' \subseteq Producers BY DEF Adding
<1> QED BY <1>1, PromptAssumption, FS_Subset, FS_CardinalityType

\* A load is a number, and at least the length of the queue.
LEMMA LoadNat ==
  ASSUME NEW q \in [Coders -> Seq(Prompts)], NEW a, NEW c \in Coders
  PROVE  Load(q, a, c) \in Nat /\ Len(q[c]) \in Nat /\ Len(q[c]) <= Load(q, a, c)
<1>1. q[c] \in Seq(Prompts) OBVIOUS
<1>2. Len(q[c]) \in Nat BY <1>1
<1> QED BY <1>2 DEF Load, Held

\* No coder is loaded with more, and the producers stay.
LEMMA Lighter ==
  ASSUME CapOK, CoderTypes, CoderTypes', producer' = producer,
         \A c \in Coders : Load(queue', active', c) <= Load(queue, active, c)
  PROVE  CapOK'
<1> SUFFICES ASSUME NEW c \in Coders
             PROVE  Load(queue', active', c) + Cardinality(Adding(c)') <= Capacity + Cardinality(Producers)
  BY DEF CapOK, Load, Held
<1>1. Adding(c)' = Adding(c) BY DEF Adding
<1>2. /\ Load(queue', active', c) \in Nat /\ Load(queue, active, c) \in Nat
      /\ Load(queue', active', c) <= Load(queue, active, c)
  BY LoadNat DEF CoderTypes
<1>3. Load(queue, active, c) + Cardinality(Adding(c)) <= Capacity + Cardinality(Producers)
  BY DEF CapOK
<1>4. Cardinality(Adding(c)) \in Nat /\ Capacity + Cardinality(Producers) \in Nat
  BY AddingBound, PromptAssumption
<1> QED BY <1>1, <1>2, <1>3, <1>4

\* A drain loads no coder: what leaves the queue is the active prompt.
LEMMA DequeueLoad ==
  ASSUME NEW t \in Tasks, NEW c \in Coders, NEW q \in [Coders -> Seq(Prompts)],
         NEW a \in [Coders -> Prompts \cup {Null}], Dequeue(t, c, q, a)
  PROVE  \A d \in Coders : Load(queue', active', d) <= Load(q, a, d)
<1> SUFFICES ASSUME NEW d \in Coders PROVE Load(queue', active', d) <= Load(q, a, d)
  OBVIOUS
<1>1. q[d] \in Seq(Prompts) /\ Len(q[d]) \in Nat /\ q[c] \in Seq(Prompts)
  OBVIOUS
<1>2. CASE q[c] = <<>>
  <2>1. queue' = q /\ active' = [a EXCEPT ![c] = Null] BY <1>2 DEF Dequeue
  <2> QED BY <1>1, <2>1 DEF Load, Held
<1>3. CASE q[c] # <<>>
  <2>1. queue' = [q EXCEPT ![c] = Tail(q[c])] /\ active' = [a EXCEPT ![c] = Head(q[c])]
    BY <1>3 DEF Dequeue
  <2>2. CASE d = c
    <3>1. queue'[d] = Tail(q[d]) /\ Len(Tail(q[d])) = Len(q[d]) - 1
      BY <1>1, <1>3, <2>1, <2>2
    <3>2. Held(active', d) \in {0, 1} /\ Held(a, d) \in {0, 1}
      BY DEF Held
    <3>3. Len(queue'[d]) = Len(q[d]) - 1 /\ Len(q[d]) \in Nat
      BY <1>1, <3>1
    <3> QED BY <3>2, <3>3 DEF Load
  <2>3. CASE d # c
    <3>1. queue'[d] = q[d] /\ active'[d] = a[d] BY <2>1, <2>3
    <3> QED BY <1>1, <3>1 DEF Load, Held
  <2> QED BY <2>2, <2>3
<1> QED BY <1>2, <1>3

\* Nor does a requeue: the active prompt returns.
LEMMA PauseLoad ==
  ASSUME CoderTypes, TaskTypes, NEW t \in Tasks, Pause(t)
  PROVE  \A d \in Coders : Load(queue', active', d) <= Load(queue, active, d)
<1> DEFINE c == on[t]
<1>1. c \in Coders BY DEF TaskTypes
<1>2. active' = [active EXCEPT ![c] = Null] BY DEF Pause
<1> SUFFICES ASSUME NEW d \in Coders PROVE Load(queue', active', d) <= Load(queue, active, d)
  OBVIOUS
<1>3. queue[d] \in Seq(Prompts) /\ Len(queue[d]) \in Nat BY DEF CoderTypes
<1>4. CASE active[c] = Null
  <2>1. queue' = queue BY <1>4 DEF Pause, Requeue
  <2> QED BY <1>2, <1>3, <2>1 DEF Load, Held, CoderTypes
<1>5. CASE active[c] # Null /\ d # c
  <2>1. queue'[d] = queue[d] /\ active'[d] = active[d]
    BY <1>1, <1>2, <1>5 DEF Pause, Requeue, CoderTypes
  <2> QED BY <1>3, <2>1 DEF Load, Held
<1>6. CASE active[c] # Null /\ d = c
  <2>1. <<active[c]>> \in Seq(Prompts) /\ Len(<<active[c]>>) = 1
    BY <1>1, <1>6 DEF CoderTypes
  <2>2. queue'[d] = <<active[c]>> \o queue[d]
    BY <1>1, <1>6 DEF Pause, Requeue, CoderTypes
  <2>3. Len(queue'[d]) = Len(queue[d]) + 1
    BY <1>3, <2>1, <2>2, ConcatSeq
  <2>4. active'[d] = Null /\ active[d] # Null
    BY <1>1, <1>2, <1>6 DEF CoderTypes
  <2> QED BY <1>3, <2>3, <2>4 DEF Load, Held
<1> QED BY <1>4, <1>5, <1>6

\* Nor does a step that leaves queues and active prompts alone.
LEMMA SameLoad ==
  ASSUME CoderTypes, UNCHANGED <<queue, active>>
  PROVE  \A d \in Coders : Load(queue', active', d) <= Load(queue, active, d)
BY LoadNat DEF CoderTypes

\* The bound holds at the start.
LEMMA InitCap == Init => CapOK
<1> SUFFICES ASSUME Init, NEW c \in Coders
             PROVE  Load(queue, active, c) + Cardinality(Adding(c)) <= Capacity + Cardinality(Producers)
  BY DEF CapOK
<1>1. Load(queue, active, c) = 0
  <2>1. queue[c] = <<>> /\ active[c] = Null BY DEF Init
  <2> QED BY <2>1 DEF Load, Held
<1>2. Adding(c) = {} BY DEF Init, Adding
<1> QED BY <1>1, <1>2, FS_EmptySet, PromptAssumption, AddingBound

\* A producer passes the check only below the capacity.
LEMMA CheckCap ==
  ASSUME TypeInv, TypeInv', CapOK, NEW p \in Producers, NEW place \in 0..MaxPrompts, Check(p, place)
  PROVE  CapOK'
<1> SUFFICES ASSUME NEW c \in Coders
             PROVE  Load(queue', active', c) + Cardinality(Adding(c)') <= Capacity + Cardinality(Producers)
  BY DEF CapOK, Load, Held
<1>1. queue' = queue /\ active' = active BY DEF Check, coderVars
<1>2. Load(queue, active, c) \in Nat /\ Len(queue[c]) \in Nat
  BY LoadNat DEF TypeInv, CoderTypes
<1>3. CASE c = known
  <2>1. Len(queue[c]) <= Capacity - 1
    BY <1>2, <1>3, PromptAssumption DEF Check
  <2>2. Held(active, c) \in {0, 1} BY DEF Held
  <2>3. Load(queue, active, c) <= Capacity
    BY <1>2, <2>1, <2>2, PromptAssumption DEF Load
  <2> QED BY <1>1, <1>2, <2>3, AddingBoundNext, PromptAssumption
<1>4. CASE c # known
  <2>1. Adding(c)' = Adding(c)
    BY <1>4 DEF Check, Adding, TypeInv, RestTypes
  <2> QED BY <1>1, <2>1 DEF CapOK
<1> QED BY <1>3, <1>4

\* A producer that appends is no longer about to.
LEMMA AddCap ==
  ASSUME TypeInv, CapOK, NEW p \in Producers, Add(p)
  PROVE  CapOK'
<1> SUFFICES ASSUME NEW c \in Coders
             PROVE  Load(queue', active', c) + Cardinality(Adding(c)') <= Capacity + Cardinality(Producers)
  BY DEF CapOK, Load, Held
<1>1. PICK d \in Coders : /\ d = producer[p].coder
                          /\ Len(queue'[d]) = Len(queue[d]) + 1
                          /\ \A e \in Coders \ {d} : queue'[e] = queue[e]
  BY AddTypes
<1>2. active' = active /\ producer' = [producer EXCEPT ![p] = Null] /\ producer[p] # Null
  BY DEF Add
<1>3. Len(queue[c]) \in Nat /\ Load(queue, active, c) \in Nat
  BY LoadNat DEF TypeInv, CoderTypes
<1>4. Load(queue, active, c) + Cardinality(Adding(c)) <= Capacity + Cardinality(Producers)
  BY DEF CapOK
<1>5. CASE c = d
  <2>1. Adding(c)' = Adding(c) \ {p} /\ p \in Adding(c)
    BY <1>1, <1>2, <1>5 DEF Adding, TypeInv, RestTypes
  <2>2. Cardinality(Adding(c)') = Cardinality(Adding(c)) - 1
    BY <2>1, AddingBound, FS_RemoveElement
  <2>3. Load(queue', active', c) = Load(queue, active, c) + 1
    <3>1. Held(active', c) = Held(active, c) /\ Held(active, c) \in {0, 1} BY <1>2 DEF Held
    <3> QED BY <1>1, <1>3, <1>5, <3>1 DEF Load
  <2> QED BY <1>3, <1>4, <2>2, <2>3, AddingBound, PromptAssumption
<1>6. CASE c # d
  <2>1. Adding(c)' = Adding(c)
    BY <1>1, <1>2, <1>6 DEF Adding, TypeInv, RestTypes
  <2>2. Load(queue', active', c) = Load(queue, active, c)
    BY <1>1, <1>2, <1>6 DEF Load, Held
  <2> QED BY <1>4, <2>1, <2>2
<1> QED BY <1>5, <1>6

\* Removing and clearing make room.
LEMMA EditCap ==
  ASSUME TypeInv, TypeInv', CapOK, Clear \/ \E i \in 1..MaxPrompts : RemoveFrom(i)
  PROVE  CapOK'
<1>1. active' = active /\ producer' = producer BY DEF Clear, RemoveFrom
<1>2. known \in Coders /\ queue[known] \in Seq(Prompts) BY DEF TypeInv, RestTypes, CoderTypes
<1>3. \E s \in Seq(Prompts) : Len(s) <= Len(queue[known]) /\ queue' = [queue EXCEPT ![known] = s]
  <2>1. CASE Clear
    <3>1. <<>> \in Seq(Prompts) /\ Len(<<>>) <= Len(queue[known]) BY <1>2
    <3> QED BY <2>1, <3>1 DEF Clear
  <2>2. ASSUME NEW i \in 1..MaxPrompts, RemoveFrom(i)
        PROVE  \E s \in Seq(Prompts) : Len(s) <= Len(queue[known]) /\ queue' = [queue EXCEPT ![known] = s]
    <3>1. i \in DOMAIN queue[known] BY <2>2 DEF RemoveFrom
    <3>2. RemoveAt(queue[known], i) \in Seq(Prompts) /\ Len(RemoveAt(queue[known], i)) = Len(queue[known]) - 1
      BY <1>2, <3>1, RemoveAtSeq
    <3>3. queue' = [queue EXCEPT ![known] = RemoveAt(queue[known], i)] BY <2>2 DEF RemoveFrom
    <3>4. Len(RemoveAt(queue[known], i)) <= Len(queue[known]) BY <1>2, <3>2
    <3> QED BY <3>2, <3>3, <3>4, Zenon
  <2> QED BY <2>1, <2>2
<1>4. PICK s \in Seq(Prompts) : Len(s) <= Len(queue[known]) /\ queue' = [queue EXCEPT ![known] = s]
  BY <1>3
<1>5. ASSUME NEW d \in Coders PROVE Load(queue', active', d) <= Load(queue, active, d)
  <2>1. Len(queue'[d]) <= Len(queue[d]) /\ Len(queue'[d]) \in Nat /\ Len(queue[d]) \in Nat
    BY <1>4 DEF TypeInv, CoderTypes
  <2> QED BY <1>1, <2>1 DEF Load, Held
<1> QED BY <1>1, <1>5, Lighter DEF TypeInv

\* A staged workflow fits the capacity.
LEMMA RunWorkflowCap ==
  ASSUME TypeInv, CapOK, NEW t \in Own, NEW k \in Kinds, NEW n \in 1..MaxPrompts, RunWorkflow(t, k, n)
  PROVE  CapOK'
<1> SUFFICES ASSUME NEW c \in Coders
             PROVE  Load(queue', active', c) + Cardinality(Adding(c)') <= Capacity + Cardinality(Producers)
  BY DEF CapOK, Load, Held
<1>1. n <= Capacity /\ queue' = [queue EXCEPT ![known] = [i \in 1..n |-> accepted + i]]
  BY RunWorkflowTypes
<1>2. active' = [active EXCEPT ![known] = Null] /\ producer' = producer BY DEF RunWorkflow
<1>3. CASE c = known
  <2>1. Len([i \in 1..n |-> accepted + i]) = n OBVIOUS
  <2>2. Load(queue', active', c) = n
    BY <1>1, <1>2, <1>3, <2>1 DEF Load, Held, TypeInv, CoderTypes
  <2> QED BY <1>1, <2>2, AddingBoundNext, PromptAssumption
<1>4. CASE c # known
  <2>1. queue'[c] = queue[c] /\ active'[c] = active[c] BY <1>1, <1>2, <1>4 DEF TypeInv, CoderTypes
  <2>2. Adding(c)' = Adding(c) BY <1>2 DEF Adding
  <2> QED BY <2>1, <2>2 DEF CapOK, Load, Held
<1> QED BY <1>3, <1>4

\* The new coder starts with a queue that fits.
LEMMA CopyCap ==
  ASSUME TypeInv, Near, Checked = {}, CapOK, NEW t \in Tasks, Copy(t)
  PROVE  CapOK'
<1> SUFFICES ASSUME NEW c \in Coders
             PROVE  Load(queue', active', c) + Cardinality(Adding(c)') <= Capacity + Cardinality(Producers)
  BY DEF CapOK, Load, Held
<1>1. current + 1 \in Coders /\ queue' = [queue EXCEPT ![current + 1] = queue[current]]
  BY CopyTypes
<1>2. active' = active /\ producer' = producer BY DEF Copy
<1>3. current \in Coders /\ current \in Int BY PromptAssumption DEF TypeInv, RestTypes, Coders
<1>4. Adding(c)' = Adding(c) BY <1>2 DEF Adding
<1>5. CASE c = current + 1
  <2>1. active[c] = Null
    <3>1. t \in Switching /\ t \notin cancelled BY DEF Copy, Switching
    <3>2. Reach(current) BY <3>1 DEF Near, Abandoned
    <3> QED BY <1>1, <1>3, <1>5, <3>2 DEF Reach
  <2>2. Adding(c) = {} BY DEF Adding, Checked
  <2>3. queue'[c] = queue[current] BY <1>1, <1>5 DEF TypeInv, CoderTypes
  <2>4. Load(queue', active', c) = Len(queue[current])
    BY <1>2, <1>3, <2>1, <2>3 DEF Load, Held, TypeInv, CoderTypes
  <2>5. Len(queue[current]) <= Load(queue, active, current) /\ Len(queue[current]) \in Nat /\ Load(queue, active, current) \in Nat
    BY <1>3, LoadNat DEF TypeInv, CoderTypes
  <2>6. Load(queue, active, current) + Cardinality(Adding(current)) <= Capacity + Cardinality(Producers)
    BY <1>3 DEF CapOK
  <2>7. Cardinality(Adding(current)) \in Nat /\ Cardinality(Adding(c)') = 0 /\ Capacity + Cardinality(Producers) \in Nat
    BY <1>3, <1>4, <2>2, AddingBound, FS_EmptySet, PromptAssumption
  <2> QED BY <2>4, <2>5, <2>6, <2>7
<1>6. CASE c # current + 1
  <2>1. queue'[c] = queue[c] BY <1>1, <1>6 DEF TypeInv, CoderTypes
  <2> QED BY <1>2, <1>4, <2>1 DEF CapOK, Load, Held
<1> QED BY <1>5, <1>6

\* The new coder has what the old one had, which has nothing.
LEMMA HandedLoad ==
  ASSUME TypeInv, Near, Checked = {}, CapOK, NEW t \in Tasks, AdoptSubAgent(t), NEW c \in Coders
  PROVE  Load(Handed, Emptied, c) <= Capacity + Cardinality(Producers)
<1> USE DEF TypeInv
<1>1. current \in Coders /\ current + 1 \in Coders /\ current \in Int
  BY AdoptSubAgentTypes, PromptAssumption DEF Coders
<1>2. t \in Switching /\ t \notin cancelled BY DEF AdoptSubAgent, Switching
<1>3. Reach(current) BY <1>2 DEF Near, Abandoned
<1>4. active[current + 1] = Null BY <1>1, <1>3 DEF Reach
<1>5. \A d \in Coders : Load(queue, active, d) \in Nat /\ Len(queue[d]) \in Nat /\ Len(queue[d]) <= Load(queue, active, d)
  BY LoadNat DEF CoderTypes
<1>6. \A d \in Coders : Load(queue, active, d) <= Capacity + Cardinality(Producers)
  <2> TAKE d \in Coders
  <2>1. Load(queue, active, d) + Cardinality(Adding(d)) <= Capacity + Cardinality(Producers)
    BY DEF CapOK
  <2> QED BY <1>5, <2>1, AddingBound, PromptAssumption
<1>7. CASE c = current
  <2>1. Handed[c] = <<>> /\ Emptied[c] = Null BY <1>1, <1>7 DEF Handed, Emptied, CoderTypes
  <2>2. Load(Handed, Emptied, c) = 0 BY <2>1 DEF Load, Held
  <2> QED BY <2>2, AddingBound, PromptAssumption
<1>8. CASE c = current + 1
  <2>1. Handed[c] = queue[current] /\ Emptied[c] = Null
    BY <1>1, <1>4, <1>8 DEF Handed, Emptied, CoderTypes
  <2>2. Load(Handed, Emptied, c) = Len(queue[current]) BY <1>1, <1>5, <2>1 DEF Load, Held
  <2> QED BY <1>1, <1>5, <1>6, <2>2, AddingBound, PromptAssumption
<1>9. CASE c # current /\ c # current + 1
  <2>1. Handed[c] = queue[c] /\ Emptied[c] = active[c] BY <1>9 DEF Handed, Emptied, CoderTypes
  <2>2. Load(Handed, Emptied, c) = Load(queue, active, c) BY <2>1 DEF Load, Held
  <2> QED BY <1>6, <2>2
<1> QED BY <1>7, <1>8, <1>9

\* So the bound holds of it, whether or not it is drained.
LEMMA AdoptSubAgentCap ==
  ASSUME TypeInv, TypeInv', Near, Checked = {}, CapOK, NEW t \in Tasks, AdoptSubAgent(t)
  PROVE  CapOK'
<1> SUFFICES ASSUME NEW c \in Coders
             PROVE  Load(queue', active', c) + Cardinality(Adding(c)') <= Capacity + Cardinality(Producers)
  BY DEF CapOK, Load, Held
<1>1. /\ current + 1 \in Coders /\ Handed \in [Coders -> Seq(Prompts)]
      /\ Emptied \in [Coders -> Prompts \cup {Null}]
  BY AdoptSubAgentTypes
<1>2. Load(Handed, Emptied, c) \in Nat /\ Load(queue', active', c) \in Nat
  BY <1>1, LoadNat DEF TypeInv, CoderTypes
<1>3. Load(queue', active', c) <= Load(Handed, Emptied, c)
  <2>1. CASE Dequeue(t, current + 1, Handed, Emptied)
    BY <1>1, <2>1, DequeueLoad
  <2>2. CASE queue' = Handed /\ active' = Emptied
    <3>1. Load(queue', active', c) = Load(Handed, Emptied, c) BY <2>2 DEF Load, Held
    <3> QED BY <1>2, <3>1
  <2> QED BY <2>1, <2>2 DEF AdoptSubAgent, Handed, Emptied
<1>4. Load(Handed, Emptied, c) <= Capacity + Cardinality(Producers)
  BY HandedLoad
<1>5. Adding(c)' = {} BY DEF AdoptSubAgent, Adding, Checked
<1>6. Cardinality(Adding(c)') = 0 BY <1>5, FS_EmptySet
<1> QED BY <1>2, <1>3, <1>4, <1>6, AddingBound, PromptAssumption

\* A queue that is given up loads nobody.
LEMMA GiveUpCap ==
  ASSUME TypeInv, TypeInv', CapOK, NEW t \in Switching, GiveUp(t), UNCHANGED <<agent, known, active, on, producer>>
  PROVE  CapOK'
<1>1. PICK e \in Coders : queue' = [queue EXCEPT ![e] = <<>>]
  BY GiveUpTypes
<1>2. <<>> \in Seq(Prompts) /\ Len(<<>>) = 0 OBVIOUS
<1>3. ASSUME NEW d \in Coders PROVE Load(queue', active', d) <= Load(queue, active, d)
  <2>1. Len(queue'[d]) <= Len(queue[d]) /\ Len(queue'[d]) \in Nat /\ Len(queue[d]) \in Nat
    BY <1>1, <1>2 DEF TypeInv, CoderTypes
  <2>2. Held(active', d) = Held(active, d) /\ Held(active, d) \in {0, 1} BY DEF Held
  <2> QED BY <2>1, <2>2 DEF Load
<1> QED BY <1>3, Lighter DEF TypeInv

\* No step of a task breaks the bound.
LEMMA TaskCap ==
  ASSUME TypeInv, TypeInv', Near, HandingOver' => Checked = {}, CapOK, NEW t \in Tasks, Task(t) \/ QueueRun(t)
  PROVE  CapOK' \/ AdoptSubAgent(t)
<1> USE DEF TypeInv
<1>1. on[t] \in Coders BY DEF TaskTypes
<1>2. ASSUME UNCHANGED <<queue, active, producer>> PROVE CapOK'
  BY <1>2, SameLoad, Lighter
<1>3. ASSUME NEW c \in Coders, Dequeue(t, c, queue, active), producer' = producer PROVE CapOK'
  BY <1>3, DequeueLoad, Lighter DEF CoderTypes
<1>4. ASSUME Pause(t), producer' = producer PROVE CapOK'
  BY <1>4, PauseLoad, Lighter
<1>5. CASE Open(t) \/ Start(t) \/ Switch(t)
  BY <1>2, <1>5 DEF Open, Start, Switch, Signals
<1>6. CASE AdoptPrimary(t)
  BY <1>2, <1>6 DEF AdoptPrimary, coderVars
<1>7. CASE MessageEnds(t)
  BY <1>1, <1>2, <1>3, <1>7 DEF MessageEnds, Enter
<1>8. CASE Interrupted(t)
  BY <1>4, <1>8 DEF Interrupted
<1>9. CASE Unwind(t)
  BY <1>2, <1>4, <1>9, GiveUpCap DEF Unwind
<1>10. ASSUME NEW outcome \in {"done", "failed"}, Done(t, outcome) PROVE CapOK'
  BY <1>1, <1>3, <1>10 DEF Done
<1>11. CASE QueueRun(t)
  BY <1>3, <1>11, FoundCoder DEF QueueRun
<1>12. CASE Copy(t)
  <2>1. HandingOver' BY <1>12 DEF Copy, HandingOver, Switching, TaskTypes
  <2> QED BY <1>12, <2>1, CopyCap
<1> QED BY <1>5, <1>6, <1>7, <1>8, <1>9, <1>10, <1>11, <1>12 DEF Task

\* No step breaks the bound.
LEMMA NextCap == ASSUME Apart, TypeInv, TypeInv', AheadInv, CapOK, [Next]_vars PROVE CapOK'
<1>1. ASSUME UNCHANGED <<queue, active, producer>> PROVE CapOK'
  BY <1>1, SameLoad, Lighter DEF TypeInv
<1>2. CASE UNCHANGED vars
  BY <1>1, <1>2 DEF vars, coderVars
<1>3. ASSUME NEW p \in Producers, Add(p) PROVE CapOK'
  BY <1>3, AddCap
<1>4. CASE Edit
  BY <1>4, EditCap, CheckCap DEF Edit
<1>5. ASSUME NEW t \in Tasks, Swallow(t) \/ MessageFails(t) \/ SwitchRefused(t) \/ Cancel(t) PROVE CapOK'
  BY <1>1, <1>5 DEF Swallow, MessageFails, SwitchRefused, Cancel, coderVars
<1>6. ASSUME NEW t \in Own, NEW k \in Kinds, Begin(t, k) PROVE CapOK'
  BY <1>1, <1>6 DEF Begin, coderVars
<1>7. CASE Interrupt
  BY <1>1, <1>7 DEF Interrupt
<1>8. ASSUME NEW t \in Tasks, SwitchFails(t) PROVE CapOK'
  BY <1>8, GiveUpCap DEF SwitchFails
<1>9. ASSUME NEW t \in Tasks, AdoptSubAgent(t) PROVE CapOK'
  <2>1. HandingOver BY <1>9 DEF AdoptSubAgent, HandingOver, Switching
  <2> QED BY <1>9, <2>1, AdoptSubAgentCap DEF AheadInv, Near
<1>10. ASSUME NEW t \in Tasks, Task(t) \/ QueueRun(t), HandingOver' => Checked = {} PROVE CapOK'
  BY <1>9, <1>10, TaskCap DEF AheadInv, Near
<1>11. CASE Loop /\ (HandingOver' => Checked = {})
  BY <1>5, <1>6, <1>7, <1>8, <1>10, <1>11, RunWorkflowCap DEF Loop
<1> QED BY <1>2, <1>3, <1>4, <1>11 DEF Next, Apart

\* The bound on what a coder is loaded with is one on its queue.
LEMMA CapBounds == ASSUME TypeInv, CapOK PROVE CapacityOvershoot
<1> SUFFICES ASSUME NEW c \in Coders
             PROVE  Len(queue[c]) <= Capacity + Cardinality(Producers)
  BY DEF CapacityOvershoot
<1>1. Len(queue[c]) <= Load(queue, active, c) /\ Len(queue[c]) \in Nat /\ Load(queue, active, c) \in Nat
  BY LoadNat DEF TypeInv, CoderTypes
<1>2. Load(queue, active, c) + Cardinality(Adding(c)) <= Capacity + Cardinality(Producers)
  BY DEF CapOK
<1> QED BY <1>1, <1>2, AddingBound, PromptAssumption

\* However producers, drains, interruptions, workflow runs and rebuilds meet, a
\* queue holds at most one prompt per producer more than MAX_QUEUE_SIZE
\* (enqueue_prompt tests outside the lock).  The other races may be let in; the
\* two of a handover may not: a prompt that is appended during one, or a foreign
\* drain of the queue that is copied, has no place in the count of the copy.
THEOREM CapacityBound ==
  ASSUME "edit while handing over" \notin Races, "foreign run while handing over" \notin Races
  PROVE  Spec => []CapacityOvershoot
<1>0. Apart BY DEF Apart
<1>1. TypeInv /\ AheadInv /\ CapOK /\ [Next]_vars => TypeInv' /\ AheadInv' /\ CapOK'
  BY <1>0, NextTypes, NextAhead, NextCap
<1>2. Init => TypeInv /\ AheadInv /\ CapOK
  BY InitTypes, InitAhead, InitCap
<1>3. TypeInv /\ CapOK => CapacityOvershoot
  BY CapBounds
<1>4. Spec => [](TypeInv /\ AheadInv /\ CapOK)
  BY <1>1, <1>2, PTL DEF Spec
<1> QED BY <1>3, <1>4, PTL

-----------------------------------------------------------------------------
(* One drain, if what may meet does not.  A message of a sub-agent begins   *)
(* beside the one it cancels, and a drain of another coder beside either:   *)
(* what keeps two from running queued prompts of one coder is the flag      *)
(* _processing_queue, and what keeps the flag and the active prompt from    *)
(* being cleared under a drain is that a second task only opens when the    *)
(* cancelled one is gone.                                                   *)

OneAtATime == Races \subseteq {"edit while handing over"}

Busy(t) == pc[t] \in {"next", "running"}

\* Of two tasks of the agent, one is about to be unwound.
OneOwn == \A t, u \in Own : t # u /\ ~Idle(t) /\ ~Idle(u) => t \in cancelled \/ u \in cancelled

\* One task of the agent is past its opening.
Opened == \A t, u \in Own : pc[t] \notin {"idle", "opening"} /\ pc[u] \notin {"idle", "opening"} => t = u

\* No other coder drains while this one is replaced.
SwitchQuiet == Switching # {} => \A t \in Foreign : Idle(t)

DrainInv == TypeInv /\ OneOwn /\ Opened /\ SwitchQuiet /\ OneDrain

\* At the start nobody drains.
LEMMA InitDrain == Init => DrainInv
<1> SUFFICES ASSUME Init PROVE DrainInv OBVIOUS
<1>1. \A t \in Tasks : pc[t] = "idle" BY DEF Init
<1>2. OneOwn /\ Opened /\ SwitchQuiet BY <1>1 DEF OneOwn, Opened, SwitchQuiet, Idle, Switching, Tasks
<1>3. OneDrain BY <1>1 DEF OneDrain
<1> QED BY <1>2, <1>3, InitTypes DEF DrainInv

\* A step of a task that stays past its opening, leaves, or drains for
\* another coder, and withdraws no cancellation but its own.
LEMMA TasksKept ==
  ASSUME DrainInv, NEW t \in Tasks, NEW place \in Steps, pc' = [pc EXCEPT ![t] = place],
         place = "idle" \/ pc[t] \notin {"idle", "opening"} \/ (t \in Foreign /\ Switching = {}),
         place \in {"creating", "copied"} => t \in Switching,
         cancelled \ {t} \subseteq cancelled', place = "idle" \/ cancelled \subseteq cancelled'
  PROVE  OneOwn' /\ Opened' /\ SwitchQuiet'
<1> USE DEF DrainInv
<1>1. pc \in [Tasks -> Steps] BY DEF TypeInv, TaskTypes
<1>2. \A u \in Tasks : pc'[u] = IF u = t THEN place ELSE pc[u] BY <1>1
<1>3. Own \subseteq Tasks /\ Foreign \subseteq Tasks /\ Own \cap Foreign = {}
  BY PromptAssumption DEF Tasks
<1>4. \A u \in Own : pc'[u] # "idle" => pc[u] # "idle" BY <1>2, <1>3
<1>5. \A u \in Own : pc'[u] # "idle" /\ u \in cancelled => u \in cancelled' BY <1>2, <1>3
<1>6. OneOwn' BY <1>4, <1>5 DEF OneOwn, Idle
<1>7. Opened' BY <1>2, <1>3 DEF Opened
<1>8. Switching' \subseteq Switching BY <1>2 DEF Switching
<1>9. SwitchQuiet' BY <1>2, <1>3, <1>8 DEF SwitchQuiet, Idle
<1> QED BY <1>6, <1>7, <1>9

\* A drain goes on, or begins where no other is.
LEMMA DequeueDrain ==
  ASSUME DrainInv, NEW t \in Tasks, NEW c \in Coders, NEW q \in [Coders -> Seq(Prompts)],
         NEW a \in [Coders -> Prompts \cup {Null}], Dequeue(t, c, q, a),
         pc[t] \notin {"idle", "opening"} \/ (t \in Foreign /\ Switching = {}),
         \A u \in Tasks \ {t} : Busy(u) => on[u] # c /\ a[on[u]] = active[on[u]]
  PROVE  OneOwn' /\ Opened' /\ SwitchQuiet' /\ OneDrain'
<1> USE DEF DrainInv
<1>1. on' = [on EXCEPT ![t] = c] /\ processing' = [processing EXCEPT ![c] = q[c] # <<>>]
  BY DEF Dequeue
<1>2. TypeInv /\ TaskTypes /\ CoderTypes BY DEF TypeInv
<1>3. CASE q[c] = <<>>
  <2>1. active' = [a EXCEPT ![c] = Null] /\ Leave(t) BY <1>3 DEF Dequeue
  <2>2. OneOwn' /\ Opened' /\ SwitchQuiet'
    BY <2>1, TasksKept DEF Leave, Steps
  <2>3. OneDrain'
    BY <1>1, <1>2, <2>1 DEF OneDrain, Busy, Leave, TaskTypes, CoderTypes
  <2> QED BY <2>2, <2>3
<1>4. CASE q[c] # <<>>
  <2>1. /\ active' = [a EXCEPT ![c] = Head(q[c])] /\ pc' = [pc EXCEPT ![t] = "next"]
        /\ item' = [item EXCEPT ![t] = Head(q[c])] /\ cancelled' = cancelled
    BY <1>4 DEF Dequeue
  <2>2. OneOwn' /\ Opened' /\ SwitchQuiet'
    BY <2>1, TasksKept DEF Steps
  <2>3. processing'[c] = TRUE /\ active'[c] = Head(q[c]) /\ item'[t] = Head(q[c]) /\ on'[t] = c
    BY <1>1, <1>2, <1>4, <2>1 DEF TaskTypes, CoderTypes
  <2>4. \A u \in Tasks \ {t} : Busy(u)' => /\ Busy(u) /\ on'[u] = on[u] /\ on[u] # c /\ item'[u] = item[u]
                                           /\ on[u] \in Coders
                                           /\ processing'[on[u]] = processing[on[u]]
                                           /\ active'[on[u]] = active[on[u]]
    BY <1>1, <1>2, <2>1 DEF Busy, TaskTypes, CoderTypes
  <2>5. OneDrain'
    BY <2>3, <2>4 DEF OneDrain, Busy
  <2> QED BY <2>2, <2>5
<1> QED BY <1>3, <1>4

\* A drain ends and leaves the others alone.
LEMMA PauseDrain ==
  ASSUME DrainInv, NEW t \in Tasks, Busy(t), Pause(t)
  PROVE  OneOwn' /\ Opened' /\ SwitchQuiet' /\ OneDrain'
<1> USE DEF DrainInv
<1>1. TaskTypes /\ CoderTypes BY DEF TypeInv
<1>2. OneOwn' /\ Opened' /\ SwitchQuiet'
  BY TasksKept DEF Pause, Leave, Steps
<1>3. \A u \in Tasks \ {t} : Busy(u)' => /\ Busy(u) /\ on'[u] = on[u] /\ on[u] # on[t] /\ item'[u] = item[u]
                                         /\ processing'[on[u]] = processing[on[u]]
                                         /\ active'[on[u]] = active[on[u]]
  BY <1>1 DEF Pause, Leave, Busy, OneDrain, TaskTypes, CoderTypes
<1>4. ~Busy(t)' BY <1>1 DEF Pause, Leave, Busy, TaskTypes
<1>5. OneDrain' BY <1>3, <1>4 DEF OneDrain, Busy
<1> QED BY <1>2, <1>5

\* A task that runs no queued prompt afterwards leaves the drains of others.
LEMMA OthersDrain ==
  ASSUME DrainInv, NEW t \in Tasks, NEW place \in Steps \ {"next", "running"}, pc' = [pc EXCEPT ![t] = place],
         UNCHANGED <<on, active>>, \A u \in Tasks \ {t} : item'[u] = item[u],
         \A u \in Tasks \ {t} : Busy(u) => processing'[on[u]] = processing[on[u]]
  PROVE  OneDrain'
<1> USE DEF DrainInv
<1>1. TaskTypes BY DEF TypeInv
<1>2. ~Busy(t)' BY <1>1 DEF Busy, TaskTypes
<1>3. \A u \in Tasks \ {t} : Busy(u)' => Busy(u) BY <1>1 DEF Busy, TaskTypes
<1> QED BY <1>2, <1>3 DEF OneDrain, Busy

\* A task in the middle of a switch is the only one at its coder.
LEMMA SwitchAlone ==
  ASSUME DrainInv, NEW t \in Switching
  PROVE  t \in Own /\ \A u \in Tasks \ {t} : ~Busy(u)
<1> USE DEF DrainInv
<1>1. \A u \in Foreign : pc[u] = "idle" BY DEF SwitchQuiet, Idle
<1>2. t \in Own BY <1>1 DEF Switching, Tasks
<1>3. \A u \in Own \ {t} : pc[u] \in {"idle", "opening"} BY <1>2 DEF Opened, Switching
<1> QED BY <1>1, <1>2, <1>3 DEF Busy, Tasks

\* Steps of no task.
LEMMA SameDrain ==
  ASSUME DrainInv, UNCHANGED <<pc, on, item, processing, active>>, cancelled \subseteq cancelled'
  PROVE  OneOwn' /\ Opened' /\ SwitchQuiet' /\ OneDrain'
<1> USE DEF DrainInv
<1>1. OneOwn' /\ Opened' BY DEF OneOwn, Opened, Idle
<1>2. SwitchQuiet' /\ OneDrain' BY DEF SwitchQuiet, Switching, Idle, OneDrain
<1> QED BY <1>1, <1>2

\* A task returns and leaves the drains of others.
LEMMA LeaveDrain ==
  ASSUME DrainInv, NEW t \in Tasks, Leave(t), UNCHANGED <<on, active>>,
         \A u \in Tasks \ {t} : Busy(u) => processing'[on[u]] = processing[on[u]]
  PROVE  OneOwn' /\ Opened' /\ SwitchQuiet' /\ OneDrain'
<1>1. OneOwn' /\ Opened' /\ SwitchQuiet' BY TasksKept DEF Leave, Steps
<1>2. \A u \in Tasks \ {t} : item'[u] = item[u] BY DEF Leave, DrainInv, TypeInv, TaskTypes
<1>3. OneDrain' BY <1>2, OthersDrain DEF Leave, Steps
<1> QED BY <1>1, <1>3

\* A message opens when the task it cancelled is gone.
LEMMA OpenDrain ==
  ASSUME OneAtATime, DrainInv, NEW t \in Tasks, Open(t)
  PROVE  OneOwn' /\ Opened' /\ SwitchQuiet' /\ OneDrain'
<1> USE DEF DrainInv
<1>1. /\ pc[t] = "opening" /\ pc' = [pc EXCEPT ![t] = "working"] /\ Own \cap cancelled = {}
      /\ UNCHANGED <<active, processing, on, item, cancelled>>
  BY DEF Open, OneAtATime
<1>2. \A u \in Tasks : pc'[u] = IF u = t THEN "working" ELSE pc[u]
  BY <1>1 DEF TypeInv, TaskTypes
<1>3. Own \subseteq Tasks /\ Foreign \subseteq Tasks BY DEF Tasks
<1>4. OneOwn' BY <1>1, <1>2, <1>3 DEF OneOwn, Idle
<1>5. \A u \in Own \ {t} : t \in Own => pc[u] = "idle" BY <1>1 DEF OneOwn, Idle
<1>6. Opened' BY <1>2, <1>3, <1>5 DEF Opened
<1>7. SwitchQuiet' BY <1>1, <1>2, <1>3 DEF SwitchQuiet, Idle, Switching
<1>8. OneDrain' BY <1>1, OthersDrain DEF Steps
<1> QED BY <1>4, <1>6, <1>7, <1>8

\* The prompt of a drain starts.
LEMMA StartDrain ==
  ASSUME DrainInv, NEW t \in Tasks, Start(t)
  PROVE  OneOwn' /\ Opened' /\ SwitchQuiet' /\ OneDrain'
<1> USE DEF DrainInv
<1>1. /\ pc[t] = "next" /\ pc' = [pc EXCEPT ![t] = "running"]
      /\ UNCHANGED <<active, processing, on, item, cancelled>>
  BY DEF Start
<1>2. OneOwn' /\ Opened' /\ SwitchQuiet' BY <1>1, TasksKept DEF Steps
<1>3. \A u \in Tasks : Busy(u)' = Busy(u) BY <1>1 DEF Busy, TypeInv, TaskTypes
<1>4. OneDrain' BY <1>1, <1>3 DEF OneDrain, Busy
<1> QED BY <1>2, <1>4

\* A message that ends drains only where nobody does.
LEMMA MessageEndsDrain ==
  ASSUME DrainInv, NEW t \in Tasks, MessageEnds(t)
  PROVE  OneOwn' /\ Opened' /\ SwitchQuiet' /\ OneDrain'
<1> USE DEF DrainInv
<1>1. pc[t] = "working" BY DEF MessageEnds
<1>2. on[t] \in Coders /\ TaskTypes /\ CoderTypes BY DEF TypeInv, TaskTypes
<1>3. CASE Leave(t) /\ UNCHANGED <<active, processing, on>>
  BY <1>3, LeaveDrain
<1>4. CASE ~processing[on[t]] /\ Dequeue(t, on[t], queue, active)
  <2>1. \A u \in Tasks \ {t} : Busy(u) => on[u] # on[t] /\ active[on[u]] = active[on[u]]
    BY <1>4 DEF OneDrain, Busy
  <2> QED BY <1>1, <1>2, <1>4, <2>1, DequeueDrain DEF CoderTypes
<1> QED BY <1>3, <1>4 DEF MessageEnds, Enter

\* A drain goes on to its next prompt.
LEMMA DoneDrain ==
  ASSUME DrainInv, NEW t \in Tasks, NEW outcome \in {"done", "failed"}, Done(t, outcome)
  PROVE  OneOwn' /\ Opened' /\ SwitchQuiet' /\ OneDrain'
<1> USE DEF DrainInv
<1>1. pc[t] = "running" /\ Dequeue(t, on[t], queue, active) BY DEF Done
<1>2. on[t] \in Coders /\ CoderTypes BY DEF TypeInv, TaskTypes
<1>3. \A u \in Tasks \ {t} : Busy(u) => on[u] # on[t] /\ active[on[u]] = active[on[u]]
  BY <1>1 DEF OneDrain, Busy
<1> QED BY <1>1, <1>2, <1>3, DequeueDrain DEF CoderTypes

\* A foreign drain begins only where nobody drains and no coder is replaced.
LEMMA QueueRunDrain ==
  ASSUME OneAtATime, DrainInv, NEW t \in Tasks, QueueRun(t)
  PROVE  OneOwn' /\ Opened' /\ SwitchQuiet' /\ OneDrain'
<1> USE DEF DrainInv
<1>1. PICK c \in Coders : ~processing[c] /\ Dequeue(t, c, queue, active)
  BY FoundCoder DEF QueueRun
<1>2. t \in Foreign /\ Switching = {} BY DEF QueueRun, OneAtATime
<1>3. CoderTypes BY DEF TypeInv
<1>4. \A u \in Tasks \ {t} : Busy(u) => on[u] # c /\ active[on[u]] = active[on[u]]
  BY <1>1 DEF OneDrain, Busy
<1> QED BY <1>1, <1>2, <1>3, <1>4, DequeueDrain DEF CoderTypes

\* A rebuild that is given up clears the flag of its own drain.
LEMMA EndDrainDrain ==
  ASSUME DrainInv, NEW t \in Tasks, \A u \in Tasks \ {t} : ~Busy(u), EndDrain(t), UNCHANGED <<active, on>>
  PROVE  OneOwn' /\ Opened' /\ SwitchQuiet' /\ OneDrain'
BY LeaveDrain DEF EndDrain

\* A cancelled task ends its own drain.
LEMMA UnwindDrain ==
  ASSUME DrainInv, NEW t \in Tasks, Unwind(t)
  PROVE  OneOwn' /\ Opened' /\ SwitchQuiet' /\ OneDrain'
<1>1. CASE Leave(t) /\ UNCHANGED <<queue, active, processing, drainAfter, on>>
  BY <1>1, LeaveDrain
<1>2. CASE pc[t] \in {"next", "running"} /\ Pause(t)
  BY <1>2, PauseDrain DEF Busy
<1>3. CASE t \in Switching /\ GiveUp(t) /\ UNCHANGED <<active, on>>
  BY <1>3, SwitchAlone, EndDrainDrain DEF GiveUp
<1> QED BY <1>1, <1>2, <1>3 DEF Unwind

\* A switch is signalled with nobody else at the coder.
LEMMA SignalsAlone ==
  ASSUME OneAtATime, DrainInv, NEW t \in Tasks, Signals(t)
  PROVE  /\ pc[t] \in {"working", "running"} /\ t \in Own /\ \A u \in Foreign : Idle(u)
         /\ \A u \in Tasks \ {t} : ~Busy(u)
<1> USE DEF DrainInv
<1>1. pc[t] \in {"working", "running"} /\ \A u \in Foreign : Idle(u)
  BY DEF Signals, OneAtATime
<1>2. t \in Own BY <1>1 DEF Tasks, Idle
<1>3. \A u \in Tasks \ {t} : ~Busy(u)
  BY <1>1, <1>2 DEF Busy, Opened, Idle, Tasks
<1> QED BY <1>1, <1>2, <1>3

\* So it begins a rebuild alone.
LEMMA SwitchDrain ==
  ASSUME OneAtATime, DrainInv, NEW t \in Tasks, Switch(t)
  PROVE  OneOwn' /\ Opened' /\ SwitchQuiet' /\ OneDrain'
<1> USE DEF DrainInv
<1>1. /\ pc[t] \in {"working", "running"} /\ t \in Own
      /\ \A u \in Foreign : Idle(u)
      /\ \A u \in Tasks \ {t} : ~Busy(u)
  BY SignalsAlone DEF Switch
<1>2. /\ pc' = [pc EXCEPT ![t] = "creating"]
      /\ UNCHANGED <<active, on, item, cancelled>>
  BY DEF Switch
<1>3. TaskTypes /\ CoderTypes BY DEF TypeInv
<1>4. \A u \in Tasks : pc'[u] = IF u = t THEN "creating" ELSE pc[u] BY <1>2, <1>3 DEF TaskTypes
<1>5. Own \subseteq Tasks /\ Foreign \subseteq Tasks BY DEF Tasks
<1>6. OneOwn' /\ Opened' BY <1>1, <1>2, <1>4, <1>5 DEF OneOwn, Opened, Idle
<1>7. SwitchQuiet' BY <1>1, <1>4, <1>5, PromptAssumption DEF SwitchQuiet, Idle
<1>8. OneDrain' BY <1>1, <1>2, OthersDrain DEF Steps
<1> QED BY <1>6, <1>7, <1>8

\* ... or ends its drain alone.
LEMMA SwitchRefusedDrain ==
  ASSUME OneAtATime, DrainInv, NEW t \in Tasks, SwitchRefused(t)
  PROVE  OneOwn' /\ Opened' /\ SwitchQuiet' /\ OneDrain'
BY SignalsAlone, EndDrainDrain DEF SwitchRefused

\* A handover meets no drain.
LEMMA AdoptDrain ==
  ASSUME DrainInv, NEW t \in Tasks, Copy(t) \/ AdoptPrimary(t) \/ AdoptSubAgent(t)
  PROVE  OneOwn' /\ Opened' /\ SwitchQuiet' /\ OneDrain'
<1> USE DEF DrainInv
<1>1. t \in Switching BY DEF Copy, AdoptPrimary, AdoptSubAgent, Switching
<1>2. \A u \in Tasks \ {t} : ~Busy(u) BY <1>1, SwitchAlone
<1>3. CASE Copy(t)
  <2>1. /\ pc' = [pc EXCEPT ![t] = "copied"] /\ pc[t] = "creating"
        /\ UNCHANGED <<on, active, processing, item, cancelled>>
    BY <1>3 DEF Copy
  <2>2. OneOwn' /\ Opened' /\ SwitchQuiet' BY <1>1, <2>1, TasksKept DEF Steps
  <2>3. OneDrain' BY <1>2, <2>1, OthersDrain DEF Steps
  <2> QED BY <2>2, <2>3
<1>4. CASE AdoptPrimary(t)
  BY <1>2, <1>4, LeaveDrain DEF AdoptPrimary, coderVars
<1>5. CASE AdoptSubAgent(t)
  <2>1. /\ current + 1 \in Coders /\ Handed \in [Coders -> Seq(Prompts)]
        /\ Emptied \in [Coders -> Prompts \cup {Null}]
    BY <1>5, AdoptSubAgentTypes
  <2>2. CASE Dequeue(t, current + 1, Handed, Emptied)
    <3>1. pc[t] = "copied" BY <1>5 DEF AdoptSubAgent
    <3> QED BY <1>2, <2>1, <2>2, <3>1, DequeueDrain
  <2>3. CASE Leave(t)
    <3>1. OneOwn' /\ Opened' /\ SwitchQuiet' BY <2>3, TasksKept DEF Leave, Steps
    <3>2. \A u \in Tasks : ~Busy(u)' BY <1>2, <2>3 DEF Leave, Busy, TypeInv, TaskTypes
    <3>3. OneDrain' BY <3>2 DEF OneDrain, Busy
    <3> QED BY <3>1, <3>3
  <2> QED BY <1>5, <2>2, <2>3 DEF AdoptSubAgent, Handed, Emptied
<1> QED BY <1>3, <1>4, <1>5

\* A message begins beside tasks it cancels.
LEMMA BeginDrain ==
  ASSUME DrainInv, NEW t \in Own, NEW k \in Kinds, Begin(t, k)
  PROVE  OneOwn' /\ Opened' /\ SwitchQuiet' /\ OneDrain'
<1> USE DEF DrainInv
<1>1. /\ Idle(t) /\ pc' = [pc EXCEPT ![t] = "opening"] /\ on' = [on EXCEPT ![t] = known]
      /\ cancelled' = cancelled \cup {u \in Own : ~Idle(u)}
      /\ UNCHANGED <<active, processing, item>>
  BY DEF Begin, coderVars
<1>2. TaskTypes BY DEF TypeInv
<1>3. t \in Tasks /\ Own \subseteq Tasks /\ Foreign \subseteq Tasks BY DEF Tasks
<1>4. \A u \in Tasks : pc'[u] = IF u = t THEN "opening" ELSE pc[u] BY <1>1, <1>2 DEF TaskTypes
<1>5. OneOwn' BY <1>1, <1>3, <1>4 DEF OneOwn, Idle
<1>6. Opened' BY <1>3, <1>4 DEF Opened
<1>7. t \notin Foreign BY PromptAssumption
<1>8. SwitchQuiet' BY <1>3, <1>4, <1>7 DEF SwitchQuiet, Idle, Switching
<1>9. \A u \in Tasks : Busy(u)' => Busy(u) /\ u # t /\ on'[u] = on[u]
  BY <1>1, <1>2, <1>3, <1>4 DEF Busy, TaskTypes
<1>10. OneDrain' BY <1>1, <1>9 DEF OneDrain, Busy
<1> QED BY <1>5, <1>6, <1>8, <1>10

\* A run of a workflow begins alone.
LEMMA RunWorkflowDrain ==
  ASSUME OneAtATime, DrainInv, NEW t \in Own, NEW k \in Kinds, NEW n \in 1..MaxPrompts, RunWorkflow(t, k, n)
  PROVE  OneOwn' /\ Opened' /\ SwitchQuiet' /\ OneDrain'
<1> USE DEF DrainInv
<1>1. /\ \A u \in Own : Idle(u)
      /\ \A u \in Foreign : Idle(u)
      /\ pc' = [pc EXCEPT ![t] = "opening"]
  BY DEF RunWorkflow, OneAtATime
<1>2. t \in Tasks /\ Own \subseteq Tasks /\ Foreign \subseteq Tasks BY DEF Tasks
<1>3. \A u \in Tasks : pc'[u] \in {"idle", "opening"} /\ (u # t => pc'[u] = "idle")
  BY <1>1, <1>2 DEF Idle, TypeInv, TaskTypes, Tasks
<1> QED BY <1>2, <1>3 DEF OneOwn, Opened, SwitchQuiet, Switching, OneDrain, Idle

\* Every step keeps the invariant.
LEMMA NextDrain == ASSUME OneAtATime, DrainInv, [Next]_vars PROVE DrainInv'
<1> USE DEF DrainInv
<1>1. TypeInv' BY NextTypes
<1> SUFFICES OneOwn' /\ Opened' /\ SwitchQuiet' /\ OneDrain'
  BY <1>1
<1>2. CASE UNCHANGED vars
  BY <1>2, SameDrain DEF vars, coderVars, taskVars
<1>3. CASE Edit \/ (\E p \in Producers : Add(p)) \/ Interrupt
  BY <1>3, SameDrain DEF Edit, Add, Check, RemoveFrom, Clear, Interrupt, coderVars, taskVars
<1>4. ASSUME NEW t \in Tasks,
             \/ Task(t) \/ Swallow(t) \/ MessageFails(t) \/ QueueRun(t) \/ Cancel(t)
             \/ SwitchRefused(t) \/ SwitchFails(t)
      PROVE  OneOwn' /\ Opened' /\ SwitchQuiet' /\ OneDrain'
  <2>1. CASE Swallow(t) \/ Cancel(t)
    BY <2>1, SameDrain DEF Swallow, Cancel, coderVars, taskVars
  <2>2. CASE MessageFails(t)
    BY <2>2, LeaveDrain DEF MessageFails, coderVars
  <2>3. CASE SwitchFails(t)
    BY <2>3, SwitchAlone, EndDrainDrain DEF SwitchFails, GiveUp
  <2>4. CASE Interrupted(t)
    BY <2>4, PauseDrain DEF Interrupted, Busy
  <2>5. CASE Task(t)
    BY <2>4, <2>5, OpenDrain, MessageEndsDrain, StartDrain, UnwindDrain, DoneDrain, SwitchDrain, AdoptDrain
       DEF Task
  <2> QED BY <1>4, <2>1, <2>2, <2>3, <2>5, QueueRunDrain, SwitchRefusedDrain
<1>5. ASSUME NEW t \in Own, NEW k \in Kinds, Begin(t, k) \/ \E n \in 1..MaxPrompts : RunWorkflow(t, k, n)
      PROVE  OneOwn' /\ Opened' /\ SwitchQuiet' /\ OneDrain'
  BY <1>5, BeginDrain, RunWorkflowDrain
<1>6. CASE Loop
  BY <1>3, <1>4, <1>5, <1>6 DEF Loop
<1> QED BY <1>2, <1>3, <1>6 DEF Next

\* Unless foreign drains meet a handover or a reset, runs of a workflow wait two
\* at a time, or a cancelled task takes longer to unwind than a new one to open,
\* _processing_queue admits one drain: a queued prompt is run by one task, and is
\* its coder's active prompt.
THEOREM SingleDrain == ASSUME OneAtATime PROVE Spec => []OneDrain
<1>1. Init => DrainInv
  BY InitDrain
<1>2. DrainInv /\ [Next]_vars => DrainInv'
  BY NextDrain
<1>3. DrainInv => OneDrain
  BY DEF DrainInv
<1> QED BY <1>1, <1>2, <1>3, PTL DEF Spec

-----------------------------------------------------------------------------
(* No prompt is lost, and they keep their order, if nothing of RaceNames   *)
(* meets.  The line of the agent is its active prompt with the queue       *)
(* behind it; a step takes prompts out of it and puts new ones in.         *)

Lined(a, q) == (IF a = Null THEN <<>> ELSE <<a>>) \o q

\* Whatever is in line was accepted.
Numbered == \A k \in DOMAIN Line(current) : Line(current)[k] <= accepted

\* An active prompt that is not done with is being run.
ActiveServed ==
  active[current] # Null /\ fate[active[current]] = "waiting" => \E t \in Tasks : Busy(t) /\ on[t] = current

BusyItem == \A t \in Tasks : Busy(t) => item[t] # Null

\* A producer appends to the queue of the agent, not of a coder it had.
ProducersHere == \A p \in Producers : producer[p] # Null => producer[p].coder = current

\* The copy of the queue is one until the new coder takes over, and at a coder
\* to come there is nothing but it, and a message at most.
Handover ==
  /\ \A t \in Tasks : pc[t] = "copied" => queue[current + 1] = queue[current]
  /\ \A t \in Tasks : pc[t] \in {"idle", "opening"} \/ on[t] <= current
  /\ \A c \in Coders : c > current =>
       active[c] = Null /\ (queue[c] = <<>> \/ (c = current + 1 /\ \E t \in Tasks : pc[t] = "copied"))

LineInv ==
  DrainInv /\ AheadInv /\ NoPromptLost /\ Numbered /\ ActiveServed /\ BusyItem /\ ProducersHere /\ Handover

\* r is what is left of s, in its order, with prompts n+1..m put in.
Follows(s, r, n, m) ==
  \E at \in [DOMAIN r -> 0..Len(s)] :
    /\ \A k \in DOMAIN r : IF at[k] = 0 THEN r[k] \in n+1..m ELSE r[k] = s[at[k]]
    /\ \A k, l \in DOMAIN r : k < l /\ at[k] # 0 /\ at[l] # 0 => at[k] < at[l]
    /\ \A k, l \in DOMAIN r : at[k] = 0 /\ at[l] = 0 /\ r[k] = r[l] => k = l

\* What follows a line of different prompts is one, and no two of them have
\* changed places.
LEMMA FollowsKeeps ==
  ASSUME NEW n \in Nat, NEW m \in Nat, n <= m, NEW s \in Seq(Nat), NEW r \in Seq(Nat),
         IsInjective(s), \A k \in DOMAIN s : s[k] <= n, Follows(s, r, n, m)
  PROVE  /\ IsInjective(r) /\ \A k \in DOMAIN r : r[k] <= m
         /\ \A i, j \in DOMAIN s : i < j => ~ \E k, l \in DOMAIN r : l < k /\ r[k] = s[i] /\ r[l] = s[j]
<1>1. PICK at \in [DOMAIN r -> 0..Len(s)] :
        /\ \A k \in DOMAIN r : IF at[k] = 0 THEN r[k] \in n+1..m ELSE r[k] = s[at[k]]
        /\ \A k, l \in DOMAIN r : k < l /\ at[k] # 0 /\ at[l] # 0 => at[k] < at[l]
        /\ \A k, l \in DOMAIN r : at[k] = 0 /\ at[l] = 0 /\ r[k] = r[l] => k = l
  BY DEF Follows
<1>2. \A k \in DOMAIN r : k \in Nat /\ at[k] \in Nat /\ (at[k] # 0 => at[k] \in DOMAIN s)
  OBVIOUS
<1>3. \A k \in DOMAIN r : /\ r[k] \in Nat
                          /\ at[k] = 0 => n < r[k] /\ r[k] <= m
                          /\ at[k] # 0 => r[k] = s[at[k]] /\ r[k] <= n
  BY <1>1, <1>2
<1>4. \A k, l \in DOMAIN r : r[k] = r[l] => (at[k] = 0 <=> at[l] = 0)
  BY <1>3
<1>5. \A k, l \in DOMAIN r : r[k] = r[l] /\ at[k] # 0 => at[k] = at[l]
  BY <1>2, <1>3, <1>4 DEF IsInjective
<1>6. \A k, l \in DOMAIN r : r[k] = r[l] => k = l
  <2> SUFFICES ASSUME NEW k \in DOMAIN r, NEW l \in DOMAIN r, r[k] = r[l], k # l PROVE FALSE
    OBVIOUS
  <2>1. at[k] # 0 /\ at[l] # 0 /\ at[k] = at[l]
    BY <1>1, <1>4, <1>5
  <2>2. k < l \/ l < k
    BY <1>2
  <2> QED BY <1>1, <1>2, <2>1, <2>2
<1>7. ASSUME NEW i \in DOMAIN s, NEW j \in DOMAIN s, i < j, NEW k \in DOMAIN r, NEW l \in DOMAIN r,
             l < k, r[k] = s[i], r[l] = s[j]
      PROVE  FALSE
  <2>1. at[k] # 0 /\ at[l] # 0
    BY <1>3, <1>7
  <2>2. at[k] = i /\ at[l] = j
    BY <1>2, <1>3, <1>7, <2>1 DEF IsInjective
  <2>3. i \in Nat /\ j \in Nat
    OBVIOUS
  <2> QED BY <1>1, <1>7, <2>1, <2>2, <2>3
<1>8. \A k \in DOMAIN r : r[k] <= m
  BY <1>3
<1> QED BY <1>6, <1>7, <1>8 DEF IsInjective

\* The line that stays is followed by itself.
LEMMA FollowsSame ==
  ASSUME NEW n, NEW m, NEW s \in Seq(Nat)
  PROVE  Follows(s, s, n, m)
<1> DEFINE at == [k \in DOMAIN s |-> k]
<1>1. at \in [DOMAIN s -> 0..Len(s)] /\ \A k \in DOMAIN s : at[k] = k /\ k # 0
  OBVIOUS
<1> HIDE DEF at
<1> QED BY <1>1 DEF Follows

\* The places behind an active prompt.
LEMMA LinedPlaces ==
  ASSUME NEW a, NEW S, NEW q \in Seq(S)
  PROVE  /\ a = Null => Lined(a, q) = q
         /\ a # Null => /\ DOMAIN Lined(a, q) = 1..(Len(q) + 1) /\ Len(Lined(a, q)) = Len(q) + 1
                        /\ Lined(a, q)[1] = a
                        /\ \A k \in 1..Len(q) : Lined(a, q)[k + 1] = q[k]
<1>1. CASE a = Null
  BY <1>1 DEF Lined
<1>2. CASE a # Null
  <2>1. Lined(a, q) = <<a>> \o q
    BY <1>2 DEF Lined
  <2>2. q \in Seq(S \cup {a}) /\ <<a>> \in Seq(S \cup {a})
    OBVIOUS
  <2> QED BY <1>2, <2>1, <2>2
<1> QED BY <1>1, <1>2

\* The type of a line.
LEMMA LinedSeq ==
  ASSUME NEW S, NEW a \in S \cup {Null}, NEW q \in Seq(S)
  PROVE  Lined(a, q) \in Seq(S)
BY DEF Lined

\* The active prompt is dropped.
LEMMA FollowsQueue ==
  ASSUME NEW n, NEW m, NEW a \in Nat \cup {Null}, NEW q \in Seq(Nat)
  PROVE  Follows(Lined(a, q), q, n, m)
<1>1. CASE a = Null
  BY <1>1, LinedPlaces, FollowsSame
<1>2. CASE a # Null
  <2> DEFINE at == [k \in DOMAIN q |-> k + 1]
  <2>0. /\ DOMAIN q = 1..Len(q) /\ Len(q) \in Nat /\ Len(Lined(a, q)) = Len(q) + 1
        /\ \A k \in 1..Len(q) : Lined(a, q)[k + 1] = q[k]
    BY <1>2, LinedPlaces
  <2>1. /\ at \in [DOMAIN q -> 0..Len(Lined(a, q))]
        /\ \A k \in DOMAIN q : at[k] = k + 1 /\ k + 1 # 0 /\ q[k] = Lined(a, q)[at[k]]
    BY <2>0
  <2>2. \A k, l \in DOMAIN q : k < l => at[k] < at[l]
    OBVIOUS
  <2> HIDE DEF at
  <2> QED BY <2>1, <2>2 DEF Follows
<1> QED BY <1>1, <1>2

\* What follows a queue follows it behind an active prompt.
LEMMA FollowsBehind ==
  ASSUME NEW n, NEW m, NEW a \in Nat \cup {Null}, NEW q \in Seq(Nat), NEW r \in Seq(Nat), Follows(q, r, n, m)
  PROVE  Follows(Lined(a, q), Lined(a, r), n, m)
<1>1. CASE a = Null
  BY <1>1, LinedPlaces
<1>2. CASE a # Null
  <2>1. PICK at \in [DOMAIN r -> 0..Len(q)] :
          /\ \A k \in DOMAIN r : IF at[k] = 0 THEN r[k] \in n+1..m ELSE r[k] = q[at[k]]
          /\ \A k, l \in DOMAIN r : k < l /\ at[k] # 0 /\ at[l] # 0 => at[k] < at[l]
          /\ \A k, l \in DOMAIN r : at[k] = 0 /\ at[l] = 0 /\ r[k] = r[l] => k = l
    BY DEF Follows
  <2> DEFINE x == Lined(a, q)
             y == Lined(a, r)
             here == [k \in DOMAIN y |-> IF k = 1 THEN 1 ELSE IF at[k - 1] = 0 THEN 0 ELSE at[k - 1] + 1]
  <2>2. /\ DOMAIN y = 1..(Len(r) + 1) /\ y[1] = a /\ \A k \in 1..Len(r) : y[k + 1] = r[k]
        /\ Len(x) = Len(q) + 1 /\ x[1] = a /\ \A k \in 1..Len(q) : x[k + 1] = q[k]
    BY <1>2, LinedPlaces
  <2> HIDE DEF x, y
  <2>3. DOMAIN r = 1..Len(r) /\ Len(r) \in Nat /\ Len(q) \in Nat
    OBVIOUS
  <2>4. /\ here[1] = 1 /\ 1 \in DOMAIN y
        /\ \A k \in DOMAIN r : /\ k + 1 \in DOMAIN y
                               /\ here[k + 1] = IF at[k] = 0 THEN 0 ELSE at[k] + 1
                               /\ at[k] \in 0..Len(q)
    BY <2>2, <2>3
  <2>5. \A k \in DOMAIN y : k = 1 \/ \E i \in DOMAIN r : k = i + 1
    <3> SUFFICES ASSUME NEW k \in DOMAIN y, k # 1 PROVE \E i \in DOMAIN r : k = i + 1
      OBVIOUS
    <3>1. k - 1 \in DOMAIN r /\ k = (k - 1) + 1
      BY <2>2, <2>3
    <3> QED BY <3>1
  <2>6. here \in [DOMAIN y -> 0..Len(x)]
    <3>1. \A k \in DOMAIN y : here[k] \in 0..Len(x)
      BY <2>2, <2>3, <2>4, <2>5
    <3> QED BY <3>1
  <2> HIDE DEF here
  <2>7. \A k \in DOMAIN y : IF here[k] = 0 THEN y[k] \in n+1..m ELSE y[k] = x[here[k]]
    <3>1. y[1] = x[here[1]] /\ here[1] # 0
      BY <2>2, <2>4
    <3>2. ASSUME NEW i \in DOMAIN r, at[i] = 0 PROVE here[i + 1] = 0 /\ y[i + 1] \in n+1..m
      BY <2>1, <2>2, <2>3, <2>4, <3>2
    <3>3. ASSUME NEW i \in DOMAIN r, at[i] # 0 PROVE here[i + 1] # 0 /\ y[i + 1] = x[here[i + 1]]
      <4>1. at[i] \in 1..Len(q) /\ here[i + 1] = at[i] + 1
        BY <2>3, <2>4, <3>3
      <4>2. r[i] = q[at[i]] /\ y[i + 1] = r[i] /\ x[at[i] + 1] = q[at[i]]
        BY <2>1, <2>2, <2>3, <3>3, <4>1
      <4> QED BY <4>1, <4>2
    <3> QED BY <2>5, <3>1, <3>2, <3>3
  <2>8. \A k, l \in DOMAIN y : k < l /\ here[k] # 0 /\ here[l] # 0 => here[k] < here[l]
    <3> SUFFICES ASSUME NEW k \in DOMAIN y, NEW l \in DOMAIN y, k < l, here[k] # 0, here[l] # 0 PROVE here[k] < here[l]
      OBVIOUS
    <3>0. l # 1
      BY <2>2, <2>3
    <3>1. PICK j \in DOMAIN r : l = j + 1
      BY <2>5, <3>0
    <3>4. here[l] = at[j] + 1 /\ at[j] # 0 /\ at[j] \in Nat
      BY <2>4, <3>1
    <3>2. CASE k = 1
      BY <2>4, <3>2, <3>4
    <3>3. ASSUME NEW i \in DOMAIN r, k = i + 1 PROVE here[k] < here[l]
      <4>1. here[k] = at[i] + 1 /\ at[i] # 0 /\ at[i] \in Nat /\ i < j
        BY <2>3, <2>4, <3>1, <3>3
      <4> QED BY <2>1, <3>4, <4>1
    <3> QED BY <2>5, <3>2, <3>3
  <2>9. \A k, l \in DOMAIN y : here[k] = 0 /\ here[l] = 0 /\ y[k] = y[l] => k = l
    <3> SUFFICES ASSUME NEW k \in DOMAIN y, NEW l \in DOMAIN y, here[k] = 0, here[l] = 0, y[k] = y[l] PROVE k = l
      OBVIOUS
    <3>0. k # 1 /\ l # 1
      BY <2>4
    <3>1. PICK i \in DOMAIN r : k = i + 1
      BY <2>5, <3>0
    <3>2. PICK j \in DOMAIN r : l = j + 1
      BY <2>5, <3>0, Zenon
    <3>3. at[i] = 0 /\ at[j] = 0 /\ r[i] = r[j]
      BY <2>2, <2>3, <2>4, <3>1, <3>2
    <3> QED BY <2>1, <3>1, <3>2, <3>3
  <2> QED BY <2>6, <2>7, <2>8, <2>9 DEF Follows, x, y
<1> QED BY <1>1, <1>2

\* The places of a concatenation.
LEMMA ConcatPlaces ==
  ASSUME NEW S, NEW s \in Seq(S), NEW r \in Seq(S)
  PROVE  /\ DOMAIN (s \o r) = 1..(Len(s) + Len(r))
         /\ \A k \in 1..Len(s) : (s \o r)[k] = s[k]
         /\ \A k \in Len(s) + 1 .. Len(s) + Len(r) : (s \o r)[k] = r[k - Len(s)]
OBVIOUS

\* One prompt is taken out.
LEMMA FollowsRemoval ==
  ASSUME NEW n, NEW m, NEW s \in Seq(Nat), NEW i \in DOMAIN s
  PROVE  /\ Follows(s, RemoveAt(s, i), n, m)
         /\ \A k \in DOMAIN s \ {i} : Contains(RemoveAt(s, i), s[k])
<1> DEFINE before == SubSeq(s, 1, i - 1)
           behind == SubSeq(s, i + 1, Len(s))
           r == before \o behind
           at == [k \in DOMAIN r |-> IF k < i THEN k ELSE k + 1]
<1>0. DOMAIN s = 1..Len(s) /\ Len(s) \in Nat /\ i \in 1..Len(s)
  OBVIOUS
<1>1. before \in Seq(Nat) /\ Len(before) = i - 1 /\ \A k \in 1..(i - 1) : before[k] = s[k]
  OBVIOUS
<1>2. behind \in Seq(Nat) /\ Len(behind) = Len(s) - i /\ \A k \in 1..(Len(s) - i) : behind[k] = s[i + k]
  OBVIOUS
<1>3. RemoveAt(s, i) = r
  BY Zenon DEF RemoveAt
<1> HIDE DEF before, behind
<1>4. /\ r \in Seq(Nat) /\ Len(r) = Len(s) - 1 /\ DOMAIN r = 1..(Len(s) - 1)
      /\ \A k \in 1..(i - 1) : r[k] = before[k]
      /\ \A k \in i..(Len(s) - 1) : r[k] = behind[k - (i - 1)]
  <2>1. /\ r \in Seq(Nat) /\ Len(r) = Len(before) + Len(behind) /\ DOMAIN r = 1..Len(r)
        /\ \A k \in 1..Len(before) : r[k] = before[k]
        /\ \A k \in Len(before) + 1 .. Len(before) + Len(behind) : r[k] = behind[k - Len(before)]
    <3>1. before \o behind \in Seq(Nat) /\ Len(before \o behind) = Len(before) + Len(behind)
      BY <1>1, <1>2, ConcatSeq, Zenon
    <3>2. /\ DOMAIN (before \o behind) = 1..(Len(before) + Len(behind))
          /\ \A k \in 1..Len(before) : (before \o behind)[k] = before[k]
          /\ \A k \in Len(before) + 1 .. Len(before) + Len(behind) : (before \o behind)[k] = behind[k - Len(before)]
      BY <1>1, <1>2, ConcatPlaces, Zenon
    <3> QED BY <3>1, <3>2, Zenon
  <2> HIDE DEF r
  <2>2. Len(before) + Len(behind) = Len(s) - 1 /\ Len(before) + 1 = i
    BY <1>0, <1>1, <1>2
  <2> QED BY <1>1, <2>1, <2>2
<1> HIDE DEF r
<1>5. \A k \in 1..(Len(s) - 1) : r[k] = s[IF k < i THEN k ELSE k + 1]
  <2> SUFFICES ASSUME NEW k \in 1..(Len(s) - 1) PROVE r[k] = s[IF k < i THEN k ELSE k + 1]
    OBVIOUS
  <2>1. CASE k < i
    <3>1. k \in 1..(i - 1)
      BY <1>0, <2>1
    <3> QED BY <1>1, <1>4, <2>1, <3>1
  <2>2. CASE ~(k < i)
    <3>1. k \in i..(Len(s) - 1) /\ k - (i - 1) \in 1..(Len(s) - i) /\ i + (k - (i - 1)) = k + 1
      BY <1>0, <2>2
    <3> QED BY <1>2, <1>4, <2>2, <3>1
  <2> QED BY <2>1, <2>2
<1>6. at \in [DOMAIN r -> 0..Len(s)] /\ \A k \in DOMAIN r : at[k] # 0 /\ r[k] = s[at[k]]
  <2>1. \A k \in 1..(Len(s) - 1) : at[k] = (IF k < i THEN k ELSE k + 1) /\ at[k] \in 0..Len(s) /\ at[k] # 0
    BY <1>0, <1>4
  <2>2. at = [k \in DOMAIN r |-> at[k]]
    OBVIOUS
  <2> HIDE DEF at
  <2>3. \A k \in DOMAIN r : at[k] # 0 /\ r[k] = s[at[k]]
    BY <1>4, <1>5, <2>1
  <2> QED BY <1>4, <2>1, <2>2, <2>3
<1>7. \A k, l \in DOMAIN r : k < l => at[k] < at[l]
  <2>1. \A k \in 1..(Len(s) - 1) : at[k] = (IF k < i THEN k ELSE k + 1)
    BY <1>0, <1>4
  <2>2. DOMAIN r = 1..(Len(s) - 1) /\ i \in Int /\ Len(s) \in Int
    BY <1>0, <1>4
  <2> HIDE DEF at
  <2> SUFFICES ASSUME NEW k \in 1..(Len(s) - 1), NEW l \in 1..(Len(s) - 1), k < l
               PROVE  at[k] < at[l]
    BY <2>2
  <2>3. at[k] = (IF k < i THEN k ELSE k + 1) /\ at[l] = (IF l < i THEN l ELSE l + 1)
    BY <2>1
  <2> QED BY <2>2, <2>3
<1>8. Follows(s, r, n, m)
  <2> HIDE DEF at
  <2> QED BY <1>6, <1>7 DEF Follows
<1>9. ASSUME NEW k \in DOMAIN s \ {i} PROVE Contains(r, s[k])
  <2>1. CASE k < i
    BY <1>0, <1>4, <1>5, <2>1 DEF Contains
  <2>2. CASE ~(k < i)
    <3>1. k - 1 \in 1..(Len(s) - 1) /\ ~(k - 1 < i) /\ (k - 1) + 1 = k
      BY <1>0, <2>2
    <3> QED BY <1>4, <1>5, <3>1 DEF Contains
  <2> QED BY <2>1, <2>2
<1> QED BY <1>3, <1>8, <1>9

\* One prompt is put in.
LEMMA FollowsInsertion ==
  ASSUME NEW n \in Nat, NEW s \in Seq(Nat), NEW i \in 1..(Len(s) + 1)
  PROVE  /\ Follows(s, InsertAt(s, i, n + 1), n, n + 1)
         /\ \A k \in DOMAIN s : Contains(InsertAt(s, i, n + 1), s[k])
         /\ Contains(InsertAt(s, i, n + 1), n + 1)
<1> DEFINE before == SubSeq(s, 1, i - 1)
           with == before \o <<n + 1>>
           behind == SubSeq(s, i, Len(s))
           r == with \o behind
           at == [k \in DOMAIN r |-> IF k < i THEN k ELSE IF k = i THEN 0 ELSE k - 1]
<1>0. DOMAIN s = 1..Len(s) /\ Len(s) \in Nat
  OBVIOUS
<1>1. before \in Seq(Nat) /\ Len(before) = i - 1 /\ \A k \in 1..(i - 1) : before[k] = s[k]
  OBVIOUS
<1>2. behind \in Seq(Nat) /\ Len(behind) = Len(s) - i + 1 /\ \A k \in 1..(Len(s) - i + 1) : behind[k] = s[i + k - 1]
  OBVIOUS
<1>3. InsertAt(s, i, n + 1) = r
  BY Zenon DEF InsertAt
<1> HIDE DEF before, behind
<1>4. with \in Seq(Nat) /\ Len(with) = i /\ with[i] = n + 1 /\ \A k \in 1..(i - 1) : with[k] = s[k]
  <2>1. /\ with \in Seq(Nat) /\ Len(with) = Len(before) + 1 /\ with[Len(before) + 1] = n + 1
        /\ \A k \in 1..Len(before) : with[k] = before[k]
    BY <1>1
  <2> HIDE DEF with
  <2> QED BY <1>0, <1>1, <2>1
<1> HIDE DEF with
<1>5. /\ r \in Seq(Nat) /\ Len(r) = Len(with) + Len(behind) /\ DOMAIN r = 1..Len(r)
      /\ \A k \in 1..Len(with) : r[k] = with[k]
      /\ \A k \in Len(with) + 1 .. Len(with) + Len(behind) : r[k] = behind[k - Len(with)]
  <2>1. with \in Seq(Nat) /\ behind \in Seq(Nat)
    BY <1>2, <1>4
  <2> QED BY <2>1
<1> HIDE DEF r
<1>6. Len(r) = Len(s) + 1 /\ DOMAIN r = 1..(Len(s) + 1)
  BY <1>0, <1>2, <1>4, <1>5
<1>7. r[i] = n + 1 /\ (\A k \in 1..(i - 1) : r[k] = s[k]) /\ \A k \in i + 1 .. Len(s) + 1 : r[k] = s[k - 1]
  <2>1. r[i] = n + 1 /\ \A k \in 1..(i - 1) : r[k] = s[k]
    BY <1>0, <1>4, <1>5
  <2>2. ASSUME NEW k \in i + 1 .. Len(s) + 1 PROVE r[k] = s[k - 1]
    <3>1. k \in Len(with) + 1 .. Len(with) + Len(behind) /\ k - i \in 1..(Len(s) - i + 1) /\ i + (k - i) - 1 = k - 1
      BY <1>0, <1>2, <1>4
    <3>2. r[k] = behind[k - i]
      BY <1>4, <1>5, <3>1
    <3> QED BY <1>2, <3>1, <3>2
  <2> QED BY <2>1, <2>2
<1>8. /\ at \in [DOMAIN r -> 0..Len(s)]
      /\ \A k \in DOMAIN r : at[k] = 0 <=> k = i
      /\ \A k \in DOMAIN r : k # i => r[k] = s[at[k]]
  BY <1>0, <1>6, <1>7
<1>9. \A k, l \in DOMAIN r : k < l /\ k # i /\ l # i => at[k] < at[l]
  BY <1>0, <1>6
<1>10. Follows(s, r, n, n + 1)
  <2> HIDE DEF at
  <2> QED BY <1>7, <1>8, <1>9 DEF Follows
<1>11. ASSUME NEW k \in DOMAIN s PROVE Contains(r, s[k])
  <2>1. CASE k < i
    BY <1>0, <1>6, <1>7, <2>1 DEF Contains
  <2>2. CASE ~(k < i)
    <3>1. k + 1 \in i + 1 .. Len(s) + 1 /\ k + 1 \in 1..(Len(s) + 1) /\ (k + 1) - 1 = k
      BY <1>0, <2>2
    <3> QED BY <1>6, <1>7, <3>1 DEF Contains
  <2> QED BY <2>1, <2>2
<1>12. Contains(r, n + 1)
  BY <1>0, <1>6, <1>7 DEF Contains
<1> QED BY <1>3, <1>10, <1>11, <1>12

\* A line of new prompts, or none.
LEMMA FollowsFresh ==
  ASSUME NEW n \in Nat, NEW d \in Nat, NEW s \in Seq(Nat)
  PROVE  Follows(s, [i \in 1..d |-> n + i], n, n + d)
<1> DEFINE r == [i \in 1..d |-> n + i]
           at == [k \in DOMAIN r |-> 0]
<1>1. DOMAIN r = 1..d /\ at \in [DOMAIN r -> 0..Len(s)] /\ \A k \in 1..d : at[k] = 0 /\ r[k] = n + k
  OBVIOUS
<1> HIDE DEF r, at
<1> QED BY <1>1 DEF Follows, r

\* Taking every prompt out.
LEMMA FollowsNone ==
  ASSUME NEW n, NEW m, NEW s \in Seq(Nat)
  PROVE  Follows(s, <<>>, n, m)
<1> DEFINE at == [k \in DOMAIN <<>> |-> 0]
<1>1. DOMAIN <<>> = {} /\ at \in [DOMAIN <<>> -> 0..Len(s)]
  OBVIOUS
<1> HIDE DEF at
<1> QED BY <1>1 DEF Follows

\* What a step has to show; the rest of LineInv follows.
LineStep ==
  /\ accepted <= accepted' /\ Follows(Line(current), Line(current)', accepted, accepted')
  /\ \A p \in Prompts : fate'[p] = "waiting" => Contains(Line(current)', p)
  /\ ActiveServed' /\ BusyItem' /\ ProducersHere' /\ Handover'

\* Prompts are numbers.
LEMMA NumberSeq == ASSUME NEW s \in Seq(Prompts) PROVE s \in Seq(Nat)
<1>1. \A i \in 1..Len(s) : s[i] \in Prompts
  OBVIOUS
<1>2. \A i \in 1..Len(s) : s[i] \in Nat
  BY <1>1, PromptAssumption DEF Prompts
<1>3. Len(s) \in Nat /\ s = [i \in 1..Len(s) |-> s[i]]
  OBVIOUS
<1> QED BY <1>2, <1>3

\* A line is a sequence of prompts.
LEMMA LineSeq ==
  ASSUME TypeInv, NEW c \in Coders
  PROVE  /\ Line(c) = Lined(active[c], queue[c]) /\ Line(c) \in Seq(Prompts) /\ Line(c) \in Seq(Nat)
         /\ queue[c] \in Seq(Nat) /\ queue[c] \in Seq(Prompts) /\ active[c] \in Nat \cup {Null}
<1>1. queue[c] \in Seq(Prompts) /\ active[c] \in Prompts \cup {Null}
  BY DEF TypeInv, CoderTypes
<1>2. Prompts \subseteq Nat
  BY DEF Prompts
<1>3. queue[c] \in Seq(Nat) /\ active[c] \in Nat \cup {Null}
  BY <1>1, <1>2
<1>4. Line(c) = Lined(active[c], queue[c])
  BY DEF Line, Lined
<1>5. Lined(active[c], queue[c]) \in Seq(Prompts) /\ Lined(active[c], queue[c]) \in Seq(Nat)
  BY <1>1, <1>3, LinedSeq
<1> QED BY <1>1, <1>3, <1>4, <1>5

\* ... before a step and after it.
LEMMA LinesTyped ==
  ASSUME TypeInv, TypeInv'
  PROVE  Line(current) \in Seq(Nat) /\ Line(current)' \in Seq(Nat)
<1>1. Line(current) \in Seq(Nat)
  BY LineSeq DEF TypeInv, RestTypes
<1>2. queue'[current'] \in Seq(Prompts) /\ active'[current'] \in Prompts \cup {Null} /\ Prompts \subseteq Nat
  BY DEF TypeInv, RestTypes, CoderTypes, Prompts
<1>3. queue'[current'] \in Seq(Nat) /\ active'[current'] \in Nat \cup {Null}
  BY <1>2, NumberSeq
<1>4. Line(current)' = Lined(active'[current'], queue'[current'])
  BY DEF Line, Lined
<1> QED BY <1>1, <1>3, <1>4, LinedSeq

\* What a step has shown gives the invariant.
LEMMA LineKept ==
  ASSUME LineInv, TypeInv', DrainInv', AheadInv', LineStep
  PROVE  LineInv'
<1>1. /\ accepted \in Nat /\ accepted' \in Nat /\ current \in Coders /\ current' \in Coders
  BY DEF LineInv, DrainInv, TypeInv, RestTypes, Coders
<1>2. Line(current) \in Seq(Nat) /\ Line(current)' \in Seq(Nat)
  BY LinesTyped DEF LineInv, DrainInv
<1>4. IsInjective(Line(current)) /\ \A k \in DOMAIN Line(current) : Line(current)[k] <= accepted
  BY DEF LineInv, NoPromptLost, Numbered
<1>5. IsInjective(Line(current)') /\ \A k \in DOMAIN Line(current)' : Line(current)'[k] <= accepted'
  BY <1>1, <1>2, <1>4, FollowsKeeps DEF LineStep
<1> QED BY <1>5 DEF LineStep, LineInv, NoPromptLost, Numbered

\* The line of the agent stays, and so do the prompts.
LEMMA SameLine ==
  ASSUME LineInv, UNCHANGED <<current, queue, active, accepted>>,
         \A p \in Prompts : fate'[p] = "waiting" => fate[p] = "waiting"
  PROVE  /\ accepted <= accepted' /\ Follows(Line(current), Line(current)', accepted, accepted')
         /\ \A p \in Prompts : fate'[p] = "waiting" => Contains(Line(current)', p)
<1>1. Line(current)' = Line(current)
  BY DEF Line
<1>2. current \in Coders /\ accepted \in Nat
  BY DEF LineInv, DrainInv, TypeInv, RestTypes
<1>3. Follows(Line(current), Line(current), accepted, accepted')
  BY <1>2, LineSeq, FollowsSame DEF LineInv, DrainInv
<1> QED BY <1>1, <1>2, <1>3 DEF LineInv, NoPromptLost

\* Steps that touch neither tasks nor prompts.
LEMMA SameTasks ==
  ASSUME LineInv, UNCHANGED <<current, queue, active, accepted, fate, pc, on, item, producer>>
  PROVE  LineStep
<1>1. ActiveServed' /\ BusyItem' /\ ProducersHere' /\ Handover'
  BY DEF LineInv, ActiveServed, BusyItem, ProducersHere, Handover, Busy
<1> QED BY <1>1, SameLine DEF LineStep

\* A task that is not in a drain, or stays in it, moves.
LEMMA QuietTask ==
  ASSUME LineInv, NEW t \in Tasks, NEW place \in Steps \ {"next", "copied"}, pc' = [pc EXCEPT ![t] = place],
         \/ ~Busy(t) /\ place # "running"
         \/ Busy(t) /\ place = "running" /\ on'[t] = on[t] /\ item'[t] = item[t],
         pc[t] # "copied", place \in {"idle", "opening"} \/ on'[t] <= current,
         \A u \in Tasks \ {t} : on'[u] = on[u] /\ item'[u] = item[u],
         UNCHANGED <<current, queue, active, accepted, fate, producer>>
  PROVE  LineStep
<1>1. \A u \in Tasks : pc'[u] = IF u = t THEN place ELSE pc[u]
  BY DEF LineInv, DrainInv, TypeInv, TaskTypes
<1>2. \A u \in Tasks : Busy(u)' = Busy(u) /\ (Busy(u) => on'[u] = on[u] /\ item'[u] = item[u])
  BY <1>1 DEF Busy
<1>3. ActiveServed' /\ BusyItem'
  BY <1>2 DEF LineInv, ActiveServed, BusyItem
<1>4. \A u \in Tasks : pc'[u] = "copied" <=> pc[u] = "copied"
  BY <1>1
<1>5. \A u \in Tasks : pc'[u] \in {"idle", "opening"} \/ on'[u] <= current
  BY <1>1 DEF LineInv, Handover
<1>6. ProducersHere' /\ Handover'
  BY <1>4, <1>5 DEF LineInv, ProducersHere, Handover
<1> QED BY <1>3, <1>6, SameLine DEF LineStep

\* So does one that returns, outside a drain.
LEMMA LeaveLine ==
  ASSUME LineInv, NEW t \in Tasks, Leave(t), ~Busy(t), pc[t] # "copied",
         UNCHANGED <<on, current, queue, active, accepted, fate, producer>>
  PROVE  LineStep
<1>1. \A u \in Tasks \ {t} : item'[u] = item[u]
  BY DEF Leave, LineInv, DrainInv, TypeInv, TaskTypes
<1> QED BY <1>1, QuietTask DEF Leave, Steps

\* Outside a handover the coder that is known is the one that has the queue.
LEMMA KnownHere ==
  ASSUME TypeInv, ~HandingOver
  PROVE  known = current /\ \A t \in Tasks : pc[t] # "copied"
BY DEF TypeInv, OneSwitch, HandingOver, Switching

\* Checking the capacity touches no line.
LEMMA CheckLine ==
  ASSUME LineInv, ~HandingOver, NEW p \in Producers, NEW place \in 0..MaxPrompts, Check(p, place)
  PROVE  LineStep
<1>1. /\ UNCHANGED <<current, queue, active, accepted, fate, pc, on, item>>
      /\ producer' = [producer EXCEPT ![p] = [coder |-> current, place |-> place]]
  BY KnownHere DEF Check, coderVars, taskVars, history, LineInv, DrainInv
<1>2. ActiveServed' /\ BusyItem'
  BY <1>1 DEF LineInv, ActiveServed, BusyItem, Busy
<1>3. ProducersHere' /\ Handover'
  BY <1>1 DEF LineInv, ProducersHere, Handover, DrainInv, TypeInv, RestTypes
<1> QED BY <1>1, <1>2, <1>3, SameLine DEF LineStep

\* A message opens when nobody is about to be cancelled, and so with the coder
\* that has the queue.
LEMMA OpenHere ==
  ASSUME Races = {}, LineInv, NEW t \in Tasks, Open(t)
  PROVE  on[t] <= current
<1>1. Own \cap cancelled = {} BY DEF Open
<1>2. ~Abandoned BY <1>1 DEF Abandoned, LineInv, AheadInv
<1> QED BY <1>2 DEF LineInv, AheadInv, Reach

\* Messages that begin, open, fail or end without a drain.
LEMMA MessageLine ==
  ASSUME Races = {}, LineInv, NEW t \in Tasks,
         \/ Open(t) \/ MessageFails(t) \/ Start(t)
         \/ t \in Own /\ \E k \in Kinds : Begin(t, k)
  PROVE  LineStep
<1>1. CASE Open(t)
  <2>1. /\ pc' = [pc EXCEPT ![t] = "working"] /\ ~Busy(t) /\ pc[t] = "opening"
        /\ UNCHANGED <<current, queue, active, accepted, fate, producer, on, item>>
    BY <1>1 DEF Open, Busy, history
  <2>2. on'[t] <= current BY <1>1, <2>1, OpenHere
  <2> QED BY <2>1, <2>2, QuietTask DEF Steps
<1>2. CASE MessageFails(t)
  BY <1>2, LeaveLine DEF MessageFails, Busy, coderVars
<1>3. CASE Start(t)
  <2>1. on[t] <= current BY <1>3 DEF Start, LineInv, Handover
  <2> QED BY <1>3, <2>1, QuietTask DEF Start, Busy, Steps
<1>4. CASE \E k \in Kinds : Begin(t, k)
  <2>1. /\ pc' = [pc EXCEPT ![t] = "opening"] /\ pc[t] = "idle" /\ on' = [on EXCEPT ![t] = known]
        /\ UNCHANGED <<current, queue, active, accepted, fate, producer, item>>
    BY <1>4 DEF Begin, Idle, coderVars
  <2>2. \A u \in Tasks \ {t} : on'[u] = on[u]
    BY <2>1 DEF LineInv, DrainInv, TypeInv, TaskTypes
  <2> QED BY <2>1, <2>2, QuietTask DEF Busy, Steps
<1> QED BY <1>1, <1>2, <1>3, <1>4

\* Who is in a line.
LEMMA LinedContains ==
  ASSUME NEW a, NEW S, NEW q \in Seq(S), NEW p
  PROVE  Contains(Lined(a, q), p) <=> (a # Null /\ p = a) \/ Contains(q, p)
<1>1. CASE a = Null
  BY <1>1, LinedPlaces
<1>2. CASE a # Null
  <2> DEFINE x == Lined(a, q)
  <2>1. Len(x) = Len(q) + 1 /\ x[1] = a /\ \A k \in 1..Len(q) : x[k + 1] = q[k]
    BY <1>2, LinedPlaces
  <2> HIDE DEF x
  <2>2. Len(q) \in Nat
    OBVIOUS
  <2>3. ASSUME NEW k \in 1..Len(x), x[k] = p PROVE p = a \/ Contains(q, p)
    <3>1. CASE k = 1
      BY <2>1, <2>3, <3>1
    <3>2. CASE k # 1
      <4>1. k - 1 \in 1..Len(q) /\ (k - 1) + 1 = k
        BY <2>1, <2>2, <3>2
      <4> QED BY <2>1, <2>3, <4>1 DEF Contains
    <3> QED BY <3>1, <3>2
  <2>4. ASSUME NEW k \in 1..Len(q), q[k] = p PROVE Contains(x, p)
    <3>1. k + 1 \in 1..Len(x) /\ x[k + 1] = p
      BY <2>1, <2>2, <2>4
    <3> QED BY <3>1 DEF Contains
  <2>5. Contains(x, a)
    <3>1. 1 \in 1..Len(x)
      BY <2>1, <2>2
    <3> QED BY <2>1, <3>1 DEF Contains
  <2>6. Contains(x, p) <=> p = a \/ Contains(q, p)
    BY <2>3, <2>4, <2>5 DEF Contains
  <2> QED BY <1>2, <2>6 DEF x
<1> QED BY <1>1, <1>2

\* While a task is at work on a prompt or a message, no coder is replaced.
LEMMA NoSwitch ==
  ASSUME DrainInv, NEW t \in Tasks, pc[t] \in {"working", "next", "running"}
  PROVE  Switching = {}
<1> SUFFICES ASSUME NEW u \in Switching PROVE FALSE
  OBVIOUS
<1>1. \A v \in Foreign : pc[v] = "idle"
  BY DEF DrainInv, SwitchQuiet, Idle
<1>2. u \in Own /\ t \in Own
  BY <1>1 DEF Switching, Tasks
<1>3. u = t
  BY <1>2 DEF DrainInv, Opened, Switching
<1> QED BY <1>3 DEF Switching

\* dequeue_for_processing moves the line up by its active prompt.
LEMMA DequeueLine ==
  ASSUME TypeInv, NEW t \in Tasks, NEW c \in Coders, NEW q \in [Coders -> Seq(Prompts)],
         NEW a \in [Coders -> Prompts \cup {Null}], Dequeue(t, c, q, a)
  PROVE  /\ Lined(active'[c], queue'[c]) = q[c]
         /\ \A d \in Coders \ {c} : queue'[d] = q[d] /\ active'[d] = a[d]
         /\ active'[c] # Null => Busy(t)' /\ on'[t] = c
         /\ Busy(t)' => item'[t] # Null
         /\ pc'[t] # "copied"
         /\ \A u \in Tasks \ {t} : pc'[u] = pc[u] /\ on'[u] = on[u] /\ item'[u] = item[u]
<1>1. TaskTypes /\ q[c] \in Seq(Prompts) /\ Null \notin Prompts
  BY PromptAssumption DEF TypeInv
<1>2. on' = [on EXCEPT ![t] = c]
  BY DEF Dequeue
<1>3. CASE q[c] = <<>>
  <2>1. queue' = q /\ active' = [a EXCEPT ![c] = Null] /\ pc' = [pc EXCEPT ![t] = "idle"] /\ item' = [item EXCEPT ![t] = Null]
    BY <1>3 DEF Dequeue, Leave
  <2>2. Lined(Null, <<>>) = <<>>
    BY DEF Lined
  <2> QED BY <1>1, <1>2, <1>3, <2>1, <2>2 DEF Busy, TaskTypes
<1>4. CASE q[c] # <<>>
  <2>1. /\ queue' = [q EXCEPT ![c] = Tail(q[c])] /\ active' = [a EXCEPT ![c] = Head(q[c])]
        /\ pc' = [pc EXCEPT ![t] = "next"] /\ item' = [item EXCEPT ![t] = Head(q[c])]
    BY <1>4 DEF Dequeue
  <2>2. Head(q[c]) \in Prompts /\ Tail(q[c]) \in Seq(Prompts) /\ <<Head(q[c])>> \o Tail(q[c]) = q[c]
    BY <1>1, <1>4
  <2>3. Lined(Head(q[c]), Tail(q[c])) = q[c]
    BY <1>1, <2>2 DEF Lined
  <2> QED BY <1>1, <1>2, <2>1, <2>2, <2>3 DEF Busy, TaskTypes
<1> QED BY <1>3, <1>4

\* A drain takes its next prompt, done with the one before.
LEMMA DrainLine ==
  ASSUME LineInv, NEW t \in Tasks, NEW c \in Coders, Dequeue(t, c, queue, active),
         UNCHANGED <<current, accepted, producer>>, Switching = {}, c <= current,
         \A p \in Prompts : fate'[p] = "waiting" => fate[p] = "waiting",
         c = current /\ active[c] # Null => fate'[active[c]] # "waiting",
         Busy(t) => on[t] = c
  PROVE  LineStep
<1>0. /\ TypeInv /\ CoderTypes /\ current \in Coders /\ accepted \in Nat
  BY DEF LineInv, DrainInv, TypeInv, RestTypes
<1>1. /\ Lined(active'[c], queue'[c]) = queue[c]
      /\ \A d \in Coders \ {c} : queue'[d] = queue[d] /\ active'[d] = active[d]
      /\ active'[c] # Null => Busy(t)' /\ on'[t] = c
      /\ Busy(t)' => item'[t] # Null
      /\ pc'[t] # "copied"
      /\ \A u \in Tasks \ {t} : pc'[u] = pc[u] /\ on'[u] = on[u] /\ item'[u] = item[u]
  BY <1>0, DequeueLine DEF CoderTypes
<1>2. BusyItem'
  BY <1>1 DEF BusyItem, Busy, LineInv
<1>3. ProducersHere' /\ Handover'
  <2>1. \A u \in Tasks : pc'[u] # "copied" /\ pc[u] # "copied"
    BY <1>1 DEF Switching
  <2>2. \A u \in Tasks : pc'[u] \in {"idle", "opening"} \/ on'[u] <= current
    <3>1. on'[t] = c BY <1>0 DEF Dequeue, TypeInv, TaskTypes
    <3> QED BY <1>1, <3>1 DEF LineInv, Handover
  <2>3. \A d \in Coders : d > current => d # c
    BY PromptAssumption, <1>0 DEF Coders
  <2> QED BY <1>1, <2>1, <2>2, <2>3 DEF LineInv, ProducersHere, Handover
<1>4. CASE c # current
  <2>1. Line(current)' = Line(current)
    BY <1>0, <1>1, <1>4 DEF Line
  <2>2. Follows(Line(current), Line(current), accepted, accepted')
    BY <1>0, LineSeq, FollowsSame
  <2>3. \A p \in Prompts : fate'[p] = "waiting" => Contains(Line(current)', p)
    BY <2>1 DEF LineInv, NoPromptLost
  <2>4. ActiveServed'
    <3>1. SUFFICES ASSUME active[current] # Null, fate'[active[current]] = "waiting"
                   PROVE  \E u \in Tasks : Busy(u)' /\ on'[u] = current
      BY <1>0, <1>1, <1>4 DEF ActiveServed
    <3>2. active[current] \in Prompts
      BY <1>0, <3>1 DEF CoderTypes
    <3>3. PICK u \in Tasks : Busy(u) /\ on[u] = current
      BY <3>1, <3>2 DEF LineInv, ActiveServed
    <3> QED BY <1>1, <1>4, <3>3 DEF Busy
  <2> QED BY <1>0, <1>2, <1>3, <2>1, <2>2, <2>3, <2>4 DEF LineStep
<1>5. CASE c = current
  <2>1. Line(current)' = queue[current]
    BY <1>1, <1>5 DEF Line, Lined
  <2>2. Follows(Line(current), queue[current], accepted, accepted')
    <3>1. Line(current) = Lined(active[current], queue[current]) /\ active[current] \in Nat \cup {Null} /\ queue[current] \in Seq(Nat)
      BY <1>0, LineSeq
    <3> QED BY <3>1, FollowsQueue
  <2>3. ASSUME NEW p \in Prompts, fate'[p] = "waiting" PROVE Contains(queue[current], p)
    <3>1. Contains(Line(current), p)
      BY <2>3 DEF LineInv, NoPromptLost
    <3> QED BY <1>0, <1>5, <2>3, <3>1, LineSeq, LinedContains
  <2>4. ActiveServed'
    BY <1>1, <1>5 DEF ActiveServed
  <2> QED BY <1>0, <1>2, <1>3, <2>1, <2>2, <2>3, <2>4 DEF LineStep
<1> QED BY <1>4, <1>5

\* A drain ends with its active prompt put back where it was.
LEMMA PauseLine ==
  ASSUME LineInv, NEW t \in Tasks, Busy(t), Pause(t), UNCHANGED <<current, accepted, producer, fate>>
  PROVE  LineStep
<1> DEFINE c == on[t]
<1>0. /\ TypeInv /\ CoderTypes /\ TaskTypes /\ current \in Coders /\ accepted \in Nat /\ c \in Coders /\ Null \notin Prompts
  BY PromptAssumption DEF LineInv, DrainInv, TypeInv, RestTypes, TaskTypes
<1>1. active[c] = item[t] /\ active[c] # Null /\ Switching = {}
  BY NoSwitch DEF LineInv, DrainInv, OneDrain, Busy, BusyItem
<1>2. /\ queue' = [queue EXCEPT ![c] = <<active[c]>> \o queue[c]]
      /\ active' = [active EXCEPT ![c] = Null]
      /\ \A u \in Tasks \ {t} : pc'[u] = pc[u] /\ on'[u] = on[u] /\ item'[u] = item[u]
      /\ pc'[t] = "idle"
  BY <1>0, <1>1 DEF Pause, Requeue, Leave, TaskTypes
<1>3. BusyItem' /\ ProducersHere' /\ Handover'
  <2>1. c <= current BY DEF LineInv, Handover, Busy
  <2>2. \A d \in Coders : d > current => d # c
    BY PromptAssumption, <1>0, <2>1 DEF Coders
  <2> HIDE DEF c
  <2>3. Handover'
    BY <1>0, <1>1, <1>2, <2>2 DEF LineInv, Handover, Switching, CoderTypes
  <2> QED BY <1>2, <2>3 DEF LineInv, BusyItem, Busy, ProducersHere
<1>4. Line(current)' = Line(current)
  <2>1. <<active[c]>> \o queue[c] \in Seq(Prompts)
    BY <1>0, <1>1 DEF CoderTypes
  <2>2. Lined(Null, <<active[c]>> \o queue[c]) = Lined(active[c], queue[c])
    BY <1>1, <2>1 DEF Lined
  <2>3. CASE current = c
    BY <1>0, <1>2, <2>2, <2>3 DEF Line, Lined, CoderTypes
  <2>4. CASE current # c
    BY <1>0, <1>2, <2>4 DEF Line, CoderTypes
  <2> QED BY <2>3, <2>4
<1>5. ActiveServed'
  <2>1. CASE current = c
    BY <1>0, <1>2, <2>1 DEF ActiveServed, CoderTypes
  <2>2. CASE current # c
    <3>1. active'[current] = active[current]
      BY <1>0, <1>2, <2>2 DEF CoderTypes
    <3> QED BY <1>2, <2>2, <3>1 DEF LineInv, ActiveServed, Busy
  <2> QED BY <2>1, <2>2
<1>6. Follows(Line(current), Line(current), accepted, accepted')
  BY <1>0, LineSeq, FollowsSame
<1> QED BY <1>0, <1>3, <1>4, <1>5, <1>6 DEF LineStep, LineInv, NoPromptLost

\* A message of the user ends, and its task may go on to drain the queue.
LEMMA MessageEndsLine ==
  ASSUME LineInv, NEW t \in Tasks, MessageEnds(t)
  PROVE  LineStep
<1>1. pc[t] = "working" /\ ~Busy(t) /\ on[t] \in Coders /\ Switching = {} /\ UNCHANGED <<current, accepted, producer, fate>>
      /\ on[t] <= current
  BY NoSwitch DEF MessageEnds, Busy, Handover, LineInv, DrainInv, TypeInv, TaskTypes, history
<1>2. CASE Leave(t) /\ UNCHANGED <<queue, active, processing, on>>
  BY <1>1, <1>2, LeaveLine
<1>3. CASE ~processing[on[t]] /\ Dequeue(t, on[t], queue, active)
  <2>1. ASSUME on[t] = current, active[current] # Null, fate[active[current]] = "waiting" PROVE FALSE
    BY <1>3, <2>1 DEF LineInv, DrainInv, ActiveServed, OneDrain, Busy
  <2> QED BY <1>1, <1>3, <2>1, DrainLine
<1> QED BY <1>2, <1>3 DEF MessageEnds, Enter

\* /queue run starts a drain.
LEMMA QueueRunLine ==
  ASSUME LineInv, Races = {}, NEW t \in Tasks, QueueRun(t)
  PROVE  LineStep
<1>1. /\ Idle(t) /\ ~processing[current] /\ Switching = {} /\ Dequeue(t, current, queue, active)
      /\ UNCHANGED <<current, accepted, producer, fate>>
  BY DEF QueueRun, Found, OneSwitch, LineInv, DrainInv, TypeInv, history
<1>2. current \in Coders /\ ~Busy(t) /\ current <= current
  BY <1>1, PromptAssumption DEF Coders, LineInv, DrainInv, TypeInv, RestTypes, Busy, Idle
<1>3. ASSUME active[current] # Null, fate[active[current]] = "waiting" PROVE FALSE
  BY <1>1, <1>3 DEF LineInv, DrainInv, ActiveServed, OneDrain, Busy
<1> QED BY <1>1, <1>2, <1>3, DrainLine

\* A prompt has been run: the task takes the next one.
LEMMA DoneLine ==
  ASSUME LineInv, NEW t \in Tasks, NEW outcome \in {"done", "failed"}, Done(t, outcome)
  PROVE  LineStep
<1>1. /\ pc[t] = "running" /\ Busy(t) /\ fate' = [fate EXCEPT ![item[t]] = outcome] /\ Dequeue(t, on[t], queue, active)
      /\ UNCHANGED <<current, accepted, producer>>
  BY DEF Done, Busy
<1>2. on[t] \in Coders /\ on[t] <= current /\ Switching = {} /\ item[t] # Null /\ item[t] \in Prompts /\ active[on[t]] = item[t]
  BY <1>1, NoSwitch DEF LineInv, Handover, DrainInv, TypeInv, TaskTypes, BusyItem, OneDrain, Busy
<1>3. /\ \A p \in Prompts : fate'[p] = "waiting" => fate[p] = "waiting"
      /\ fate'[item[t]] # "waiting"
  BY <1>1, <1>2 DEF LineInv, DrainInv, TypeInv, RestTypes
<1> QED BY <1>1, <1>2, <1>3, DrainLine

\* What is left of the line when a switch is under way: the prompt that asked
\* for it is done.
LEMMA SwitchingLine ==
  ASSUME LineInv, NEW t \in Switching
  PROVE  /\ current \in Coders /\ current + 1 \in Coders /\ current \in Int /\ accepted \in Nat
         /\ \A u \in Tasks \ {t} : ~Busy(u) /\ pc[u] \notin {"creating", "copied"}
         /\ active[current + 1] = Null /\ queue[current] \in Seq(Prompts)
         /\ \A p \in Prompts : fate[p] = "waiting" => Contains(queue[current], p)
         /\ Follows(Line(current), queue[current], accepted, accepted)
<1>1. /\ TypeInv /\ CoderTypes /\ current \in Coders /\ current \in Int /\ accepted \in Nat /\ t \in Tasks /\ ~Busy(t)
  BY DEF LineInv, DrainInv, TypeInv, RestTypes, Coders, Switching, Busy
<1>2. current + 1 \in Coders /\ current + 1 > current
  BY <1>1, PromptAssumption DEF Coders, OneSwitch, TypeInv
<1>3. \A u \in Tasks \ {t} : ~Busy(u) /\ pc[u] \notin {"creating", "copied"}
  BY SwitchAlone DEF LineInv, DrainInv, TypeInv, OneSwitch, Switching
<1>4. active[current + 1] = Null
  BY <1>2 DEF LineInv, Handover
<1>5. active[current] = Null \/ fate[active[current]] # "waiting"
  BY <1>1, <1>3 DEF LineInv, ActiveServed
<1>6. /\ Line(current) = Lined(active[current], queue[current]) /\ active[current] \in Nat \cup {Null}
      /\ queue[current] \in Seq(Nat) /\ queue[current] \in Seq(Prompts)
  BY <1>1, LineSeq
<1>7. ASSUME NEW p \in Prompts, fate[p] = "waiting" PROVE Contains(queue[current], p)
  <2>1. Contains(Lined(active[current], queue[current]), p)
    BY <1>6, <1>7 DEF LineInv, NoPromptLost
  <2> QED BY <1>5, <1>6, <1>7, <2>1, LinedContains
<1>8. Follows(Line(current), queue[current], accepted, accepted)
  BY <1>6, FollowsQueue
<1> QED BY <1>1, <1>2, <1>3, <1>4, <1>6, <1>7, <1>8

\* The line of a coder without an active prompt is its queue.
LEMMA QueueOnly ==
  ASSUME NEW c, active[c] = Null, queue[c] \in Seq(Prompts)
  PROVE  Line(c) = queue[c]
BY LinedPlaces DEF Line, Lined

\* A rebuild that is given up: the primary's line stays, a sub-agent is left
\* with the copy, or with an empty line when its prompts are lost.
LEMMA GiveUpLine ==
  ASSUME LineInv, TypeInv', NEW t \in Switching, GiveUp(t),
         UNCHANGED <<agent, known, active, on, accepted, producer>>
  PROVE  LineStep
<1>0. TypeInv /\ TaskTypes /\ CoderTypes /\ t \in Tasks BY DEF LineInv, DrainInv, TypeInv, Switching
<1>1. /\ current \in Coders /\ current + 1 \in Coders /\ current \in Int /\ accepted \in Nat
      /\ \A u \in Tasks \ {t} : ~Busy(u) /\ pc[u] \notin {"creating", "copied"}
      /\ active[current + 1] = Null /\ queue[current] \in Seq(Prompts)
      /\ \A p \in Prompts : fate[p] = "waiting" => Contains(queue[current], p)
      /\ Follows(Line(current), queue[current], accepted, accepted)
  BY SwitchingLine
<1>2. pc' = [pc EXCEPT ![t] = "idle"] /\ item' = [item EXCEPT ![t] = Null]
  BY DEF GiveUp, EndDrain, Leave
<1>3. \A u \in Tasks : ~Busy(u)' /\ pc'[u] \notin {"creating", "copied"} /\ (pc'[u] = "idle" \/ pc'[u] = pc[u])
  BY <1>0, <1>1, <1>2 DEF Busy, TaskTypes
<1>4. BusyItem' BY <1>3 DEF BusyItem
<1>5. \A u \in Tasks : pc'[u] \in {"idle", "opening"} \/ on[u] <= current
  BY <1>3 DEF LineInv, Handover
<1>6. \A d \in Coders : d > current + 1 => active[d] = Null /\ queue[d] = <<>>
  BY <1>1, PromptAssumption DEF LineInv, Handover, Coders
<1>7. CASE agent = "primary"
  <2>1. queue' = [queue EXCEPT ![current + 1] = <<>>] /\ UNCHANGED <<current, fate>>
    BY <1>7 DEF GiveUp
  <2>2. queue'[current] = queue[current] /\ Line(current)' = Line(current)
    <3>1. current # current + 1 BY <1>1
    <3>2. queue'[current] = queue[current] BY <1>0, <1>1, <2>1, <3>1 DEF CoderTypes
    <3> QED BY <2>1, <3>2 DEF Line
  <2>3. Follows(Line(current), Line(current), accepted, accepted')
    BY <1>0, <1>1, LineSeq, FollowsSame
  <2>4. ActiveServed'
    <3>1. active[current] = Null \/ fate[active[current]] # "waiting"
      BY <1>0, <1>1 DEF LineInv, ActiveServed, Busy, Switching
    <3> QED BY <2>1, <3>1 DEF ActiveServed
  <2>5. ProducersHere' BY <2>1 DEF LineInv, ProducersHere
  <2>6. Handover'
    <3>1. \A d \in Coders : d > current => active[d] = Null /\ queue'[d] = <<>>
      <4> SUFFICES ASSUME NEW d \in Coders, d > current PROVE active[d] = Null /\ queue'[d] = <<>>
        OBVIOUS
      <4>1. d = current + 1 \/ d > current + 1 BY <1>1, PromptAssumption DEF Coders
      <4> QED BY <1>0, <1>1, <1>6, <2>1, <4>1 DEF CoderTypes
    <3> QED BY <1>3, <1>5, <2>1, <3>1 DEF Handover
  <2> QED BY <1>1, <1>4, <2>1, <2>2, <2>3, <2>4, <2>5, <2>6 DEF LineStep, LineInv, NoPromptLost
<1>8. CASE agent # "primary"
  <2>1. /\ current' = current + 1 /\ queue' = [queue EXCEPT ![current] = <<>>]
        /\ fate' = [p \in Prompts |->
                     IF pc[t] = "creating" /\ p \in ToSet(queue[current]) THEN "lost" ELSE fate[p]]
    BY <1>8 DEF GiveUp
  <2>2. queue'[current + 1] = queue[current + 1] /\ active'[current + 1] = Null /\ queue[current + 1] \in Seq(Prompts)
    BY <1>0, <1>1, <2>1 DEF CoderTypes
  <2>3. Line(current)' = queue[current + 1]
    BY <2>1, <2>2, LinedPlaces DEF Line, Lined
  <2>4. HandingOver /\ Checked = {}
    BY <1>8 DEF HandingOver, LineInv, AheadInv
  <2>5. ProducersHere' BY <2>4 DEF ProducersHere, Checked
  <2>6. ActiveServed' BY <2>1, <2>2 DEF ActiveServed
  <2>7. Handover'
    <3>1. \A d \in Coders : d > current + 1 => active[d] = Null /\ queue'[d] = <<>>
      BY <1>0, <1>1, <1>6, <2>1, PromptAssumption DEF CoderTypes, Coders
    <3>2. \A u \in Tasks : pc'[u] \in {"idle", "opening"} \/ on[u] <= current + 1
      BY <1>0, <1>1, <1>5, PromptAssumption DEF TaskTypes, Coders
    <3> QED BY <1>3, <2>1, <3>1, <3>2 DEF Handover
  <2>8. /\ Follows(Line(current), queue[current + 1], accepted, accepted)
        /\ \A p \in Prompts : fate'[p] = "waiting" => Contains(queue[current + 1], p)
    <3>1. CASE pc[t] = "copied"
      <4>1. queue[current + 1] = queue[current] BY <1>0, <3>1 DEF LineInv, Handover
      <4>2. \A p \in Prompts : fate'[p] = fate[p] BY <2>1, <3>1
      <4> QED BY <1>1, <4>1, <4>2
    <3>2. CASE pc[t] = "creating"
      <4>1. \A u \in Tasks : pc[u] # "copied" BY <1>1, <3>2
      <4>2. queue[current + 1] = <<>>
        BY <1>1, <4>1 DEF LineInv, Handover
      <4>3. \A p \in Prompts : fate'[p] # "waiting"
        <5> SUFFICES ASSUME NEW p \in Prompts, fate'[p] = "waiting" PROVE FALSE
          OBVIOUS
        <5>1. fate[p] = "waiting" /\ p \notin ToSet(queue[current]) BY <2>1, <3>2
        <5> QED BY <1>1, <5>1 DEF Contains, ToSet
      <4>4. Line(current) \in Seq(Nat) BY <1>0, <1>1, LineSeq
      <4> QED BY <4>2, <4>3, <4>4, FollowsNone
    <3> QED BY <3>1, <3>2 DEF Switching
  <2> QED BY <1>1, <1>4, <2>3, <2>5, <2>6, <2>7, <2>8 DEF LineStep
<1> QED BY <1>7, <1>8

\* A task that was cancelled or failed on its way.
LEMMA UnwindLine ==
  ASSUME LineInv, TypeInv', NEW t \in Tasks, Unwind(t) \/ Interrupted(t)
  PROVE  LineStep
<1>1. UNCHANGED <<agent, known, accepted, producer>>
  BY DEF Unwind, Interrupted, history
<1>2. CASE pc[t] \in {"opening", "working"} /\ Leave(t) /\ UNCHANGED <<current, queue, active, on, fate>>
  BY <1>1, <1>2, LeaveLine DEF Busy
<1>3. CASE pc[t] \in {"next", "running"} /\ Pause(t) /\ UNCHANGED <<current, fate>>
  BY <1>1, <1>3, PauseLine DEF Busy
<1>4. CASE t \in Switching /\ GiveUp(t) /\ UNCHANGED <<active, on>>
  BY <1>1, <1>4, GiveUpLine
<1> QED BY <1>2, <1>3, <1>4 DEF Unwind, Interrupted, history

\* A prompt that asks for a new coder is done.
LEMMA SwitchLine ==
  ASSUME LineInv, NEW t \in Tasks, Switch(t) \/ SwitchRefused(t)
  PROVE  LineStep
<1>0. TaskTypes /\ fate \in [Prompts -> {"new", "waiting", "done", "failed", "removed", "lost"}] /\ active \in [Coders -> Prompts \cup {Null}]
      /\ current \in Coders /\ current \in Int
  BY DEF LineInv, DrainInv, TypeInv, RestTypes, CoderTypes, Coders
<1>1. /\ Signals(t) /\ Switching = {} /\ on[t] = current /\ pc[t] \in {"working", "running"}
      /\ fate' = IF item[t] = Null THEN fate ELSE [fate EXCEPT ![item[t]] = "done"]
      /\ UNCHANGED <<current, queue, active, on, accepted, producer>>
  BY DEF Switch, SwitchRefused, Signals
<1>2. PICK place \in {"creating", "idle"} : pc' = [pc EXCEPT ![t] = place]
  BY DEF Switch, SwitchRefused, EndDrain, Leave
<1>3. \A u \in Tasks \ {t} : item'[u] = item[u]
  BY <1>0 DEF Switch, SwitchRefused, EndDrain, Leave, TaskTypes
<1>4. \A u \in Tasks : pc'[u] = IF u = t THEN place ELSE pc[u]
  BY <1>0, <1>2 DEF TaskTypes
<1>5. \A p \in Prompts : fate'[p] = "waiting" => fate[p] = "waiting" /\ p # item[t]
  BY <1>0, <1>1, PromptAssumption DEF TaskTypes
<1>6. ActiveServed'
  <2>1. SUFFICES ASSUME active[current] # Null, fate'[active[current]] = "waiting"
                 PROVE  \E u \in Tasks : Busy(u)' /\ on[u] = current
    BY <1>1 DEF ActiveServed
  <2>2. fate[active[current]] = "waiting" /\ active[current] # item[t]
    BY <1>0, <1>5, <2>1
  <2>3. PICK u \in Tasks : Busy(u) /\ on[u] = current
    BY <2>1, <2>2 DEF LineInv, ActiveServed
  <2>4. u # t
    BY <2>2, <2>3 DEF LineInv, DrainInv, OneDrain, Busy
  <2> QED BY <1>4, <2>3, <2>4 DEF Busy
<1>7. BusyItem' /\ ProducersHere'
  BY <1>1, <1>3, <1>4 DEF LineInv, BusyItem, Busy, ProducersHere
<1>8. Handover'
  <2>1. \A u \in Tasks : pc'[u] # "copied" /\ pc[u] # "copied"
    BY <1>1, <1>4 DEF Switching
  <2>2. on[t] <= current BY <1>0, <1>1
  <2>3. \A u \in Tasks : pc'[u] \in {"idle", "opening"} \/ on[u] <= current
    BY <1>4, <2>2 DEF LineInv, Handover
  <2> QED BY <1>1, <2>1, <2>3 DEF LineInv, Handover
<1> QED BY <1>1, <1>5, <1>6, <1>7, <1>8, SameLine DEF LineStep

\* The new coder gets the queue.
LEMMA CopyLine ==
  ASSUME LineInv, NEW t \in Tasks, Copy(t)
  PROVE  LineStep
<1>0. /\ TaskTypes /\ TypeInv /\ CoderTypes /\ current \in Coders /\ current \in Int /\ accepted \in Nat /\ t \in Switching
  BY DEF Copy, LineInv, DrainInv, TypeInv, RestTypes, Coders, Switching
<1>1. /\ pc[t] = "creating" /\ pc' = [pc EXCEPT ![t] = "copied"]
      /\ queue' = [queue EXCEPT ![current + 1] = queue[current]]
      /\ UNCHANGED <<current, active, fate, on, item, accepted, producer>>
  BY DEF Copy, history
<1>2. current + 1 \in Coders /\ current + 1 # current
  BY <1>0, PromptAssumption DEF Coders, LineInv, DrainInv, TypeInv, OneSwitch
<1>3. queue'[current] = queue[current] /\ queue'[current + 1] = queue[current]
  BY <1>0, <1>1, <1>2 DEF CoderTypes
<1>4. Line(current)' = Line(current)
  BY <1>1, <1>3 DEF Line
<1>5. \A u \in Tasks : Busy(u)' = Busy(u) /\ (pc'[u] = pc[u] \/ u = t)
  BY <1>0, <1>1 DEF Busy, TaskTypes
<1>6. ActiveServed' /\ BusyItem'
  BY <1>1, <1>5 DEF LineInv, ActiveServed, BusyItem
<1>7. ProducersHere'
  BY <1>1 DEF LineInv, ProducersHere
<1>8. Handover'
  <2>1. pc'[t] = "copied" BY <1>0, <1>1 DEF TaskTypes
  <2>2. \A u \in Tasks : pc'[u] \in {"idle", "opening"} \/ on[u] <= current
    BY <1>1, <1>5 DEF LineInv, Handover
  <2>3. \A d \in Coders : d > current /\ d # current + 1 => queue'[d] = queue[d]
    BY <1>0, <1>1 DEF CoderTypes
  <2> QED BY <1>1, <1>3, <2>1, <2>2, <2>3 DEF LineInv, Handover
<1>9. Follows(Line(current), Line(current), accepted, accepted')
  BY <1>0, LineSeq, FollowsSame
<1> QED BY <1>0, <1>1, <1>4, <1>6, <1>7, <1>8, <1>9 DEF LineStep, LineInv, NoPromptLost

\* The new coder takes over, with the prompt that asked for it done.
LEMMA AdoptLine ==
  ASSUME LineInv, NEW t \in Tasks, AdoptPrimary(t) \/ AdoptSubAgent(t)
  PROVE  LineStep
<1> DEFINE c == current + 1
<1>0. TypeInv /\ TaskTypes /\ CoderTypes /\ t \in Switching /\ pc[t] = "copied" /\ Null \notin Prompts
  BY PromptAssumption DEF AdoptPrimary, AdoptSubAgent, LineInv, DrainInv, TypeInv, Switching
<1>1. /\ current \in Coders /\ c \in Coders /\ current \in Int /\ accepted \in Nat
      /\ \A u \in Tasks \ {t} : ~Busy(u) /\ pc[u] \notin {"creating", "copied"}
      /\ active[c] = Null /\ queue[current] \in Seq(Prompts)
      /\ \A p \in Prompts : fate[p] = "waiting" => Contains(queue[current], p)
      /\ Follows(Line(current), queue[current], accepted, accepted)
  BY <1>0, SwitchingLine
<1>2. UNCHANGED <<fate, accepted, producer>> /\ current' = c
  BY DEF AdoptPrimary, AdoptSubAgent, history
<1>3. queue[c] = queue[current] BY <1>0 DEF LineInv, Handover
<1>4. HandingOver /\ Checked = {}
  BY <1>0 DEF HandingOver, LineInv, AheadInv
<1>5. ProducersHere'
  BY <1>2, <1>4 DEF ProducersHere, Checked
<1>6. \A d \in Coders : d > c => active[d] = Null /\ queue[d] = <<>> /\ d # current
  BY <1>1, PromptAssumption DEF LineInv, Handover, Coders
<1>7. \A u \in Tasks : u # t => pc[u] \in {"idle", "opening"} \/ on[u] <= c
  BY <1>0, <1>1, PromptAssumption DEF LineInv, Handover, TaskTypes, Coders
<1>8. ASSUME /\ queue'[c] = queue[current] /\ active'[c] = Null
             /\ \A d \in Coders : d > c => active'[d] = Null /\ queue'[d] = <<>>
             /\ Leave(t) /\ on' = on
      PROVE  LineStep
  <2>1. Line(current)' = queue[current]
    BY <1>1, <1>2, <1>8, LinedPlaces DEF Line, Lined
  <2>2. \A u \in Tasks : ~Busy(u)' /\ pc'[u] # "copied" /\ (pc'[u] \in {"idle", "opening"} \/ on'[u] <= c)
    BY <1>0, <1>1, <1>7, <1>8 DEF Leave, Busy, TaskTypes
  <2>3. ActiveServed' /\ BusyItem' /\ Handover'
    BY <1>2, <1>8, <2>2 DEF ActiveServed, BusyItem, Handover
  <2> QED BY <1>1, <1>2, <1>5, <2>1, <2>3 DEF LineStep
<1>9. CASE AdoptPrimary(t)
  BY <1>1, <1>3, <1>6, <1>8, <1>9 DEF AdoptPrimary, coderVars
<1>10. CASE AdoptSubAgent(t)
  <2>1. /\ Handed \in [Coders -> Seq(Prompts)] /\ Emptied \in [Coders -> Prompts \cup {Null}]
        /\ Handed[c] = queue[current] /\ Emptied[c] = Null
        /\ \A d \in Coders : d > c => Emptied[d] = Null /\ Handed[d] = <<>>
    <3>1. /\ Handed \in [Coders -> Seq(Prompts)] /\ Emptied \in [Coders -> Prompts \cup {Null}]
      <4>1. TypeInv BY DEF LineInv, DrainInv
      <4> QED BY <1>10, <4>1, AdoptSubAgentTypes
    <3>2. \A d \in Coders : d > c => d # c BY <1>1, PromptAssumption DEF Coders
    <3> QED BY <1>0, <1>1, <1>6, <3>1, <3>2 DEF Handed, Emptied, CoderTypes
  <2>2. CASE Leave(t) /\ queue' = Handed /\ active' = Emptied /\ on' = on
    BY <1>8, <2>1, <2>2
  <2>3. CASE Dequeue(t, c, Handed, Emptied)
    <3>1. PICK d \in Coders : d = c
      BY <1>1
    <3>2. /\ Lined(active'[d], queue'[d]) = Handed[d]
          /\ \A e \in Coders \ {d} : queue'[e] = Handed[e] /\ active'[e] = Emptied[e]
          /\ active'[d] # Null => Busy(t)' /\ on'[t] = d
          /\ Busy(t)' => item'[t] # Null
          /\ pc'[t] # "copied"
          /\ \A u \in Tasks \ {t} : pc'[u] = pc[u] /\ on'[u] = on[u] /\ item'[u] = item[u]
      BY <1>0, <2>1, <2>3, <3>1, DequeueLine
    <3>3. Line(current)' = queue[current]
      BY <1>2, <2>1, <3>1, <3>2 DEF Line, Lined
    <3>4. ActiveServed' /\ BusyItem'
      BY <1>1, <1>2, <3>1, <3>2 DEF ActiveServed, BusyItem, Busy
    <3>5. on'[t] = d BY <1>0, <2>3, <3>1 DEF Dequeue, TaskTypes
    <3>6. \A u \in Tasks : pc'[u] # "copied" /\ (pc'[u] \in {"idle", "opening"} \/ on'[u] <= c)
      BY <1>1, <1>7, <3>1, <3>2, <3>5
    <3>7. \A e \in Coders : e > c => e # d /\ active'[e] = Null /\ queue'[e] = <<>>
      BY <1>1, <2>1, <3>1, <3>2, PromptAssumption DEF Coders
    <3>8. Handover'
      BY <1>2, <3>6, <3>7 DEF Handover
    <3> QED BY <1>1, <1>2, <1>5, <3>3, <3>4, <3>8 DEF LineStep
  <2> QED BY <1>10, <2>2, <2>3 DEF AdoptSubAgent, Handed, Emptied
<1> QED BY <1>9, <1>10

\* What happens to the queue behind the active prompt happens to the line.
LEMMA EditedLine ==
  ASSUME LineInv, NEW r \in Seq(Nat), queue' = [queue EXCEPT ![current] = r],
         UNCHANGED <<current, active, pc, on, item>>, accepted <= accepted',
         Follows(queue[current], r, accepted, accepted'),
         \A p \in Prompts : fate'[p] = "waiting" => (fate[p] = "waiting" /\ ~Contains(queue[current], p)) \/ Contains(r, p),
         \A t \in Tasks : pc[t] # "copied", ProducersHere',
         active[current] # Null /\ fate'[active[current]] = "waiting" => fate[active[current]] = "waiting"
  PROVE  LineStep
<1>0. /\ TypeInv /\ current \in Coders /\ queue[current] \in Seq(Nat) /\ active[current] \in Nat \cup {Null}
      /\ Line(current) = Lined(active[current], queue[current])
      /\ queue \in [Coders -> Seq(Prompts)]
  BY LineSeq DEF LineInv, DrainInv, TypeInv, RestTypes, CoderTypes
<1>1. Line(current)' = Lined(active[current], r)
  BY <1>0 DEF Line, Lined
<1>2. Follows(Line(current), Line(current)', accepted, accepted')
  BY <1>0, <1>1, FollowsBehind
<1>3. ASSUME NEW p \in Prompts, fate'[p] = "waiting" PROVE Contains(Line(current)', p)
  <2>1. CASE Contains(r, p)
    BY <1>1, <2>1, LinedContains
  <2>2. CASE fate[p] = "waiting" /\ ~Contains(queue[current], p)
    <3>1. Contains(Lined(active[current], queue[current]), p)
      BY <1>0, <2>2 DEF LineInv, NoPromptLost
    <3>2. active[current] # Null /\ p = active[current]
      BY <1>0, <2>2, <3>1, LinedContains
    <3> QED BY <1>1, <3>2, LinedContains
  <2> QED BY <1>3, <2>1, <2>2
<1>4. ActiveServed' /\ BusyItem'
  BY DEF LineInv, ActiveServed, BusyItem, Busy
<1>5. Handover'
  <2>1. \A d \in Coders : d > current => queue'[d] = queue[d]
    BY <1>0, PromptAssumption DEF Coders
  <2> QED BY <2>1 DEF LineInv, Handover
<1> QED BY <1>2, <1>3, <1>4, <1>5 DEF LineStep

\* A prompt is put into the queue of the agent.
LEMMA AddLine ==
  ASSUME LineInv, NEW p \in Producers, Add(p)
  PROVE  LineStep
<1> DEFINE i == (IF producer[p].place < Len(queue[current]) THEN producer[p].place ELSE Len(queue[current])) + 1
           r == InsertAt(queue[current], i, accepted + 1)
<1>0. /\ TypeInv /\ current \in Coders /\ accepted \in Nat /\ queue[current] \in Seq(Nat) /\ queue[current] \in Seq(Prompts)
      /\ fate \in [Prompts -> {"new", "waiting", "done", "failed", "removed", "lost"}]
  BY LineSeq DEF LineInv, DrainInv, TypeInv, RestTypes
<1>1. /\ producer[p] # Null /\ producer[p].coder = current /\ producer[p].place \in Nat
      /\ accepted' = accepted + 1 /\ fate' = [fate EXCEPT ![accepted + 1] = "waiting"]
      /\ producer' = [producer EXCEPT ![p] = Null]
      /\ UNCHANGED <<current, active, pc, on, item>>
  BY DEF Add, taskVars, LineInv, ProducersHere, DrainInv, TypeInv, RestTypes
<1>2. queue' = [queue EXCEPT ![current] = r]
  BY <1>1 DEF Add
<1>3. i \in 1..(Len(queue[current]) + 1)
  BY <1>0, <1>1
<1> HIDE DEF i
<1>4. /\ Follows(queue[current], r, accepted, accepted')
      /\ \A k \in DOMAIN queue[current] : Contains(r, queue[current][k])
      /\ Contains(r, accepted + 1)
  BY <1>0, <1>1, <1>3, FollowsInsertion
<1>5. r \in Seq(Nat)
  <2>1. accepted + 1 \in Nat
    BY <1>0
  <2> QED BY <1>0, <1>3, <2>1, InsertAtSeq, Zenon
<1> HIDE DEF r
<1>6. \A u \in Prompts : fate'[u] = "waiting" => (fate[u] = "waiting" /\ ~Contains(queue[current], u)) \/ Contains(r, u)
  <2>1. \A u \in Prompts : fate'[u] = "waiting" => u = accepted + 1 \/ fate[u] = "waiting"
    BY <1>0, <1>1
  <2>2. DOMAIN queue[current] = 1..Len(queue[current])
    BY <1>0
  <2>3. \A u \in Prompts : Contains(queue[current], u) => Contains(r, u)
    BY <1>4, <2>2 DEF Contains
  <2> QED BY <1>4, <2>1, <2>3
<1>7. \A t \in Tasks : pc[t] # "copied"
  BY <1>1 DEF LineInv, AheadInv, HandingOver, Switching, Checked
<1>8. ProducersHere'
  BY <1>1 DEF LineInv, ProducersHere, DrainInv, TypeInv, RestTypes
<1>9. active[current] # Null => fate'[active[current]] = fate[active[current]]
  <2> SUFFICES ASSUME active[current] # Null PROVE active[current] # accepted + 1
    BY <1>0, <1>1
  <2>1. 1 \in DOMAIN Line(current) /\ Line(current)[1] = active[current] /\ active[current] \in Nat
    <3>1. DOMAIN Lined(active[current], queue[current]) = 1..(Len(queue[current]) + 1)
          /\ Lined(active[current], queue[current])[1] = active[current]
      BY <1>0, LinedPlaces
    <3>2. Line(current) = Lined(active[current], queue[current]) /\ active[current] \in Nat \cup {Null} /\ Len(queue[current]) \in Nat
      BY <1>0, LineSeq
    <3> QED BY <3>1, <3>2
  <2>2. active[current] <= accepted
    BY <2>1 DEF LineInv, Numbered
  <2> QED BY <1>0, <2>1, <2>2
<1>10. accepted <= accepted'
  BY <1>0, <1>1
<1> QED BY <1>1, <1>2, <1>4, <1>5, <1>6, <1>7, <1>8, <1>9, <1>10, EditedLine

\* Removing and clearing take prompts away.
LEMMA EditLine ==
  ASSUME LineInv, ~HandingOver, Clear \/ \E i \in 1..MaxPrompts : RemoveFrom(i)
  PROVE  LineStep
<1>0. /\ TypeInv /\ current \in Coders /\ accepted \in Nat /\ queue[current] \in Seq(Nat) /\ queue[current] \in Seq(Prompts)
      /\ fate \in [Prompts -> {"new", "waiting", "done", "failed", "removed", "lost"}]
  BY LineSeq DEF LineInv, DrainInv, TypeInv, RestTypes
<1>1. /\ \A t \in Tasks : pc[t] # "copied"
      /\ UNCHANGED <<current, active, pc, on, item, accepted, producer>> /\ known = current
  BY <1>0, KnownHere DEF Clear, RemoveFrom, taskVars
<1>2. ProducersHere'
  BY <1>1 DEF LineInv, ProducersHere
<1>3. CASE Clear
  <2>1. /\ queue' = [queue EXCEPT ![current] = <<>>]
        /\ fate' = [p \in Prompts |-> IF p \in ToSet(queue[current]) THEN "removed" ELSE fate[p]]
    BY <1>1, <1>3 DEF Clear, Dropped
  <2>2. \A p \in Prompts : fate'[p] = "waiting" => fate[p] = "waiting" /\ p \notin ToSet(queue[current])
    BY <2>1
  <2>3. \A p : p \notin ToSet(queue[current]) => ~Contains(queue[current], p)
    BY <1>0 DEF ToSet, Contains
  <2>4. Follows(queue[current], <<>>, accepted, accepted') /\ <<>> \in Seq(Nat)
    BY <1>0, FollowsNone
  <2>5. active[current] # Null /\ fate'[active[current]] = "waiting" => fate[active[current]] = "waiting"
    BY <1>0, <2>2 DEF LineInv, DrainInv, TypeInv, CoderTypes
  <2>6. \A p \in Prompts : fate'[p] = "waiting" =>
          (fate[p] = "waiting" /\ ~Contains(queue[current], p)) \/ Contains(<<>>, p)
    BY <2>2, <2>3
  <2>7. accepted <= accepted'
    BY <1>0, <1>1
  <2> QED BY <1>1, <1>2, <2>1, <2>4, <2>5, <2>6, <2>7, EditedLine
<1>4. ASSUME NEW i \in 1..MaxPrompts, RemoveFrom(i) PROVE LineStep
  <2> DEFINE r == RemoveAt(queue[current], i)
  <2>1. /\ i \in DOMAIN queue[current] /\ queue' = [queue EXCEPT ![current] = r]
        /\ fate' = [fate EXCEPT ![queue[current][i]] = "removed"]
    BY <1>1, <1>4 DEF RemoveFrom
  <2>2. /\ Follows(queue[current], r, accepted, accepted')
        /\ \A k \in DOMAIN queue[current] \ {i} : Contains(r, queue[current][k])
        /\ r \in Seq(Nat)
    BY <1>0, <2>1, FollowsRemoval, RemoveAtSeq
  <2> HIDE DEF r
  <2>3. \A p \in Prompts : fate'[p] = "waiting" => fate[p] = "waiting" /\ p # queue[current][i]
    BY <1>0, <2>1
  <2>4. \A p \in Prompts : Contains(queue[current], p) /\ p # queue[current][i] => Contains(r, p)
    <3>1. DOMAIN queue[current] = 1..Len(queue[current])
      BY <1>0
    <3> QED BY <2>2, <3>1 DEF Contains
  <2>5. active[current] # Null /\ fate'[active[current]] = "waiting" => fate[active[current]] = "waiting"
    BY <1>0, <2>3 DEF LineInv, DrainInv, TypeInv, CoderTypes
  <2>6. \A p \in Prompts : fate'[p] = "waiting" =>
          (fate[p] = "waiting" /\ ~Contains(queue[current], p)) \/ Contains(r, p)
    BY <2>3, <2>4
  <2>7. accepted <= accepted'
    BY <1>0, <1>1
  <2> QED BY <1>1, <1>2, <2>1, <2>2, <2>5, <2>6, <2>7, EditedLine
<1> QED BY <1>3, <1>4

\* A run of a workflow drops what is left and stages its tasks.
LEMMA RunWorkflowLine ==
  ASSUME LineInv, Races = {}, NEW t \in Own, NEW k \in Kinds, NEW n \in 1..MaxPrompts, RunWorkflow(t, k, n)
  PROVE  LineStep
<1> DEFINE r == [i \in 1..n |-> accepted + i]
<1>0. /\ TypeInv /\ CoderTypes /\ TaskTypes /\ current \in Coders /\ accepted \in Nat /\ n \in Nat /\ Line(current) \in Seq(Nat)
      /\ Own \subseteq Tasks
  BY LineSeq, PromptAssumption DEF LineInv, DrainInv, TypeInv, RestTypes, Tasks
<1>9. (\A u \in Tasks : pc[u] = "idle") /\ known = current
  <2>1. \A u \in Tasks : pc[u] = "idle" BY DEF RunWorkflow, Idle, Tasks
  <2> QED BY <1>0, <2>1 DEF TypeInv, OneSwitch, Switching
<1>1. /\ \A u \in Tasks : pc[u] = "idle"
      /\ queue' = [queue EXCEPT ![current] = r]
      /\ active' = [active EXCEPT ![current] = Null]
      /\ fate' = [p \in Prompts |-> IF p \in accepted + 1 .. accepted + n THEN "waiting"
                                    ELSE Dropped(ToSet(Line(current)))[p]]
      /\ accepted' = accepted + n
      /\ pc' = [pc EXCEPT ![t] = "opening"]
      /\ UNCHANGED <<current, item, producer>>
  BY <1>9 DEF RunWorkflow
<1>2. r \in Seq(Nat) /\ Len(r) = n /\ \A i \in 1..n : r[i] = accepted + i
  BY <1>0
<1>3. Line(current)' = r
  <2>1. queue'[current] = r /\ active'[current] = Null
    BY <1>0, <1>1 DEF CoderTypes
  <2> HIDE DEF r
  <2>2. <<>> \o r = r
    BY <1>2
  <2> QED BY <1>1, <2>1, <2>2 DEF Line
<1>4. Follows(Line(current), r, accepted, accepted')
  BY <1>0, <1>1, FollowsFresh
<1> HIDE DEF r
<1>5. ASSUME NEW p \in Prompts, fate'[p] = "waiting" PROVE Contains(r, p)
  <2>1. CASE p \in accepted + 1 .. accepted + n
    <3>1. p - accepted \in 1..n /\ accepted + (p - accepted) = p
      BY <1>0, <2>1
    <3> QED BY <1>2, <3>1 DEF Contains
  <2>2. CASE p \notin accepted + 1 .. accepted + n
    <3>1. fate[p] = "waiting" /\ p \notin ToSet(Line(current))
      BY <1>1, <1>5, <2>2 DEF Dropped
    <3>2. Contains(Line(current), p)
      BY <3>1 DEF LineInv, NoPromptLost
    <3> QED BY <1>0, <3>1, <3>2 DEF Contains, ToSet
  <2> QED BY <2>1, <2>2
<1>6. \A u \in Tasks : pc'[u] \in {"idle", "opening"}
  BY <1>0, <1>1 DEF TaskTypes
<1>7. ActiveServed' /\ BusyItem' /\ ProducersHere' /\ Handover'
  <2>1. ActiveServed' /\ BusyItem' /\ ProducersHere'
    BY <1>0, <1>1, <1>6 DEF LineInv, ActiveServed, BusyItem, Busy, ProducersHere, CoderTypes
  <2>2. \A d \in Coders : d > current => active'[d] = Null /\ queue'[d] = queue[d]
    BY <1>0, <1>1, PromptAssumption DEF LineInv, Handover, CoderTypes, Coders
  <2>3. Handover'
    BY <1>1, <1>6, <2>2 DEF LineInv, Handover
  <2> QED BY <2>1, <2>3
<1>8. accepted <= accepted'
  BY <1>0, <1>1
<1> QED BY <1>3, <1>4, <1>5, <1>7, <1>8 DEF LineStep

\* Every step.
LEMMA NextLine ==
  ASSUME Races = {}, LineInv, [Next]_vars
  PROVE  LineStep
<1>0. TypeInv' BY NextTypes DEF LineInv, DrainInv
<1>1. CASE UNCHANGED vars
  BY <1>1, SameTasks DEF vars, coderVars, taskVars, history
<1>2. ASSUME NEW p \in Producers, Add(p) PROVE LineStep
  BY <1>2, AddLine
<1>3. CASE Edit /\ ~HandingOver
  BY <1>3, CheckLine, EditLine DEF Edit
<1>4. ASSUME NEW t \in Tasks,
             \/ Task(t) \/ Swallow(t) \/ MessageFails(t) \/ QueueRun(t) \/ Cancel(t)
             \/ SwitchRefused(t) \/ SwitchFails(t)
      PROVE  LineStep
  <2>1. CASE Swallow(t) \/ Cancel(t)
    BY <2>1, SameTasks DEF Swallow, Cancel, coderVars, taskVars, history
  <2>2. CASE Task(t)
    BY <1>0, <2>2, MessageLine, MessageEndsLine, UnwindLine, DoneLine, SwitchLine, CopyLine, AdoptLine DEF Task
  <2>3. CASE SwitchFails(t)
    BY <1>0, <2>3, GiveUpLine DEF SwitchFails
  <2> QED BY <1>4, <2>1, <2>2, <2>3, MessageLine, QueueRunLine, SwitchLine
<1>5. ASSUME NEW t \in Own, NEW k \in Kinds, Begin(t, k) \/ \E n \in 1..MaxPrompts : RunWorkflow(t, k, n)
      PROVE  LineStep
  BY <1>5, MessageLine, RunWorkflowLine DEF Tasks
<1>6. CASE Interrupt
  BY <1>6, SameTasks DEF Interrupt, taskVars
<1>7. CASE Loop
  BY <1>4, <1>5, <1>6, <1>7 DEF Loop
<1> QED BY <1>1, <1>2, <1>3, <1>7 DEF Next

\* At the start the line is empty.
LEMMA InitLine == Init => LineInv
<1> SUFFICES ASSUME Init PROVE LineInv
  OBVIOUS
<1>1. DrainInv /\ AheadInv /\ current \in Coders
  BY InitDrain, InitAhead DEF DrainInv, TypeInv, RestTypes
<1>2. Line(current) = <<>>
  BY <1>1 DEF Init, Line
<1>3. NoPromptLost /\ Numbered
  BY <1>2 DEF Init, NoPromptLost, Numbered, IsInjective
<1>4. ActiveServed /\ BusyItem /\ ProducersHere /\ Handover
  BY <1>1 DEF Init, ActiveServed, BusyItem, Busy, ProducersHere, Handover
<1> QED BY <1>1, <1>3, <1>4 DEF LineInv

\* LineInv holds in every state.
LEMMA LineInvariant ==
  ASSUME Races = {}
  PROVE  Spec => []LineInv
<1>1. LineInv /\ [Next]_vars => LineInv'
  <2> SUFFICES ASSUME LineInv, [Next]_vars PROVE LineInv'
    OBVIOUS
  <2>1. DrainInv' /\ TypeInv'
    BY NextDrain, NextTypes DEF LineInv, DrainInv, OneAtATime
  <2>2. AheadInv'
    BY <2>1, NextAhead DEF LineInv, DrainInv, Apart
  <2> QED BY <2>1, <2>2, NextLine, LineKept
<1> QED BY <1>1, InitLine, PTL DEF Spec

\* If a queue is not edited while it is handed over and none of the other races
\* meets, a prompt that was accepted is in the line of the agent until it has run
\* to its end, has failed or was removed, and it is in line once: through
\* interruptions, cancellations, failures, requeues, edits, runs of /queue run
\* from elsewhere, and rebuilds, be they adopted or given up at any step.  What a
\* sub-agent's rebuild that is given up before the copy takes with it is the one
\* exception (Coder.create, get_instance): those prompts are marked as lost, and
\* the line that is left has none of them.
THEOREM PromptsStayInLine ==
  ASSUME Races = {}
  PROVE  Spec => []NoPromptLost
<1>1. LineInv => NoPromptLost
  BY DEF LineInv
<1> QED BY <1>1, LineInvariant, PTL

\* Two prompts in line never change places: requeue_active_prompt puts a prompt
\* back where it was, and a handover copies the queue as it is.
THEOREM FirstInFirstOut ==
  ASSUME Races = {}
  PROVE  Spec => OrderKept
<1>1. ASSUME LineInv, [Next]_vars
      PROVE  [\A i, j \in DOMAIN Line(current) : i < j =>
                ~ \E k, l \in DOMAIN Line(current)' :
                    l < k /\ Line(current)'[k] = Line(current)[i] /\ Line(current)'[l] = Line(current)[j]]_vars
  <2>1. TypeInv /\ TypeInv' /\ LineStep
    BY <1>1, NextLine, NextTypes DEF LineInv, DrainInv
  <2>2. Line(current) \in Seq(Nat) /\ Line(current)' \in Seq(Nat)
    BY <2>1, LinesTyped
  <2>3. /\ accepted \in Nat /\ accepted' \in Nat
        /\ IsInjective(Line(current)) /\ \A k \in DOMAIN Line(current) : Line(current)[k] <= accepted
    BY <1>1, <2>1 DEF LineInv, NoPromptLost, Numbered, TypeInv, RestTypes
  <2>4. \A i, j \in DOMAIN Line(current) : i < j =>
           ~ \E k, l \in DOMAIN Line(current)' :
               l < k /\ Line(current)'[k] = Line(current)[i] /\ Line(current)'[l] = Line(current)[j]
    <3>1. accepted <= accepted' /\ Follows(Line(current), Line(current)', accepted, accepted')
      BY <2>1 DEF LineStep
    <3>2. PICK s \in Seq(Nat), r \in Seq(Nat), n \in Nat, m \in Nat :
            s = Line(current) /\ r = Line(current)' /\ n = accepted /\ m = accepted'
      BY <2>2, <2>3
    <3>3. n <= m /\ Follows(s, r, n, m) /\ IsInjective(s) /\ \A k \in DOMAIN s : s[k] <= n
      BY <2>3, <3>1, <3>2
    <3>4. \A i, j \in DOMAIN s : i < j => ~ \E k, l \in DOMAIN r : l < k /\ r[k] = s[i] /\ r[l] = s[j]
      <4>1. /\ IsInjective(r) /\ \A k \in DOMAIN r : r[k] <= m
            /\ \A i, j \in DOMAIN s : i < j => ~ \E k, l \in DOMAIN r : l < k /\ r[k] = s[i] /\ r[l] = s[j]
        BY <3>3, FollowsKeeps
      <4> QED BY <4>1
    <3> QED BY <3>2, <3>4
  <2> QED BY <2>4
<1> QED BY <1>1, LineInvariant, PTL DEF Spec, OrderKept

-----------------------------------------------------------------------------
(* A prompt is started again only after a stop.  What a stop costs is paid  *)
(* when it happens, and the second start comes later: the invariant counts *)
(* the starts that are still owed with those there were.                   *)

\* A task at work on p that will not put it back: nobody has stopped it.
Served(p) ==
  \E t \in Tasks : pc[t] = "running" /\ item[t] = p /\ t \notin cancelled /\ ~interrupt[on[t]]

\* The first start is free; a prompt that was started and is not done with will
\* be started again.
Owed(p) == starts[p] = 0 \/ (fate[p] = "waiting" /\ ~Served(p))

due == [p \in Prompts |-> IF Owed(p) THEN starts[p] + 1 ELSE starts[p]]

\* What is queued or being run is not done with.
Waits ==
  \A p \in Prompts :
    Contains(queue[current], p) \/ (\E t \in Tasks : Busy(t) /\ item[t] = p) => fate[p] = "waiting"

Unstarted == \A p \in Prompts : p > accepted => starts[p] = 0

\* Who drains does so at the coder the agent has now; the others have nothing.
Here ==
  /\ \A t \in Tasks : Busy(t) => on[t] = current
  /\ agent = "primary" => \A t, u \in Own : ~Idle(t) /\ ~Idle(u) => t = u /\ on[t] = current
  /\ agent # "primary" => \A c \in Coders : c < current => queue[c] = <<>>
  /\ \A t \in Foreign : pc[t] \in {"idle", "next", "running"}

RerunInv ==
  /\ LineInv /\ Here /\ Waits /\ Unstarted
  /\ IsFiniteSet(Repeated(due)) /\ Cardinality(Repeated(due)) <= stops

\* More times, more repetitions.
LEMMA RepeatedGrows ==
  ASSUME NEW f \in [Prompts -> Nat], NEW g \in [Prompts -> Nat], NEW q \in Prompts,
         g[q] <= f[q] + 1, \A p \in Prompts \ {q} : g[p] <= f[p], IsFiniteSet(Repeated(f))
  PROVE  /\ IsFiniteSet(Repeated(g))
         /\ Cardinality(Repeated(g)) <= Cardinality(Repeated(f)) + 1
<1>1. Repeated(g) \subseteq Repeated(f) \cup {<<q, f[q] + 1>>}
  <2> SUFFICES ASSUME NEW x \in Repeated(g), x # <<q, f[q] + 1>>
               PROVE  x \in Repeated(f)
    OBVIOUS
  <2>1. PICK p \in Prompts : \E k \in 2..g[p] : x = <<p, k>>
    BY DEF Repeated
  <2>a. PICK k \in 2..g[p] : x = <<p, k>>
    BY <2>1
  <2>2. k \in 2..f[p]
    <3>1. f[p] \in Nat /\ g[p] \in Nat /\ f[q] \in Nat /\ k \in Nat
      BY <2>1, <2>a
    <3>2. CASE p = q
      <4>1. k # f[q] + 1
        BY <2>a, <3>2
      <4> QED BY <2>a, <3>1, <3>2, <4>1
    <3>3. CASE p # q
      <4>1. g[p] <= f[p]
        BY <3>3
      <4> QED BY <2>a, <3>1, <4>1
    <3> QED BY <3>2, <3>3
  <2> QED BY <2>a, <2>2 DEF Repeated
<1>2. PICK s : s = Repeated(f) \cup {<<q, f[q] + 1>>}
  OBVIOUS
<1>3. IsFiniteSet(s) /\ Cardinality(s) <= Cardinality(Repeated(f)) + 1 /\ Cardinality(s) \in Nat /\ Cardinality(Repeated(f)) \in Nat
  <2>1. PICK r, x : r = Repeated(f) /\ x = <<q, f[q] + 1>> /\ s = r \cup {x}
    BY <1>2
  <2>2. IsFiniteSet(s) /\ Cardinality(s) = IF x \in r THEN Cardinality(r) ELSE Cardinality(r) + 1
    BY <2>1, FS_AddElement
  <2>3. Cardinality(s) \in Nat /\ Cardinality(r) \in Nat
    BY <2>1, <2>2, FS_CardinalityType
  <2> QED BY <2>1, <2>2, <2>3
<1>4. IsFiniteSet(Repeated(g)) /\ Cardinality(Repeated(g)) <= Cardinality(s)
  BY <1>1, <1>2, <1>3, FS_Subset
<1>5. Cardinality(Repeated(g)) \in Nat
  BY <1>4, FS_CardinalityType
<1> QED BY <1>3, <1>4, <1>5

LEMMA RepeatedKept ==
  ASSUME NEW f \in [Prompts -> Nat], NEW g \in [Prompts -> Nat],
         \A p \in Prompts : g[p] <= f[p], IsFiniteSet(Repeated(f))
  PROVE  /\ IsFiniteSet(Repeated(g))
         /\ Cardinality(Repeated(g)) <= Cardinality(Repeated(f))
<1>1. Repeated(g) \subseteq Repeated(f)
  <2> SUFFICES ASSUME NEW x \in Repeated(g)
               PROVE  x \in Repeated(f)
    OBVIOUS
  <2>1. PICK p \in Prompts : \E k \in 2..g[p] : x = <<p, k>>
    BY DEF Repeated
  <2>a. PICK k \in 2..g[p] : x = <<p, k>>
    BY <2>1
  <2>2. k \in 2..f[p]
    <3>1. f[p] \in Nat /\ g[p] \in Nat /\ g[p] <= f[p]
      BY <2>1
    <3> QED BY <2>a, <3>1
  <2> QED BY <2>a, <2>2 DEF Repeated
<1> QED BY <1>1, FS_Subset

\* What a step has to show about the starts that are due.
DueStep ==
  /\ starts' \in [Prompts -> Nat] /\ stops \in Nat /\ stops' \in Nat
  /\ \/ stops <= stops' /\ \A p \in Prompts : due'[p] <= due[p]
     \/ /\ stops + 1 <= stops'
        /\ \E q \in Prompts : due'[q] <= due[q] + 1 /\ \A p \in Prompts \ {q} : due'[p] <= due[p]

RerunStep == Here' /\ Waits' /\ Unstarted' /\ DueStep

\* The times due are numbers.
LEMMA DueType ==
  ASSUME starts \in [Prompts -> Nat]
  PROVE  due \in [Prompts -> Nat]
<1>1. \A p \in Prompts : starts[p] \in Nat /\ starts[p] + 1 \in Nat
  OBVIOUS
<1> QED BY <1>1 DEF due

LEMMA RerunKept ==
  ASSUME RerunInv, LineInv', RerunStep
  PROVE  RerunInv'
<1>1. starts \in [Prompts -> Nat] /\ starts' \in [Prompts -> Nat]
  BY DEF RerunInv, LineInv, DrainInv, TypeInv, RestTypes, RerunStep, DueStep
<1>2. due' \in [Prompts -> Nat]
  <2>1. \A p \in Prompts : starts'[p] \in Nat /\ starts'[p] + 1 \in Nat
    BY <1>1
  <2> QED BY <2>1 DEF due
<1>3. PICK f \in [Prompts -> Nat], g \in [Prompts -> Nat] : f = due /\ g = due'
  BY <1>1, <1>2, DueType
<1>4. IsFiniteSet(Repeated(f)) /\ Cardinality(Repeated(f)) <= stops /\ Cardinality(Repeated(f)) \in Nat
  BY <1>3, FS_CardinalityType DEF RerunInv
<1>5. stops \in Nat /\ stops' \in Nat
  BY DEF RerunStep, DueStep
<1>6. IsFiniteSet(Repeated(g)) /\ Cardinality(Repeated(g)) <= stops'
  <2>1. CASE stops <= stops' /\ \A p \in Prompts : due'[p] <= due[p]
    <3>1. IsFiniteSet(Repeated(g)) /\ Cardinality(Repeated(g)) <= Cardinality(Repeated(f))
      BY <1>3, <1>4, <2>1, RepeatedKept
    <3>2. Cardinality(Repeated(g)) \in Nat
      BY <3>1, FS_CardinalityType
    <3> QED BY <1>4, <1>5, <2>1, <3>1, <3>2
  <2>2. CASE /\ stops + 1 <= stops'
             /\ \E q \in Prompts : due'[q] <= due[q] + 1 /\ \A p \in Prompts \ {q} : due'[p] <= due[p]
    <3>1. PICK q \in Prompts : g[q] <= f[q] + 1 /\ \A p \in Prompts \ {q} : g[p] <= f[p]
      BY <1>3, <2>2
    <3>2. IsFiniteSet(Repeated(g)) /\ Cardinality(Repeated(g)) <= Cardinality(Repeated(f)) + 1
      BY <1>4, <3>1, RepeatedGrows
    <3>3. Cardinality(Repeated(g)) \in Nat
      BY <3>2, FS_CardinalityType
    <3> QED BY <1>4, <1>5, <2>2, <3>2, <3>3
  <2> QED BY <2>1, <2>2 DEF RerunStep, DueStep
<1>7. IsFiniteSet(Repeated(due'))  /\ Cardinality(Repeated(due')) <= stops'
  BY <1>3, <1>6
<1> QED BY <1>7 DEF RerunInv, RerunStep, Repeated

\* A task at work on a queued prompt: it is the only one, at the agent's coder.
LEMMA AtWork ==
  ASSUME LineInv, Here, NEW t \in Tasks, Busy(t)
  PROVE  /\ on[t] = current /\ active[current] = item[t] /\ item[t] \in Prompts /\ item[t] # Null
         /\ item[t] <= accepted /\ ~Contains(queue[current], item[t])
         /\ \A u \in Tasks \ {t} : ~Busy(u)
         /\ Switching = {}
<1>1. /\ on[t] = current /\ active[current] = item[t] /\ item[t] # Null /\ item[t] \in Prompts
      /\ \A u \in Tasks \ {t} : ~Busy(u)
  BY DEF LineInv, DrainInv, OneDrain, BusyItem, Here, Busy, TypeInv, TaskTypes
<1>2. Switching = {}
  BY NoSwitch DEF Busy, LineInv
<1>3. PICK q \in Seq(Prompts) : q = queue[current]
  BY DEF LineInv, DrainInv, TypeInv, RestTypes, CoderTypes
<1>4. PICK x : x = Line(current)
  OBVIOUS
<1>5. x = Lined(item[t], q)
  BY <1>1, <1>3, <1>4 DEF Line, Lined
<1>6. /\ Len(q) \in Nat /\ Len(x) = Len(q) + 1 /\ DOMAIN x = 1..(Len(q) + 1) /\ x[1] = item[t]
      /\ \A k \in 1..Len(q) : x[k + 1] = q[k]
  BY <1>1, <1>3, <1>5, LinedPlaces
<1>7. item[t] <= accepted
  <2>1. 1 \in DOMAIN x
    BY <1>6
  <2> QED BY <1>4, <1>6, <2>1 DEF LineInv, Numbered
<1>8. ~Contains(q, item[t])
  <2> SUFFICES ASSUME NEW k \in 1..Len(q), q[k] = item[t] PROVE FALSE
    BY <1>3 DEF Contains
  <2>1. k + 1 \in DOMAIN x /\ 1 \in DOMAIN x /\ k + 1 # 1
    BY <1>6
  <2>2. x[k + 1] = x[1]
    BY <1>6
  <2> QED BY <1>4, <2>1, <2>2 DEF LineInv, NoPromptLost, IsInjective
<1> QED BY <1>1, <1>2, <1>3, <1>7, <1>8

\* In the queue a prompt is once.
LEMMA QueuedOnce ==
  ASSUME LineInv
  PROVE  /\ queue[current] \in Seq(Prompts)
         /\ \A i, k \in DOMAIN queue[current] : queue[current][i] = queue[current][k] => i = k
         /\ \A i \in DOMAIN queue[current] : queue[current][i] <= accepted
<1>1. PICK q \in Seq(Prompts) : q = queue[current]
  BY DEF LineInv, DrainInv, TypeInv, RestTypes, CoderTypes
<1>2. PICK x : x = Line(current)
  OBVIOUS
<1>3. x = Lined(active[current], q)
  BY <1>1, <1>2 DEF Line, Lined
<1>4. PICK d \in {0, 1} : /\ Len(q) \in Nat /\ DOMAIN x = 1..(Len(q) + d)
                          /\ \A k \in 1..Len(q) : x[k + d] = q[k]
  <2>1. CASE active[current] = Null
    BY <1>3, <2>1, LinedPlaces
  <2>2. CASE active[current] # Null
    BY <1>3, <2>2, LinedPlaces
  <2> QED BY <2>1, <2>2
<1>5. \A i \in 1..Len(q) : i + d \in DOMAIN x
  BY <1>4
<1>6. ASSUME NEW i \in 1..Len(q), NEW k \in 1..Len(q), q[i] = q[k]
      PROVE  i = k
  <2>1. i + d = k + d
    BY <1>2, <1>4, <1>5, <1>6 DEF LineInv, NoPromptLost, IsInjective
  <2> QED BY <1>4, <2>1
<1>7. ASSUME NEW i \in 1..Len(q)
      PROVE  q[i] <= accepted
  BY <1>2, <1>4, <1>5 DEF LineInv, Numbered
<1>8. DOMAIN q = 1..Len(q)
  OBVIOUS
<1> QED BY <1>1, <1>6, <1>7, <1>8

\* What a step of one task may do to where the others drain.
LEMMA HereKept ==
  ASSUME LineInv, Here, NEW t \in Tasks, UNCHANGED <<agent, current>>,
         \A u \in Tasks \ {t} : pc'[u] = pc[u] /\ on'[u] = on[u],
         Busy(t)' => on'[t] = current,
         t \in Foreign => pc'[t] \in {"idle", "next", "running"},
         agent = "primary" /\ t \in Own /\ ~Idle(t)' =>
           on'[t] = current /\ (~Idle(t) \/ \A u \in Own : Idle(u)),
         \A c \in Coders : c < current /\ queue[c] = <<>> => queue'[c] = <<>>
  PROVE  Here'
<1>1. \A u \in Tasks : Busy(u)' => on'[u] = current
  BY DEF Here, Busy
<1>2. Own \subseteq Tasks /\ Foreign \subseteq Tasks
  BY DEF Tasks
<1>3. agent = "primary" => \A u, v \in Own : ~Idle(u)' /\ ~Idle(v)' => u = v /\ on'[u] = current
  BY <1>2 DEF Here, Idle
<1>4. \A u \in Foreign : pc'[u] \in {"idle", "next", "running"}
  BY <1>2 DEF Here
<1>5. agent # "primary" => \A c \in Coders : c < current => queue'[c] = <<>>
  BY DEF Here
<1> QED BY <1>1, <1>3, <1>4, <1>5 DEF Here

\* What is in line stays, or what is new waits.
LEMMA WaitsKept ==
  ASSUME Waits,
         \A p \in Prompts :
           Contains(queue'[current'], p) \/ (\E t \in Tasks : Busy(t)' /\ item'[t] = p) =>
             \/ fate'[p] = "waiting"
             \/ /\ fate'[p] = fate[p]
                /\ Contains(queue[current], p) \/ \E t \in Tasks : Busy(t) /\ item[t] = p
  PROVE  Waits'
BY DEF Waits

\* Starts stay due where nobody has been stopped.
LEMMA DueKept ==
  ASSUME TypeInv, TypeInv', starts' = starts, stops <= stops',
         \A p \in Prompts : starts[p] >= 1 /\ fate'[p] = "waiting" =>
           fate[p] = "waiting" /\ (Served(p) => Served(p)')
  PROVE  DueStep
<1>1. starts \in [Prompts -> Nat] /\ stops \in Nat /\ stops' \in Nat
  BY DEF TypeInv, RestTypes
<1>2. ASSUME NEW p \in Prompts
      PROVE  due'[p] <= due[p]
  <2>1. PICK n \in Nat : n = starts[p]
    BY <1>1
  <2>2. due[p] = IF Owed(p) THEN n + 1 ELSE n
    BY <2>1 DEF due
  <2>3. due'[p] = IF Owed(p)' THEN n + 1 ELSE n
    BY <2>1 DEF due
  <2>4. Owed(p)' => Owed(p)
    BY <2>1 DEF Owed
  <2> QED BY <2>2, <2>3, <2>4
<1> QED BY <1>1, <1>2 DEF DueStep

\* Who serves goes on, if the step is of one that does not.
LEMMA ServedKept ==
  ASSUME NEW t \in Tasks,
         ~(pc[t] = "running" /\ t \notin cancelled /\ ~interrupt[on[t]]),
         \A u \in Tasks \ {t} :
           /\ pc'[u] = pc[u] /\ on'[u] = on[u] /\ item'[u] = item[u]
           /\ u \notin cancelled => u \notin cancelled'
           /\ ~interrupt[on[u]] => ~interrupt'[on[u]]
  PROVE  \A p \in Prompts : Served(p) => Served(p)'
BY DEF Served

\* Steps of a task outside the drain that stays outside, and of none.
LEMMA QuietRerun ==
  ASSUME RerunInv, TypeInv', NEW t \in Tasks, ~Busy(t), ~Busy(t)',
         UNCHANGED <<agent, current, starts>>, accepted <= accepted', stops <= stops',
         \A u \in Tasks \ {t} :
           /\ pc'[u] = pc[u] /\ on'[u] = on[u] /\ item'[u] = item[u]
           /\ u \notin cancelled => u \notin cancelled'
           /\ ~interrupt[on[u]] => ~interrupt'[on[u]],
         t \in Foreign => pc'[t] \in {"idle", "next", "running"},
         agent = "primary" /\ t \in Own /\ ~Idle(t)' =>
           on'[t] = current /\ (~Idle(t) \/ \A u \in Own : Idle(u)),
         UNCHANGED fate, queue'[current] = queue[current],
         \A c \in Coders : c < current => queue'[c] = queue[c]
  PROVE  RerunStep
<1>1. Here'
  BY HereKept DEF RerunInv
<1>2. Waits'
  <2>1. \A p \in Prompts : (\E u \in Tasks : Busy(u)' /\ item'[u] = p) => \E u \in Tasks : Busy(u) /\ item[u] = p
    BY DEF Busy
  <2> QED BY <2>1, WaitsKept DEF RerunInv
<1>3. Unstarted'
  <2>1. accepted \in Nat /\ accepted' \in Nat
    BY DEF RerunInv, LineInv, DrainInv, TypeInv, RestTypes
  <2> SUFFICES ASSUME NEW p \in Prompts, p > accepted' PROVE starts[p] = 0
    BY DEF Unstarted
  <2>2. p > accepted
    BY <2>1 DEF Prompts
  <2> QED BY <2>2 DEF RerunInv, Unstarted
<1>4. \A p \in Prompts : Served(p) => Served(p)'
  BY ServedKept DEF Busy
<1>5. DueStep
  BY <1>4, DueKept DEF RerunInv, LineInv, DrainInv
<1> QED BY <1>1, <1>2, <1>3, <1>5 DEF RerunStep

\* Messages open and fail.
LEMMA MessageRerun ==
  ASSUME RerunInv, TypeInv', NEW t \in Tasks, Open(t) \/ MessageFails(t)
  PROVE  RerunStep
<1>0. TaskTypes /\ stops \in Nat /\ accepted \in Nat /\ on[t] \in Coders /\ interrupt \in [Coders -> BOOLEAN]
  BY DEF RerunInv, LineInv, DrainInv, TypeInv, RestTypes, CoderTypes, TaskTypes
<1>1. t \in Own /\ (agent = "primary" => on[t] = current)
  BY DEF RerunInv, Here, Open, MessageFails, Tasks, Idle
<1>2. CASE Open(t)
  <2>1. /\ pc[t] = "opening" /\ pc' = [pc EXCEPT ![t] = "working"]
        /\ interrupt' = [interrupt EXCEPT ![on[t]] = FALSE]
        /\ UNCHANGED <<agent, current, queue, on, item, cancelled, fate, starts, accepted, stops>>
    BY <1>2 DEF Open, history
  <2>2. \A u \in Tasks \ {t} : ~interrupt[on[u]] => ~interrupt'[on[u]]
    BY <1>0, <2>1 DEF TaskTypes
  <2>3. pc'[t] = "working" /\ \A u \in Tasks \ {t} : pc'[u] = pc[u]
    BY <1>0, <2>1 DEF TaskTypes
  <2>4. ~Idle(t) /\ ~Busy(t) /\ ~Busy(t)' /\ t \notin Foreign
    BY <1>1, <2>1, <2>3, PromptAssumption DEF Idle, Busy
  <2> QED BY <1>0, <1>1, <2>1, <2>2, <2>3, <2>4, QuietRerun
<1>3. CASE MessageFails(t)
  <2>1. /\ ~Busy(t) /\ Leave(t) /\ UNCHANGED <<agent, current, queue, interrupt, on, fate, starts, accepted>>
        /\ stops <= stops'
    BY <1>0, <1>3 DEF MessageFails, Busy, coderVars
  <2>2. pc'[t] = "idle" /\ \A u \in Tasks \ {t} : pc'[u] = pc[u] /\ item'[u] = item[u] /\ (u \notin cancelled => u \notin cancelled')
    BY <1>0, <2>1 DEF Leave, TaskTypes
  <2>3. ~Busy(t)' /\ Idle(t)' /\ t \notin Foreign
    BY <1>1, <2>2, PromptAssumption DEF Busy, Idle
  <2> QED BY <1>0, <2>1, <2>2, <2>3, QuietRerun
<1> QED BY <1>2, <1>3

\* Steps that move no task.
LEMMA StillRerun ==
  ASSUME RerunInv, UNCHANGED <<agent, current, queue, pc, on, item, fate, starts, accepted>>, DueStep
  PROVE  RerunStep
<1>1. Here'
  BY DEF RerunInv, Here, Busy, Idle
<1>2. Waits' /\ Unstarted'
  BY DEF RerunInv, Waits, Unstarted, Busy
<1> QED BY <1>1, <1>2 DEF RerunStep

\* A stop costs one start at most: one prompt is at work.
LEMMA StopDue ==
  ASSUME RerunInv, TypeInv', starts' = starts, stops + 1 <= stops',
         \A p \in Prompts : starts[p] >= 1 /\ fate'[p] = "waiting" => fate[p] = "waiting"
  PROVE  DueStep
<1>1. starts \in [Prompts -> Nat] /\ stops \in Nat /\ stops' \in Nat
  BY DEF TypeInv, RestTypes, RerunInv, LineInv, DrainInv
<1>2. CASE \E t \in Tasks : Busy(t)
  <2>1. PICK t \in Tasks : Busy(t)
    BY <1>2
  <2>2. item[t] \in Prompts /\ \A p \in Prompts \ {item[t]} : ~Served(p)
    BY <2>1, AtWork DEF RerunInv, Served, Busy
  <2>3. ASSUME NEW p \in Prompts
        PROVE  /\ due'[p] <= due[p] + 1
               /\ p # item[t] => due'[p] <= due[p]
    <3>1. PICK n \in Nat : n = starts[p]
      BY <1>1
    <3>2. due[p] = IF Owed(p) THEN n + 1 ELSE n
      BY <3>1 DEF due
    <3>3. due'[p] = IF Owed(p)' THEN n + 1 ELSE n
      BY <3>1 DEF due
    <3>4. p # item[t] => (Owed(p)' => Owed(p))
      BY <2>2, <3>1 DEF Owed
    <3> QED BY <3>2, <3>3, <3>4
  <2> QED BY <1>1, <2>2, <2>3 DEF DueStep
<1>3. CASE ~ \E t \in Tasks : Busy(t)
  <2>1. \A p \in Prompts : ~Served(p)
    BY <1>3 DEF Served, Busy
  <2>2. stops <= stops'
    BY <1>1
  <2> QED BY <2>1, <2>2, DueKept DEF RerunInv, LineInv, DrainInv
<1> QED BY <1>2, <1>3

\* Interruptions and cancellations; an interruption that is forgotten.
LEMMA StopRerun ==
  ASSUME RerunInv, TypeInv', Interrupt \/ \E t \in Tasks : Cancel(t) \/ Swallow(t)
  PROVE  RerunStep
<1>0. TypeInv /\ TaskTypes /\ CoderTypes /\ stops \in Nat
  BY DEF RerunInv, LineInv, DrainInv, TypeInv, RestTypes
<1>1. CASE Interrupt \/ \E t \in Tasks : Cancel(t)
  <2>1. UNCHANGED <<agent, current, queue, pc, on, item, fate, starts, accepted>> /\ stops' = stops + 1
    BY <1>1 DEF Interrupt, Cancel, taskVars, coderVars
  <2>2. stops + 1 <= stops'
    BY <1>0, <2>1
  <2> QED BY <2>1, <2>2, StopDue, StillRerun
<1>2. ASSUME NEW t \in Tasks, Swallow(t) PROVE RerunStep
  <2>1. /\ UNCHANGED <<agent, current, queue, pc, on, item, cancelled, fate, starts, accepted, stops>>
        /\ interrupt' = [interrupt EXCEPT ![on[t]] = FALSE]
    BY <1>2 DEF Swallow, taskVars, history
  <2>2. \A u \in Tasks : ~interrupt[on[u]] => ~interrupt'[on[u]]
    BY <1>0, <2>1 DEF TaskTypes, CoderTypes
  <2>3. \A p \in Prompts : Served(p) => Served(p)'
    BY <2>1, <2>2 DEF Served
  <2>4. DueStep
    BY <1>0, <2>1, <2>3, DueKept
  <2> QED BY <2>1, <2>4, StillRerun
<1> QED BY <1>1, <1>2

\* A message begins, and cancels what its agent was doing.
LEMMA BeginRerun ==
  ASSUME RerunInv, TypeInv', NEW t \in Own, NEW k \in Kinds, Begin(t, k)
  PROVE  RerunStep
<1> DEFINE others == {u \in Own : ~Idle(u)}
<1>0. TypeInv /\ TaskTypes /\ stops \in Nat /\ stops' \in Nat /\ t \in Tasks /\ t \notin Foreign /\ accepted \in Nat /\ IsFiniteSet(Own)
  BY PromptAssumption DEF RerunInv, LineInv, DrainInv, TypeInv, RestTypes, Tasks
<1>1. /\ Idle(t) /\ (agent = "primary" => \A u \in Own : Idle(u))
      /\ cancelled' = cancelled \cup others /\ stops' = stops + Cardinality(others \ cancelled)
      /\ pc' = [pc EXCEPT ![t] = "opening"] /\ on' = [on EXCEPT ![t] = known]
      /\ UNCHANGED <<agent, current, queue, interrupt, item, fate, starts, accepted>>
      /\ (agent = "primary" => known = current) /\ known \in Coders
  BY DEF Begin, coderVars, RerunInv, LineInv, DrainInv, TypeInv, OneSwitch, RestTypes
<1>2. IsFiniteSet(others \ cancelled)
  BY <1>0, FS_Subset
<1>3. pc'[t] = "opening" /\ on'[t] = known /\ \A u \in Tasks \ {t} : pc'[u] = pc[u] /\ on'[u] = on[u] /\ item'[u] = item[u]
  BY <1>0, <1>1 DEF TaskTypes
<1>4. ~Busy(t) /\ ~Busy(t)'
  BY <1>1, <1>3 DEF Busy, Idle
<1> HIDE DEF others
<1>5. CASE others \ cancelled = {}
  <2>1. cancelled' = cancelled /\ stops' = stops
    BY <1>0, <1>1, <1>5, FS_EmptySet
  <2>2. stops <= stops' /\ accepted <= accepted'
    BY <1>0, <1>1, <2>1
  <2> QED BY <1>0, <1>1, <1>3, <1>4, <2>1, <2>2, QuietRerun
<1>6. CASE others \ cancelled # {}
  <2>1. Cardinality(others \ cancelled) \in Nat /\ Cardinality(others \ cancelled) # 0
    BY <1>2, <1>6, FS_CardinalityType, FS_EmptySet
  <2>2. stops + 1 <= stops'
    BY <1>0, <1>1, <2>1
  <2>3. DueStep
    BY <1>1, <2>2, StopDue
  <2>4. Here'
    BY <1>0, <1>1, <1>3, <1>4, HereKept DEF RerunInv
  <2>5. \A p \in Prompts : (\E u \in Tasks : Busy(u)' /\ item'[u] = p) => \E u \in Tasks : Busy(u) /\ item[u] = p
    BY <1>3, <1>4 DEF Busy
  <2>6. Waits'
    BY <1>1, <2>5, WaitsKept DEF RerunInv
  <2>7. Unstarted'
    BY <1>1 DEF RerunInv, Unstarted
  <2> QED BY <2>3, <2>4, <2>6, <2>7 DEF RerunStep
<1> QED BY <1>5, <1>6

\* A queued prompt is started: if not for the first time, that was due.
LEMMA StartRerun ==
  ASSUME RerunInv, TypeInv', NEW t \in Tasks, Start(t)
  PROVE  RerunStep
<1>0. TypeInv /\ TaskTypes /\ CoderTypes /\ stops \in Nat /\ starts \in [Prompts -> Nat] /\ starts' \in [Prompts -> Nat]
  BY DEF RerunInv, LineInv, DrainInv, TypeInv, RestTypes
<1>1. /\ pc[t] = "next" /\ Busy(t) /\ t \notin cancelled /\ pc' = [pc EXCEPT ![t] = "running"]
      /\ interrupt' = [interrupt EXCEPT ![on[t]] = FALSE]
      /\ starts' = [starts EXCEPT ![item[t]] = @ + 1]
      /\ UNCHANGED <<agent, current, queue, on, item, cancelled, fate, accepted, stops>>
  BY DEF Start, Busy
<1>2. /\ on[t] = current /\ item[t] \in Prompts /\ item[t] <= accepted /\ \A u \in Tasks \ {t} : ~Busy(u)
      /\ fate[item[t]] = "waiting"
  BY <1>1, AtWork DEF RerunInv, Waits
<1>3. \A u \in Tasks : pc'[u] = IF u = t THEN "running" ELSE pc[u]
  BY <1>0, <1>1 DEF TaskTypes
<1>4. \A u \in Tasks : Busy(u)' <=> Busy(u)
  BY <1>1, <1>3 DEF Busy
<1>5. Here'
  BY <1>1, <1>2, <1>3, HereKept DEF RerunInv, Idle, Here
<1>6. Waits'
  BY <1>1, <1>4 DEF RerunInv, Waits
<1>7. Unstarted'
  <2>1. \A p \in Prompts : p > accepted => p # item[t]
    BY <1>2 DEF Prompts, RerunInv, LineInv, DrainInv, TypeInv, RestTypes
  <2> QED BY <1>0, <1>1, <2>1 DEF RerunInv, Unstarted
<1>8. ASSUME NEW p \in Prompts
      PROVE  due'[p] <= due[p]
  <2>1. PICK n \in Nat : n = starts[p]
    BY <1>0
  <2>2. due[p] = IF Owed(p) THEN n + 1 ELSE n
    BY <2>1 DEF due
  <2>3. ~Served(p)
    BY <1>1, <1>2 DEF Served, Busy
  <2>4. CASE p = item[t]
    <3>1. starts'[p] = n + 1
      BY <1>0, <1>1, <2>1, <2>4
    <3>2. Served(p)'
      <4>1. pc'[t] = "running" /\ item'[t] = p /\ t \notin cancelled' /\ ~interrupt'[on'[t]]
        <5>1. interrupt \in [Coders -> BOOLEAN] /\ on[t] \in Coders
          BY <1>0 DEF TypeInv, RestTypes, TaskTypes
        <5> QED BY <1>1, <1>3, <2>4, <5>1
      <4> QED BY <4>1 DEF Served
    <3>3. ~Owed(p)'
      <4>1. starts'[p] # 0
        BY <3>1
      <4> QED BY <3>2, <4>1 DEF Owed
    <3>4. due'[p] = n + 1
      BY <3>1, <3>3 DEF due
    <3>5. Owed(p)
      BY <1>2, <2>3, <2>4 DEF Owed
    <3> QED BY <2>2, <3>4, <3>5
  <2>5. CASE p # item[t]
    <3>1. starts'[p] = n
      BY <1>0, <1>1, <2>1, <2>5
    <3>2. due'[p] = IF Owed(p)' THEN n + 1 ELSE n
      BY <3>1 DEF due
    <3>3. Owed(p)' => Owed(p)
      BY <1>1, <2>1, <2>3, <3>1 DEF Owed
    <3> QED BY <2>2, <3>2, <3>3
  <2> QED BY <2>4, <2>5
<1>9. stops <= stops'
  BY <1>0, <1>1
<1>10. DueStep
  BY <1>0, <1>1, <1>8, <1>9 DEF DueStep
<1> QED BY <1>5, <1>6, <1>7, <1>10 DEF RerunStep

\* A task returns, outside the drain.
LEMMA LeaveRerun ==
  ASSUME RerunInv, TypeInv', NEW t \in Tasks, pc[t] \notin {"idle", "next", "running"}, Leave(t),
         UNCHANGED <<agent, current, queue, interrupt, on, fate, starts, accepted>>, stops <= stops'
  PROVE  RerunStep
<1>0. TaskTypes /\ accepted \in Nat
  BY DEF RerunInv, LineInv, DrainInv, TypeInv, RestTypes
<1>1. t \in Own /\ t \notin Foreign
  BY DEF RerunInv, Here, Tasks
<1>2. pc'[t] = "idle" /\ \A u \in Tasks \ {t} : pc'[u] = pc[u] /\ item'[u] = item[u] /\ (u \notin cancelled => u \notin cancelled')
  BY <1>0 DEF Leave, TaskTypes
<1>3. ~Busy(t) /\ ~Busy(t)' /\ Idle(t)'
  BY <1>2 DEF Busy, Idle
<1>4. accepted <= accepted'
  BY <1>0
<1> QED BY <1>1, <1>2, <1>3, <1>4, QuietRerun

\* A drain takes its next prompt, done with the one before.
LEMMA DequeueRerun ==
  ASSUME RerunInv, TypeInv', NEW t \in Tasks, NEW c \in Coders, Dequeue(t, c, queue, active),
         c = current \/ queue[c] = <<>>, t \in Own => ~Idle(t),
         UNCHANGED <<agent, current, interrupt, starts, accepted, stops>>,
         Busy(t) => fate'[item[t]] # "waiting",
         \A p \in Prompts : fate'[p] = fate[p] \/ (Busy(t) /\ p = item[t])
  PROVE  RerunStep
<1>0. /\ TypeInv /\ TaskTypes /\ CoderTypes /\ current \in Coders /\ accepted \in Nat /\ stops \in Nat
      /\ starts \in [Prompts -> Nat]
  BY DEF RerunInv, LineInv, DrainInv, TypeInv, RestTypes
<1>1. /\ on'[t] = c /\ \A u \in Tasks \ {t} : /\ pc'[u] = pc[u] /\ on'[u] = on[u] /\ item'[u] = item[u]
                                              /\ u \notin cancelled => u \notin cancelled'
      /\ \A d \in Coders \ {c} : queue'[d] = queue[d]
  BY <1>0 DEF Dequeue, Leave, TaskTypes, CoderTypes
<1>2. \/ queue[c] = <<>> /\ queue'[c] = <<>> /\ pc'[t] = "idle"
      \/ /\ c = current /\ queue[c] # <<>> /\ queue'[c] = Tail(queue[c])
         /\ pc'[t] = "next" /\ item'[t] = Head(queue[c])
  BY <1>0 DEF Dequeue, Leave, TaskTypes, CoderTypes
<1>3. Here'
  <2>1. Busy(t)' => on'[t] = current
    BY <1>1, <1>2 DEF Busy
  <2>2. pc'[t] \in {"idle", "next", "running"}
    BY <1>2
  <2>3. ~Idle(t)' => on'[t] = current
    BY <1>1, <1>2 DEF Idle
  <2>4. \A d \in Coders : d < current /\ queue[d] = <<>> => queue'[d] = <<>>
    BY <1>1, <1>2
  <2> QED BY <1>1, <2>1, <2>2, <2>3, <2>4, HereKept DEF RerunInv
<1>4. Waits'
  <2>1. PICK q \in Seq(Prompts) : q = queue[current]
    BY <1>0 DEF CoderTypes
  <2>2. ASSUME NEW p \in Prompts, Contains(queue'[current], p)
        PROVE  Contains(queue[current], p)
    <3>1. CASE queue'[current] = q
      BY <2>1, <2>2, <3>1
    <3>2. CASE q # <<>> /\ queue'[current] = Tail(q)
      <4>1. Len(Tail(q)) = Len(q) - 1 /\ Len(q) \in Nat /\ \A i \in 1..(Len(q) - 1) : Tail(q)[i] = q[i + 1] /\ i + 1 \in 1..Len(q)
        BY <3>2
      <4> QED BY <2>1, <2>2, <3>2, <4>1 DEF Contains
    <3> QED BY <1>0, <1>1, <1>2, <2>1, <3>1, <3>2
  <2>3. ASSUME NEW p \in Prompts, NEW u \in Tasks, Busy(u)', item'[u] = p
        PROVE  Contains(queue[current], p) \/ (u # t /\ Busy(u) /\ item[u] = p)
    <3>1. CASE u = t
      <4>1. q # <<>> /\ p = Head(q)
        BY <1>2, <2>1, <2>3, <3>1 DEF Busy
      <4>2. 1 \in 1..Len(q) /\ q[1] = p
        BY <4>1
      <4> QED BY <2>1, <4>2 DEF Contains
    <3>2. CASE u # t
      BY <1>1, <2>3, <3>2 DEF Busy
    <3> QED BY <3>1, <3>2
  <2>4. ASSUME NEW p \in Prompts, Contains(queue[current], p) \/ \E u \in Tasks \ {t} : Busy(u) /\ item[u] = p
        PROVE  fate'[p] = fate[p]
    BY <2>4, AtWork DEF RerunInv
  <2> QED BY <2>2, <2>3, <2>4, WaitsKept DEF RerunInv
<1>5. Unstarted'
  BY DEF RerunInv, Unstarted
<1>6. DueStep
  <2>1. ASSUME NEW p \in Prompts, fate'[p] = "waiting", Served(p)
        PROVE  Served(p)'
    <3>1. PICK u \in Tasks : pc[u] = "running" /\ item[u] = p /\ u \notin cancelled /\ ~interrupt[on[u]]
      BY <2>1 DEF Served
    <3>2. u # t
      BY <2>1, <3>1 DEF Busy
    <3> QED BY <1>1, <3>1, <3>2 DEF Served
  <2>2. \A p \in Prompts : fate'[p] = "waiting" => fate[p] = "waiting"
    OBVIOUS
  <2>3. stops <= stops'
    BY <1>0
  <2> QED BY <1>0, <2>1, <2>2, <2>3, DueKept
<1> QED BY <1>3, <1>4, <1>5, <1>6 DEF RerunStep

\* A message ends; its task may drain.
LEMMA MessageEndsRerun ==
  ASSUME RerunInv, TypeInv', NEW t \in Tasks, MessageEnds(t)
  PROVE  RerunStep
<1>0. TypeInv /\ TaskTypes /\ current \in Coders /\ stops \in Nat
  BY DEF RerunInv, LineInv, DrainInv, TypeInv, RestTypes
<1>1. pc[t] = "working" /\ ~Busy(t) /\ ~Idle(t) /\ UNCHANGED <<agent, current, interrupt, fate, starts, accepted, stops>>
  BY DEF MessageEnds, Busy, Idle, history
<1>2. CASE Leave(t) /\ UNCHANGED <<queue, active, on>>
  <2>1. stops <= stops'
    BY <1>0, <1>1
  <2> QED BY <1>1, <1>2, <2>1, LeaveRerun
<1>3. CASE Dequeue(t, on[t], queue, active)
  <2>1. t \in Own /\ on[t] \in Coders /\ on[t] <= current
    BY <1>0, <1>1 DEF RerunInv, LineInv, Handover, Here, Tasks, TaskTypes
  <2>2. on[t] = current \/ queue[on[t]] = <<>>
    <3>1. CASE agent = "primary"
      BY <1>1, <2>1, <3>1 DEF RerunInv, Here
    <3>2. CASE agent # "primary"
      <4>1. on[t] = current \/ on[t] < current
        BY <1>0, <2>1 DEF Coders
      <4> QED BY <2>1, <3>2, <4>1 DEF RerunInv, Here
    <3> QED BY <3>1, <3>2
  <2> QED BY <1>1, <1>3, <2>1, <2>2, DequeueRerun
<1> QED BY <1>2, <1>3 DEF MessageEnds, Enter

\* /queue run drains; a prompt has been run.
LEMMA DrainRerun ==
  ASSUME RerunInv, TypeInv', Races = {}, NEW t \in Tasks, QueueRun(t) \/ \E outcome \in {"done", "failed"} : Done(t, outcome)
  PROVE  RerunStep
<1>0. TypeInv /\ TaskTypes /\ current \in Coders /\ fate \in [Prompts -> {"new", "waiting", "done", "failed", "removed", "lost"}]
  BY DEF RerunInv, LineInv, DrainInv, TypeInv, RestTypes
<1>1. CASE QueueRun(t)
  <2>1. /\ t \notin Own /\ ~Busy(t) /\ Dequeue(t, current, queue, active)
        /\ UNCHANGED <<agent, current, interrupt, fate, starts, accepted, stops>>
    BY <1>0, <1>1, PromptAssumption DEF QueueRun, Found, OneSwitch, TypeInv, Idle, Busy, history
  <2> QED BY <1>0, <2>1, DequeueRerun
<1>2. ASSUME NEW outcome \in {"done", "failed"}, Done(t, outcome) PROVE RerunStep
  <2>1. /\ Busy(t) /\ ~Idle(t) /\ Dequeue(t, on[t], queue, active) /\ fate' = [fate EXCEPT ![item[t]] = outcome]
        /\ UNCHANGED <<agent, current, interrupt, starts, accepted, stops>>
    BY <1>2 DEF Done, Busy, Idle
  <2>2. on[t] = current /\ item[t] \in Prompts
    BY <2>1, AtWork DEF RerunInv
  <2>3. fate'[item[t]] # "waiting" /\ \A p \in Prompts : fate'[p] = fate[p] \/ p = item[t]
    BY <1>0, <2>1, <2>2
  <2> QED BY <1>0, <2>1, <2>2, <2>3, DequeueRerun
<1> QED BY <1>1, <1>2

\* A rebuild is given up: nobody is at work, and what is in line was.
LEMMA GiveUpRerun ==
  ASSUME RerunInv, TypeInv', NEW t \in Switching, GiveUp(t),
         UNCHANGED <<agent, on, starts, accepted>>, stops <= stops'
  PROVE  RerunStep
<1>0. TypeInv /\ TaskTypes /\ CoderTypes /\ t \in Tasks /\ DrainInv /\ LineInv
  BY DEF RerunInv, LineInv, DrainInv, TypeInv, Switching
<1>1. /\ t \in Own /\ t \notin Foreign /\ ~Idle(t) /\ \A u \in Tasks : ~Busy(u)
      /\ Own \subseteq Tasks /\ Foreign \subseteq Tasks
  BY <1>0, SwitchAlone, PromptAssumption DEF Switching, Busy, Idle, Tasks
<1>2. pc'[t] = "idle" /\ \A u \in Tasks \ {t} : pc'[u] = pc[u]
  BY <1>0 DEF GiveUp, EndDrain, Leave, TaskTypes
<1>3. \A u \in Tasks : ~Busy(u)' BY <1>1, <1>2 DEF Busy
<1>4. current \in Int /\ current \in Coders /\ current + 1 # current /\ current + 1 \in Coders
      /\ \A d \in Coders : (d < current => d # current + 1) /\ (d < current + 1 => d < current \/ d = current)
  BY <1>0, SwitchingLine DEF Coders
<1>5. Unstarted' BY DEF RerunInv, Unstarted
<1>6. \A p \in Prompts : fate'[p] = "waiting" => fate[p] = "waiting"
  BY DEF GiveUp
<1>7. DueStep
  <2>1. \A p \in Prompts : ~Served(p) BY <1>1 DEF Served, Busy
  <2> QED BY <1>0, <1>6, <2>1, DueKept
<1>8. Here'
  <2>1. \A u \in Foreign : pc'[u] \in {"idle", "next", "running"}
    BY <1>1, <1>2 DEF RerunInv, Here
  <2>2. agent = "primary" => \A u \in Own : Idle(u)'
    BY <1>1, <1>2 DEF RerunInv, Here, Idle
  <2>3. agent # "primary" => \A d \in Coders : d < current' => queue'[d] = <<>>
    <3> SUFFICES ASSUME agent # "primary", NEW d \in Coders, d < current' PROVE queue'[d] = <<>>
      OBVIOUS
    <3>1. current' = current + 1 /\ queue' = [queue EXCEPT ![current] = <<>>] BY DEF GiveUp
    <3>2. d < current => queue[d] = <<>> BY DEF RerunInv, Here
    <3> QED BY <1>0, <1>4, <3>1, <3>2 DEF CoderTypes
  <2> QED BY <1>3, <2>1, <2>2, <2>3 DEF Here
<1>9. Waits'
  <2>1. ASSUME NEW p \in Prompts, Contains(queue'[current'], p)
        PROVE  Contains(queue[current], p) /\ fate'[p] = fate[p]
    <3>1. CASE agent = "primary"
      <4>1. queue'[current'] = queue[current] /\ fate' = fate
        BY <1>0, <1>4, <3>1 DEF GiveUp, CoderTypes
      <4> QED BY <2>1, <4>1
    <3>2. CASE agent # "primary"
      <4>1. current' = current + 1 /\ queue'[current + 1] = queue[current + 1]
        BY <1>0, <1>4, <3>2 DEF GiveUp, CoderTypes
      <4>2. pc[t] = "copied"
        <5>1. pc[t] # "creating"
          <6> SUFFICES ASSUME pc[t] = "creating" PROVE FALSE
            OBVIOUS
          <6>1. \A u \in Tasks : pc[u] # "copied" BY <1>0, SwitchingLine
          <6>2. queue[current + 1] = <<>> BY <1>4, <6>1 DEF RerunInv, LineInv, Handover
          <6> QED BY <2>1, <4>1, <6>2 DEF Contains
        <5> QED BY <5>1 DEF Switching
      <4>3. queue[current + 1] = queue[current] BY <1>0, <4>2 DEF LineInv, Handover
      <4>4. fate'[p] = fate[p] BY <3>2, <4>2 DEF GiveUp
      <4> QED BY <2>1, <4>1, <4>3, <4>4
    <3> QED BY <3>1, <3>2
  <2> QED BY <1>3, <2>1, WaitsKept DEF RerunInv
<1> QED BY <1>5, <1>7, <1>8, <1>9 DEF RerunStep

\* A drain ends with its prompt put back, by who was stopped.
LEMMA PauseRerun ==
  ASSUME RerunInv, TypeInv', NEW t \in Tasks, Unwind(t) \/ Interrupted(t)
  PROVE  RerunStep
<1>0. TypeInv /\ TaskTypes /\ CoderTypes /\ current \in Coders /\ stops \in Nat /\ accepted \in Nat
  BY DEF RerunInv, LineInv, DrainInv, TypeInv, RestTypes
<1>1. UNCHANGED <<agent, interrupt, starts, accepted, stops>> /\ stops <= stops'
  BY <1>0 DEF Unwind, Interrupted, history
<1>2. CASE pc[t] \notin {"idle", "next", "running"} /\ Leave(t) /\ UNCHANGED <<current, queue, on, fate>>
  BY <1>1, <1>2, LeaveRerun
<1>3. CASE Busy(t) /\ Pause(t) /\ (t \in cancelled \/ interrupt[on[t]]) /\ UNCHANGED <<current, fate>>
  <2>1. on[t] = current /\ active[current] = item[t] /\ item[t] \in Prompts /\ item[t] # Null
    BY <1>3, AtWork DEF RerunInv
  <2>2. PICK q \in Seq(Prompts) : q = queue[current]
    BY <1>0 DEF CoderTypes
  <2>3. queue' = [queue EXCEPT ![current] = <<item[t]>> \o q]
    BY <1>3, <2>1, <2>2 DEF Pause, Requeue
  <2>4. queue'[current] = Lined(item[t], q) /\ \A c \in Coders \ {current} : queue'[c] = queue[c]
    BY <1>0, <2>1, <2>3 DEF CoderTypes, Lined
  <2>5. pc'[t] = "idle" /\ on' = on /\ \A u \in Tasks \ {t} : pc'[u] = pc[u] /\ item'[u] = item[u] /\ (u \notin cancelled => u \notin cancelled')
    BY <1>0, <1>3 DEF Pause, Leave, TaskTypes
  <2>6. Here'
    <3>1. ~Busy(t)' /\ Idle(t)'
      BY <2>5 DEF Busy, Idle
    <3>2. \A c \in Coders : c < current /\ queue[c] = <<>> => queue'[c] = <<>>
      <4>1. ~(current < current)
        BY <1>0 DEF Coders
      <4> QED BY <2>4, <4>1
    <3> QED BY <1>1, <1>3, <2>5, <3>1, <3>2, HereKept DEF RerunInv
  <2>7. Waits'
    <3>1. \A p \in Prompts : Contains(queue'[current], p) => p = item[t] \/ Contains(queue[current], p)
      BY <2>1, <2>2, <2>4, LinedContains
    <3>2. \A u \in Tasks : Busy(u)' => Busy(u) /\ item'[u] = item[u]
      BY <2>5 DEF Busy
    <3> QED BY <1>1, <1>3, <3>1, <3>2, WaitsKept DEF RerunInv
  <2>8. Unstarted'
    BY <1>1 DEF RerunInv, Unstarted
  <2>9. DueStep
    <3>1. \A p \in Prompts : Served(p) => Served(p)'
      BY <1>1, <1>3, <2>5, ServedKept
    <3> QED BY <1>0, <1>1, <1>3, <3>1, DueKept
  <2> QED BY <2>6, <2>7, <2>8, <2>9 DEF RerunStep
<1>4. CASE t \in Switching /\ GiveUp(t) /\ UNCHANGED on
  BY <1>1, <1>4, GiveUpRerun
<1> QED BY <1>2, <1>3, <1>4 DEF Unwind, Interrupted, Busy, history

\* A prompt that asks for a new coder is done.
LEMMA SwitchRerun ==
  ASSUME RerunInv, TypeInv', Races = {}, NEW t \in Tasks, Switch(t) \/ SwitchRefused(t)
  PROVE  RerunStep
<1>0. /\ TypeInv /\ TaskTypes /\ stops \in Nat /\ fate \in [Prompts -> {"new", "waiting", "done", "failed", "removed", "lost"}]
      /\ Null \notin Prompts
  BY PromptAssumption DEF RerunInv, LineInv, DrainInv, TypeInv, RestTypes
<1>1. /\ pc[t] \in {"working", "running"} /\ on[t] = current
      /\ fate' = (IF item[t] = Null THEN fate ELSE [fate EXCEPT ![item[t]] = "done"])
      /\ UNCHANGED <<agent, current, queue, interrupt, on, starts, accepted>>
      /\ \A u \in Foreign : Idle(u)
  BY DEF Switch, SwitchRefused, Signals
<1>a. stops <= stops'
  BY <1>0 DEF Switch, SwitchRefused
<1>2. /\ pc'[t] \in {"creating", "idle"}
      /\ \A u \in Tasks \ {t} : pc'[u] = pc[u] /\ item'[u] = item[u] /\ (u \notin cancelled => u \notin cancelled')
  BY <1>0 DEF Switch, SwitchRefused, EndDrain, Leave, TaskTypes
<1>3. t \in Own /\ t \notin Foreign /\ ~Idle(t) /\ ~Busy(t)'
  BY <1>1, <1>2 DEF Idle, Busy, Tasks
<1>4. Here'
  BY <1>1, <1>2, <1>3, HereKept DEF RerunInv
<1>5. \A p \in Prompts : fate'[p] = IF p = item[t] THEN "done" ELSE fate[p]
  BY <1>0, <1>1
<1>6. ASSUME NEW p \in Prompts, Contains(queue[current], p) \/ \E u \in Tasks \ {t} : Busy(u) /\ item[u] = p
      PROVE  p # item[t]
  <2>1. CASE Busy(t)
    BY <1>6, <2>1, AtWork DEF RerunInv
  <2>2. CASE ~Busy(t)
    <3>1. item[t] = Null
      BY <1>0, <1>1, <2>2 DEF TaskTypes, Busy
    <3> QED BY <1>0, <3>1
  <2> QED BY <2>1, <2>2
<1>7. Waits'
  <2>1. \A p \in Prompts : (\E u \in Tasks : Busy(u)' /\ item'[u] = p) => \E u \in Tasks \ {t} : Busy(u) /\ item[u] = p
    BY <1>1, <1>2, <1>3 DEF Busy
  <2> QED BY <1>1, <1>5, <1>6, <2>1, WaitsKept DEF RerunInv
<1>8. Unstarted'
  BY <1>1 DEF RerunInv, Unstarted
<1>9. DueStep
  <2>1. ASSUME NEW p \in Prompts, fate'[p] = "waiting"
        PROVE  fate[p] = "waiting" /\ (Served(p) => Served(p)')
    <3>1. p # item[t] /\ fate[p] = "waiting"
      BY <1>5, <2>1
    <3>2. ASSUME Served(p) PROVE Served(p)'
      <4>1. PICK u \in Tasks : pc[u] = "running" /\ item[u] = p /\ u \notin cancelled /\ ~interrupt[on[u]]
        BY <3>2 DEF Served
      <4>2. u # t BY <3>1, <4>1
      <4> QED BY <1>1, <1>2, <4>1, <4>2 DEF Served
    <3> QED BY <3>1, <3>2
  <2> QED BY <1>0, <1>1, <1>a, <2>1, DueKept
<1> QED BY <1>4, <1>7, <1>8, <1>9 DEF RerunStep

\* The new coder gets a copy of the queue.
LEMMA CopyRerun ==
  ASSUME RerunInv, TypeInv', NEW t \in Tasks, Copy(t)
  PROVE  RerunStep
<1>0. TypeInv /\ TaskTypes /\ CoderTypes /\ current \in Coders /\ current \in Int /\ stops \in Nat /\ accepted \in Nat
  BY DEF RerunInv, LineInv, DrainInv, TypeInv, RestTypes, Coders
<1>1. /\ pc[t] = "creating" /\ pc' = [pc EXCEPT ![t] = "copied"]
      /\ queue' = [queue EXCEPT ![current + 1] = queue[current]]
      /\ UNCHANGED <<agent, current, interrupt, on, item, cancelled, fate, starts, accepted, stops>>
  BY DEF Copy, history
<1>2. pc'[t] = "copied" /\ \A u \in Tasks \ {t} : pc'[u] = pc[u]
  BY <1>0, <1>1 DEF TaskTypes
<1>3. t \in Own /\ t \notin Foreign /\ ~Idle(t) /\ ~Busy(t) /\ ~Busy(t)'
  BY <1>1, <1>2 DEF RerunInv, Here, Idle, Busy, Tasks
<1>4. queue'[current] = queue[current] /\ \A c \in Coders : c < current => queue'[c] = queue[c]
  <2>1. current # current + 1 /\ \A c \in Coders : c < current => c # current + 1
    BY <1>0 DEF Coders
  <2> QED BY <1>0, <1>1, <2>1 DEF CoderTypes
<1>5. agent = "primary" => on'[t] = current
  BY <1>1, <1>3 DEF RerunInv, Here
<1>6. accepted <= accepted' /\ stops <= stops'
  BY <1>0, <1>1
<1> QED BY <1>1, <1>2, <1>3, <1>4, <1>5, <1>6, QuietRerun

\* The new coder takes over.
LEMMA AdoptRerun ==
  ASSUME RerunInv, TypeInv', NEW t \in Tasks, AdoptPrimary(t) \/ AdoptSubAgent(t)
  PROVE  RerunStep
<1> DEFINE c == current + 1
<1>0. /\ TypeInv /\ TaskTypes /\ CoderTypes /\ current \in Coders /\ current \in Int /\ stops \in Nat /\ accepted \in Nat
      /\ pc[t] = "copied" /\ t \in Switching
  BY DEF RerunInv, LineInv, DrainInv, TypeInv, RestTypes, Coders, AdoptPrimary, AdoptSubAgent, Switching
<1>1. /\ t \in Own /\ t \notin Foreign /\ \A u \in Tasks \ {t} : ~Busy(u)
      /\ queue[c] = queue[current] /\ c \in Coders /\ c # current
  <2>1. c \in Coders /\ c # current
    BY <1>0, PromptAssumption DEF Coders, TypeInv, OneSwitch
  <2>2. t \in Own /\ t \notin Foreign /\ \A u \in Tasks \ {t} : ~Busy(u)
    BY <1>0, SwitchAlone, PromptAssumption DEF RerunInv, LineInv
  <2> QED BY <1>0, <2>1, <2>2 DEF RerunInv, LineInv, Handover
<1>2. UNCHANGED <<agent, interrupt, fate, starts, accepted>> /\ current' = c /\ stops <= stops'
  BY <1>0 DEF AdoptPrimary, AdoptSubAgent, coderVars, history
<1>3. DueStep
  <2>1. \A p \in Prompts : ~Served(p)
    BY <1>0, <1>1 DEF Served, Busy
  <2> QED BY <1>0, <1>2, <2>1, DueKept
<1>4. Unstarted'
  BY <1>2 DEF RerunInv, Unstarted
<1>5. \A u \in Foreign : pc[u] \in {"idle", "next", "running"}
  BY DEF RerunInv, Here
<1>6. Foreign \subseteq Tasks /\ Own \subseteq Tasks
  BY DEF Tasks
<1>7. CASE AdoptPrimary(t)
  <2>1. agent = "primary" /\ Leave(t) /\ UNCHANGED queue
    BY <1>7 DEF AdoptPrimary, coderVars
  <2>2. pc'[t] = "idle" /\ \A u \in Tasks \ {t} : pc'[u] = pc[u]
    BY <1>0, <2>1 DEF Leave, TaskTypes
  <2>3. \A u \in Tasks : ~Busy(u)'
    BY <1>1, <2>2 DEF Busy
  <2>4. \A u \in Own : Idle(u)'
    <3>1. \A u \in Own \ {t} : pc[u] = "idle"
      BY <1>0, <1>1, <2>1 DEF RerunInv, Here, Idle
    <3> QED BY <1>6, <2>2, <3>1 DEF Idle
  <2>5. Here'
    BY <1>2, <1>5, <1>6, <2>1, <2>2, <2>3, <2>4 DEF Here
  <2>6. Waits'
    BY <1>1, <1>2, <2>1, <2>3, WaitsKept DEF RerunInv
  <2> QED BY <1>3, <1>4, <2>5, <2>6 DEF RerunStep
<1>8. CASE AdoptSubAgent(t)
  <2>1. agent # "primary" /\ (Dequeue(t, c, Handed, Emptied) \/ (Leave(t) /\ queue' = Handed /\ active' = Emptied /\ on' = on))
    BY <1>8 DEF AdoptSubAgent, Handed, Emptied
  <2>2. Handed \in [Coders -> Seq(Prompts)] /\ Emptied \in [Coders -> Prompts \cup {Null}]
    BY <1>0, <1>8, AdoptSubAgentTypes
  <2>3. PICK q \in [Coders -> Seq(Prompts)], a \in [Coders -> Prompts \cup {Null}] :
          /\ Dequeue(t, c, q, a) \/ (Leave(t) /\ queue' = q /\ active' = a /\ on' = on)
          /\ \A d \in Coders : q[d] = IF d = current THEN <<>> ELSE queue[d]
    <3>1. \A d \in Coders : Handed[d] = IF d = current THEN <<>> ELSE queue[d]
      BY <1>0, <1>1 DEF Handed, CoderTypes
    <3> QED BY <2>1, <2>2, <3>1
  <2>4. PICK s \in Seq(Prompts) : s = queue[current] /\ s = q[c]
    BY <1>0, <1>1, <2>3 DEF CoderTypes
  <2>5. \A u \in Tasks \ {t} : pc'[u] = pc[u]
    BY <1>0, <2>3 DEF Dequeue, Leave, TaskTypes
  <2>6. /\ pc'[t] = "idle" \/ on'[t] = c
        /\ \A d \in Coders \ {c} : queue'[d] = q[d]
    BY <1>0, <1>1, <2>3 DEF Dequeue, Leave, TaskTypes
  <2>7. \/ queue'[c] = s /\ pc'[t] = "idle"
        \/ s # <<>> /\ queue'[c] = Tail(s) /\ pc'[t] = "next" /\ item'[t] = Head(s)
    BY <1>0, <1>1, <2>3, <2>4 DEF Dequeue, Leave, TaskTypes
  <2>8. Here'
    <3>1. \A u \in Tasks : Busy(u)' => on'[u] = c
      BY <1>1, <2>5, <2>6 DEF Busy
    <3>2. \A d \in Coders : d < c => queue'[d] = <<>>
      <4> SUFFICES ASSUME NEW d \in Coders, d < c PROVE queue'[d] = <<>>
        OBVIOUS
      <4>1. d = current \/ d < current
        BY <1>0 DEF Coders
      <4>2. d # c
        BY <1>0 DEF Coders
      <4>3. d < current => queue[d] = <<>>
        BY <2>1 DEF RerunInv, Here
      <4> QED BY <2>3, <2>6, <4>1, <4>2, <4>3
    <3> QED BY <1>1, <1>2, <1>5, <1>6, <2>1, <2>5, <3>1, <3>2 DEF Here
  <2>9. Waits'
    <3>1. ASSUME NEW p \in Prompts, Contains(queue'[c], p)
          PROVE  Contains(s, p)
      <4>1. CASE s # <<>> /\ queue'[c] = Tail(s)
        <5>1. Len(Tail(s)) = Len(s) - 1 /\ Len(s) \in Nat /\ \A i \in 1..(Len(s) - 1) : Tail(s)[i] = s[i + 1] /\ i + 1 \in 1..Len(s)
          BY <4>1
        <5> QED BY <3>1, <4>1, <5>1 DEF Contains
      <4>2. CASE queue'[c] = s
        BY <3>1, <4>2
      <4> QED BY <2>7, <4>1, <4>2
    <3>2. ASSUME NEW p \in Prompts, NEW u \in Tasks, Busy(u)', item'[u] = p
          PROVE  Contains(s, p)
      <4>1. u = t
        BY <1>1, <2>5, <3>2 DEF Busy
      <4>2. s # <<>> /\ p = Head(s)
        BY <2>7, <3>2, <4>1 DEF Busy
      <4>3. 1 \in 1..Len(s) /\ s[1] = p
        BY <4>2
      <4> QED BY <4>3 DEF Contains
    <3> QED BY <1>2, <2>4, <3>1, <3>2, WaitsKept DEF RerunInv
  <2> QED BY <1>3, <1>4, <2>8, <2>9 DEF RerunStep
<1> QED BY <1>7, <1>8

\* What follows a sequence holds what was there, or what is new.
LEMMA FollowsFrom ==
  ASSUME NEW n, NEW m, NEW s \in Seq(Nat), NEW r \in Seq(Nat), Follows(s, r, n, m),
         NEW p, Contains(r, p)
  PROVE  Contains(s, p) \/ p \in n+1..m
<1>1. PICK at \in [DOMAIN r -> 0..Len(s)] :
        \A k \in DOMAIN r : IF at[k] = 0 THEN r[k] \in n+1..m ELSE r[k] = s[at[k]]
  BY DEF Follows
<1>2. PICK k \in DOMAIN r : r[k] = p
  BY DEF Contains
<1>3. at[k] = 0 \/ at[k] \in 1..Len(s)
  BY <1>1
<1> QED BY <1>1, <1>2, <1>3 DEF Contains

\* What was removed from a sequence of different prompts is not in it any more.
LEMMA RemovedOnce ==
  ASSUME NEW s \in Seq(Nat), NEW i \in DOMAIN s, \A j, k \in DOMAIN s : s[j] = s[k] => j = k
  PROVE  ~Contains(RemoveAt(s, i), s[i])
<1>1. PICK n \in Nat : n = Len(s) /\ DOMAIN s = 1..n
  OBVIOUS
<1>2. PICK u, v : u = SubSeq(s, 1, i - 1) /\ v = SubSeq(s, i + 1, n)
  OBVIOUS
<1>3. u \in Seq(Nat) /\ Len(u) = i - 1 /\ \A k \in 1..(i - 1) : u[k] = s[k]
  BY <1>1, <1>2
<1>4. v \in Seq(Nat) /\ Len(v) = n - i /\ \A k \in 1..(n - i) : v[k] = s[i + k]
  BY <1>1, <1>2
<1>5. PICK r : r = RemoveAt(s, i)
  OBVIOUS
<1>6. r = u \o v
  BY <1>1, <1>2, <1>5 DEF RemoveAt
<1>7. r \in Seq(Nat) /\ Len(r) = n - 1 /\ n - 1 \in Nat
  BY <1>1, <1>3, <1>4, <1>6
<1>a. PICK a \in Nat, b \in Nat : a = Len(u) /\ b = Len(v) /\ a = i - 1 /\ b = n - i
  BY <1>1, <1>3, <1>4
<1>b. /\ \A k \in 1..Len(u) : r[k] = u[k]
      /\ \A k \in Len(u) + 1 .. Len(u) + Len(v) : r[k] = v[k - Len(u)]
  <2>1. u \in Seq(Nat)
    BY <1>3
  <2>2. v \in Seq(Nat)
    BY <1>4
  <2>3. /\ DOMAIN (u \o v) = 1..(Len(u) + Len(v))
        /\ \A k \in 1..Len(u) : (u \o v)[k] = u[k]
        /\ \A k \in Len(u) + 1 .. Len(u) + Len(v) : (u \o v)[k] = v[k - Len(u)]
    BY <2>1, <2>2, ConcatPlaces, Zenon
  <2> QED BY <1>6, <2>3, Zenon
<1>8. ASSUME NEW k \in 1..(n - 1) PROVE r[k] # s[i]
  <2>1. CASE k < i
    <3>1. k \in 1..(i - 1) /\ k \in 1..n /\ k # i
      BY <1>1, <2>1
    <3>2. r[k] = s[k]
      BY <1>3, <1>b, <3>1
    <3> QED BY <1>1, <3>1, <3>2
  <2>2. CASE ~(k < i)
    <3>1. k - (i - 1) \in 1..(n - i) /\ i + (k - (i - 1)) = k + 1 /\ k + 1 \in 1..n /\ k + 1 # i
      BY <1>1, <2>2
    <3>2. r[k] = v[k - (i - 1)]
      <4>1. k \in Len(u) + 1 .. Len(u) + Len(v) /\ Len(u) = i - 1
        BY <1>1, <1>3, <1>4, <2>2
      <4> QED BY <1>b, <4>1
    <3>3. r[k] = s[k + 1]
      BY <1>4, <3>1, <3>2
    <3> QED BY <1>1, <3>1, <3>3
  <2> QED BY <2>1, <2>2
<1> QED BY <1>5, <1>7, <1>8 DEF Contains

\* The queue is edited; no task moves.
LEMMA EditedRerun ==
  ASSUME RerunInv, TypeInv', UNCHANGED <<agent, current, pc, on, item, cancelled, interrupt, starts, stops>>,
         \A c \in Coders : c < current => queue'[c] = queue[c],
         accepted <= accepted',
         \A p \in Prompts : Contains(queue'[current], p) => fate'[p] = "waiting",
         \A p \in Prompts : fate'[p] = "waiting" => fate[p] = "waiting" \/ starts[p] = 0,
         \A p \in Prompts : (\E t \in Tasks : Busy(t) /\ item[t] = p) => fate'[p] = fate[p]
  PROVE  RerunStep
<1>1. Here'
  BY DEF RerunInv, Here, Busy, Idle
<1>2. Waits'
  BY WaitsKept DEF RerunInv, Busy
<1>3. Unstarted'
  <2> SUFFICES ASSUME NEW p \in Prompts, p > accepted' PROVE starts[p] = 0
    BY DEF Unstarted
  <2>1. p > accepted
    BY DEF Prompts, RerunInv, LineInv, DrainInv, TypeInv, RestTypes
  <2> QED BY <2>1 DEF RerunInv, Unstarted
<1>4. DueStep
  <2>1. \A p \in Prompts : Served(p) => Served(p)'
    BY DEF Served
  <2>2. stops <= stops'
    BY DEF RerunInv, LineInv, DrainInv, TypeInv, RestTypes
  <2>3. \A p \in Prompts : starts[p] >= 1 => starts[p] # 0
    OBVIOUS
  <2> QED BY <2>1, <2>2, <2>3, DueKept DEF RerunInv, LineInv, DrainInv
<1> QED BY <1>1, <1>2, <1>3, <1>4 DEF RerunStep

\* Adding, removing and clearing.
LEMMA AddRerun ==
  ASSUME RerunInv, TypeInv', NEW p \in Producers, Add(p)
  PROVE  RerunStep
<1> DEFINE i == (IF producer[p].place < Len(queue[current]) THEN producer[p].place ELSE Len(queue[current])) + 1
           r == InsertAt(queue[current], i, accepted + 1)
<1>0. /\ TypeInv /\ CoderTypes /\ current \in Coders /\ accepted \in Nat /\ queue[current] \in Seq(Nat) /\ queue[current] \in Seq(Prompts)
      /\ fate \in [Prompts -> {"new", "waiting", "done", "failed", "removed", "lost"}]
  BY LineSeq DEF RerunInv, LineInv, DrainInv, TypeInv, RestTypes
<1>1. /\ producer[p] # Null /\ producer[p].coder = current /\ producer[p].place \in Nat
      /\ accepted' = accepted + 1 /\ fate' = [fate EXCEPT ![accepted + 1] = "waiting"]
      /\ UNCHANGED <<agent, current, pc, on, item, cancelled, interrupt, starts, stops>>
  BY DEF Add, taskVars, RerunInv, LineInv, ProducersHere, DrainInv, TypeInv, RestTypes
<1>2. queue' = [queue EXCEPT ![current] = r]
  BY <1>1 DEF Add
<1>3. i \in 1..(Len(queue[current]) + 1)
  BY <1>0, <1>1
<1> HIDE DEF i
<1>4. Follows(queue[current], r, accepted, accepted + 1)
  BY <1>0, <1>3, FollowsInsertion
<1>5. r \in Seq(Nat)
  <2>1. accepted + 1 \in Nat
    BY <1>0
  <2> QED BY <1>0, <1>3, <2>1, InsertAtSeq, Zenon
<1> HIDE DEF r
<1>6. \A u \in Prompts : fate'[u] = IF u = accepted + 1 THEN "waiting" ELSE fate[u]
  BY <1>0, <1>1
<1>7. \A u \in Prompts : Contains(queue'[current], u) => fate'[u] = "waiting"
  <2> SUFFICES ASSUME NEW u \in Prompts, Contains(queue'[current], u) PROVE fate'[u] = "waiting"
    OBVIOUS
  <2>1. Contains(r, u)
    BY <1>0, <1>2 DEF CoderTypes
  <2>2. Contains(queue[current], u) \/ u \in accepted + 1 .. accepted + 1
    BY <1>0, <1>4, <1>5, <2>1, FollowsFrom
  <2>3. Contains(queue[current], u) \/ u = accepted + 1
    BY <1>0, <2>2
  <2> QED BY <1>6, <2>3 DEF RerunInv, Waits
<1>8. \A u \in Prompts : u = accepted + 1 => starts[u] = 0
  BY <1>0 DEF RerunInv, Unstarted
<1>9. \A u \in Prompts : (\E t \in Tasks : Busy(t) /\ item[t] = u) => fate'[u] = fate[u]
  <2> SUFFICES ASSUME NEW t \in Tasks, Busy(t), item[t] \in Prompts PROVE item[t] # accepted + 1
    BY <1>6
  <2>1. item[t] <= accepted
    BY AtWork DEF RerunInv
  <2> QED BY <1>0, <2>1
<1>10. (\A c \in Coders : c < current => queue'[c] = queue[c]) /\ accepted <= accepted'
  <2>1. ~(current < current) /\ accepted <= accepted + 1
    BY <1>0 DEF Coders
  <2> QED BY <1>0, <1>1, <1>2, <2>1 DEF CoderTypes
<1>11. \A u \in Prompts : fate'[u] = "waiting" => fate[u] = "waiting" \/ starts[u] = 0
  BY <1>6, <1>8
<1> QED BY <1>1, <1>7, <1>9, <1>10, <1>11, EditedRerun

LEMMA EditRerun ==
  ASSUME RerunInv, TypeInv', ~HandingOver, Clear \/ \E i \in 1..MaxPrompts : RemoveFrom(i)
  PROVE  RerunStep
<1>0. /\ TypeInv /\ CoderTypes /\ current \in Coders /\ accepted \in Nat /\ queue[current] \in Seq(Nat) /\ queue[current] \in Seq(Prompts)
      /\ fate \in [Prompts -> {"new", "waiting", "done", "failed", "removed", "lost"}]
  BY LineSeq DEF RerunInv, LineInv, DrainInv, TypeInv, RestTypes
<1>1. UNCHANGED <<agent, current, pc, on, item, cancelled, interrupt, starts, stops, accepted>> /\ known = current
  BY <1>0, KnownHere DEF Clear, RemoveFrom, taskVars
<1>2. PICK r : queue' = [queue EXCEPT ![current] = r] /\ \A p \in Prompts :
                 /\ Contains(r, p) => Contains(queue[current], p) /\ fate'[p] = fate[p]
                 /\ ~Contains(queue[current], p) => fate'[p] = fate[p]
                 /\ fate'[p] = fate[p] \/ fate'[p] = "removed"
  <2>1. CASE Clear
    <3>1. /\ queue' = [queue EXCEPT ![current] = <<>>]
          /\ fate' = [p \in Prompts |-> IF p \in ToSet(queue[current]) THEN "removed" ELSE fate[p]]
      BY <1>1, <2>1 DEF Clear, Dropped
    <3>2. \A p : p \in ToSet(queue[current]) => Contains(queue[current], p)
      BY <1>0 DEF ToSet, Contains
    <3>3. \A p : ~Contains(<<>>, p)
      BY DEF Contains
    <3> QED BY <3>1, <3>2, <3>3
  <2>2. ASSUME NEW i \in 1..MaxPrompts, RemoveFrom(i)
        PROVE  \E r : queue' = [queue EXCEPT ![current] = r] /\ \A p \in Prompts :
                 /\ Contains(r, p) => Contains(queue[current], p) /\ fate'[p] = fate[p]
                 /\ ~Contains(queue[current], p) => fate'[p] = fate[p]
                 /\ fate'[p] = fate[p] \/ fate'[p] = "removed"
    <3>1. /\ i \in DOMAIN queue[current] /\ queue' = [queue EXCEPT ![current] = RemoveAt(queue[current], i)]
          /\ fate' = [fate EXCEPT ![queue[current][i]] = "removed"]
      BY <1>1, <2>2 DEF RemoveFrom
    <3>2. PICK s \in Seq(Nat) : s = queue[current]
      BY <1>0
    <3>3. PICK r : r = RemoveAt(s, i)
      OBVIOUS
    <3>4. r \in Seq(Nat) /\ Follows(s, r, 0, 0)
      BY <3>1, <3>2, <3>3, RemoveAtSeq, FollowsRemoval
    <3>5. \A j, k \in DOMAIN s : s[j] = s[k] => j = k
      BY <3>2, QueuedOnce DEF RerunInv
    <3>6. ~Contains(r, s[i])
      BY <3>1, <3>2, <3>3, <3>5, RemovedOnce
    <3>7. ASSUME NEW p \in Prompts, Contains(r, p)
          PROVE  Contains(s, p)
      <4>1. Contains(s, p) \/ p \in 0+1..0
        BY <3>4, <3>7, FollowsFrom
      <4> QED BY <4>1
    <3>8. \A p \in Prompts : fate'[p] = IF p = s[i] THEN "removed" ELSE fate[p]
      BY <1>0, <3>1, <3>2
    <3>9. Contains(s, s[i])
      <4>1. i \in 1..Len(s)
        BY <3>1, <3>2
      <4> QED BY <4>1 DEF Contains
    <3>10. \A p \in Prompts : Contains(r, p) => p # s[i]
      BY <3>6
    <3>11. \A p \in Prompts : ~Contains(s, p) => p # s[i]
      BY <3>9
    <3> QED BY <3>1, <3>2, <3>3, <3>7, <3>8, <3>10, <3>11
  <2> QED BY <2>1, <2>2
<1>3. queue'[current] = r /\ \A c \in Coders : c < current => queue'[c] = queue[c]
  <2>1. ~(current < current)
    BY <1>0 DEF Coders
  <2> QED BY <1>0, <1>2, <2>1 DEF CoderTypes
<1>4. \A p \in Prompts : Contains(queue'[current], p) => fate'[p] = "waiting"
  BY <1>2, <1>3 DEF RerunInv, Waits
<1>5. \A p \in Prompts : (\E t \in Tasks : Busy(t) /\ item[t] = p) => fate'[p] = fate[p]
  BY <1>2, AtWork DEF RerunInv
<1>6. \A p \in Prompts : fate'[p] = "waiting" => fate[p] = "waiting"
  BY <1>2
<1>7. accepted <= accepted'
  BY <1>0, <1>1
<1> QED BY <1>1, <1>3, <1>4, <1>5, <1>6, <1>7, EditedRerun

\* A run of a workflow finds nobody at work.
LEMMA RunWorkflowRerun ==
  ASSUME RerunInv, TypeInv', Races = {}, NEW t \in Own, NEW k \in Kinds, NEW n \in 1..MaxPrompts, RunWorkflow(t, k, n)
  PROVE  RerunStep
<1>0. /\ TypeInv /\ CoderTypes /\ TaskTypes /\ current \in Coders /\ accepted \in Nat /\ n \in Nat /\ stops \in Nat
      /\ t \in Tasks /\ t \notin Foreign
  BY PromptAssumption DEF RerunInv, LineInv, DrainInv, TypeInv, RestTypes, Tasks
<1>1. /\ \A u \in Tasks : pc[u] = "idle"
      /\ agent = "worker"
      /\ queue' = [queue EXCEPT ![current] = [i \in 1..n |-> accepted + i]]
      /\ fate' = [p \in Prompts |-> IF p \in accepted + 1 .. accepted + n THEN "waiting"
                                    ELSE Dropped(ToSet(Line(current)))[p]]
      /\ accepted' = accepted + n
      /\ pc' = [pc EXCEPT ![t] = "opening"] /\ on' = [on EXCEPT ![t] = current]
      /\ UNCHANGED <<agent, current, interrupt, item, starts, stops>>
  <2>1. \A u \in Tasks : pc[u] = "idle" BY DEF RunWorkflow, Idle, Tasks
  <2>2. known = current BY <1>0, <2>1 DEF TypeInv, OneSwitch, Switching
  <2> QED BY <2>1, <2>2 DEF RunWorkflow
<1>2. \A u \in Tasks : pc'[u] = IF u = t THEN "opening" ELSE "idle"
  BY <1>0, <1>1 DEF TaskTypes
<1>3. \A u \in Tasks : ~Busy(u) /\ ~Busy(u)'
  BY <1>1, <1>2 DEF Busy
<1>4. (\A c \in Coders : c < current => queue'[c] = queue[c]) /\ queue'[current] = [i \in 1..n |-> accepted + i]
  <2>1. ~(current < current)
    BY <1>0 DEF Coders
  <2> QED BY <1>0, <1>1, <2>1 DEF CoderTypes
<1>5. Here'
  <2>1. \A u \in Foreign : pc'[u] = "idle"
    BY <1>0, <1>2 DEF Tasks
  <2> QED BY <1>1, <1>3, <1>4, <2>1 DEF RerunInv, Here
<1>6. Waits'
  <2>1. ASSUME NEW p \in Prompts, Contains(queue'[current], p)
        PROVE  fate'[p] = "waiting"
    <3>1. PICK i \in 1..n : p = accepted + i
      BY <1>0, <1>4, <2>1 DEF Contains
    <3>2. p \in accepted + 1 .. accepted + n
      BY <1>0, <3>1
    <3> QED BY <1>1, <3>2
  <2> QED BY <1>1, <1>3, <2>1, WaitsKept DEF RerunInv
<1>7. Unstarted'
  <2> SUFFICES ASSUME NEW p \in Prompts, p > accepted' PROVE starts[p] = 0
    BY <1>1 DEF Unstarted
  <2>1. p > accepted
    BY <1>0, <1>1 DEF Prompts
  <2> QED BY <2>1 DEF RerunInv, Unstarted
<1>8. DueStep
  <2>1. \A p \in Prompts : ~Served(p)
    BY <1>3 DEF Served, Busy
  <2>2. ASSUME NEW p \in Prompts, starts[p] >= 1, fate'[p] = "waiting"
        PROVE  fate[p] = "waiting"
    <3>1. p \notin accepted + 1 .. accepted + n
      <4> SUFFICES ASSUME p > accepted PROVE FALSE
        BY <1>0
      <4> QED BY <2>2 DEF RerunInv, Unstarted
    <3> QED BY <1>1, <2>2, <3>1 DEF Dropped
  <2>3. stops <= stops'
    BY <1>0, <1>1
  <2> QED BY <1>0, <1>1, <2>1, <2>2, <2>3, DueKept
<1> QED BY <1>5, <1>6, <1>7, <1>8 DEF RerunStep

\* Every step.
LEMMA NextRerun ==
  ASSUME Races = {}, RerunInv, TypeInv', [Next]_vars
  PROVE  RerunStep
<1>0. TypeInv /\ stops \in Nat
  BY DEF RerunInv, LineInv, DrainInv, TypeInv, RestTypes
<1>1. ASSUME UNCHANGED vars \/ \E p \in Producers, place \in 0..MaxPrompts : Check(p, place)
      PROVE  RerunStep
  <2>1. UNCHANGED <<agent, current, queue, pc, on, item, cancelled, interrupt, fate, starts, accepted, stops>>
    BY <1>1 DEF vars, coderVars, taskVars, history, Check
  <2>2. (\A p \in Prompts : Served(p) => Served(p)') /\ stops <= stops'
    BY <1>0, <2>1 DEF Served
  <2> QED BY <1>0, <2>1, <2>2, DueKept, StillRerun
<1>2. ASSUME NEW t \in Tasks,
             \/ Task(t) \/ Swallow(t) \/ MessageFails(t) \/ QueueRun(t) \/ Cancel(t)
             \/ SwitchRefused(t) \/ SwitchFails(t)
      PROVE  RerunStep
  <2>1. CASE Task(t)
    BY <2>1, MessageRerun, MessageEndsRerun, StartRerun, PauseRerun, DrainRerun, SwitchRerun, CopyRerun, AdoptRerun DEF Task
  <2>2. CASE SwitchFails(t)
    <3>1. stops <= stops' BY <1>0, <2>2 DEF SwitchFails
    <3> QED BY <2>2, <3>1, GiveUpRerun DEF SwitchFails
  <2> QED BY <1>2, <2>1, <2>2, MessageRerun, StopRerun, DrainRerun, SwitchRerun
<1>3. ASSUME NEW t \in Own, NEW k \in Kinds, Begin(t, k) \/ \E n \in 1..MaxPrompts : RunWorkflow(t, k, n)
      PROVE  RerunStep
  BY <1>3, BeginRerun, RunWorkflowRerun
<1>4. CASE Interrupt
  BY <1>4, StopRerun
<1>5. CASE Loop
  BY <1>2, <1>3, <1>4, <1>5 DEF Loop
<1>6. ASSUME NEW p \in Producers, Add(p) PROVE RerunStep
  BY <1>6, AddRerun
<1>7. CASE Edit /\ ~HandingOver
  BY <1>1, <1>7, EditRerun DEF Edit
<1> QED BY <1>1, <1>5, <1>6, <1>7 DEF Next

\* At the start nothing has been started.
LEMMA InitRerun == Init => RerunInv
<1> SUFFICES ASSUME Init PROVE RerunInv
  OBVIOUS
<1>1. LineInv
  BY InitLine
<1>2. \A t \in Tasks : pc[t] = "idle"
  BY DEF Init
<1>3. current = 1 /\ current \in Coders /\ queue[current] = <<>> /\ \A c \in Coders : queue[c] = <<>>
  BY <1>1 DEF Init, LineInv, DrainInv, TypeInv, RestTypes
<1>4. Here
  BY <1>2, <1>3 DEF Here, Busy, Idle, Tasks
<1>5. Waits /\ Unstarted
  BY <1>2, <1>3 DEF Waits, Busy, Contains, Init, Unstarted
<1>6. Repeated(due) = {}
  <2>1. \A p \in Prompts : due[p] = 1
    BY DEF Init, due, Owed
  <2> QED BY <2>1 DEF Repeated
<1>7. IsFiniteSet(Repeated(due)) /\ Cardinality(Repeated(due)) <= stops
  BY <1>6, FS_EmptySet DEF Init
<1> QED BY <1>1, <1>4, <1>5, <1>7 DEF RerunInv

\* None of the races of RaceNames meeting, a prompt is run again only after an
\* interruption, a cancellation or a failure: there are never more repeated
\* starts than there were stops, over requeues, handovers and resets.
THEOREM RerunsNeedStops ==
  ASSUME Races = {}
  PROVE  Spec => []RerunsAreInterruptions
<1>1. LineInv /\ RerunInv /\ [Next]_vars => RerunInv' /\ LineInv'
  <2> SUFFICES ASSUME LineInv, RerunInv, [Next]_vars PROVE RerunInv' /\ LineInv'
    OBVIOUS
  <2>1. DrainInv' /\ TypeInv'
    BY NextDrain, NextTypes DEF LineInv, DrainInv, OneAtATime
  <2>2. AheadInv'
    BY <2>1, NextAhead DEF LineInv, DrainInv, Apart
  <2>3. LineInv'
    BY <2>1, <2>2, NextLine, LineKept
  <2> QED BY <2>1, <2>3, NextRerun, RerunKept
<1>2. RerunInv => RerunsAreInterruptions
  <2> SUFFICES ASSUME RerunInv PROVE RerunsAreInterruptions
    OBVIOUS
  <2>1. starts \in [Prompts -> Nat] /\ stops \in Nat
    BY DEF RerunInv, LineInv, DrainInv, TypeInv, RestTypes
  <2>2. \A p \in Prompts : starts[p] <= due[p]
    <3> SUFFICES ASSUME NEW p \in Prompts PROVE starts[p] <= due[p]
      OBVIOUS
    <3>1. PICK n \in Nat : n = starts[p]
      BY <2>1
    <3> QED BY <3>1 DEF due
  <2>3. PICK f \in [Prompts -> Nat] : f = due
    BY <2>1, DueType
  <2>4. IsFiniteSet(Repeated(starts)) /\ Cardinality(Repeated(starts)) <= Cardinality(Repeated(f))
    BY <2>1, <2>2, <2>3, RepeatedKept DEF RerunInv
  <2>5. Cardinality(Repeated(starts)) \in Nat /\ Cardinality(Repeated(f)) \in Nat /\ Cardinality(Repeated(f)) <= stops
    BY <2>3, <2>4, FS_CardinalityType DEF RerunInv
  <2> QED BY <2>1, <2>4, <2>5 DEF RerunsAreInterruptions
<1> QED BY <1>1, <1>2, InitRerun, InitLine, PTL DEF Spec
=============================================================================
