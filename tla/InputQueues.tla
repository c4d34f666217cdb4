---------------------------- MODULE InputQueues ----------------------------
(***************************************************************************)
(* How input reaches the coders of a session with the terminal interface:  *)
(* the per-coder queues of src/cecli/helpers/queues.py, the two readers of *)
(* src/cecli/tui/io.py (get_input, confirm_ask), and the routing of        *)
(* IOProxy.get_input.                                                      *)
(*                                                                         *)
(* Producers are other threads (Textual, WebSocket, ACP): they put a       *)
(* payload on a coder's queue and then schedule the set of the wake event  *)
(* on the worker loop.  Readers are coroutines of that loop.  The loop     *)
(* runs what is in its ready queue one by one, in order, but a producer    *)
(* may act between any two queue operations of a reader.                   *)
(***************************************************************************)
EXTENDS Integers, SequencesExt

CONSTANTS
  Coders,       \* the coders of the session; all have a registered queue
  Primary,      \* the one whose run() waits in get_input
  Registry,     \* the order in which they registered their queues
  Askers,       \* the coders that may call confirm_ask
  Producers,    \* the threads that push
  Set,          \* the wake event's scheduled set(), in the loop's ready queue
  MaxTexts,     \* bound: texts pushed
  MaxQuestions  \* bound: questions asked

ASSUME InputAssumption ==
  /\ Primary \in Coders
  /\ Set \notin Coders
  /\ Registry \in Seq(Coders) /\ ToSet(Registry) = Coders
  /\ Askers \subseteq Coders
  /\ MaxTexts \in Nat /\ MaxQuestions \in Nat

VARIABLES
  queue,      \* the payloads in each coder's queue
  activity,   \* what each coder's task is at
  ready,      \* the ready queue of the worker loop: coders' readers and Sets
  parked,     \* the readers in wait_for_input, in the order they came
  rest,       \* the queues a scheduled reader has yet to look at
  producer,   \* a producer that has put its payload has still to wake
  questions,  \* the coders whose question the user has still to answer
  texts, asked  \* how many there have been

vars == <<queue, activity, ready, parked, rest, producer, questions, texts, asked>>

Payloads == {"text", "confirmed"}
Activities == {"idle", "busy", "routing", "input", "asking"}

\* Where a coder's reader stands.
Scheduled(c) ==
  {<<"ready", i>> : i \in {k \in DOMAIN ready : ready[k] = c}}
    \cup {<<"parked", i>> : i \in {k \in DOMAIN parked : parked[k] = c}}

\* A coder that reads has one reader, which is scheduled or parked.
InputTypeOK ==
  /\ queue \in [Coders -> Seq(Payloads)]
  /\ activity \in [Coders -> Activities]
  /\ ready \in Seq(Coders \cup {Set})
  /\ parked \in Seq(Coders)
  /\ rest \in [Coders -> Seq(Coders)]
  /\ producer \in [Producers -> {"idle", "put"}]
  /\ questions \in Seq(Coders)
  /\ texts \in 0..MaxTexts
  /\ asked \in 0..MaxQuestions
  /\ \A c \in Coders : Cardinality(Scheduled(c)) = IF activity[c] \in {"input", "asking"} THEN 1 ELSE 0

\* The worker has bound its loop and the primary enters get_input.
Init ==
  /\ queue = [c \in Coders |-> <<>>]
  /\ activity = [c \in Coders |-> IF c = Primary THEN "input" ELSE "idle"]
  /\ ready = <<Primary>>
  /\ parked = <<>>
  /\ rest = [c \in Coders |-> Registry]
  /\ producer = [p \in Producers |-> "idle"]
  /\ questions = <<>>
  /\ texts = 0
  /\ asked = 0

-----------------------------------------------------------------------------
(* Producers.                                                              *)

\* Broken variant of Put: nobody is woken.
PutWithoutWake(p, c, payload) ==
  /\ producer[p] = "idle"
  /\ queue' = [queue EXCEPT ![c] = Append(@, payload)]
  /\ UNCHANGED producer

\* push_coder_input up to its wake_input_waiters call.
Put(p, c, payload) ==
  /\ producer[p] = "idle"
  /\ queue' = [queue EXCEPT ![c] = Append(@, payload)]
  /\ producer' = [producer EXCEPT ![p] = "put"]

\* The user, or a WebSocket or ACP client, sends a text to a coder.
PushText(p, c) ==
  /\ texts < MaxTexts
  /\ Put(p, c, "text")
  /\ texts' = texts + 1
  /\ UNCHANGED <<activity, ready, parked, rest, questions, asked>>

\* The user answers the question on display; the next one is shown.
Answer(p) ==
  /\ questions # <<>>
  /\ Put(p, Head(questions), "confirmed")
  /\ questions' = Tail(questions)
  /\ UNCHANGED <<activity, ready, parked, rest, texts, asked>>

\* wake_input_waiters: call_soon_threadsafe(_input_wake.set).
Wake(p) ==
  /\ producer[p] = "put"
  /\ producer' = [producer EXCEPT ![p] = "idle"]
  /\ ready' = Append(ready, Set)
  /\ UNCHANGED <<queue, activity, parked, rest, questions, texts, asked>>

-----------------------------------------------------------------------------
(* The worker loop.                                                        *)

\* The event is set: whoever waits for it becomes ready, first come first.
RunSet ==
  /\ ready # <<>> /\ Head(ready) = Set
  /\ ready' = Tail(ready) \o parked
  /\ parked' = <<>>
  /\ UNCHANGED <<queue, activity, rest, producer, questions, texts, asked>>

Reading(c) == ready # <<>> /\ Head(ready) = c

\* Broken variant of Sweep: a reader looks at its own queue only.
SweepOwn(c) == <<c>>

\* Every reader looks at the queues of all coders.
Sweep(c) == Registry

Wanted(c) == IF activity[c] = "input" THEN "text" ELSE "confirmed"

\* The queue the reader looks at is empty, or holds first a payload with
\* another key: that one is taken all the same, and dropped.
Pass(c) ==
  /\ Reading(c)
  /\ rest[c] # <<>>
  /\ LET q == Head(rest[c])
     IN  \/ queue[q] = <<>> /\ UNCHANGED queue
         \/ /\ queue[q] # <<>>
            /\ Head(queue[q]) # Wanted(c)
            /\ queue' = [queue EXCEPT ![q] = Tail(@)]
  /\ rest' = [rest EXCEPT ![c] = Tail(@)]
  /\ UNCHANGED <<activity, ready, parked, producer, questions, texts, asked>>

Take(c, q) ==
  /\ Reading(c)
  /\ rest[c] # <<>> /\ q = Head(rest[c])
  /\ queue[q] # <<>> /\ Head(queue[q]) = Wanted(c)
  /\ queue' = [queue EXCEPT ![q] = Tail(@)]
  /\ rest' = [rest EXCEPT ![c] = Sweep(c)]

\* confirm_ask returns; so does get_input with a text for the primary.
Return(c, q) ==
  /\ Take(c, q)
  /\ activity[c] = "asking" \/ q = Primary
  /\ activity' = [activity EXCEPT ![c] = "busy"]
  /\ ready' = Tail(ready)
  /\ UNCHANGED <<parked, producer, questions, texts, asked>>

Without(seq, c) ==
  IF Contains(seq, c) THEN RemoveAt(seq, CHOOSE i \in DOMAIN seq : seq[i] = c) ELSE seq

\* IOProxy.get_input: a text for a sub-agent starts it (start_generate_task,
\* which cancels what it was doing, a confirm_ask too); the primary loops.
Route(q) ==
  /\ Take(Primary, q)
  /\ activity[Primary] = "input" /\ q # Primary
  /\ activity' = [activity EXCEPT ![Primary] = "routing", ![q] = "busy"]
  /\ ready' = Without(Tail(ready), q)
  /\ parked' = Without(parked, q)
  /\ UNCHANGED <<producer, questions, texts, asked>>

\* Broken variant of Park: the next wake does not sweep again.
ParkForGood(c) ==
  /\ Reading(c)
  /\ rest[c] = <<>>
  /\ ready' = Tail(ready)
  /\ parked' = Append(parked, c)
  /\ UNCHANGED <<queue, activity, rest, producer, questions, texts, asked>>

\* wait_for_input: the event is cleared and awaited, in one go of the loop.
Park(c) ==
  /\ Reading(c)
  /\ rest[c] = <<>>
  /\ ready' = Tail(ready)
  /\ parked' = Append(parked, c)
  /\ rest' = [rest EXCEPT ![c] = Sweep(c)]
  /\ UNCHANGED <<queue, activity, producer, questions, texts, asked>>

-----------------------------------------------------------------------------
(* The coders.                                                             *)

\* Broken variant of Listen: also while a reader waits.
ListenAgain ==
  /\ activity' = [activity EXCEPT ![Primary] = "input"]
  /\ ready' = Append(ready, Primary)
  /\ rest' = [rest EXCEPT ![Primary] = Sweep(Primary)]
  /\ UNCHANGED <<queue, parked, producer, questions, texts, asked>>

\* run() and the routing loop call get_input again.
Listen ==
  /\ activity[Primary] \in {"busy", "routing"}
  /\ activity' = [activity EXCEPT ![Primary] = "input"]
  /\ ready' = Append(ready, Primary)
  /\ rest' = [rest EXCEPT ![Primary] = Sweep(Primary)]
  /\ UNCHANGED <<queue, parked, producer, questions, texts, asked>>

\* A sub-agent's generation ends.
Finish(c) ==
  /\ c # Primary
  /\ activity[c] = "busy"
  /\ activity' = [activity EXCEPT ![c] = "idle"]
  /\ UNCHANGED <<queue, ready, parked, rest, producer, questions, texts, asked>>

\* confirm_ask: the question is sent to the interface, which shows one at a
\* time, and the reader starts.
Ask(c) ==
  /\ c \in Askers
  /\ activity[c] = "busy"
  /\ asked < MaxQuestions
  /\ activity' = [activity EXCEPT ![c] = "asking"]
  /\ questions' = Append(questions, c)
  /\ ready' = Append(ready, c)
  /\ rest' = [rest EXCEPT ![c] = Sweep(c)]
  /\ asked' = asked + 1
  /\ UNCHANGED <<queue, parked, producer, texts>>

Read(c) == Pass(c) \/ (\E q \in Coders : Return(c, q)) \/ Park(c)

Loop == RunSet \/ (\E c \in Coders : Read(c)) \/ (\E q \in Coders : Route(q))

Next ==
  \/ \E p \in Producers : Answer(p) \/ Wake(p) \/ \E c \in Coders : PushText(p, c)
  \/ Loop
  \/ Listen
  \/ \E c \in Coders : Finish(c) \/ Ask(c)

Spec == Init /\ [][Next]_vars

\* The loop runs what is ready, threads finish their calls, the user answers
\* the question on display, and the primary's generation ends.
Fairness ==
  /\ WF_vars(Loop)
  /\ WF_vars(Listen)
  /\ WF_vars(\E p \in Producers : Wake(p))
  /\ WF_vars(\E p \in Producers : Answer(p))

FairSpec == Spec /\ Fairness

-----------------------------------------------------------------------------

\* No lost wakeup: while the primary is parked in get_input with something in
\* a queue, the set of the event is scheduled or a producer is about to
\* schedule it.  wait_for_input clears the event after the sweep; a payload
\* put in between must not be slept on.
TextIsHeard ==
  activity[Primary] = "input" /\ Contains(parked, Primary) /\ (\E c \in Coders : queue[c] # <<>>)
  => Contains(ready, Set) \/ \E p \in Producers : producer[p] = "put"

\* A text sent while the primary waits for input ends the wait, or is routed
\* to the sub-agent it is for.
TextGetsThrough ==
  \A c \in Coders :
    activity[Primary] = "input" /\ queue[c] # <<>> ~> activity[Primary] # "input"

\* A confirm_ask returns once the user has answered: the answer reaches the
\* coder that asked.
QuestionReturns ==
  \A c \in Coders : activity[c] = "asking" ~> activity[c] # "asking"

\* ... if no two payloads are ever in one queue: a sweep takes one payload of
\* each queue and then waits for the next push, so an answer that stands
\* behind a text is left there.
UncrowdedQuestionReturns == [](\A c \in Coders : Len(queue[c]) <= 1) => QuestionReturns

=============================================================================
