------------------------ MODULE InputQueues_proofs -------------------------
(***************************************************************************)
(* That a text is never slept on (TextIsHeard), for every set of coders,   *)
(* queues and producers, as long as no coder but the primary asks.         *)
(*                                                                         *)
(* A wakeup could be lost in one place: a reader has looked at a queue,    *)
(* a producer puts a payload there, and the reader parks.  It is not,      *)
(* because the producer's Set comes after its put, and the ready queue     *)
(* keeps it until after the reader that is running has parked.  So a       *)
(* queue that holds something, and that the reader will not look at any    *)
(* more before it parks, has a Set pending (Swept).                        *)
(*                                                                         *)
(* At the end, that types are kept (InputTypeCorrect), whoever asks.       *)
(***************************************************************************)
EXTENDS InputQueues, FiniteSetTheorems, TLAPS

\* The primary waits in get_input or confirm_ask.
Reads == activity[Primary] \in {"input", "asking"}

\* The event is about to be set.
Pending ==
  (\E i \in DOMAIN ready : ready[i] = Set) \/ (\E p \in Producers : producer[p] = "put")

\* The type invariant, with what PrimaryAsks adds: only the primary reads.
Types ==
  /\ queue \in [Coders -> Seq(Payloads)]
  /\ activity \in [Coders -> Activities]
  /\ \A c \in Coders \ {Primary} : activity[c] \in {"idle", "busy"}
  /\ ready \in Seq({Primary, Set})
  /\ parked = <<>> \/ parked = <<Primary>>
  /\ rest \in [Coders -> Seq(Coders)]
  /\ producer \in [Producers -> {"idle", "put"}]
  /\ questions = <<>> \/ questions = <<Primary>>

\* There is at most one reader, and it is not both scheduled and parked.
OneReader ==
  /\ \A i, k \in DOMAIN ready : ready[i] = Primary /\ ready[k] = Primary => i = k
  /\ parked # <<>> => Reads /\ \A i \in DOMAIN ready : ready[i] = Set
  /\ (\E i \in DOMAIN ready : ready[i] = Primary) => Reads

\* A reader that is not running starts with a sweep of all queues.
FullSweep ==
  /\ parked # <<>> => rest[Primary] = Registry
  /\ \A i \in DOMAIN ready : ready[i] = Primary /\ i # 1 => rest[Primary] = Registry

\* No queue holds an answer ...
NoAnswer == \A c \in Coders : \A k \in DOMAIN queue[c] : queue[c][k] = "text"

\* ... or one of them does.
OneAnswer ==
  \A c, d \in Coders : \A k \in DOMAIN queue[c], l \in DOMAIN queue[d] :
    queue[c][k] = "confirmed" /\ queue[d][l] = "confirmed" => c = d /\ k = l

\* An answer is in a queue only while the question it answers is open, so
\* the reader of a text never finds an answer before it.
AnswersAsked ==
  /\ activity[Primary] # "asking" => questions = <<>>
  /\ activity[Primary] # "asking" \/ questions # <<>> => NoAnswer
  /\ OneAnswer

\* What the reader will not look at again before it parks is announced.
Swept ==
  /\ activity[Primary] = "input" /\ (\E i \in DOMAIN ready : ready[i] = Primary) =>
       \A c \in Coders : queue[c] # <<>> /\ (\A i \in DOMAIN rest[Primary] : rest[Primary][i] # c)
                         => Pending
  /\ activity[Primary] = "input" /\ parked # <<>> =>
       \A c \in Coders : queue[c] # <<>> => Pending

\* The inductive invariant.
IInv == Types /\ OneReader /\ FullSweep /\ AnswersAsked /\ Swept

-----------------------------------------------------------------------------

\* In this module no coder but the primary asks.
PrimaryAsks == Askers \subseteq {Primary}

USE DEF Payloads, Activities

\* What Tail does to the indices of a sequence.
LEMMA TailAt ==
  ASSUME NEW S, NEW s \in Seq(S), s # <<>>
  PROVE  /\ Tail(s) \in Seq(S) /\ Len(Tail(s)) = Len(s) - 1 /\ s[1] \in S
         /\ \A i \in DOMAIN Tail(s) : i + 1 \in DOMAIN s /\ i + 1 # 1 /\ Tail(s)[i] = s[i + 1]
         /\ \A i \in DOMAIN s : i # 1 => i - 1 \in DOMAIN Tail(s) /\ Tail(s)[i - 1] = s[i]
  OBVIOUS

\* What Append does to the indices of a sequence.
LEMMA AppendAt ==
  ASSUME NEW S, NEW s \in Seq(S), NEW e \in S
  PROVE  /\ Append(s, e) \in Seq(S) /\ Append(s, e) # <<>>
         /\ \A i \in DOMAIN s : i \in DOMAIN Append(s, e) /\ Append(s, e)[i] = s[i]
         /\ \A i \in DOMAIN Append(s, e) :
               \/ i \in DOMAIN s /\ Append(s, e)[i] = s[i]
               \/ i \notin DOMAIN s /\ i = Len(s) + 1 /\ Append(s, e)[i] = e
         /\ Len(s) + 1 \in DOMAIN Append(s, e) /\ Append(s, e)[Len(s) + 1] = e
<1> DEFINE t == Append(s, e)
<1>1. t \in Seq(S) /\ Len(t) = Len(s) + 1 OBVIOUS
<1>2. DOMAIN s = 1..Len(s) /\ DOMAIN t = 1..(Len(s) + 1) /\ Len(s) \in Nat BY <1>1
<1>3. \A i \in 1..Len(s) : t[i] = s[i] OBVIOUS
<1>4. t[Len(s) + 1] = e OBVIOUS
<1>5. t # <<>> BY <1>1, <1>2
<1> HIDE DEF t
<1>6. \A i \in DOMAIN s : i \in DOMAIN t /\ t[i] = s[i] BY <1>2, <1>3
<1>7. \A i \in DOMAIN t :
        \/ i \in DOMAIN s /\ t[i] = s[i]
        \/ i \notin DOMAIN s /\ i = Len(s) + 1 /\ t[i] = e
  BY <1>2, <1>3, <1>4
<1>8. Len(s) + 1 \in DOMAIN t /\ t[Len(s) + 1] = e BY <1>2, <1>4
<1> QED BY <1>1, <1>5, <1>6, <1>7, <1>8 DEF t

\* The first state satisfies the invariant.
LEMMA InitInd == ASSUME InputAssumption, Init PROVE IInv
  BY DEF InputAssumption, Init, IInv, Types, OneReader, FullSweep, AnswersAsked, NoAnswer, OneAnswer, Swept, Reads, Pending, ToSet

\* A put that is not announced yet has a producer that is about to.
LEMMA PutInd ==
  ASSUME InputAssumption, IInv, NEW p \in Producers, NEW c \in Coders,
         PushText(p, c) \/ Answer(p)
  PROVE  IInv'
<1>1. CASE PushText(p, c)
  <2> USE <1>1 DEF PushText, Put, IInv
  <2>1. Types' BY DEF Types
  <2>2. OneReader' BY DEF OneReader, Reads
  <2>3. FullSweep' BY DEF FullSweep
  <2>a. queue[c] \in Seq(Payloads) /\ queue'[c] = Append(queue[c], "text")
        /\ \A d \in Coders : d # c => queue'[d] = queue[d]
    BY DEF Types
  <2>b. \A d \in Coders : \A k \in DOMAIN queue'[d] :
          (k \in DOMAIN queue[d] /\ queue'[d][k] = queue[d][k]) \/ queue'[d][k] = "text"
    BY <2>a, AppendAt
  <2>4. AnswersAsked' BY <2>b DEF AnswersAsked, NoAnswer, OneAnswer
  <2>5. Swept' BY DEF Swept, Pending, Types
  <2> QED BY <2>1, <2>2, <2>3, <2>4, <2>5
<1>2. CASE Answer(p)
  <2> USE <1>2 DEF Answer, Put, IInv
  <2>0. questions = <<Primary>> BY DEF Types
  <2>1. Head(questions) = Primary /\ Tail(questions) = <<>> BY <2>0
  <2>2. Types' BY <2>1 DEF Types, InputAssumption
  <2>3. OneReader' BY DEF OneReader, Reads
  <2>4. FullSweep' BY DEF FullSweep
  <2>a. queue[Primary] \in Seq(Payloads) /\ queue'[Primary] = Append(queue[Primary], "confirmed")
        /\ \A d \in Coders : d # Primary => queue'[d] = queue[d]
    BY <2>1 DEF Types, InputAssumption
  <2>b. \A d \in Coders : \A k \in DOMAIN queue'[d] :
          \/ k \in DOMAIN queue[d] /\ queue'[d][k] = queue[d][k]
          \/ d = Primary /\ k = Len(queue[Primary]) + 1
    BY <2>a, AppendAt
  <2>c. \A d \in Coders : \A k \in DOMAIN queue[d] : queue[d][k] = "text" BY DEF AnswersAsked, NoAnswer
  <2>d. \A d \in Coders : \A k \in DOMAIN queue'[d] :
          queue'[d][k] = "confirmed" => d = Primary /\ k = Len(queue[Primary]) + 1
    BY <2>b, <2>c
  <2>5. AnswersAsked' BY <2>1, <2>d DEF AnswersAsked, NoAnswer, OneAnswer
  <2>6. Swept' BY DEF Swept, Pending, Types
  <2> QED BY <2>2, <2>3, <2>4, <2>5, <2>6
<1> QED BY <1>1, <1>2

\* The announcement only adds a Set.
LEMMA WakeInd ==
  ASSUME InputAssumption, IInv, NEW p \in Producers, Wake(p)
  PROVE  IInv'
  <1> USE DEF Wake, IInv
  <1>1. Types' BY DEF Types
  <1>2. OneReader' BY DEF OneReader, Reads, Types, InputAssumption
  <1>3. FullSweep' BY DEF FullSweep, Types, InputAssumption
  <1>4. AnswersAsked' BY DEF AnswersAsked, NoAnswer, OneAnswer
  <1>a. ready \in Seq({Primary, Set}) /\ ready' = Append(ready, Set) BY DEF Types
  <1>b. Pending' BY <1>a, AppendAt DEF Pending
  <1>5. Swept' BY <1>b DEF Swept
  <1> QED BY <1>1, <1>2, <1>3, <1>4, <1>5

\* A Set may be consumed because the parked reader then sweeps everything.
LEMMA RunSetInd ==
  ASSUME InputAssumption, IInv, RunSet
  PROVE  IInv'
<1> USE DEF IInv
<1>1. ready \in Seq({Primary, Set}) /\ ready # <<>> /\ ready[1] = Set /\ Primary # Set
  BY DEF RunSet, Types, InputAssumption
<1>2. ready' \in Seq({Primary, Set}) /\ \A i \in DOMAIN ready' :
        \/ i + 1 \in DOMAIN ready /\ ready'[i] = ready[i + 1]
        \/ i = Len(ready) /\ parked = <<Primary>> /\ ready'[i] = Primary
  <2>1. CASE parked = <<>>
    <3>1. ready' = Tail(ready) BY <1>1, <2>1 DEF RunSet
    <3> QED BY <1>1, <3>1
  <2>2. CASE parked = <<Primary>>
    <3>1. ready' = Append(Tail(ready), Primary) BY <1>1, <2>2 DEF RunSet
    <3> QED BY <1>1, <2>2, <3>1
  <2> QED BY <2>1, <2>2 DEF Types
<1>3. UNCHANGED <<queue, activity, rest, producer, questions>> /\ parked' = <<>> BY DEF RunSet
<1>4. Types' BY <1>2, <1>3 DEF Types
<1>5. OneReader'
  <2>1. CASE parked = <<>> BY <1>1, <1>2, <1>3, <2>1 DEF OneReader, Reads
  <2>2. CASE parked = <<Primary>>
    <3>1. Reads /\ \A i \in DOMAIN ready : ready[i] # Primary BY <1>1, <2>2 DEF OneReader
    <3>2. \A i \in DOMAIN ready' : ready'[i] = Primary => i = Len(ready) BY <1>2, <3>1
    <3> QED BY <1>3, <3>1, <3>2 DEF OneReader, Reads
  <2> QED BY <2>1, <2>2 DEF Types
<1>6. (\E i \in DOMAIN ready' : ready'[i] = Primary) => rest[Primary] = Registry
  <2>1. ASSUME NEW i \in DOMAIN ready', ready'[i] = Primary PROVE rest[Primary] = Registry
    <3>1. CASE i + 1 \in DOMAIN ready /\ ready'[i] = ready[i + 1]
      <4>1. i + 1 # 1 BY <1>2
      <4> QED BY <2>1, <3>1, <4>1 DEF FullSweep
    <3>2. CASE parked = <<Primary>> BY <3>2 DEF FullSweep
    <3> QED BY <1>2, <3>1, <3>2
  <2> QED BY <2>1
<1>7. FullSweep' BY <1>3, <1>6 DEF FullSweep
<1>8. AnswersAsked' BY <1>3 DEF AnswersAsked, NoAnswer, OneAnswer
<1>9. \A c \in Coders : \E i \in DOMAIN Registry : Registry[i] = c BY DEF InputAssumption, ToSet
<1>10. Swept' BY <1>3, <1>6, <1>9 DEF Swept
<1> QED BY <1>4, <1>5, <1>7, <1>8, <1>10

-----------------------------------------------------------------------------
\* A reader at the head of the ready queue is the primary's.
LEMMA ReaderIsPrimary ==
  ASSUME InputAssumption, IInv, NEW c \in Coders, Reading(c)
  PROVE  /\ c = Primary /\ Reads /\ parked = <<>>
         /\ ready \in Seq({Primary, Set}) /\ ready # <<>> /\ ready[1] = Primary
         /\ \A i \in DOMAIN ready : i # 1 => ready[i] = Set
<1>1. ready \in Seq({Primary, Set}) /\ ready # <<>> /\ ready[1] = c /\ c # Set
  BY DEF Reading, InputAssumption, IInv, Types
<1>2. c = Primary BY <1>1
<1>3. Reads /\ \A i \in DOMAIN ready : i # 1 => ready[i] # Primary
  BY <1>1, <1>2 DEF OneReader, IInv
<1>4. parked = <<>> BY <1>1, <1>2, InputAssumption DEF OneReader, IInv, Types, InputAssumption
<1> QED BY <1>1, <1>2, <1>3, <1>4

\* What taking the first payload of a queue does to the answers.
LEMMA DropHead ==
  ASSUME InputAssumption, IInv, NEW q \in Coders, queue[q] # <<>>,
         queue' = [queue EXCEPT ![q] = Tail(@)]
  PROVE  /\ queue' \in [Coders -> Seq(Payloads)]
         /\ NoAnswer => NoAnswer'
         /\ OneAnswer'
         /\ Head(queue[q]) = "confirmed" => NoAnswer'
<1> USE DEF IInv
<1>1. queue[q] \in Seq(Payloads) /\ queue'[q] = Tail(queue[q])
      /\ \A d \in Coders : d # q => queue'[d] = queue[d]
  BY DEF Types
<1>2. queue' \in [Coders -> Seq(Payloads)] BY <1>1, TailAt DEF Types
<1>3. \A k \in DOMAIN Tail(queue[q]) :
        k + 1 \in DOMAIN queue[q] /\ k + 1 # 1 /\ Tail(queue[q])[k] = queue[q][k + 1]
  BY <1>1, TailAt
<1>4. \A k \in DOMAIN queue'[q] :
        k \in Int /\ k + 1 \in DOMAIN queue[q] /\ k + 1 # 1 /\ queue'[q][k] = queue[q][k + 1]
  BY <1>1, <1>2, <1>3
<1>5. NoAnswer => NoAnswer' BY <1>1, <1>4 DEF NoAnswer
<1>6. \A d, e \in Coders : \A k \in DOMAIN queue[d], l \in DOMAIN queue[e] :
        queue[d][k] = "confirmed" /\ queue[e][l] = "confirmed" => d = e /\ k = l
  BY DEF AnswersAsked, OneAnswer
<1>7. ASSUME NEW d \in Coders, NEW e \in Coders,
             NEW k \in DOMAIN queue'[d], NEW l \in DOMAIN queue'[e],
             queue'[d][k] = "confirmed", queue'[e][l] = "confirmed"
      PROVE  d = e /\ k = l
  <2>1. CASE d = q /\ e = q
    <3>1. k + 1 = l + 1 BY <1>4, <1>6, <1>7, <2>1
    <3> QED BY <1>4, <1>7, <2>1, <3>1
  <2>2. CASE d = q /\ e # q BY <1>1, <1>4, <1>6, <1>7, <2>2
  <2>3. CASE d # q /\ e = q BY <1>1, <1>4, <1>6, <1>7, <2>3
  <2>4. CASE d # q /\ e # q BY <1>1, <1>6, <1>7, <2>4
  <2> QED BY <2>1, <2>2, <2>3, <2>4
<1>8. ASSUME Head(queue[q]) = "confirmed" PROVE NoAnswer'
  <2>1. 1 \in DOMAIN queue[q] /\ queue[q][1] = "confirmed" BY <1>1, <1>8
  <2>2. ASSUME NEW d \in Coders, NEW k \in DOMAIN queue'[d], queue'[d][k] # "text"
        PROVE  FALSE
    <3>1. queue'[d][k] = "confirmed" BY <1>2, <2>2
    <3>2. CASE d = q BY <1>4, <1>6, <2>1, <2>2, <3>1, <3>2
    <3>3. CASE d # q BY <1>1, <1>6, <2>1, <2>2, <3>1, <3>3
    <3> QED BY <3>2, <3>3
  <2> QED BY <2>2 DEF NoAnswer
<1> QED BY <1>2, <1>5, <1>7, <1>8 DEF OneAnswer

\* While the primary reads a text it passes a queue only if it is empty.
LEMMA PassInd ==
  ASSUME InputAssumption, IInv, NEW c \in Coders, Pass(c)
  PROVE  IInv'
<1> USE DEF IInv
<1>1. c = Primary /\ Reads /\ parked = <<>> /\ ready # <<>> /\ ready[1] = Primary
      /\ ready \in Seq({Primary, Set}) /\ \A i \in DOMAIN ready : i # 1 => ready[i] = Set
  BY ReaderIsPrimary DEF Pass
<1>2. UNCHANGED <<activity, ready, parked, producer, questions>> BY DEF Pass
<1>3. PICK q \in Coders :
        /\ rest[c] # <<>> /\ q = Head(rest[c])
        /\ rest' = [rest EXCEPT ![c] = Tail(@)]
        /\ \/ queue[q] = <<>> /\ queue' = queue
           \/ queue[q] # <<>> /\ Head(queue[q]) # Wanted(c)
              /\ queue' = [queue EXCEPT ![q] = Tail(@)]
  <2>1. c \in Coders /\ rest[c] # <<>> /\ rest[c] \in Seq(Coders) BY DEF Pass, Types
  <2>2. Head(rest[c]) \in Coders BY <2>1
  <2> QED BY <2>1, <2>2 DEF Pass
<1>4. queue' \in [Coders -> Seq(Payloads)] BY <1>3, DropHead DEF Types
<1>5. Types'
  <2>1. rest[c] \in Seq(Coders) /\ rest[c] # <<>> BY <1>3 DEF Types
  <2>2. rest' \in [Coders -> Seq(Coders)] BY <1>3, <2>1, TailAt DEF Types
  <2> QED BY <1>2, <1>4, <2>2 DEF Types
<1>6. OneReader' BY <1>2 DEF OneReader, Reads
<1>7. FullSweep' BY <1>1, <1>2, InputAssumption DEF FullSweep, InputAssumption
<1>8. AnswersAsked'
  <2>1. queue' = queue => OneAnswer' /\ (NoAnswer => NoAnswer') BY DEF OneAnswer, NoAnswer, AnswersAsked
  <2>2. queue' # queue => OneAnswer' /\ (NoAnswer => NoAnswer') BY <1>3, DropHead
  <2>3. OneAnswer' /\ (NoAnswer => NoAnswer') BY <2>1, <2>2
  <2> QED BY <1>2, <2>3 DEF AnswersAsked
<1>9. ASSUME activity[Primary] = "input"
      PROVE  queue' = queue /\ queue[q] = <<>>
  <2>1. \A d \in Coders : \A k \in DOMAIN queue[d] : queue[d][k] = "text"
    BY <1>9 DEF AnswersAsked, NoAnswer
  <2>2. queue[q] # <<>> => Head(queue[q]) = "text" BY <2>1 DEF Types
  <2> QED BY <1>1, <1>3, <1>9, <2>2 DEF Wanted
<1>10. \A d \in Coders : (\A i \in DOMAIN rest'[Primary] : rest'[Primary][i] # d) =>
         d = q \/ \A i \in DOMAIN rest[Primary] : rest[Primary][i] # d
  <2>1. rest[c] \in Seq(Coders) /\ rest[c] # <<>> /\ q = rest[c][1] /\ rest'[c] = Tail(rest[c])
    BY <1>3 DEF Types
  <2>2. \A i \in DOMAIN rest[c] : i # 1 => i - 1 \in DOMAIN rest'[c] /\ rest'[c][i - 1] = rest[c][i]
    BY <2>1, TailAt
  <2>3. ASSUME NEW d \in Coders, d # q, NEW i \in DOMAIN rest[c], rest[c][i] = d
        PROVE  \E k \in DOMAIN rest'[c] : rest'[c][k] = d
    <3>1. i # 1 BY <2>1, <2>3
    <3> QED BY <2>2, <2>3, <3>1
  <2> QED BY <1>1, <2>3
<1>11. Swept' BY <1>1, <1>2, <1>9, <1>10 DEF Swept, Pending
<1> QED BY <1>5, <1>6, <1>7, <1>8, <1>11

\* A reader parks with everything seen or announced.
LEMMA ParkInd ==
  ASSUME InputAssumption, IInv, NEW c \in Coders, Park(c)
  PROVE  IInv'
<1> USE DEF IInv
<1>1. c = Primary /\ Reads /\ parked = <<>> /\ ready # <<>> /\ ready[1] = Primary
      /\ ready \in Seq({Primary, Set}) /\ \A i \in DOMAIN ready : i # 1 => ready[i] = Set
  BY ReaderIsPrimary DEF Park
<1>2. UNCHANGED <<queue, activity, producer, questions>> /\ rest[c] = <<>>
      /\ parked' = <<Primary>> /\ rest' = [rest EXCEPT ![c] = Registry] /\ ready' = Tail(ready)
  BY <1>1 DEF Park, Sweep
<1>3. /\ ready' \in Seq({Primary, Set}) /\ \A i \in DOMAIN ready' : ready'[i] = Set
      /\ \A i \in DOMAIN ready : i # 1 => i - 1 \in DOMAIN ready' /\ ready'[i - 1] = ready[i]
  BY <1>1, <1>2, TailAt
<1>4. Types' BY <1>1, <1>2, <1>3 DEF Types, InputAssumption
<1>5. OneReader' BY <1>1, <1>2, <1>3, InputAssumption DEF OneReader, Reads, InputAssumption
<1>6. FullSweep' BY <1>1, <1>2, <1>3 DEF FullSweep, Types, InputAssumption
<1>7. AnswersAsked' BY <1>2 DEF AnswersAsked, NoAnswer, OneAnswer
<1>8. Pending => Pending' BY <1>1, <1>2, <1>3, InputAssumption DEF Pending, InputAssumption
<1>9. Swept' BY <1>1, <1>2, <1>3, <1>8, InputAssumption DEF Swept, InputAssumption
<1> QED BY <1>4, <1>5, <1>6, <1>7, <1>9

\* What the readers that take a payload have in common.
LEMMA TakeStep ==
  ASSUME InputAssumption, IInv, NEW c \in Coders, NEW q \in Coders, Take(c, q),
         activity[c] = "asking" \/ activity[c] = "input",
         ready' = Tail(ready)
  PROVE  /\ c = Primary /\ parked = <<>>
         /\ ready' \in Seq({Primary, Set}) /\ \A i \in DOMAIN ready' : ready'[i] = Set
         /\ queue' \in [Coders -> Seq(Payloads)] /\ rest' \in [Coders -> Seq(Coders)]
         /\ NoAnswer' /\ OneAnswer' /\ questions = <<>>
<1> USE DEF IInv
<1>1. c = Primary /\ parked = <<>> /\ ready # <<>> /\ ready[1] = Primary
      /\ ready \in Seq({Primary, Set}) /\ \A i \in DOMAIN ready : i # 1 => ready[i] = Set
  BY ReaderIsPrimary DEF Take
<1>2. queue[q] # <<>> /\ Head(queue[q]) = Wanted(c) /\ queue' = [queue EXCEPT ![q] = Tail(@)]
      /\ rest' = [rest EXCEPT ![c] = Registry]
  BY DEF Take, Sweep
<1>3. queue' \in [Coders -> Seq(Payloads)] /\ OneAnswer' /\ (NoAnswer => NoAnswer')
      /\ (Head(queue[q]) = "confirmed" => NoAnswer')
  BY <1>2, DropHead
<1>4. rest' \in [Coders -> Seq(Coders)] BY <1>2 DEF Types, InputAssumption
<1>5. ready' \in Seq({Primary, Set}) /\ \A i \in DOMAIN ready' : ready'[i] = Set
  BY <1>1, TailAt
<1>6. CASE activity[c] = "input"
  <2>1. NoAnswer /\ questions = <<>> BY <1>1, <1>6 DEF AnswersAsked
  <2> QED BY <1>1, <1>3, <1>4, <1>5, <2>1
<1>7. CASE activity[c] = "asking"
  <2>1. Head(queue[q]) = "confirmed" BY <1>2, <1>7 DEF Wanted
  <2>2. 1 \in DOMAIN queue[q] /\ queue[q][1] = "confirmed" BY <1>2, <2>1 DEF Types
  <2>3. ~NoAnswer BY <2>2 DEF NoAnswer
  <2>4. questions = <<>> BY <1>1, <1>7, <2>3 DEF AnswersAsked
  <2> QED BY <1>1, <1>3, <1>4, <1>5, <2>1, <2>4
<1> QED BY <1>6, <1>7

\* A reader that returns leaves no reader.
LEMMA ReturnInd ==
  ASSUME InputAssumption, IInv, NEW c \in Coders, NEW q \in Coders, Return(c, q)
  PROVE  IInv'
<1>1. c = Primary /\ Reads BY ReaderIsPrimary DEF Return, Take
<1>2. /\ parked = <<>>
      /\ ready' \in Seq({Primary, Set}) /\ \A i \in DOMAIN ready' : ready'[i] = Set
      /\ queue' \in [Coders -> Seq(Payloads)] /\ rest' \in [Coders -> Seq(Coders)]
      /\ NoAnswer' /\ OneAnswer' /\ questions = <<>>
  BY <1>1, TakeStep DEF Return, Reads
<1>3. UNCHANGED <<parked, producer, questions>> /\ activity' = [activity EXCEPT ![Primary] = "busy"]
  BY <1>1 DEF Return
<1>4. Types' BY <1>2, <1>3 DEF Types, IInv
<1>5. activity'[Primary] = "busy" BY <1>1, <1>3 DEF Types, IInv
<1>6. OneReader' BY <1>2, <1>3, InputAssumption DEF OneReader, InputAssumption
<1>7. FullSweep' BY <1>2, <1>3, InputAssumption DEF FullSweep, InputAssumption
<1>8. AnswersAsked' BY <1>2, <1>3 DEF AnswersAsked
<1>9. Swept' BY <1>5 DEF Swept
<1> QED BY <1>4, <1>6, <1>7, <1>8, <1>9 DEF IInv

\* A text for a sub-agent is taken, and nobody else's reader is cancelled.
LEMMA RouteInd ==
  ASSUME InputAssumption, IInv, NEW q \in Coders, Route(q)
  PROVE  IInv'
<1>0. Primary \in Coders BY DEF InputAssumption
<1>1. parked = <<>> /\ ready \in Seq({Primary, Set}) /\ ready # <<>>
      /\ \A i \in DOMAIN ready : i # 1 => ready[i] = Set
  BY <1>0, ReaderIsPrimary DEF Route, Take
<1>2. \A i \in DOMAIN Tail(ready) : Tail(ready)[i] = Set
  <2>1. \A i \in DOMAIN Tail(ready) : i + 1 \in DOMAIN ready /\ i + 1 # 1 /\ Tail(ready)[i] = ready[i + 1]
    BY <1>1, TailAt
  <2> QED BY <1>1, <2>1
<1>3. q # Set BY DEF InputAssumption
<1>4. ~Contains(Tail(ready), q)
  <2>1. DOMAIN Tail(ready) = 1..Len(Tail(ready)) BY <1>1, TailAt
  <2> QED BY <1>2, <1>3, <2>1 DEF Contains
<1>5. ~Contains(parked, q) BY <1>1 DEF Contains
<1>6. ready' = Tail(ready) /\ parked' = parked BY <1>4, <1>5 DEF Route, Without
<1>7. /\ ready' \in Seq({Primary, Set}) /\ \A i \in DOMAIN ready' : ready'[i] = Set
      /\ queue' \in [Coders -> Seq(Payloads)] /\ rest' \in [Coders -> Seq(Coders)]
      /\ NoAnswer' /\ OneAnswer' /\ questions = <<>>
  BY <1>0, <1>6, TakeStep DEF Route
<1>8. UNCHANGED <<producer, questions>> /\ q # Primary
      /\ activity' = [activity EXCEPT ![Primary] = "routing", ![q] = "busy"]
  BY DEF Route
<1>9. Types' BY <1>1, <1>6, <1>7, <1>8 DEF Types, IInv
<1>10. activity'[Primary] = "routing" BY <1>0, <1>8 DEF Types, IInv
<1>11. OneReader' BY <1>1, <1>6, <1>7, InputAssumption DEF OneReader, InputAssumption
<1>12. FullSweep' BY <1>1, <1>6, <1>7, InputAssumption DEF FullSweep, InputAssumption
<1>13. AnswersAsked' BY <1>7, <1>8 DEF AnswersAsked
<1>14. Swept' BY <1>10 DEF Swept
<1> QED BY <1>9, <1>11, <1>12, <1>13, <1>14 DEF IInv

-----------------------------------------------------------------------------

\* What the steps that start a reader have in common.
LEMMA StartReading ==
  ASSUME InputAssumption, IInv, ~Reads, ready' = Append(ready, Primary),
         rest' = [rest EXCEPT ![Primary] = Registry], parked' = parked
  PROVE  /\ parked = <<>> /\ ready' \in Seq({Primary, Set})
         /\ \A i \in DOMAIN ready' : ready'[i] = Primary => i = Len(ready) + 1
         /\ rest' \in [Coders -> Seq(Coders)] /\ rest'[Primary] = Registry
         /\ \A c \in Coders : \E i \in DOMAIN Registry : Registry[i] = c
<1> USE DEF IInv
<1>1. parked = <<>> /\ ready \in Seq({Primary, Set}) /\ \A i \in DOMAIN ready : ready[i] # Primary
  BY DEF OneReader, Types
<1>2. ready' \in Seq({Primary, Set}) /\ \A i \in DOMAIN ready' : ready'[i] = Primary => i = Len(ready) + 1
  BY <1>1, AppendAt
<1>3. rest' \in [Coders -> Seq(Coders)] /\ rest'[Primary] = Registry BY DEF Types, InputAssumption
<1>4. \A c \in Coders : \E i \in DOMAIN Registry : Registry[i] = c BY DEF InputAssumption, ToSet
<1> QED BY <1>1, <1>2, <1>3, <1>4

\* A reader of texts starts with a sweep of all queues.
LEMMA ListenInd ==
  ASSUME InputAssumption, IInv, Listen
  PROVE  IInv'
<1>1. ~Reads BY DEF Listen, Reads
<1>2. /\ parked = <<>> /\ ready' \in Seq({Primary, Set})
      /\ \A i \in DOMAIN ready' : ready'[i] = Primary => i = Len(ready) + 1
      /\ rest' \in [Coders -> Seq(Coders)] /\ rest'[Primary] = Registry
      /\ \A c \in Coders : \E i \in DOMAIN Registry : Registry[i] = c
  BY <1>1, StartReading DEF Listen, Sweep
<1>3. UNCHANGED <<queue, parked, producer, questions>> /\ activity' = [activity EXCEPT ![Primary] = "input"]
  BY DEF Listen
<1>4. activity'[Primary] = "input" /\ activity[Primary] # "asking"
  BY <1>3 DEF Listen, Types, IInv, InputAssumption
<1>5. Types' BY <1>2, <1>3 DEF Types, IInv
<1>6. OneReader' BY <1>2, <1>3, <1>4 DEF OneReader, Reads
<1>7. FullSweep' BY <1>2, <1>3 DEF FullSweep
<1>8. AnswersAsked' BY <1>3, <1>4 DEF AnswersAsked, NoAnswer, OneAnswer, IInv
<1>9. Swept' BY <1>2, <1>3 DEF Swept
<1> QED BY <1>5, <1>6, <1>7, <1>8, <1>9 DEF IInv

\* A question is asked while no answer is in a queue.
LEMMA AskInd ==
  ASSUME InputAssumption, PrimaryAsks, IInv, NEW c \in Coders, Ask(c)
  PROVE  IInv'
<1>0. c = Primary BY DEF PrimaryAsks, Ask
<1>1. ~Reads BY <1>0 DEF Ask, Reads
<1>2. /\ parked = <<>> /\ ready' \in Seq({Primary, Set})
      /\ \A i \in DOMAIN ready' : ready'[i] = Primary => i = Len(ready) + 1
      /\ rest' \in [Coders -> Seq(Coders)] /\ rest'[Primary] = Registry
      /\ \A d \in Coders : \E i \in DOMAIN Registry : Registry[i] = d
  BY <1>0, <1>1, StartReading DEF Ask, Sweep
<1>3. UNCHANGED <<queue, parked, producer>> /\ activity' = [activity EXCEPT ![Primary] = "asking"]
      /\ activity[Primary] = "busy"
  BY <1>0 DEF Ask
<1>4. questions = <<>> /\ NoAnswer /\ OneAnswer BY <1>3 DEF AnswersAsked, IInv
<1>5. questions' = <<Primary>> BY <1>0, <1>4 DEF Ask
<1>6. activity'[Primary] = "asking" BY <1>3 DEF Types, IInv, InputAssumption
<1>7. Types' BY <1>2, <1>3, <1>5 DEF Types, IInv
<1>8. OneReader' BY <1>2, <1>3, <1>6 DEF OneReader, Reads
<1>9. FullSweep' BY <1>2, <1>3 DEF FullSweep
<1>10. AnswersAsked' BY <1>3, <1>4, <1>6 DEF AnswersAsked, NoAnswer, OneAnswer
<1>11. Swept' BY <1>6 DEF Swept
<1> QED BY <1>7, <1>8, <1>9, <1>10, <1>11 DEF IInv

\* The end of a sub-agent's generation touches no queue.
LEMMA FinishInd ==
  ASSUME InputAssumption, IInv, NEW c \in Coders, Finish(c)
  PROVE  IInv'
<1>1. UNCHANGED <<queue, ready, parked, rest, producer, questions>>
      /\ activity' = [activity EXCEPT ![c] = "idle"] /\ c # Primary
  BY DEF Finish
<1>2. Types' BY <1>1 DEF Types, IInv
<1>3. activity'[Primary] = activity[Primary] BY <1>1 DEF Types, IInv, InputAssumption
<1> QED BY <1>1, <1>2, <1>3 DEF IInv, OneReader, Reads, FullSweep, AnswersAsked, NoAnswer, OneAnswer, Swept, Pending

\* A step that changes nothing.
LEMMA StutterInd ==
  ASSUME IInv, UNCHANGED vars
  PROVE  IInv'
  BY DEF vars, IInv, Types, OneReader, Reads, FullSweep, AnswersAsked, NoAnswer, OneAnswer, Swept, Pending

\* The invariant is inductive.
LEMMA NextInd ==
  ASSUME InputAssumption, PrimaryAsks, IInv, [Next]_vars
  PROVE  IInv'
<1>1. CASE \E p \in Producers : Answer(p) \/ Wake(p) \/ \E c \in Coders : PushText(p, c)
  <2>1. InputAssumption => Coders # {} BY DEF InputAssumption
  <2> QED BY <1>1, <2>1, PutInd, WakeInd
<1>2. CASE RunSet BY <1>2, RunSetInd
<1>3. CASE \E c \in Coders : Read(c) BY <1>3, PassInd, ReturnInd, ParkInd DEF Read
<1>4. CASE \E q \in Coders : Route(q) BY <1>4, RouteInd
<1>5. CASE Listen BY <1>5, ListenInd
<1>6. CASE \E c \in Coders : Finish(c) \/ Ask(c) BY <1>6, FinishInd, AskInd
<1>7. CASE UNCHANGED vars BY <1>7, StutterInd
<1> QED BY <1>1, <1>2, <1>3, <1>4, <1>5, <1>6, <1>7 DEF Next, Loop

\* The invariant says what is to be shown: a parked reader has looked at
\* everything, or a Set is pending.
LEMMA IInvHeard ==
  ASSUME InputAssumption, IInv
  PROVE  TextIsHeard
<1>1. ready \in Seq({Primary, Set}) BY DEF IInv, Types
<1>2. Contains(parked, Primary) => parked # <<>> BY DEF Contains
<1>3. Pending => Contains(ready, Set) \/ \E p \in Producers : producer[p] = "put"
  BY <1>1 DEF Pending, Contains
<1> QED BY <1>2, <1>3 DEF TextIsHeard, IInv, Swept

\* No lost wakeup, for every number of coders, producers, texts and questions:
\* a primary parked in get_input while a queue of src/cecli/helpers/queues.py
\* holds a payload is about to be woken (wait_for_input, push_coder_input).
THEOREM TextHeard ==
  ASSUME InputAssumption, PrimaryAsks
  PROVE  Spec => []TextIsHeard
<1>1. Init => IInv BY InitInd
<1>2. IInv /\ [Next]_vars => IInv' BY NextInd
<1>3. IInv => TextIsHeard BY IInvHeard
<1> QED BY <1>1, <1>2, <1>3, PTL DEF Spec

-----------------------------------------------------------------------------
(* One reader per coder, whoever asks.                                     *)

HIDE DEF Payloads, Activities

Among(seq, c) == \E i \in DOMAIN seq : seq[i] = c

Once(seq, c) == \A i, k \in DOMAIN seq : seq[i] = c /\ seq[k] = c => i = k

\* Taking the first of a sequence takes away one place of one element.
LEMMA TailOnce ==
  ASSUME NEW S, NEW s \in Seq(S), s # <<>>, NEW c, Once(s, c)
  PROVE  /\ Once(Tail(s), c)
         /\ Head(s) = c => ~Among(Tail(s), c)
         /\ Head(s) # c => (Among(Tail(s), c) <=> Among(s, c))
<1> DEFINE t == Tail(s)
<1>1. /\ \A i \in DOMAIN t : i \in Nat /\ i + 1 \in DOMAIN s /\ i + 1 # 1 /\ t[i] = s[i + 1]
      /\ \A i \in DOMAIN s : i # 1 => i - 1 \in DOMAIN t /\ t[i - 1] = s[i]
      /\ 1 \in DOMAIN s /\ Head(s) = s[1]
  OBVIOUS
<1> HIDE DEF t
<1>2. Once(t, c)
  <2> SUFFICES ASSUME NEW i \in DOMAIN t, NEW k \in DOMAIN t, t[i] = c, t[k] = c
               PROVE  i = k
    BY DEF Once
  <2>1. i + 1 = k + 1
    BY <1>1 DEF Once
  <2> QED BY <1>1, <2>1
<1>3. Head(s) = c => ~Among(t, c)
  BY <1>1 DEF Once, Among
<1>4. Head(s) # c => (Among(t, c) <=> Among(s, c))
  BY <1>1 DEF Among
<1> QED BY <1>2, <1>3, <1>4 DEF t

\* What is put at the end of a sequence is there once, if it was not before.
LEMMA AppendOnce ==
  ASSUME NEW S, NEW s \in Seq(S), NEW e \in S, NEW c, Once(s, c)
  PROVE  /\ Among(Append(s, e), c) <=> Among(s, c) \/ c = e
         /\ c # e \/ ~Among(s, c) => Once(Append(s, e), c)
<1>1. /\ \A i \in DOMAIN s : i \in DOMAIN Append(s, e) /\ Append(s, e)[i] = s[i]
      /\ \A i \in DOMAIN Append(s, e) :
            \/ i \in DOMAIN s /\ Append(s, e)[i] = s[i]
            \/ i \notin DOMAIN s /\ i = Len(s) + 1 /\ Append(s, e)[i] = e
      /\ Len(s) + 1 \in DOMAIN Append(s, e) /\ Append(s, e)[Len(s) + 1] = e
  BY AppendAt
<1> QED BY <1>1 DEF Among, Once

\* What is in one of two sequences, once, is in their concatenation once.
LEMMA ConcatOnce ==
  ASSUME NEW S, NEW s \in Seq(S), NEW t \in Seq(S), NEW c, Once(s, c), Once(t, c),
         ~(Among(s, c) /\ Among(t, c))
  PROVE  /\ Among(s \o t, c) <=> Among(s, c) \/ Among(t, c)
         /\ Once(s \o t, c)
<1> DEFINE u == s \o t
<1>1. PICK m \in Nat, n \in Nat : /\ m = Len(s) /\ n = Len(t)
                                  /\ DOMAIN s = 1..m /\ DOMAIN t = 1..n /\ DOMAIN u = 1..(m + n)
  OBVIOUS
<1>2. /\ \A i \in 1..m : u[i] = s[i]
      /\ \A i \in 1..n : u[m + i] = t[i]
  BY <1>1
<1> HIDE DEF u
<1>3. \A i \in 1..(m + n) : i \in 1..m \/ (i - m \in 1..n /\ u[i] = t[i - m])
  <2> SUFFICES ASSUME NEW i \in 1..(m + n), i \notin 1..m
               PROVE  i - m \in 1..n /\ u[i] = t[i - m]
    OBVIOUS
  <2>1. i - m \in 1..n /\ m + (i - m) = i
    BY <1>1
  <2> QED BY <1>2, <2>1
<1>4. Among(u, c) <=> Among(s, c) \/ Among(t, c)
  <2>1. \A i \in 1..n : m + i \in 1..(m + n)
    BY <1>1
  <2>2. \A i \in 1..m : i \in 1..(m + n)
    BY <1>1
  <2>3. DOMAIN s = 1..m /\ DOMAIN t = 1..n /\ DOMAIN u = 1..(m + n)
    BY <1>1
  <2>4. ASSUME NEW i \in 1..(m + n), u[i] = c
        PROVE  Among(s, c) \/ Among(t, c)
    BY <1>2, <1>3, <2>3, <2>4 DEF Among
  <2>5. ASSUME NEW i \in 1..m, s[i] = c
        PROVE  Among(u, c)
    BY <1>2, <2>2, <2>3, <2>5 DEF Among
  <2>6. ASSUME NEW i \in 1..n, t[i] = c
        PROVE  Among(u, c)
    BY <1>2, <2>1, <2>3, <2>6 DEF Among
  <2> QED BY <2>3, <2>4, <2>5, <2>6 DEF Among
<1>5. Once(u, c)
  <2> SUFFICES ASSUME NEW i \in DOMAIN u, NEW k \in DOMAIN u, u[i] = c, u[k] = c
               PROVE  i = k
    BY DEF Once
  <2> i \in 1..(m + n) /\ k \in 1..(m + n)
    BY <1>1
  <2>1. CASE i \in 1..m /\ k \in 1..m
    BY <1>1, <1>2, <2>1 DEF Once
  <2>2. CASE i - m \in 1..n /\ k - m \in 1..n /\ u[i] = t[i - m] /\ u[k] = t[k - m]
    <3>1. i - m = k - m
      BY <1>1, <2>2 DEF Once
    <3> QED BY <1>1, <3>1
  <2>3. ~(i \in 1..m /\ k - m \in 1..n /\ u[k] = t[k - m])
    BY <1>1, <1>2 DEF Among
  <2>4. ~(k \in 1..m /\ i - m \in 1..n /\ u[i] = t[i - m])
    BY <1>1, <1>2 DEF Among
  <2> QED BY <1>3, <2>1, <2>2, <2>3, <2>4
<1> QED BY <1>4, <1>5 DEF u

\* Without takes an element that is there once out, and leaves the others.
LEMMA WithoutOnce ==
  ASSUME NEW S, NEW s \in Seq(S), NEW q, Once(s, q)
  PROVE  /\ Without(s, q) \in Seq(S)
         /\ ~Among(Without(s, q), q)
         /\ \A c : Once(s, c) => Once(Without(s, q), c)
         /\ \A c : c # q => (Among(Without(s, q), c) <=> Among(s, c))
<1>1. CASE ~Contains(s, q)
  BY <1>1 DEF Contains, Among, Without
<1>2. CASE Contains(s, q)
  <2>1. PICK n \in Nat : n = Len(s) /\ DOMAIN s = 1..n
    OBVIOUS
  <2>2. PICK x \in 1..n : x = (CHOOSE i \in DOMAIN s : s[i] = q) /\ s[x] = q
    BY <1>2, <2>1 DEF Contains
  <2>3. PICK t : t = Without(s, q)
    OBVIOUS
  <2>4. t = SubSeq(s, 1, x - 1) \o SubSeq(s, x + 1, n)
    BY <1>2, <2>1, <2>2, <2>3 DEF Without, RemoveAt
  <2>5. /\ t \in Seq(S) /\ DOMAIN t = 1..(n - 1)
        /\ \A i \in 1..(n - 1) : t[i] = IF i < x THEN s[i] ELSE s[i + 1]
    <3>1. PICK u : u = SubSeq(s, 1, x - 1)
      OBVIOUS
    <3>2. u \in Seq(S) /\ Len(u) = x - 1 /\ \A i \in 1..(x - 1) : u[i] = s[i]
      BY <2>1, <3>1
    <3>3. PICK v : v = SubSeq(s, x + 1, n)
      OBVIOUS
    <3>4. v \in Seq(S) /\ Len(v) = n - x /\ \A i \in 1..(n - x) : v[i] = s[x + i]
      BY <2>1, <3>3
    <3>5. t = u \o v
      BY <2>4, <3>1, <3>3
    <3>6. t \in Seq(S) /\ DOMAIN t = 1..(n - 1)
      BY <2>1, <3>2, <3>4, <3>5
    <3>7. ASSUME NEW i \in 1..(n - 1), i < x
          PROVE  t[i] = s[i]
      BY <2>1, <3>2, <3>4, <3>5, <3>7
    <3>8. ASSUME NEW i \in 1..(n - 1), ~(i < x)
          PROVE  t[i] = s[i + 1]
      <4>1. i - (x - 1) \in 1..(n - x) /\ x + (i - (x - 1)) = i + 1
        BY <2>1, <3>8
      <4>2. t[i] = v[i - (x - 1)]
        BY <2>1, <3>2, <3>4, <3>5, <3>8, <4>1
      <4> QED BY <3>4, <4>1, <4>2
    <3> QED BY <3>6, <3>7, <3>8
  <2>6. \A i \in 1..n : s[i] = q => i = x
    BY <2>1, <2>2 DEF Once
  <2>7. \A i \in 1..(n - 1) : \E k \in 1..n :
          k # x /\ t[i] = s[k] /\ (i < x => k = i) /\ (~(i < x) => k = i + 1)
    <3> SUFFICES ASSUME NEW i \in 1..(n - 1)
                 PROVE  \E k \in 1..n :
                          k # x /\ t[i] = s[k] /\ (i < x => k = i) /\ (~(i < x) => k = i + 1)
      OBVIOUS
    <3>1. CASE i < x
      BY <2>1, <2>5, <3>1
    <3>2. CASE ~(i < x)
      <4>1. i + 1 \in 1..n /\ i + 1 # x
        BY <2>1, <3>2
      <4> QED BY <2>5, <3>2, <4>1
    <3> QED BY <3>1, <3>2
  <2>8. ~Among(t, q)
    BY <2>5, <2>6, <2>7 DEF Among
  <2>9. ASSUME NEW c, Once(s, c)
        PROVE  Once(t, c)
    <3> SUFFICES ASSUME NEW i \in 1..(n - 1), NEW k \in 1..(n - 1), t[i] = c, t[k] = c
                 PROVE  i = k
      BY <2>5 DEF Once
    <3>1. PICK y \in 1..n : t[i] = s[y] /\ (i < x => y = i) /\ (~(i < x) => y = i + 1)
      BY <2>7
    <3>2. PICK z \in 1..n : t[k] = s[z] /\ (k < x => z = k) /\ (~(k < x) => z = k + 1)
      BY <2>7
    <3>3. y # x /\ z # x /\ y = z
      <4>1. y = z
        BY <2>1, <2>9, <3>1, <3>2 DEF Once
      <4>2. y # x
        <5>1. i \in Nat /\ x \in Nat
          OBVIOUS
        <5> QED BY <3>1, <5>1, <2>8, <2>2, <2>5 DEF Among
      <4> QED BY <4>1, <4>2
    <3> QED BY <3>1, <3>2, <3>3
  <2>10. ASSUME NEW c, c # q, Among(s, c)
         PROVE  Among(t, c)
    <3>1. PICK k \in 1..n : s[k] = c /\ k # x
      BY <2>1, <2>2, <2>10 DEF Among
    <3>2. CASE k < x
      <4>1. k \in 1..(n - 1)
        BY <2>1, <3>2
      <4> QED BY <2>5, <3>1, <3>2, <4>1 DEF Among
    <3>3. CASE ~(k < x)
      <4>1. k - 1 \in 1..(n - 1) /\ ~(k - 1 < x) /\ (k - 1) + 1 = k
        BY <2>1, <3>1, <3>3
      <4> QED BY <2>5, <3>1, <4>1 DEF Among
    <3> QED BY <3>2, <3>3
  <2>11. ASSUME NEW c, Among(t, c)
         PROVE  Among(s, c)
    BY <2>1, <2>5, <2>7, <2>11 DEF Among
  <2> QED BY <2>3, <2>5, <2>8, <2>9, <2>10, <2>11
<1> QED BY <1>1, <1>2

-----------------------------------------------------------------------------

ReadsAs(act) == act \in {"input", "asking"}

\* A coder that reads has one reader, scheduled or parked; no other has any.
ReaderOf(c) ==
  /\ Once(ready, c) /\ Once(parked, c)
  /\ ~(Among(ready, c) /\ Among(parked, c))
  /\ ReadsAs(activity[c]) <=> Among(ready, c) \/ Among(parked, c)

TypeInv ==
  /\ queue \in [Coders -> Seq(Payloads)]
  /\ activity \in [Coders -> Activities]
  /\ ready \in Seq(Coders \cup {Set})
  /\ parked \in Seq(Coders)
  /\ rest \in [Coders -> Seq(Coders)]
  /\ producer \in [Producers -> {"idle", "put"}]
  /\ questions \in Seq(Coders)
  /\ texts \in 0..MaxTexts
  /\ asked \in 0..MaxQuestions

EachOnce == \A c \in Coders : ReaderOf(c)

\* A function changed at one place.
LEMMA ChangedAt ==
  ASSUME NEW I, NEW S, NEW f \in [I -> S], NEW i \in I, NEW v \in S
  PROVE  [f EXCEPT ![i] = v] \in [I -> S]
  OBVIOUS

\* What is left of the ready queue when its first has run.
LEMMA ReadyTail ==
  ASSUME TypeInv, ready # <<>>
  PROVE  \E t \in Seq(Coders \cup {Set}) : t = Tail(ready)
<1>1. PICK S : S = Coders \cup {Set}
  OBVIOUS
<1>2. ready \in Seq(S)
  BY <1>1 DEF TypeInv
<1>3. Tail(ready) \in Seq(S)
  BY <1>2, TailAt
<1> QED BY <1>1, <1>3

\* The types of a reader's own variables.
LEMMA SweepTypes ==
  ASSUME TypeInv, NEW c \in Coders
  PROVE  /\ [rest EXCEPT ![c] = Sweep(c)] \in [Coders -> Seq(Coders)]
         /\ rest[c] # <<>> => [rest EXCEPT ![c] = Tail(@)] \in [Coders -> Seq(Coders)]
         /\ queue[c] # <<>> => [queue EXCEPT ![c] = Tail(@)] \in [Coders -> Seq(Payloads)]
         /\ \A payload \in Payloads :
              [queue EXCEPT ![c] = Append(@, payload)] \in [Coders -> Seq(Payloads)]
<1>1. Registry \in Seq(Coders) /\ rest[c] \in Seq(Coders) /\ queue[c] \in Seq(Payloads)
  BY InputAssumption DEF TypeInv
<1>2. /\ rest[c] # <<>> => Tail(rest[c]) \in Seq(Coders)
      /\ queue[c] # <<>> => Tail(queue[c]) \in Seq(Payloads)
      /\ \A payload \in Payloads : Append(queue[c], payload) \in Seq(Payloads)
  BY <1>1
<1> HIDE DEF Payloads
<1> QED BY <1>1, <1>2 DEF TypeInv, Sweep

\* Pushes and answers touch no reader.
LEMMA PutsKeep ==
  ASSUME TypeInv, EachOnce, NEW p \in Producers, NEW c \in Coders, PushText(p, c) \/ Answer(p)
  PROVE  TypeInv' /\ EachOnce'
<1>1. CASE PushText(p, c)
  <2>1. texts' \in 0..MaxTexts
    BY <1>1, InputAssumption DEF PushText, TypeInv
  <2>a. /\ queue' = [queue EXCEPT ![c] = Append(@, "text")] /\ "text" \in Payloads
        /\ producer' = [producer EXCEPT ![p] = "put"]
    BY <1>1 DEF PushText, Put, Payloads
  <2>b. queue' \in [Coders -> Seq(Payloads)]
    BY <2>a, SweepTypes
  <2>c. producer' \in [Producers -> {"idle", "put"}]
    BY <2>a DEF TypeInv
  <2>2. queue' \in [Coders -> Seq(Payloads)] /\ producer' \in [Producers -> {"idle", "put"}]
    BY <2>b, <2>c
  <2> QED BY <1>1, <2>1, <2>2 DEF PushText, TypeInv, EachOnce, ReaderOf
<1>2. CASE Answer(p)
  <2>1. Head(questions) \in Coders /\ questions' \in Seq(Coders)
    BY <1>2 DEF Answer, TypeInv
  <2>a. PICK d \in Coders : d = Head(questions)
    BY <2>1
  <2>b. /\ queue' = [queue EXCEPT ![d] = Append(@, "confirmed")] /\ "confirmed" \in Payloads
        /\ producer' = [producer EXCEPT ![p] = "put"]
    BY <1>2, <2>a DEF Answer, Put, Payloads
  <2>c. queue' \in [Coders -> Seq(Payloads)]
    BY <2>a, <2>b, SweepTypes
  <2>d. producer' \in [Producers -> {"idle", "put"}]
    BY <2>b DEF TypeInv
  <2>2. queue' \in [Coders -> Seq(Payloads)] /\ producer' \in [Producers -> {"idle", "put"}]
    BY <2>c, <2>d
  <2> QED BY <1>2, <2>1, <2>2 DEF Answer, TypeInv, EachOnce, ReaderOf
<1> QED BY <1>1, <1>2

\* The set of the event schedules those who are parked.
LEMMA SetsKeep ==
  ASSUME TypeInv, EachOnce, (\E p \in Producers : Wake(p)) \/ RunSet
  PROVE  TypeInv' /\ EachOnce'
<1>1. /\ ready \in Seq(Coders \cup {Set}) /\ parked \in Seq(Coders \cup {Set})
      /\ Set \in Coders \cup {Set} /\ Set \notin Coders
  BY InputAssumption DEF TypeInv
<1>2. CASE \E p \in Producers : Wake(p)
  <2>1. ready' = Append(ready, Set) /\ UNCHANGED <<activity, parked>>
    BY <1>2 DEF Wake
  <2>2. ready' \in Seq(Coders \cup {Set})
    BY <1>1, <2>1
  <2>3. ASSUME NEW c \in Coders
        PROVE  ReaderOf(c)'
    <3>1. ReaderOf(c)
      BY DEF EachOnce
    <3>2. Once(ready', c) /\ (Among(ready', c) <=> Among(ready, c))
      BY <1>1, <2>1, <3>1, AppendOnce DEF ReaderOf
    <3> QED BY <2>1, <3>1, <3>2 DEF ReaderOf, Once, Among
  <2> QED BY <1>2, <2>2, <2>3 DEF Wake, TypeInv, EachOnce
<1>3. CASE RunSet
  <2>0. ready # <<>> /\ Head(ready) = Set
    BY <1>3 DEF RunSet
  <2>a. PICK t \in Seq(Coders \cup {Set}) : t = Tail(ready)
    BY <2>0, ReadyTail
  <2>1. t = Tail(ready) /\ ready # <<>> /\ Head(ready) = Set
    BY <2>0, <2>a
  <2>2. ready' = t \o parked /\ parked' = <<>> /\ UNCHANGED activity
    BY <1>3, <2>1 DEF RunSet
  <2>3. ready' \in Seq(Coders \cup {Set}) /\ parked' \in Seq(Coders)
    BY <1>1, <2>2
  <2>4. ASSUME NEW c \in Coders
        PROVE  ReaderOf(c)'
    <3>1. ReaderOf(c)
      BY DEF EachOnce
    <3>2. Once(t, c) /\ (Among(t, c) <=> Among(ready, c))
      BY <1>1, <2>1, <3>1, TailOnce DEF ReaderOf
    <3>3. Once(ready', c) /\ (Among(ready', c) <=> Among(t, c) \/ Among(parked, c))
      BY <1>1, <2>1, <2>2, <3>1, <3>2, ConcatOnce DEF ReaderOf
    <3>4. Once(parked', c) /\ ~Among(parked', c)
      BY <2>2 DEF Once, Among
    <3> QED BY <2>2, <3>1, <3>2, <3>3, <3>4 DEF ReaderOf, Once, Among
  <2> QED BY <1>3, <2>3, <2>4 DEF RunSet, TypeInv, EachOnce
<1> QED BY <1>2, <1>3

\* The readers that go on, park and return.
LEMMA ReadersKeep ==
  ASSUME TypeInv, EachOnce, NEW c \in Coders, Read(c)
  PROVE  TypeInv' /\ EachOnce'
<1>1. /\ ready \in Seq(Coders \cup {Set}) /\ parked \in Seq(Coders)
      /\ ready # <<>> /\ Head(ready) = c
  BY DEF TypeInv, Read, Pass, Return, Take, Park, Reading
<1>2. CASE Pass(c)
  <2>1. rest[c] # <<>> /\ rest' = [rest EXCEPT ![c] = Tail(@)] /\ rest[c] \in Seq(Coders)
    BY <1>2 DEF Pass, TypeInv
  <2>2. PICK q \in Coders : q = Head(rest[c])
    BY <2>1
  <2>3. queue' \in [Coders -> Seq(Payloads)]
    BY <1>2, <2>2, SweepTypes DEF Pass, TypeInv
  <2>4. rest' \in [Coders -> Seq(Coders)]
    BY <2>1, SweepTypes
  <2> QED BY <1>2, <2>3, <2>4 DEF Pass, TypeInv, EachOnce, ReaderOf
<1>3. PICK t \in Seq(Coders \cup {Set}) : t = Tail(ready)
  BY <1>1, ReadyTail
<1>4. \A d \in Coders : /\ Once(t, d)
                        /\ d = c => ~Among(t, d) /\ ~Among(parked, d)
                        /\ d # c => (Among(t, d) <=> Among(ready, d))
  <2> SUFFICES ASSUME NEW d \in Coders
               PROVE  /\ Once(t, d)
                      /\ d = c => ~Among(t, d) /\ ~Among(parked, d)
                      /\ d # c => (Among(t, d) <=> Among(ready, d))
    OBVIOUS
  <2>1. ReaderOf(d)
    BY DEF EachOnce
  <2>2. /\ Once(t, d)
        /\ d = c => ~Among(t, d)
        /\ d # c => (Among(t, d) <=> Among(ready, d))
    BY <1>1, <1>3, <2>1, TailOnce DEF ReaderOf
  <2>3. Among(ready, c)
    <3>1. 1 \in DOMAIN ready /\ ready[1] = c
      BY <1>1
    <3> QED BY <3>1 DEF Among
  <2> QED BY <2>1, <2>2, <2>3 DEF ReaderOf
<1>5. ASSUME NEW q \in Coders, Return(c, q)
      PROVE  TypeInv' /\ EachOnce'
  <2>1. ready' = t /\ activity' = [activity EXCEPT ![c] = "busy"] /\ parked' = parked
    BY <1>3, <1>5 DEF Return
  <2>2. queue' \in [Coders -> Seq(Payloads)] /\ rest' \in [Coders -> Seq(Coders)]
    BY <1>5, SweepTypes DEF Return, Take
  <2>3. ASSUME NEW d \in Coders
        PROVE  ReaderOf(d)'
    <3>1. ReaderOf(d)
      BY DEF EachOnce
    <3>2. activity'[d] = IF d = c THEN "busy" ELSE activity[d]
      BY <2>1 DEF TypeInv
    <3> QED BY <1>4, <2>1, <3>1, <3>2 DEF ReaderOf, ReadsAs
  <2>4. activity' \in [Coders -> Activities]
    <3>1. activity \in [Coders -> Activities] /\ "busy" \in Activities
      BY DEF TypeInv, Activities
    <3> QED BY <2>1, <3>1, ChangedAt
  <2> QED BY <1>3, <1>5, <2>1, <2>2, <2>3, <2>4 DEF Return, TypeInv, EachOnce
<1>6. CASE Park(c)
  <2>1. ready' = t /\ activity' = activity /\ parked' = Append(parked, c)
    BY <1>3, <1>6 DEF Park
  <2>2. rest' \in [Coders -> Seq(Coders)] /\ parked' \in Seq(Coders)
    BY <1>1, <1>6, <2>1, SweepTypes DEF Park
  <2>3. ASSUME NEW d \in Coders
        PROVE  ReaderOf(d)'
    <3>1. ReaderOf(d) /\ ReaderOf(c)
      BY DEF EachOnce
    <3>2. Once(parked', d) /\ (Among(parked', d) <=> Among(parked, d) \/ d = c)
      BY <1>1, <1>4, <2>1, <3>1, AppendOnce DEF ReaderOf
    <3>3. Among(ready, c)
      <4>1. 1 \in DOMAIN ready /\ ready[1] = c
        BY <1>1
      <4> QED BY <4>1 DEF Among
    <3> QED BY <1>4, <2>1, <3>1, <3>2, <3>3 DEF ReaderOf
  <2> QED BY <1>3, <1>6, <2>1, <2>2, <2>3 DEF Park, TypeInv, EachOnce
<1> QED BY <1>2, <1>5, <1>6 DEF Read

\* A routed text takes away the reader of the sub-agent it is for.
LEMMA RouteKeeps ==
  ASSUME TypeInv, EachOnce, NEW q \in Coders, Route(q)
  PROVE  TypeInv' /\ EachOnce'
<1>1. /\ ready \in Seq(Coders \cup {Set}) /\ parked \in Seq(Coders) /\ Primary \in Coders
      /\ ready # <<>> /\ Head(ready) = Primary /\ q # Primary
  BY InputAssumption DEF TypeInv, Route, Take, Reading
<1>2. PICK t \in Seq(Coders \cup {Set}) : t = Tail(ready)
  BY <1>1, ReadyTail
<1>3. /\ ready' = Without(t, q) /\ parked' = Without(parked, q)
      /\ activity' = [activity EXCEPT ![Primary] = "routing", ![q] = "busy"]
  BY <1>2 DEF Route
<1>4. \A d \in Coders : /\ Once(t, d)
                        /\ d = Primary => ~Among(t, d)
                        /\ d # Primary => (Among(t, d) <=> Among(ready, d))
  BY <1>1, <1>2, TailOnce DEF EachOnce, ReaderOf
<1>5. /\ ready' \in Seq(Coders \cup {Set}) /\ ~Among(ready', q)
      /\ \A d : Once(t, d) => Once(ready', d)
      /\ \A d : d # q => (Among(ready', d) <=> Among(t, d))
  BY <1>2, <1>3, <1>4, WithoutOnce
<1>6. /\ parked' \in Seq(Coders) /\ ~Among(parked', q)
      /\ \A d : Once(parked, d) => Once(parked', d)
      /\ \A d : d # q => (Among(parked', d) <=> Among(parked, d))
  <2>1. Once(parked, q)
    BY DEF EachOnce, ReaderOf
  <2> QED BY <1>1, <1>3, <2>1, WithoutOnce
<1>7. Among(ready, Primary)
  <2>1. 1 \in DOMAIN ready /\ ready[1] = Primary
    BY <1>1
  <2> QED BY <2>1 DEF Among
<1>8. ASSUME NEW d \in Coders
      PROVE  ReaderOf(d)'
  <2>1. ReaderOf(d)
    BY DEF EachOnce
  <2>2. activity'[d] = IF d = q THEN "busy" ELSE IF d = Primary THEN "routing" ELSE activity[d]
    BY <1>1, <1>3 DEF TypeInv
  <2> QED BY <1>1, <1>4, <1>5, <1>6, <1>7, <2>1, <2>2 DEF ReaderOf, ReadsAs
<1>9. queue' \in [Coders -> Seq(Payloads)] /\ rest' \in [Coders -> Seq(Coders)]
  BY <1>1, SweepTypes DEF Route, Take
<1>10. activity' \in [Coders -> Activities]
  <2>1. activity \in [Coders -> Activities] /\ "routing" \in Activities /\ "busy" \in Activities
    BY DEF TypeInv, Activities
  <2>2. PICK mid \in [Coders -> Activities] : mid = [activity EXCEPT ![Primary] = "routing"]
    BY <1>1, <2>1, ChangedAt
  <2>3. activity' = [mid EXCEPT ![q] = "busy"]
    BY <1>3, <2>2
  <2> QED BY <2>1, <2>2, <2>3, ChangedAt
<1> QED BY <1>5, <1>6, <1>8, <1>9, <1>10 DEF Route, TypeInv, EachOnce

\* A reader starts for a coder that has none.
LEMMA StartsKeep ==
  ASSUME TypeInv, EachOnce, NEW c \in Coders, NEW act \in {"input", "asking"},
         ~ReadsAs(activity[c]),
         activity' = [activity EXCEPT ![c] = act], ready' = Append(ready, c),
         parked' = parked
  PROVE  /\ activity' \in [Coders -> Activities] /\ ready' \in Seq(Coders \cup {Set})
         /\ EachOnce'
<1>1. ready \in Seq(Coders \cup {Set}) /\ c \in Coders \cup {Set}
  BY DEF TypeInv
<1>2. ASSUME NEW d \in Coders
      PROVE  ReaderOf(d)'
  <2>1. ReaderOf(d) /\ ReaderOf(c)
    BY DEF EachOnce
  <2>2. Once(ready', d) /\ (Among(ready', d) <=> Among(ready, d) \/ d = c)
    BY <1>1, <2>1, AppendOnce DEF ReaderOf
  <2>3. activity'[d] = IF d = c THEN act ELSE activity[d]
    BY DEF TypeInv
  <2> QED BY <2>1, <2>2, <2>3 DEF ReaderOf, ReadsAs
<1>3. activity' \in [Coders -> Activities]
  <2>1. activity \in [Coders -> Activities] /\ act \in Activities
    BY DEF TypeInv, Activities
  <2> QED BY <2>1, ChangedAt
<1>4. ready' \in Seq(Coders \cup {Set})
  BY <1>1, AppendAt
<1> QED BY <1>2, <1>3, <1>4 DEF EachOnce

\* The steps of the coders.
LEMMA CodersKeep ==
  ASSUME TypeInv, EachOnce, Listen \/ \E c \in Coders : Finish(c) \/ Ask(c)
  PROVE  TypeInv' /\ EachOnce'
<1>1. CASE Listen
  <2>1. ~ReadsAs(activity[Primary]) /\ Primary \in Coders
    BY <1>1, InputAssumption DEF Listen, ReadsAs
  <2>2. /\ activity' \in [Coders -> Activities] /\ ready' \in Seq(Coders \cup {Set})
        /\ EachOnce' /\ rest' \in [Coders -> Seq(Coders)]
    BY <1>1, <2>1, StartsKeep, SweepTypes DEF Listen
  <2> QED BY <1>1, <2>2 DEF Listen, TypeInv
<1>2. ASSUME NEW c \in Coders, Ask(c)
      PROVE  TypeInv' /\ EachOnce'
  <2>1. ~ReadsAs(activity[c])
    BY <1>2 DEF Ask, ReadsAs
  <2>2. /\ activity' \in [Coders -> Activities] /\ ready' \in Seq(Coders \cup {Set})
        /\ EachOnce' /\ rest' \in [Coders -> Seq(Coders)]
    BY <1>2, <2>1, StartsKeep, SweepTypes DEF Ask
  <2>3. questions' \in Seq(Coders) /\ asked' \in 0..MaxQuestions
    BY <1>2, InputAssumption DEF Ask, TypeInv
  <2> QED BY <1>2, <2>2, <2>3 DEF Ask, TypeInv
<1>3. ASSUME NEW c \in Coders, Finish(c)
      PROVE  TypeInv' /\ EachOnce'
  <2>1. /\ activity' = [activity EXCEPT ![c] = "idle"] /\ ~ReadsAs(activity[c])
        /\ UNCHANGED <<ready, parked>>
    BY <1>3 DEF Finish, ReadsAs
  <2>2. ASSUME NEW d \in Coders
        PROVE  ReaderOf(d)'
    <3>1. ReaderOf(d)
      BY DEF EachOnce
    <3>2. ReadsAs(activity'[d]) <=> ReadsAs(activity[d])
      BY <2>1 DEF TypeInv, ReadsAs
    <3> QED BY <2>1, <3>1, <3>2 DEF ReaderOf
  <2>3. activity' \in [Coders -> Activities]
    <3>1. activity \in [Coders -> Activities] /\ "idle" \in Activities
      BY DEF TypeInv, Activities
    <3> QED BY <2>1, <3>1, ChangedAt
  <2> QED BY <1>3, <2>2, <2>3 DEF Finish, TypeInv, EachOnce
<1> QED BY <1>1, <1>2, <1>3

\* One reader, counted.
LEMMA OneScheduled ==
  ASSUME TypeInv, NEW c \in Coders, ReaderOf(c)
  PROVE  Cardinality(Scheduled(c)) = IF activity[c] \in {"input", "asking"} THEN 1 ELSE 0
<1>1. CASE ~ReadsAs(activity[c])
  <2>1. Scheduled(c) = {}
    BY <1>1 DEF ReaderOf, Scheduled, Among
  <2> QED BY <1>1, <2>1, FS_EmptySet DEF ReadsAs
<1>2. CASE ReadsAs(activity[c])
  <2>1. \E x : Scheduled(c) = {x}
    <3>1. CASE Among(ready, c)
      <4>1. PICK i \in DOMAIN ready : ready[i] = c
        BY <3>1 DEF Among
      <4>2. Scheduled(c) = {<<"ready", i>>}
        BY <3>1, <4>1 DEF ReaderOf, Scheduled, Once, Among
      <4> QED BY <4>2
    <3>2. CASE Among(parked, c)
      <4>1. PICK i \in DOMAIN parked : parked[i] = c
        BY <3>2 DEF Among
      <4>2. Scheduled(c) = {<<"parked", i>>}
        BY <3>2, <4>1 DEF ReaderOf, Scheduled, Once, Among
      <4> QED BY <4>2
    <3> QED BY <1>2, <3>1, <3>2 DEF ReaderOf
  <2>2. Cardinality(Scheduled(c)) = 1
    BY <2>1, FS_Singleton
  <2> QED BY <1>2, <2>2 DEF ReadsAs
<1> QED BY <1>1, <1>2

\* A coder that waits in get_input or confirm_ask has one reader, which is
\* either scheduled or parked, and no other coder has one; whoever asks, for any
\* coders, producers, texts and questions.
THEOREM InputTypeCorrect == Spec => []InputTypeOK
<1>1. Init => TypeInv /\ EachOnce
  <2> SUFFICES ASSUME Init PROVE TypeInv /\ EachOnce
    OBVIOUS
  <2>1. Primary \in Coders /\ Registry \in Seq(Coders) /\ 0 \in 0..MaxTexts /\ 0 \in 0..MaxQuestions
    BY InputAssumption
  <2>2. ready = <<Primary>> /\ parked = <<>>
    BY DEF Init
  <2>3. activity \in [Coders -> Activities]
    <3>1. \A c \in Coders : (IF c = Primary THEN "input" ELSE "idle") \in Activities
      BY DEF Activities
    <3> QED BY <3>1 DEF Init
  <2>4. TypeInv
    <3>1. ready \in Seq(Coders \cup {Set}) /\ parked \in Seq(Coders)
      BY <2>1, <2>2
    <3>2. questions \in Seq(Coders) /\ texts \in 0..MaxTexts /\ asked \in 0..MaxQuestions
      BY <2>1 DEF Init
    <3>3. queue \in [Coders -> Seq(Payloads)] /\ rest \in [Coders -> Seq(Coders)]
      BY <2>1 DEF Init
    <3>4. producer \in [Producers -> {"idle", "put"}]
      BY DEF Init
    <3> QED BY <2>3, <3>1, <3>2, <3>3, <3>4 DEF TypeInv
  <2>5. ASSUME NEW c \in Coders
        PROVE  ReaderOf(c)
    <3>1. DOMAIN ready = {1} /\ ready[1] = Primary /\ DOMAIN parked = {}
      BY <2>2
    <3>2. Once(ready, c) /\ Once(parked, c) /\ ~Among(parked, c)
      BY <3>1 DEF Once, Among
    <3>3. Among(ready, c) <=> c = Primary
      BY <3>1 DEF Among
    <3>4. ReadsAs(activity[c]) <=> c = Primary
      BY DEF Init, ReadsAs
    <3> QED BY <3>2, <3>3, <3>4 DEF ReaderOf
  <2> QED BY <2>4, <2>5 DEF EachOnce
<1>2. TypeInv /\ EachOnce /\ [Next]_vars => TypeInv' /\ EachOnce'
  <2> SUFFICES ASSUME TypeInv, EachOnce, [Next]_vars PROVE TypeInv' /\ EachOnce'
    OBVIOUS
  <2>1. CASE UNCHANGED vars
    BY <2>1 DEF vars, TypeInv, EachOnce, ReaderOf
  <2>2. Coders # {}
    BY InputAssumption
  <2> QED BY <2>1, <2>2, PutsKeep, SetsKeep, ReadersKeep, RouteKeeps, CodersKeep DEF Next, Loop
<1>3. TypeInv /\ EachOnce => InputTypeOK
  BY OneScheduled DEF TypeInv, EachOnce, InputTypeOK
<1> QED BY <1>1, <1>2, <1>3, PTL DEF Spec

=============================================================================
