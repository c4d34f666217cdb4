------------------------ MODULE WorkflowRun_proofs ------------------------
(***************************************************************************)
(* Theorems about WorkflowRun: its variables stay well-formed, a run that  *)
(* shares its worker processes its own tasks only, and what it reports of  *)
(* them is what became of them, for any number of runs, tasks and          *)
(* disturbances and in any order of the runs.  Of the runs that contend    *)
(* for a worker nothing is claimed: the code gets them wrong.              *)
(***************************************************************************)
EXTENDS WorkflowRun, TLAPS

\* The last k tasks of run r, as they lie on the queue of its worker.
Rest(r, k) == [i \in 1..k |-> <<r, Tasks - k + i>>]

-----------------------------------------------------------------------------
(* The inductive invariant.                                                *)

\* A generate() task is created by the run it is named by, which awaits it.
TasksAwaited ==
  /\ \A r \in Runs : phase[r] \in {"waiting", "awaiting"} => worker[r] # Null
  /\ \A r \in Runs : phase[r] \in {"idle", "spawning", "waiting", "raised"} => step[r] = "none"
  /\ \A r \in Runs : phase[r] = "awaiting" => step[r] # "none"
  /\ \A r \in Runs : Active(r) => phase[r] = "awaiting"

\* A run that does not contend has its worker to itself until it is concluded.
Exclusive ==
  /\ \A r, q \in Runs :
       phase[r] = "awaiting" /\ r \notin contended /\ phase[q] = "awaiting" /\ worker[q] = worker[r] => q = r
  /\ \A r \in contended : step[r] # "none"

\* What a task has or will find on its queue is its run's own, or comes from a
\* run that contends.
OwnedBy(s, S) == \A j \in 1..Len(s) : s[j][1] \in S
Owned ==
  \A r \in Runs : phase[r] = "awaiting" =>
    /\ OwnedBy(queue[worker[r]], {r} \cup contended)
    /\ Active(r) => at[r] \in Items /\ at[r][1] \in {r} \cup contended

\* Tasks that have been processed, or that the drain has skipped over.
Over == completed \cup swallowed

\* What is left on the queue says how far the run has come, by its step.
Progress(r, k) ==
  /\ step[r] \in {"created", "working"} =>
       /\ k = Tasks - 1 /\ at[r] = <<r, 1>>
       /\ \A i \in Indices : <<r, i>> \notin completed
  /\ step[r] = "queued" =>
       /\ k < Tasks - 1 /\ at[r] = <<r, Tasks - k>>
       /\ \A i \in Indices : <<r, i>> \in completed => i < Tasks - k
       /\ \A i \in Indices : i < Tasks - k => <<r, i>> \in Over
  /\ step[r] \in Ended =>
       /\ \A i \in Indices : i < Tasks - k => <<r, i>> \in Over
       /\ \A i \in Indices : <<r, i>> \in completed => i <= Tasks - k
       /\ step[r] = "ok" /\ r \notin cutShort => \A i \in Indices : <<r, i>> \in Over

QueueTells ==
  /\ \A r \in Runs : phase[r] = "awaiting" /\ r \notin contended => \E k \in 0..(Tasks - 1) :
       queue[worker[r]] = Rest(r, k) /\ Progress(r, k)
  /\ \A r \in Runs : step[r] = "none" => \A i \in Indices : <<r, i>> \notin completed

\* Results are given when a run is over, and are true.
ResultsStand ==
  /\ \A r \in Runs : result[r] # Null => phase[r] = "done"
  /\ ResultTruthful

RunInv == RunTypeOK /\ TasksAwaited /\ Exclusive /\ Owned /\ QueueTells /\ ResultsStand

-----------------------------------------------------------------------------
(* The tasks that are left.                                                *)

LEMMA RestIsSeq ==
  ASSUME NEW r \in Runs, NEW k \in 0..(Tasks - 1)
  PROVE  Rest(r, k) \in Seq(Items) /\ Len(Rest(r, k)) = k
<1>1. Rest(r, k) \in [1..k -> Items]
  BY RunAssumption DEF Rest, Items, Indices
<1> QED BY <1>1, RunAssumption

LEMMA StagedIsRest ==
  ASSUME NEW r \in Runs
  PROVE  Staged(r) = Rest(r, Tasks - 1)
BY RunAssumption DEF Staged, Rest

LEMMA EmptyIsRest ==
  ASSUME NEW r \in Runs
  PROVE  Rest(r, 0) = <<>>
<1>1. 1..0 = {}
  OBVIOUS
<1>2. Rest(r, 0) \in Seq(Items) /\ Len(Rest(r, 0)) = 0
  BY RestIsSeq, RunAssumption
<1> QED BY <1>2

LEMMA TakeOne ==
  ASSUME NEW r \in Runs, NEW k \in 1..(Tasks - 1)
  PROVE  /\ Rest(r, k) # <<>>
         /\ Head(Rest(r, k)) = <<r, Tasks - (k - 1)>>
         /\ Tail(Rest(r, k)) = Rest(r, k - 1)
<1>1. Rest(r, k) \in Seq(Items) /\ Len(Rest(r, k)) = k
  BY RestIsSeq, RunAssumption
<1>2. Rest(r, k - 1) \in Seq(Items) /\ Len(Rest(r, k - 1)) = k - 1
  BY RestIsSeq, RunAssumption
<1>3. Rest(r, k) # <<>> /\ Head(Rest(r, k)) = Rest(r, k)[1]
  BY <1>1, RunAssumption
<1>4. Rest(r, k)[1] = <<r, Tasks - (k - 1)>>
  BY RunAssumption DEF Rest
<1>5. Tail(Rest(r, k)) \in Seq(Items) /\ Len(Tail(Rest(r, k))) = k - 1
  BY <1>1, <1>3, RunAssumption
<1>6. ASSUME NEW i \in 1..(k - 1) PROVE Tail(Rest(r, k))[i] = Rest(r, k - 1)[i]
  <2>1. Tail(Rest(r, k))[i] = Rest(r, k)[i + 1]
    BY <1>1, <1>3, RunAssumption
  <2>2. i + 1 \in 1..k /\ Tasks - k + (i + 1) = Tasks - (k - 1) + i
    BY RunAssumption
  <2> QED BY <2>1, <2>2 DEF Rest
<1>7. Tail(Rest(r, k)) = Rest(r, k - 1)
  BY <1>2, <1>5, <1>6
<1> QED BY <1>3, <1>4, <1>7

LEMMA PutOneBack ==
  ASSUME NEW r \in Runs, NEW k \in 0..(Tasks - 2)
  PROVE  <<<<r, Tasks - k>>>> \o Rest(r, k) = Rest(r, k + 1)
<1> DEFINE s == <<<<r, Tasks - k>>>> \o Rest(r, k)
<1>1. Rest(r, k) \in Seq(Items) /\ Len(Rest(r, k)) = k
  BY RestIsSeq, RunAssumption
<1>2. Rest(r, k + 1) \in Seq(Items) /\ Len(Rest(r, k + 1)) = k + 1
  BY RestIsSeq, RunAssumption
<1>3. <<<<r, Tasks - k>>>> \in Seq(Items)
  BY RunAssumption DEF Items, Indices
<1>4. s \in Seq(Items) /\ Len(s) = k + 1
  BY <1>1, <1>3, RunAssumption
<1>5. ASSUME NEW i \in 1..(k + 1) PROVE s[i] = Rest(r, k + 1)[i]
  <2>1. CASE i = 1
    <3>1. s[1] = <<r, Tasks - k>>
      BY <1>1, <1>3, RunAssumption
    <3>2. Rest(r, k + 1)[1] = <<r, Tasks - (k + 1) + 1>>
      BY RunAssumption DEF Rest
    <3>3. Tasks - (k + 1) + 1 = Tasks - k
      BY RunAssumption
    <3> QED BY <2>1, <3>1, <3>2, <3>3
  <2>2. CASE i # 1
    <3>1. s[i] = Rest(r, k)[i - 1]
      BY <1>1, <1>3, <2>2, RunAssumption
    <3>2. i - 1 \in 1..k /\ Tasks - k + (i - 1) = Tasks - (k + 1) + i
      BY <2>2, RunAssumption
    <3> QED BY <3>1, <3>2 DEF Rest
  <2> QED BY <2>1, <2>2
<1>6. s = Rest(r, k + 1)
  <2> HIDE DEF s
  <2> QED BY <1>2, <1>4, <1>5
<1> QED BY <1>6

-----------------------------------------------------------------------------
(* Whose prompts lie on a queue.                                           *)

LEMMA OwnedTail ==
  ASSUME NEW s \in Seq(Items), NEW S, OwnedBy(s, S), s # <<>>
  PROVE  /\ Head(s) \in Items /\ Head(s)[1] \in S
         /\ Tail(s) \in Seq(Items) /\ OwnedBy(Tail(s), S)
<1>1. Len(s) \in Nat /\ Len(s) >= 1 /\ Head(s) = s[1] /\ s[1] \in Items
  OBVIOUS
<1>2. Tail(s) \in Seq(Items) /\ Len(Tail(s)) = Len(s) - 1
  OBVIOUS
<1>3. ASSUME NEW j \in 1..Len(Tail(s)) PROVE Tail(s)[j][1] \in S
  <2>1. Tail(s)[j] = s[j + 1] /\ j + 1 \in 1..Len(s)
    BY <1>1, <1>2
  <2> QED BY <2>1 DEF OwnedBy
<1>4. s[1][1] \in S
  BY <1>1 DEF OwnedBy
<1> QED BY <1>1, <1>2, <1>3, <1>4 DEF OwnedBy

LEMMA OwnedFront ==
  ASSUME NEW s \in Seq(Items), NEW S, OwnedBy(s, S), NEW it \in Items, it[1] \in S
  PROVE  <<it>> \o s \in Seq(Items) /\ OwnedBy(<<it>> \o s, S)
<1> DEFINE t == <<it>> \o s
<1>1. t \in Seq(Items) /\ Len(t) = Len(s) + 1
  OBVIOUS
<1>2. ASSUME NEW j \in 1..Len(t) PROVE t[j][1] \in S
  <2>1. CASE j = 1
    BY <2>1
  <2>2. CASE j # 1
    <3>1. t[j] = s[j - 1] /\ j - 1 \in 1..Len(s)
      BY <1>1, <2>2
    <3> QED BY <3>1 DEF OwnedBy
  <2> QED BY <2>1, <2>2
<1> QED BY <1>1, <1>2 DEF OwnedBy

LEMMA OwnedStaged ==
  ASSUME NEW r \in Runs, NEW S, r \in S
  PROVE  Staged(r) \in Seq(Items) /\ OwnedBy(Staged(r), S)
<1>1. Staged(r) \in Seq(Items) /\ Len(Staged(r)) = Tasks - 1
  BY StagedIsRest, RestIsSeq, RunAssumption
<1> QED BY <1>1 DEF OwnedBy, Staged

-----------------------------------------------------------------------------
(* A run is staged on a worker, with others on it or not.                  *)

LEMMA ContendFacts ==
  ASSUME RunTypeOK, NEW r \in Runs, NEW w \in Runs, Contend(r, w)
  PROVE  /\ contended \subseteq contended' /\ contended' \subseteq Runs
         /\ \A q \in contended' : q \in contended \/ q = r \/ phase[q] = "awaiting"
         /\ \A q \in Runs \ {r} : phase[q] = "awaiting" /\ worker[q] = w =>
              q \in contended' /\ r \in contended'
BY DEF RunTypeOK, Contend, Unconcluded

LEMMA StageKeepsType ==
  ASSUME RunTypeOK, NEW r \in Runs, NEW w \in Runs, Stage(r, w),
         newest' \in {newest, w},
         UNCHANGED <<persist, stops, awaited, late, result, rebuilt, historyVars, disturbed>>
  PROVE  RunTypeOK'
<1>1. Staged(r) \in Seq(Items)
  BY OwnedStaged
<1>2. <<r, 1>> \in Items
  BY RunAssumption DEF Items, Indices
<1>3. phase' \in [Runs -> Phases] /\ worker' \in [Runs -> Runs \cup {Null}]
      /\ generating' \in [Runs -> Runs \cup {Null}] /\ step' \in [Runs -> Steps]
  BY DEF RunTypeOK, Stage, Phases, Steps
<1>4. queue' \in [Runs -> Seq(Items)] /\ at' \in [Runs -> Items \cup {Null}] /\ cancelled' \subseteq Runs
  BY <1>1, <1>2 DEF RunTypeOK, Stage
<1>5. contended' \subseteq Runs
  BY ContendFacts DEF Stage
<1> QED BY <1>3, <1>4, <1>5 DEF RunTypeOK, historyVars

LEMMA StageKeeps ==
  ASSUME RunInv, NEW r \in Runs, NEW w \in Runs, Stage(r, w),
         phase[r] \in {"idle", "spawning", "waiting"},
         newest' \in {newest, w},
         UNCHANGED <<persist, stops, awaited, late, result, rebuilt, historyVars, disturbed>>
  PROVE  RunInv'
<1> USE DEF RunInv
<1>1. RunTypeOK'
  BY StageKeepsType
<1>2. /\ phase'[r] = "awaiting" /\ worker'[r] = w /\ step'[r] = "created"
      /\ at'[r] = <<r, 1>> /\ queue'[w] = Staged(r)
      /\ \A q \in Runs \ {r} : /\ phase'[q] = phase[q] /\ worker'[q] = worker[q]
                               /\ step'[q] = step[q] /\ at'[q] = at[q]
      /\ \A v \in Runs \ {w} : queue'[v] = queue[v]
  BY DEF RunTypeOK, Stage
<1>3. /\ contended \subseteq contended' /\ contended' \subseteq Runs
      /\ \A q \in contended' : q \in contended \/ q = r \/ phase[q] = "awaiting"
      /\ \A q \in Runs \ {r} : phase[q] = "awaiting" /\ worker[q] = w =>
           q \in contended' /\ r \in contended'
  BY ContendFacts DEF Stage
<1>4. UNCHANGED <<completed, swallowed, cutShort, rebuilt, result>>
  BY DEF historyVars
<1>5. TasksAwaited'
  <2>1. w # Null
    BY RunAssumption
  <2> QED BY <1>2, <2>1 DEF TasksAwaited, Active
<1>6. Exclusive'
  <2>1. ASSUME NEW p \in Runs, NEW q \in Runs, phase'[p] = "awaiting", p \notin contended',
               phase'[q] = "awaiting", worker'[q] = worker'[p]
        PROVE  q = p
    <3>1. CASE p = r
      BY <1>2, <1>3, <2>1, <3>1
    <3>2. CASE p # r /\ q = r
      BY <1>2, <1>3, <2>1, <3>2
    <3>3. CASE p # r /\ q # r
      BY <1>2, <1>3, <2>1, <3>3 DEF Exclusive
    <3> QED BY <3>1, <3>2, <3>3
  <2>2. \A q \in contended' : step'[q] # "none"
    BY <1>2, <1>3 DEF Exclusive, TasksAwaited
  <2> QED BY <2>1, <2>2 DEF Exclusive
<1>7. Owned'
  <2>1. ASSUME NEW q \in Runs, phase'[q] = "awaiting"
        PROVE  /\ OwnedBy(queue'[worker'[q]], {q} \cup contended')
               /\ Active(q)' => at'[q] \in Items /\ at'[q][1] \in {q} \cup contended'
    <3>1. CASE q = r
      <4>1. OwnedBy(queue'[worker'[q]], {q} \cup contended')
        BY <1>2, <3>1, OwnedStaged
      <4>2. at'[q] = <<q, 1>> /\ at'[q] \in Items
        BY <1>2, <3>1, RunAssumption DEF Items, Indices
      <4> QED BY <4>1, <4>2
    <3>2. CASE q # r
      <4>1. phase[q] = "awaiting" /\ worker'[q] = worker[q] /\ worker[q] \in Runs
        BY <1>2, <2>1, <3>2 DEF TasksAwaited, RunTypeOK
      <4>2. Active(q)' => at'[q] \in Items /\ at'[q][1] \in {q} \cup contended'
        BY <1>2, <1>3, <3>2, <4>1 DEF Owned, Active
      <4>3. CASE worker[q] = w
        <5>1. r \in {q} \cup contended' /\ queue'[worker'[q]] = Staged(r)
          BY <1>2, <1>3, <3>2, <4>1, <4>3
        <5> QED BY <4>2, <5>1, OwnedStaged
      <4>4. CASE worker[q] # w
        <5>1. queue'[worker'[q]] = queue[worker[q]] /\ OwnedBy(queue[worker[q]], {q} \cup contended)
          BY <1>2, <4>1, <4>4 DEF Owned
        <5>2. OwnedBy(queue[worker[q]], {q} \cup contended')
          BY <1>3, <5>1 DEF OwnedBy
        <5> QED BY <4>2, <5>1, <5>2
      <4> QED BY <4>3, <4>4
    <3> QED BY <3>1, <3>2
  <2> QED BY <2>1 DEF Owned
<1>8. QueueTells'
  <2>1. ASSUME NEW q \in Runs, phase'[q] = "awaiting", q \notin contended'
        PROVE  \E k \in 0..(Tasks - 1) : queue'[worker'[q]] = Rest(q, k) /\ Progress(q, k)'
    <3>1. CASE q = r
      <4>1. Tasks - 1 \in 0..(Tasks - 1)
        BY RunAssumption
      <4>2. queue'[worker'[q]] = Rest(q, Tasks - 1)
        BY <1>2, <3>1, StagedIsRest
      <4>3. \A i \in Indices : <<r, i>> \notin completed'
        BY <1>4 DEF QueueTells, TasksAwaited
      <4>4. Progress(q, Tasks - 1)'
        BY <1>2, <3>1, <4>3 DEF Progress, Ended
      <4> QED BY <4>1, <4>2, <4>4
    <3>2. CASE q # r
      <4>1. phase[q] = "awaiting" /\ q \notin contended /\ worker'[q] = worker[q] /\ worker[q] \in Runs \ {w}
        BY <1>2, <1>3, <2>1, <3>2 DEF TasksAwaited, RunTypeOK
      <4>2. PICK k \in 0..(Tasks - 1) : queue[worker[q]] = Rest(q, k) /\ Progress(q, k)
        BY <4>1 DEF QueueTells
      <4>3. Progress(q, k)'
        BY <1>2, <1>4, <3>2, <4>2 DEF Progress, Over
      <4> QED BY <1>2, <4>1, <4>2, <4>3
    <3> QED BY <3>1, <3>2
  <2>2. \A q \in Runs : step'[q] = "none" => \A i \in Indices : <<q, i>> \notin completed'
    BY <1>2, <1>4 DEF QueueTells
  <2> QED BY <2>1, <2>2 DEF QueueTells
<1>9. ResultsStand'
  <2>1. \A q \in Runs : result'[q] # Null => phase'[q] = "done"
    BY <1>2, <1>4 DEF ResultsStand
  <2>2. ResultTruthful'
    BY <1>3, <1>4 DEF ResultsStand, ResultTruthful, Truthful
  <2> QED BY <2>1, <2>2 DEF ResultsStand
<1> QED BY <1>1, <1>5, <1>6, <1>7, <1>8, <1>9

-----------------------------------------------------------------------------
(* A step of the generate() task of a run.                                 *)

LEMMA TaskStepKeeps ==
  ASSUME RunInv, NEW x \in Runs, Active(x),
         RunTypeOK',
         UNCHANGED <<phase, worker, result, contended>>,
         \A q \in Runs \ {x} : step'[q] = step[q] /\ at'[q] = at[q],
         \A v \in Runs \ {worker[x]} : queue'[v] = queue[v],
         step'[x] # "none",
         completed' = completed \/ completed' = completed \cup {at[x]},
         swallowed \subseteq swallowed',
         cutShort' = cutShort \/ cutShort' = cutShort \cup {x},
         rebuilt \subseteq rebuilt',
         OwnedBy(queue'[worker[x]], {x} \cup contended),
         Active(x)' => at'[x] \in Items /\ at'[x][1] \in {x} \cup contended,
         x \notin contended => \E k \in 0..(Tasks - 1) :
           queue'[worker[x]] = Rest(x, k) /\ Progress(x, k)'
  PROVE  RunInv'
<1> USE DEF RunInv
<1>1. phase[x] = "awaiting" /\ worker[x] \in Runs /\ at[x] \in Items /\ at[x][1] \in {x} \cup contended
  <2>1. phase[x] = "awaiting"
    BY DEF TasksAwaited
  <2>2. worker[x] \in Runs
    BY <2>1 DEF TasksAwaited, RunTypeOK
  <2>3. at[x] \in Items /\ at[x][1] \in {x} \cup contended
    BY <2>1 DEF Owned
  <2> QED BY <2>1, <2>2, <2>3
<1>2. TasksAwaited'
  BY <1>1 DEF TasksAwaited, Active
<1>3. Exclusive'
  BY DEF Exclusive, RunTypeOK
<1>4. \A q \in Runs : phase[q] = "awaiting" /\ worker[q] = worker[x] /\ q # x => x \in contended /\ q \in contended
  BY <1>1 DEF Exclusive
<1>5. \A q \in Runs \ {x} : q \notin contended =>
        \A i \in Indices : <<q, i>> \in completed' <=> <<q, i>> \in completed
  <2>1. ASSUME NEW q \in Runs \ {x}, q \notin contended, NEW i \in Indices
        PROVE  <<q, i>> # at[x]
    <3>1. <<q, i>>[1] = q
      OBVIOUS
    <3> QED BY <1>1, <2>1, <3>1
  <2> QED BY <2>1
<1>6. Owned'
  <2>1. ASSUME NEW q \in Runs, phase'[q] = "awaiting"
        PROVE  /\ OwnedBy(queue'[worker'[q]], {q} \cup contended')
               /\ Active(q)' => at'[q] \in Items /\ at'[q][1] \in {q} \cup contended'
    <3>1. CASE q = x
      BY <3>1
    <3>2. CASE q # x /\ worker[q] = worker[x]
      <4>1. {q} \cup contended = contended /\ {x} \cup contended = contended
        BY <1>4, <2>1, <3>2
      <4>2. Active(q)' => at'[q] \in Items /\ at'[q][1] \in {q} \cup contended'
        BY <2>1, <3>2 DEF Owned, Active
      <4> QED BY <3>2, <4>1, <4>2
    <3>3. CASE worker[q] # worker[x]
      <4>1. worker[q] \in Runs /\ q # x
        BY <2>1, <3>3 DEF TasksAwaited, RunTypeOK
      <4>2. queue'[worker'[q]] = queue[worker[q]]
        BY <3>3, <4>1
      <4>3. Active(q)' => at'[q] \in Items /\ at'[q][1] \in {q} \cup contended'
        BY <2>1, <4>1 DEF Owned, Active
      <4> QED BY <2>1, <4>2, <4>3 DEF Owned
    <3> QED BY <3>1, <3>2, <3>3
  <2> QED BY <2>1 DEF Owned
<1>7. QueueTells'
  <2>1. ASSUME NEW q \in Runs, phase'[q] = "awaiting", q \notin contended'
        PROVE  \E n \in 0..(Tasks - 1) : queue'[worker'[q]] = Rest(q, n) /\ Progress(q, n)'
    <3>1. CASE q = x
      BY <2>1, <3>1
    <3>2. CASE q # x
      <4>1. worker[q] \in Runs /\ worker[q] # worker[x]
        BY <1>4, <2>1, <3>2 DEF TasksAwaited, RunTypeOK
      <4>2. PICK n \in 0..(Tasks - 1) : queue[worker[q]] = Rest(q, n) /\ Progress(q, n)
        BY <2>1 DEF QueueTells
      <4>3. /\ step'[q] = step[q] /\ at'[q] = at[q] /\ (q \in cutShort' <=> q \in cutShort)
            /\ \A i \in Indices : <<q, i>> \in completed' <=> <<q, i>> \in completed
            /\ \A i \in Indices : <<q, i>> \in Over => <<q, i>> \in Over'
        BY <1>5, <2>1, <3>2 DEF Over
      <4>4. Progress(q, n)'
        BY <4>2, <4>3 DEF Progress
      <4> QED BY <4>1, <4>2, <4>4
    <3> QED BY <3>1, <3>2
  <2>2. \A q \in Runs : step'[q] = "none" => \A i \in Indices : <<q, i>> \notin completed'
    BY <1>5 DEF QueueTells, Exclusive
  <2> QED BY <2>1, <2>2 DEF QueueTells
<1>8. ResultsStand'
  <2>1. \A q \in Runs : result[q] # Null => phase[q] = "done" /\ q # x
    BY <1>1 DEF ResultsStand
  <2>2. ASSUME NEW q \in Runs \ contended, result[q] # Null
        PROVE  Truthful(q)'
    <3>1. q # x /\ Truthful(q)
      BY <2>1, <2>2 DEF ResultsStand, ResultTruthful
    <3>2. \A i \in Indices : <<q, i>> \in completed' <=> <<q, i>> \in completed
      BY <1>5, <2>2, <3>1
    <3>3. \A i \in Indices : <<q, i>> \notin completed' \cup swallowed' => <<q, i>> \notin completed \cup swallowed
      BY <3>2
    <3>4. cutShort \subseteq cutShort'
      OBVIOUS
    <3> QED BY <3>1, <3>2, <3>3, <3>4 DEF Truthful
  <2>3. ResultTruthful'
    BY <2>2 DEF ResultTruthful, Truthful
  <2> QED BY <2>1, <2>3 DEF ResultsStand
<1> QED BY <1>2, <1>3, <1>6, <1>7, <1>8

\* A task that is at work on a prompt, and what lies on its queue.
LEMMA AtWork ==
  ASSUME RunInv, NEW x \in Runs, step[x] \in {"working", "queued"}
  PROVE  /\ phase[x] = "awaiting" /\ worker[x] \in Runs /\ Active(x)
         /\ at[x] \in Items /\ at[x][1] \in {x} \cup contended
         /\ queue[worker[x]] \in Seq(Items) /\ OwnedBy(queue[worker[x]], {x} \cup contended)
         /\ x \notin contended => \E k \in 0..(Tasks - 1) :
              /\ queue[worker[x]] = Rest(x, k)
              /\ at[x] = <<x, Tasks - k>>
              /\ \A i \in Indices : <<x, i>> \in completed => i < Tasks - k
              /\ \A i \in Indices : i < Tasks - k => <<x, i>> \in Over
<1> USE DEF RunInv
<1>1. phase[x] = "awaiting" /\ worker[x] \in Runs /\ Active(x)
  BY DEF TasksAwaited, Active, RunTypeOK
<1>2. /\ at[x] \in Items /\ at[x][1] \in {x} \cup contended
      /\ queue[worker[x]] \in Seq(Items) /\ OwnedBy(queue[worker[x]], {x} \cup contended)
  BY <1>1 DEF Owned, RunTypeOK
<1>3. ASSUME x \notin contended
      PROVE  \E k \in 0..(Tasks - 1) :
               /\ queue[worker[x]] = Rest(x, k)
               /\ at[x] = <<x, Tasks - k>>
               /\ \A i \in Indices : <<x, i>> \in completed => i < Tasks - k
               /\ \A i \in Indices : i < Tasks - k => <<x, i>> \in Over
  <2>1. PICK k \in 0..(Tasks - 1) : queue[worker[x]] = Rest(x, k) /\ Progress(x, k)
    BY <1>1, <1>3 DEF QueueTells
  <2>2. CASE step[x] = "working"
    <3>1. k = Tasks - 1 /\ at[x] = <<x, 1>> /\ \A i \in Indices : <<x, i>> \notin completed
      BY <2>1, <2>2 DEF Progress
    <3>2. Tasks - k = 1
      BY <3>1, RunAssumption
    <3>3. \A i \in Indices : ~(i < Tasks - k)
      BY <3>2, RunAssumption DEF Indices
    <3> QED BY <2>1, <3>1, <3>2, <3>3
  <2>3. CASE step[x] = "queued"
    BY <2>1, <2>3 DEF Progress
  <2> QED BY <2>2, <2>3
<1> QED BY <1>1, <1>2, <1>3

\* The drain goes on behind a prompt that is over.
LEMMA NextPromptKeeps ==
  ASSUME RunInv, NEW x \in Runs, step[x] \in {"working", "queued"}, NextPrompt(x),
         \/ completed' = completed \cup {at[x]} /\ swallowed' = swallowed
         \/ completed' = completed /\ swallowed' = swallowed \cup {at[x]},
         rebuilt' = rebuilt \/ rebuilt' = rebuilt \cup {x},
         UNCHANGED <<persist, stops, runVars, newest, generating, cancelled, cutShort, contended>>,
         disturbed' \in Nat
  PROVE  RunInv'
<1> USE DEF RunInv
<1>1. /\ phase[x] = "awaiting" /\ worker[x] \in Runs /\ Active(x)
      /\ at[x] \in Items /\ at[x][1] \in {x} \cup contended
      /\ queue[worker[x]] \in Seq(Items) /\ OwnedBy(queue[worker[x]], {x} \cup contended)
  BY AtWork
<1>2. completed' \subseteq Items /\ swallowed' \subseteq Items /\ rebuilt' \subseteq Runs
  BY <1>1 DEF RunTypeOK
<1>3. UNCHANGED <<phase, worker, awaited, late, result>>
  BY DEF runVars
<1>4. Over' = Over \cup {at[x]}
  BY DEF Over
<1>5. ASSUME NEW k \in 0..(Tasks - 1), at[x] = <<x, Tasks - k>>,
             \A i \in Indices : <<x, i>> \in completed => i < Tasks - k,
             \A i \in Indices : i < Tasks - k => <<x, i>> \in Over
      PROVE  /\ \A i \in Indices : <<x, i>> \in completed' => i <= Tasks - k
             /\ \A i \in Indices : i <= Tasks - k => <<x, i>> \in Over'
  <2>1. Tasks - k \in Indices
    BY RunAssumption DEF Indices
  <2>2. ASSUME NEW i \in Indices, <<x, i>> \in completed' PROVE i <= Tasks - k
    <3>1. <<x, i>> \in completed \/ i = Tasks - k
      BY <1>5, <2>2
    <3> QED BY <1>5, <2>1, <3>1, RunAssumption DEF Indices
  <2>3. ASSUME NEW i \in Indices, i <= Tasks - k PROVE <<x, i>> \in Over'
    <3>1. i < Tasks - k \/ i = Tasks - k
      BY <2>1, <2>3, RunAssumption DEF Indices
    <3> QED BY <1>4, <1>5, <3>1
  <2> QED BY <2>2, <2>3
<1>6. CASE queue[worker[x]] = <<>>
  <2>1. /\ step' = [step EXCEPT ![x] = "ok"] /\ at' = [at EXCEPT ![x] = Null] /\ queue' = queue
    BY <1>6 DEF NextPrompt
  <2>2. RunTypeOK'
    BY <2>1, <1>2, <1>3 DEF RunTypeOK, Steps, Ended
  <2>3. /\ \A q \in Runs \ {x} : step'[q] = step[q] /\ at'[q] = at[q]
        /\ step'[x] = "ok" /\ ~Active(x)'
    BY <2>1 DEF RunTypeOK, Active
  <2>4. ASSUME x \notin contended
        PROVE  \E k \in 0..(Tasks - 1) : queue'[worker[x]] = Rest(x, k) /\ Progress(x, k)'
    <3>1. PICK k \in 0..(Tasks - 1) :
            /\ queue[worker[x]] = Rest(x, k)
            /\ at[x] = <<x, Tasks - k>>
            /\ \A i \in Indices : <<x, i>> \in completed => i < Tasks - k
            /\ \A i \in Indices : i < Tasks - k => <<x, i>> \in Over
      BY <2>4, AtWork
    <3>2. k = 0
      <4>1. Len(Rest(x, k)) = k
        BY RestIsSeq
      <4>2. Len(<<>>) = 0
        OBVIOUS
      <4> QED BY <1>6, <3>1, <4>1, <4>2
    <3>3. /\ \A i \in Indices : <<x, i>> \in completed' => i <= Tasks - k
          /\ \A i \in Indices : i <= Tasks - k => <<x, i>> \in Over'
      BY <1>5, <3>1
    <3>4. \A i \in Indices : i <= Tasks - k
      BY <3>2, RunAssumption DEF Indices
    <3>5. Progress(x, k)'
      BY <2>3, <3>3, <3>4 DEF Progress, Ended
    <3> QED BY <2>1, <3>1, <3>5
  <2> QED BY <1>1, <1>3, <2>1, <2>2, <2>3, <2>4, TaskStepKeeps
<1>7. CASE queue[worker[x]] # <<>>
  <2>1. /\ step' = [step EXCEPT ![x] = "queued"]
        /\ at' = [at EXCEPT ![x] = Head(queue[worker[x]])]
        /\ queue' = [queue EXCEPT ![worker[x]] = Tail(queue[worker[x]])]
    BY <1>7 DEF NextPrompt
  <2>2. /\ Head(queue[worker[x]]) \in Items /\ Head(queue[worker[x]])[1] \in {x} \cup contended
        /\ Tail(queue[worker[x]]) \in Seq(Items)
        /\ OwnedBy(Tail(queue[worker[x]]), {x} \cup contended)
    BY <1>1, <1>7, OwnedTail
  <2>3. RunTypeOK'
    BY <2>1, <2>2, <1>2, <1>3 DEF RunTypeOK, Steps
  <2>4. /\ step'[x] = "queued" /\ at'[x] = Head(queue[worker[x]])
        /\ queue'[worker[x]] = Tail(queue[worker[x]])
        /\ \A q \in Runs \ {x} : step'[q] = step[q] /\ at'[q] = at[q]
        /\ \A v \in Runs \ {worker[x]} : queue'[v] = queue[v]
    BY <2>1, <1>1 DEF RunTypeOK
  <2>5. ASSUME x \notin contended
        PROVE  \E k \in 0..(Tasks - 1) : queue'[worker[x]] = Rest(x, k) /\ Progress(x, k)'
    <3>1. PICK k \in 0..(Tasks - 1) :
            /\ queue[worker[x]] = Rest(x, k)
            /\ at[x] = <<x, Tasks - k>>
            /\ \A i \in Indices : <<x, i>> \in completed => i < Tasks - k
            /\ \A i \in Indices : i < Tasks - k => <<x, i>> \in Over
      BY <2>5, AtWork
    <3>2. k # 0
      BY <1>7, <3>1, EmptyIsRest
    <3>3. k \in 1..(Tasks - 1) /\ k - 1 \in 0..(Tasks - 1)
      BY <3>2, RunAssumption
    <3>4. at'[x] = <<x, Tasks - (k - 1)>> /\ queue'[worker[x]] = Rest(x, k - 1)
      BY <2>4, <3>1, <3>3, TakeOne
    <3>5. \A i \in Indices : i < Tasks - (k - 1) <=> i <= Tasks - k
      BY <3>3, RunAssumption DEF Indices
    <3>6. k - 1 < Tasks - 1
      BY <3>3, RunAssumption
    <3>7. /\ \A i \in Indices : <<x, i>> \in completed' => i <= Tasks - k
          /\ \A i \in Indices : i <= Tasks - k => <<x, i>> \in Over'
      BY <1>5, <3>1
    <3>8. Progress(x, k - 1)'
      BY <2>4, <3>4, <3>5, <3>6, <3>7 DEF Progress, Ended
    <3> QED BY <3>3, <3>4, <3>8
  <2> QED BY <1>1, <1>3, <2>2, <2>3, <2>4, <2>5, TaskStepKeeps
<1> QED BY <1>6, <1>7

\* The task ends, and its prompt goes back to the queue if it came from there.
LEMMA PutBackKeeps ==
  ASSUME RunInv, NEW x \in Runs, Active(x), PutBack(x), NEW s \in Ended,
         step' = [step EXCEPT ![x] = s],
         cutShort' = cutShort \/ cutShort' = cutShort \cup {x},
         s = "ok" => x \in cutShort',
         UNCHANGED <<persist, stops, runVars, newest, generating, rebuilt, at, cancelled, completed,
                     swallowed, contended>>,
         disturbed' \in Nat
  PROVE  RunInv'
<1> USE DEF RunInv
<1>1. /\ phase[x] = "awaiting" /\ worker[x] \in Runs /\ at[x] \in Items /\ at[x][1] \in {x} \cup contended
      /\ queue[worker[x]] \in Seq(Items) /\ OwnedBy(queue[worker[x]], {x} \cup contended)
  <2>1. phase[x] = "awaiting"
    BY DEF TasksAwaited
  <2>2. worker[x] \in Runs /\ queue[worker[x]] \in Seq(Items)
    BY <2>1 DEF TasksAwaited, RunTypeOK
  <2>3. /\ at[x] \in Items /\ at[x][1] \in {x} \cup contended
        /\ OwnedBy(queue[worker[x]], {x} \cup contended)
    BY <2>1 DEF Owned
  <2> QED BY <2>1, <2>2, <2>3
<1>2. /\ UNCHANGED <<phase, worker, awaited, late, result>> /\ cutShort' \subseteq Runs
      /\ step' \in [Runs -> Steps] /\ step'[x] = s /\ s # "none"
      /\ s \notin {"created", "working", "queued"}
      /\ \A q \in Runs \ {x} : step'[q] = step[q]
  BY DEF runVars, RunTypeOK, Steps, Ended
<1>3. Over' = Over /\ ~Active(x)'
  BY <1>2 DEF Over, Active
<1>4. CASE step[x] # "queued"
  <2>1. queue' = queue
    BY <1>4 DEF PutBack
  <2>2. RunTypeOK'
    BY <1>2, <2>1 DEF RunTypeOK
  <2>3. ASSUME x \notin contended
        PROVE  \E k \in 0..(Tasks - 1) : queue'[worker[x]] = Rest(x, k) /\ Progress(x, k)'
    <3>1. PICK k \in 0..(Tasks - 1) : queue[worker[x]] = Rest(x, k) /\ Progress(x, k)
      BY <1>1, <2>3 DEF QueueTells
    <3>2. k = Tasks - 1 /\ \A i \in Indices : <<x, i>> \notin completed
      BY <1>4, <3>1 DEF Progress, Active
    <3>3. \A i \in Indices : ~(i < Tasks - k)
      BY <3>2, RunAssumption DEF Indices
    <3>4. Progress(x, k)'
      BY <1>2, <3>2, <3>3 DEF Progress
    <3> QED BY <2>1, <3>1, <3>4
  <2> QED BY <1>1, <1>2, <1>3, <2>1, <2>2, <2>3, TaskStepKeeps
<1>5. CASE step[x] = "queued"
  <2>1. queue' = [queue EXCEPT ![worker[x]] = <<at[x]>> \o queue[worker[x]]]
    BY <1>5 DEF PutBack
  <2>2. /\ <<at[x]>> \o queue[worker[x]] \in Seq(Items)
        /\ OwnedBy(<<at[x]>> \o queue[worker[x]], {x} \cup contended)
    BY <1>1, OwnedFront
  <2>3. RunTypeOK'
    BY <1>2, <2>1, <2>2 DEF RunTypeOK
  <2>4. /\ queue'[worker[x]] = <<at[x]>> \o queue[worker[x]]
        /\ \A v \in Runs \ {worker[x]} : queue'[v] = queue[v]
    BY <1>1, <2>1 DEF RunTypeOK
  <2>5. ASSUME x \notin contended
        PROVE  \E k \in 0..(Tasks - 1) : queue'[worker[x]] = Rest(x, k) /\ Progress(x, k)'
    <3>1. PICK k \in 0..(Tasks - 1) : queue[worker[x]] = Rest(x, k) /\ Progress(x, k)
      BY <1>1, <2>5 DEF QueueTells
    <3>2. /\ k < Tasks - 1 /\ at[x] = <<x, Tasks - k>>
          /\ \A i \in Indices : <<x, i>> \in completed => i < Tasks - k
          /\ \A i \in Indices : i < Tasks - k => <<x, i>> \in Over
      BY <1>5, <3>1 DEF Progress
    <3>3. k \in 0..(Tasks - 2) /\ k + 1 \in 0..(Tasks - 1)
      BY <3>2, RunAssumption
    <3>4. queue'[worker[x]] = Rest(x, k + 1)
      BY <2>4, <3>1, <3>2, <3>3, PutOneBack
    <3>5. \A i \in Indices : (i < Tasks - (k + 1) => i < Tasks - k) /\ (i < Tasks - k => i <= Tasks - (k + 1))
      BY <3>3, RunAssumption DEF Indices
    <3>6. Progress(x, k + 1)'
      BY <1>2, <1>3, <3>2, <3>5 DEF Progress
    <3> QED BY <3>3, <3>4, <3>6
  <2> QED BY <1>1, <1>2, <1>3, <2>2, <2>3, <2>4, <2>5, TaskStepKeeps
<1> QED BY <1>4, <1>5

-----------------------------------------------------------------------------
(* Runs change their phase before they have a worker, or nobody does.      *)

\* A step of a run r that awaits no task before or after, or none at all.
LEMMA PhaseKeeps ==
  ASSUME RunInv, NEW r \in Runs,
         phase' = phase \/
           ( /\ phase[r] \in {"idle", "spawning"}
             /\ \E p \in {"spawning", "waiting", "raised", "done"} : phase' = [phase EXCEPT ![r] = p] ),
         \A q \in Runs \ {r} : worker'[q] = worker[q],
         worker' = worker \/ (phase'[r] = "waiting" /\ worker'[r] # Null /\ phase[r] = "idle"),
         phase'[r] = "waiting" => worker'[r] # Null,
         worker' \in [Runs -> Runs \cup {Null}], awaited' \in [Runs -> Runs \cup {Null}],
         UNCHANGED <<persist, stops, result, newest, generating, queue, rebuilt, step, at,
                     historyVars, contended>>,
         late' \subseteq Runs, cancelled' \subseteq Runs, disturbed' \in Nat
  PROVE  RunInv'
<1> USE DEF RunInv
<1>1. UNCHANGED <<completed, swallowed, cutShort>>
  BY DEF historyVars
<1>2. /\ \A q \in Runs \ {r} : phase'[q] = phase[q]
      /\ \A q \in Runs : phase'[q] = "awaiting" <=> phase[q] = "awaiting"
      /\ \A q \in Runs : phase'[q] = "awaiting" => worker'[q] = worker[q]
      /\ phase' \in [Runs -> Phases]
  BY DEF RunTypeOK, Phases
<1>3. RunTypeOK'
  BY <1>1, <1>2 DEF RunTypeOK
<1>4. TasksAwaited'
  <2>1. \A q \in Runs : phase'[q] \in {"waiting", "awaiting"} => worker'[q] # Null
    BY <1>2 DEF TasksAwaited
  <2>2. \A q \in Runs : phase'[q] \in {"idle", "spawning", "waiting", "raised"} => step'[q] = "none"
    BY <1>2 DEF TasksAwaited, RunTypeOK
  <2> QED BY <1>2, <2>1, <2>2 DEF TasksAwaited, Active
<1>5. Exclusive'
  BY <1>2 DEF Exclusive
<1>6. Owned'
  BY <1>2 DEF Owned, Active
<1>7. QueueTells'
  <2>1. ASSUME NEW q \in Runs, phase'[q] = "awaiting", q \notin contended'
        PROVE  \E k \in 0..(Tasks - 1) : queue'[worker'[q]] = Rest(q, k) /\ Progress(q, k)'
    <3>1. phase[q] = "awaiting" /\ worker'[q] = worker[q]
      BY <1>2, <2>1
    <3>2. PICK k \in 0..(Tasks - 1) : queue[worker[q]] = Rest(q, k) /\ Progress(q, k)
      BY <2>1, <3>1 DEF QueueTells
    <3>3. Progress(q, k)'
      BY <1>1, <3>2 DEF Progress, Over
    <3> QED BY <3>1, <3>2, <3>3
  <2> QED BY <1>1, <2>1 DEF QueueTells
<1>8. ResultsStand'
  <2>1. \A q \in Runs : result'[q] # Null => phase'[q] = "done"
    BY <1>2 DEF ResultsStand
  <2> QED BY <1>1, <2>1 DEF ResultsStand, ResultTruthful, Truthful
<1> QED BY <1>3, <1>4, <1>5, <1>6, <1>7, <1>8

-----------------------------------------------------------------------------
(* The steps of a run.                                                     *)

LEMMA BeginKeeps ==
  ASSUME RunInv, NEW r \in Runs, Begin(r)
  PROVE  RunInv'
<1> USE DEF RunInv
<1>1. phase[r] = "idle"
  BY DEF Begin
<1>2. CASE persist /\ newest # Null /\ Busy(newest)
  <2>1. /\ phase' = [phase EXCEPT ![r] = "waiting"]
        /\ worker' = [worker EXCEPT ![r] = newest]
        /\ awaited' = [awaited EXCEPT ![r] = generating[newest]]
        /\ UNCHANGED <<generating, queue, taskVars, contended>>
        /\ UNCHANGED <<persist, stops, late, result, newest, rebuilt, historyVars, disturbed>>
    BY <1>2 DEF Begin
  <2>2. newest \in Runs /\ newest # Null /\ generating[newest] \in Runs
    BY <1>2 DEF RunTypeOK, Busy
  <2>3. /\ phase'[r] = "waiting" /\ worker'[r] = newest
        /\ \A q \in Runs \ {r} : worker'[q] = worker[q]
        /\ worker' \in [Runs -> Runs \cup {Null}] /\ awaited' \in [Runs -> Runs \cup {Null}]
    BY <2>1, <2>2 DEF RunTypeOK
  <2>4. UNCHANGED <<step, at, cancelled>> /\ late' \subseteq Runs /\ cancelled' \subseteq Runs /\ disturbed' \in Nat
    BY <2>1 DEF RunTypeOK, taskVars
  <2>5. \E p \in {"spawning", "waiting", "raised", "done"} : phase' = [phase EXCEPT ![r] = p]
    BY <2>1
  <2> QED BY <1>1, <2>1, <2>2, <2>3, <2>4, <2>5, PhaseKeeps
<1>3. CASE persist /\ newest # Null /\ ~Busy(newest)
  <2>1. /\ Stage(r, newest) /\ newest \in Runs
        /\ UNCHANGED <<persist, stops, awaited, late, result, newest, rebuilt, historyVars, disturbed>>
    BY <1>3 DEF Begin, RunTypeOK
  <2> QED BY <1>1, <2>1, StageKeeps
<1>4. CASE ~(persist /\ newest # Null)
  <2>1. /\ phase' = [phase EXCEPT ![r] = "spawning"]
        /\ UNCHANGED <<worker, awaited, generating, queue, taskVars, contended>>
        /\ UNCHANGED <<persist, stops, late, result, newest, rebuilt, historyVars, disturbed>>
    BY <1>4 DEF Begin
  <2>2. /\ late' \subseteq Runs /\ cancelled' \subseteq Runs /\ disturbed' \in Nat
        /\ worker' \in [Runs -> Runs \cup {Null}] /\ awaited' \in [Runs -> Runs \cup {Null}]
        /\ phase'[r] = "spawning" /\ UNCHANGED <<step, at>>
    BY <2>1 DEF RunTypeOK, taskVars
  <2>3. \E p \in {"spawning", "waiting", "raised", "done"} : phase' = [phase EXCEPT ![r] = p]
    BY <2>1
  <2> QED BY <1>1, <2>1, <2>2, <2>3, PhaseKeeps
<1> QED BY <1>2, <1>3, <1>4

LEMMA SpawnedKeeps ==
  ASSUME RunInv, NEW r \in Runs, Spawned(r)
  PROVE  RunInv'
<1>1. newest' \in {newest, r} /\ phase[r] = "spawning" /\ Stage(r, r)
  BY DEF Spawned
<1>2. UNCHANGED <<persist, stops, awaited, late, result, rebuilt, historyVars, disturbed>>
  BY DEF Spawned
<1> QED BY <1>1, <1>2, StageKeeps

LEMMA ResumeKeeps ==
  ASSUME RunInv, NEW r \in Runs, Resume(r)
  PROVE  RunInv'
<1> DEFINE w == worker[r]
<1>1. phase[r] = "waiting" /\ Stage(r, w)
  BY DEF Resume
<1>2. w \in Runs
  BY <1>1 DEF RunInv, RunTypeOK, TasksAwaited
<1>3. UNCHANGED <<persist, stops, awaited, late, result, newest, rebuilt, historyVars, disturbed>>
  BY DEF Resume
<1> QED BY <1>1, <1>2, <1>3, StageKeeps

LEMMA SpawnFailsKeeps ==
  ASSUME RunInv, NEW r \in Runs, SpawnFails(r)
  PROVE  RunInv'
<1>1. phase[r] = "spawning" /\ phase' = [phase EXCEPT ![r] = "done"] /\ disturbed' = disturbed + 1
  BY DEF SpawnFails, Disturb
<1>2. UNCHANGED <<persist, stops, worker, awaited, late, result, workerVars, taskVars, historyVars, contended>>
  BY DEF SpawnFails
<1>3. /\ late' \subseteq Runs /\ cancelled' \subseteq Runs /\ disturbed' \in Nat
      /\ worker' \in [Runs -> Runs \cup {Null}] /\ awaited' \in [Runs -> Runs \cup {Null}]
      /\ phase'[r] = "done"
      /\ UNCHANGED <<newest, generating, queue, rebuilt, step, at>>
  BY <1>1, <1>2 DEF RunInv, RunTypeOK, workerVars, taskVars
<1>4. \E p \in {"spawning", "waiting", "raised", "done"} : phase' = [phase EXCEPT ![r] = p]
  BY <1>1
<1> QED BY <1>1, <1>2, <1>3, <1>4, PhaseKeeps

LEMMA CancelRunKeeps ==
  ASSUME RunInv, NEW r \in Runs, CancelRun(r)
  PROVE  RunInv'
<1>1. /\ UNCHANGED <<persist, stops, worker, awaited, result, workerVars, step, at, historyVars, contended>>
      /\ disturbed' = disturbed + 1
  BY DEF CancelRun, Disturb
<1>2. /\ disturbed' \in Nat /\ UNCHANGED <<newest, generating, queue, rebuilt>>
      /\ worker' \in [Runs -> Runs \cup {Null}] /\ awaited' \in [Runs -> Runs \cup {Null}]
  BY <1>1 DEF RunInv, RunTypeOK, workerVars
<1>3. late' \subseteq Runs /\ cancelled' \subseteq Runs
  BY DEF CancelRun, RunInv, RunTypeOK
<1>4. \/ phase' = phase
      \/ phase[r] = "spawning" /\ phase' = [phase EXCEPT ![r] = "raised"]
  BY DEF CancelRun
<1>5. phase'[r] = "waiting" => worker'[r] # Null
  BY <1>1, <1>4 DEF RunInv, RunTypeOK, TasksAwaited
<1>6. phase' = phase \/
        ( /\ phase[r] \in {"idle", "spawning"}
          /\ \E p \in {"spawning", "waiting", "raised", "done"} : phase' = [phase EXCEPT ![r] = p] )
  BY <1>4
<1> QED BY <1>1, <1>2, <1>3, <1>5, <1>6, PhaseKeeps

LEMMA ConcludeKeeps ==
  ASSUME RunInv, NEW r \in Runs, Conclude(r)
  PROVE  RunInv'
<1> USE DEF RunInv
<1> DEFINE w == worker[r]
           outcome == IF r \in late THEN "aborted" ELSE step[r]
           failing == FailingIndex(Tasks - 1 - Len(Pending(r)))
<1>1. /\ phase[r] = "awaiting" /\ step[r] \in Ended
      /\ phase' = [phase EXCEPT ![r] = "done"]
      /\ result' = [result EXCEPT ![r] = [status |-> outcome, tasks |-> TaskResults(outcome, failing)]]
      /\ queue' = queue \/ queue' = [queue EXCEPT ![w] = <<>>]
      /\ UNCHANGED <<persist, stops, worker, awaited, late, newest, generating, rebuilt, taskVars,
                     historyVars, contended, disturbed>>
  BY DEF Conclude
<1>2. w \in Runs
  BY <1>1 DEF RunTypeOK, TasksAwaited
<1>3. /\ phase'[r] = "done" /\ \A q \in Runs \ {r} : phase'[q] = phase[q] /\ result'[q] = result[q]
      /\ result'[r] = [status |-> outcome, tasks |-> TaskResults(outcome, failing)]
      /\ \A v \in Runs \ {w} : queue'[v] = queue[v]
      /\ queue'[w] \in {queue[w], <<>>}
      /\ UNCHANGED <<step, at, cancelled, completed, swallowed, cutShort>>
  BY <1>1, <1>2 DEF RunTypeOK, taskVars, historyVars
<1>4. RunTypeOK'
  <2>1. outcome \in Ended
    BY <1>1 DEF Ended
  <2>2. TaskResults(outcome, failing) \in [Indices -> Ended \cup {"skipped"}]
    BY <2>1 DEF TaskResults, Ended
  <2>3. result' \in [Runs -> Results \cup {Null}]
    BY <1>1, <2>1, <2>2 DEF RunTypeOK, Results
  <2>4. queue' \in [Runs -> Seq(Items)]
    <3>1. <<>> \in Seq(Items)
      OBVIOUS
    <3> QED BY <1>1, <3>1 DEF RunTypeOK
  <2>5. phase' \in [Runs -> Phases]
    BY <1>1 DEF RunTypeOK, Phases
  <2> QED BY <1>1, <1>3, <2>3, <2>4, <2>5 DEF RunTypeOK
<1>5. TasksAwaited'
  BY <1>1, <1>3 DEF TasksAwaited, Active, Ended
<1>6. Exclusive'
  BY <1>1, <1>3 DEF Exclusive
<1>7. Owned'
  <2>1. ASSUME NEW q \in Runs, phase'[q] = "awaiting"
        PROVE  /\ OwnedBy(queue'[worker'[q]], {q} \cup contended')
               /\ Active(q)' => at'[q] \in Items /\ at'[q][1] \in {q} \cup contended'
    <3>1. q # r /\ phase[q] = "awaiting" /\ worker[q] \in Runs /\ worker'[q] = worker[q]
      BY <1>1, <1>3, <2>1 DEF TasksAwaited, RunTypeOK
    <3>2. queue'[worker[q]] = queue[worker[q]] \/ queue'[worker[q]] = <<>>
      BY <1>3, <3>1
    <3>3. OwnedBy(<<>>, {q} \cup contended)
      BY DEF OwnedBy
    <3>4. Active(q)' => at'[q] \in Items /\ at'[q][1] \in {q} \cup contended'
      BY <1>1, <1>3, <3>1 DEF Owned, Active
    <3> QED BY <1>1, <3>1, <3>2, <3>3, <3>4 DEF Owned
  <2> QED BY <2>1 DEF Owned
<1>8. QueueTells'
  <2>1. ASSUME NEW q \in Runs, phase'[q] = "awaiting", q \notin contended'
        PROVE  \E k \in 0..(Tasks - 1) : queue'[worker'[q]] = Rest(q, k) /\ Progress(q, k)'
    <3>1. q # r /\ phase[q] = "awaiting" /\ q \notin contended /\ worker[q] \in Runs \ {w}
      BY <1>1, <1>3, <2>1 DEF Exclusive, TasksAwaited, RunTypeOK
    <3>2. PICK k \in 0..(Tasks - 1) : queue[worker[q]] = Rest(q, k) /\ Progress(q, k)
      BY <3>1 DEF QueueTells
    <3>3. Progress(q, k)'
      BY <1>1, <1>3, <3>2 DEF Progress, Over
    <3> QED BY <1>1, <1>3, <3>1, <3>2, <3>3
  <2> QED BY <1>1, <1>3, <2>1 DEF QueueTells
<1>9. ResultsStand'
  <2>1. \A q \in Runs : result'[q] # Null => phase'[q] = "done"
    BY <1>3 DEF ResultsStand
  <2>2. ASSUME NEW q \in Runs \ contended, q # r
        PROVE  Truthful(q)'
    BY <1>1, <1>3, <2>2 DEF ResultsStand, ResultTruthful, Truthful
  <2>3. ASSUME r \notin contended, NEW i \in Indices
        PROVE  /\ result'[r].tasks[i] = "skipped" => <<r, i>> \notin completed
               /\ result'[r].tasks[i] = "ok" /\ <<r, i>> \notin completed \cup swallowed =>
                    IF result'[r].status = "ok" THEN r \in cutShort ELSE r \in rebuilt
    <3>1. PICK k \in 0..(Tasks - 1) : queue[w] = Rest(r, k) /\ Progress(r, k)
      BY <1>1, <2>3 DEF QueueTells
    <3>2. /\ \A n \in Indices : n < Tasks - k => <<r, n>> \in completed \cup swallowed
          /\ \A n \in Indices : <<r, n>> \in completed => n <= Tasks - k
          /\ step[r] = "ok" /\ r \notin cutShort => \A n \in Indices : <<r, n>> \in completed \cup swallowed
      BY <1>1, <3>1 DEF Progress, Over
    <3>3. result'[r].status = outcome
          /\ result'[r].tasks[i] = IF outcome = "ok" \/ i < failing THEN "ok"
                                   ELSE IF i = failing THEN outcome ELSE "skipped"
      BY <1>3 DEF TaskResults
    <3>4. outcome \in Ended /\ (outcome = "ok" => step[r] = "ok")
      BY <1>1 DEF Ended
    <3>5. CASE r \in rebuilt
      <4>1. failing = Tasks
        <5>1. Len(Pending(r)) = 0
          BY <3>5 DEF Pending
        <5> QED BY <5>1, RunAssumption DEF FailingIndex
      <4>2. i < failing \/ i = failing
        BY <4>1, RunAssumption DEF Indices
      <4> HIDE DEF outcome, failing
      <4>3. result'[r].tasks[i] # "skipped"
        BY <3>3, <3>4, <4>2 DEF Ended
      <4> QED BY <3>2, <3>3, <3>4, <3>5, <4>3
    <3>6. CASE r \notin rebuilt
      <4>1. Len(Pending(r)) = k
        BY <3>1, <3>6, RestIsSeq DEF Pending
      <4>2. failing = Tasks - k
        BY <4>1, RunAssumption DEF FailingIndex
      <4>3. ~(i < Tasks - k) /\ i # Tasks - k => ~(i <= Tasks - k)
        BY <3>1, RunAssumption DEF Indices
      <4> HIDE DEF outcome, failing
      <4>4. result'[r].tasks[i] = "skipped" => <<r, i>> \notin completed
        BY <3>2, <3>3, <3>4, <4>2, <4>3 DEF Ended
      <4>5. result'[r].tasks[i] = "ok" /\ <<r, i>> \notin completed \cup swallowed => outcome = "ok" /\ r \in cutShort
        BY <3>2, <3>3, <3>4, <4>2 DEF Ended
      <4> QED BY <3>3, <4>4, <4>5
    <3> QED BY <3>5, <3>6
  <2>4. r \notin contended => Truthful(r)'
    BY <1>1, <1>3, <2>3 DEF Truthful
  <2>5. ResultTruthful'
    <3>1. \A q \in Runs \ contended : Truthful(q)'
      BY <2>2, <2>4
    <3> QED BY <1>1, <3>1 DEF ResultTruthful
  <2> QED BY <2>1, <2>5 DEF ResultsStand
<1> QED BY <1>4, <1>5, <1>6, <1>7, <1>8, <1>9

-----------------------------------------------------------------------------
(* The invariant, and what follows from it.                                *)

LEMMA RunInvInit == Init => RunInv
<1> SUFFICES ASSUME Init PROVE RunInv
  OBVIOUS
<1>1. RunTypeOK
  <2>1. <<>> \in Seq(Items)
    OBVIOUS
  <2> QED BY <2>1 DEF Init, RunTypeOK, Phases, Steps
<1>2. TasksAwaited /\ Exclusive /\ Owned
  BY DEF Init, TasksAwaited, Exclusive, Owned, Active
<1>3. QueueTells
  BY DEF Init, QueueTells
<1>4. ResultsStand
  BY DEF Init, ResultsStand, ResultTruthful, Truthful
<1> QED BY <1>1, <1>2, <1>3, <1>4 DEF RunInv

\* The first step of a generate() task.
LEMMA StartKeeps ==
  ASSUME RunInv, NEW x \in Runs, Start(x)
  PROVE  RunInv'
<1> USE DEF RunInv
<1>1. /\ step[x] = "created" /\ step' = [step EXCEPT ![x] = "working"]
      /\ UNCHANGED <<persist, stops, phase, worker, awaited, late, result, newest, generating,
                     queue, rebuilt, at, cancelled, completed, swallowed, cutShort, contended, disturbed>>
  BY DEF Start, runVars, workerVars, historyVars
<1>2. Active(x) /\ phase[x] = "awaiting" /\ worker[x] \in Runs
  BY <1>1 DEF Active, TasksAwaited, RunTypeOK
<1>3. step'[x] = "working" /\ \A q \in Runs \ {x} : step'[q] = step[q]
  BY <1>1 DEF RunTypeOK
<1>4. RunTypeOK'
  BY <1>1 DEF RunTypeOK, Steps
<1>5. OwnedBy(queue[worker[x]], {x} \cup contended) /\ at[x] \in Items /\ at[x][1] \in {x} \cup contended
  BY <1>2 DEF Owned
<1>6. ASSUME x \notin contended
      PROVE  \E k \in 0..(Tasks - 1) : queue'[worker[x]] = Rest(x, k) /\ Progress(x, k)'
  <2>1. PICK k \in 0..(Tasks - 1) : queue[worker[x]] = Rest(x, k) /\ Progress(x, k)
    BY <1>2, <1>6 DEF QueueTells
  <2>2. Progress(x, k)'
    BY <1>1, <1>3, <2>1 DEF Progress, Ended
  <2> QED BY <1>1, <2>1, <2>2
<1> QED BY <1>1, <1>2, <1>3, <1>4, <1>5, <1>6, TaskStepKeeps

\* Steps of the worker: starting, ending, skipping over and stopping at a prompt.
LEMMA WorkerKeeps ==
  ASSUME RunInv, NEW x \in Runs, Work(x) \/ Rebuild(x) \/ Raise(x) \/ Stop(x)
  PROVE  RunInv'
<1> USE DEF RunInv
<1>1. disturbed' = disturbed \/ disturbed' = disturbed + 1
  BY DEF Work, Start, Complete, Unwind, Rebuild, Raise, Stop, Disturb
<1>2. disturbed' \in Nat
  BY <1>1 DEF RunTypeOK
<1>3. CASE Start(x)
  BY <1>3, StartKeeps
<1>4. CASE Complete(x)
  BY <1>2, <1>4, NextPromptKeeps DEF Complete
<1>5. CASE Unwind(x)
  BY <1>2, <1>5, PutBackKeeps DEF Unwind, Ended, historyVars
<1>6. CASE Rebuild(x)
  BY <1>2, <1>6, NextPromptKeeps DEF Rebuild
<1>7. CASE Raise(x)
  <2>1. CASE step[x] = "working"
    <3>1. /\ step' = [step EXCEPT ![x] = "error"]
          /\ UNCHANGED <<persist, stops, runVars, newest, generating, rebuilt, at, cancelled, completed,
                         swallowed, cutShort, contended>>
          /\ PutBack(x)
      BY <1>7, <2>1 DEF Raise, PutBack
    <3>2. Active(x)
      BY <2>1 DEF Active
    <3> QED BY <1>2, <3>1, <3>2, PutBackKeeps DEF Ended
  <2>2. CASE step[x] # "working"
    <3>1. step[x] = "queued" /\ NextPrompt(x) /\ swallowed' = swallowed \cup {at[x]}
      BY <1>7, <2>2 DEF Raise
    <3>2. UNCHANGED <<persist, stops, runVars, newest, generating, rebuilt, cancelled, completed,
                      cutShort, contended>>
      BY <1>7 DEF Raise
    <3> QED BY <1>2, <3>1, <3>2, NextPromptKeeps
  <2> QED BY <2>1, <2>2
<1>8. CASE Stop(x)
  <2>1. Active(x) /\ PutBack(x) /\ step' = [step EXCEPT ![x] = "ok"] /\ cutShort' = cutShort \cup {x}
    BY <1>8 DEF Stop, Active
  <2>2. UNCHANGED <<persist, stops, runVars, newest, generating, rebuilt, at, cancelled, completed,
                    swallowed, contended>>
    BY <1>8 DEF Stop
  <2> QED BY <1>2, <2>1, <2>2, PutBackKeeps DEF Ended
<1> QED BY <1>3, <1>4, <1>5, <1>6, <1>7, <1>8 DEF Work

\* Every step of the runs keeps the invariant.
LEMMA RunInvKept ==
  ASSUME RunInv, [Next]_vars
  PROVE  RunInv'
<1>1. CASE Next
  <2>1. PICK r \in Runs :
          \/ Begin(r) \/ Go(r) \/ SpawnFails(r) \/ CancelRun(r)
          \/ Work(r) \/ Rebuild(r) \/ Raise(r) \/ Stop(r)
    BY <1>1 DEF Next
  <2>2. CASE Begin(r)
    BY <2>2, BeginKeeps
  <2>3. CASE Go(r)
    BY <2>3, SpawnedKeeps, ResumeKeeps, ConcludeKeeps DEF Go
  <2>4. CASE SpawnFails(r)
    BY <2>4, SpawnFailsKeeps
  <2>5. CASE CancelRun(r)
    BY <2>5, CancelRunKeeps
  <2>6. CASE Work(r) \/ Rebuild(r) \/ Raise(r) \/ Stop(r)
    BY <2>6, WorkerKeeps
  <2> QED BY <2>1, <2>2, <2>3, <2>4, <2>5, <2>6
<1>2. CASE UNCHANGED vars
  <2>1. /\ UNCHANGED <<persist, stops, phase, worker, awaited, late, result, newest, generating, queue,
                       rebuilt, step, at, cancelled, completed, swallowed, cutShort, contended, disturbed>>
    BY <1>2 DEF vars, runVars, workerVars, taskVars, historyVars
  <2>2. RunTypeOK' /\ TasksAwaited' /\ Exclusive' /\ Owned'
    BY <2>1 DEF RunInv, RunTypeOK, TasksAwaited, Active, Exclusive, Owned
  <2>3. QueueTells'
    BY <2>1 DEF RunInv, QueueTells, Progress, Over
  <2>4. ResultsStand'
    BY <2>1 DEF RunInv, ResultsStand, ResultTruthful, Truthful
  <2> QED BY <2>2, <2>3, <2>4 DEF RunInv
<1> QED BY <1>1, <1>2

LEMMA RunInvAlways == Spec => []RunInv
<1>1. RunInv /\ [Next]_vars => RunInv'
  BY RunInvKept
<1> QED BY <1>1, RunInvInit, PTL DEF Spec

\* The state of the runs, their workers and their tasks stays well-formed
\* (execute_workflow, start_generate_task, process_prompt_queue).
THEOREM RunTypeCorrect == Spec => []RunTypeOK
<1>1. RunInv => RunTypeOK
  BY DEF RunInv
<1> QED BY <1>1, RunInvAlways, PTL

\* For every number of runs that share the worker and of tasks, and whatever
\* disturbs them: what a run that does not contend for the worker reports as
\* skipped has not been processed; what it reports as ok has been, or has
\* raised on the queue, or lies behind a prompt that cut the run short, or is of
\* a run that failed on a rebuilt coder (_task_results, _failing_index).
THEOREM ResultsTruthful == Spec => []ResultTruthful
<1>1. RunInv => ResultTruthful
  BY DEF RunInv, ResultsStand
<1> QED BY <1>1, RunInvAlways, PTL

\* A run that does not contend for its worker processes its own tasks, none
\* twice and in order, whatever the runs before it have left on the worker
\* (_prepare_reused_worker).
THEOREM TasksInOrder == Spec => []OnlyOwnTasks
<1>1. RunInv => OnlyOwnTasks
  <2> SUFFICES ASSUME RunInv, NEW x \in Runs \ contended, step[x] = "queued"
               PROVE  /\ at[x][1] = x
                      /\ \A i \in Indices : <<x, i>> \in completed => i < at[x][2]
                      /\ \A i \in 1..(at[x][2] - 1) : <<x, i>> \in completed \cup swallowed
    BY DEF OnlyOwnTasks
  <2>1. PICK k \in 0..(Tasks - 1) :
          /\ at[x] = <<x, Tasks - k>>
          /\ \A i \in Indices : <<x, i>> \in completed => i < Tasks - k
          /\ \A i \in Indices : i < Tasks - k => <<x, i>> \in Over
    BY AtWork
  <2>2. at[x][1] = x /\ at[x][2] = Tasks - k
    BY <2>1
  <2>3. \A i \in 1..(Tasks - k - 1) : i \in Indices /\ i < Tasks - k
    BY RunAssumption DEF Indices
  <2> QED BY <2>1, <2>2, <2>3 DEF Over
<1> QED BY <1>1, RunInvAlways, PTL

=============================================================================
