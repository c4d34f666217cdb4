------------------------- MODULE AgentService_proofs -------------------------
(***************************************************************************)
(* Theorems about sub-agents (AgentService), for any number of spawns and  *)
(* events, any limit and any kinds:                                        *)
(*   AgentTypeCorrect  the type invariant, under any races;                *)
(*   LimitKept         max_sub_agents, under any races;                    *)
(*   ResultsDelivered  every yield of a child of the primary is told once; *)
(*   ReapersSafe       no reaper takes what is at work;                    *)
(*   StatusTruthful    statuses follow tasks;                              *)
(*   TreeFollows       every agent of the tree is where it belongs.        *)
(***************************************************************************)
EXTENDS AgentService, FiniteSetTheorems, TLAPS

-----------------------------------------------------------------------------
(* The tasks of one agent.                                                 *)

Stages == {"created", "generating", "ended"}

\* The stage of the last task; an agent without a task is as one whose is over.
Tip(s) == IF s = <<>> THEN "ended" ELSE s[Len(s)]
OnlyLast(s) == \A n \in 1..(Len(s) - 1) : s[n] = "ended"

LEMMA TipStages ==
  ASSUME NEW s \in Seq(Stages)
  PROVE  /\ Tip(s) \in Stages
         /\ (s # <<>> => Last(s) = "ended") <=> Tip(s) = "ended"
         /\ \A x \in {"created", "generating"} :
              /\ (s # <<>> /\ Last(s) = x) <=> Tip(s) = x
              /\ Tip(s) = x => s # <<>> /\ Len(s) \in DOMAIN s /\ s[Len(s)] = x
         /\ s # <<>> => Tip(s) = Last(s)
<1>1. s # <<>> => Len(s) \in DOMAIN s /\ s[Len(s)] \in Stages
  OBVIOUS
<1> QED BY <1>1 DEF Tip, Last, Stages

LEMMA TipAppended ==
  ASSUME NEW s \in Seq(Stages), NEW x \in Stages, NEW r, r = Append(s, x)
  PROVE  /\ r \in Seq(Stages) /\ r # <<>> /\ Tip(r) = x /\ Len(r) = Len(s) + 1
         /\ DOMAIN s \subseteq DOMAIN r /\ \A i \in DOMAIN s : r[i] = s[i]
         /\ Tip(s) = "ended" /\ OnlyLast(s) => OnlyLast(r)
<1>1. /\ r \in Seq(Stages) /\ Len(r) = Len(s) + 1 /\ r[Len(s) + 1] = x
      /\ \A i \in 1..Len(s) : r[i] = s[i]
      /\ DOMAIN s = 1..Len(s) /\ DOMAIN r = 1..(Len(s) + 1)
  OBVIOUS
<1>2. r # <<>> /\ Tip(r) = x
  BY <1>1 DEF Tip
<1>3. ASSUME Tip(s) = "ended", OnlyLast(s) PROVE OnlyLast(r)
  <2>1. SUFFICES ASSUME NEW n \in 1..Len(s) PROVE s[n] = "ended"
    BY <1>1 DEF OnlyLast
  <2>2. CASE n = Len(s)
    BY <1>3, <2>1, <2>2 DEF Tip
  <2>3. CASE n \in 1..(Len(s) - 1)
    BY <1>3, <2>3 DEF OnlyLast
  <2> QED BY <2>1, <2>2, <2>3
<1> QED BY <1>1, <1>2, <1>3

LEMMA TipChanged ==
  ASSUME NEW s \in Seq(Stages), NEW n \in DOMAIN s, NEW x \in Stages, NEW r, r = [s EXCEPT ![n] = x]
  PROVE  /\ r \in Seq(Stages) /\ Len(r) = Len(s) /\ DOMAIN r = DOMAIN s /\ r # <<>> /\ s # <<>>
         /\ r[n] = x /\ \A i \in DOMAIN s \ {n} : r[i] = s[i]
         /\ n = Len(s) => Tip(r) = x
         /\ n # Len(s) => Tip(r) = Tip(s)
         /\ OnlyLast(s) /\ n = Len(s) => OnlyLast(r)
<1>1. /\ r \in Seq(Stages) /\ Len(r) = Len(s) /\ DOMAIN r = DOMAIN s /\ r # <<>> /\ s # <<>>
      /\ r[n] = x /\ \A i \in DOMAIN s \ {n} : r[i] = s[i]
      /\ DOMAIN s = 1..Len(s) /\ Len(s) \in DOMAIN s
  OBVIOUS
<1>2. (n = Len(s) => Tip(r) = x) /\ (n # Len(s) => Tip(r) = Tip(s))
  BY <1>1 DEF Tip
<1>3. ASSUME OnlyLast(s), n = Len(s) PROVE OnlyLast(r)
  <2>1. SUFFICES ASSUME NEW i \in 1..(Len(s) - 1) PROVE r[i] = s[i] /\ s[i] = "ended"
    BY <1>1 DEF OnlyLast
  <2> QED BY <1>1, <1>3 DEF OnlyLast
<1> QED BY <1>1, <1>2, <1>3

\* With one task at work at most, it is the last.
LEMMA AtWorkIsLast ==
  ASSUME NEW s \in Seq(Stages), OnlyLast(s), NEW n \in DOMAIN s, s[n] # "ended"
  PROVE  n = Len(s) /\ Tip(s) = s[n]
<1>1. DOMAIN s = 1..Len(s) /\ s # <<>>
  OBVIOUS
<1> QED BY <1>1 DEF OnlyLast, Tip

-----------------------------------------------------------------------------
(* The invariants.                                                         *)

\* Tasks are there: those a cancellation is on its way to, those awaited and
\* those with a yield to tell.
TasksExist ==
  /\ \A t \in cancelled : t[2] \in DOMAIN run[t[1]]
  /\ \A p \in Actors : \A t \in awaited[p] : t[2] \in DOMAIN run[t[1]]
  /\ \A t \in owed : t[2] \in DOMAIN run[t[1]]

\* A sub-agent has its first task when it is registered, one that is waited for
\* has one, and each other task is an event.
TasksCounted ==
  /\ \A a \in Agents : Len(run[a]) <= events + 1
  /\ \A a \in Agents : phase[a] \in {"unused", "creating", "dropped"} => run[a] = <<>>
  /\ \A a \in Agents : waiter[a] = "spawning" => kind[a] \in Delegated
  /\ \A a \in Agents : waiter[a] = "waiting" => run[a] # <<>>

TypeInv == AgentTypeOK /\ TasksExist /\ TasksCounted

\* An agent whose first task has not started is as it was created: nothing but
\* the task itself takes its status away from "finished" and "error".
FirstTaskFresh ==
  \A a \in Agents : Len(run[a]) <= 1 /\ (run[a] # <<>> => run[a][1] = "created") => status[a] = "created"
LimitInv == TypeInv /\ FirstTaskFresh /\ LimitHolds

\* One task of an agent is at work at most.
OneAtWork == \A a \in Agents : OnlyLast(run[a])

\* An agent at work is running, or has yielded in that very run, which is noted
\* on children of the primary only.
WorkIsMarked ==
  \A a \in Agents : Tip(run[a]) = "generating" =>
    status[a] = "running" \/ (status[a] = "finished" /\ Current(a) \in owed /\ parent[a] = Primary)

\* A yield that is yet to be told to the primary is that of a run at work, and
\* it will be told when that run ends.
YieldIsHeld ==
  /\ strays = 0
  /\ \A t \in owed : parent[t[1]] = Primary =>
       t = Current(t[1]) /\ Tip(run[t[1]]) = "generating" /\ status[t[1]] = "finished"

\* What was removed while at work has a cancellation on its way.
GoneIsCancelled ==
  \A a \in Agents : Tip(run[a]) # "ended" /\ phase[a] # "live" => Current(a) \in cancelled

\* An agent with a delegation under way is at work.
DelegatesWork == \A a \in Agents : Outstanding(a) # {} => Tip(run[a]) = "generating"

WorkInv == TypeInv /\ OneAtWork /\ WorkIsMarked /\ YieldIsHeld /\ GoneIsCancelled /\ DelegatesWork

\* A tracked agent whose task is over is final, and none is cancelled before its
\* first step.
OverIsFinal == \A a \in Tracked : run[a] # <<>> /\ Tip(run[a]) = "ended" => status[a] \in Terminal
CancelledStarted ==
  \A t \in cancelled : phase[t[1]] = "live" => run[t[1]][t[2]] # "created"
StatusInv == WorkInv /\ OverIsFinal /\ CancelledStarted

-----------------------------------------------------------------------------
(* Types.                                                                  *)

FieldTypes ==
  /\ kind \in [Agents -> KindNames \cup {Null}]
  /\ parent \in [Agents -> Actors \cup {Null}]
TrackTypes ==
  /\ phase \in [Agents -> {"unused", "creating", "live", "gone", "dropped"}]
  /\ order \subseteq Tracked \X Tracked
  /\ \A a, b \in Tracked : <<a, b>> \in order <=> a # b /\ <<b, a>> \notin order
  /\ linger \subseteq Agents /\ instances \subseteq Agents
InfoTypes ==
  /\ status \in [Agents -> {"created", "running"} \cup Terminal]
  /\ cancelRequested \in [Agents -> BOOLEAN]
TaskTypes ==
  /\ run \in [Agents -> Seq(Stages)]
  /\ cancelled \subseteq Agents \X Runs
WaitTypes ==
  /\ waiter \in [Agents -> {"none", "spawning", "waiting"}]
  /\ yielding \in [Actors -> {"no", "tasks", "statuses"}]
  /\ awaited \in [Actors -> SUBSET (Agents \X Runs)]
  /\ interrupted \in BOOLEAN
HistoryTypes == owed \subseteq Agents \X Runs /\ strays \in Nat
Counted ==
  /\ events \in 0..MaxEvents
  /\ \A a \in Agents : Len(run[a]) <= events + 1
Placed ==
  /\ \A a \in Agents : phase[a] \in {"unused", "creating", "dropped"} => run[a] = <<>>
  /\ \A a \in Agents : waiter[a] = "spawning" => kind[a] \in Delegated
  /\ \A a \in Agents : waiter[a] = "waiting" => run[a] # <<>>

LEMMA TypeParts ==
  TypeInv <=> /\ FieldTypes /\ TrackTypes /\ InfoTypes /\ TaskTypes /\ WaitTypes /\ HistoryTypes
              /\ Counted /\ Placed /\ TasksExist
<1>1. MaxEvents \in Nat
  BY AgentAssumption
<1>2. ASSUME Counted, TaskTypes, NEW a \in Agents PROVE Len(run[a]) <= MaxEvents + 1
  BY <1>1, <1>2 DEF Counted, TaskTypes
<1>3. ASSUME FieldTypes, TrackTypes, InfoTypes, TaskTypes, WaitTypes, HistoryTypes, Counted, Placed, TasksExist
      PROVE  TypeInv
  <2>1. AgentTypeOK
    BY <1>2, <1>3 DEF AgentTypeOK, FieldTypes, TrackTypes, InfoTypes, TaskTypes, WaitTypes, HistoryTypes, Counted, Stages
  <2> QED BY <1>3, <2>1 DEF TypeInv, TasksCounted, Counted, Placed
<1>4. ASSUME TypeInv
      PROVE  /\ FieldTypes /\ TrackTypes /\ InfoTypes /\ TaskTypes /\ WaitTypes /\ HistoryTypes
             /\ Counted /\ Placed /\ TasksExist
  BY <1>4 DEF TypeInv, AgentTypeOK, TasksCounted, FieldTypes, TrackTypes, InfoTypes, TaskTypes, WaitTypes,
              HistoryTypes, Counted, Placed, Stages
<1> QED BY <1>3, <1>4

LEMMA TypePartsLater ==
  (/\ FieldTypes /\ TrackTypes /\ InfoTypes /\ TaskTypes /\ WaitTypes /\ HistoryTypes
   /\ Counted /\ Placed /\ TasksExist)' => TypeInv'
BY TypeParts, PTL

\* What a step leaves alone stays well typed.
LEMMA QuietTypes ==
  ASSUME TypeInv
  PROVE  /\ UNCHANGED fields => FieldTypes'
         /\ UNCHANGED <<phase, order, linger, instances>> => TrackTypes'
         /\ UNCHANGED infos => InfoTypes'
         /\ UNCHANGED tasks => TaskTypes'
         /\ UNCHANGED waits => WaitTypes'
         /\ UNCHANGED history => HistoryTypes'
         /\ UNCHANGED <<run, events>> => Counted'
         /\ UNCHANGED <<run, phase, waiter, kind>> => Placed'
         /\ UNCHANGED <<run, cancelled, awaited, owed>> => TasksExist'
<1>1. /\ FieldTypes /\ TrackTypes /\ InfoTypes /\ TaskTypes /\ WaitTypes /\ HistoryTypes
      /\ Counted /\ Placed /\ TasksExist
  BY TypeParts
<1>2. UNCHANGED <<phase, order, linger, instances>> => TrackTypes'
  BY <1>1 DEF TrackTypes, Tracked
<1>3. UNCHANGED fields => FieldTypes'
  BY <1>1 DEF FieldTypes, fields
<1>4. UNCHANGED infos => InfoTypes'
  BY <1>1 DEF InfoTypes, infos
<1>5. UNCHANGED tasks => TaskTypes'
  BY <1>1 DEF TaskTypes, tasks
<1>6. UNCHANGED waits => WaitTypes'
  BY <1>1 DEF WaitTypes, waits
<1>7. UNCHANGED history => HistoryTypes'
  BY <1>1 DEF HistoryTypes, history
<1>8. UNCHANGED <<run, events>> => Counted'
  BY <1>1 DEF Counted
<1>9. UNCHANGED <<run, phase, waiter, kind>> => Placed'
  BY <1>1 DEF Placed
<1>10. UNCHANGED <<run, cancelled, awaited, owed>> => TasksExist'
  BY <1>1 DEF TasksExist
<1> QED BY <1>2, <1>3, <1>4, <1>5, <1>6, <1>7, <1>8, <1>9, <1>10

LEMMA CurrentTask ==
  ASSUME TypeInv, NEW a \in Agents
  PROVE  /\ Done(a) <=> Tip(run[a]) = "ended"
         /\ run[a] \in Seq(Stages)
         /\ run[a] # <<>> => /\ Current(a) \in Agents \X Runs /\ Current(a)[1] = a
                             /\ Current(a)[2] = Len(run[a]) /\ Len(run[a]) \in DOMAIN run[a]
                             /\ run[a][Len(run[a])] = Tip(run[a]) /\ Tip(run[a]) = Last(run[a])
         /\ ~Done(a) => run[a] # <<>>
<1>1. run[a] \in Seq(Stages) /\ Len(run[a]) <= MaxEvents + 1 /\ MaxEvents \in Nat
  BY AgentAssumption DEF TypeInv, AgentTypeOK, Stages
<1>2. (run[a] # <<>> => Last(run[a]) = "ended") <=> Tip(run[a]) = "ended"
  BY <1>1, TipStages
<1>3. run[a] # <<>> => Len(run[a]) \in DOMAIN run[a] /\ Len(run[a]) \in Runs
  BY <1>1 DEF Runs
<1>4. run[a] # <<>> => run[a][Len(run[a])] = Tip(run[a]) /\ Tip(run[a]) = Last(run[a])
  BY <1>1 DEF Tip, Last
<1> QED BY <1>1, <1>2, <1>3, <1>4 DEF Done, Current

\* _cleanup_sub_agent.
LEMMA Removal ==
  ASSUME TypeInv, NEW s \in SUBSET Agents, Cleanup(s), linger' \subseteq Agents
  PROVE  /\ TrackTypes' /\ TaskTypes' /\ run' = run
         /\ \A a \in Agents : phase'[a] = IF a \in s THEN "gone" ELSE phase[a]
         /\ cancelled' = cancelled \cup Unfinished(s)
         /\ UNCHANGED <<events, waiter, kind>> => Counted' /\ Placed'
         /\ UNCHANGED awaited /\ owed' \subseteq owed => TasksExist'
<1>1. FieldTypes /\ TrackTypes /\ TaskTypes /\ TasksExist /\ Placed /\ Counted
  BY TypeParts
<1>2. /\ order' = order \cap Left(s) /\ instances' = instances \ s /\ run' = run
      /\ phase' = [a \in Agents |-> IF a \in s THEN "gone" ELSE phase[a]]
      /\ cancelled' = cancelled \cup Unfinished(s)
  BY DEF Cleanup
<1>3. Tracked' = Tracked \ s
  BY <1>2 DEF Tracked
<1>4. TrackTypes'
  <2>1. phase' \in [Agents -> {"unused", "creating", "live", "gone", "dropped"}]
    BY <1>1, <1>2 DEF TrackTypes
  <2>2. order' \subseteq Tracked' \X Tracked'
    BY <1>2, <1>3 DEF Left
  <2>3. \A a, b \in Tracked' : <<a, b>> \in order' <=> a # b /\ <<b, a>> \notin order'
    BY <1>1, <1>2, <1>3 DEF Left, TrackTypes
  <2> QED BY <1>1, <1>2, <2>1, <2>2, <2>3 DEF TrackTypes
<1>5. \A t \in Unfinished(s) : t \in Agents \X Runs /\ t[2] \in DOMAIN run[t[1]]
  BY CurrentTask DEF Unfinished
<1>6. TaskTypes'
  BY <1>1, <1>2, <1>5 DEF TaskTypes
<1>7. UNCHANGED <<events, waiter, kind>> => Counted' /\ Placed'
  <2>1. Placed' \/ ~UNCHANGED <<events, waiter, kind>>
    BY <1>1, <1>2 DEF Placed, TrackTypes
  <2>2. Counted' \/ ~UNCHANGED <<events, waiter, kind>>
    BY <1>1, <1>2 DEF Counted
  <2> QED BY <2>1, <2>2
<1>8. UNCHANGED awaited /\ owed' \subseteq owed => TasksExist'
  BY <1>1, <1>2, <1>5 DEF TasksExist
<1> QED BY <1>2, <1>4, <1>6, <1>7, <1>8

LEMMA TypesSpawn ==
  ASSUME TypeInv, NEW a \in Agents, Spawning(a)
  PROVE  TypeInv'
<1>1. FieldTypes /\ TrackTypes /\ InfoTypes /\ TaskTypes /\ WaitTypes /\ HistoryTypes /\ TasksExist /\ Placed /\ Counted
  BY TypeParts
<1>2. ASSUME NEW p \in Actors, NEW k \in Kinds[a], NEW w \in {"none", "spawning"}, SpawnBegin(p, a, k, w)
      PROVE  TypeInv'
  <2>1. /\ UNCHANGED <<infos, tasks, order, linger, yielding, awaited, interrupted, history, events>>
        /\ UNCHANGED <<run, cancelled, owed>>
        /\ kind' = [kind EXCEPT ![a] = k] /\ parent' = [parent EXCEPT ![a] = p]
        /\ phase' = [phase EXCEPT ![a] = "creating"] /\ waiter' = [waiter EXCEPT ![a] = w]
        /\ phase[a] = "unused" /\ instances' \subseteq instances \cup {a}
        /\ w = "spawning" => k \in Delegated
    BY <1>2 DEF SpawnBegin, tasks, history
  <2>2. k \in KindNames
    BY AgentAssumption
  <2>3. FieldTypes'
    BY <1>1, <2>1, <2>2 DEF FieldTypes
  <2>4. Tracked' = Tracked
    BY <1>1, <2>1 DEF Tracked, TrackTypes
  <2>5. TrackTypes'
    BY <1>1, <2>1, <2>4 DEF TrackTypes
  <2>6. WaitTypes'
    BY <1>1, <2>1 DEF WaitTypes
  <2>7. Placed'
    BY <1>1, <2>1 DEF Placed, TrackTypes, WaitTypes, FieldTypes
  <2> QED BY <2>1, <2>3, <2>5, <2>6, <2>7, QuietTypes, TypePartsLater
<1>3. ASSUME SpawnRegister(a)
      PROVE  TypeInv'
  <2>1. /\ UNCHANGED <<fields, infos, cancelled, linger, instances, yielding, awaited, interrupted, history, events, kind, owed>>
        /\ phase[a] = "creating" /\ phase' = [phase EXCEPT ![a] = "live"]
        /\ order' = order \cup (Tracked \X {a})
        /\ run' = IF kind[a] = "user" THEN run ELSE [run EXCEPT ![a] = <<"created">>]
        /\ waiter' = [waiter EXCEPT ![a] = IF waiter[a] = "spawning" THEN "waiting" ELSE waiter[a]]
    BY <1>3 DEF SpawnRegister, Joins, FirstTask, fields, history
  <2>2. run[a] = <<>>
    BY <1>1, <2>1 DEF Placed
  <2>3. a \notin Tracked /\ Tracked' = Tracked \cup {a}
    BY <1>1, <2>1 DEF Tracked, TrackTypes
  <2>4. TrackTypes'
    <3>1. order' \subseteq Tracked' \X Tracked'
      BY <1>1, <2>1, <2>3 DEF TrackTypes
    <3>2. \A b, c \in Tracked' : <<b, c>> \in order' <=> b # c /\ <<c, b>> \notin order'
      <4>1. SUFFICES ASSUME NEW b \in Tracked', NEW c \in Tracked'
                     PROVE  <<b, c>> \in order' <=> b # c /\ <<c, b>> \notin order'
        OBVIOUS
      <4>2. \A x, y : <<x, y>> \in order => x \in Tracked /\ y \in Tracked
        BY <1>1 DEF TrackTypes
      <4>3. \A x, y : <<x, y>> \in order' <=> <<x, y>> \in order \/ (x \in Tracked /\ y = a)
        BY <2>1
      <4>4. CASE b \in Tracked /\ c \in Tracked
        BY <1>1, <2>3, <4>3, <4>4 DEF TrackTypes
      <4>5. CASE b = a \/ c = a
        BY <2>3, <4>2, <4>3, <4>5
      <4> QED BY <2>3, <4>4, <4>5
    <3> QED BY <1>1, <2>1, <3>1, <3>2 DEF TrackTypes
  <2>5. PICK e : e = <<"created">> /\ e \in Seq(Stages) /\ Len(e) = 1 /\ e # <<>>
    <3>1. "created" \in Stages
      BY DEF Stages
    <3>2. \A x \in Stages : <<x>> \in Seq(Stages) /\ Len(<<x>>) = 1 /\ <<x>> # <<>>
      OBVIOUS
    <3> QED BY <3>1, <3>2
  <2>6. TaskTypes'
    BY <1>1, <2>1, <2>5 DEF TaskTypes
  <2>7. \A b \in Agents : b # a => run'[b] = run[b]
    BY <1>1, <2>1 DEF TaskTypes
  <2>8. run'[a] = run[a] \/ run'[a] = e
    BY <1>1, <2>1, <2>5 DEF TaskTypes
  <2>9. Counted'
    <3>1. 1 <= events + 1
      BY <1>1 DEF Counted
    <3> QED BY <1>1, <2>1, <2>5, <2>7, <2>8, <3>1 DEF Counted
  <2>10. TasksExist'
    <3>1. ASSUME NEW t \in Agents \X Runs, t[2] \in DOMAIN run[t[1]] PROVE t[2] \in DOMAIN run'[t[1]]
      BY <2>2, <2>7, <3>1
    <3> QED BY <1>1, <2>1, <3>1 DEF TasksExist, TaskTypes, WaitTypes, HistoryTypes
  <2>11. WaitTypes'
    BY <1>1, <2>1 DEF WaitTypes
  <2>12. Placed'
    <3>1. \A b \in Agents : phase'[b] \in {"unused", "creating", "dropped"} => run'[b] = <<>>
      BY <1>1, <2>1, <2>7 DEF Placed, TrackTypes
    <3>2. \A b \in Agents : waiter'[b] = "spawning" => kind'[b] \in Delegated
      BY <1>1, <2>1 DEF Placed, WaitTypes
    <3>3. waiter'[a] = "waiting" => run'[a] # <<>>
      <4>1. waiter[a] # "waiting"
        BY <1>1, <2>2 DEF Placed
      <4>2. waiter'[a] = "waiting" => kind[a] # "user"
        BY <1>1, <2>1, <4>1 DEF Placed, WaitTypes, Delegated
      <4> QED BY <1>1, <2>1, <2>5, <4>2 DEF TaskTypes
    <3>4. \A b \in Agents : b # a => (waiter'[b] = "waiting" => run'[b] # <<>>)
      BY <1>1, <2>1, <2>7 DEF Placed, WaitTypes
    <3> QED BY <3>1, <3>2, <3>3, <3>4 DEF Placed
  <2> QED BY <2>1, <2>4, <2>6, <2>9, <2>10, <2>11, <2>12, QuietTypes, TypePartsLater
<1>4. ASSUME SpawnTooLate(a) PROVE TypeInv'
  <2>1. PICK s \in SUBSET Agents :
        /\ UNCHANGED <<fields, infos, tasks, linger, waits, history, events, run, cancelled, awaited, owed, waiter, kind>>
        /\ order' = order \cap Left(s) /\ instances' = instances \ s /\ phase[a] = "creating"
        /\ phase' = [b \in Agents |-> IF b = a THEN "dropped" ELSE IF b \in s THEN "gone" ELSE phase[b]]
    BY <1>4 DEF SpawnTooLate, Oldest, Finished, fields, tasks, waits, history
  <2>2. Tracked' = Tracked \ s
    BY <2>1 DEF Tracked
  <2>3. TrackTypes'
    <3>1. order' \subseteq Tracked' \X Tracked'
      BY <2>1, <2>2 DEF Left
    <3>2. \A b, c \in Tracked' : <<b, c>> \in order' <=> b # c /\ <<c, b>> \notin order'
      BY <1>1, <2>1, <2>2 DEF Left, TrackTypes
    <3> QED BY <1>1, <2>1, <3>1, <3>2 DEF TrackTypes
  <2>4. Placed'
    BY <1>1, <2>1 DEF Placed, TrackTypes
  <2> QED BY <2>1, <2>3, <2>4, QuietTypes, TypePartsLater
<1>5. ASSUME SpawnDies(a) PROVE TypeInv'
  <2>1. /\ UNCHANGED <<fields, infos, tasks, order, linger, instances, waits, history, events, run, cancelled, awaited, owed, waiter, kind>>
        /\ phase[a] = "creating" /\ phase' = [phase EXCEPT ![a] = "dropped"]
    BY <1>5 DEF SpawnDies, fields, tasks, waits, history
  <2>2. Tracked' = Tracked
    BY <1>1, <2>1 DEF Tracked, TrackTypes
  <2>3. TrackTypes'
    BY <1>1, <2>1, <2>2 DEF TrackTypes
  <2>4. Placed'
    BY <1>1, <2>1 DEF Placed, TrackTypes
  <2> QED BY <2>1, <2>3, <2>4, QuietTypes, TypePartsLater
<1> QED BY <1>2, <1>3, <1>4, <1>5 DEF Spawning

\* A task changes its stage.
LEMMA TaskChanged ==
  ASSUME TypeInv, NEW a \in Agents, NEW n \in DOMAIN run[a], NEW x \in Stages,
         run' = [run EXCEPT ![a][n] = x]
  PROVE  /\ run' \in [Agents -> Seq(Stages)]
         /\ run'[a] = [run[a] EXCEPT ![n] = x]
         /\ \A b \in Agents : b # a => run'[b] = run[b]
         /\ \A b \in Agents : /\ Len(run'[b]) = Len(run[b]) /\ DOMAIN run'[b] = DOMAIN run[b]
                              /\ run'[b] = <<>> <=> run[b] = <<>>
         /\ UNCHANGED events => Counted'
         /\ UNCHANGED <<phase, waiter, kind>> => Placed'
         /\ cancelled' \subseteq cancelled /\ UNCHANGED awaited /\ owed' \subseteq owed => TaskTypes' /\ TasksExist'
<1>1. TaskTypes /\ TasksExist /\ Counted /\ Placed /\ WaitTypes /\ HistoryTypes
  BY TypeParts
<1>2. PICK r : r = [run[a] EXCEPT ![n] = x]
  OBVIOUS
<1>3. run' = [run EXCEPT ![a] = r] /\ run[a] \in Seq(Stages)
  BY <1>1, <1>2 DEF TaskTypes
<1>4. r \in Seq(Stages) /\ Len(r) = Len(run[a]) /\ DOMAIN r = DOMAIN run[a] /\ r # <<>> /\ run[a] # <<>>
  BY <1>2, <1>3, TipChanged
<1>5. run' \in [Agents -> Seq(Stages)] /\ run'[a] = r /\ \A b \in Agents : b # a => run'[b] = run[b]
  BY <1>1, <1>3, <1>4 DEF TaskTypes
<1>6. \A b \in Agents : /\ Len(run'[b]) = Len(run[b]) /\ DOMAIN run'[b] = DOMAIN run[b]
                        /\ run'[b] = <<>> <=> run[b] = <<>>
  BY <1>4, <1>5
<1>7. UNCHANGED events => Counted'
  BY <1>1, <1>6 DEF Counted
<1>8. UNCHANGED <<phase, waiter, kind>> => Placed'
  BY <1>1, <1>6 DEF Placed
<1>9. ASSUME cancelled' \subseteq cancelled, UNCHANGED awaited, owed' \subseteq owed PROVE TaskTypes' /\ TasksExist'
  <2>1. TaskTypes'
    BY <1>1, <1>5, <1>9 DEF TaskTypes
  <2>2. ASSUME NEW t \in Agents \X Runs PROVE DOMAIN run'[t[1]] = DOMAIN run[t[1]]
    BY <1>6
  <2>3. TasksExist'
    BY <1>1, <1>9, <2>2 DEF TasksExist, TaskTypes, WaitTypes, HistoryTypes
  <2> QED BY <2>1, <2>3
<1> QED BY <1>2, <1>5, <1>6, <1>7, <1>8, <1>9

LEMMA TypesRun ==
  ASSUME TypeInv, NEW a \in Agents, Running(a)
  PROVE  TypeInv'
<1>0. "generating" \in Stages /\ "ended" \in Stages
  BY DEF Stages
<1>1. FieldTypes /\ TrackTypes /\ InfoTypes /\ TaskTypes /\ WaitTypes /\ HistoryTypes /\ TasksExist /\ Placed /\ Counted
  BY TypeParts
<1>2. PICK n \in DOMAIN run[a] :
        FirstStep(a, n) \/ NeverStarts(a, n) \/ Returns(a, n) \/ CancelledOut(a, n) \/ Fails(a, n)
  BY DEF Running
<1>3. PICK x \in Stages : run' = [run EXCEPT ![a][n] = x] /\ cancelled' \subseteq cancelled
  BY <1>0, <1>2 DEF FirstStep, NeverStarts, Returns, CancelledOut, Fails, End
<1>4. /\ UNCHANGED <<fields, phase, order, instances, waits, awaited, waiter, kind>>
      /\ linger' = linger \/ linger' = linger \cup {a}
  BY <1>2 DEF FirstStep, NeverStarts, Returns, CancelledOut, Fails, fields, tracking, waits
<1>5. InfoTypes'
  <2>1. CASE FirstStep(a, n)
    BY <1>1, <2>1 DEF FirstStep, InfoTypes
  <2>2. CASE NeverStarts(a, n)
    BY <1>1, <2>2 DEF NeverStarts, InfoTypes, infos
  <2>3. CASE Returns(a, n)
    BY <1>1, <2>3 DEF Returns, Finish, InfoTypes, Terminal
  <2>4. CASE CancelledOut(a, n)
    BY <1>1, <2>4 DEF CancelledOut, InfoTypes, Terminal
  <2>5. CASE Fails(a, n)
    BY <1>1, <2>5 DEF Fails, InfoTypes, Terminal
  <2> QED BY <1>2, <2>1, <2>2, <2>3, <2>4, <2>5
<1>6. owed' \subseteq owed /\ strays' \in Nat
  BY <1>1, <1>2 DEF FirstStep, NeverStarts, Returns, CancelledOut, Fails, Inject, Tell, history, HistoryTypes
<1>7. HistoryTypes'
  BY <1>1, <1>6 DEF HistoryTypes
<1>8. TrackTypes'
  BY <1>1, <1>4 DEF TrackTypes, Tracked
<1>9. TaskTypes' /\ TasksExist' /\ Placed'
  BY <1>3, <1>4, <1>6, TaskChanged
<1>10. Counted'
  <2>1. CASE UNCHANGED events
    BY <1>3, <2>1, TaskChanged
  <2>2. CASE events' = events + 1 /\ events < MaxEvents
    <3>1. \A b \in Agents : Len(run'[b]) = Len(run[b]) /\ Len(run[b]) \in Nat
      BY <1>1, <1>3, TaskChanged DEF TaskTypes
    <3>2. MaxEvents \in Nat
      BY AgentAssumption
    <3> QED BY <1>1, <2>2, <3>1, <3>2 DEF Counted
  <2> QED BY <1>2, <2>1, <2>2 DEF FirstStep, NeverStarts, Returns, CancelledOut, Fails, Event
<1> QED BY <1>4, <1>5, <1>7, <1>8, <1>9, <1>10, QuietTypes, TypePartsLater

LEMMA TypesMessage ==
  ASSUME TypeInv, NEW a \in Agents, Message(a)
  PROVE  TypeInv'
<1>1. FieldTypes /\ TrackTypes /\ InfoTypes /\ TaskTypes /\ WaitTypes /\ HistoryTypes /\ TasksExist /\ Placed /\ Counted
  BY TypeParts
<1>2. PICK r : r = Append(run[a], "created")
  OBVIOUS
<1>3. /\ UNCHANGED <<fields, infos, waits, history, phase, order, linger, instances, owed, awaited, waiter, kind>>
      /\ phase[a] = "live" /\ events < MaxEvents /\ events' = events + 1
      /\ run' = [run EXCEPT ![a] = r]
      /\ cancelled' = IF Done(a) THEN cancelled ELSE cancelled \cup {Current(a)}
  BY <1>2 DEF Message, Event, Tracked, fields, infos, tracking, waits, history
<1>4. run[a] \in Seq(Stages) /\ "created" \in Stages
  BY <1>1 DEF TaskTypes, Stages
<1>5. r \in Seq(Stages) /\ Len(r) = Len(run[a]) + 1 /\ DOMAIN run[a] \subseteq DOMAIN r /\ r # <<>>
  BY <1>2, <1>4, TipAppended
<1>6. \A b \in Agents : b # a => run'[b] = run[b]
  BY <1>1, <1>3 DEF TaskTypes
<1>7. run'[a] = r
  BY <1>1, <1>3 DEF TaskTypes
<1>8. Counted'
  <2>1. MaxEvents \in Nat /\ events \in Nat /\ events' \in 0..MaxEvents
    BY <1>1, <1>3, AgentAssumption DEF Counted
  <2>2. ASSUME NEW b \in Agents PROVE Len(run'[b]) <= events' + 1
    <3>1. PICK k \in Nat : k = Len(run[b]) /\ k <= events + 1
      BY <1>1 DEF Counted, TaskTypes
    <3>2. Len(run'[b]) = k \/ Len(run'[b]) = k + 1
      BY <1>5, <1>6, <1>7, <3>1
    <3> QED BY <1>3, <2>1, <3>1, <3>2
  <2> QED BY <2>1, <2>2 DEF Counted
<1>9. TaskTypes' /\ TasksExist'
  <2>1. ~Done(a) => Current(a) \in Agents \X Runs /\ Current(a)[2] \in DOMAIN run[Current(a)[1]]
    BY CurrentTask
  <2>2. TaskTypes'
    BY <1>1, <1>3, <1>5, <2>1 DEF TaskTypes
  <2>3. ASSUME NEW t \in Agents \X Runs, t[2] \in DOMAIN run[t[1]] PROVE t[2] \in DOMAIN run'[t[1]]
    BY <1>5, <1>6, <1>7, <2>3
  <2>4. TasksExist'
    BY <1>1, <1>3, <2>1, <2>3 DEF TasksExist, TaskTypes, WaitTypes, HistoryTypes
  <2> QED BY <2>2, <2>4
<1>10. Placed'
  BY <1>1, <1>3, <1>5, <1>6, <1>7 DEF Placed
<1> QED BY <1>3, <1>8, <1>9, <1>10, QuietTypes, TypePartsLater

\* A step that ends at most by removing agents.
LEMMA TypesRemove ==
  ASSUME TypeInv, NEW s \in SUBSET Agents, Cleanup(s), linger' \subseteq Agents, owed' \subseteq owed,
         UNCHANGED <<fields, awaited, waiter>>, FieldTypes', InfoTypes', WaitTypes', HistoryTypes',
         events' = events \/ (events' = events + 1 /\ events < MaxEvents)
  PROVE  TypeInv'
<1>1. Counted /\ TaskTypes
  BY TypeParts
<1>2. UNCHANGED kind
  BY DEF fields
<1>3. TrackTypes' /\ TaskTypes' /\ UNCHANGED run /\ TasksExist'
  BY Removal
<1>4. Placed'
  <2>1. \A a \in Agents : phase'[a] = IF a \in s THEN "gone" ELSE phase[a]
    BY Removal
  <2>2. Placed
    BY TypeParts
  <2> QED BY <1>2, <1>3, <2>1, <2>2 DEF Placed
<1>5. Counted'
  <2>1. MaxEvents \in Nat
    BY AgentAssumption
  <2>2. \A b \in Agents : Len(run[b]) \in Nat
    BY <1>1 DEF TaskTypes
  <2> QED BY <1>1, <1>3, <2>1, <2>2 DEF Counted
<1> QED BY <1>3, <1>4, <1>5, TypePartsLater

LEMMA EligibleAgents == Finished \subseteq Agents /\ Oldest(Finished) \subseteq Agents
BY DEF Finished, Oldest

LEMMA TypesYield ==
  ASSUME TypeInv, NEW p \in Actors, SpawnRefused(p) \/ Yielding(p)
  PROVE  TypeInv'
<1>1. FieldTypes /\ TrackTypes /\ InfoTypes /\ TaskTypes /\ WaitTypes /\ HistoryTypes /\ TasksExist /\ Placed /\ Counted
  BY TypeParts
<1>2. CASE SpawnRefused(p)
  <2>1. Cleanup(Oldest(Finished)) /\ UNCHANGED <<fields, infos, linger, waits, history, events, owed, awaited, waiter>>
    BY <1>2 DEF SpawnRefused, LazyReap, waits, history
  <2>2. linger' \subseteq Agents
    BY <1>1, <2>1 DEF TrackTypes
  <2>3. FieldTypes' /\ InfoTypes' /\ WaitTypes' /\ HistoryTypes'
    BY <2>1, QuietTypes
  <2>4. UNCHANGED <<fields, awaited, waiter>> /\ owed' \subseteq owed /\ events' = events
    BY <2>1
  <2> QED BY <2>1, <2>2, <2>3, <2>4, EligibleAgents, TypesRemove
<1>3. CASE Yield(p)
  <2>1. /\ Cleanup(Finished) /\ UNCHANGED <<fields, cancelRequested, linger, waits, strays, events, awaited, waiter, kind>>
        /\ AtWork(p)
        /\ status' = [status EXCEPT ![p] = "finished"] \/ UNCHANGED status
        /\ owed' = IF p = Primary THEN owed ELSE owed \cup {Current(p)}
    BY <1>3 DEF Yield, waits, fields
  <2>2. linger' \subseteq Agents
    BY <1>1, <2>1 DEF TrackTypes
  <2>3. TrackTypes' /\ TaskTypes' /\ UNCHANGED run /\ Counted' /\ Placed'
    BY <2>1, <2>2, EligibleAgents, Removal
  <2>4. p = Primary \/ (Current(p) \in Agents \X Runs /\ Current(p)[2] \in DOMAIN run[Current(p)[1]])
    <3>1. p # Primary => p \in Agents /\ ~Done(p)
      BY <2>1 DEF AtWork, Actors
    <3> QED BY <3>1, CurrentTask
  <2>5. InfoTypes'
    BY <1>1, <2>1 DEF InfoTypes, Terminal
  <2>6. HistoryTypes'
    BY <1>1, <2>1, <2>4 DEF HistoryTypes
  <2>7. TasksExist'
    <3>1. \A t \in cancelled' : t[2] \in DOMAIN run[t[1]]
      <4>1. cancelled' = cancelled \cup Unfinished(Finished)
        BY <2>1 DEF Cleanup
      <4>2. \A t \in Unfinished(Finished) : t[2] \in DOMAIN run[t[1]]
        BY CurrentTask, EligibleAgents DEF Unfinished
      <4> QED BY <1>1, <4>1, <4>2 DEF TasksExist
    <3> QED BY <1>1, <2>1, <2>3, <2>4, <3>1 DEF TasksExist
  <2>8. WaitTypes' /\ FieldTypes'
    BY <2>1, QuietTypes
  <2> QED BY <2>3, <2>5, <2>6, <2>7, <2>8, TypePartsLater
<1>4. CASE YieldWaits(p)
  <2>1. /\ UNCHANGED <<fields, infos, tasks, phase, order, linger, instances, waiter, interrupted, history, events, run, cancelled, owed, kind>>
        /\ yielding' = [yielding EXCEPT ![p] = "tasks"]
        /\ awaited' = [awaited EXCEPT ![p] = {Current(a) : a \in Busy(p)}]
    BY <1>4 DEF YieldWaits, tasks, tracking, history, fields
  <2>2. \A a \in Busy(p) : a \in Agents /\ ~Done(a)
    BY DEF Busy, Dependents, Children, Tracked
  <2>3. \A t \in {Current(a) : a \in Busy(p)} : t \in Agents \X Runs /\ t[2] \in DOMAIN run[t[1]]
    BY <2>2, CurrentTask
  <2>4. WaitTypes'
    BY <1>1, <2>1, <2>3 DEF WaitTypes
  <2>5. TasksExist'
    BY <1>1, <2>1, <2>3 DEF TasksExist, WaitTypes
  <2> QED BY <2>1, <2>4, <2>5, QuietTypes, TypePartsLater
<1>5. ASSUME awaited' = [awaited EXCEPT ![p] = {}],
             yielding' = [yielding EXCEPT ![p] = "statuses"] \/ yielding' = [yielding EXCEPT ![p] = "no"],
             UNCHANGED <<waiter, interrupted>>
      PROVE  WaitTypes' /\ (UNCHANGED <<run, cancelled, owed>> => TasksExist')
  BY <1>1, <1>5 DEF WaitTypes, TasksExist
<1>6. CASE YieldPolls(p)
  <2>1. /\ UNCHANGED <<fields, infos, tasks, phase, order, linger, instances, waiter, interrupted, history, events, run, cancelled, owed, kind>>
        /\ yielding' = [yielding EXCEPT ![p] = "statuses"]
        /\ awaited' = [awaited EXCEPT ![p] = {}]
    BY <1>6 DEF YieldPolls, tasks, tracking, history, fields
  <2> QED BY <1>5, <2>1, QuietTypes, TypePartsLater
<1>7. CASE YieldCancelled(p)
  <2>1. /\ UNCHANGED <<fields, infos, tasks, phase, order, linger, instances, waiter, interrupted, history, events, run, cancelled, owed, kind>>
        /\ yielding' = [yielding EXCEPT ![p] = "no"]
        /\ awaited' = [awaited EXCEPT ![p] = {}]
    BY <1>7 DEF YieldCancelled, Leave, tasks, tracking, history, fields
  <2> QED BY <1>5, <2>1, QuietTypes, TypePartsLater
<1>8. ASSUME Cleanup(Finished), UNCHANGED <<fields, infos, linger, history>>, Leave(p),
             events' = events \/ (events' = events + 1 /\ events < MaxEvents)
      PROVE  TypeInv'
  <2>1. /\ awaited' = [awaited EXCEPT ![p] = {}] /\ yielding' = [yielding EXCEPT ![p] = "no"]
        /\ UNCHANGED <<waiter, interrupted, kind, owed>>
    BY <1>8 DEF Leave, fields, history
  <2>2. linger' \subseteq Agents
    BY <1>1, <1>8 DEF TrackTypes
  <2>3. /\ TrackTypes' /\ TaskTypes' /\ UNCHANGED run /\ cancelled' = cancelled \cup Unfinished(Finished)
        /\ \A a \in Agents : phase'[a] = IF a \in Finished THEN "gone" ELSE phase[a]
    BY <1>8, <2>2, EligibleAgents, Removal
  <2>4. WaitTypes'
    BY <1>5, <2>1
  <2>5. TasksExist'
    <3>1. \A t \in Unfinished(Finished) : t[2] \in DOMAIN run[t[1]]
      BY CurrentTask, EligibleAgents DEF Unfinished
    <3> QED BY <1>1, <2>1, <2>3, <3>1 DEF TasksExist, WaitTypes
  <2>6. Placed'
    BY <1>1, <2>1, <2>3 DEF Placed
  <2>7. Counted'
    <3>1. MaxEvents \in Nat /\ \A b \in Agents : Len(run[b]) \in Nat
      BY <1>1, AgentAssumption DEF TaskTypes
    <3> QED BY <1>1, <1>8, <2>3, <3>1 DEF Counted
  <2> QED BY <1>8, <2>3, <2>4, <2>5, <2>6, <2>7, QuietTypes, TypePartsLater
<1>9. CASE YieldReturns(p)
  <2>1. Cleanup(Finished) /\ UNCHANGED <<fields, infos, linger, history>> /\ Leave(p) /\ events' = events
    BY <1>9 DEF YieldReturns
  <2> QED BY <1>8, <2>1
<1>10. CASE YieldInterrupted(p)
  <2>1. Leave(p) /\ UNCHANGED <<fields, infos, history>> /\ events' = events + 1 /\ events < MaxEvents
    BY <1>10 DEF YieldInterrupted, Event
  <2>2. CASE Cleanup(Finished) /\ UNCHANGED linger
    BY <1>8, <2>1, <2>2
  <2>3. CASE cancelled' = cancelled \cup {t \in awaited[p] : ~Ended(t)} /\ UNCHANGED <<tracking, run>>
    <3>1. /\ awaited' = [awaited EXCEPT ![p] = {}] /\ yielding' = [yielding EXCEPT ![p] = "no"]
          /\ UNCHANGED <<waiter, interrupted, kind, owed, phase, order, linger, instances>>
      BY <2>1, <2>3 DEF Leave, fields, history, tracking
    <3>2. WaitTypes'
      BY <1>5, <3>1
    <3>3. awaited[p] \subseteq Agents \X Runs /\ \A t \in awaited[p] : t[2] \in DOMAIN run[t[1]]
      BY <1>1 DEF WaitTypes, TasksExist
    <3>4. TaskTypes'
      BY <1>1, <2>3, <3>3 DEF TaskTypes
    <3>5. TasksExist'
      BY <1>1, <2>3, <3>1, <3>3 DEF TasksExist, WaitTypes
    <3>6. Counted'
      <4>1. MaxEvents \in Nat /\ \A b \in Agents : Len(run[b]) \in Nat
        BY <1>1, AgentAssumption DEF TaskTypes
      <4> QED BY <1>1, <2>1, <2>3, <4>1 DEF Counted
    <3> QED BY <2>1, <2>3, <3>1, <3>2, <3>4, <3>5, <3>6, QuietTypes, TypePartsLater
  <2> QED BY <1>10, <2>2, <2>3 DEF YieldInterrupted
<1> QED BY <1>2, <1>3, <1>4, <1>6, <1>7, <1>9, <1>10 DEF Yielding

LEMMA TypesEnding ==
  ASSUME TypeInv, NEW a \in Agents, Ending(a)
  PROVE  TypeInv'
<1>1. FieldTypes /\ TrackTypes /\ InfoTypes /\ TaskTypes /\ WaitTypes /\ HistoryTypes /\ TasksExist /\ Placed /\ Counted
  BY TypeParts
<1>2. ASSUME events' = events \/ (events' = events + 1 /\ events < MaxEvents), UNCHANGED run PROVE Counted'
  <2>1. MaxEvents \in Nat /\ \A b \in Agents : Len(run[b]) \in Nat
    BY <1>1, AgentAssumption DEF TaskTypes
  <2> QED BY <1>1, <1>2, <2>1 DEF Counted
<1>3. CASE InvokeReturns(a)
  <2>1. /\ UNCHANGED <<fields, infos, tasks, phase, order, linger, instances, history, events, run, cancelled, owed, kind>>
        /\ UNCHANGED <<yielding, awaited, interrupted>> /\ waiter' = [waiter EXCEPT ![a] = "none"]
    BY <1>3 DEF InvokeReturns, tasks, tracking, history, fields
  <2>2. WaitTypes'
    BY <1>1, <2>1 DEF WaitTypes
  <2>3. Placed'
    BY <1>1, <2>1 DEF Placed, WaitTypes
  <2> QED BY <2>1, <2>2, <2>3, QuietTypes, TypePartsLater
<1>4. CASE CallerCancelled(a)
  <2>1. /\ UNCHANGED <<fields, status, run, phase, order, linger, instances, history, events, owed, kind>>
        /\ UNCHANGED <<yielding, awaited, interrupted>> /\ waiter' = [waiter EXCEPT ![a] = "none"]
        /\ cancelled' = cancelled \cup {<<a, 1>>} /\ waiter[a] = "waiting"
        /\ cancelRequested' = [cancelRequested EXCEPT ![a] = TRUE]
    BY <1>4 DEF CallerCancelled, tracking, history, fields
  <2>2. WaitTypes' /\ InfoTypes'
    BY <1>1, <2>1 DEF WaitTypes, InfoTypes
  <2>3. Placed'
    BY <1>1, <2>1 DEF Placed, WaitTypes
  <2>4. 1 \in Runs /\ 1 \in DOMAIN run[a]
    <3>1. MaxEvents \in Nat
      BY AgentAssumption
    <3>2. run[a] \in Seq(Stages) /\ run[a] # <<>>
      BY <1>1, <2>1 DEF Placed, TaskTypes
    <3> QED BY <3>1, <3>2 DEF Runs
  <2>5. TaskTypes'
    BY <1>1, <2>1, <2>4 DEF TaskTypes
  <2>6. TasksExist'
    BY <1>1, <2>1, <2>4 DEF TasksExist
  <2> QED BY <1>2, <2>1, <2>2, <2>3, <2>5, <2>6, QuietTypes, TypePartsLater
<1>5. CASE CancelAgent(a)
  <2>1. /\ UNCHANGED <<fields, status, run, phase, order, linger, instances, waits, history, owed, kind, awaited, waiter>>
        /\ cancelled' = cancelled \cup {Current(a)} /\ ~Done(a)
        /\ cancelRequested' = [cancelRequested EXCEPT ![a] = TRUE]
        /\ events' = events + 1 /\ events < MaxEvents
    BY <1>5 DEF CancelAgent, Event, tracking, history, fields, waits
  <2>2. Current(a) \in Agents \X Runs /\ Current(a)[2] \in DOMAIN run[Current(a)[1]]
    BY <2>1, CurrentTask
  <2>3. InfoTypes'
    BY <1>1, <2>1 DEF InfoTypes
  <2>4. TaskTypes'
    BY <1>1, <2>1, <2>2 DEF TaskTypes
  <2>5. TasksExist'
    BY <1>1, <2>1, <2>2 DEF TasksExist
  <2> QED BY <1>2, <2>1, <2>3, <2>4, <2>5, QuietTypes, TypePartsLater
<1>6. CASE ReapAgent(a)
  <2>1. /\ Cleanup({a}) /\ UNCHANGED <<fields, infos, linger, waits, history, awaited, waiter, owed>>
        /\ events' = events + 1 /\ events < MaxEvents
    BY <1>6 DEF ReapAgent, Event, waits, history
  <2>2. linger' \subseteq Agents
    BY <1>1, <2>1 DEF TrackTypes
  <2>3. FieldTypes' /\ InfoTypes' /\ WaitTypes' /\ HistoryTypes'
    BY <2>1, QuietTypes
  <2>4. /\ UNCHANGED <<fields, awaited, waiter>> /\ owed' \subseteq owed
        /\ events' = events \/ (events' = events + 1 /\ events < MaxEvents)
    BY <2>1
  <2> QED BY <2>1, <2>2, <2>3, <2>4, TypesRemove
<1>7. CASE DelayedCleanup(a)
  <2>1. /\ Cleanup({a} \cap Tracked) /\ UNCHANGED <<fields, infos, waits, history, events, awaited, waiter, owed>>
        /\ linger' \subseteq linger
    BY <1>7 DEF DelayedCleanup, waits, history
  <2>2. linger' \subseteq Agents
    BY <1>1, <2>1 DEF TrackTypes
  <2>3. FieldTypes' /\ InfoTypes' /\ WaitTypes' /\ HistoryTypes'
    BY <2>1, QuietTypes
  <2>4. /\ UNCHANGED <<fields, awaited, waiter>> /\ owed' \subseteq owed
        /\ events' = events \/ (events' = events + 1 /\ events < MaxEvents)
    BY <2>1
  <2> QED BY <2>1, <2>2, <2>3, <2>4, TypesRemove
<1> QED BY <1>3, <1>4, <1>5, <1>6, <1>7 DEF Ending

LEMMA TypesInterrupt ==
  ASSUME TypeInv, Interrupt \/ Interrupted
  PROVE  TypeInv'
<1>1. WaitTypes /\ Counted /\ TaskTypes
  BY TypeParts
<1>2. /\ UNCHANGED <<fields, infos, tasks, phase, order, linger, instances, waiter, yielding, awaited, history, run, cancelled, owed, kind>>
      /\ interrupted' \in BOOLEAN
      /\ events' = events \/ (events' = events + 1 /\ events < MaxEvents)
  BY <1>1 DEF Interrupt, Interrupted, Event, tasks, tracking, history, fields, WaitTypes
<1>3. WaitTypes'
  BY <1>1, <1>2 DEF WaitTypes
<1>4. Counted'
  <2>1. MaxEvents \in Nat /\ \A b \in Agents : Len(run[b]) \in Nat
    BY <1>1, AgentAssumption DEF TaskTypes
  <2> QED BY <1>1, <1>2, <2>1 DEF Counted
<1> QED BY <1>2, <1>3, <1>4, QuietTypes, TypePartsLater

LEMMA TypeStep ==
  ASSUME TypeInv, [Next]_vars
  PROVE  TypeInv'
<1>1. CASE UNCHANGED vars
  BY <1>1, QuietTypes, TypePartsLater DEF vars, fields, tasks, tracking, waits, history
<1> QED BY <1>1, TypesSpawn, TypesMessage, TypesRun, TypesEnding, TypesYield, TypesInterrupt DEF Next

LEMMA TypeInit == Init => TypeInv
<1> SUFFICES ASSUME Init PROVE TypeInv
  OBVIOUS
<1>1. PICK e : e = <<>> /\ e \in Seq(Stages) /\ Len(e) = 0
  <2>1. <<>> \in Seq(Stages) /\ Len(<<>>) = 0
    OBVIOUS
  <2> QED BY <2>1
<1>2. MaxEvents \in Nat /\ Null \notin Actors
  BY AgentAssumption
<1>3. FieldTypes /\ InfoTypes /\ WaitTypes /\ HistoryTypes
  BY DEF Init, FieldTypes, InfoTypes, WaitTypes, HistoryTypes
<1>4. Tracked = {}
  BY DEF Init, Tracked
<1>5. TrackTypes
  BY <1>4 DEF Init, TrackTypes
<1>6. TaskTypes /\ Counted
  BY <1>1, <1>2 DEF Init, TaskTypes, Counted
<1>7. Placed
  BY DEF Init, Placed
<1>8. TasksExist
  BY DEF Init, TasksExist
<1> QED BY <1>3, <1>5, <1>6, <1>7, <1>8, TypeParts

-----------------------------------------------------------------------------
(* What a step does to one agent.                                          *)

\* It is not removed, or what it does is cancelled.
Kept(b) ==
  /\ phase'[b] = "live" => phase[b] = "live"
  /\ phase[b] = "live" /\ phase'[b] # "live" /\ Tip(run[b]) # "ended" => Current(b) \in cancelled'

\* Nothing, but that it may be removed, or dropped, or be asked for.
Rests(b) == run'[b] = run[b] /\ status'[b] = status[b] /\ Kept(b)
\* It gets another task.
GetsTask(b) ==
  /\ Tip(run[b]) = "ended" \/ "message while running" \in Races
  /\ run'[b] = Append(run[b], "created") /\ status'[b] = status[b]
  /\ phase[b] = "live" /\ phase'[b] = phase[b]
\* Its task n starts.
Starts(b, n) ==
  /\ n \in DOMAIN run[b] /\ run[b][n] = "created" /\ <<b, n>> \notin cancelled
  /\ run'[b] = [run[b] EXCEPT ![n] = "generating"] /\ status'[b] = "running" /\ phase'[b] = phase[b]
\* Its task n is over without having started.
Lapses(b, n) ==
  /\ n \in DOMAIN run[b] /\ run[b][n] = "created" /\ <<b, n>> \in cancelled
  /\ run'[b] = [run[b] EXCEPT ![n] = "ended"] /\ status'[b] = status[b] /\ phase'[b] = phase[b]
\* Its task n is over.
Stops(b, n) ==
  /\ n \in DOMAIN run[b] /\ MayEnd(b, n)
  /\ run'[b] = [run[b] EXCEPT ![n] = "ended"] /\ phase'[b] = phase[b]
  /\ status'[b] \in Terminal \/ (status'[b] = status[b] /\ status[b] # "running")
  /\ status[b] \in Terminal /\ parent[b] = Primary => <<b, n>> \notin owed'
\* It yields, and its parent notes it.
Yields(b) ==
  /\ run'[b] = run[b] /\ Tip(run[b]) = "generating" /\ status'[b] = "finished"
  /\ parent[b] = Primary /\ Current(b) \in owed' /\ Kept(b)

LEMMA RemovedKept ==
  ASSUME TypeInv, NEW s \in SUBSET Agents, Cleanup(s), NEW b \in Agents
  PROVE  run'[b] = run[b] /\ Kept(b)
<1>1. /\ run' = run /\ phase'[b] = IF b \in s THEN "gone" ELSE phase[b]
      /\ cancelled' = cancelled \cup Unfinished(s)
  BY DEF Cleanup
<1>2. b \in s /\ Tip(run[b]) # "ended" => Current(b) \in Unfinished(s)
  BY CurrentTask DEF Unfinished
<1> QED BY <1>1, <1>2 DEF Kept

LEMMA RemovedRest ==
  ASSUME TypeInv, NEW s \in SUBSET Agents, Cleanup(s), UNCHANGED status, NEW b \in Agents
  PROVE  Rests(b)
BY RemovedKept DEF Rests

LEMMA UnmovedRest ==
  ASSUME NEW b \in Agents, run'[b] = run[b], status'[b] = status[b], phase'[b] = phase[b]
  PROVE  Rests(b)
BY DEF Rests, Kept

LEMMA AgentMoves ==
  ASSUME TypeInv, [Next]_vars, NEW b \in Agents
  PROVE  \/ Rests(b) \/ SpawnRegister(b) \/ GetsTask(b) \/ Yields(b)
         \/ \E n \in DOMAIN run[b] : Starts(b, n) \/ Lapses(b, n) \/ Stops(b, n)
<1>1. FieldTypes /\ TrackTypes /\ InfoTypes /\ TaskTypes
  BY TypeParts
<1>2. CASE UNCHANGED vars
  BY <1>2, UnmovedRest DEF vars, infos, tasks, tracking
<1>3. ASSUME NEW a \in Agents, Spawning(a) PROVE Rests(b) \/ SpawnRegister(b)
  <2>1. ASSUME NEW p \in Actors, NEW k \in Kinds[a], NEW w \in {"none", "spawning"}, SpawnBegin(p, a, k, w)
        PROVE  Rests(b)
    BY <1>1, <2>1 DEF SpawnBegin, infos, tasks, Rests, Kept, TrackTypes
  <2>2. CASE SpawnRegister(a)
    BY <1>1, <2>2, UnmovedRest DEF SpawnRegister, Joins, FirstTask, infos, TrackTypes, TaskTypes
  <2>3. CASE SpawnTooLate(a)
    <3>1. /\ run' = run /\ UNCHANGED status
          /\ phase'[b] = IF b = a THEN "dropped" ELSE IF b \in Oldest(Finished) THEN "gone" ELSE phase[b]
          /\ phase[a] = "creating"
      BY <2>3 DEF SpawnTooLate, infos, tasks
    <3>2. b \in Oldest(Finished) => Tip(run[b]) = "ended"
      BY CurrentTask DEF Oldest, Finished, Eligible
    <3> QED BY <3>1, <3>2 DEF Rests, Kept
  <2>4. CASE SpawnDies(a)
    BY <1>1, <2>4 DEF SpawnDies, infos, tasks, Rests, Kept, TrackTypes
  <2> QED BY <1>3, <2>1, <2>2, <2>3, <2>4 DEF Spawning
<1>4. ASSUME NEW a \in Agents, Message(a) PROVE Rests(b) \/ GetsTask(b)
  <2>1. /\ run' = [run EXCEPT ![a] = Append(run[a], "created")] /\ UNCHANGED <<status, phase>>
        /\ phase[a] = "live" /\ (Tip(run[a]) = "ended" \/ "message while running" \in Races)
    BY <1>4, CurrentTask DEF Message, infos, tracking, Tracked
  <2>2. CASE b = a
    BY <1>1, <2>1, <2>2 DEF GetsTask, TaskTypes
  <2>3. CASE b # a
    BY <1>1, <2>1, <2>3, UnmovedRest DEF TaskTypes
  <2> QED BY <2>2, <2>3
<1>5. ASSUME NEW a \in Agents, NEW n \in DOMAIN run[a],
             FirstStep(a, n) \/ NeverStarts(a, n) \/ Returns(a, n) \/ CancelledOut(a, n) \/ Fails(a, n)
      PROVE  Rests(b) \/ \E i \in DOMAIN run[b] : Starts(b, i) \/ Lapses(b, i) \/ Stops(b, i)
  <2>1. PICK x \in Stages : run' = [run EXCEPT ![a][n] = x] /\ UNCHANGED phase
    BY <1>5 DEF FirstStep, NeverStarts, Returns, CancelledOut, Fails, End, tracking, Stages
  <2>2. /\ run'[a] = [run[a] EXCEPT ![n] = x]
        /\ \A c \in Agents : c # a => run'[c] = run[c]
    BY <2>1, TaskChanged
  <2>3. \A c \in Agents : c # a => status'[c] = status[c]
    BY <1>1, <1>5 DEF FirstStep, NeverStarts, Returns, Finish, CancelledOut, Fails, InfoTypes, infos
  <2>4. CASE b # a
    BY <2>1, <2>2, <2>3, <2>4, UnmovedRest
  <2>5. CASE b = a
    <3>1. CASE FirstStep(a, n)
      BY <1>1, <2>1, <3>1, <2>5 DEF FirstStep, Starts, InfoTypes, TaskTypes
    <3>2. CASE NeverStarts(a, n)
      BY <1>1, <2>1, <3>2, <2>5 DEF NeverStarts, End, Lapses, InfoTypes, TaskTypes, infos
    <3>3. CASE Returns(a, n)
      <4>1. status'[a] = IF status[a] = "running" THEN "finished" ELSE status[a]
        BY <1>1, <3>3 DEF Returns, Finish, InfoTypes
      <4>2. run'[a] = [run[a] EXCEPT ![n] = "ended"] /\ MayEnd(a, n)
        BY <1>1, <3>3 DEF Returns, End, TaskTypes
      <4>3. status[a] \in Terminal /\ parent[a] = Primary => <<a, n>> \notin owed'
        BY <3>3 DEF Returns, Inject, Tell
      <4> QED BY <2>1, <2>5, <4>1, <4>2, <4>3 DEF Stops, Terminal
    <3>4. CASE CancelledOut(a, n) \/ Fails(a, n)
      <4>1. status'[a] \in Terminal
        BY <1>1, <3>4 DEF CancelledOut, Fails, InfoTypes, Terminal
      <4>2. run'[a] = [run[a] EXCEPT ![n] = "ended"] /\ MayEnd(a, n)
        BY <1>1, <3>4 DEF CancelledOut, Fails, End, TaskTypes
      <4>3. status[a] \in Terminal /\ parent[a] = Primary => <<a, n>> \notin owed'
        BY <3>4 DEF CancelledOut, Fails, Inject, Tell
      <4> QED BY <2>1, <2>5, <4>1, <4>2, <4>3 DEF Stops
    <3> QED BY <1>5, <3>1, <3>2, <3>3, <3>4
  <2> QED BY <2>4, <2>5
<1>6. ASSUME NEW a \in Agents, Ending(a) PROVE Rests(b)
  <2>1. UNCHANGED status
    BY <1>6 DEF Ending, InvokeReturns, CallerCancelled, CancelAgent, ReapAgent, DelayedCleanup, infos
  <2>2. CASE UNCHANGED <<run, phase>>
    BY <2>1, <2>2, UnmovedRest
  <2>3. CASE \E s \in SUBSET Agents : Cleanup(s)
    BY <2>1, <2>3, RemovedRest
  <2> QED BY <1>6, <2>2, <2>3 DEF Ending, InvokeReturns, CallerCancelled, CancelAgent, ReapAgent, DelayedCleanup, tasks, tracking
<1>7. ASSUME NEW p \in Actors, SpawnRefused(p) PROVE Rests(b)
  <2>1. UNCHANGED status /\ Cleanup(Oldest(Finished))
    BY <1>7 DEF SpawnRefused, LazyReap, infos
  <2> QED BY <2>1, EligibleAgents, RemovedRest
<1>8. ASSUME NEW p \in Actors, Yielding(p) PROVE Rests(b) \/ Yields(b)
  <2>1. CASE Yield(p)
    <3>1. /\ Cleanup(Finished) /\ AtWork(p)
          /\ \/ /\ status' = [status EXCEPT ![p] = "finished"]
                /\ p # Primary /\ parent[p] = Primary /\ owed' = owed \cup {Current(p)}
             \/ UNCHANGED status
      BY <2>1 DEF Yield
    <3>2. CASE UNCHANGED status
      BY <3>1, <3>2, EligibleAgents, RemovedRest
    <3>3. CASE /\ status' = [status EXCEPT ![p] = "finished"]
               /\ p # Primary /\ parent[p] = Primary /\ owed' = owed \cup {Current(p)}
      <4>1. p \in Agents
        BY <3>3 DEF Actors
      <4>2. Tip(run[p]) = "generating"
        <5>1. ~Done(p) /\ Last(run[p]) = "generating"
          BY <3>1, <3>3 DEF AtWork
        <5> QED BY <4>1, <5>1, CurrentTask
      <4>3. run'[b] = run[b] /\ Kept(b)
        BY <3>1, EligibleAgents, RemovedKept
      <4>4. status'[b] = IF b = p THEN "finished" ELSE status[b]
        BY <1>1, <3>3 DEF InfoTypes
      <4> QED BY <3>3, <4>1, <4>2, <4>3, <4>4 DEF Rests, Yields
    <3> QED BY <3>1, <3>2, <3>3
  <2>2. CASE YieldReturns(p)
    <3>1. UNCHANGED status /\ Cleanup(Finished)
      BY <2>2 DEF YieldReturns, infos
    <3> QED BY <3>1, EligibleAgents, RemovedRest
  <2>3. CASE YieldInterrupted(p)
    <3>1. UNCHANGED status /\ (Cleanup(Finished) \/ UNCHANGED <<run, phase>>)
      BY <2>3 DEF YieldInterrupted, infos, tracking
    <3> QED BY <3>1, EligibleAgents, RemovedRest, UnmovedRest
  <2>4. CASE YieldWaits(p) \/ YieldPolls(p) \/ YieldCancelled(p)
    BY <2>4, UnmovedRest DEF YieldWaits, YieldPolls, YieldCancelled, infos, tasks, tracking
  <2> QED BY <1>8, <2>1, <2>2, <2>3, <2>4 DEF Yielding
<1>9. CASE Interrupt \/ Interrupted
  BY <1>9, UnmovedRest DEF Interrupt, Interrupted, infos, tasks, tracking
<1> QED BY <1>2, <1>3, <1>4, <1>5, <1>6, <1>7, <1>8, <1>9 DEF Next, Running

-----------------------------------------------------------------------------
(* The limit.                                                              *)

Fresh(a) == Len(run[a]) <= 1 /\ (run[a] # <<>> => run[a][1] = "created")
Prompted == {a \in Active : Len(run[a]) <= 1}

LEMMA LimitStep ==
  ASSUME LimitInv, [Next]_vars
  PROVE  LimitInv'
<1>1. TypeInv /\ TypeInv'
  BY TypeStep DEF LimitInv
<1>2. TaskTypes /\ TrackTypes /\ InfoTypes /\ Placed
  BY <1>1, TypeParts
<1>3. \A b \in Agents : run[b] \in Seq(Stages) /\ Len(run[b]) \in Nat
  BY <1>2 DEF TaskTypes
<1>4. \A b \in Agents : Fresh(b) => status[b] = "created"
  BY DEF LimitInv, FirstTaskFresh, Fresh
<1>5. ASSUME NEW b \in Agents, SpawnRegister(b)
      PROVE  /\ run[b] = <<>> /\ Len(run'[b]) <= 1 /\ (run'[b] # <<>> => run'[b][1] = "created")
             /\ UNCHANGED status /\ b \notin Tracked /\ Tracked' = Tracked \cup {b} /\ ~AtLimit
             /\ \A c \in Agents : c # b => run'[c] = run[c]
  <2>1. /\ phase[b] = "creating" /\ phase' = [phase EXCEPT ![b] = "live"] /\ UNCHANGED status /\ ~AtLimit
        /\ run' = IF kind[b] = "user" THEN run ELSE [run EXCEPT ![b] = <<"created">>]
    BY <1>5 DEF SpawnRegister, Joins, FirstTask, infos
  <2>2. run[b] = <<>>
    BY <1>2, <2>1 DEF Placed
  <2>3. PICK e : e = <<"created">> /\ Len(e) = 1 /\ e[1] = "created" /\ e # <<>>
    <3>1. \A x \in Stages : Len(<<x>>) = 1 /\ <<x>>[1] = x /\ <<x>> # <<>>
      OBVIOUS
    <3>2. "created" \in Stages
      BY DEF Stages
    <3> QED BY <3>1, <3>2
  <2>4. run'[b] = <<>> \/ run'[b] = e
    BY <1>2, <2>1, <2>2, <2>3 DEF TaskTypes
  <2>5. PICK z : z = <<>> /\ Len(z) = 0
    <3>1. Len(<<>>) = 0
      OBVIOUS
    <3> QED BY <3>1
  <2>6. Len(run'[b]) <= 1 /\ (run'[b] # <<>> => run'[b][1] = "created")
    <3>1. CASE run'[b] = z
      BY <2>5, <3>1
    <3>2. CASE run'[b] = e
      <4>1. Len(run'[b]) = 1 /\ run'[b][1] = "created"
        BY <2>3, <3>2
      <4> QED BY <4>1
    <3> QED BY <2>4, <2>5, <3>1, <3>2
  <2>7. b \notin Tracked /\ Tracked' = Tracked \cup {b}
    BY <1>2, <2>1 DEF Tracked, TrackTypes
  <2>8. \A c \in Agents : c # b => run'[c] = run[c]
    BY <1>2, <2>1 DEF TaskTypes
  <2> QED BY <2>1, <2>2, <2>6, <2>7, <2>8
<1>6. ASSUME NEW b \in Agents, Fresh(b)' PROVE status'[b] = "created"
  <2>1. CASE Rests(b)
    BY <1>4, <1>6, <2>1 DEF Rests, Fresh
  <2>2. CASE SpawnRegister(b)
    <3>1. Fresh(b) /\ UNCHANGED status
      <4>1. Len(run[b]) = 0
        BY <1>5, <2>2
      <4> QED BY <1>5, <2>2, <4>1 DEF Fresh
    <3> QED BY <1>4, <3>1
  <2>3. CASE GetsTask(b)
    <3>1. PICK r : r = Append(run[b], "created") /\ r = run'[b] /\ "created" \in Stages
      BY <2>3 DEF GetsTask, Stages
    <3>2. Len(r) = Len(run[b]) + 1
      BY <1>3, <3>1, TipAppended
    <3>3. Len(run[b]) = 0 /\ run[b] = <<>>
      <4>1. Len(r) <= 1
        BY <1>6, <3>1 DEF Fresh
      <4>2. Len(run[b]) = 0
        BY <1>3, <3>2, <4>1
      <4> QED BY <1>3, <4>2
    <3>4. Fresh(b)
      BY <3>3 DEF Fresh
    <3>5. status'[b] = status[b]
      BY <2>3 DEF GetsTask
    <3> QED BY <1>4, <3>4, <3>5
  <2>4. CASE Yields(b)
    <3>1. Len(run[b]) <= 1 /\ run[b] # <<>> /\ run[b][1] = "created" /\ run[b][Len(run[b])] = "generating"
      BY <1>3, <1>6, <2>4, TipStages DEF Yields, Fresh
    <3>2. Len(run[b]) = 1
      BY <1>3, <3>1
    <3> QED BY <3>1, <3>2
  <2>5. ASSUME NEW n \in DOMAIN run[b], Starts(b, n) \/ Lapses(b, n) \/ Stops(b, n)
        PROVE  status'[b] = "created"
    <3>1. PICK x \in {"generating", "ended"} : run'[b] = [run[b] EXCEPT ![n] = x]
      BY <2>5 DEF Starts, Lapses, Stops
    <3>2. x \in Stages /\ x # "created"
      BY DEF Stages
    <3>3. PICK r : r = [run[b] EXCEPT ![n] = x] /\ r = run'[b]
      BY <3>1
    <3>4. Len(r) = Len(run[b]) /\ r[n] = x /\ r # <<>>
      BY <1>3, <3>2, <3>3, TipChanged
    <3>5. Len(run[b]) <= 1 /\ r[1] = "created"
      BY <1>6, <3>3, <3>4 DEF Fresh
    <3>6. n = 1
      BY <1>3, <3>5
    <3> QED BY <3>2, <3>4, <3>5, <3>6
  <2> QED BY <1>1, <2>1, <2>2, <2>3, <2>4, <2>5, AgentMoves
<1>7. FirstTaskFresh'
  BY <1>6 DEF FirstTaskFresh, Fresh
<1>8. IsFiniteSet(Prompted) /\ IsFiniteSet(Active) /\ Prompted \subseteq Active
  <2>1. IsFiniteSet(Agents)
    BY AgentAssumption, FS_Interval DEF Agents
  <2>2. Active \subseteq Agents /\ Prompted \subseteq Active
    BY DEF Active, Tracked, Prompted
  <2> QED BY <2>1, <2>2, FS_Subset
<1>9. ASSUME NEW b \in Prompted' PROVE b \in Prompted \/ SpawnRegister(b)
  <2>1. b \in Agents /\ phase'[b] = "live" /\ status'[b] \notin Terminal /\ Len(run'[b]) <= 1
    BY <1>9 DEF Prompted, Active, Tracked
  <2>2. CASE Rests(b)
    BY <2>1, <2>2 DEF Rests, Kept, Prompted, Active, Tracked
  <2>3. CASE GetsTask(b)
    <3>1. PICK r : r = Append(run[b], "created") /\ r = run'[b] /\ "created" \in Stages
      BY <2>3 DEF GetsTask, Stages
    <3>2. Len(r) = Len(run[b]) + 1
      BY <1>3, <2>1, <3>1, TipAppended
    <3>3. Len(run[b]) <= 1
      BY <1>3, <2>1, <3>1, <3>2
    <3> QED BY <2>1, <2>3, <3>3 DEF GetsTask, Prompted, Active, Tracked
  <2>4. CASE Yields(b)
    BY <2>1, <2>4 DEF Yields, Terminal
  <2>5. ASSUME NEW n \in DOMAIN run[b], Starts(b, n) \/ Lapses(b, n) \/ Stops(b, n)
        PROVE  b \in Prompted
    <3>1. PICK x \in {"generating", "ended"} : run'[b] = [run[b] EXCEPT ![n] = x]
      BY <2>5 DEF Starts, Lapses, Stops
    <3>2. x \in Stages
      BY DEF Stages
    <3>3. PICK r : r = [run[b] EXCEPT ![n] = x] /\ r = run'[b]
      BY <3>1
    <3>4. Len(r) = Len(run[b])
      BY <1>3, <2>1, <3>2, <3>3, TipChanged
    <3>5. Len(run[b]) <= 1 /\ n = 1
      BY <1>3, <2>1, <3>3, <3>4
    <3>6. phase[b] = "live"
      BY <2>1, <2>5 DEF Starts, Lapses, Stops
    <3>7. status[b] \notin Terminal
      <4>1. CASE Starts(b, n)
        <5>1. Fresh(b)
          BY <3>5, <4>1 DEF Starts, Fresh
        <5> QED BY <1>4, <2>1, <5>1 DEF Terminal
      <4>2. CASE Lapses(b, n)
        BY <2>1, <4>2 DEF Lapses
      <4>3. CASE Stops(b, n)
        BY <2>1, <4>3 DEF Stops
      <4> QED BY <2>5, <4>1, <4>2, <4>3
    <3> QED BY <2>1, <3>5, <3>6, <3>7 DEF Prompted, Active, Tracked
  <2> QED BY <1>1, <2>1, <2>2, <2>3, <2>4, <2>5, AgentMoves
<1>10. LimitHolds'
  <2>1. CASE \E b \in Agents : SpawnRegister(b)
    <3>1. PICK b \in Agents : SpawnRegister(b)
      BY <2>1
    <3>2. /\ Cardinality(Active) \in Nat /\ Cardinality(Active) < Limit
          /\ IsFiniteSet(Active \cup {b}) /\ Cardinality(Active \cup {b}) <= Cardinality(Active) + 1
      <4>1. Limit \in Nat /\ ~AtLimit
        BY <1>5, <3>1, AgentAssumption
      <4>2. Cardinality(Active) \in Nat
        BY <1>8, FS_CardinalityType
      <4>3. IsFiniteSet(Active \cup {b}) /\ Cardinality(Active \cup {b}) = IF b \in Active THEN Cardinality(Active) ELSE Cardinality(Active) + 1
        BY <1>8, FS_AddElement
      <4> QED BY <4>1, <4>2, <4>3 DEF AtLimit
    <3>3. Prompted' \subseteq Active \cup {b}
      <4>1. SUFFICES ASSUME NEW c \in Prompted', c # b PROVE c \in Active
        OBVIOUS
      <4>2. c \in Agents /\ c \in Tracked' /\ status'[c] \notin Terminal
        BY <4>1 DEF Prompted, Active, Tracked
      <4>3. c \in Tracked /\ status'[c] = status[c]
        BY <1>5, <3>1, <4>1, <4>2
      <4> QED BY <4>2, <4>3 DEF Active
    <3>4. Cardinality(Prompted') <= Cardinality(Active \cup {b}) /\ Cardinality(Prompted') \in Nat
      BY <3>2, <3>3, FS_Subset, FS_CardinalityType
    <3>5. Cardinality(Prompted') <= Limit
      <4>1. PICK k \in Nat, l \in Nat, m \in Nat :
              k = Cardinality(Active) /\ l = Cardinality(Active \cup {b}) /\ m = Cardinality(Prompted')
        BY <3>2, <3>4, FS_CardinalityType
      <4>2. Limit \in Nat
        BY AgentAssumption
      <4> QED BY <3>2, <3>4, <4>1, <4>2
    <3> QED BY <3>5 DEF LimitHolds, Prompted
  <2>2. CASE ~\E b \in Agents : SpawnRegister(b)
    <3>1. Prompted' \subseteq Prompted
      <4>1. \A b \in Prompted' : b \in Agents
        BY DEF Prompted, Active, Tracked
      <4> QED BY <1>9, <2>2, <4>1
    <3>2. Cardinality(Prompted') <= Cardinality(Prompted) /\ Cardinality(Prompted') \in Nat /\ Cardinality(Prompted) \in Nat
      BY <1>8, <3>1, FS_Subset, FS_CardinalityType
    <3>3. Cardinality(Prompted) <= Limit /\ Limit \in Nat
      BY AgentAssumption DEF LimitInv, LimitHolds, Prompted
    <3>4. Cardinality(Prompted') <= Limit
      BY <3>2, <3>3
    <3> QED BY <3>4 DEF LimitHolds, Prompted
  <2> QED BY <2>1, <2>2
<1> QED BY <1>1, <1>7, <1>10 DEF LimitInv

LEMMA LimitInit == Init => LimitInv
<1> SUFFICES ASSUME Init PROVE LimitInv
  OBVIOUS
<1>1. FirstTaskFresh
  BY DEF Init, FirstTaskFresh
<1>2. {a \in Active : Len(run[a]) <= 1} = {}
  BY DEF Init, Active, Tracked
<1>3. LimitHolds
  <2>1. PICK s : s = {a \in Active : Len(run[a]) <= 1}
    OBVIOUS
  <2>2. Cardinality(s) = 0
    BY <1>2, <2>1, FS_EmptySet
  <2>3. Cardinality(s) <= Limit
    BY <2>2, AgentAssumption
  <2> QED BY <2>1, <2>3 DEF LimitHolds
<1> QED BY <1>1, <1>3, TypeInit DEF LimitInv

-----------------------------------------------------------------------------
(* What a step does to the rest.                                           *)

LEMMA ParentMoves ==
  ASSUME TypeInv, [Next]_vars, NEW b \in Agents, run[b] # <<>>
  PROVE  parent'[b] = parent[b]
<1>1. FieldTypes /\ Placed
  BY TypeParts
<1>2. ASSUME NEW a \in Agents, NEW p \in Actors, NEW k \in Kinds[a], NEW w \in {"none", "spawning"}, SpawnBegin(p, a, k, w)
      PROVE  parent'[b] = parent[b]
  <2>1. a # b
    BY <1>1, <1>2 DEF SpawnBegin, Placed
  <2> QED BY <1>1, <1>2, <2>1 DEF SpawnBegin, FieldTypes
<1>3. ASSUME NEW a \in Agents, Spawning(a) PROVE parent'[b] = parent[b]
  BY <1>2, <1>3 DEF Spawning, SpawnRegister, SpawnTooLate, SpawnDies, fields
<1>4. ASSUME NEW a \in Agents, Message(a) \/ Running(a) \/ Ending(a) PROVE UNCHANGED fields
  BY <1>4 DEF Message, Running, FirstStep, NeverStarts, Returns, CancelledOut, Fails, Ending, InvokeReturns, CallerCancelled,
     CancelAgent, ReapAgent, DelayedCleanup
<1>5. ASSUME NEW p \in Actors, SpawnRefused(p) \/ Yielding(p) PROVE UNCHANGED fields
  BY <1>5 DEF SpawnRefused, Yielding, Yield, YieldWaits, YieldPolls, YieldReturns, YieldInterrupted, YieldCancelled
<1>6. Interrupt \/ Interrupted \/ UNCHANGED vars => UNCHANGED fields
  BY DEF Interrupt, Interrupted, vars
<1>7. UNCHANGED fields => parent' = parent
  BY DEF fields
<1> QED BY <1>3, <1>4, <1>5, <1>6, <1>7 DEF Next

\* A cancellation on its way to a task is so until the task is over.
LEMMA CancelledMoves ==
  ASSUME TypeInv, [Next]_vars, NEW t \in cancelled
  PROVE  t \in cancelled' \/ run'[t[1]][t[2]] = "ended"
<1>1. TaskTypes /\ TasksExist
  BY TypeParts
<1>2. t \in Agents \X Runs /\ t[2] \in DOMAIN run[t[1]]
  BY <1>1 DEF TaskTypes, TasksExist
<1>3. ASSUME NEW a \in Agents, NEW n \in DOMAIN run[a], End(a, n)
      PROVE  t \in cancelled' \/ run'[t[1]][t[2]] = "ended"
  <2>1. cancelled' = cancelled \ {<<a, n>>} /\ run' = [run EXCEPT ![a][n] = "ended"] /\ "ended" \in Stages
    BY <1>3 DEF End, Stages
  <2>2. PICK r : r = [run[a] EXCEPT ![n] = "ended"] /\ r = run'[a]
    BY <2>1, TaskChanged
  <2>3. r[n] = "ended"
    BY <2>2
  <2>4. t[1] = a /\ t[2] = n => run'[t[1]][t[2]] = "ended"
    BY <2>2, <2>3
  <2>5. t # <<a, n>> => t \in cancelled'
    BY <2>1
  <2>6. t = <<a, n>> => t[1] = a /\ t[2] = n
    OBVIOUS
  <2> QED BY <2>4, <2>5, <2>6
<1>4. ASSUME NEW a \in Agents, Running(a) PROVE t \in cancelled' \/ run'[t[1]][t[2]] = "ended"
  <2>1. PICK n \in DOMAIN run[a] :
          FirstStep(a, n) \/ NeverStarts(a, n) \/ Returns(a, n) \/ CancelledOut(a, n) \/ Fails(a, n)
    BY <1>4 DEF Running
  <2>2. End(a, n) \/ UNCHANGED cancelled
    BY <2>1 DEF FirstStep, NeverStarts, Returns, CancelledOut, Fails
  <2> QED BY <1>3, <2>2
<1>5. ASSUME NEW s, Cleanup(s) PROVE t \in cancelled'
  BY <1>5 DEF Cleanup
<1>6. ASSUME NEW a \in Agents, Spawning(a) \/ Message(a) \/ Ending(a) PROVE t \in cancelled'
  BY <1>5, <1>6 DEF Spawning, SpawnBegin, SpawnRegister, SpawnTooLate, SpawnDies, Message, Ending, InvokeReturns, CallerCancelled,
     CancelAgent, ReapAgent, DelayedCleanup, tasks
<1>7. ASSUME NEW p \in Actors, SpawnRefused(p) \/ Yielding(p) PROVE t \in cancelled'
  BY <1>5, <1>7 DEF SpawnRefused, LazyReap, Yielding, Yield, YieldWaits, YieldPolls, YieldReturns, YieldInterrupted, YieldCancelled, tasks
<1>8. CASE Interrupt \/ Interrupted \/ UNCHANGED vars
  BY <1>8 DEF Interrupt, Interrupted, tasks, vars
<1> QED BY <1>4, <1>6, <1>7, <1>8 DEF Next

\* Who has delegated something was at work, and has delegated more only if it still is.
LEMMA OutstandingMoves ==
  ASSUME TypeInv, [Next]_vars, NEW b \in Agents, Outstanding(b)' # {}
  PROVE  Outstanding(b) # {} \/ (Tip(run[b]) = "generating" /\ run'[b] = run[b])
<1>1. FieldTypes /\ TrackTypes /\ WaitTypes /\ Placed
  BY TypeParts
<1>2. ASSUME NEW a \in Agents, NEW p \in Actors, NEW k \in Kinds[a], NEW w \in {"none", "spawning"}, SpawnBegin(p, a, k, w)
      PROVE  Outstanding(b) # {} \/ (Tip(run[b]) = "generating" /\ run'[b] = run[b])
  <2>1. CASE p = b /\ k \in Delegated
    <3>1. AtWork(b) /\ UNCHANGED run /\ b # Primary
      BY <1>2, <2>1 DEF SpawnBegin, MayAsk, tasks, Agents, Primary
    <3>2. Tip(run[b]) = "generating"
      BY <3>1, CurrentTask DEF AtWork
    <3> QED BY <3>1, <3>2
  <2>2. CASE ~(p = b /\ k \in Delegated)
    <3>1. PICK c \in Agents : /\ parent'[c] = b /\ kind'[c] \in Delegated
                              /\ phase'[c] = "creating" \/ waiter'[c] = "waiting"
      BY DEF Outstanding
    <3>2. c # a
      BY <1>1, <1>2, <2>2, <3>1 DEF SpawnBegin, FieldTypes
    <3>3. parent[c] = b /\ kind[c] \in Delegated /\ (phase[c] = "creating" \/ waiter[c] = "waiting")
      BY <1>1, <1>2, <3>1, <3>2 DEF SpawnBegin, FieldTypes, TrackTypes, WaitTypes
    <3> QED BY <3>3 DEF Outstanding
  <2> QED BY <2>1, <2>2
<1>3. ASSUME UNCHANGED fields,
             \A c \in Agents : phase'[c] = "creating" => phase[c] = "creating",
             \A c \in Agents : waiter'[c] = "waiting" => waiter[c] = "waiting" \/ phase[c] = "creating"
      PROVE  Outstanding(b) # {}
  BY <1>3 DEF Outstanding, fields
<1>4. ASSUME NEW s, Cleanup(s), NEW c \in Agents, phase'[c] = "creating" PROVE phase[c] = "creating"
  BY <1>4 DEF Cleanup
<1>5. ASSUME NEW a \in Agents, Spawning(a)
      PROVE  Outstanding(b) # {} \/ (Tip(run[b]) = "generating" /\ run'[b] = run[b])
  <2>1. CASE SpawnRegister(a)
    <3>1. /\ UNCHANGED fields /\ phase[a] = "creating" /\ phase' = [phase EXCEPT ![a] = "live"]
          /\ \A c \in Agents : c # a => waiter'[c] = waiter[c]
      BY <1>1, <2>1 DEF SpawnRegister, Joins, WaitTypes
    <3>2. \A c \in Agents : phase'[c] = "creating" => phase[c] = "creating"
      BY <1>1, <3>1 DEF TrackTypes
    <3> QED BY <1>3, <3>1, <3>2
  <2>2. CASE SpawnTooLate(a)
    <3>1. UNCHANGED fields /\ UNCHANGED waiter /\ \A c \in Agents : phase'[c] = "creating" => phase[c] = "creating"
      BY <2>2 DEF SpawnTooLate, waits
    <3> QED BY <1>3, <3>1
  <2>3. CASE SpawnDies(a)
    <3>1. UNCHANGED fields /\ UNCHANGED waiter /\ \A c \in Agents : phase'[c] = "creating" => phase[c] = "creating"
      BY <1>1, <2>3 DEF SpawnDies, waits, TrackTypes
    <3> QED BY <1>3, <3>1
  <2> QED BY <1>2, <1>5, <2>1, <2>2, <2>3 DEF Spawning
<1>6. ASSUME NEW a \in Agents, Message(a) \/ Running(a) \/ Ending(a) PROVE Outstanding(b) # {}
  <2>1. UNCHANGED fields
    BY <1>6 DEF Message, Running, FirstStep, NeverStarts, Returns, CancelledOut, Fails, Ending, InvokeReturns, CallerCancelled, CancelAgent,
       ReapAgent, DelayedCleanup
  <2>2. \A c \in Agents : phase'[c] = "creating" => phase[c] = "creating"
    BY <1>4, <1>6 DEF Message, Running, FirstStep, NeverStarts, Returns, CancelledOut, Fails, Ending, InvokeReturns, CallerCancelled, CancelAgent,
       ReapAgent, DelayedCleanup, tracking
  <2>3. UNCHANGED waiter \/ waiter' = [waiter EXCEPT ![a] = "none"]
    BY <1>6 DEF Message, Running, FirstStep, NeverStarts, Returns, CancelledOut, Fails, Ending, InvokeReturns, CallerCancelled, CancelAgent,
       ReapAgent, DelayedCleanup, waits
  <2>4. \A c \in Agents : waiter'[c] = "waiting" => waiter[c] = "waiting"
    BY <1>1, <2>3 DEF WaitTypes
  <2> QED BY <1>3, <2>1, <2>2, <2>4
<1>7. ASSUME NEW p \in Actors, SpawnRefused(p) \/ Yielding(p) PROVE Outstanding(b) # {}
  <2>1. UNCHANGED fields /\ UNCHANGED waiter
    BY <1>7 DEF SpawnRefused, Yielding, Yield, YieldWaits, YieldPolls, YieldReturns, YieldInterrupted, YieldCancelled, Leave, waits
  <2>2. \A c \in Agents : phase'[c] = "creating" => phase[c] = "creating"
    BY <1>4, <1>7 DEF SpawnRefused, LazyReap, Yielding, Yield, YieldWaits, YieldPolls, YieldReturns, YieldInterrupted, YieldCancelled, tracking
  <2> QED BY <1>3, <2>1, <2>2
<1>8. CASE Interrupt \/ Interrupted \/ UNCHANGED vars
  BY <1>3, <1>8 DEF Interrupt, Interrupted, vars, tracking, waits
<1> QED BY <1>2, <1>5, <1>6, <1>7, <1>8 DEF Next

\* A yield stays to be told until the run is over; what is new is the current
\* run of an agent at work.
LEMMA OwedMoves ==
  ASSUME TypeInv, [Next]_vars
  PROVE  /\ \A t \in owed : t \in owed' \/ run'[t[1]][t[2]] = "ended"
         /\ \A t \in owed' : t \in owed \/ \E p \in Agents : Yield(p) /\ t = Current(p)
         /\ strays' = strays \/ \E a \in Agents : \E n \in DOMAIN run[a] :
              <<a, n>> \notin owed /\ status[a] \in Terminal /\ run[a][n] = "generating"
<1>1. TaskTypes /\ TasksExist /\ HistoryTypes
  BY TypeParts
<1>2. ASSUME UNCHANGED <<owed, strays>>
      PROVE  /\ \A t \in owed : t \in owed' \/ run'[t[1]][t[2]] = "ended"
             /\ \A t \in owed' : t \in owed \/ \E p \in Agents : Yield(p) /\ t = Current(p)
             /\ strays' = strays
  BY <1>2
<1>3. ASSUME NEW a \in Agents, Running(a)
      PROVE  /\ \A t \in owed : t \in owed' \/ run'[t[1]][t[2]] = "ended"
             /\ \A t \in owed' : t \in owed
             /\ strays' = strays \/ \E n \in DOMAIN run[a] :
                  <<a, n>> \notin owed /\ status[a] \in Terminal /\ run[a][n] = "generating"
  <2>1. PICK n \in DOMAIN run[a] :
          FirstStep(a, n) \/ NeverStarts(a, n) \/ Returns(a, n) \/ CancelledOut(a, n) \/ Fails(a, n)
    BY <1>3 DEF Running
  <2>2. UNCHANGED <<owed, strays>> \/ (End(a, n) /\ Inject(a, n) /\ run[a][n] = "generating")
    BY <2>1 DEF FirstStep, NeverStarts, Returns, CancelledOut, Fails, MayEnd, history
  <2>3. CASE End(a, n) /\ Inject(a, n) /\ run[a][n] = "generating"
    <3>1. /\ owed' \in {owed, owed \ {<<a, n>>}}
          /\ strays' = strays \/ (<<a, n>> \notin owed /\ status[a] \in Terminal)
      BY <2>3 DEF Inject, Tell
    <3>2. run' = [run EXCEPT ![a][n] = "ended"] /\ "ended" \in Stages
      BY <2>3 DEF End, Stages
    <3>3. PICK r : r = [run[a] EXCEPT ![n] = "ended"] /\ r = run'[a]
      BY <3>2, TaskChanged
    <3>4. r[n] = "ended"
      BY <3>3
    <3>5. ASSUME NEW t \in owed, t \notin owed' PROVE run'[t[1]][t[2]] = "ended"
      <4>1. t[1] = a /\ t[2] = n
        BY <3>1, <3>5
      <4> QED BY <3>3, <3>4, <4>1
    <3>6. \A t \in owed' : t \in owed
      BY <3>1
    <3> QED BY <2>3, <3>1, <3>5, <3>6
  <2> QED BY <2>2, <2>3
<1>4. ASSUME NEW p \in Actors, Yield(p)
      PROVE  /\ \A t \in owed : t \in owed'
             /\ \A t \in owed' : t \in owed \/ \E q \in Agents : Yield(q) /\ t = Current(q)
             /\ strays' = strays
  <2>1. p \in Agents \/ p = Primary
    BY DEF Actors
  <2>2. strays' = strays /\ owed' = IF p = Primary THEN owed ELSE owed \cup {Current(p)}
    BY <1>4 DEF Yield
  <2> QED BY <1>4, <2>1, <2>2
<1>5. ASSUME NEW a \in Agents, Spawning(a) \/ Message(a) \/ Ending(a) PROVE UNCHANGED <<owed, strays>>
  BY <1>5 DEF Spawning, SpawnBegin, SpawnRegister, SpawnTooLate, SpawnDies, Message, Ending, InvokeReturns, CallerCancelled,
     CancelAgent, ReapAgent, DelayedCleanup, history
<1>6. ASSUME NEW p \in Actors, SpawnRefused(p) \/ (Yielding(p) /\ ~Yield(p)) PROVE UNCHANGED <<owed, strays>>
  BY <1>6 DEF SpawnRefused, Yielding, YieldWaits, YieldPolls, YieldReturns, YieldInterrupted, YieldCancelled, history
<1>7. CASE Interrupt \/ Interrupted \/ UNCHANGED vars
  BY <1>7 DEF Interrupt, Interrupted, vars, history
<1>8. CASE \E a \in Agents : Running(a)
  BY <1>3, <1>8
<1>9. CASE \E p \in Actors : Yield(p)
  BY <1>4, <1>9
<1>10. CASE UNCHANGED <<owed, strays>>
  BY <1>2, <1>10
<1> QED BY <1>5, <1>6, <1>7, <1>8, <1>9, <1>10 DEF Next

-----------------------------------------------------------------------------
(* Work.                                                                   *)

OneMessage == "message while running" \notin Races

\* Registered, it has no task or its first.
LEMMA Registered ==
  ASSUME WorkInv, NEW b \in Agents, SpawnRegister(b)
  PROVE  /\ run[b] = <<>> /\ Tip(run[b]) = "ended" /\ OnlyLast(run'[b])
         /\ run'[b] = <<>> \/ Tip(run'[b]) = "created"
         /\ Tip(run'[b]) # "generating" /\ phase'[b] = "live" /\ UNCHANGED status
<1>1. TaskTypes /\ TrackTypes /\ Placed /\ run[b] \in Seq(Stages) /\ OnlyLast(run[b])
  BY TypeParts DEF WorkInv, TaskTypes, OneAtWork
<1>2. /\ phase[b] = "creating" /\ phase' = [phase EXCEPT ![b] = "live"] /\ UNCHANGED status
      /\ run' = IF kind[b] = "user" THEN run ELSE [run EXCEPT ![b] = <<"created">>]
  BY DEF SpawnRegister, Joins, FirstTask, infos
<1>3. run[b] = <<>> /\ Tip(run[b]) = "ended"
  BY <1>1, <1>2 DEF Placed, Tip
<1>4. PICK e : e = <<"created">> /\ Len(e) = 1 /\ e[1] = "created" /\ e # <<>>
  <2>1. \A x \in Stages : Len(<<x>>) = 1 /\ <<x>>[1] = x /\ <<x>> # <<>>
    OBVIOUS
  <2>2. "created" \in Stages
    BY DEF Stages
  <2> QED BY <2>1, <2>2
<1>5. run'[b] = run[b] \/ run'[b] = e
  BY <1>1, <1>2, <1>4 DEF TaskTypes
<1>6. OnlyLast(e) /\ Tip(e) = "created"
  <2>1. 1..(Len(e) - 1) = {}
    BY <1>4
  <2> QED BY <1>4, <2>1 DEF OnlyLast, Tip
<1>7. OnlyLast(run'[b]) /\ Tip(run'[b]) # "generating" /\ (run'[b] = <<>> \/ Tip(run'[b]) = "created")
  BY <1>1, <1>3, <1>5, <1>6
<1>8. phase'[b] = "live"
  BY <1>1, <1>2 DEF TrackTypes
<1> QED BY <1>2, <1>3, <1>7, <1>8

\* A task is added when the last is over.
LEMMA TaskAdded ==
  ASSUME WorkInv, OneMessage, NEW b \in Agents, GetsTask(b)
  PROVE  /\ Tip(run[b]) = "ended" /\ OnlyLast(run'[b]) /\ Tip(run'[b]) = "created"
         /\ phase'[b] = "live" /\ status'[b] = status[b]
<1>1. run[b] \in Seq(Stages) /\ OnlyLast(run[b])
  BY TypeParts DEF WorkInv, TaskTypes, OneAtWork
<1>2. /\ Tip(run[b]) = "ended" /\ run'[b] = Append(run[b], "created") /\ "created" \in Stages
      /\ phase'[b] = "live" /\ status'[b] = status[b]
  BY DEF GetsTask, OneMessage, Stages
<1>3. PICK r : r = Append(run[b], "created") /\ r = run'[b]
  BY <1>2
<1>4. Tip(r) = "created" /\ OnlyLast(r)
  <2>1. PICK s \in Seq(Stages), x \in Stages : s = run[b] /\ x = "created" /\ OnlyLast(s) /\ Tip(s) = "ended" /\ r = Append(s, x)
    BY <1>1, <1>2, <1>3
  <2>2. Tip(r) = x /\ OnlyLast(r)
    BY <2>1, TipAppended
  <2> QED BY <2>1, <2>2
<1> QED BY <1>2, <1>3, <1>4

\* What starts, lapses or stops is the last task.
LEMMA TaskMoved ==
  ASSUME WorkInv, NEW b \in Agents, NEW n \in DOMAIN run[b], Starts(b, n) \/ Lapses(b, n) \/ Stops(b, n)
  PROVE  /\ n = Len(run[b]) /\ <<b, n>> = Current(b) /\ Tip(run[b]) = run[b][n] /\ OnlyLast(run'[b])
         /\ Tip(run'[b]) = IF Starts(b, n) THEN "generating" ELSE "ended"
         /\ Len(run'[b]) = Len(run[b]) /\ phase'[b] = phase[b]
         /\ run[b][n] = IF Stops(b, n) THEN "generating" ELSE "created"
<1>1. run[b] \in Seq(Stages) /\ OnlyLast(run[b])
  BY TypeParts DEF WorkInv, TaskTypes, OneAtWork
<1>2. PICK x \in {"generating", "ended"} :
        /\ run'[b] = [run[b] EXCEPT ![n] = x] /\ phase'[b] = phase[b]
        /\ x = "generating" => Starts(b, n)
        /\ x = "ended" => Lapses(b, n) \/ Stops(b, n)
        /\ run[b][n] = "created" \/ run[b][n] = "generating"
  BY DEF Starts, Lapses, Stops, MayEnd
<1>3. x \in Stages
  BY DEF Stages
<1>4. PICK r : r = [run[b] EXCEPT ![n] = x] /\ r = run'[b]
  BY <1>2
<1>5. n = Len(run[b]) /\ Tip(run[b]) = run[b][n]
  BY <1>1, <1>2, AtWorkIsLast
<1>6. Tip(r) = x /\ OnlyLast(r) /\ Len(r) = Len(run[b]) /\ r[n] = x
  BY <1>1, <1>3, <1>4, <1>5, TipChanged
<1>7. run[b][n] = IF Stops(b, n) THEN "generating" ELSE "created"
  BY DEF Starts, Lapses, Stops, MayEnd
<1>8. Starts(b, n) => x = "generating"
  <2>1. ASSUME Starts(b, n) PROVE r[n] = "generating"
    BY <1>1, <1>4, <2>1 DEF Starts
  <2> QED BY <1>6, <2>1
<1>9. Tip(r) = IF Starts(b, n) THEN "generating" ELSE "ended"
  BY <1>2, <1>6, <1>8
<1> QED BY <1>2, <1>4, <1>5, <1>6, <1>7, <1>9 DEF Current

LEMMA WorkStep ==
  ASSUME WorkInv, OneMessage, [Next]_vars
  PROVE  WorkInv'
<1>1. TypeInv /\ TypeInv' /\ OneAtWork /\ WorkIsMarked /\ YieldIsHeld /\ GoneIsCancelled /\ DelegatesWork
  BY TypeStep DEF WorkInv
<1>2. TaskTypes /\ TrackTypes /\ InfoTypes /\ Placed /\ TasksExist /\ HistoryTypes
  BY <1>1, TypeParts
<1>3. \A b \in Agents : run[b] \in Seq(Stages) /\ OnlyLast(run[b])
  BY <1>1, <1>2 DEF TaskTypes, OneAtWork
<1>4. ASSUME NEW b \in Agents, SpawnRegister(b)
      PROVE  /\ run[b] = <<>> /\ Tip(run[b]) = "ended" /\ OnlyLast(run'[b])
             /\ Tip(run'[b]) # "generating" /\ phase'[b] = "live" /\ UNCHANGED status
  BY <1>4, Registered
<1>5. ASSUME NEW b \in Agents, GetsTask(b)
      PROVE  /\ Tip(run[b]) = "ended" /\ OnlyLast(run'[b]) /\ Tip(run'[b]) = "created"
             /\ phase'[b] = "live" /\ status'[b] = status[b]
  BY <1>5, TaskAdded
<1>6. ASSUME NEW b \in Agents, NEW n \in DOMAIN run[b], Starts(b, n) \/ Lapses(b, n) \/ Stops(b, n)
      PROVE  /\ n = Len(run[b]) /\ <<b, n>> = Current(b) /\ Tip(run[b]) = run[b][n] /\ OnlyLast(run'[b])
             /\ Tip(run'[b]) = IF Starts(b, n) THEN "generating" ELSE "ended"
             /\ Len(run'[b]) = Len(run[b]) /\ phase'[b] = phase[b]
             /\ run[b][n] = IF Stops(b, n) THEN "generating" ELSE "created"
  BY <1>6, TaskMoved
<1>7. OneAtWork'
  <2>1. ASSUME NEW b \in Agents PROVE OnlyLast(run'[b])
    <3>1. CASE Rests(b) \/ Yields(b)
      BY <1>3, <3>1 DEF Rests, Yields
    <3> QED BY <1>1, <1>4, <1>5, <1>6, <3>1, AgentMoves
  <2> QED BY <2>1 DEF OneAtWork
<1>8. \A b \in Agents : run[b] # <<>> => parent'[b] = parent[b]
  BY <1>1, ParentMoves
<1>9. \A b \in Agents : Tip(run[b]) # "ended" => run[b] # <<>>
  BY DEF Tip
<1>10. ASSUME NEW b \in Agents, run'[b] = run[b] PROVE Current(b)' = Current(b)
  BY <1>10 DEF Current
<1>11. ASSUME NEW b \in Agents, run'[b] = run[b], Tip(run[b]) # "ended", Current(b) \in owed PROVE Current(b) \in owed'
  <2>1. Current(b)[1] = b /\ run[b][Current(b)[2]] = Tip(run[b])
    BY <1>1, <1>9, <1>11, CurrentTask
  <2>2. Current(b) \in owed' \/ run'[Current(b)[1]][Current(b)[2]] = "ended"
    BY <1>1, <1>11, OwedMoves
  <2> QED BY <1>11, <2>1, <2>2
<1>12. WorkIsMarked'
  <2>1. SUFFICES ASSUME NEW b \in Agents, Tip(run'[b]) = "generating"
                 PROVE  status'[b] = "running" \/ (status'[b] = "finished" /\ Current(b)' \in owed' /\ parent'[b] = Primary)
    BY DEF WorkIsMarked
  <2>2. CASE Rests(b)
    <3>1. run'[b] = run[b] /\ status'[b] = status[b] /\ Tip(run[b]) = "generating"
      BY <2>1, <2>2 DEF Rests
    <3>2. status[b] = "running" \/ (status[b] = "finished" /\ Current(b) \in owed /\ parent[b] = Primary)
      BY <1>1, <3>1 DEF WorkIsMarked
    <3> QED BY <1>8, <1>9, <1>10, <1>11, <3>1, <3>2
  <2>3. CASE Yields(b)
    <3>1. /\ run'[b] = run[b] /\ status'[b] = "finished" /\ Tip(run[b]) = "generating"
          /\ parent[b] = Primary /\ Current(b) \in owed'
      BY <2>3 DEF Yields
    <3> QED BY <1>8, <1>9, <1>10, <3>1
  <2>4. ASSUME NEW n \in DOMAIN run[b], Starts(b, n) \/ Lapses(b, n) \/ Stops(b, n)
        PROVE  status'[b] = "running"
    <3>1. Starts(b, n)
      BY <1>6, <2>1, <2>4
    <3> QED BY <3>1 DEF Starts
  <2> QED BY <1>1, <1>4, <1>5, <2>1, <2>2, <2>3, <2>4, AgentMoves
<1>13. strays' = 0
  <2>1. strays = 0
    BY <1>1 DEF YieldIsHeld
  <2>2. ASSUME NEW a \in Agents, NEW n \in DOMAIN run[a],
               <<a, n>> \notin owed, status[a] \in Terminal, run[a][n] = "generating"
        PROVE  FALSE
    <3>1. n = Len(run[a]) /\ Tip(run[a]) = "generating"
      BY <1>3, <2>2, AtWorkIsLast
    <3>2. status[a] # "running"
      BY <2>2 DEF Terminal
    <3>3. Current(a) \in owed
      BY <1>1, <3>1, <3>2 DEF WorkIsMarked
    <3> QED BY <2>2, <3>1, <3>3 DEF Current
  <2> QED BY <1>1, <2>1, <2>2, OwedMoves
<1>14. ASSUME NEW t \in owed', parent'[t[1]] = Primary
       PROVE  t = Current(t[1])' /\ Tip(run'[t[1]]) = "generating" /\ status'[t[1]] = "finished"
  <2>1. CASE t \in owed
    <3>1. PICK b \in Agents : b = t[1] /\ t[2] \in DOMAIN run[b]
      BY <1>2, <2>1 DEF HistoryTypes, TasksExist
    <3>2. run[b] # <<>>
      BY <3>1
    <3>3. parent[b] = Primary
      BY <1>8, <1>14, <3>1, <3>2
    <3>4. t = Current(b) /\ Tip(run[b]) = "generating" /\ status[b] = "finished"
      BY <1>1, <2>1, <3>1, <3>3 DEF YieldIsHeld
    <3>5. CASE Rests(b) \/ Yields(b)
      BY <1>10, <3>1, <3>4, <3>5 DEF Rests, Yields
    <3>6. ASSUME NEW n \in DOMAIN run[b], Starts(b, n) \/ Lapses(b, n) \/ Stops(b, n)
          PROVE  FALSE
      <4>1. Stops(b, n) /\ <<b, n>> = t
        BY <1>6, <3>4, <3>6
      <4>2. <<b, n>> \notin owed'
        BY <3>3, <3>4, <4>1 DEF Stops, Terminal
      <4> QED BY <4>1, <4>2
    <3> QED BY <1>1, <1>4, <1>5, <3>1, <3>4, <3>5, <3>6, AgentMoves
  <2>2. CASE t \notin owed
    <3>1. PICK p \in Agents : Yield(p) /\ t = Current(p)
      BY <1>1, <2>2, OwedMoves
    <3>2. t[1] = p /\ AtWork(p) /\ p # Primary
      BY <3>1 DEF Yield, Current, Agents, Primary
    <3>3. ~Done(p) /\ Last(run[p]) = "generating" /\ ~Stopping(p)
      BY <3>2 DEF AtWork
    <3>4. Tip(run[p]) = "generating" /\ run[p] # <<>>
      BY <1>1, <3>3, CurrentTask
    <3>5. phase[p] = "live"
      <4>1. Current(p) \notin cancelled
        BY <3>2, <3>3 DEF Stopping
      <4> QED BY <1>1, <3>4, <4>1 DEF GoneIsCancelled
    <3>6. parent[p] = Primary
      BY <1>8, <1>14, <3>2, <3>4
    <3>7. status' = [status EXCEPT ![p] = "finished"] /\ run' = run
      BY <3>1, <3>2, <3>5, <3>6 DEF Yield, Cleanup, Tracked
    <3> QED BY <1>2, <1>10, <3>1, <3>2, <3>4, <3>7 DEF InfoTypes
  <2> QED BY <2>1, <2>2
<1>15. YieldIsHeld'
  BY <1>13, <1>14 DEF YieldIsHeld
<1>16. GoneIsCancelled'
  <2>1. SUFFICES ASSUME NEW b \in Agents, Tip(run'[b]) # "ended", phase'[b] # "live" PROVE Current(b)' \in cancelled'
    BY DEF GoneIsCancelled
  <2>2. CASE Rests(b) \/ Yields(b)
    <3>1. run'[b] = run[b] /\ Kept(b) /\ Current(b)' = Current(b)
      BY <1>10, <2>2 DEF Rests, Yields
    <3>2. CASE phase[b] = "live"
      BY <2>1, <3>1, <3>2 DEF Kept
    <3>3. CASE phase[b] # "live"
      <4>1. Current(b) \in cancelled
        BY <1>1, <2>1, <3>1, <3>3 DEF GoneIsCancelled
      <4>2. Current(b)[1] = b /\ run[b][Current(b)[2]] = Tip(run[b])
        BY <1>1, <1>9, <2>1, <3>1, CurrentTask
      <4>3. Current(b) \in cancelled' \/ run'[Current(b)[1]][Current(b)[2]] = "ended"
        BY <1>1, <4>1, CancelledMoves
      <4> QED BY <2>1, <3>1, <4>2, <4>3
    <3> QED BY <3>2, <3>3
  <2>3. ASSUME NEW n \in DOMAIN run[b], Starts(b, n) \/ Lapses(b, n) \/ Stops(b, n) PROVE FALSE
    <3>1. Starts(b, n) /\ <<b, n>> = Current(b) /\ Tip(run[b]) = "created" /\ phase[b] # "live"
      <4>1. Starts(b, n) /\ <<b, n>> = Current(b) /\ Tip(run[b]) = run[b][n] /\ phase[b] # "live"
        BY <1>6, <2>1, <2>3
      <4> QED BY <4>1 DEF Starts
    <3>2. Current(b) \in cancelled
      BY <1>1, <3>1 DEF GoneIsCancelled
    <3> QED BY <3>1, <3>2 DEF Starts
  <2> QED BY <1>1, <1>4, <1>5, <2>1, <2>2, <2>3, AgentMoves
<1>17. DelegatesWork'
  <2>1. SUFFICES ASSUME NEW b \in Agents, Outstanding(b)' # {} PROVE Tip(run'[b]) = "generating"
    BY DEF DelegatesWork
  <2>2. Tip(run[b]) = "generating"
    BY <1>1, <2>1, OutstandingMoves DEF DelegatesWork
  <2>3. CASE Rests(b) \/ Yields(b)
    BY <2>2, <2>3 DEF Rests, Yields
  <2>4. ASSUME NEW n \in DOMAIN run[b], Starts(b, n) \/ Lapses(b, n) \/ Stops(b, n) PROVE Tip(run'[b]) = "generating"
    <3>1. Stops(b, n) /\ n = Len(run[b]) /\ Tip(run'[b]) = IF Starts(b, n) THEN "generating" ELSE "ended"
      BY <1>6, <2>2, <2>4
    <3>2. CASE Outstanding(b) # {}
      BY <3>1, <3>2 DEF Stops, MayEnd
    <3>3. CASE run'[b] = run[b]
      BY <2>2, <3>3
    <3> QED BY <1>1, <2>1, <3>2, <3>3, OutstandingMoves
  <2> QED BY <1>1, <1>4, <1>5, <2>2, <2>3, <2>4, AgentMoves
<1> QED BY <1>1, <1>7, <1>12, <1>15, <1>16, <1>17 DEF WorkInv

LEMMA WorkInit == Init => WorkInv
<1> SUFFICES ASSUME Init PROVE WorkInv
  OBVIOUS
<1>1. \A a \in Agents : run[a] = <<>> /\ Tip(run[a]) = "ended" /\ OnlyLast(run[a])
  <2>1. PICK z : z = <<>> /\ Len(z) = 0
    <3>1. Len(<<>>) = 0
      OBVIOUS
    <3> QED BY <3>1
  <2>2. 1..(Len(z) - 1) = {} /\ OnlyLast(z) /\ Tip(z) = "ended"
    BY <2>1 DEF OnlyLast, Tip
  <2> QED BY <2>1, <2>2 DEF Init
<1>2. OneAtWork /\ WorkIsMarked /\ GoneIsCancelled
  BY <1>1 DEF OneAtWork, WorkIsMarked, GoneIsCancelled
<1>3. YieldIsHeld
  BY DEF Init, YieldIsHeld
<1>4. \A a \in Agents : Outstanding(a) = {}
  BY AgentAssumption DEF Init, Outstanding, Actors
<1>5. DelegatesWork
  BY <1>4 DEF DelegatesWork
<1> QED BY <1>2, <1>3, <1>5, TypeInit DEF WorkInv

-----------------------------------------------------------------------------
(* Statuses.                                                               *)

\* With no race a cancellation sets out to a task that has started, or to one of
\* an agent that is being removed.
LEMMA NewCancelled ==
  ASSUME TypeInv, Races = {}, [Next]_vars, NEW t \in cancelled', phase'[t[1]] = "live"
  PROVE  t \in cancelled \/ (t[2] \in DOMAIN run[t[1]] /\ run[t[1]][t[2]] # "created")
<1>1. TaskTypes /\ TasksExist /\ WaitTypes /\ Placed /\ TypeInv'
  BY TypeParts, TypeStep
<1>2. ASSUME NEW s \in SUBSET Agents, Cleanup(s) PROVE t \in cancelled
  <2>1. SUFFICES ASSUME t \in Unfinished(s) PROVE FALSE
    BY <1>2 DEF Cleanup
  <2>2. PICK a \in s : t = Current(a)
    BY <2>1 DEF Unfinished
  <2>3. phase'[a] = "gone" /\ t[1] = a
    BY <1>2, <2>2 DEF Cleanup, Current
  <2> QED BY <2>3
<1>3. \A ts : Cancellable(ts) => \A u \in ts : run[u[1]][u[2]] # "created"
  BY DEF Cancellable
<1>4. ASSUME NEW a \in Agents, Spawning(a) \/ Running(a) \/ Message(a) \/ InvokeReturns(a) \/ ReapAgent(a) \/ DelayedCleanup(a)
      PROVE  t \in cancelled
  <2>1. {a} \in SUBSET Agents /\ {a} \cap Tracked \in SUBSET Agents
    OBVIOUS
  <2> QED BY <1>2, <1>4, <2>1 DEF Spawning, SpawnBegin, SpawnRegister, SpawnTooLate, SpawnDies, Running, FirstStep, NeverStarts, Returns,
             CancelledOut, Fails, End, Message, InvokeReturns, ReapAgent, DelayedCleanup, tasks
<1>5. ASSUME NEW a \in Agents, CallerCancelled(a), t \notin cancelled
      PROVE  t[2] \in DOMAIN run[t[1]] /\ run[t[1]][t[2]] # "created"
  <2>1. t = <<a, 1>> /\ Cancellable({<<a, 1>>}) /\ waiter[a] = "waiting"
    BY <1>5 DEF CallerCancelled
  <2>2. run[a] \in Seq(Stages) /\ run[a] # <<>>
    BY <1>1, <2>1 DEF TaskTypes, Placed
  <2>3. 1 \in DOMAIN run[a]
    BY <2>2
  <2>4. <<a, 1>>[1] = a /\ <<a, 1>>[2] = 1 /\ <<a, 1>> \in {<<a, 1>>}
    OBVIOUS
  <2> QED BY <1>3, <2>1, <2>3, <2>4
<1>6. ASSUME NEW a \in Agents, CancelAgent(a), t \notin cancelled
      PROVE  t[2] \in DOMAIN run[t[1]] /\ run[t[1]][t[2]] # "created"
  <2>1. t = Current(a) /\ Cancellable({Current(a)}) /\ ~Done(a)
    BY <1>6 DEF CancelAgent
  <2>2. t[1] = a /\ t[2] \in DOMAIN run[a]
    BY <2>1, CurrentTask
  <2> QED BY <1>3, <2>1, <2>2
<1>7. ASSUME NEW p \in Actors, SpawnRefused(p) \/ (Yielding(p) /\ ~YieldInterrupted(p)) PROVE t \in cancelled
  BY <1>2, <1>7, EligibleAgents DEF SpawnRefused, LazyReap, Yielding, Yield, YieldWaits, YieldPolls, YieldReturns, YieldCancelled, tasks
<1>8. ASSUME NEW p \in Actors, YieldInterrupted(p), t \notin cancelled
      PROVE  t[2] \in DOMAIN run[t[1]] /\ run[t[1]][t[2]] # "created"
  <2>1. PICK ts : ts = {u \in awaited[p] : ~Ended(u)}
    OBVIOUS
  <2>2. Cancellable(ts) /\ t \in ts
    BY <1>2, <1>8, <2>1, EligibleAgents DEF YieldInterrupted
  <2>3. t[2] \in DOMAIN run[t[1]]
    BY <1>1, <2>1, <2>2 DEF TasksExist
  <2> QED BY <1>3, <2>2, <2>3
<1>9. CASE Interrupt \/ Interrupted \/ UNCHANGED vars
  BY <1>9 DEF Interrupt, Interrupted, tasks, vars
<1> QED BY <1>4, <1>5, <1>6, <1>7, <1>8, <1>9 DEF Next, Ending

LEMMA StatusStep ==
  ASSUME StatusInv, Races = {}, [Next]_vars
  PROVE  StatusInv'
<1>1. WorkInv /\ TypeInv /\ WorkIsMarked /\ OverIsFinal /\ CancelledStarted /\ OneMessage
  BY DEF StatusInv, WorkInv, OneMessage
<1>2. WorkInv' /\ TypeInv'
  BY <1>1, WorkStep DEF WorkInv
<1>3. TaskTypes /\ TaskTypes' /\ TasksExist /\ TasksExist' /\ \A b \in Agents : run[b] \in Seq(Stages)
  <2>1. TaskTypes' /\ TasksExist'
    BY <1>2, TypeParts, PTL
  <2> QED BY <1>1, <2>1, TypeParts DEF TaskTypes
<1>4. ASSUME NEW t \in cancelled', phase'[t[1]] = "live" PROVE run'[t[1]][t[2]] # "created"
  <2>1. PICK b \in Agents : b = t[1]
    BY <1>3, <1>4 DEF TaskTypes
  <2>2. PICK i : i = t[2]
    OBVIOUS
  <2>3. SUFFICES run'[b][i] # "created"
    BY <2>1, <2>2
  <2>4. ASSUME phase[b] = "live" PROVE i \in DOMAIN run[b] /\ run[b][i] # "created"
    BY <1>1, <1>3, <1>4, <2>1, <2>2, <2>4, NewCancelled DEF CancelledStarted, TasksExist
  <2>5. CASE Rests(b) \/ Yields(b)
    BY <1>4, <2>1, <2>4, <2>5 DEF Rests, Yields, Kept
  <2>6. CASE SpawnRegister(b)
    <3>1. run[b] = <<>> /\ t \in cancelled
      BY <1>1, <1>4, <2>6, Registered DEF SpawnRegister
    <3>2. i \in DOMAIN run[b]
      BY <1>3, <2>1, <2>2, <3>1 DEF TasksExist
    <3> QED BY <3>1, <3>2
  <2>7. CASE GetsTask(b)
    <3>1. phase[b] = "live" /\ run'[b] = Append(run[b], "created") /\ "created" \in Stages
      BY <2>7 DEF GetsTask, Stages
    <3>2. run'[b][i] = run[b][i]
      BY <1>3, <2>4, <3>1, TipAppended
    <3> QED BY <2>4, <3>1, <3>2
  <2>8. ASSUME NEW n \in DOMAIN run[b], Starts(b, n) \/ Lapses(b, n) \/ Stops(b, n) PROVE run'[b][i] # "created"
    <3>1. PICK x \in {"generating", "ended"} : run'[b] = [run[b] EXCEPT ![n] = x] /\ phase'[b] = phase[b]
      BY <2>8 DEF Starts, Lapses, Stops
    <3>2. phase[b] = "live" /\ x \in Stages
      BY <1>4, <2>1, <3>1 DEF Stages
    <3>3. PICK r : r = [run[b] EXCEPT ![n] = x] /\ r = run'[b]
      BY <3>1
    <3>4. r[n] = x /\ \A j \in DOMAIN run[b] \ {n} : r[j] = run[b][j]
      BY <1>3, <3>2, <3>3, TipChanged
    <3> QED BY <2>4, <3>2, <3>3, <3>4
  <2> QED BY <1>1, <2>5, <2>6, <2>7, <2>8, AgentMoves
<1>5. CancelledStarted'
  BY <1>4 DEF CancelledStarted
<1>6. ASSUME NEW b \in Agents, phase'[b] = "live", run'[b] # <<>>, Tip(run'[b]) = "ended" PROVE status'[b] \in Terminal
  <2>1. CASE Rests(b)
    <3>1. phase[b] = "live" /\ run'[b] = run[b] /\ status'[b] = status[b]
      BY <1>6, <2>1 DEF Rests, Kept
    <3> QED BY <1>1, <1>6, <3>1 DEF OverIsFinal, Tracked
  <2>2. ~Yields(b) /\ ~SpawnRegister(b) /\ ~GetsTask(b)
    BY <1>1, <1>6, Registered, TaskAdded DEF Yields
  <2>3. ASSUME NEW n \in DOMAIN run[b], Starts(b, n) \/ Lapses(b, n) \/ Stops(b, n) PROVE status'[b] \in Terminal
    <3>1. /\ Tip(run'[b]) = IF Starts(b, n) THEN "generating" ELSE "ended"
          /\ Tip(run[b]) = run[b][n] /\ phase'[b] = phase[b] /\ run[b][n] = IF Stops(b, n) THEN "generating" ELSE "created"
      BY <1>1, <2>3, TaskMoved
    <3>2. ~Lapses(b, n)
      <4>1. SUFFICES ASSUME Lapses(b, n) PROVE FALSE
        OBVIOUS
      <4>2. <<b, n>> \in cancelled /\ run[b][n] = "created" /\ phase[b] = "live"
        BY <1>6, <3>1, <4>1 DEF Lapses
      <4>3. <<b, n>>[1] = b /\ <<b, n>>[2] = n
        OBVIOUS
      <4> QED BY <1>1, <4>2, <4>3 DEF CancelledStarted
    <3>3. Stops(b, n) /\ Tip(run[b]) = "generating"
      BY <1>6, <2>3, <3>1, <3>2
    <3>4. status[b] = "running" \/ status[b] = "finished"
      BY <1>1, <3>3 DEF WorkIsMarked
    <3> QED BY <3>3, <3>4 DEF Stops, Terminal
  <2> QED BY <1>1, <2>1, <2>2, <2>3, AgentMoves
<1>7. OverIsFinal'
  BY <1>6 DEF OverIsFinal, Tracked
<1> QED BY <1>2, <1>5, <1>7 DEF StatusInv

LEMMA StatusInit == Init => StatusInv
<1> SUFFICES ASSUME Init PROVE StatusInv
  OBVIOUS
<1>1. OverIsFinal
  BY DEF Init, OverIsFinal, Tracked
<1>2. CancelledStarted
  BY DEF Init, CancelledStarted
<1> QED BY <1>1, <1>2, WorkInit DEF StatusInv

-----------------------------------------------------------------------------
(* What the invariants say of the properties.                              *)

\* What is below an agent was not spawned by the primary.
LEMMA BelowHasParent ==
  ASSUME NEW a \in Agents, NEW b \in Below(a)
  PROVE  b \in Agents /\ parent[b] # Primary
<1>1. PICK s : s = {a} \cup {c \in Agents : parent[c] # Primary}
  OBVIOUS
<1>2. s \in SUBSET Agents /\ a \in s
  BY <1>1
<1>3. ASSUME NEW c \in s, NEW d \in Children(c) PROVE d \in s
  <2>1. d \in Agents /\ parent[d] = c /\ c \in Agents
    BY <1>2, <1>3 DEF Children, Tracked
  <2>2. c # Primary
    BY <2>1 DEF Agents, Primary
  <2> QED BY <1>1, <2>1, <2>2
<1>4. b \in Tracked /\ b # a /\ b \in s
  BY <1>2, <1>3 DEF Below
<1> QED BY <1>1, <1>4 DEF Tracked

LEMMA WorkIsSafe == WorkInv => YieldIsDelivered /\ ReapSafe
<1> SUFFICES ASSUME WorkInv PROVE YieldIsDelivered /\ ReapSafe
  OBVIOUS
<1>1. TypeInv /\ WorkIsMarked /\ YieldIsHeld /\ DelegatesWork
  BY DEF WorkInv
<1>2. HistoryTypes
  BY <1>1, TypeParts
<1>3. YieldIsDelivered
  <2>1. ASSUME NEW t \in owed, parent[t[1]] = Primary PROVE ~Ended(t)
    <3>1. PICK a \in Agents : a = t[1]
      BY <1>2 DEF HistoryTypes
    <3>2. t = Current(a) /\ Tip(run[a]) = "generating"
      BY <1>1, <2>1, <3>1 DEF YieldIsHeld
    <3>3. run[a] # <<>>
      BY <3>2 DEF Tip
    <3>4. t[2] = Len(run[a]) /\ run[a][Len(run[a])] = Tip(run[a])
      BY <1>1, <3>2, <3>3, CurrentTask
    <3> QED BY <3>1, <3>2, <3>4 DEF Ended
  <2> QED BY <1>1, <2>1 DEF YieldIsDelivered, YieldIsHeld
<1>4. ASSUME NEW a \in Agents, Eligible(a)
      PROVE  Outstanding(a) = {} /\ \A b \in Below(a) : ~Done(b) => Last(run[b]) = "created"
  <2>1. Done(a) /\ \A b \in Below(a) : status[b] \in Terminal
    BY <1>4 DEF Eligible
  <2>2. Outstanding(a) = {}
    <3>1. Tip(run[a]) = "ended"
      BY <1>1, <2>1, CurrentTask
    <3> QED BY <1>1, <3>1 DEF DelegatesWork
  <2>3. ASSUME NEW b \in Below(a), ~Done(b) PROVE Last(run[b]) = "created"
    <3>1. b \in Agents /\ parent[b] # Primary /\ status[b] \in Terminal
      BY <2>1, BelowHasParent
    <3>2. run[b] \in Seq(Stages) /\ run[b] # <<>> /\ Tip(run[b]) # "ended" /\ Tip(run[b]) = Last(run[b])
      BY <1>1, <2>3, <3>1, CurrentTask
    <3>3. Tip(run[b]) # "generating"
      BY <1>1, <3>1 DEF WorkIsMarked, Terminal
    <3>4. Tip(run[b]) \in Stages
      BY <3>2, TipStages
    <3> QED BY <3>2, <3>3, <3>4 DEF Stages
  <2> QED BY <2>2, <2>3
<1>5. ReapSafe
  BY <1>4 DEF ReapSafe
<1> QED BY <1>3, <1>5

LEMMA StatusIsTrue == StatusInv => StatusFollowsRun
<1> SUFFICES ASSUME StatusInv PROVE StatusFollowsRun
  OBVIOUS
<1>1. TypeInv /\ OneAtWork /\ WorkIsMarked /\ OverIsFinal
  BY DEF StatusInv, WorkInv
<1>2. ASSUME NEW a \in Tracked
      PROVE  /\ run[a] # <<>> /\ Done(a) => status[a] \in Terminal
             /\ run[a] # <<>> /\ Last(run[a]) = "generating" =>
                  status[a] = "running" \/ (status[a] = "finished" /\ Current(a) \in owed)
             /\ \A n \in 1..(Len(run[a]) - 1) : run[a][n] = "ended"
  <2>1. a \in Agents
    BY DEF Tracked
  <2>2. (Done(a) <=> Tip(run[a]) = "ended") /\ (run[a] # <<>> => Tip(run[a]) = Last(run[a]))
    BY <1>1, <2>1, CurrentTask
  <2>3. run[a] # <<>> /\ Done(a) => status[a] \in Terminal
    BY <1>1, <2>2 DEF OverIsFinal
  <2>4. run[a] # <<>> /\ Last(run[a]) = "generating" =>
          status[a] = "running" \/ (status[a] = "finished" /\ Current(a) \in owed)
    BY <1>1, <2>1, <2>2 DEF WorkIsMarked
  <2>5. \A n \in 1..(Len(run[a]) - 1) : run[a][n] = "ended"
    BY <1>1, <2>1 DEF OneAtWork, OnlyLast
  <2> QED BY <2>3, <2>4, <2>5
<1> QED BY <1>2 DEF StatusFollowsRun

-----------------------------------------------------------------------------
(* Functions that recur down the numbers of agents.                        *)

\* A set that holds 0, and n + 1 with n, holds all numbers.
LEMMA Inductive ==
  ASSUME NEW S, 0 \in S, \A n \in Nat : n \in S => n + 1 \in S
  PROVE  Nat \subseteq S
<1> SUFFICES ASSUME Nat \ S # {} PROVE FALSE
  OBVIOUS
<1> DEFINE R == OpToRel(<, Nat)
<1>1. IsWellFoundedOn(R, Nat)
  BY NatLessThanWellFounded, Zenon
<1>2. \A x, y \in Nat : x < y => <<x, y>> \in R
  BY DEF OpToRel
<1> HIDE DEF R
<1>3. PICK x \in Nat \ S : \A y \in Nat \ S : ~ (<<y, x>> \in R)
  BY <1>1, WFMin
<1>4. x - 1 \in Nat /\ x - 1 < x /\ (x - 1) + 1 = x
  BY <1>3
<1>5. x - 1 \in S
  BY <1>2, <1>3, <1>4
<1> QED BY <1>3, <1>4, <1>5

\* f is val on base, and elsewhere what it is further up.
Chain(f, D, base, val, up) == f = [a \in D |-> IF a \in base THEN val[a] ELSE f[up[a]]]
Climbs(D, base, up) == D \subseteq Actors /\ \A a \in D \ base : up[a] \in D /\ up[a] < a

LEMMA ActorsAreNumbers == MaxSpawns \in Nat /\ Actors = 0..MaxSpawns /\ Agents = 1..MaxSpawns
BY AgentAssumption DEF Actors, Agents, Primary

LEMMA ClimbsDown ==
  ASSUME NEW D, NEW base, NEW up, Climbs(D, base, up), NEW a \in D, a \notin base, NEW n \in Nat, a < n + 1
  PROVE  up[a] \in D /\ up[a] \in Nat /\ up[a] < n
<1>1. up[a] \in D /\ up[a] < a /\ D \subseteq 0..MaxSpawns /\ MaxSpawns \in Nat
  BY ActorsAreNumbers DEF Climbs
<1>2. a \in 0..MaxSpawns /\ up[a] \in 0..MaxSpawns
  BY <1>1, Zenon
<1>3. PICK m \in Nat, k \in Nat : m = up[a] /\ k = a
  <2>1. \A i \in 0..MaxSpawns : i \in Nat
    BY <1>1
  <2> QED BY <1>2, <2>1
<1> QED BY <1>1, <1>3

\* There is such a function, and one only.
LEMMA ChainExists ==
  ASSUME NEW D, NEW base, NEW val, NEW up, Climbs(D, base, up)
  PROVE  \E f : Chain(f, D, base, val, up)
<1> DEFINE Low(n) == D \cap (0..n)
           S == {n \in Nat : \E f : Chain(f, Low(n), base, val, up)}
<1>0. MaxSpawns \in Nat /\ D \subseteq 0..MaxSpawns
  BY ActorsAreNumbers DEF Climbs
<1>1. 0 \in S
  <2> DEFINE f == [a \in Low(0) |-> val[a]]
  <2>1. \A a \in Low(0) : a \in base
    <3> SUFFICES ASSUME NEW a \in Low(0), a \notin base PROVE FALSE
      OBVIOUS
    <3>1. a \in D /\ a < 0 + 1 /\ 0 \in Nat
      BY <1>0
    <3>2. up[a] \in Nat /\ up[a] < 0
      BY <3>1, ClimbsDown
    <3> QED BY <3>2
  <2>2. f = [a \in Low(0) |-> IF a \in base THEN val[a] ELSE f[up[a]]]
    BY <2>1
  <2> HIDE DEF f
  <2> QED BY <2>2 DEF Chain
<1>2. ASSUME NEW n \in Nat, n \in S PROVE n + 1 \in S
  <2>1. PICK f : Chain(f, Low(n), base, val, up)
    BY <1>2
  <2> DEFINE g == [a \in Low(n + 1) |-> IF a \in base THEN val[a] ELSE f[up[a]]]
  <2>2. ASSUME NEW a \in Low(n + 1), a \notin base PROVE f[up[a]] = g[up[a]]
    <3>1. up[a] \in Low(n) /\ up[a] \in Low(n + 1)
      <4>1. a \in D /\ a \in Nat /\ a <= n + 1
        BY <1>0
      <4>2. a < (n + 1) + 1 /\ n + 1 \in Nat
        BY <4>1
      <4>3. up[a] \in D /\ up[a] \in Nat /\ up[a] < n + 1
        BY <2>2, <4>1, <4>2, ClimbsDown
      <4> QED BY <4>3
    <3>2. f[up[a]] = IF up[a] \in base THEN val[up[a]] ELSE f[up[up[a]]]
      BY <2>1, <3>1 DEF Chain
    <3> QED BY <3>1, <3>2
  <2>3. g = [a \in Low(n + 1) |-> IF a \in base THEN val[a] ELSE g[up[a]]]
    BY <2>2
  <2> HIDE DEF g
  <2> QED BY <2>3 DEF Chain
<1> HIDE DEF S
<1>3. Nat \subseteq S
  BY <1>1, <1>2, Inductive
<1>4. Low(MaxSpawns) = D
  BY <1>0
<1> QED BY <1>0, <1>3, <1>4 DEF S

LEMMA ChainUnique ==
  ASSUME NEW D, NEW base, NEW val, NEW up, Climbs(D, base, up),
         NEW f, NEW g, Chain(f, D, base, val, up), Chain(g, D, base, val, up)
  PROVE  f = g
<1> DEFINE S == {n \in Nat : \A a \in D : a < n => f[a] = g[a]}
<1>0. MaxSpawns \in Nat /\ D \subseteq 0..MaxSpawns
  BY ActorsAreNumbers DEF Climbs
<1>1. 0 \in S
  BY <1>0
<1>2. ASSUME NEW n \in Nat, n \in S PROVE n + 1 \in S
  <2> SUFFICES ASSUME NEW a \in D, a < n + 1 PROVE f[a] = g[a]
    OBVIOUS
  <2>1. f[a] = (IF a \in base THEN val[a] ELSE f[up[a]]) /\ g[a] = IF a \in base THEN val[a] ELSE g[up[a]]
    BY DEF Chain
  <2>2. a \notin base => up[a] \in D /\ up[a] < n
    BY <1>2, ClimbsDown
  <2>3. a \notin base => f[up[a]] = g[up[a]]
    BY <1>2, <2>2
  <2> QED BY <2>1, <2>3
<1> HIDE DEF S
<1>3. Nat \subseteq S
  BY <1>1, <1>2, Inductive
<1>4. MaxSpawns + 1 \in S
  BY <1>0, <1>3
<1>5. \A a \in D : f[a] = g[a]
  BY <1>0, <1>4 DEF S
<1>6. f = [a \in D |-> f[a]] /\ g = [a \in D |-> g[a]]
  BY DEF Chain
<1> QED BY <1>5, <1>6

\* What holds on base and is handed down holds everywhere.
LEMMA ChainHolds ==
  ASSUME NEW D, NEW base, NEW val, NEW up, Climbs(D, base, up), NEW f, Chain(f, D, base, val, up),
         NEW Good, \A a \in D \cap base : <<a, val[a]>> \in Good,
         \A a \in D \ base : \A x : <<up[a], x>> \in Good => <<a, x>> \in Good
  PROVE  \A a \in D : <<a, f[a]>> \in Good
<1> DEFINE S == {n \in Nat : \A a \in D : a < n => <<a, f[a]>> \in Good}
<1>0. MaxSpawns \in Nat /\ D \subseteq 0..MaxSpawns
  BY ActorsAreNumbers DEF Climbs
<1>1. 0 \in S
  BY <1>0
<1>2. ASSUME NEW n \in Nat, n \in S PROVE n + 1 \in S
  <2> SUFFICES ASSUME NEW a \in D, a < n + 1 PROVE <<a, f[a]>> \in Good
    OBVIOUS
  <2>1. f[a] = IF a \in base THEN val[a] ELSE f[up[a]]
    BY DEF Chain
  <2>2. a \notin base => up[a] \in D /\ up[a] < n
    BY <1>2, ClimbsDown
  <2>3. a \notin base => <<up[a], f[up[a]]>> \in Good
    BY <1>2, <2>2
  <2> QED BY <2>1, <2>3
<1> HIDE DEF S
<1>3. Nat \subseteq S
  BY <1>1, <1>2, Inductive
<1>4. MaxSpawns + 1 \in S
  BY <1>0, <1>3
<1> QED BY <1>0, <1>4 DEF S

-----------------------------------------------------------------------------
(* Where an agent belongs, as functions of who spawned it, of its kind and *)
(* of who is in the tree.                                                  *)

\* A parent was asked for, before its children.
Ranked(par) ==
  /\ par \in [Agents -> Actors \cup {Null}]
  /\ \A a \in Agents : par[a] # Null => par[a] < a
  /\ \A a \in Agents : par[a] \in Agents => par[par[a]] # Null

IsHome(h, par, D) ==
  h = [a \in Agents |-> IF par[a] = Null \/ par[a] \in D THEN par[a] ELSE h[par[a]]]

IsDomain(m, kd, par) ==
  m = [a \in Actors |-> IF a = Primary THEN Null ELSE IF kd[a] = "workflow" THEN a
                        ELSE IF par[a] = Null THEN Null ELSE m[par[a]]]

Rooted(par, D) == {a \in Agents : par[a] = Null \/ par[a] \in D}
Owned(kd, par) == {a \in Actors : a = Primary \/ kd[a] = "workflow" \/ par[a] = Null}
Owner(kd) == [a \in Actors |-> IF a = Primary THEN Null ELSE IF kd[a] = "workflow" THEN a ELSE Null]

LEMMA HomeIsChain ==
  ASSUME NEW par, Ranked(par), NEW D, Primary \in D
  PROVE  /\ Climbs(Agents, Rooted(par, D), par)
         /\ \A h : IsHome(h, par, D) <=> Chain(h, Agents, Rooted(par, D), par, par)
<1>1. Agents \subseteq Actors /\ \A a \in Actors : a # Primary => a \in Agents
  BY DEF Actors
<1>2. Climbs(Agents, Rooted(par, D), par)
  BY <1>1 DEF Climbs, Ranked, Rooted
<1>3. ASSUME NEW h PROVE IsHome(h, par, D) <=> Chain(h, Agents, Rooted(par, D), par, par)
  <2>1. [a \in Agents |-> IF par[a] = Null \/ par[a] \in D THEN par[a] ELSE h[par[a]]]
        = [a \in Agents |-> IF a \in Rooted(par, D) THEN par[a] ELSE h[par[a]]]
    BY DEF Rooted
  <2> QED BY <2>1 DEF IsHome, Chain
<1> QED BY <1>2, <1>3

LEMMA DomainIsChain ==
  ASSUME NEW par, Ranked(par), NEW kd
  PROVE  /\ Climbs(Actors, Owned(kd, par), par)
         /\ \A m : IsDomain(m, kd, par) <=> Chain(m, Actors, Owned(kd, par), Owner(kd), par)
<1>1. Agents \subseteq Actors /\ \A a \in Actors : a # Primary => a \in Agents
  BY DEF Actors
<1>2. Climbs(Actors, Owned(kd, par), par)
  <2> SUFFICES ASSUME NEW a \in Actors, a \notin Owned(kd, par) PROVE par[a] \in Actors /\ par[a] < a
    BY DEF Climbs
  <2> QED BY <1>1 DEF Ranked, Owned
<1>3. ASSUME NEW m PROVE IsDomain(m, kd, par) <=> Chain(m, Actors, Owned(kd, par), Owner(kd), par)
  <2>1. ASSUME NEW a \in Actors
        PROVE  (IF a = Primary THEN Null ELSE IF kd[a] = "workflow" THEN a
                ELSE IF par[a] = Null THEN Null ELSE m[par[a]])
               = IF a \in Owned(kd, par) THEN Owner(kd)[a] ELSE m[par[a]]
    BY DEF Owned, Owner
  <2>2. [a \in Actors |-> IF a = Primary THEN Null ELSE IF kd[a] = "workflow" THEN a
                          ELSE IF par[a] = Null THEN Null ELSE m[par[a]]]
        = [a \in Actors |-> IF a \in Owned(kd, par) THEN Owner(kd)[a] ELSE m[par[a]]]
    BY <2>1
  <2> QED BY <2>2 DEF IsDomain, Chain
<1> QED BY <1>2, <1>3

LEMMA HomeExists ==
  ASSUME NEW par, Ranked(par), NEW D, Primary \in D
  PROVE  \E h : IsHome(h, par, D)
BY HomeIsChain, ChainExists

LEMMA HomeUnique ==
  ASSUME NEW par, Ranked(par), NEW D, Primary \in D, NEW f, NEW g, IsHome(f, par, D), IsHome(g, par, D)
  PROVE  f = g
BY HomeIsChain, ChainUnique

LEMMA DomainExists ==
  ASSUME NEW par, Ranked(par), NEW kd
  PROVE  \E m : IsDomain(m, kd, par)
BY DomainIsChain, ChainExists

LEMMA DomainUnique ==
  ASSUME NEW par, Ranked(par), NEW kd, NEW f, NEW g, IsDomain(f, kd, par), IsDomain(g, kd, par)
  PROVE  f = g
BY DomainIsChain, ChainUnique

\* An agent's home is nobody, or an actor of the tree that is older; who is no
\* one's parent is no one's home.
LEMMA HomeRange ==
  ASSUME NEW par, Ranked(par), NEW D, Primary \in D, D \subseteq Actors, NEW h, IsHome(h, par, D)
  PROVE  \A a \in Agents :
           /\ par[a] = Null => h[a] = Null
           /\ par[a] # Null => h[a] \in D /\ h[a] < a /\ \E b \in Agents : h[a] = par[b]
<1>0. Actors = 0..MaxSpawns /\ Agents = 1..MaxSpawns /\ MaxSpawns \in Nat /\ Null \notin Actors
  BY ActorsAreNumbers, AgentAssumption
<1> DEFINE Good == {x \in Agents \X (Actors \cup {Null}) :
                      par[x[1]] # Null => x[2] \in D /\ x[2] < x[1] /\ \E b \in Agents : x[2] = par[b]}
           base == Rooted(par, D)
<1>1. \A a \in Agents : par[a] = Null \/ (par[a] \in Actors /\ par[a] < a)
  BY DEF Ranked
<1>2. \A a \in Agents \cap base : <<a, par[a]>> \in Good
  BY <1>0, <1>1 DEF Rooted
<1>3. ASSUME NEW a \in Agents \ base, NEW x, <<par[a], x>> \in Good PROVE <<a, x>> \in Good
  <2>1. par[a] \in Agents /\ par[a] # Null /\ par[a] < a
    BY <1>0, <1>1 DEF Rooted, Primary, Actors
  <2>2. PICK p \in Agents : p = par[a]
    BY <2>1
  <2>3. par[p] # Null
    BY <2>1, <2>2 DEF Ranked
  <2>4. x \in D /\ x < p /\ \E b \in Agents : x = par[b]
    BY <1>3, <2>2, <2>3
  <2>5. x \in Actors /\ x < a
    <3>1. PICK i \in Nat, j \in Nat, k \in Nat : i = x /\ j = p /\ k = a
      BY <1>0, <2>4
    <3> QED BY <2>1, <2>2, <2>4, <3>1
  <2> QED BY <2>4, <2>5
<1>4. Climbs(Agents, base, par) /\ Chain(h, Agents, base, par, par)
  BY HomeIsChain
<1> HIDE DEF Good, base
<1>5. \A a \in Agents : <<a, h[a]>> \in Good
  BY <1>2, <1>3, <1>4, ChainHolds
<1>6. ASSUME NEW a \in Agents, par[a] = Null PROVE h[a] = Null
  BY <1>6 DEF IsHome
<1> QED BY <1>5, <1>6 DEF Good

-----------------------------------------------------------------------------
(* The tree.                                                               *)

Names == {"primary", "agent", "wf", Null}
Nodes(D) == [parent : Actors \cup {Null}, children : SUBSET D, name : Names, workflow : Actors \cup {Null}]

\* A tree of agents with these parents and domains: each at its home, in its
\* domain, and links agree.
TreeOn(D, t, par, m) ==
  /\ t \in [D -> Nodes(D)]
  /\ D \subseteq Actors /\ Primary \in D
  /\ t[Primary].parent = Null
  /\ \A a \in D \ {Primary} : par[a] # Null
  /\ \E h : IsHome(h, par, D) /\ \A a \in D \ {Primary} : t[a].parent = h[a]
  /\ \A a \in D : t[a].workflow = m[a]
  /\ \A a, b \in D : a \in t[b].children <=> t[a].parent = b
TreeOK(t, par, m) == TreeOn(DOMAIN t, t, par, m)

\* An agent leaves, and its children are spliced onto its parent.
LEMMA UnregisterKeeps ==
  ASSUME NEW par, Ranked(par), NEW m, NEW t, TreeOK(t, par, m), NEW u \in Agents, u \in DOMAIN t,
         NEW r, r = Unregister(t, u)
  PROVE  DOMAIN r = DOMAIN t \ {u} /\ TreeOK(r, par, m)
<1>0. Actors = 0..MaxSpawns /\ Agents = 1..MaxSpawns /\ MaxSpawns \in Nat /\ Null \notin Actors /\ Primary = 0
  BY ActorsAreNumbers, AgentAssumption DEF Primary
<1>1. PICK D : D = DOMAIN t /\ D \subseteq Actors /\ Primary \in D /\ t \in [D -> Nodes(D)]
  BY DEF TreeOK, TreeOn
<1>2. PICK h : IsHome(h, par, D) /\ \A a \in D \ {Primary} : t[a].parent = h[a]
  BY <1>1 DEF TreeOK, TreeOn
<1>3. \A a \in Agents : (par[a] = Null => h[a] = Null) /\ (par[a] # Null => h[a] \in D /\ h[a] < a)
  BY <1>1, <1>2, HomeRange
<1>4. par[u] # Null /\ u # Primary /\ u \notin {Null} /\ ~(u < u)
  BY <1>0, <1>1 DEF TreeOK, TreeOn
<1>5. PICK p : p = t[u].parent /\ p = h[u] /\ p \in D /\ p < u /\ p # u
  BY <1>0, <1>1, <1>2, <1>3, <1>4
<1>6. PICK C : C = t[u].children /\ C \subseteq D
  BY <1>1 DEF Nodes
<1>7. \A a, b \in D : a \in t[b].children <=> t[a].parent = b
  BY <1>1 DEF TreeOK, TreeOn
<1>8. r = [n \in D \ {u} |->
             IF n = p THEN [t[n] EXCEPT !.children = (t[n].children \ {u}) \cup (C \cap D)]
             ELSE IF n \in C THEN [t[n] EXCEPT !.parent = p]
             ELSE t[n]]
  BY <1>1, <1>5, <1>6 DEF Unregister
<1>9. p \notin C /\ u \notin C
  <2>1. t[p].parent # u
    <3>1. CASE p = Primary
      BY <1>1, <1>4, <3>1, <1>0 DEF TreeOK, TreeOn
    <3>2. CASE p # Primary
      <4>1. p \in Agents /\ t[p].parent = h[p] /\ par[p] # Null
        BY <1>0, <1>1, <1>2, <1>5, <3>2 DEF TreeOK, TreeOn
      <4>2. h[p] < p /\ h[p] \in D
        BY <1>3, <4>1
      <4>3. PICK q \in Actors : q = h[p] /\ q < p
        BY <1>1, <4>2
      <4>4. p \in Actors /\ p < u
        BY <1>1, <1>5
      <4>5. q # u
        BY <1>0, <4>3, <4>4
      <4> QED BY <4>1, <4>3, <4>5
    <3> QED BY <3>1, <3>2
  <2> QED BY <1>5, <1>6, <1>7, <1>1, <2>1
<1>10. \A n \in D \ {u} :
         /\ r[n].parent = IF n \in C THEN p ELSE t[n].parent
         /\ r[n].workflow = t[n].workflow
         /\ r[n].children = IF n = p THEN (t[n].children \ {u}) \cup C ELSE t[n].children
         /\ r[n].name = t[n].name
  <2> SUFFICES ASSUME NEW n \in D \ {u}
               PROVE  /\ r[n].parent = IF n \in C THEN p ELSE t[n].parent
                      /\ r[n].workflow = t[n].workflow
                      /\ r[n].children = IF n = p THEN (t[n].children \ {u}) \cup C ELSE t[n].children
                      /\ r[n].name = t[n].name
    OBVIOUS
  <2>1. PICK x : x = t[n] /\ x \in Nodes(D)
    BY <1>1
  <2>2. CASE n = p
    <3>1. r[n] = [x EXCEPT !.children = (x.children \ {u}) \cup (C \cap D)]
      BY <1>8, <2>1, <2>2
    <3>2. C \cap D = C
      BY <1>6
    <3> QED BY <1>9, <2>1, <2>2, <3>1, <3>2 DEF Nodes
  <2>3. CASE n # p /\ n \in C
    <3>1. r[n] = [x EXCEPT !.parent = p]
      BY <1>8, <2>1, <2>3
    <3> QED BY <2>1, <2>3, <3>1 DEF Nodes
  <2>4. CASE n # p /\ n \notin C
    <3>1. r[n] = x
      BY <1>8, <2>1, <2>4
    <3> QED BY <2>1, <2>4, <3>1
  <2> QED BY <2>2, <2>3, <2>4
<1>11. \A n \in D \ {u} : n # p => u \notin t[n].children
  BY <1>1, <1>5, <1>7
<1>12. r \in [D \ {u} -> Nodes(D \ {u})]
  <2>1. ASSUME NEW n \in D \ {u} PROVE r[n] \in Nodes(D \ {u})
    <3>1. t[n] \in Nodes(D)
      BY <1>1
    <3>2. CASE n = p
      BY <1>1, <1>6, <1>8, <1>9, <3>1, <3>2 DEF Nodes
    <3>3. CASE n # p /\ n \in C
      BY <1>1, <1>5, <1>8, <1>11, <3>1, <3>3 DEF Nodes
    <3>4. CASE n # p /\ n \notin C
      BY <1>1, <1>8, <1>11, <3>1, <3>4 DEF Nodes
    <3> QED BY <3>2, <3>3, <3>4
  <2> QED BY <1>8, <2>1
<1>13. PICK g : g = [a \in Agents |-> IF h[a] = u THEN p ELSE h[a]]
  OBVIOUS
<1>14. IsHome(g, par, D \ {u})
  <2>1. ASSUME NEW a \in Agents
        PROVE  g[a] = IF par[a] = Null \/ par[a] \in D \ {u} THEN par[a] ELSE g[par[a]]
    <3>1. h[a] = IF par[a] = Null \/ par[a] \in D THEN par[a] ELSE h[par[a]]
      BY <1>2 DEF IsHome
    <3>2. CASE par[a] = u
      <4>1. g[a] = p
        BY <1>1, <1>13, <3>1, <3>2
      <4>2. g[u] = p
        BY <1>5, <1>13
      <4> QED BY <1>0, <3>2, <4>1, <4>2
    <3>3. CASE par[a] # u /\ (par[a] = Null \/ par[a] \in D)
      BY <1>13, <3>1, <3>3
    <3>4. CASE par[a] # u /\ ~(par[a] = Null \/ par[a] \in D)
      <4>1. par[a] \in Agents
        BY <1>0, <1>1, <3>4 DEF Ranked
      <4> QED BY <1>13, <3>1, <3>4, <4>1
    <3> QED BY <3>2, <3>3, <3>4
  <2>2. g = [a \in Agents |-> g[a]]
    BY <1>13
  <2>3. g = [a \in Agents |-> IF par[a] = Null \/ par[a] \in D \ {u} THEN par[a] ELSE g[par[a]]]
    BY <2>1, <2>2
  <2> QED BY <2>3 DEF IsHome
<1>15. DOMAIN r = D \ {u}
  BY <1>8
<1>16. ASSUME NEW a \in D \ {u}, a # Primary PROVE r[a].parent = g[a]
  <2>1. a \in Agents /\ t[a].parent = h[a]
    BY <1>0, <1>1, <1>2, <1>16
  <2>2. a \in C <=> h[a] = u
    BY <1>6, <1>7, <1>1, <2>1
  <2> QED BY <1>10, <1>13, <2>1, <2>2
<1>17. ASSUME NEW a \in D \ {u}, NEW b \in D \ {u} PROVE a \in r[b].children <=> r[a].parent = b
  <2>1. /\ r[a].parent = IF a \in C THEN p ELSE t[a].parent
        /\ r[b].children = IF b = p THEN (t[b].children \ {u}) \cup C ELSE t[b].children
    BY <1>10
  <2>2. (a \in C <=> t[a].parent = u) /\ (a \in t[b].children <=> t[a].parent = b)
    BY <1>1, <1>6, <1>7
  <2>3. CASE b = p
    BY <2>1, <2>2, <2>3
  <2>4. CASE b # p
    BY <2>1, <2>2, <2>4
  <2> QED BY <2>3, <2>4
<1>18. Primary \in D \ {u} /\ r[Primary].parent = Null
  <2>1. Primary \notin C
    BY <1>0, <1>1, <1>4, <1>6, <1>7 DEF TreeOK, TreeOn
  <2> QED BY <1>1, <1>4, <1>10, <2>1 DEF TreeOK, TreeOn
<1>19. \A a \in D \ {u} : r[a].workflow = m[a]
  BY <1>1, <1>10 DEF TreeOK, TreeOn
<1>20. \A a \in (D \ {u}) \ {Primary} : par[a] # Null
  BY <1>1 DEF TreeOK, TreeOn
<1>21. PICK E : E = D \ {u} /\ E = DOMAIN r /\ E \subseteq Actors
  BY <1>1, <1>15
<1>22. \E f : IsHome(f, par, E) /\ \A a \in E \ {Primary} : r[a].parent = f[a]
  BY <1>14, <1>16, <1>21
<1>23. r \in [E -> Nodes(E)] /\ Primary \in E /\ r[Primary].parent = Null
  BY <1>12, <1>18, <1>21
<1>24. \A a, b \in E : a \in r[b].children <=> r[a].parent = b
  BY <1>17, <1>21
<1>25. (\A a \in E : r[a].workflow = m[a]) /\ \A a \in E \ {Primary} : par[a] # Null
  BY <1>19, <1>20, <1>21
<1>26. TreeOn(E, r, par, m)
  BY <1>21, <1>22, <1>23, <1>24, <1>25, Zenon DEF TreeOn
<1> QED BY <1>1, <1>15, <1>21, <1>26 DEF TreeOK

\* Below an agent without children is nobody.
LEMMA SubtreeAlone ==
  ASSUME NEW t, NEW u \in DOMAIN t, t[u].children = {}, Cardinality(DOMAIN t) \in Nat
  PROVE  Subtree(t, u) = {u}
<1>1. PICK N \in Nat : N = Cardinality(DOMAIN t)
  OBVIOUS
<1> DEFINE IsDown(f) == f = [k \in 0..N |-> IF k = 0 THEN {u}
                             ELSE f[k - 1] \cup UNION {t[n].children : n \in f[k - 1] \cap DOMAIN t}]
<1>2. \A k \in 0..N : k # 0 => k - 1 \in 0..N
  OBVIOUS
<1>3. {u} \cup UNION {t[n].children : n \in {u} \cap DOMAIN t} = {u}
  OBVIOUS
<1>4. \E f : IsDown(f)
  <2>1. PICK f : f = [k \in 0..N |-> {u}]
    OBVIOUS
  <2>2. \A k \in 0..N : {u} = IF k = 0 THEN {u}
                       ELSE f[k - 1] \cup UNION {t[n].children : n \in f[k - 1] \cap DOMAIN t}
    BY <1>2, <1>3, <2>1
  <2>3. IsDown(f)
    BY <2>1, <2>2
  <2> QED BY <2>3
<1>5. ASSUME NEW f, IsDown(f) PROVE f[N] = {u}
  <2> DEFINE S == {n \in Nat : n <= N => f[n] = {u}}
  <2>1. 0 \in S
    BY <1>5
  <2>2. ASSUME NEW n \in Nat, n \in S PROVE n + 1 \in S
    <3> SUFFICES ASSUME n + 1 <= N PROVE f[n + 1] = {u}
      OBVIOUS
    <3>1. n + 1 \in 0..N /\ n + 1 # 0 /\ (n + 1) - 1 = n /\ f[n] = {u}
      BY <1>1, <2>2
    <3>2. f[n + 1] = f[n] \cup UNION {t[x].children : x \in f[n] \cap DOMAIN t}
      BY <1>5, <3>1
    <3> QED BY <1>3, <3>1, <3>2
  <2> HIDE DEF S
  <2>3. N \in S
    BY <2>1, <2>2, Inductive
  <2> QED BY <2>3 DEF S
<1>6. Subtree(t, u) = (CHOOSE f : IsDown(f))[N] \cap DOMAIN t
  BY <1>1 DEF Subtree
<1>7. IsDown(CHOOSE f : IsDown(f))
  BY <1>4
<1> QED BY <1>5, <1>6, <1>7

\* It joins its domain alone.
LEMMA JoinsAlone ==
  ASSUME NEW t, NEW u \in DOMAIN t, t[u].children = {}, Cardinality(DOMAIN t) \in Nat, NEW w
  PROVE  SetWorkflow(t, u, w) =
           [n \in DOMAIN t |-> IF n = u THEN [t[n] EXCEPT !.workflow = IF t[u].name = "wf" THEN u ELSE w] ELSE t[n]]
<1>1. Subtree(t, u) = {u}
  BY SubtreeAlone
<1> DEFINE Roots(n) == {r \in Subtree(t, u) : t[r].name = "wf" /\ n \in Subtree(t, r)}
           Own(n) == IF Roots(n) = {} THEN w
                     ELSE CHOOSE r \in Roots(n) : \A q \in Roots(n) : r \in Subtree(t, q)
<1>2. SetWorkflow(t, u, w) =
        [n \in DOMAIN t |-> IF n \in Subtree(t, u) THEN [t[n] EXCEPT !.workflow = Own(n)] ELSE t[n]]
  BY DEF SetWorkflow
<1>3. Own(u) = IF t[u].name = "wf" THEN u ELSE w
  <2>1. CASE t[u].name = "wf"
    <3>1. Roots(u) = {u}
      BY <1>1, <2>1
    <3>2. (CHOOSE r \in Roots(u) : \A q \in Roots(u) : r \in Subtree(t, q)) = u
      BY <1>1, <3>1
    <3> QED BY <2>1, <3>1, <3>2
  <2>2. CASE t[u].name # "wf"
    <3>1. Roots(u) = {}
      BY <1>1, <2>2
    <3> QED BY <2>2, <3>1
  <2> QED BY <2>1, <2>2
<1> HIDE DEF Own
<1> QED BY <1>1, <1>2, <1>3

Joined(t, u, p, name) ==
  [n \in DOMAIN t \cup {u} |->
     IF n = u THEN [parent |-> p, children |-> {}, name |-> name,
                    workflow |-> IF name = "wf" THEN u ELSE t[p].workflow]
     ELSE IF n = p THEN [t[n] EXCEPT !.children = t[n].children \cup {u}]
     ELSE t[n]]

\* Registering an agent without children below one of the tree.
LEMMA RegisterIs ==
  ASSUME NEW t, DOMAIN t \subseteq Actors, t \in [DOMAIN t -> Nodes(DOMAIN t)],
         NEW u \in Agents, NEW p \in DOMAIN t, p # u, NEW name \in Names,
         u \in DOMAIN t => t[u].parent = p /\ t[u].children = {} /\ u \in t[p].children
  PROVE  Register(t, u, p, name) = Joined(t, u, p, name)
<1>0. Actors = 0..MaxSpawns /\ MaxSpawns \in Nat /\ Null \notin Actors /\ p # Null /\ u \in Actors
  BY ActorsAreNumbers, AgentAssumption DEF Actors
<1>00. PICK D : /\ D = DOMAIN t /\ D \subseteq Actors /\ t \in [D -> Nodes(D)] /\ p \in D
                /\ u \in D => t[u].parent = p /\ t[u].children = {} /\ u \in t[p].children
  BY Zenon
<1>1. PICK E : E = D \cup {u} /\ E \subseteq Actors /\ p \in E /\ u \in E
  <2>1. D \cup {u} \subseteq Actors /\ p \in D \cup {u} /\ u \in D \cup {u}
    BY <1>0, <1>00, Zenon
  <2> QED BY <2>1, Zenon
<1>2. PICK b : b = IF u \in D THEN t[u] ELSE Blank
  OBVIOUS
<1>3. b.children = {} /\ (u \in D => b.parent = p) /\ (u \notin D => b.parent = Null)
      /\ DOMAIN b = {"parent", "children", "name", "workflow"}
      /\ b = [parent |-> b.parent, children |-> b.children, name |-> b.name, workflow |-> b.workflow]
  BY <1>00, <1>2 DEF Blank, Nodes
<1>4. PICK x : x = [b EXCEPT !.name = name]
  OBVIOUS
<1>5. x = [parent |-> b.parent, children |-> {}, name |-> name, workflow |-> b.workflow]
  BY <1>3, <1>4
<1>6. PICK named : named = [Ensure(t, u) EXCEPT ![u].name = name]
  OBVIOUS
<1>7. named = [n \in E |-> IF n = u THEN x ELSE t[n]]
  <2>1. PICK e : e = Ensure(t, u)
    OBVIOUS
  <2>2. e = [n \in E |-> IF n \in D THEN t[n] ELSE Blank]
    BY <1>1, <1>00, <2>1 DEF Ensure
  <2>3. e[u] = b /\ named = [e EXCEPT ![u] = [b EXCEPT !.name = name]]
    BY <1>1, <1>2, <1>6, <2>1, <2>2
  <2>4. \A n \in E : n # u => n \in D
    BY <1>1
  <2> QED BY <1>4, <2>2, <2>3, <2>4
<1>8. PICK w : w = t[p].workflow
  OBVIOUS
<1>9. PICK placed : placed = IF named[u].parent = p THEN named ELSE Attach(Detach(named, u), u, p)
  OBVIOUS
<1>10. Register(t, u, p, name) = SetWorkflow(placed, u, w)
  BY <1>6, <1>8, <1>9 DEF Register
<1>11. PICK y : y = [x EXCEPT !.parent = p]
  OBVIOUS
<1>12. y = [parent |-> p, children |-> {}, name |-> name, workflow |-> b.workflow]
  BY <1>5, <1>11
<1>13. PICK q : q = [t[p] EXCEPT !.children = t[p].children \cup {u}]
  OBVIOUS
<1>14. placed = [n \in E |-> IF n = u THEN y ELSE IF n = p THEN q ELSE t[n]]
  <2>1. named[u] = x /\ x.parent = b.parent
    BY <1>1, <1>5, <1>7
  <2>2. CASE u \in D
    <3>1. x = y
      BY <1>3, <1>5, <1>12, <2>2
    <3>2. t[p] = q
      <4>1. t[p].children \cup {u} = t[p].children
        BY <1>00, <2>2
      <4>2. t[p] \in Nodes(D)
        BY <1>00
      <4> QED BY <1>13, <4>1, <4>2 DEF Nodes
    <3>3. placed = named
      BY <1>3, <1>9, <2>1, <2>2
    <3> QED BY <1>7, <3>1, <3>2, <3>3
  <2>3. CASE u \notin D
    <3>1. placed = Attach(Detach(named, u), u, p) /\ x.parent = Null
      BY <1>0, <1>3, <1>9, <2>1, <2>3
    <3>2. PICK d : d = Detach(named, u)
      OBVIOUS
    <3>3. d = [n \in E |-> IF n = u THEN [x EXCEPT !.parent = Null] ELSE t[n]]
      <4>1. DOMAIN named = E /\ named[u].parent = Null /\ Null \notin E
        BY <1>0, <1>1, <1>7, <2>1, <3>1
      <4>2. \A n \in E : n # u => named[n] = t[n] /\ n # Null
        BY <1>7, <4>1
      <4> QED BY <2>1, <3>2, <4>1, <4>2 DEF Detach
    <3>4. PICK z : z = [x EXCEPT !.parent = Null]
      OBVIOUS
    <3>5. z = [parent |-> Null, children |-> {}, name |-> name, workflow |-> b.workflow]
      BY <1>5, <3>4
    <3>6. Ensure(d, p) = d
      <4>1. DOMAIN d \cup {p} = E /\ DOMAIN d = E
        BY <1>1, <3>3
      <4>2. Ensure(d, p) = [n \in E |-> d[n]]
        BY <4>1 DEF Ensure
      <4>3. d = [n \in E |-> d[n]]
        BY <3>3
      <4> QED BY <4>2, <4>3
    <3>7. placed = [d EXCEPT ![u].parent = p, ![p].children = @ \cup {u}]
      BY <1>0, <3>1, <3>2, <3>6 DEF Attach
    <3>8. d[u] = z /\ d[p] = t[p] /\ DOMAIN d = E
      BY <1>1, <3>3, <3>4
    <3>9. PICK d1 : d1 = [d EXCEPT ![u] = [z EXCEPT !.parent = p]]
      OBVIOUS
    <3>10. d1[p] = t[p]
      BY <1>1, <3>8, <3>9
    <3>11. placed = [d1 EXCEPT ![p] = q]
      BY <1>1, <1>13, <3>7, <3>8, <3>9, <3>10
    <3>12. [z EXCEPT !.parent = p] = y
      <4>1. PICK z1 : z1 = [z EXCEPT !.parent = p]
        OBVIOUS
      <4>2. z1 = [parent |-> p, children |-> {}, name |-> name, workflow |-> b.workflow]
        BY <3>5, <4>1
      <4> QED BY <1>12, <4>1, <4>2
    <3> QED BY <1>1, <3>3, <3>9, <3>11, <3>12
  <2> QED BY <2>2, <2>3
<1>15. DOMAIN placed = E /\ placed[u] = y /\ y.children = {} /\ y.name = name
  BY <1>1, <1>12, <1>14
<1>16. Cardinality(E) \in Nat
  <2>1. IsFiniteSet(0..MaxSpawns)
    <3>1. 0 \in Int /\ MaxSpawns \in Int
      BY <1>0
    <3> QED BY <3>1, FS_Interval, Zenon
  <2>2. IsFiniteSet(E)
    BY <1>0, <1>1, <2>1, FS_Subset
  <2> QED BY <2>2, FS_CardinalityType
<1>17. SetWorkflow(placed, u, w) =
         [n \in E |-> IF n = u THEN [placed[n] EXCEPT !.workflow = IF name = "wf" THEN u ELSE w] ELSE placed[n]]
  <2>1. /\ u \in DOMAIN placed /\ placed[u].children = {} /\ Cardinality(DOMAIN placed) \in Nat
        /\ placed[u].name = name /\ DOMAIN placed = E
    BY <1>1, <1>15, <1>16
  <2>2. SetWorkflow(placed, u, w) =
          [n \in DOMAIN placed |-> IF n = u THEN [placed[n] EXCEPT !.workflow = IF placed[u].name = "wf" THEN u ELSE w]
                                   ELSE placed[n]]
    BY <2>1, JoinsAlone
  <2> QED BY <2>1, <2>2
<1>18. PICK v : v = IF name = "wf" THEN u ELSE w
  OBVIOUS
<1>19. [y EXCEPT !.workflow = v] = [parent |-> p, children |-> {}, name |-> name, workflow |-> v]
  BY <1>12
<1>20. SetWorkflow(placed, u, w) =
         [n \in E |-> IF n = u THEN [parent |-> p, children |-> {}, name |-> name, workflow |-> v]
                      ELSE IF n = p THEN q ELSE t[n]]
  BY <1>14, <1>15, <1>17, <1>18, <1>19
<1> QED BY <1>00, <1>1, <1>8, <1>10, <1>13, <1>18, <1>20 DEF Joined

\* An agent whose parent is in the tree, and who has no children, may join it.
MayJoin(u, name, t, par, kd, m) ==
  /\ Ranked(par) /\ IsDomain(m, kd, par) /\ TreeOK(t, par, m)
  /\ u \in Agents /\ par[u] \in DOMAIN t /\ \A b \in Agents : par[b] # u
  /\ name \in Names /\ (name = "wf" <=> kd[u] = "workflow")

\* Its place and its domain are right, and links agree.
LEMMA RegisterKeeps ==
  ASSUME NEW u, NEW name, NEW t, NEW par, NEW kd, NEW m, MayJoin(u, name, t, par, kd, m)
  PROVE  /\ DOMAIN Register(t, u, par[u], name) = DOMAIN t \cup {u}
         /\ TreeOK(Register(t, u, par[u], name), par, m)
<1> SUFFICES ASSUME NEW r, r = Register(t, u, par[u], name)
             PROVE  DOMAIN r = DOMAIN t \cup {u} /\ TreeOK(r, par, m)
  OBVIOUS
<1>00. /\ Ranked(par) /\ IsDomain(m, kd, par) /\ TreeOK(t, par, m)
       /\ u \in Agents /\ par[u] \in DOMAIN t /\ \A b \in Agents : par[b] # u
       /\ name \in Names /\ (name = "wf" <=> kd[u] = "workflow")
  BY DEF MayJoin
<1>0. Actors = 0..MaxSpawns /\ Agents = 1..MaxSpawns /\ MaxSpawns \in Nat /\ Null \notin Actors /\ Primary = 0
      /\ Actors = {Primary} \cup Agents /\ Primary \notin Agents
  BY <1>00, ActorsAreNumbers, AgentAssumption DEF Primary
<1>1. PICK D : D = DOMAIN t /\ TreeOn(D, t, par, m)
  BY <1>00 DEF TreeOK
<1>2. D \subseteq Actors /\ Primary \in D /\ t \in [D -> Nodes(D)] /\ t[Primary].parent = Null
      /\ (\A a \in D \ {Primary} : par[a] # Null) /\ (\A a \in D : t[a].workflow = m[a])
      /\ \A a, b \in D : a \in t[b].children <=> t[a].parent = b
  BY <1>00, <1>1 DEF TreeOn
<1>3. PICK h : IsHome(h, par, D) /\ \A a \in D \ {Primary} : t[a].parent = h[a]
  BY <1>00, <1>1 DEF TreeOn
<1>4. \A a \in Agents : (par[a] = Null => h[a] = Null) /\ (par[a] # Null => h[a] \in D /\ h[a] # u)
  BY <1>00, <1>2, <1>3, HomeRange
<1>5. PICK p \in D : p = par[u] /\ p # u /\ p # Null
  BY <1>00, <1>0, <1>1, <1>2
<1>6. h[u] = p /\ u \in Actors /\ u # Primary /\ u # Null
  BY <1>00, <1>0, <1>3, <1>5 DEF IsHome
<1>7. \A a \in D : t[a].parent # u
  BY <1>00, <1>0, <1>2, <1>3, <1>4, <1>6
<1>8. u \in D => t[u].parent = p /\ t[u].children = {} /\ u \in t[p].children
  <2> SUFFICES ASSUME u \in D PROVE t[u].parent = p /\ t[u].children = {} /\ u \in t[p].children
    BY <1>00
  <2>1. t[u].parent = p
    BY <1>00, <1>3, <1>6
  <2>2. t[u].children \subseteq D
    BY <1>00, <1>2 DEF Nodes
  <2> QED BY <1>00, <1>2, <1>7, <2>1, <2>2
<1>9. PICK E : E = D \cup {u} /\ E \subseteq Actors
  <2>1. D \cup {u} \subseteq Actors
    BY <1>00, <1>2, <1>6, Zenon
  <2> QED BY <1>00, <2>1, Zenon
<1>10. PICK v : v = IF name = "wf" THEN u ELSE t[p].workflow
  OBVIOUS
<1>11. PICK q : q = [t[p] EXCEPT !.children = t[p].children \cup {u}]
  OBVIOUS
<1>12. r = [n \in E |-> IF n = u THEN [parent |-> p, children |-> {}, name |-> name, workflow |-> v]
                        ELSE IF n = p THEN q ELSE t[n]]
  <2>1. r = Register(t, u, p, name)
    BY <1>00, <1>5
  <2>2. Register(t, u, p, name) = Joined(t, u, p, name)
    <3>1. /\ DOMAIN t \subseteq Actors /\ t \in [DOMAIN t -> Nodes(DOMAIN t)] /\ p \in DOMAIN t /\ p # u
          /\ u \in DOMAIN t => t[u].parent = p /\ t[u].children = {} /\ u \in t[p].children
      BY <1>00, <1>1, <1>2, <1>5, <1>8
    <3>2. u \in Agents /\ name \in Names
      BY <1>00
    <3> QED BY <1>00, <3>1, <3>2, RegisterIs, Zenon
  <2> QED BY <1>00, <1>1, <1>9, <1>10, <1>11, <2>1, <2>2 DEF Joined
<1>13. q = [parent |-> t[p].parent, children |-> t[p].children \cup {u}, name |-> t[p].name, workflow |-> t[p].workflow]
  <2>1. t[p] \in Nodes(D)
    BY <1>00, <1>2
  <2> QED BY <1>00, <1>11, <2>1 DEF Nodes
<1>14. /\ r[u].parent = p /\ r[u].children = {} /\ r[u].workflow = v
       /\ \A n \in D \ {u} : /\ r[n].parent = t[n].parent /\ r[n].workflow = t[n].workflow /\ r[n].name = t[n].name
                            /\ r[n].children = IF n = p THEN t[n].children \cup {u} ELSE t[n].children
  BY <1>00, <1>9, <1>12, <1>13
<1>15. v = m[u]
  <2>1. m[u] = IF kd[u] = "workflow" THEN u ELSE m[p]
    BY <1>00, <1>5, <1>6 DEF IsDomain
  <2> QED BY <1>00, <1>2, <1>5, <1>10, <2>1
<1>16. r \in [E -> Nodes(E)]
  <2>1. ASSUME NEW n \in E PROVE r[n] \in Nodes(E)
    <3>1. CASE n = u
      <4>1. v \in Actors \cup {Null}
        BY <1>00, <1>2, <1>5, <1>6, <1>10 DEF Nodes
      <4> QED BY <1>00, <1>2, <1>5, <1>12, <3>1, <4>1 DEF Nodes
    <3>2. CASE n = p
      <4>1. t[p] \in Nodes(D) /\ p # u
        BY <1>00, <1>2, <1>5
      <4>2. q \in Nodes(E)
        BY <1>00, <1>9, <1>13, <4>1 DEF Nodes
      <4> QED BY <1>00, <1>12, <3>2, <4>1, <4>2
    <3>3. CASE n # u /\ n # p
      <4>1. t[n] \in Nodes(D) /\ r[n] = t[n]
        BY <1>00, <1>2, <1>9, <1>12, <3>3
      <4> QED BY <1>00, <1>9, <4>1 DEF Nodes
    <3> QED BY <1>00, <3>1, <3>2, <3>3
  <2> QED BY <1>00, <1>12, <2>1
<1>17. IsHome(h, par, E)
  <2>1. ASSUME NEW a \in Agents
        PROVE  h[a] = IF par[a] = Null \/ par[a] \in E THEN par[a] ELSE h[par[a]]
    <3>1. h[a] = IF par[a] = Null \/ par[a] \in D THEN par[a] ELSE h[par[a]]
      BY <1>00, <1>3 DEF IsHome
    <3> QED BY <1>00, <1>9, <3>1
  <2>2. h = [a \in Agents |-> h[a]]
    BY <1>00, <1>3 DEF IsHome
  <2>3. h = [a \in Agents |-> IF par[a] = Null \/ par[a] \in E THEN par[a] ELSE h[par[a]]]
    BY <1>00, <2>1, <2>2
  <2> QED BY <1>00, <2>3 DEF IsHome
<1>18. \A a \in E \ {Primary} : r[a].parent = h[a]
  BY <1>00, <1>3, <1>6, <1>9, <1>14
<1>19. ASSUME NEW a \in E PROVE r[a].workflow = m[a]
  <2>1. CASE a = u
    BY <1>00, <1>14, <1>15, <2>1
  <2>2. CASE a # u
    <3>1. a \in D \ {u}
      BY <1>00, <1>9, <2>2
    <3> QED BY <1>00, <1>2, <1>14, <3>1
  <2> QED BY <1>00, <2>1, <2>2
<1>20. Primary \in E /\ r[Primary].parent = Null /\ \A a \in E \ {Primary} : par[a] # Null
  BY <1>00, <1>2, <1>5, <1>6, <1>9, <1>14
<1>21. ASSUME NEW a \in E, NEW b \in E PROVE a \in r[b].children <=> r[a].parent = b
  <2>1. CASE a = u /\ b = u
    BY <1>00, <1>5, <1>14, <2>1
  <2>2. CASE a = u /\ b # u
    <3>1. b \in D /\ r[b].children = IF b = p THEN t[b].children \cup {u} ELSE t[b].children
      BY <1>00, <1>9, <1>14, <2>2
    <3>2. b # p => u \notin t[b].children
      <4> SUFFICES ASSUME u \in t[b].children, b # p PROVE FALSE
        BY <1>00
      <4>1. u \in D
        BY <1>00, <1>2, <3>1 DEF Nodes
      <4> QED BY <1>00, <1>2, <1>8, <3>1, <4>1
    <3> QED BY <1>00, <1>14, <2>2, <3>1, <3>2
  <2>3. CASE a # u /\ b = u
    BY <1>00, <1>7, <1>9, <1>14, <2>3
  <2>4. CASE a # u /\ b # u
    <3>1. /\ a \in D /\ b \in D /\ r[a].parent = t[a].parent
          /\ r[b].children = IF b = p THEN t[b].children \cup {u} ELSE t[b].children
      BY <1>00, <1>9, <1>14, <2>4
    <3> QED BY <1>00, <1>2, <2>4, <3>1
  <2> QED BY <1>00, <2>1, <2>2, <2>3, <2>4
<1>22. \E f : IsHome(f, par, E) /\ \A a \in E \ {Primary} : r[a].parent = f[a]
  BY <1>00, <1>17, <1>18
<1>23. TreeOn(E, r, par, m)
  BY <1>00, <1>9, <1>16, <1>19, <1>20, <1>21, <1>22 DEF TreeOn
<1>24. DOMAIN r = E
  BY <1>00, <1>12
<1> QED BY <1>00, <1>1, <1>9, <1>23, <1>24 DEF TreeOK

\* The fold that takes the agents of a set out of a tree, one after the other.
Anyone(r) == CHOOSE x \in r : TRUE
Leaves(it, s, S, t) ==
  it = [r \in S |-> IF r = {} THEN t ELSE Unregister(it[r \ {Anyone(r)}], Anyone(r))]

LEMMA OneLess ==
  ASSUME NEW s, IsFiniteSet(s), NEW r \in SUBSET s, r # {}
  PROVE  /\ Anyone(r) \in r /\ r \ {Anyone(r)} \in SUBSET s
         /\ Cardinality(r) \in Nat /\ Cardinality(r \ {Anyone(r)}) + 1 = Cardinality(r)
         /\ Cardinality(r \ {Anyone(r)}) \in Nat
<1>1. PICK x \in r : x = Anyone(r)
  BY DEF Anyone
<1>2. IsFiniteSet(r)
  BY FS_Subset, Zenon
<1>3. Cardinality(r) \in Nat
  BY <1>2, FS_CardinalityType, Zenon
<1>4. IsFiniteSet(r \ {x}) /\ Cardinality(r \ {x}) = Cardinality(r) - 1
  BY <1>1, <1>2, FS_RemoveElement
<1>5. Cardinality(r \ {x}) \in Nat
  BY <1>4, FS_CardinalityType, Zenon
<1> QED BY <1>1, <1>3, <1>4, <1>5

LEMMA FoldExists ==
  ASSUME NEW s, IsFiniteSet(s), NEW t
  PROVE  \E it : Leaves(it, s, SUBSET s, t)
<1> DEFINE Small(n) == {r \in SUBSET s : Cardinality(r) <= n}
           S == {n \in Nat : \E it : Leaves(it, s, Small(n), t)}
<1>1. 0 \in S
  <2>1. \A r \in Small(0) : r = {}
    <3> SUFFICES ASSUME NEW r \in Small(0), r # {} PROVE FALSE
      OBVIOUS
    <3>1. PICK i \in Nat, j \in Nat : i = Cardinality(r) /\ j + 1 = i
      BY OneLess
    <3> QED BY <3>1
  <2>2. PICK it : it = [r \in Small(0) |-> t]
    OBVIOUS
  <2>3. it = [r \in Small(0) |-> IF r = {} THEN t ELSE Unregister(it[r \ {Anyone(r)}], Anyone(r))]
    BY <2>1, <2>2
  <2>4. Leaves(it, s, Small(0), t)
    BY <2>3 DEF Leaves
  <2> QED BY <2>4
<1>2. ASSUME NEW n \in Nat, n \in S PROVE n + 1 \in S
  <2>1. PICK f : Leaves(f, s, Small(n), t)
    BY <1>2
  <2>2. PICK g : g = [r \in Small(n + 1) |-> IF r = {} THEN t ELSE Unregister(f[r \ {Anyone(r)}], Anyone(r))]
    OBVIOUS
  <2>3. ASSUME NEW r \in Small(n + 1), r # {} PROVE f[r \ {Anyone(r)}] = g[r \ {Anyone(r)}]
    <3>1. PICK q : q = r \ {Anyone(r)}
      OBVIOUS
    <3>2. q \in Small(n) /\ q \in Small(n + 1)
      <4>1. r \in SUBSET s /\ Cardinality(r) <= n + 1
        OBVIOUS
      <4>2. q \in SUBSET s /\ Cardinality(r) \in Nat /\ Cardinality(q) + 1 = Cardinality(r) /\ Cardinality(q) \in Nat
        BY <2>3, <3>1, <4>1, OneLess
      <4>3. Cardinality(q) <= n /\ Cardinality(q) <= n + 1
        BY <4>1, <4>2
      <4> QED BY <4>2, <4>3
    <3>3. f[q] = IF q = {} THEN t ELSE Unregister(f[q \ {Anyone(q)}], Anyone(q))
      BY <2>1, <3>2 DEF Leaves
    <3>4. g[q] = IF q = {} THEN t ELSE Unregister(f[q \ {Anyone(q)}], Anyone(q))
      BY <2>2, <3>2
    <3> QED BY <3>1, <3>3, <3>4
  <2>4. g = [r \in Small(n + 1) |-> IF r = {} THEN t ELSE Unregister(g[r \ {Anyone(r)}], Anyone(r))]
    BY <2>2, <2>3
  <2>5. Leaves(g, s, Small(n + 1), t)
    BY <2>4 DEF Leaves
  <2> HIDE DEF Small
  <2>6. n + 1 \in Nat
    OBVIOUS
  <2> QED BY <2>5, <2>6, Zenon
<1> HIDE DEF S
<1>3. Nat \subseteq S
  BY <1>1, <1>2, Inductive
<1>4. PICK n \in Nat : n = Cardinality(s)
  BY FS_CardinalityType
<1>5. Small(n) = SUBSET s
  <2>1. ASSUME NEW r \in SUBSET s PROVE Cardinality(r) <= n
    BY <1>4, <2>1, FS_Subset
  <2> QED BY <2>1
<1> QED BY <1>3, <1>4, <1>5 DEF S

LEMMA Folded ==
  ASSUME NEW s, IsFiniteSet(s)
  PROVE  \E it : Leaves(it, s, SUBSET s, tree) /\ UnregisterAll(s) = it[s]
<1>1. UnregisterAll(s) = (CHOOSE it : it = [r \in SUBSET s |->
             IF r = {} THEN tree ELSE Unregister(it[r \ {CHOOSE x \in r : TRUE}], CHOOSE x \in r : TRUE)])[s]
  BY DEF UnregisterAll, FoldSet, MapThenFoldSet
<1>2. UnregisterAll(s) = (CHOOSE it : Leaves(it, s, SUBSET s, tree))[s]
  BY <1>1 DEF Leaves, Anyone
<1>3. Leaves(CHOOSE it : Leaves(it, s, SUBSET s, tree), s, SUBSET s, tree)
  BY FoldExists
<1> QED BY <1>2, <1>3

\* However many agents leave it, a tree stays a tree of the others.
LEMMA FoldKeeps ==
  ASSUME NEW par, Ranked(par), NEW m, TreeOK(tree, par, m), NEW s \in SUBSET Agents,
         NEW r, r = UnregisterAll(s)
  PROVE  DOMAIN r = DOMAIN tree \ s /\ TreeOK(r, par, m)
<1>0. IsFiniteSet(s)
  <2>1. Agents = 1..MaxSpawns /\ 1 \in Int /\ MaxSpawns \in Int
    BY ActorsAreNumbers
  <2>2. IsFiniteSet(Agents)
    BY <2>1, FS_Interval, Zenon
  <2> QED BY <2>2, FS_Subset, Zenon
<1>1. PICK it : Leaves(it, s, SUBSET s, tree) /\ r = it[s]
  BY <1>0, Folded
<1> DEFINE OK(q) == DOMAIN it[q] = DOMAIN tree \ q /\ TreeOK(it[q], par, m)
           S == {n \in Nat : \A q \in SUBSET s : Cardinality(q) <= n => OK(q)}
<1>2. ASSUME NEW q \in SUBSET s PROVE it[q] = IF q = {} THEN tree ELSE Unregister(it[q \ {Anyone(q)}], Anyone(q))
  BY <1>1 DEF Leaves
<1>3. OK({})
  <2>1. it[{}] = tree
    BY <1>2
  <2> QED BY <2>1
<1> HIDE DEF OK
<1>4. 0 \in S
  <2>1. ASSUME NEW q \in SUBSET s, Cardinality(q) <= 0 PROVE OK(q)
    <3>1. CASE q = {}
      BY <1>3, <3>1
    <3>2. CASE q # {}
      <4>1. PICK i \in Nat, j \in Nat : i = Cardinality(q) /\ j + 1 = i
        BY <1>0, <3>2, OneLess
      <4> QED BY <2>1, <4>1
    <3> QED BY <3>1, <3>2
  <2> QED BY <2>1
<1>5. ASSUME NEW n \in Nat, n \in S PROVE n + 1 \in S
  <2>1. ASSUME NEW q \in SUBSET s, q # {}, Cardinality(q) <= n + 1 PROVE OK(q)
    <3>1. PICK u : u = Anyone(q)
      OBVIOUS
    <3>2. PICK o : o = q \ {u}
      OBVIOUS
    <3>3. u \in q /\ o \in SUBSET s /\ Cardinality(q) \in Nat /\ Cardinality(o) + 1 = Cardinality(q) /\ Cardinality(o) \in Nat
      BY <1>0, <2>1, <3>1, <3>2, OneLess
    <3>4. Cardinality(o) <= n
      BY <2>1, <3>3
    <3>5. OK(o)
      BY <1>5, <3>3, <3>4
    <3>6. PICK t : t = it[o]
      OBVIOUS
    <3>7. PICK x : x = it[q]
      OBVIOUS
    <3>8. x = Unregister(t, u)
      BY <1>2, <2>1, <3>1, <3>2, <3>6, <3>7
    <3>9. DOMAIN t = DOMAIN tree \ o /\ TreeOK(t, par, m)
      BY <3>5, <3>6 DEF OK
    <3>10. u \in Agents
      BY <3>3
    <3>11. CASE u \in DOMAIN t
      <4>1. DOMAIN x = DOMAIN t \ {u} /\ TreeOK(x, par, m)
        BY <3>8, <3>9, <3>10, <3>11, UnregisterKeeps
      <4>2. DOMAIN x = DOMAIN tree \ q
        BY <3>2, <3>3, <3>9, <4>1
      <4> QED BY <3>7, <4>1, <4>2 DEF OK
    <3>12. CASE u \notin DOMAIN t
      <4>1. x = t
        BY <3>8, <3>12 DEF Unregister
      <4>2. DOMAIN x = DOMAIN tree \ q
        BY <3>2, <3>3, <3>9, <3>12, <4>1
      <4> QED BY <3>7, <3>9, <4>1, <4>2 DEF OK
    <3> QED BY <3>11, <3>12
  <2> QED BY <1>3, <2>1
<1> HIDE DEF S
<1>6. Nat \subseteq S
  BY <1>4, <1>5, Inductive
<1>7. PICK n \in Nat : n = Cardinality(s)
  BY <1>0, FS_CardinalityType
<1>8. OK(s)
  <2>1. n \in S /\ n <= n
    BY <1>6
  <2> QED BY <1>7, <2>1 DEF S
<1> QED BY <1>1, <1>8 DEF OK

\* Whoever is asked for comes with a parent of the tree: the others stay where
\* they are.
LEMMA SpawnPlaced ==
  ASSUME NEW par, Ranked(par), NEW kd \in [Agents -> KindNames \cup {Null}], NEW m, IsDomain(m, kd, par),
         NEW t, TreeOK(t, par, m),
         NEW a \in Agents, a \notin DOMAIN t, \A b \in Agents : par[b] # a, NEW p \in DOMAIN t, NEW k,
         NEW q, q = [par EXCEPT ![a] = p], NEW kq, kq = [kd EXCEPT ![a] = k]
  PROVE  \E n : IsDomain(n, kq, q) /\ TreeOK(t, q, n)
<1>0. Actors = {Primary} \cup Agents /\ Primary \notin Agents /\ Null \notin Actors
  BY ActorsAreNumbers, AgentAssumption DEF Primary
<1>1. PICK D : D = DOMAIN t /\ TreeOn(D, t, par, m)
  BY DEF TreeOK
<1>2. D \subseteq Actors /\ Primary \in D /\ t \in [D -> Nodes(D)] /\ t[Primary].parent = Null
      /\ (\A b \in D \ {Primary} : par[b] # Null) /\ (\A b \in D : t[b].workflow = m[b])
      /\ \A b, c \in D : b \in t[c].children <=> t[b].parent = c
  BY <1>1 DEF TreeOn
<1>3. PICK h : IsHome(h, par, D) /\ \A b \in D \ {Primary} : t[b].parent = h[b]
  BY <1>1 DEF TreeOn
<1>4. p \in D /\ a \notin D /\ p # Null /\ p # a /\ p \in Actors
  BY <1>0, <1>1, <1>2
<1>5. par \in [Agents -> Actors \cup {Null}] /\ q[a] = p /\ kq[a] = k
      /\ \A b \in Agents \ {a} : q[b] = par[b] /\ kq[b] = kd[b] /\ q[b] # a
  BY DEF Ranked
<1>6. PICK g : g = [h EXCEPT ![a] = p]
  OBVIOUS
<1>7. IsHome(g, q, D)
  <2>1. h = [b \in Agents |-> h[b]]
    BY <1>3 DEF IsHome
  <2>2. g[a] = p /\ \A b \in Agents \ {a} : g[b] = h[b]
    BY <1>6, <2>1
  <2>3. ASSUME NEW b \in Agents PROVE g[b] = IF q[b] = Null \/ q[b] \in D THEN q[b] ELSE g[q[b]]
    <3>1. CASE b = a
      BY <1>4, <1>5, <2>2, <3>1
    <3>2. CASE b # a
      <4>1. h[b] = IF par[b] = Null \/ par[b] \in D THEN par[b] ELSE h[par[b]]
        BY <1>3 DEF IsHome
      <4>2. q[b] = par[b] /\ par[b] # a /\ g[b] = h[b]
        BY <1>5, <2>2, <3>2
      <4>3. par[b] \notin D /\ par[b] # Null => par[b] \in Agents
        BY <1>0, <1>2, <1>5
      <4> QED BY <2>2, <4>1, <4>2, <4>3
    <3> QED BY <3>1, <3>2
  <2>4. g = [b \in Agents |-> g[b]]
    BY <1>6, <2>1
  <2>5. g = [b \in Agents |-> IF q[b] = Null \/ q[b] \in D THEN q[b] ELSE g[q[b]]]
    BY <2>3, <2>4
  <2> QED BY <2>5 DEF IsHome
<1>8. PICK n : n = [m EXCEPT ![a] = IF k = "workflow" THEN a ELSE m[p]]
  OBVIOUS
<1>9. m = [b \in Actors |-> m[b]] /\ n = [b \in Actors |-> n[b]]
  BY <1>8 DEF IsDomain
<1>10. n[a] = (IF k = "workflow" THEN a ELSE m[p]) /\ \A b \in Actors \ {a} : n[b] = m[b]
  BY <1>0, <1>8, <1>9
<1>11. IsDomain(n, kq, q)
  <2>1. ASSUME NEW b \in Actors
        PROVE  n[b] = IF b = Primary THEN Null ELSE IF kq[b] = "workflow" THEN b
                      ELSE IF q[b] = Null THEN Null ELSE n[q[b]]
    <3>1. CASE b = a
      BY <1>0, <1>4, <1>5, <1>10, <3>1
    <3>2. CASE b # a
      <4>1. m[b] = IF b = Primary THEN Null ELSE IF kd[b] = "workflow" THEN b
                   ELSE IF par[b] = Null THEN Null ELSE m[par[b]]
        BY DEF IsDomain
      <4>2. b # Primary => q[b] = par[b] /\ par[b] # a /\ kq[b] = kd[b] /\ (par[b] = Null \/ par[b] \in Actors)
        BY <1>0, <1>5, <3>2
      <4> QED BY <1>10, <3>2, <4>1, <4>2
    <3> QED BY <3>1, <3>2
  <2>2. n = [b \in Actors |-> IF b = Primary THEN Null ELSE IF kq[b] = "workflow" THEN b
                              ELSE IF q[b] = Null THEN Null ELSE n[q[b]]]
    BY <1>9, <2>1
  <2> QED BY <2>2 DEF IsDomain
<1>12. \E f : IsHome(f, q, D) /\ \A b \in D \ {Primary} : t[b].parent = f[b]
  <2>1. \A b \in D \ {Primary} : t[b].parent = g[b]
    <3>1. h = [b \in Agents |-> h[b]]
      BY <1>3 DEF IsHome
    <3>2. \A b \in Agents \ {a} : g[b] = h[b]
      BY <1>6, <3>1
    <3> QED BY <1>0, <1>2, <1>3, <1>4, <3>2
  <2> QED BY <1>7, <2>1
<1>13. \A b \in D \ {Primary} : q[b] # Null
  BY <1>0, <1>2, <1>4, <1>5
<1>14. \A b \in D : t[b].workflow = n[b]
  BY <1>2, <1>4, <1>10
<1>15. TreeOn(D, t, q, n)
  BY <1>2, <1>12, <1>13, <1>14 DEF TreeOn
<1> QED BY <1>1, <1>11, <1>15 DEF TreeOK

-----------------------------------------------------------------------------
(* The invariant of the tree.                                              *)

\* Sub-agents are asked for one after the other, by whoever has been there.
SpawnOrder ==
  /\ \A a, b \in Agents : b < a /\ phase[a] # "unused" => phase[b] # "unused"
  /\ \A a \in Agents : phase[a] = "unused" <=> parent[a] = Null
  /\ \A a \in Agents : parent[a] # Null => parent[a] < a
  /\ \A a \in Agents : parent[a] \in Agents => phase[parent[a]] \in {"live", "gone"}
  /\ \A a \in Agents : phase[a] # "unused" /\ kind[a] \notin Delegated => parent[a] = Primary
  /\ \A a \in instances : phase[a] # "unused"

Held == {Primary} \cup Tracked \cup {a \in instances : phase[a] \in {"creating", "dropped"}}
TreeIsOf == \E m : IsDomain(m, kind, parent) /\ TreeOK(tree, parent, m)
TreeInv == WorkInv /\ SpawnOrder /\ DOMAIN tree = Held /\ TreeIsOf

LEMMA OrderRanks ==
  ASSUME TypeInv, SpawnOrder
  PROVE  Ranked(parent)
<1>1. parent \in [Agents -> Actors \cup {Null}]
  BY DEF TypeInv, AgentTypeOK
<1>2. \A a \in Agents : parent[a] \in Agents => parent[parent[a]] # Null
  BY DEF SpawnOrder
<1> QED BY <1>1, <1>2 DEF Ranked, SpawnOrder

\* Steps that leave the spawns and the tree alone.
LEMMA TreeUnmoved ==
  ASSUME TreeInv, UNCHANGED <<kind, parent, phase, instances, tree>>
  PROVE  SpawnOrder' /\ (DOMAIN tree = Held)' /\ TreeIsOf'
<1>1. SpawnOrder'
  BY DEF TreeInv, SpawnOrder
<1>2. (DOMAIN tree = Held)'
  BY DEF TreeInv, Held, Tracked
<1>3. TreeIsOf'
  BY DEF TreeInv, TreeIsOf
<1> QED BY <1>1, <1>2, <1>3

\* Sub-agents move on.
Onward(x, y) ==
  \/ x = y
  \/ x = "creating" /\ y \in {"live", "dropped"}
  \/ x = "live" /\ y = "gone"

LEMMA OrderKept ==
  ASSUME SpawnOrder, UNCHANGED <<kind, parent>>, instances' \subseteq instances, instances \subseteq Agents,
         \A a \in Agents : Onward(phase[a], phase'[a])
  PROVE  SpawnOrder'
<1>1. \A a \in Agents : /\ phase[a] = "unused" <=> phase'[a] = "unused"
                        /\ phase[a] \in {"live", "gone"} => phase'[a] \in {"live", "gone"}
  BY DEF Onward
<1> QED BY <1>1 DEF SpawnOrder

\* Agents are taken out, and a spawn may be given up.
LEMMA TreeShrinks ==
  ASSUME TreeInv, NEW s \in SUBSET Tracked, UNCHANGED <<kind, parent>>,
         tree' = UnregisterAll(s), instances' = instances \ s,
         \A b \in Agents : IF b \in s THEN phase'[b] = "gone"
                           ELSE phase'[b] = phase[b] \/ (phase[b] = "creating" /\ phase'[b] = "dropped")
  PROVE  SpawnOrder' /\ (DOMAIN tree = Held)' /\ TreeIsOf'
<1>1. s \subseteq Agents /\ (\A b \in s : phase[b] = "live") /\ instances \subseteq Agents
  BY DEF Tracked, TreeInv, WorkInv, TypeInv, AgentTypeOK
<1>2. SpawnOrder'
  <2>1. \A a \in Agents : Onward(phase[a], phase'[a])
    BY <1>1 DEF Onward
  <2> QED BY <1>1, <2>1, OrderKept DEF TreeInv
<1>3. PICK m : IsDomain(m, kind, parent) /\ TreeOK(tree, parent, m)
  BY DEF TreeInv, TreeIsOf
<1>4. PICK par : par = parent /\ Ranked(par)
  BY OrderRanks DEF TreeInv, WorkInv
<1>5. PICK r : r = tree'
  OBVIOUS
<1>6. DOMAIN r = DOMAIN tree \ s /\ TreeOK(r, par, m)
  BY <1>1, <1>3, <1>4, <1>5, FoldKeeps
<1>7. TreeIsOf'
  BY <1>3, <1>4, <1>5, <1>6 DEF TreeIsOf
<1>8. Held' = Held \ s
  <2>1. Primary \notin Agents
    BY ActorsAreNumbers DEF Primary
  <2>2. Tracked' = Tracked \ s
    BY <1>1 DEF Tracked
  <2>3. {a \in instances' : phase'[a] \in {"creating", "dropped"}} = {a \in instances : phase[a] \in {"creating", "dropped"}} \ s
    BY <1>1
  <2> QED BY <1>1, <2>1, <2>2, <2>3 DEF Held
<1>9. (DOMAIN tree = Held)'
  BY <1>5, <1>6, <1>8 DEF TreeInv
<1> QED BY <1>2, <1>7, <1>9

LEMMA TreeCleaned ==
  ASSUME TreeInv, NEW s \in SUBSET Tracked, UNCHANGED <<kind, parent>>, Cleanup(s)
  PROVE  SpawnOrder' /\ (DOMAIN tree = Held)' /\ TreeIsOf'
BY TreeShrinks DEF Cleanup

\* Who delegates, or has delegated, is there.
LEMMA WorkersAreThere ==
  ASSUME WorkInv, NEW p \in Actors, ~Stopping(p), p = Primary \/ AtWork(p) \/ Outstanding(p) # {}
  PROVE  p = Primary \/ p \in Tracked
<1> SUFFICES ASSUME p # Primary PROVE phase[p] = "live" /\ p \in Agents
  BY DEF Tracked
<1>1. p \in Agents
  BY DEF Actors
<1>2. Tip(run[p]) # "ended"
  <2>1. AtWork(p) => ~Done(p)
    BY DEF AtWork
  <2>2. Done(p) <=> Tip(run[p]) = "ended"
    BY <1>1, CurrentTask DEF WorkInv
  <2>3. Outstanding(p) # {} => Tip(run[p]) = "generating"
    BY <1>1 DEF WorkInv, DelegatesWork
  <2> QED BY <2>1, <2>2, <2>3
<1>3. Current(p) \notin cancelled
  BY DEF Stopping
<1> QED BY <1>1, <1>2, <1>3 DEF WorkInv, GoneIsCancelled

LEMMA TreeBegins ==
  ASSUME TreeInv, NEW a \in Agents, NEW p \in Actors, NEW k \in KindNames, NEW w, SpawnBegin(p, a, k, w)
  PROVE  SpawnOrder' /\ (DOMAIN tree = Held)' /\ TreeIsOf'
<1>0. /\ Actors = 0..MaxSpawns /\ Agents = 1..MaxSpawns /\ MaxSpawns \in Nat /\ Null \notin Actors /\ Primary = 0
      /\ Primary \notin Agents /\ Actors = {Primary} \cup Agents
  BY ActorsAreNumbers, AgentAssumption DEF Primary
<1>1. WorkInv /\ TypeInv /\ SpawnOrder /\ DOMAIN tree = Held /\ TreeIsOf
  BY DEF TreeInv, WorkInv
<1>2. FieldTypes /\ TrackTypes
  BY <1>1, TypeParts
<1>3. /\ MayAsk(p, k) /\ phase[a] = "unused" /\ \A b \in 1..(a - 1) : phase[b] # "unused"
      /\ kind' = [kind EXCEPT ![a] = k] /\ parent' = [parent EXCEPT ![a] = p]
      /\ phase' = [phase EXCEPT ![a] = "creating"]
  BY DEF SpawnBegin
<1> DEFINE own == p # Primary /\ p \notin instances
<1>4. /\ instances' = IF own THEN instances \cup {a} ELSE instances
      /\ tree' = IF own THEN Register(tree, a, p, "primary") ELSE tree
  BY DEF SpawnBegin
<1>5. (k \in Delegated => AtWork(p)) /\ (k \notin Delegated => p = Primary)
  BY <1>3 DEF MayAsk
<1>6. p = Primary \/ p \in Tracked
  <2>1. AtWork(p) => ~Stopping(p)
    BY DEF AtWork
  <2> QED BY <1>1, <1>5, <2>1, WorkersAreThere
<1>7. p < a /\ p # a
  <2>1. CASE p = Primary
    BY <1>0, <2>1
  <2>2. CASE p \in Tracked
    <3>1. p \in Agents /\ phase[p] = "live" /\ p # a
      BY <1>3, <2>2 DEF Tracked
    <3>2. ~(a < p)
      BY <1>1, <1>3, <3>1 DEF SpawnOrder
    <3> QED BY <1>0, <3>1, <3>2
  <2> QED BY <1>6, <2>1, <2>2
<1>8. /\ kind'[a] = k /\ parent'[a] = p /\ phase'[a] = "creating"
      /\ \A b \in Agents \ {a} : kind'[b] = kind[b] /\ parent'[b] = parent[b] /\ phase'[b] = phase[b]
  BY <1>2, <1>3 DEF FieldTypes, TrackTypes
<1>9. SpawnOrder'
  <2>1. ASSUME NEW x \in Agents, NEW y \in Agents, y < x, phase'[x] # "unused" PROVE phase'[y] # "unused"
    <3>1. CASE x = a
      <4>1. y \in 1..(a - 1)
        BY <1>0, <2>1, <3>1
      <4> QED BY <1>3, <1>8, <4>1
    <3>2. CASE x # a
      BY <1>1, <1>8, <2>1, <3>2 DEF SpawnOrder
    <3> QED BY <3>1, <3>2
  <2>2. ASSUME NEW x \in Agents
        PROVE  /\ phase'[x] = "unused" <=> parent'[x] = Null
               /\ parent'[x] # Null => parent'[x] < x
               /\ phase'[x] # "unused" /\ kind'[x] \notin Delegated => parent'[x] = Primary
    <3>1. CASE x = a
      BY <1>0, <1>5, <1>7, <1>8, <3>1
    <3>2. CASE x # a
      BY <1>1, <1>8, <3>2 DEF SpawnOrder
    <3> QED BY <3>1, <3>2
  <2>3. ASSUME NEW x \in Agents, parent'[x] \in Agents PROVE phase'[parent'[x]] \in {"live", "gone"}
    <3>1. CASE x = a
      BY <1>0, <1>6, <1>7, <1>8, <2>3, <3>1 DEF Tracked
    <3>2. CASE x # a
      <4>1. parent'[x] = parent[x] /\ phase[parent[x]] \in {"live", "gone"}
        BY <1>1, <1>8, <2>3, <3>2 DEF SpawnOrder
      <4> QED BY <1>3, <1>8, <2>3, <4>1
    <3> QED BY <3>1, <3>2
  <2>4. ASSUME NEW x \in instances' PROVE phase'[x] # "unused"
    <3>1. x \in instances \/ x = a
      BY <1>4
    <3>2. x \in Agents
      BY <1>2, <3>1 DEF TrackTypes
    <3> QED BY <1>1, <1>8, <3>1, <3>2 DEF SpawnOrder
  <2> QED BY <2>1, <2>2, <2>3, <2>4 DEF SpawnOrder
<1>10. PICK t : t = tree
  OBVIOUS
<1>11. PICK par : par = parent /\ Ranked(par)
  BY <1>1, OrderRanks
<1>12. PICK kd \in [Agents -> KindNames \cup {Null}] : kd = kind
  BY <1>2 DEF FieldTypes
<1>13. PICK m : IsDomain(m, kd, par) /\ TreeOK(t, par, m)
  BY <1>1, <1>10, <1>11, <1>12 DEF TreeIsOf
<1>14. a \notin Held /\ p \in Held /\ a \notin instances
  <2>1. a \notin instances /\ a \notin Tracked /\ a # Primary
    BY <1>0, <1>1, <1>3 DEF SpawnOrder, Tracked
  <2> QED BY <1>6, <2>1 DEF Held
<1>15. \A b \in Agents : par[b] # a
  BY <1>1, <1>3, <1>11 DEF SpawnOrder
<1>16. PICK q : q = parent' /\ q = [par EXCEPT ![a] = p]
  BY <1>3, <1>11
<1>17. PICK kq : kq = kind' /\ kq = [kd EXCEPT ![a] = k]
  BY <1>3, <1>12
<1>18. PICK n : IsDomain(n, kq, q) /\ TreeOK(t, q, n)
  <2>1. a \notin DOMAIN t /\ p \in DOMAIN t
    BY <1>1, <1>10, <1>14
  <2>2. /\ Ranked(par) /\ kd \in [Agents -> KindNames \cup {Null}] /\ IsDomain(m, kd, par) /\ TreeOK(t, par, m)
        /\ a \in Agents /\ \A b \in Agents : par[b] # a
        /\ q = [par EXCEPT ![a] = p] /\ kq = [kd EXCEPT ![a] = k]
    BY <1>11, <1>12, <1>13, <1>15, <1>16, <1>17
  <2> QED BY <2>1, <2>2, SpawnPlaced, Zenon
<1>19. Tracked' = Tracked
  BY <1>3, <1>8 DEF Tracked
<1>20. CASE ~own
  <2>1. tree' = t /\ instances' = instances
    BY <1>4, <1>10, <1>20
  <2>2. TreeIsOf'
    BY <1>16, <1>17, <1>18, <2>1 DEF TreeIsOf
  <2>3. {b \in instances : phase'[b] \in {"creating", "dropped"}} = {b \in instances : phase[b] \in {"creating", "dropped"}}
    BY <1>2, <1>8, <1>14 DEF TrackTypes
  <2>4. Held' = Held
    BY <1>19, <2>1, <2>3 DEF Held
  <2> QED BY <1>1, <1>9, <1>10, <2>1, <2>2, <2>4
<1>21. CASE own
  <2>1. PICK r : r = tree' /\ r = Register(t, a, p, "primary") /\ instances' = instances \cup {a}
    BY <1>4, <1>10, <1>21
  <2>2. Ranked(q)
    <3>1. q \in [Agents -> Actors \cup {Null}]
      BY <1>2, <1>11, <1>16 DEF FieldTypes
    <3>2. \A b \in Agents : (q[b] # Null => q[b] < b) /\ (q[b] \in Agents => phase'[q[b]] \in {"live", "gone"})
      BY <1>9, <1>16 DEF SpawnOrder
    <3>3. \A b \in Agents : phase'[b] = "unused" <=> q[b] = Null
      BY <1>9, <1>16 DEF SpawnOrder
    <3> QED BY <3>1, <3>2, <3>3 DEF Ranked
  <2>3. q[a] = p /\ \A b \in Agents : q[b] # a
    BY <1>7, <1>8, <1>11, <1>15, <1>16
  <2>4. kq[a] # "workflow"
    BY <1>5, <1>8, <1>17, <1>21 DEF Delegated
  <2>5. PICK name : name = "primary" /\ name \in Names /\ (name = "wf" <=> kq[a] = "workflow")
    BY <2>4 DEF Names
  <2>6. DOMAIN r = DOMAIN t \cup {a} /\ TreeOK(r, q, n)
    <3>1. q[a] \in DOMAIN t /\ r = Register(t, a, q[a], name)
      BY <1>1, <1>10, <1>14, <2>1, <2>3, <2>5
    <3>2. MayJoin(a, name, t, q, kq, n)
      BY <1>18, <2>2, <2>3, <2>5, <3>1 DEF MayJoin
    <3> QED BY <3>1, <3>2, RegisterKeeps, Zenon
  <2>7. TreeIsOf'
    BY <1>16, <1>17, <1>18, <2>1, <2>6 DEF TreeIsOf
  <2>8. {b \in instances' : phase'[b] \in {"creating", "dropped"}} = {b \in instances : phase[b] \in {"creating", "dropped"}} \cup {a}
    BY <1>2, <1>8, <1>14, <2>1 DEF TrackTypes
  <2>9. Held' = Held \cup {a}
    BY <1>19, <2>8 DEF Held
  <2> QED BY <1>1, <1>9, <1>10, <2>1, <2>6, <2>7, <2>9
<1> QED BY <1>20, <1>21

LEMMA TreeGrows ==
  ASSUME TreeInv, NEW a \in Agents, SpawnRegister(a)
  PROVE  SpawnOrder' /\ (DOMAIN tree = Held)' /\ TreeIsOf'
<1>0. Null \notin Actors /\ Primary \notin Agents /\ Actors = {Primary} \cup Agents
  BY ActorsAreNumbers, AgentAssumption DEF Primary
<1>1. WorkInv /\ TypeInv /\ SpawnOrder /\ DOMAIN tree = Held /\ TreeIsOf
  BY DEF TreeInv, WorkInv
<1>2. FieldTypes /\ TrackTypes
  BY <1>1, TypeParts
<1>3. /\ phase[a] = "creating" /\ Wanted(a) /\ phase' = [phase EXCEPT ![a] = "live"]
      /\ tree' = Register(tree, a, parent[a], NameOf(kind[a]))
      /\ UNCHANGED <<kind, parent, instances>>
  BY DEF SpawnRegister, Joins, fields
<1>4. phase'[a] = "live" /\ \A b \in Agents \ {a} : phase'[b] = phase[b]
  BY <1>2, <1>3 DEF TrackTypes
<1>5. SpawnOrder'
  <2>1. \A b \in Agents : Onward(phase[b], phase'[b])
    BY <1>3, <1>4 DEF Onward
  <2> QED BY <1>1, <1>2, <1>3, <2>1, OrderKept DEF TrackTypes
<1>6. PICK p \in Actors : p = parent[a]
  BY <1>1, <1>2, <1>3 DEF SpawnOrder, FieldTypes
<1>7. p \in Held
  <2>1. CASE kind[a] \in Delegated
    <3>1. ~Stopping(p) /\ a \in Outstanding(p)
      BY <1>3, <1>6, <2>1 DEF Wanted, Outstanding
    <3> QED BY <1>1, <3>1, WorkersAreThere DEF Held
  <2>2. CASE kind[a] \notin Delegated
    BY <1>1, <1>3, <1>6, <2>2 DEF SpawnOrder, Held
  <2> QED BY <2>1, <2>2
<1>8. PICK t : t = tree
  OBVIOUS
<1>9. PICK par : par = parent /\ Ranked(par)
  BY <1>1, OrderRanks
<1>10. PICK kd : kd = kind
  OBVIOUS
<1>11. PICK m : IsDomain(m, kd, par) /\ TreeOK(t, par, m)
  BY <1>1, <1>8, <1>9, <1>10 DEF TreeIsOf
<1>12. PICK name : name = NameOf(kd[a]) /\ name \in Names /\ (name = "wf" <=> kd[a] = "workflow")
  BY DEF NameOf, Names
<1>13. PICK r : r = tree' /\ r = Register(t, a, par[a], name)
  BY <1>3, <1>8, <1>9, <1>10, <1>12
<1>14. par[a] \in DOMAIN t /\ \A b \in Agents : par[b] # a
  BY <1>1, <1>3, <1>6, <1>7, <1>8, <1>9 DEF SpawnOrder
<1>15. DOMAIN r = DOMAIN t \cup {a} /\ TreeOK(r, par, m)
  <2>1. MayJoin(a, name, t, par, kd, m)
    BY <1>9, <1>11, <1>12, <1>14 DEF MayJoin
  <2>2. r = Register(t, a, par[a], name)
    BY <1>13
  <2> QED BY <2>1, <2>2, RegisterKeeps, Zenon
<1>16. TreeIsOf'
  BY <1>3, <1>9, <1>10, <1>11, <1>13, <1>15 DEF TreeIsOf
<1>17. Held' = Held \cup {a}
  <2>1. Tracked' = Tracked \cup {a}
    BY <1>4 DEF Tracked
  <2>2. {b \in instances' : phase'[b] \in {"creating", "dropped"}} = {b \in instances : phase[b] \in {"creating", "dropped"}} \ {a}
    BY <1>2, <1>3, <1>4 DEF TrackTypes
  <2>3. Held \cup {a} = ({Primary} \cup (Tracked \cup {a})) \cup ({b \in instances : phase[b] \in {"creating", "dropped"}} \ {a})
    BY DEF Held
  <2> QED BY <2>1, <2>2, <2>3 DEF Held
<1> QED BY <1>1, <1>5, <1>8, <1>13, <1>15, <1>16, <1>17

\* The functions of the property are the ones of the invariant.
LEMMA HomeIs ==
  ASSUME TreeInv
  PROVE  IsHome(Home, parent, DOMAIN tree)
<1>1. PICK par : par = parent /\ Ranked(par)
  BY OrderRanks DEF TreeInv, WorkInv
<1>2. PICK D : D = DOMAIN tree /\ Primary \in D
  BY DEF TreeInv, Held
<1>3. \E h : IsHome(h, par, D)
  BY <1>1, <1>2, HomeExists
<1>4. IsHome(CHOOSE h : IsHome(h, par, D), par, D)
  BY <1>3
<1>5. Home = CHOOSE h : IsHome(h, par, D)
  BY <1>1, <1>2 DEF Home, IsHome
<1> QED BY <1>1, <1>2, <1>4, <1>5

LEMMA DomainIs ==
  ASSUME TreeInv
  PROVE  IsDomain(Domain, kind, parent)
<1>1. PICK par : par = parent /\ Ranked(par)
  BY OrderRanks DEF TreeInv, WorkInv
<1>2. PICK kd : kd = kind
  OBVIOUS
<1>3. \E m : IsDomain(m, kd, par)
  BY <1>1, DomainExists
<1>4. IsDomain(CHOOSE m : IsDomain(m, kd, par), kd, par)
  BY <1>3
<1>5. Domain = CHOOSE m : IsDomain(m, kd, par)
  BY <1>1, <1>2 DEF Domain, IsDomain
<1> QED BY <1>1, <1>2, <1>4, <1>5

LEMMA TreeIsRight == TreeInv => TreeFollowsSpawns
<1> SUFFICES ASSUME TreeInv PROVE TreeFollowsSpawns
  OBVIOUS
<1>1. PICK par : par = parent /\ Ranked(par)
  BY OrderRanks DEF TreeInv, WorkInv
<1>2. PICK kd : kd = kind
  OBVIOUS
<1>3. PICK t : t = tree
  OBVIOUS
<1>4. PICK m : IsDomain(m, kd, par) /\ TreeOK(t, par, m)
  BY <1>1, <1>2, <1>3 DEF TreeInv, TreeIsOf
<1>5. PICK D : D = DOMAIN t /\ TreeOn(D, t, par, m)
  BY <1>4 DEF TreeOK
<1>6. Primary \in D /\ D \subseteq Actors
  BY <1>5 DEF TreeOn
<1>7. PICK h : IsHome(h, par, D) /\ \A a \in D \ {Primary} : t[a].parent = h[a]
  BY <1>5 DEF TreeOn
<1>8. PICK g : g = Home /\ IsHome(g, par, D)
  BY <1>1, <1>3, <1>5, HomeIs
<1>9. PICK d : d = Domain /\ IsDomain(d, kd, par)
  BY <1>1, <1>2, DomainIs
<1>10. h = g /\ m = d
  BY <1>1, <1>4, <1>6, <1>7, <1>8, <1>9, HomeUnique, DomainUnique
<1>11. \A a \in DOMAIN tree \ {Primary} : tree[a].parent = Home[a] /\ tree[a].workflow = Domain[a]
  BY <1>3, <1>5, <1>7, <1>8, <1>9, <1>10 DEF TreeOn
<1>12. \A a, b \in DOMAIN tree : a \in tree[b].children <=> tree[a].parent = b
  BY <1>3, <1>5 DEF TreeOn
<1>13. DOMAIN tree = {Primary} \cup Tracked \cup {a \in instances : phase[a] \in {"creating", "dropped"}}
  BY DEF TreeInv, Held
<1> QED BY <1>11, <1>12, <1>13 DEF TreeFollowsSpawns

LEMMA TreeInit == Init => TreeInv
<1> SUFFICES ASSUME Init PROVE TreeInv
  OBVIOUS
<1>0. Actors = {Primary} \cup Agents /\ Primary \notin Agents /\ Null \notin Actors
  BY ActorsAreNumbers, AgentAssumption DEF Primary
<1>1. WorkInv /\ TypeInv
  BY WorkInit DEF WorkInv
<1>2. SpawnOrder
  BY <1>0 DEF Init, SpawnOrder
<1>3. PICK par : par = parent /\ Ranked(par)
  BY <1>1, <1>2, OrderRanks
<1>4. PICK kd : kd = kind
  OBVIOUS
<1>5. PICK m : IsDomain(m, kd, par)
  BY <1>3, DomainExists
<1>6. m[Primary] = Null
  BY <1>0, <1>5 DEF IsDomain
<1>7. PICK t : t = tree /\ t = Register(<<>>, Primary, Null, "primary")
  BY DEF Init
<1>8. PICK x : x = [parent |-> Null, children |-> {}, name |-> "primary", workflow |-> Null]
  OBVIOUS
<1>9. t = [n \in {Primary} |-> x]
  <2>1. PICK z : z = <<>> /\ DOMAIN z = {}
    <3>1. DOMAIN <<>> = {}
      OBVIOUS
    <3> QED BY <3>1
  <2>2. PICK b : b = [Blank EXCEPT !.name = "primary"]
    OBVIOUS
  <2>3. b = x
    BY <1>8, <2>2 DEF Blank
  <2>4. PICK e : e = Ensure(z, Primary)
    OBVIOUS
  <2>5. e = [n \in {Primary} |-> Blank]
    BY <2>1, <2>4 DEF Ensure
  <2>6. PICK named : named = [e EXCEPT ![Primary].name = "primary"]
    OBVIOUS
  <2>7. named = [n \in {Primary} |-> x]
    BY <2>2, <2>3, <2>5, <2>6
  <2>8. named[Primary].parent = Null
    BY <1>8, <2>7
  <2>9. t = SetWorkflow(named, Primary, Null)
    <3>1. Null \notin DOMAIN z
      BY <2>1
    <3> QED BY <1>7, <2>1, <2>4, <2>6, <2>8, <3>1 DEF Register
  <2>10. /\ Primary \in DOMAIN named /\ named[Primary].children = {} /\ named[Primary].name = "primary"
         /\ DOMAIN named = {Primary} /\ Cardinality(DOMAIN named) \in Nat
    <3>1. Cardinality({Primary}) = 1
      BY FS_Singleton
    <3> QED BY <1>8, <2>7, <3>1
  <2>11. t = [n \in DOMAIN named |-> IF n = Primary
                  THEN [named[n] EXCEPT !.workflow = IF named[Primary].name = "wf" THEN Primary ELSE Null] ELSE named[n]]
    BY <2>9, <2>10, JoinsAlone
  <2>12. PICK y : y = [x EXCEPT !.workflow = Null]
    OBVIOUS
  <2>13. y = x
    BY <1>8, <2>12
  <2>14. t = [n \in {Primary} |-> IF n = Primary THEN y ELSE named[n]]
    BY <2>7, <2>10, <2>11, <2>12
  <2> QED BY <2>13, <2>14
<1>10. TreeOn({Primary}, t, par, m)
  <2>1. \E f : IsHome(f, par, {Primary})
    BY <1>3, HomeExists
  <2>2. t \in [{Primary} -> Nodes({Primary})]
    BY <1>8, <1>9 DEF Nodes, Names
  <2> QED BY <1>0, <1>6, <1>8, <1>9, <2>1, <2>2 DEF TreeOn
<1>11. DOMAIN t = {Primary}
  BY <1>9
<1>12. TreeOK(t, par, m)
  BY <1>10, <1>11 DEF TreeOK
<1>13. TreeIsOf
  BY <1>3, <1>4, <1>5, <1>7, <1>12 DEF TreeIsOf
<1>14. Held = {Primary}
  BY DEF Init, Held, Tracked
<1> QED BY <1>1, <1>2, <1>7, <1>11, <1>13, <1>14 DEF TreeInv

LEMMA TreeStep ==
  ASSUME TreeInv, OneMessage, [Next]_vars
  PROVE  TreeInv'
<1>1. WorkInv'
  BY WorkStep DEF TreeInv
<1> DEFINE Moved == SpawnOrder' /\ (DOMAIN tree = Held)' /\ TreeIsOf'
<1>2. Finished \subseteq Tracked /\ Oldest(Finished) \subseteq Tracked
  BY DEF Finished, Eligible, Oldest
<1>3. ASSUME NEW a \in Agents, Spawning(a) PROVE Moved
  <2>1. ASSUME NEW p \in Actors, NEW k \in Kinds[a], NEW w \in {"none", "spawning"}, SpawnBegin(p, a, k, w)
        PROVE  Moved
    <3>1. k \in KindNames
      BY AgentAssumption
    <3> QED BY <2>1, <3>1, TreeBegins
  <2>2. CASE SpawnRegister(a)
    BY <2>2, TreeGrows
  <2>3. CASE SpawnTooLate(a)
    <3>1. PICK s \in SUBSET Tracked : s = Oldest(Finished)
      BY <1>2
    <3>2. /\ UNCHANGED <<kind, parent>> /\ tree' = UnregisterAll(s) /\ instances' = instances \ s
          /\ phase[a] = "creating"
          /\ phase' = [b \in Agents |-> IF b = a THEN "dropped" ELSE IF b \in s THEN "gone" ELSE phase[b]]
      BY <2>3, <3>1 DEF SpawnTooLate, fields
    <3>3. \A b \in Agents : IF b \in s THEN phase'[b] = "gone"
                           ELSE phase'[b] = phase[b] \/ (phase[b] = "creating" /\ phase'[b] = "dropped")
      BY <3>2 DEF Tracked
    <3> QED BY <3>2, <3>3, TreeShrinks
  <2>4. CASE SpawnDies(a)
    <3>1. /\ UNCHANGED <<kind, parent, instances, tree>> /\ phase[a] = "creating"
          /\ phase' = [phase EXCEPT ![a] = "dropped"]
      BY <2>4 DEF SpawnDies, fields
    <3>2. TrackTypes
      BY TypeParts DEF TreeInv, WorkInv
    <3>3. phase'[a] = "dropped" /\ \A b \in Agents \ {a} : phase'[b] = phase[b]
      BY <3>1, <3>2 DEF TrackTypes
    <3>4. SpawnOrder'
      <4>1. \A b \in Agents : Onward(phase[b], phase'[b])
        BY <3>1, <3>3 DEF Onward
      <4> QED BY <3>1, <3>2, <4>1, OrderKept DEF TrackTypes, TreeInv
    <3>5. Held' = Held
      <4>1. Tracked' = Tracked
        BY <3>1, <3>3 DEF Tracked
      <4>2. {b \in instances' : phase'[b] \in {"creating", "dropped"}} = {b \in instances : phase[b] \in {"creating", "dropped"}}
        BY <3>1, <3>2, <3>3 DEF TrackTypes
      <4> QED BY <4>1, <4>2 DEF Held
    <3>6. TreeIsOf'
      BY <3>1 DEF TreeInv, TreeIsOf
    <3> QED BY <3>1, <3>4, <3>5, <3>6 DEF TreeInv
  <2> QED BY <1>3, <2>1, <2>2, <2>3, <2>4 DEF Spawning
<1>4. ASSUME NEW s \in SUBSET Tracked, UNCHANGED <<kind, parent>>, Cleanup(s) PROVE Moved
  BY <1>4, TreeCleaned
<1>5. ASSUME UNCHANGED <<kind, parent, phase, instances, tree>> PROVE Moved
  BY <1>5, TreeUnmoved
<1>6. ASSUME NEW a \in Agents, Message(a) PROVE Moved
  BY <1>5, <1>6 DEF Message, fields, tracking
<1>7. ASSUME NEW a \in Agents, Running(a) PROVE Moved
  <2>1. UNCHANGED <<kind, parent, phase, instances, tree>>
    BY <1>7 DEF Running, FirstStep, NeverStarts, Returns, CancelledOut, Fails, fields, tracking
  <2> QED BY <1>5, <2>1
<1>8. ASSUME NEW a \in Agents, Ending(a) PROVE Moved
  <2>1. CASE InvokeReturns(a) \/ CallerCancelled(a) \/ CancelAgent(a)
    <3>1. UNCHANGED <<kind, parent, phase, instances, tree>>
      BY <2>1 DEF InvokeReturns, CallerCancelled, CancelAgent, fields, tracking
    <3> QED BY <1>5, <3>1
  <2>2. CASE ReapAgent(a)
    <3>1. {a} \in SUBSET Tracked /\ Cleanup({a}) /\ UNCHANGED <<kind, parent>>
      BY <2>2 DEF ReapAgent, fields
    <3> QED BY <1>4, <3>1
  <2>3. CASE DelayedCleanup(a)
    <3>1. ({a} \cap Tracked) \in SUBSET Tracked /\ Cleanup({a} \cap Tracked) /\ UNCHANGED <<kind, parent>>
      BY <2>3 DEF DelayedCleanup, fields
    <3> QED BY <1>4, <3>1
  <2> QED BY <1>8, <2>1, <2>2, <2>3 DEF Ending
<1>9. ASSUME NEW p \in Actors, SpawnRefused(p) PROVE Moved
  <2>1. Cleanup(Oldest(Finished)) /\ UNCHANGED <<kind, parent>>
    BY <1>9 DEF SpawnRefused, LazyReap, fields
  <2> QED BY <1>2, <1>4, <2>1
<1>10. ASSUME NEW p \in Actors, Yielding(p) PROVE Moved
  <2>1. CASE Yield(p) \/ YieldReturns(p)
    <3>1. Cleanup(Finished) /\ UNCHANGED <<kind, parent>>
      BY <2>1 DEF Yield, YieldReturns, fields
    <3> QED BY <1>2, <1>4, <3>1
  <2>2. CASE YieldWaits(p) \/ YieldPolls(p) \/ YieldCancelled(p)
    <3>1. UNCHANGED <<kind, parent, phase, instances, tree>>
      BY <2>2 DEF YieldWaits, YieldPolls, YieldCancelled, fields, tracking
    <3> QED BY <1>5, <3>1
  <2>3. CASE YieldInterrupted(p)
    <3>1. UNCHANGED <<kind, parent>> /\ (UNCHANGED tracking \/ Cleanup(Finished))
      BY <2>3 DEF YieldInterrupted, fields
    <3>2. CASE UNCHANGED tracking
      BY <1>5, <3>1, <3>2 DEF tracking
    <3>3. CASE Cleanup(Finished)
      BY <1>2, <1>4, <3>1, <3>3
    <3> QED BY <3>1, <3>2, <3>3
  <2> QED BY <1>10, <2>1, <2>2, <2>3 DEF Yielding
<1>11. ASSUME Interrupt \/ Interrupted \/ UNCHANGED vars PROVE Moved
  <2>1. UNCHANGED <<kind, parent, phase, instances, tree>>
    BY <1>11 DEF Interrupt, Interrupted, vars, fields, tracking
  <2> QED BY <1>5, <2>1
<1>12. Moved
  <2> HIDE DEF Moved
  <2> QED BY <1>3, <1>6, <1>7, <1>8, <1>9, <1>10, <1>11 DEF Next
<1> QED BY <1>1, <1>12 DEF TreeInv

-----------------------------------------------------------------------------
(* The theorems.                                                           *)

\* Every field of every sub-agent stays within its type, the order of
\* _sub_agent_order stays a strict total order of the tracked ones, and no agent
\* has more tasks than its prompt and the later messages make, whatever races.
THEOREM AgentTypeCorrect == Spec => []AgentTypeOK
<1>1. TypeInv => AgentTypeOK
  BY DEF TypeInv
<1>2. TypeInv /\ [Next]_vars => TypeInv'
  BY TypeStep
<1> QED BY <1>1, <1>2, TypeInit, PTL DEF Spec

\* However many spawns are in flight between the two tests of max_sub_agents,
\* the agents at work on the prompt they were spawned for never exceed it,
\* whatever races.
THEOREM LimitKept == Spec => []LimitHolds
<1>1. LimitInv => LimitHolds
  BY DEF LimitInv
<1>2. LimitInv /\ [Next]_vars => LimitInv'
  BY LimitStep
<1> QED BY <1>1, <1>2, LimitInit, PTL DEF Spec

LEMMA WorkAlways ==
  ASSUME OneMessage
  PROVE  Spec => []WorkInv
<1>1. WorkInv /\ [Next]_vars => WorkInv'
  BY WorkStep
<1> QED BY <1>1, WorkInit, PTL DEF Spec

\* With no message started while a task of its agent runs, the primary is told
\* of each run of a child of its own that yielded, once, when that run ends, and
\* of no other run.
THEOREM ResultsDelivered ==
  ASSUME "message while running" \notin Races
  PROVE  Spec => []YieldIsDelivered
<1>1. Spec => []WorkInv
  BY WorkAlways DEF OneMessage
<1> QED BY <1>1, WorkIsSafe, PTL

\* Under the same condition what a reaper may take has nothing at work below it,
\* at any depth, and no spawn in flight.
THEOREM ReapersSafe ==
  ASSUME "message while running" \notin Races
  PROVE  Spec => []ReapSafe
<1>1. Spec => []WorkInv
  BY WorkAlways DEF OneMessage
<1> QED BY <1>1, WorkIsSafe, PTL

\* With neither race a tracked agent's status is final once its task is over,
\* and says that it runs, or has yielded, while its task is at work; no agent
\* has two tasks at work.
THEOREM StatusTruthful ==
  ASSUME Races = {}
  PROVE  Spec => []StatusFollowsRun
<1>1. StatusInv /\ [Next]_vars => StatusInv'
  BY StatusStep
<1> QED BY <1>1, StatusInit, StatusIsTrue, PTL DEF Spec

\* Under the first of these conditions the tree holds the tracked agents, each
\* below the nearest of those it descends from that is left and in the domain of
\* its origin, and its links agree, however many are removed and in any order.
THEOREM TreeFollows ==
  ASSUME "message while running" \notin Races
  PROVE  Spec => []TreeFollowsSpawns
<1>1. TreeInv /\ [Next]_vars => TreeInv'
  BY TreeStep DEF OneMessage
<1> QED BY <1>1, TreeInit, TreeIsRight, PTL DEF Spec

=============================================================================
