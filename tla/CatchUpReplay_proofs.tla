------------------------ MODULE CatchUpReplay_proofs -----------------------
(***************************************************************************)
(* Theorems about one job over downtime (CatchUpReplay), for any schedule  *)
(* whose next run is later (cron expressions and @every intervals), any    *)
(* limit and horizon, with catch-up on or off:                             *)
(*   ReplayInOrder    no slot runs twice, and slots run in order;          *)
(*   BacklogIsReplayed  which missed slots _successor gives up.            *)
(*                                                                         *)
(* The loop is a recursive function, whose values are found by induction   *)
(* over its steps.  Induction is used in the form of a set that holds 0    *)
(* and the successor of each of its numbers (Inductive).                   *)
(***************************************************************************)
EXTENDS CatchUpReplay, FiniteSetTheorems, WellFoundedInduction, TLAPS

\* A set that holds 0, and n + 1 with n, holds all numbers.
LEMMA Inductive ==
  ASSUME NEW S, 0 \in S, \A n \in Nat : n \in S => n + 1 \in S
  PROVE  Nat \subseteq S
<1> SUFFICES ASSUME Nat \ S # {} PROVE FALSE
  OBVIOUS
<1> DEFINE R == OpToRel(<, Nat)
<1>1. IsWellFoundedOn(R, Nat)
  BY NatLessThanWellFounded, Zenon
<1>2. \A x, y \in Nat : x < y => <<x, y>> \in R
  BY DEF OpToRel
<1> HIDE DEF R
<1>3. PICK x \in Nat \ S : \A y \in Nat \ S : ~ (<<y, x>> \in R)
  BY <1>1, WFMin
<1>4. x - 1 \in Nat /\ x - 1 < x /\ (x - 1) + 1 = x
  BY <1>3
<1>5. x - 1 \in S
  BY <1>2, <1>3, <1>4
<1> QED BY <1>3, <1>4, <1>5

-----------------------------------------------------------------------------
(* Stepping from slot to slot, up to a time.                               *)

\* p steps on with f, n times at most, until it reaches the time.
Stepped(f, p, n, slot, time) ==
  /\ p[0] = slot
  /\ \A d \in 1..n : p[d] = IF p[d - 1] < time THEN f[p[d - 1]] ELSE p[d - 1]

\* There is such a function, of each length.
LEMMA SomeSteps ==
  ASSUME NEW f, NEW slot, NEW time
  PROVE  \A n \in Nat : \E p : p = [d \in 0..n |-> p[d]] /\ Stepped(f, p, n, slot, time)
<1> DEFINE S == {n \in Nat : \E p : p = [d \in 0..n |-> p[d]] /\ Stepped(f, p, n, slot, time)}
<1>1. 0 \in S
  <2> DEFINE p == [d \in 0..0 |-> slot]
  <2>1. p = [d \in 0..0 |-> p[d]] /\ p[0] = slot
    OBVIOUS
  <2> HIDE DEF p
  <2> QED BY <2>1 DEF Stepped
<1>2. ASSUME NEW n \in Nat, n \in S PROVE n + 1 \in S
  <2>1. PICK p : p = [d \in 0..n |-> p[d]] /\ Stepped(f, p, n, slot, time)
    BY <1>2
  <2> DEFINE q == [d \in 0..(n + 1) |->
                     IF d <= n THEN p[d] ELSE IF p[n] < time THEN f[p[n]] ELSE p[n]]
  <2>2. \A d \in 0..n : q[d] = p[d]
    OBVIOUS
  <2>3. q[n + 1] = IF p[n] < time THEN f[p[n]] ELSE p[n]
    OBVIOUS
  <2>4. q = [d \in 0..(n + 1) |-> q[d]]
    OBVIOUS
  <2> HIDE DEF q
  <2>5. q[0] = slot
    BY <2>1, <2>2 DEF Stepped
  <2>6. ASSUME NEW d \in 1..(n + 1)
        PROVE  q[d] = IF q[d - 1] < time THEN f[q[d - 1]] ELSE q[d - 1]
    <3>1. CASE d <= n
      <4>1. d \in 1..n /\ d \in 0..n /\ d - 1 \in 0..n
        BY <3>1
      <4> QED BY <2>1, <2>2, <4>1 DEF Stepped
    <3>2. CASE d = n + 1
      <4>1. d - 1 = n /\ n \in 0..n
        BY <3>2
      <4> QED BY <2>2, <2>3, <3>2, <4>1
    <3> QED BY <3>1, <3>2
  <2>7. Stepped(f, q, n + 1, slot, time)
    BY <2>5, <2>6 DEF Stepped
  <2> QED BY <2>4, <2>7
<1> HIDE DEF S
<1>3. Nat \subseteq S
  BY <1>1, <1>2, Inductive
<1> QED BY <1>3 DEF S

\* The recursive function that steps on n times.
Steps(f, n, slot, time) ==
  CHOOSE g : g = [d \in 0..n |-> IF d = 0 THEN slot
                                 ELSE IF g[d - 1] < time THEN f[g[d - 1]] ELSE g[d - 1]]

LEMMA StepsAreStepped ==
  ASSUME NEW f, NEW slot, NEW time, NEW n \in Nat
  PROVE  Stepped(f, Steps(f, n, slot, time), n, slot, time)
<1> DEFINE F(g) == [d \in 0..n |-> IF d = 0 THEN slot
                                   ELSE IF g[d - 1] < time THEN f[g[d - 1]] ELSE g[d - 1]]
           P == CHOOSE g : g = F(g)
<1>1. \E g : g = F(g)
  <2>1. PICK p : p = [d \in 0..n |-> p[d]] /\ Stepped(f, p, n, slot, time)
    BY SomeSteps
  <2>2. ASSUME NEW d \in 0..n
        PROVE  p[d] = IF d = 0 THEN slot
                      ELSE IF p[d - 1] < time THEN f[p[d - 1]] ELSE p[d - 1]
    <3>1. CASE d = 0
      BY <2>1, <3>1 DEF Stepped
    <3>2. CASE d # 0
      <4>1. d \in 1..n
        BY <3>2
      <4> QED BY <2>1, <3>2, <4>1 DEF Stepped
    <3> QED BY <3>1, <3>2
  <2>3. p = F(p)
    BY <2>1, <2>2
  <2> QED BY <2>3
<1>2. P = F(P)
  BY <1>1
<1>3. Steps(f, n, slot, time) = P
  BY DEF Steps
<1> HIDE DEF P
<1>4. Stepped(f, P, n, slot, time)
  BY <1>2 DEF Stepped
<1> QED BY <1>3, <1>4

\* Where the loop of _successor ends, and the missed slots.
LEMMA ProbeAndBacklog ==
  ASSUME NEW slot, NEW t \in Nat
  PROVE  /\ Probe(NextRun[schedule], MaxCatchup, slot, t)
              = Steps(NextRun[schedule], MaxCatchup + 1, slot, t)[MaxCatchup + 1]
         /\ Backlog(slot, t)
              = {Steps(NextRun[schedule], t, slot, t)[n] : n \in 0..t} \cap 0..(t - 1)
<1>1. Probe(NextRun[schedule], MaxCatchup, slot, t)
        = Steps(NextRun[schedule], MaxCatchup + 1, slot, t)[MaxCatchup + 1]
  BY DEF Probe, Steps
<1>2. Backlog(slot, t)
        = {Steps(NextRun[schedule], t, slot, t)[n] : n \in 0..t} \cap 0..(t - 1)
  BY DEF Backlog, Chain, Steps
<1> QED BY <1>1, <1>2

\* The slots before the time among the first ones.
Before(p, d, t) == {p[k] : k \in 0..d} \cap 0..(t - 1)

\* After d steps: d + 1 slots lie before the time, or at most d do.
Passed(p, d, t) ==
  /\ p[d] \in Nat
  /\ \A k \in 0..d : p[k] \in Nat /\ p[k] <= p[d]
  /\ IsFiniteSet(Before(p, d, t)) /\ Cardinality(Before(p, d, t)) \in Nat
  /\ p[d] < t => d <= p[d] /\ Cardinality(Before(p, d, t)) = d + 1
  /\ ~(p[d] < t) => Cardinality(Before(p, d, t)) <= d

LEMMA StepPasses ==
  ASSUME NEW f, NEW p, NEW h \in Nat, NEW n \in Nat, NEW slot \in Nat, NEW t \in 0..h,
         \A u \in 0..h : f[u] \in Nat /\ f[u] > u,
         Stepped(f, p, n, slot, t), NEW d \in Nat, d + 1 <= n, Passed(p, d, t)
  PROVE  Passed(p, d + 1, t)
<1>1. d + 1 \in 1..n /\ (d + 1) - 1 = d
  OBVIOUS
<1>2. p[d + 1] = IF p[d] < t THEN f[p[d]] ELSE p[d]
  BY <1>1 DEF Stepped
<1>3. PICK B : B = Before(p, d, t)
  OBVIOUS
<1>4. PICK q \in Nat : q = p[d]
  BY DEF Passed
<1>5. PICK m \in Nat : m = p[d + 1] /\ q <= m /\ (q < t => q < m) /\ (~(q < t) => m = q)
  <2>1. q < t => q \in 0..h
    OBVIOUS
  <2> QED BY <1>2, <1>4, <2>1
<1>6. \A k \in 0..(d + 1) : k \in 0..d \/ k = d + 1
  OBVIOUS
<1>7. \A k \in 0..(d + 1) : p[k] \in Nat /\ p[k] <= m
  <2>1. ASSUME NEW k \in 0..d PROVE p[k] \in Nat /\ p[k] <= m
    BY <1>4, <1>5 DEF Passed
  <2> QED BY <1>5, <1>6, <2>1
<1>8. \A x \in B : x \in Nat /\ x <= q
  BY <1>3, <1>4 DEF Before, Passed
<1>9. Before(p, d + 1, t) = B \cup ({m} \cap 0..(t - 1))
  <2>1. {p[k] : k \in 0..(d + 1)} = {p[k] : k \in 0..d} \cup {m}
    <3>1. \A k \in 0..d : k \in 0..(d + 1)
      OBVIOUS
    <3>2. d + 1 \in 0..(d + 1)
      OBVIOUS
    <3> QED BY <1>5, <1>6, <3>1, <3>2
  <2> QED BY <1>3, <2>1 DEF Before
<1>10. CASE m < t
  <2>1. {m} \cap 0..(t - 1) = {m} /\ q < t
    BY <1>5, <1>10
  <2>2. m \notin B
    BY <1>5, <1>8, <2>1
  <2>3. IsFiniteSet(B) /\ Cardinality(B) = d + 1 /\ d <= q
    BY <1>3, <1>4, <2>1 DEF Passed
  <2>4. IsFiniteSet(B \cup {m}) /\ Cardinality(B \cup {m}) = Cardinality(B) + 1
    BY <2>2, <2>3, FS_AddElement
  <2>5. Before(p, d + 1, t) = B \cup {m}
    BY <1>9, <2>1
  <2>6. PICK b \in Nat : b = Cardinality(Before(p, d + 1, t)) /\ b = (d + 1) + 1
    <3>1. PICK b : b = (d + 1) + 1
      OBVIOUS
    <3>2. b \in Nat
      BY <3>1
    <3>3. b = Cardinality(Before(p, d + 1, t))
      BY <2>3, <2>4, <2>5, <3>1
    <3> QED BY <3>1, <3>2, <3>3
  <2>7. d + 1 <= m
    BY <1>4, <1>5, <2>1, <2>3
  <2>8. IsFiniteSet(Before(p, d + 1, t))
    BY <2>4, <2>5
  <2>9. p[d + 1] = m /\ \A k \in 0..(d + 1) : p[k] \in Nat /\ p[k] <= m
    BY <1>5, <1>7
  <2> QED BY <1>5, <1>10, <2>6, <2>7, <2>8, <2>9 DEF Passed
<1>11. CASE ~(m < t)
  <2>1. {m} \cap 0..(t - 1) = {}
    BY <1>11
  <2>2. Before(p, d + 1, t) = B
    BY <1>9, <2>1
  <2>3. PICK c \in Nat : c = Cardinality(B) /\ IsFiniteSet(B)
    BY <1>3 DEF Passed
  <2>4. c <= d + 1
    <3>1. q < t => c = d + 1
      BY <1>3, <1>4, <2>3 DEF Passed
    <3>2. ~(q < t) => c <= d
      BY <1>3, <1>4, <2>3 DEF Passed
    <3> QED BY <3>1, <3>2
  <2> QED BY <1>5, <1>7, <1>11, <2>2, <2>3, <2>4 DEF Passed
<1> QED BY <1>10, <1>11

LEMMA LoopPasses ==
  ASSUME NEW f, NEW p, NEW h \in Nat, NEW n \in Nat, NEW slot \in Nat, NEW t \in 0..h,
         \A u \in 0..h : f[u] \in Nat /\ f[u] > u, Stepped(f, p, n, slot, t)
  PROVE  \A d \in 0..n : Passed(p, d, t)
<1> DEFINE S == {d \in Nat : d <= n => Passed(p, d, t)}
<1>1. 0 \in S
  <2>1. p[0] = slot
    BY DEF Stepped
  <2>2. \A k \in 0..0 : k = 0
    OBVIOUS
  <2>3. {p[k] : k \in 0..0} = {slot}
    BY <2>1, <2>2
  <2>4. CASE slot < t
    <3>1. Before(p, 0, t) = {slot}
      BY <2>3, <2>4 DEF Before
    <3>2. IsFiniteSet({slot}) /\ Cardinality({slot}) = 1
      BY FS_Singleton
    <3> QED BY <2>1, <2>2, <2>4, <3>1, <3>2 DEF Passed
  <2>5. CASE ~(slot < t)
    <3>1. Before(p, 0, t) = {}
      BY <2>3, <2>5 DEF Before
    <3>2. IsFiniteSet({}) /\ Cardinality({}) = 0
      BY FS_EmptySet
    <3> QED BY <2>1, <2>2, <2>5, <3>1, <3>2 DEF Passed
  <2> QED BY <2>4, <2>5
<1>2. ASSUME NEW d \in Nat, d \in S PROVE d + 1 \in S
  <2> SUFFICES ASSUME d + 1 <= n PROVE Passed(p, d + 1, t)
    OBVIOUS
  <2>1. Passed(p, d, t)
    BY <1>2
  <2> QED BY <2>1, StepPasses
<1> HIDE DEF S
<1>3. Nat \subseteq S
  BY <1>1, <1>2, Inductive
<1> QED BY <1>3 DEF S

\* Two that step on in the same way agree as far as both go.
LEMMA StepsAgree ==
  ASSUME NEW f, NEW p, NEW q, NEW n \in Nat, NEW m \in Nat, NEW slot, NEW t,
         Stepped(f, p, n, slot, t), Stepped(f, q, m, slot, t)
  PROVE  \A d \in Nat : d <= n /\ d <= m => p[d] = q[d]
<1> DEFINE S == {d \in Nat : d <= n /\ d <= m => p[d] = q[d]}
<1>1. 0 \in S
  BY DEF Stepped
<1>2. ASSUME NEW d \in Nat, d \in S PROVE d + 1 \in S
  <2> SUFFICES ASSUME d + 1 <= n, d + 1 <= m PROVE p[d + 1] = q[d + 1]
    OBVIOUS
  <2>1. p[d] = q[d]
    BY <1>2
  <2>2. d + 1 \in 1..n /\ d + 1 \in 1..m /\ (d + 1) - 1 = d
    OBVIOUS
  <2> QED BY <2>1, <2>2 DEF Stepped
<1> HIDE DEF S
<1>3. Nat \subseteq S
  BY <1>1, <1>2, Inductive
<1> QED BY <1>3 DEF S

\* The loop stops short of a time exactly when more than MaxCatchup + 1 slots
\* lie behind it.
LEMMA LoopCounts ==
  ASSUME schedule \in Schedules, NEW slot \in Nat, NEW t \in 0..Horizon
  PROVE  /\ Cardinality(Backlog(slot, t)) \in Nat
         /\ Probe(NextRun[schedule], MaxCatchup, slot, t) < t
              <=> Cardinality(Backlog(slot, t)) > MaxCatchup + 1
         /\ Probe(NextRun[schedule], MaxCatchup, slot, t) < t => slot < t
<1>1. PICK f : f = NextRun[schedule] /\ \A u \in 0..Horizon : f[u] \in Nat /\ f[u] > u
  BY ReplayAssumption
<1>2. PICK n \in Nat : n = MaxCatchup + 1
  BY ReplayAssumption
<1>3. PICK h \in Nat : h = Horizon
  BY ReplayAssumption
<1>4. t \in Nat /\ t \in 0..h
  BY <1>3
<1>5. PICK p : p = Steps(f, n, slot, t)
  OBVIOUS
<1>6. PICK c : c = Steps(f, t, slot, t)
  OBVIOUS
<1>7. Stepped(f, p, n, slot, t) /\ Stepped(f, c, t, slot, t)
  BY <1>2, <1>4, <1>5, <1>6, StepsAreStepped
<1>8. Probe(NextRun[schedule], MaxCatchup, slot, t) = p[n] /\ Backlog(slot, t) = Before(c, t, t)
  BY <1>1, <1>2, <1>4, <1>5, <1>6, ProbeAndBacklog DEF Before
<1>9. \A d \in 0..n : Passed(p, d, t)
  BY <1>1, <1>3, <1>4, <1>7, LoopPasses
<1>10. \A d \in 0..t : Passed(c, d, t)
  BY <1>1, <1>3, <1>4, <1>7, LoopPasses
<1>11. n \in 0..n /\ t \in 0..t /\ 0 \in 0..n /\ p[0] = slot
  BY <1>4, <1>7 DEF Stepped
<1>12. \A d \in Nat : d <= n /\ d <= t => p[d] = c[d]
  BY <1>4, <1>7, StepsAgree
<1>13. PICK b : b = Cardinality(Before(c, t, t)) /\ b \in Nat /\ IsFiniteSet(Before(c, t, t))
  BY <1>10, <1>11 DEF Passed
<1>14. PICK e \in Nat : e = p[n] /\ slot <= e
  BY <1>9, <1>11 DEF Passed
<1>15. PICK a \in Nat : a = Cardinality(Before(p, n, t)) /\ IsFiniteSet(Before(p, n, t))
  BY <1>9, <1>11 DEF Passed
<1>16. ASSUME e < t PROVE b > n
  <2>1. n <= e /\ a = n + 1
    BY <1>9, <1>11, <1>14, <1>15, <1>16 DEF Passed
  <2>2. Before(p, n, t) \in SUBSET Before(c, t, t)
    <3> SUFFICES ASSUME NEW k \in 0..n, p[k] \in 0..(t - 1) PROVE p[k] \in Before(c, t, t)
      BY DEF Before
    <3>1. k \in 0..t /\ k <= n /\ k <= t /\ k \in Nat
      BY <1>4, <1>16, <2>1
    <3>2. p[k] = c[k]
      BY <1>12, <3>1
    <3> QED BY <3>1, <3>2 DEF Before
  <2>3. a <= b
    BY <1>13, <1>15, <2>2, FS_Subset
  <2> QED BY <1>13, <1>15, <2>1, <2>3
<1>17. ASSUME ~(e < t) PROVE b <= n
  <2>1. a <= n
    BY <1>9, <1>11, <1>14, <1>15, <1>17 DEF Passed
  <2>2. Before(c, t, t) \in SUBSET Before(p, n, t)
    <3> SUFFICES ASSUME NEW k \in 0..t, c[k] \in 0..(t - 1) PROVE c[k] \in Before(p, n, t)
      BY DEF Before
    <3>1. CASE k <= n
      <4>1. k \in 0..n /\ k \in Nat /\ k <= t
        BY <1>4, <3>1
      <4>2. p[k] = c[k]
        BY <1>12, <3>1, <4>1
      <4> QED BY <4>1, <4>2 DEF Before
    <3>2. CASE ~(k <= n)
      <4>1. n \in 0..k /\ n <= t
        BY <1>4, <3>2
      <4>2. Passed(c, k, t)
        BY <1>10
      <4>3. c[n] \in Nat /\ c[k] \in Nat /\ c[n] <= c[k]
        BY <4>1, <4>2 DEF Passed
      <4>4. c[n] = e
        BY <1>12, <1>14, <4>1
      <4> QED BY <1>4, <1>17, <4>3, <4>4
    <3> QED BY <3>1, <3>2
  <2>3. b <= a
    BY <1>13, <1>15, <2>2, FS_Subset
  <2> QED BY <1>13, <1>15, <2>1, <2>3
<1> QED BY <1>2, <1>4, <1>8, <1>13, <1>14, <1>16, <1>17

-----------------------------------------------------------------------------

TypeInv ==
  /\ schedule \in Schedules
  /\ catchUp \in BOOLEAN
  /\ next \in Nat
  /\ now \in 0..Horizon
  /\ fired \subseteq [slot : Nat, at : 0..Horizon]

\* What has run was due when it ran, before what is to run.
ReplayInv ==
  /\ TypeInv
  /\ \A f \in fired : f.slot < next /\ f.at <= now
  /\ \A f, g \in fired : f.slot <= g.slot /\ f # g => f.slot < g.slot /\ f.at <= g.at

\* Where a job moves to, with step the slot behind it.
Moves(to, step) ==
  LET missed == Cardinality(Backlog(step, now))
  IN  /\ to = step \/ to = NextRun[schedule][now]
      /\ catchUp /\ missed <= MaxCatchup => to = step
      /\ ~catchUp \/ missed > MaxCatchup + 1 => to > now

LEMMA SuccessorMoves ==
  ASSUME ReplayInv, next <= now
  PROVE  LET to == Successor(NextRun[schedule], catchUp, MaxCatchup, next, now)
         IN  Moves(to, NextRun[schedule][next]) /\ to \in Nat /\ next < to
<1>1. schedule \in Schedules /\ catchUp \in BOOLEAN /\ MaxCatchup \in Nat /\ Horizon \in Nat
  BY ReplayAssumption DEF ReplayInv, TypeInv
<1>2. PICK n \in Nat, t \in Nat : n = next /\ t = now /\ n <= t /\ n \in 0..Horizon /\ t \in 0..Horizon
  BY <1>1 DEF ReplayInv, TypeInv
<1>3. PICK f : f = NextRun[schedule]
  OBVIOUS
<1>4. PICK step \in Nat, future \in Nat : step = f[n] /\ future = f[t]
  BY <1>1, <1>2, <1>3, ReplayAssumption
<1>5. n < step /\ t < future
  BY <1>1, <1>2, <1>3, <1>4, ReplayAssumption
<1>6. PICK c \in Nat : c = Cardinality(Backlog(step, t))
  BY <1>1, <1>2, <1>4, LoopCounts
<1>7. PICK deep \in BOOLEAN : deep <=> Probe(f, MaxCatchup, step, t) < t
  <2>1. CASE Probe(f, MaxCatchup, step, t) < t
    BY <2>1, TRUE \in BOOLEAN
  <2>2. CASE ~(Probe(f, MaxCatchup, step, t) < t)
    BY <2>2, FALSE \in BOOLEAN
  <2> QED BY <2>1, <2>2
<1>8. (deep <=> c > MaxCatchup + 1) /\ (deep => step < t)
  BY <1>1, <1>2, <1>3, <1>4, <1>6, <1>7, LoopCounts
<1>9. PICK to : to = Successor(NextRun[schedule], catchUp, MaxCatchup, next, now)
  OBVIOUS
<1>10. to = IF ~catchUp THEN (IF future > step THEN future ELSE step)
            ELSE IF deep THEN future ELSE step
  BY <1>2, <1>3, <1>4, <1>7, <1>9 DEF Successor
<1>11. to \in Nat /\ n < to
  BY <1>2, <1>4, <1>5, <1>10
<1>12. to = step \/ to = future
  BY <1>10
<1>13. catchUp /\ c <= MaxCatchup => to = step
  BY <1>1, <1>6, <1>8, <1>10
<1>14. ~catchUp \/ c > MaxCatchup + 1 => to > t
  BY <1>1, <1>2, <1>4, <1>5, <1>8, <1>10
<1>15. Moves(to, step)
  BY <1>2, <1>3, <1>4, <1>6, <1>12, <1>13, <1>14 DEF Moves
<1> QED BY <1>2, <1>3, <1>4, <1>9, <1>11, <1>15

LEMMA InitReplay == Init => ReplayInv
BY ReplayAssumption DEF Init, ReplayInv, TypeInv

LEMMA NextReplay == ReplayInv /\ [Next]_vars => ReplayInv'
<1> SUFFICES ASSUME ReplayInv, [Next]_vars PROVE ReplayInv'
  OBVIOUS
<1>0. Horizon \in Nat
  BY ReplayAssumption
<1>1. CASE Sleep
  <2>1. PICK t \in (now + 1)..Horizon : now' = t
    BY <1>1 DEF Sleep
  <2>2. now \in Nat /\ t \in 0..Horizon /\ now <= t
    BY <1>0, <2>1 DEF ReplayInv, TypeInv
  <2>3. \A f \in fired : f.at \in Nat /\ f.at <= t
    BY <1>0, <2>2 DEF ReplayInv, TypeInv
  <2> QED BY <1>1, <2>1, <2>2, <2>3 DEF Sleep, ReplayInv, TypeInv
<1>2. CASE Fire
  <2>1. PICK n \in Nat : n = next /\ now \in 0..Horizon /\ n <= now
    BY <1>2 DEF Fire, ReplayInv, TypeInv
  <2>2. PICK m \in Nat : m = next' /\ n < m
    BY <1>2, <2>1, SuccessorMoves DEF Fire
  <2>3. PICK e : e = [slot |-> n, at |-> now]
    OBVIOUS
  <2>4. fired' = fired \cup {e} /\ now' = now /\ e \in [slot : Nat, at : 0..Horizon]
        /\ e.slot = n /\ e.at = now /\ schedule' = schedule /\ catchUp' = catchUp
    BY <1>2, <2>1, <2>3 DEF Fire
  <2>5. TypeInv'
    BY <2>1, <2>2, <2>4 DEF ReplayInv, TypeInv
  <2>6. \A f \in fired : f.slot \in Nat /\ f.at \in Nat /\ f.slot < n /\ f.at <= now
    BY <1>0, <2>1 DEF ReplayInv, TypeInv
  <2>7. ASSUME NEW f \in fired' PROVE f.slot < m /\ f.at <= now
    BY <2>1, <2>2, <2>4, <2>6, <2>7
  <2>8. ASSUME NEW f \in fired', NEW g \in fired', f.slot <= g.slot, f # g
        PROVE  f.slot < g.slot /\ f.at <= g.at
    <3>1. CASE f \in fired /\ g \in fired
      BY <2>8, <3>1 DEF ReplayInv
    <3>2. CASE f = e
      <4>1. g \in fired
        BY <2>4, <2>8, <3>2
      <4> QED BY <2>1, <2>4, <2>6, <2>8, <3>2, <4>1
    <3>3. CASE f \in fired /\ g = e
      BY <2>4, <2>6, <3>3
    <3> QED BY <2>4, <3>1, <3>2, <3>3
  <2> QED BY <2>2, <2>4, <2>5, <2>7, <2>8 DEF ReplayInv
<1>3. CASE UNCHANGED vars
  BY <1>3 DEF vars, ReplayInv, TypeInv
<1> QED BY <1>1, <1>2, <1>3 DEF Next

\* No slot runs twice, and slots run in order, whatever is slept through and
\* however the limit and catch-up are set, on every schedule whose next run is
\* later: cron expressions and intervals alike.
THEOREM ReplayInOrder == Spec => []FiredOnceInOrder
<1>1. ReplayInv => FiredOnceInOrder
  BY DEF ReplayInv, FiredOnceInOrder
<1> QED BY InitReplay, NextReplay, <1>1, PTL DEF Spec

\* What becomes of missed slots, on every such schedule: the loop of _successor
\* counts them up to MaxCatchup + 1.
THEOREM BacklogIsReplayed == Spec => BacklogReplayed
<1> DEFINE Move == LET step   == NextRun[schedule][next]
                       missed == Cardinality(Backlog(step, now))
                   IN  next' # next =>
                         /\ next' = step \/ next' = NextRun[schedule][now]
                         /\ catchUp /\ missed <= MaxCatchup => next' = step
                         /\ ~catchUp \/ missed > MaxCatchup + 1 => next' > now
<1>1. ReplayInv /\ [Next]_vars => [Move]_vars
  <2> SUFFICES ASSUME ReplayInv, [Next]_vars, next' # next PROVE Move
    OBVIOUS
  <2>1. Fire
    BY DEF Next, Sleep, vars
  <2> QED BY <2>1, SuccessorMoves DEF Fire, Moves
<1> QED BY InitReplay, NextReplay, <1>1, PTL DEF Spec, BacklogReplayed
=============================================================================
