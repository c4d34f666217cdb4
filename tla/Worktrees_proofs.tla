-------------------------- MODULE Worktrees_proofs --------------------------
(***************************************************************************)
(* Theorems about Worktrees: its variables stay well-formed, no checkout   *)
(* is left without a record, none is taken from an agent at work, and no   *)
(* change of an agent is lost, but for those checkouts and changes the     *)
(* histories of Worktrees name, for any number of processes, agents,       *)
(* changes, crashes and failures of git, in any order.                     *)
(***************************************************************************)
EXTENDS Worktrees, FiniteSetTheorems, TLAPS

Holders == {"adding", "replacing", "working"}
Busy == Holders \cup {"cleaning"}

\* What may be known of a worktree: by the registry, by a process, by a session.
Known == {r \in Records :
  \/ \E u \in Uuids : registry[u] = r
  \/ \E p \in Processes : mine[p] = r \/ r \in todo[p] \/ (release[p] # Null /\ release[p].record = r)
  \/ session = r}

-----------------------------------------------------------------------------
(* Records and checkouts: what NothingLeaks needs.                         *)

BusyHasRecord ==
  \A p \in Processes : /\ mine[p] # Null <=> pc[p] \in Busy
                       /\ mine[p] # Null => mine[p].pid = p

\* The branch a HEAD is on exists.
HeadsExist ==
  \A u \in Uuids : checkout[u] # Null /\ checkout[u].head # Detached => branch[checkout[u].head] # Null

TypeInv == WorktreesTypeOK /\ BusyHasRecord /\ HeadsExist

\* A uuid is given once, for one path on one base.
IdsStand ==
  /\ \A r \in Known : r.uuid <= uuids /\ r.path <= uuids /\ pc[r.pid] # "new"
  /\ \A r, s \in Known : r.uuid = s.uuid => r.path = s.path
  /\ \A u \in Uuids : checkout[u] # Null => u <= uuids

\* A record is discarded when its checkout is gone, and it does not come back.
GoneForGood ==
  \A p \in Processes : release[p] # Null /\ release[p].step \in {"drop", "dropMissing", "discard"} =>
    checkout[release[p].record.path] = Null

ReplacesSession ==
  \A p \in Processes : pc[p] = "replacing" =>
    /\ session # Null /\ session.uuid # mine[p].uuid
    /\ mine[p].path = session.path \/ checkout[session.path] = Null

LeakInv == TypeInv /\ IdsStand /\ GoneForGood /\ ReplacesSession

-----------------------------------------------------------------------------
(* Who has a checkout: what OwnerKeepsCheckout needs.                      *)

\* One process at a checkout that is not contested, and one record of it.
Exclusive ==
  \A p, q \in Processes :
    mine[p] # Null /\ mine[q] # Null /\ mine[p].path = mine[q].path /\ mine[p].path \notin contested => p = q

OneRecord ==
  \A u, v \in Uuids :
    registry[u] # Null /\ registry[v] # Null /\ registry[u].path = registry[v].path
      /\ registry[u].path \notin contested => u = v

\* An agent that has not ended, at a checkout of its own.
Holds(p) == pc[p] \in Holders /\ mine[p].path \notin contested

\* Nobody releases its checkout.
NotReleased ==
  \A p \in Processes : Holds(p) =>
    /\ checkout[mine[p].path] # Null
    /\ \A q \in Processes :
         /\ \A r \in todo[q] : r.path # mine[p].path
         /\ release[q] # Null => release[q].record.path # mine[p].path

\* What the registry says of such a checkout.
RecordOf(p) ==
  Holds(p) =>
    /\ pc[p] = "working" => registry[mine[p].uuid] = mine[p]
    /\ pc[p] = "adding" => \A u \in Uuids : registry[u] # Null => registry[u].path # mine[p].path
    /\ pc[p] = "replacing" => \A u \in Uuids : registry[u] # Null /\ registry[u].path = mine[p].path =>
         u = session.uuid

OwnerInv == LeakInv /\ Exclusive /\ OneRecord /\ NotReleased /\ \A p \in Processes : RecordOf(p)

-----------------------------------------------------------------------------
(* Where the changes are: what NoWorkLost needs.                           *)

\* A base was in the main branch, and a branch has the number of a uuid that
\* was given.
RecordNames == \A r \in Known : r.base \subseteq main /\ r.branch[2] <= uuids

FreshNames == \A b \in Branches : b[2] > uuids => branch[b] = Null

\* Commits on a branch are not counted for the checkout.
OnBranch == \A u \in Uuids : checkout[u] # Null /\ checkout[u].head # Detached => checkout[u].at = {}

Safe(w) == w \in main \/ w \in atRisk \/ \E b \in Branches : branch[b] # Null /\ w \in branch[b]

\* What a release has found out of a checkout still holds when it removes it:
\* nothing is left there that is neither saved nor at risk.
Cleared(p) == \A u \in Uuids : release[p] # Null /\ u = release[p].record.path /\ checkout[u] # Null =>
  /\ At(p, "inspect") \/ At(p, "count") \/ At(p, "remove") => checkout[u].dirty \subseteq atRisk
  /\ At(p, "count") \/ At(p, "remove") => \A w \in checkout[u].at : Safe(w)

\* So it is of a branch when it drops it.
Counted(p) == \A b \in Branches :
  (At(p, "remove") \/ At(p, "drop") \/ At(p, "dropMissing"))
    /\ b = release[p].record.branch /\ b[1] = "cecli" /\ branch[b] # Null /\ ~release[p].ahead
    => branch[b] \subseteq main \cup atRisk

WorkStands == RecordNames /\ FreshNames /\ OnBranch /\ \A p \in Processes : Cleared(p) /\ Counted(p)

WorkInv == LeakInv /\ WorkStands /\ NoWorkLost

-----------------------------------------------------------------------------
(* Operators.                                                              *)

LEMMA MaxExists ==
  ASSUME NEW n \in Nat, NEW S \in SUBSET (1..n), S # {}
  PROVE  \E x \in S : \A y \in S : y <= x
<1> DEFINE T == {n - x : x \in S}
<1>1. \A x \in S : x \in Nat /\ n - x \in Nat
  OBVIOUS
<1>2. T \subseteq Nat
  BY <1>1
<1>3. T # {}
  OBVIOUS
<1>4. PICK t \in T : \A y \in T : <<y, t>> \notin OpToRel(<, Nat)
  <2>1. IsWellFoundedOn(OpToRel(<, Nat), Nat)
    BY NatLessThanWellFounded
  <2> HIDE DEF T
  <2> QED BY <1>2, <1>3, <2>1, WFMin
<1>5. ASSUME NEW y \in T PROVE t <= y
  <2>1. t \in Nat /\ y \in Nat
    BY <1>2, <1>4
  <2>2. <<y, t>> \notin {ss \in Nat \X Nat : ss[1] < ss[2]}
    BY <1>4 DEF OpToRel
  <2>3. ~ (y < t)
    BY <2>1, <2>2
  <2> QED BY <2>1, <2>3
<1>6. PICK x \in S : t = n - x
  BY <1>4
<1>7. ASSUME NEW y \in S PROVE y <= x
  <2>1. n - y \in T
    OBVIOUS
  <2>2. n - x <= n - y
    BY <1>5, <1>6, <2>1
  <2> QED BY <1>1, <2>2
<1> QED BY <1>7

\* The latest of the records that can be reused is one of them.
LEMMA LatestReusable ==
  ASSUME WorktreesTypeOK, Reusable # {}
  PROVE  /\ Latest(Reusable) \in Reusable
         /\ Latest(Reusable) \in Records
         /\ registry[Latest(Reusable).uuid] = Latest(Reusable)
         /\ registry[Latest(Reusable).uuid] # Null
         /\ checkout[Latest(Reusable).path] # Null
<1> DEFINE S == {r.created : r \in Reusable}
<1>1. \A r \in Reusable : r \in Records /\ registry[r.uuid] = r /\ registry[r.uuid] # Null /\ checkout[r.path] # Null
  BY DEF WorktreesTypeOK, Reusable, Recorded
<1>2. S \in SUBSET (1..MaxUuids) /\ S # {}
  BY <1>1 DEF Records, Uuids
<1>3. PICK c \in S : \A d \in S : d <= c
  BY <1>2, MaxExists, WorktreesAssumption
<1>4. PICK r \in Reusable : r.created = c
  BY <1>3
<1>5. \A s \in Reusable : s.created <= r.created
  BY <1>3, <1>4
<1>6. Latest(Reusable) \in Reusable
  BY <1>5 DEF Latest
<1> QED BY <1>1, <1>6

LEMMA AdoptedRecord ==
  ASSUME NEW p \in Processes, NEW r \in Records
  PROVE  /\ Adopted(p, r) \in Records
         /\ Adopted(p, r).uuid = r.uuid /\ Adopted(p, r).path = r.path
         /\ Adopted(p, r).branch = r.branch /\ Adopted(p, r).base = r.base
         /\ Adopted(p, r).pid = p
BY DEF Adopted, Records

LEMMA RecreatedRecord ==
  ASSUME NEW p \in Processes, NEW path \in Uuids, NEW b \in Branches,
         session \in Records, uuids \in 0..MaxUuids, uuids < MaxUuids
  PROVE  /\ Recreated(p, path, b) \in Records
         /\ Recreated(p, path, b).uuid = uuids + 1 /\ Recreated(p, path, b).path = path
         /\ Recreated(p, path, b).branch = b /\ Recreated(p, path, b).base = session.base
         /\ Recreated(p, path, b).pid = p
<1>1. uuids + 1 \in Uuids
  BY WorktreesAssumption DEF Uuids
<1> QED BY <1>1 DEF Recreated, Records

LEMMA SavedNames ==
  ASSUME NEW b \in Branches
  PROVE  SavedName(b) \in Branches /\ SavedName(b)[2] = b[2] /\ SavedName(b)[1] # "cecli"
BY DEF SavedName, Branches

\* What is known only changes where a process takes over a record or makes one.
LEMMA RecordsTyped ==
  ASSUME WorktreesTypeOK
  PROVE  /\ \A u \in Uuids : registry[u] # Null => registry[u] \in Known
         /\ \A p \in Processes : mine[p] # Null => mine[p] \in Known
         /\ \A p \in Processes : \A r \in todo[p] : r \in Known
         /\ \A p \in Processes : release[p] # Null => release[p].record \in Known
         /\ session # Null => session \in Known
BY DEF WorktreesTypeOK, Known, Releases

-----------------------------------------------------------------------------
(* Types.                                                                  *)

LEMMA HeadTyped ==
  ASSUME WorktreesTypeOK, HeadsExist, NEW u \in Uuids, checkout[u] # Null
  PROVE  Head(u) \in SUBSET Works
BY DEF WorktreesTypeOK, HeadsExist, Head, Checkouts

\* git commit: the changes go to where HEAD is.
LEMMA CommitResult ==
  ASSUME WorktreesTypeOK, HeadsExist, NEW u \in Uuids, checkout[u] # Null, CommitAll(u)
  PROVE  /\ branch' \in [Branches -> {Null} \cup SUBSET Works]
         /\ checkout' \in [Uuids -> {Null} \cup Checkouts]
         /\ \A v \in Uuids : v # u => checkout'[v] = checkout[v]
         /\ checkout'[u] # Null
         /\ checkout'[u].head = checkout[u].head /\ checkout'[u].dirty = {}
         /\ checkout'[u].at = IF checkout[u].head = Detached THEN checkout[u].at \cup checkout[u].dirty
                                                            ELSE checkout[u].at
         /\ \A b \in Branches : branch'[b] = IF b = checkout[u].head THEN branch[b] \cup checkout[u].dirty ELSE branch[b]
         /\ \A b \in Branches : branch'[b] = Null <=> branch[b] = Null
<1> DEFINE dirty == [checkout[u] EXCEPT !.dirty = {}]
           at == IF checkout[u].head = Detached THEN checkout[u].at \cup checkout[u].dirty ELSE checkout[u].at
<1>1. checkout[u] \in Checkouts /\ checkout[u].dirty \in SUBSET Works /\ checkout[u].at \in SUBSET Works
  BY DEF WorktreesTypeOK, Checkouts
<1>2. checkout[u].head # Detached => branch[checkout[u].head] # Null
  BY DEF HeadsExist
<1>3. branch' \in [Branches -> {Null} \cup SUBSET Works]
  <2>1. /\ branch \in [Branches -> {Null} \cup SUBSET Works]
        /\ branch' = [b \in Branches |-> IF b = checkout[u].head THEN branch[b] \cup checkout[u].dirty ELSE branch[b]]
    BY DEF WorktreesTypeOK, CommitAll
  <2>2. \A b \in Branches : b = checkout[u].head => branch[b] \cup checkout[u].dirty \in SUBSET Works
    BY <1>1, <1>2, <2>1, WorktreesAssumption
  <2> QED BY <2>1, <2>2
<1>4. checkout' = [[checkout EXCEPT ![u].dirty = {}] EXCEPT ![u].at = at]
  BY <1>1 DEF CommitAll
<1>5. [checkout EXCEPT ![u].dirty = {}] = [checkout EXCEPT ![u] = dirty]
  OBVIOUS
<1>6. dirty \in Checkouts /\ dirty.head = checkout[u].head /\ dirty.dirty = {}
  BY <1>1 DEF Checkouts
<1>7. \A v \in Uuids : checkout'[v] = IF v = u THEN [dirty EXCEPT !.at = at] ELSE checkout[v]
  <2> HIDE DEF dirty, at
  <2> QED BY <1>4, <1>5 DEF WorktreesTypeOK
<1>8. checkout' \in [Uuids -> {Null} \cup Checkouts]
  <2>1. checkout' = [v \in Uuids |-> checkout'[v]]
    BY DEF CommitAll, WorktreesTypeOK
  <2>2. [dirty EXCEPT !.at = at] \in Checkouts
    BY <1>1, <1>6 DEF Checkouts
  <2> HIDE DEF dirty, at
  <2> QED BY <1>7, <2>1, <2>2 DEF WorktreesTypeOK
<1>9. checkout'[u].head = checkout[u].head /\ checkout'[u].dirty = {} /\ checkout'[u].at = at /\ checkout'[u] # Null
  <2>1. [dirty EXCEPT !.at = at] = [head |-> checkout[u].head, at |-> at, dirty |-> {}]
    <3>1. dirty = [head |-> checkout[u].head, at |-> checkout[u].at, dirty |-> {}]
      BY <1>1 DEF Checkouts
    <3> HIDE DEF dirty, at
    <3> QED BY <3>1
  <2>2. [head |-> checkout[u].head, at |-> at, dirty |-> {}] \in Checkouts
    BY <1>1 DEF Checkouts
  <2>3. checkout'[u] = [head |-> checkout[u].head, at |-> at, dirty |-> {}]
    BY <1>7, <2>1
  <2> HIDE DEF dirty, at
  <2> QED BY <2>2, <2>3, WorktreesAssumption
<1>10. \A b \in Branches : branch'[b] = IF b = checkout[u].head THEN branch[b] \cup checkout[u].dirty ELSE branch[b]
  BY DEF CommitAll
<1>11. \A b \in Branches : branch'[b] = Null <=> branch[b] = Null
  BY <1>1, <1>2, <1>10, WorktreesAssumption DEF WorktreesTypeOK
<1> QED BY <1>3, <1>7, <1>8, <1>9, <1>10, <1>11

LEMMA TypeInit == ASSUME Init PROVE TypeInv
<1>1. WorktreesTypeOK
  <2>1. branch \in [Branches -> {Null} \cup SUBSET Works] /\ checkout \in [Uuids -> {Null} \cup Checkouts]
    BY DEF Init
  <2>2. /\ registry \in [Uuids -> {Null} \cup Records] /\ mine \in [Processes -> {Null} \cup Records]
        /\ release \in [Processes -> {Null} \cup Releases]
        /\ pc \in [Processes -> Phases] /\ todo \in [Processes -> SUBSET Records]
    BY DEF Init, Phases
  <2> QED BY <2>1, <2>2, WorktreesAssumption DEF Init, WorktreesTypeOK, HistoryTypeOK
<1>2. BusyHasRecord /\ HeadsExist
  BY DEF Init, BusyHasRecord, HeadsExist, Busy, Holders
<1> QED BY <1>1, <1>2 DEF TypeInv

\* What a record contains.
LEMMA RecordFields ==
  ASSUME NEW r \in Records
  PROVE  r # Null /\ r.uuid \in Uuids /\ r.path \in Uuids /\ r.branch \in Branches
         /\ r.base \in SUBSET Works /\ r.pid \in Processes /\ r.created \in Uuids
BY WorktreesAssumption DEF Records

\* A step of git that leaves every branch there and HEAD on one that exists.
LEMMA TypeStutter == ASSUME TypeInv, UNCHANGED vars PROVE TypeInv'
BY DEF TypeInv, WorktreesTypeOK, HistoryTypeOK, BusyHasRecord, HeadsExist, vars, repository, processes, counters, history

LEMMA TypeAdopt == ASSUME TypeInv, HistoryTypeOK', NEW p \in Processes, Adopt(p) PROVE TypeInv'
<1> DEFINE r == Adopted(p, Latest(Reusable))
<1>1. r \in Records /\ r.uuid \in Uuids /\ r.pid = p
  BY LatestReusable, AdoptedRecord, RecordFields DEF Adopt, TypeInv
<1>2. /\ registry' = [registry EXCEPT ![r.uuid] = r] /\ mine' = [mine EXCEPT ![p] = r]
      /\ pc' = [pc EXCEPT ![p] = "working"] /\ pc[p] = "up"
      /\ UNCHANGED <<main, branch, checkout, lock, todo, release, session, uuids, work>>
  BY DEF Adopt, repository, counters
<1> HIDE DEF r
<1>3. WorktreesTypeOK'
  BY <1>1, <1>2 DEF TypeInv, WorktreesTypeOK, Phases
<1>4. BusyHasRecord' /\ HeadsExist'
  BY <1>1, <1>2, WorktreesAssumption, RecordFields DEF TypeInv, WorktreesTypeOK, BusyHasRecord, HeadsExist, Busy, Holders
<1> QED BY <1>3, <1>4 DEF TypeInv

LEMMA TypeAdoptOther == ASSUME TypeInv, HistoryTypeOK', NEW p \in Processes, AdoptOther(p) PROVE TypeInv'
<1> DEFINE r == Adopted(p, Latest(Reusable))
<1>1. r \in Records /\ r.uuid \in Uuids /\ r.pid = p
  BY LatestReusable, AdoptedRecord, RecordFields DEF AdoptOther, TypeInv
<1>2. /\ registry' = [u \in Uuids |-> IF u = r.uuid THEN r ELSE IF u = session.uuid THEN Null ELSE registry[u]]
      /\ mine' = [mine EXCEPT ![p] = r]
      /\ pc' = [pc EXCEPT ![p] = "working"] /\ pc[p] = "up"
      /\ UNCHANGED <<main, branch, checkout, lock, todo, release, session, uuids, work>>
  BY DEF AdoptOther, repository, counters
<1> HIDE DEF r
<1>3. WorktreesTypeOK'
  BY <1>1, <1>2 DEF TypeInv, WorktreesTypeOK, Phases
<1>4. BusyHasRecord' /\ HeadsExist'
  BY <1>1, <1>2, WorktreesAssumption, RecordFields DEF TypeInv, WorktreesTypeOK, BusyHasRecord, HeadsExist, Busy, Holders
<1> QED BY <1>3, <1>4 DEF TypeInv

LEMMA FreshCheckout ==
  ASSUME NEW b \in Branches
  PROVE  Fresh(b) \in Checkouts /\ Fresh(b) # Null /\ Fresh(b).head = b /\ Fresh(b).at = {} /\ Fresh(b).dirty = {}
<1>1. Fresh(b) \in Checkouts
  BY DEF Fresh, Checkouts
<1> QED BY <1>1, WorktreesAssumption DEF Fresh

LEMMA TypeAddWorktree == ASSUME TypeInv, HistoryTypeOK', NEW p \in Processes, AddWorktree(p) PROVE TypeInv'
<1> DEFINE u == uuids + 1
           b == <<"cecli", u>>
           r == [uuid |-> u, path |-> u, branch |-> b, base |-> main, pid |-> p, created |-> u]
<1>1. u \in Uuids /\ u \in 0..MaxUuids /\ b \in Branches
  BY WorktreesAssumption DEF AddWorktree, TypeInv, WorktreesTypeOK, Uuids, Branches
<1>2. r \in Records /\ r.pid = p /\ Fresh(b) \in Checkouts /\ Fresh(b) # Null /\ Fresh(b).head = b
  BY <1>1, FreshCheckout DEF Records, TypeInv, WorktreesTypeOK
<1>3. /\ branch' = [branch EXCEPT ![b] = main] /\ checkout' = [checkout EXCEPT ![u] = Fresh(b)]
      /\ mine' = [mine EXCEPT ![p] = r] /\ uuids' = u /\ lock' = p
      /\ pc' = [pc EXCEPT ![p] = "adding"] /\ pc[p] = "up"
      /\ UNCHANGED <<main, registry, todo, release, session, work>>
  BY DEF AddWorktree
<1> HIDE DEF u, b, r
<1>4. WorktreesTypeOK'
  BY <1>1, <1>2, <1>3 DEF TypeInv, WorktreesTypeOK, Phases
<1>5. BusyHasRecord'
  BY <1>2, <1>3, RecordFields DEF TypeInv, WorktreesTypeOK, BusyHasRecord, Busy, Holders
<1>6. HeadsExist'
  BY <1>1, <1>2, <1>3, WorktreesAssumption DEF TypeInv, WorktreesTypeOK, HeadsExist, Checkouts
<1> QED BY <1>4, <1>5, <1>6 DEF TypeInv

LEMMA RestoredTyped ==
  ASSUME TypeInv, session # Null
  PROVE  Restored \in SUBSET Works /\ Restored # Null
BY RecordFields, WorktreesAssumption DEF Restored, TypeInv, WorktreesTypeOK

LEMMA TypeRebuild == ASSUME TypeInv, HistoryTypeOK', NEW p \in Processes, Rebuild(p) PROVE TypeInv'
<1> DEFINE u == uuids + 1
           b == IF session.branch \in CheckedOut THEN <<"cecli", u>> ELSE session.branch
           r == Recreated(p, u, b)
<1>1. u \in Uuids /\ u \in 0..MaxUuids /\ session \in Records
  BY WorktreesAssumption DEF Rebuild, TypeInv, WorktreesTypeOK, Uuids
<1>2. b \in Branches
  BY <1>1, RecordFields DEF Branches
<1>3. r \in Records /\ r.pid = p /\ Fresh(b) \in Checkouts /\ Fresh(b) # Null /\ Fresh(b).head = b
  BY <1>1, <1>2, FreshCheckout, RecreatedRecord DEF Rebuild, TypeInv, WorktreesTypeOK
<1>4. /\ branch' = [branch EXCEPT ![b] = Restored] /\ checkout' = [checkout EXCEPT ![u] = Fresh(b)]
      /\ mine' = [mine EXCEPT ![p] = r] /\ uuids' = u
      /\ pc' = [pc EXCEPT ![p] = "replacing"] /\ pc[p] = "up" /\ session # Null
      /\ UNCHANGED <<main, registry, lock, todo, release, session, work>>
  BY DEF Rebuild
<1>5. Restored \in SUBSET Works /\ Restored # Null
  BY <1>4, RestoredTyped
<1> HIDE DEF u, b, r
<1>6. WorktreesTypeOK'
  BY <1>1, <1>2, <1>3, <1>4, <1>5 DEF TypeInv, WorktreesTypeOK, Phases
<1>7. BusyHasRecord'
  BY <1>3, <1>4, RecordFields DEF TypeInv, WorktreesTypeOK, BusyHasRecord, Busy, Holders
<1>8. HeadsExist'
  BY <1>1, <1>2, <1>3, <1>4, <1>5, WorktreesAssumption DEF TypeInv, WorktreesTypeOK, HeadsExist, Checkouts
<1> QED BY <1>6, <1>7, <1>8 DEF TypeInv

LEMMA TypeSaves ==
  ASSUME TypeInv, HistoryTypeOK', NEW p \in Processes, SaveRecord(p) \/ ReplaceRecord(p) \/ SaveSession(p)
  PROVE  TypeInv'
<1>1. mine[p] \in Records /\ mine[p] # Null /\ mine[p].uuid \in Uuids /\ mine[p].pid = p
  BY RecordFields DEF SaveRecord, ReplaceRecord, SaveSession, TypeInv, BusyHasRecord, Busy, Holders, WorktreesTypeOK
<1>2. CASE SaveRecord(p)
  <2>1. WorktreesTypeOK'
    BY <1>1, <1>2 DEF SaveRecord, TypeInv, WorktreesTypeOK, Phases, repository, counters
  <2>2. BusyHasRecord' /\ HeadsExist'
    BY <1>1, <1>2 DEF SaveRecord, TypeInv, WorktreesTypeOK, BusyHasRecord, HeadsExist, Busy, Holders, repository, counters
  <2> QED BY <2>1, <2>2 DEF TypeInv
<1>3. CASE ReplaceRecord(p)
  <2>1. /\ registry' = [[registry EXCEPT ![session.uuid] = Null] EXCEPT ![mine[p].uuid] = mine[p]]
        /\ pc[p] = "replacing" /\ pc' = [pc EXCEPT ![p] = "working"]
        /\ UNCHANGED <<main, branch, checkout, lock, mine, todo, release, session, uuids, work>>
    BY <1>3 DEF ReplaceRecord, repository, counters
  <2>2. registry' \in [Uuids -> {Null} \cup Records]
    BY <1>1, <2>1 DEF TypeInv, WorktreesTypeOK
  <2>3. \A u \in Uuids : registry'[u] # Null => registry'[u].uuid = u
    BY <1>1, <2>1 DEF TypeInv, WorktreesTypeOK
  <2>4. WorktreesTypeOK'
    BY <2>1, <2>2, <2>3 DEF TypeInv, WorktreesTypeOK, Phases
  <2>5. BusyHasRecord' /\ HeadsExist'
    BY <1>1, <2>1 DEF TypeInv, WorktreesTypeOK, BusyHasRecord, HeadsExist, Busy, Holders
  <2> QED BY <2>4, <2>5 DEF TypeInv
<1>4. CASE SaveSession(p)
  BY <1>1, <1>4 DEF SaveSession, TypeInv, WorktreesTypeOK, BusyHasRecord, HeadsExist, repository, processes
<1> QED BY <1>2, <1>3, <1>4

LEMMA TypeReattach == ASSUME TypeInv, HistoryTypeOK', NEW p \in Processes, Reattach(p) PROVE TypeInv'
<1> DEFINE b == IF checkout[session.path].head = Detached THEN session.branch ELSE checkout[session.path].head
           r == Recreated(p, session.path, b)
<1>1. session \in Records /\ session.path \in Uuids /\ session.branch \in Branches
  BY RecordFields DEF Reattach, TypeInv, WorktreesTypeOK
<1>0. uuids + 1 \in 0..MaxUuids /\ uuids \in 0..MaxUuids /\ uuids < MaxUuids
  <2>1. uuids < MaxUuids
    BY DEF Reattach
  <2>2. uuids \in 0..MaxUuids
    BY DEF TypeInv, WorktreesTypeOK
  <2> QED BY <2>1, <2>2, WorktreesAssumption
<1>2. b \in Branches
  BY <1>1 DEF Reattach, TypeInv, WorktreesTypeOK, Checkouts
<1>3. r \in Records /\ r.pid = p
  BY <1>0, <1>1, <1>2, RecreatedRecord
<1>4. /\ mine' = [mine EXCEPT ![p] = r] /\ uuids' = uuids + 1
      /\ pc' = [pc EXCEPT ![p] = "replacing"] /\ pc[p] = "up"
      /\ UNCHANGED <<main, branch, checkout, registry, lock, todo, release, session, work>>
  BY DEF Reattach, repository
<1> HIDE DEF b, r
<1>5. WorktreesTypeOK'
  BY <1>0, <1>1, <1>3, <1>4 DEF TypeInv, WorktreesTypeOK, Phases
<1>6. BusyHasRecord' /\ HeadsExist'
  BY <1>3, <1>4, RecordFields DEF TypeInv, WorktreesTypeOK, BusyHasRecord, HeadsExist, Busy, Holders
<1> QED BY <1>5, <1>6 DEF TypeInv

\* Where an agent works.
LEMMA HerePath ==
  ASSUME TypeInv, NEW p \in Processes, Here(p)
  PROVE  /\ pc[p] = "working" /\ mine[p] \in Records /\ mine[p] # Null /\ mine[p].path \in Uuids
         /\ mine[p].branch \in Branches
         /\ checkout[mine[p].path] # Null /\ checkout[mine[p].path] \in Checkouts
BY RecordFields DEF Here, TypeInv, BusyHasRecord, WorktreesTypeOK, Busy, Holders

LEMMA TypeWrite == ASSUME TypeInv, HistoryTypeOK', NEW p \in Processes, Write(p) PROVE TypeInv'
<1> DEFINE u == mine[p].path
           c == [checkout[u] EXCEPT !.dirty = @ \cup {work + 1}]
<1>1. u \in Uuids /\ checkout[u] # Null /\ checkout[u] \in Checkouts
  BY HerePath DEF Write
<1>2. work + 1 \in Works /\ work + 1 \in 0..MaxWork
  BY WorktreesAssumption DEF Write, TypeInv, WorktreesTypeOK, Works
<1>3. c \in Checkouts /\ c.head = checkout[u].head
  BY <1>1, <1>2 DEF Checkouts
<1>4. /\ checkout' = [checkout EXCEPT ![u] = c] /\ work' = work + 1
      /\ UNCHANGED <<main, branch, registry, lock, pc, mine, todo, release, session, uuids>>
  BY DEF Write, processes
<1> HIDE DEF c, u
<1>5. WorktreesTypeOK'
  BY <1>1, <1>2, <1>3, <1>4 DEF TypeInv, WorktreesTypeOK
<1>6. BusyHasRecord' /\ HeadsExist'
  BY <1>1, <1>3, <1>4 DEF TypeInv, WorktreesTypeOK, BusyHasRecord, HeadsExist
<1> QED BY <1>5, <1>6 DEF TypeInv

LEMMA TypeCommits == ASSUME TypeInv, HistoryTypeOK', NEW p \in Processes, Commit(p) \/ CommitDirty(p) PROVE TypeInv'
<1>1. ASSUME NEW u \in Uuids, checkout[u] # Null, CommitAll(u),
             UNCHANGED <<main, registry, lock, pc, mine, todo, session, uuids, work>>,
             release' = release \/ (At(p, "commit") /\ Advance(p, "inspect"))
      PROVE  TypeInv'
  <2>1. /\ branch' \in [Branches -> {Null} \cup SUBSET Works] /\ checkout' \in [Uuids -> {Null} \cup Checkouts]
        /\ \A v \in Uuids : checkout'[v] # Null => checkout[v] # Null /\ checkout'[v].head = checkout[v].head
        /\ \A b \in Branches : branch'[b] = Null <=> branch[b] = Null
    BY <1>1, CommitResult DEF TypeInv
  <2>2. HeadsExist'
    BY <2>1 DEF TypeInv, HeadsExist, WorktreesTypeOK, Checkouts
  <2>3. /\ release' \in [Processes -> {Null} \cup Releases]
        /\ \A q \in Processes : release'[q] # Null => release[q] # Null
    BY <1>1 DEF At, Advance, TypeInv, WorktreesTypeOK, Releases, ReleaseSteps
  <2>4. WorktreesTypeOK'
    BY <1>1, <2>1, <2>3 DEF TypeInv, WorktreesTypeOK
  <2>5. BusyHasRecord'
    BY <1>1 DEF TypeInv, BusyHasRecord
  <2> QED BY <2>2, <2>4, <2>5 DEF TypeInv
<1>2. CASE Commit(p)
  BY <1>1, <1>2, HerePath DEF Commit, processes, counters
<1>3. CASE CommitDirty(p)
  <2>1. release[p] # Null /\ Path(p) \in Uuids
    BY <1>3, RecordFields DEF CommitDirty, At, Path, TypeInv, WorktreesTypeOK, Releases
  <2>2. CASE checkout[Path(p)] # Null /\ checkout[Path(p)].dirty # {}
    BY <1>1, <1>3, <2>1, <2>2 DEF CommitDirty, counters
  <2>3. CASE ~ (checkout[Path(p)] # Null /\ checkout[Path(p)].dirty # {})
    <3>1. release' = [release EXCEPT ![p] = Null]
          /\ UNCHANGED <<main, branch, checkout, registry, lock, pc, mine, todo, session, uuids, work>>
      BY <1>3, <2>3 DEF CommitDirty, Abandon, counters
    <3> QED BY <3>1 DEF TypeInv, WorktreesTypeOK, BusyHasRecord, HeadsExist
  <2> QED BY <2>2, <2>3
<1> QED BY <1>2, <1>3

LEMMA TypeDetach == ASSUME TypeInv, HistoryTypeOK', NEW p \in Processes, Detach(p) PROVE TypeInv'
<1> DEFINE u == mine[p].path
           c == [[checkout[u] EXCEPT !.head = Detached] EXCEPT !.at = Head(u)]
<1>1. u \in Uuids /\ checkout[u] # Null /\ checkout[u] \in Checkouts
  BY HerePath DEF Detach
<1>2. Head(u) \in SUBSET Works
  BY <1>1, HeadTyped DEF TypeInv
<1>3. c \in Checkouts /\ c.head = Detached
  BY <1>1, <1>2 DEF Checkouts
<1>4. /\ checkout' = [checkout EXCEPT ![u] = c]
      /\ UNCHANGED <<main, branch, registry, lock, pc, mine, todo, release, session, uuids, work>>
  BY DEF Detach, processes, counters
<1> HIDE DEF c, u
<1>5. WorktreesTypeOK'
  BY <1>1, <1>3, <1>4 DEF TypeInv, WorktreesTypeOK
<1>6. BusyHasRecord' /\ HeadsExist'
  BY <1>1, <1>3, <1>4 DEF TypeInv, WorktreesTypeOK, BusyHasRecord, HeadsExist
<1> QED BY <1>5, <1>6 DEF TypeInv

LEMMA TypeSwitchBranch == ASSUME TypeInv, HistoryTypeOK', NEW p \in Processes, SwitchBranch(p) PROVE TypeInv'
<1> DEFINE u == mine[p].path
           b == <<"agent", u>>
           c == [[checkout[u] EXCEPT !.head = b] EXCEPT !.at = {}]
<1>1. u \in Uuids /\ checkout[u] # Null /\ checkout[u] \in Checkouts
  BY HerePath DEF SwitchBranch
<1>2. Head(u) \in SUBSET Works /\ Head(u) # Null /\ b \in Branches
  BY <1>1, HeadTyped, WorktreesAssumption DEF TypeInv, Branches
<1>3. c \in Checkouts /\ c.head = b
  BY <1>1, <1>2 DEF Checkouts
<1>4. /\ checkout' = [checkout EXCEPT ![u] = c] /\ branch' = [branch EXCEPT ![b] = Head(u)]
      /\ UNCHANGED <<main, registry, lock, pc, mine, todo, release, session, uuids, work>>
  BY DEF SwitchBranch, processes, counters
<1> HIDE DEF c, u, b
<1>5. WorktreesTypeOK'
  BY <1>1, <1>2, <1>3, <1>4 DEF TypeInv, WorktreesTypeOK
<1>6. BusyHasRecord' /\ HeadsExist'
  BY <1>1, <1>2, <1>3, <1>4 DEF TypeInv, WorktreesTypeOK, BusyHasRecord, HeadsExist, Checkouts
<1> QED BY <1>5, <1>6 DEF TypeInv

LEMMA TypeStart == ASSUME TypeInv, HistoryTypeOK', NEW p \in Processes, Start(p) PROVE TypeInv'
<1> DEFINE left == {r \in Recorded : ~Alive(r.pid)}
<1>1. left \subseteq Records
  BY DEF Recorded, TypeInv, WorktreesTypeOK
<1>2. /\ todo' = [todo EXCEPT ![p] = left] /\ pc[p] = "new"
      /\ pc' = [pc EXCEPT ![p] = IF left = {} THEN "up" ELSE "sweeping"]
      /\ UNCHANGED <<main, branch, checkout, registry, lock, mine, release, session, uuids, work>>
  BY DEF Start, TypeInv, WorktreesTypeOK, repository, counters
<1> HIDE DEF left
<1>3. release[p] = Null
  BY <1>2 DEF TypeInv, WorktreesTypeOK
<1>4. WorktreesTypeOK'
  BY <1>1, <1>2, <1>3 DEF TypeInv, WorktreesTypeOK, Phases
<1>5. BusyHasRecord' /\ HeadsExist'
  BY <1>2 DEF TypeInv, WorktreesTypeOK, BusyHasRecord, HeadsExist, Busy, Holders
<1> QED BY <1>4, <1>5 DEF TypeInv

LEMMA TypeExit == ASSUME TypeInv, HistoryTypeOK', NEW p \in Processes, Exit(p) PROVE TypeInv'
<1> DEFINE left == {r \in Recorded : r.pid = p}
<1>1. left \subseteq Records
  BY DEF Recorded, TypeInv, WorktreesTypeOK
<1>2. /\ todo' = [todo EXCEPT ![p] = left] /\ pc[p] \in {"up", "working"}
      /\ pc' = [pc EXCEPT ![p] = IF left = {} THEN "dead" ELSE "exiting"]
      /\ mine' = [mine EXCEPT ![p] = Null]
      /\ UNCHANGED <<main, branch, checkout, registry, lock, release, session, uuids, work>>
  BY DEF Exit, TypeInv, WorktreesTypeOK, repository, counters
<1> HIDE DEF left
<1>3. release[p] = Null
  BY <1>2 DEF TypeInv, WorktreesTypeOK
<1>4. WorktreesTypeOK'
  BY <1>1, <1>2, <1>3 DEF TypeInv, WorktreesTypeOK, Phases
<1>5. BusyHasRecord' /\ HeadsExist'
  BY <1>2 DEF TypeInv, WorktreesTypeOK, BusyHasRecord, HeadsExist, Busy, Holders
<1> QED BY <1>4, <1>5 DEF TypeInv

LEMMA TypeEnds ==
  ASSUME TypeInv, HistoryTypeOK', NEW p \in Processes, Cleanup(p) \/ Released(p) \/ Crash(p)
  PROVE  TypeInv'
<1>1. CASE Cleanup(p)
  <2>1. mine[p] \in Records
    BY <1>1 DEF Cleanup, TypeInv, BusyHasRecord, WorktreesTypeOK, Busy, Holders
  <2>2. WorktreesTypeOK'
    BY <1>1, <2>1 DEF Cleanup, TypeInv, WorktreesTypeOK, Phases, repository, counters
  <2>3. BusyHasRecord' /\ HeadsExist'
    BY <1>1 DEF Cleanup, TypeInv, WorktreesTypeOK, BusyHasRecord, HeadsExist, Busy, Holders, repository
  <2> QED BY <2>2, <2>3 DEF TypeInv
<1>2. CASE Released(p)
  <2>1. WorktreesTypeOK'
    BY <1>2 DEF Released, TypeInv, WorktreesTypeOK, Phases, repository, counters
  <2>2. BusyHasRecord' /\ HeadsExist'
    BY <1>2 DEF Released, TypeInv, WorktreesTypeOK, BusyHasRecord, HeadsExist, Busy, Holders, repository
  <2> QED BY <2>1, <2>2 DEF TypeInv
<1>3. CASE Crash(p)
  <2>1. WorktreesTypeOK'
    BY <1>3 DEF Crash, TypeInv, WorktreesTypeOK, Phases, repository
  <2>2. BusyHasRecord' /\ HeadsExist'
    BY <1>3 DEF Crash, TypeInv, WorktreesTypeOK, BusyHasRecord, HeadsExist, Busy, Holders, repository
  <2> QED BY <2>1, <2>2 DEF TypeInv
<1> QED BY <1>1, <1>2, <1>3

\* What a release in progress is.
LEMMA ReleaseFields ==
  ASSUME TypeInv, NEW p \in Processes, release[p] # Null
  PROVE  /\ release[p] \in Releases /\ release[p].record \in Records /\ release[p].record # Null
         /\ Path(p) \in Uuids /\ release[p].record.branch \in Branches /\ release[p].record.uuid \in Uuids
         /\ pc[p] \in {"sweeping", "cleaning", "exiting"}
<1>1. release[p] \in Releases /\ pc[p] \in {"sweeping", "cleaning", "exiting"}
  BY DEF TypeInv, WorktreesTypeOK
<1>2. release[p].record \in Records
  BY <1>1 DEF Releases
<1> QED BY <1>1, <1>2, RecordFields DEF Path

LEMMA BeginResult ==
  ASSUME TypeInv, NEW p \in Processes, NEW r \in todo[p], BeginRelease(p, r)
  PROVE  \E rel \in Releases :
           /\ release' = [release EXCEPT ![p] = rel] /\ todo' = [todo EXCEPT ![p] = @ \ {r}]
           /\ rel.record = r
           /\ UNCHANGED <<main, branch, checkout, registry, lock, pc, mine, session, uuids, work, moves, orphans, contested>>
           /\ \/ rel.step = "dropMissing" /\ checkout[r.path] = Null
                /\ \E fails \in BOOLEAN : rel.ahead = (Ahead(r) /\ ~fails) /\ Count(r, fails)
              \/ rel.step = "disown" /\ checkout[r.path] # Null /\ atRisk' = atRisk
              \/ /\ rel.step \in {"commit", "inspect"} /\ checkout[r.path] # Null
                 /\ atRisk \subseteq atRisk'
                 /\ rel.step = "inspect" => checkout[r.path].dirty \subseteq atRisk'
<1>1. r \in Records /\ r.branch \in Branches
  BY RecordFields DEF TypeInv, WorktreesTypeOK
<1> DEFINE rel(step, ahead) == [step |-> step, record |-> r, dirty |-> step = "commit", active |-> r.branch, ahead |-> ahead]
<1>2. \A step \in ReleaseSteps, ahead \in BOOLEAN :
        /\ rel(step, ahead) \in Releases /\ rel(step, ahead).record = r
        /\ rel(step, ahead).step = step /\ rel(step, ahead).ahead = ahead
  BY <1>1 DEF Releases
<1>3. \A step, ahead : Begun(p, r, step, ahead) <=> release' = [release EXCEPT ![p] = rel(step, ahead)]
  BY DEF Begun
<1>4. /\ todo' = [todo EXCEPT ![p] = @ \ {r}]
      /\ UNCHANGED <<main, branch, checkout, registry, lock, pc, mine, session, uuids, work, moves, orphans, contested>>
  BY DEF BeginRelease, repository
<1> HIDE DEF rel
<1>5. CASE BeginMissing(p, r)
  <2>1. PICK fails \in BOOLEAN : Count(r, fails) /\ Begun(p, r, "dropMissing", Ahead(r) /\ ~fails)
    BY <1>5 DEF BeginMissing
  <2>2. (Ahead(r) /\ ~fails) \in BOOLEAN /\ "dropMissing" \in ReleaseSteps /\ checkout[r.path] = Null
    BY <1>5 DEF BeginMissing, ReleaseSteps
  <2> DEFINE new == rel("dropMissing", Ahead(r) /\ ~fails)
  <2>3. new \in Releases /\ new.record = r /\ new.step = "dropMissing" /\ new.ahead = (Ahead(r) /\ ~fails)
    BY <1>2, <2>2
  <2>4. release' = [release EXCEPT ![p] = new]
    BY <1>3, <2>1
  <2> HIDE DEF new
  <2> QED BY <1>4, <2>1, <2>2, <2>3, <2>4
<1>6. CASE BeginUnmanaged(p, r)
  <2> DEFINE new == rel("disown", FALSE)
  <2>1. new \in Releases /\ new.record = r /\ new.step = "disown"
    BY <1>2 DEF ReleaseSteps
  <2>2. release' = [release EXCEPT ![p] = new] /\ atRisk' = atRisk /\ checkout[r.path] # Null
    BY <1>3, <1>6 DEF BeginUnmanaged
  <2> HIDE DEF new
  <2> QED BY <1>4, <2>1, <2>2
<1>7. CASE BeginStatus(p, r)
  <2>1. PICK fails \in BOOLEAN :
          /\ Begun(p, r, IF checkout[r.path].dirty # {} /\ ~fails THEN "commit" ELSE "inspect", FALSE)
          /\ atRisk' = IF fails THEN atRisk \cup checkout[r.path].dirty ELSE atRisk
    BY <1>7 DEF BeginStatus
  <2> DEFINE step == IF checkout[r.path].dirty # {} /\ ~fails THEN "commit" ELSE "inspect"
             new == rel(step, FALSE)
  <2>2. step \in ReleaseSteps /\ step \in {"commit", "inspect"} /\ checkout[r.path] # Null
    BY <1>7 DEF ReleaseSteps, BeginStatus
  <2>3. new \in Releases /\ new.record = r /\ new.step = step
    BY <1>2, <2>2
  <2>4. release' = [release EXCEPT ![p] = new]
    BY <1>3, <2>1
  <2>5. atRisk \subseteq atRisk' /\ (step = "inspect" => checkout[r.path].dirty \subseteq atRisk')
    BY <2>1
  <2> HIDE DEF new, step
  <2> QED BY <1>4, <2>2, <2>3, <2>4, <2>5
<1> QED BY <1>5, <1>6, <1>7 DEF BeginRelease

LEMMA TypeBeginRelease ==
  ASSUME TypeInv, HistoryTypeOK', NEW p \in Processes, NEW r \in todo[p], BeginRelease(p, r) PROVE TypeInv'
<1>1. PICK rel \in Releases :
        /\ release' = [release EXCEPT ![p] = rel] /\ todo' = [todo EXCEPT ![p] = @ \ {r}]
        /\ UNCHANGED <<main, branch, checkout, registry, lock, pc, mine, session, uuids, work>>
  BY BeginResult
<1>2. pc[p] \in {"sweeping", "cleaning", "exiting"}
  BY DEF TypeInv, WorktreesTypeOK
<1>3. WorktreesTypeOK'
  BY <1>1, <1>2 DEF TypeInv, WorktreesTypeOK
<1> QED BY <1>1, <1>3 DEF TypeInv, BusyHasRecord, HeadsExist

\* What Inspect finds, and saves.
LEMMA InspectResult ==
  ASSUME TypeInv, NEW p \in Processes, Inspect(p), checkout[Path(p)] # Null
  PROVE  /\ \E active \in Branches \cup {Detached} : \E rel \in Releases :
              /\ release' = [release EXCEPT ![p] = rel]
              /\ rel.step = "count" /\ rel.record = release[p].record /\ rel.active = active
         /\ \/ SaveHead(p)
            \/ branch' = branch /\ atRisk' = atRisk \cup Unsaved(Path(p))
         /\ UNCHANGED <<main, checkout, registry, lock, pc, mine, todo, session, uuids, work, moves, orphans, contested>>
<1>1. release[p] # Null /\ release[p] \in Releases /\ Path(p) \in Uuids
  BY ReleaseFields DEF Inspect, At
<1>2. PICK failing \in {"none", "current_branch", "branch -f"}, userAhead \in BOOLEAN :
        LET active == IF failing = "current_branch" THEN Detached ELSE checkout[Path(p)].head
        IN  /\ MayFail(failing # "none")
            /\ release' = [release EXCEPT ![p].step = "count", ![p].active = active]
            /\ IF active = Detached /\ (release[p].dirty \/ userAhead) /\ failing # "branch -f"
               THEN SaveHead(p)
               ELSE UNCHANGED branch /\ atRisk' = atRisk \cup Unsaved(Path(p))
  BY DEF Inspect
<1>3. PICK active : active = IF failing = "current_branch" THEN Detached ELSE checkout[Path(p)].head
  OBVIOUS
<1>4. active \in Branches \cup {Detached}
  BY <1>1, <1>3 DEF TypeInv, WorktreesTypeOK, Checkouts
<1>5. PICK rel : rel = [[release[p] EXCEPT !.step = "count"] EXCEPT !.active = active]
  OBVIOUS
<1>6. rel \in Releases /\ rel.step = "count" /\ rel.record = release[p].record /\ rel.active = active
  BY <1>1, <1>4, <1>5 DEF Releases, ReleaseSteps
<1>7. release' = [release EXCEPT ![p] = rel]
  BY <1>2, <1>3, <1>5
<1>8. SaveHead(p) \/ (branch' = branch /\ atRisk' = atRisk \cup Unsaved(Path(p)))
  BY <1>2
<1>9. UNCHANGED <<main, checkout, registry, lock, pc, mine, todo, session, uuids, work, moves, orphans, contested>>
  BY DEF Inspect
<1> QED BY <1>4, <1>6, <1>7, <1>8, <1>9

\* git branch -f, or nothing.
LEMMA SaveResult ==
  ASSUME TypeInv, NEW p \in Processes, Inspect(p), checkout[Path(p)] # Null
  PROVE  /\ branch' \in [Branches -> {Null} \cup SUBSET Works]
         /\ \A b \in Branches : branch[b] # Null => branch'[b] # Null
         /\ \A b \in Branches : b[1] = "cecli" => branch'[b] = branch[b]
         /\ \A b \in Branches : b[2] # release[p].record.branch[2] => branch'[b] = branch[b]
         /\ \/ branch' = branch
            \/ \E b \in Branches : branch'[b] = Head(Path(p)) /\ branch'[b] # Null
         /\ \A b \in Branches : branch[b] # Null => \A w \in branch[b] : w \in branch'[b] \/ w \in atRisk'
                                                     \/ \E c \in Branches : branch'[c] # Null /\ w \in branch'[c]
         /\ atRisk \subseteq atRisk'
         /\ atRisk \in SUBSET Works => atRisk' \in SUBSET Works
<1>1. Path(p) \in Uuids /\ release[p].record.branch \in Branches
  BY ReleaseFields DEF Inspect, At
<1>2. Head(Path(p)) \in SUBSET Works /\ Head(Path(p)) # Null
  BY <1>1, HeadTyped, WorktreesAssumption DEF TypeInv
<1>3. CASE SaveHead(p)
  <2>1. PICK b \in Branches : /\ b = SavedName(release[p].record.branch) /\ b[1] # "cecli"
                             /\ b[2] = release[p].record.branch[2]
    BY <1>1, SavedNames
  <2>2. /\ branch' = [branch EXCEPT ![b] = Head(Path(p))]
        /\ atRisk' = IF branch[b] = Null THEN atRisk ELSE atRisk \cup (branch[b] \ Head(Path(p)))
    BY <1>3, <2>1 DEF SaveHead
  <2>3. \A c \in Branches : branch'[c] = IF c = b THEN Head(Path(p)) ELSE branch[c]
    BY <2>2 DEF TypeInv, WorktreesTypeOK
  <2>4. branch' \in [Branches -> {Null} \cup SUBSET Works]
    BY <1>2, <2>2 DEF TypeInv, WorktreesTypeOK
  <2>5. branch[b] # Null => branch[b] \in SUBSET Works
    BY DEF TypeInv, WorktreesTypeOK
  <2> QED BY <1>2, <2>1, <2>2, <2>3, <2>4, <2>5
<1>4. CASE branch' = branch /\ atRisk' = atRisk \cup Unsaved(Path(p))
  <2>1. Unsaved(Path(p)) \subseteq Works
    BY <1>2 DEF Unsaved
  <2> QED BY <1>4, <2>1 DEF TypeInv, WorktreesTypeOK
<1> QED BY <1>3, <1>4, InspectResult

\* A step of a release that leaves registry and checkouts alone.
LEMMA TypeInspect == ASSUME TypeInv, HistoryTypeOK', NEW p \in Processes, Inspect(p) PROVE TypeInv'
<1>1. release[p] # Null /\ pc[p] \in {"sweeping", "cleaning", "exiting"}
  BY ReleaseFields DEF Inspect, At
<1>2. CASE checkout[Path(p)] = Null
  BY <1>2 DEF Inspect, Abandon, TypeInv, WorktreesTypeOK, BusyHasRecord, HeadsExist
<1>3. CASE checkout[Path(p)] # Null
  <2>1. PICK rel \in Releases : release' = [release EXCEPT ![p] = rel]
    BY <1>3, InspectResult
  <2>2. UNCHANGED <<main, checkout, registry, lock, pc, mine, todo, session, uuids, work>>
    BY <1>3, InspectResult
  <2>3. branch' \in [Branches -> {Null} \cup SUBSET Works] /\ \A b \in Branches : branch[b] # Null => branch'[b] # Null
    BY <1>3, SaveResult
  <2>4. WorktreesTypeOK'
    BY <1>1, <2>1, <2>2, <2>3 DEF TypeInv, WorktreesTypeOK
  <2>5. BusyHasRecord' /\ HeadsExist'
    BY <2>2, <2>3 DEF TypeInv, BusyHasRecord, HeadsExist, WorktreesTypeOK, Checkouts
  <2> QED BY <2>4, <2>5 DEF TypeInv
<1> QED BY <1>2, <1>3

LEMMA CountResult ==
  ASSUME TypeInv, NEW p \in Processes, CountAhead(p)
  PROVE  \E fails \in BOOLEAN, rel \in Releases :
           /\ Count(release[p].record, fails)
           /\ release' = [release EXCEPT ![p] = rel]
           /\ rel.step = "remove" /\ rel.record = release[p].record /\ rel.active = release[p].active
           /\ rel.ahead = (Ahead(release[p].record) /\ ~fails)
           /\ UNCHANGED <<main, branch, checkout, registry, lock, pc, mine, todo, session, uuids, work, moves, orphans, contested>>
<1>1. release[p] # Null /\ release[p] \in Releases
  BY ReleaseFields DEF CountAhead, At
<1>2. PICK fails \in BOOLEAN :
        /\ Count(release[p].record, fails)
        /\ release' = [release EXCEPT ![p].step = "remove", ![p].ahead = Ahead(release[p].record) /\ ~fails]
  BY DEF CountAhead
<1>3. PICK ahead \in BOOLEAN : ahead = (Ahead(release[p].record) /\ ~fails)
  OBVIOUS
<1>4. PICK rel : rel = [[release[p] EXCEPT !.step = "remove"] EXCEPT !.ahead = ahead]
  OBVIOUS
<1>5. /\ rel \in Releases /\ rel.step = "remove" /\ rel.record = release[p].record /\ rel.active = release[p].active
      /\ rel.ahead = ahead
  BY <1>1, <1>4 DEF Releases, ReleaseSteps
<1>6. release' = [release EXCEPT ![p] = rel]
  BY <1>2, <1>3, <1>4
<1>7. UNCHANGED <<main, branch, checkout, registry, lock, pc, mine, todo, session, uuids, work, moves, orphans, contested>>
  BY DEF CountAhead, repository
<1> QED BY <1>2, <1>3, <1>5, <1>6, <1>7

LEMMA TypeCount == ASSUME TypeInv, HistoryTypeOK', NEW p \in Processes, CountAhead(p) PROVE TypeInv'
<1>1. release[p] # Null /\ pc[p] \in {"sweeping", "cleaning", "exiting"}
  BY ReleaseFields DEF CountAhead, At
<1>2. PICK rel \in Releases :
        /\ release' = [release EXCEPT ![p] = rel]
        /\ UNCHANGED <<main, branch, checkout, registry, lock, pc, mine, todo, session, uuids, work>>
  BY CountResult
<1>3. WorktreesTypeOK'
  BY <1>1, <1>2 DEF TypeInv, WorktreesTypeOK
<1> QED BY <1>2, <1>3 DEF TypeInv, BusyHasRecord, HeadsExist

LEMMA TypeRemove == ASSUME TypeInv, HistoryTypeOK', NEW p \in Processes, RemoveWorktree(p) PROVE TypeInv'
<1>1. release[p] # Null /\ release[p] \in Releases /\ release[p].record \in Records
      /\ Path(p) \in Uuids /\ pc[p] \in {"sweeping", "cleaning", "exiting"}
  BY ReleaseFields DEF RemoveWorktree, At
<1>2. /\ release' \in [Processes -> {Null} \cup Releases]
      /\ \A q \in Processes : release'[q] # Null => release[q] # Null
  BY <1>1 DEF RemoveWorktree, Advance, Abandon, TypeInv, WorktreesTypeOK, Releases, ReleaseSteps
<1>3. /\ checkout' \in [Uuids -> {Null} \cup Checkouts]
      /\ \A u \in Uuids : checkout'[u] # Null => checkout'[u] = checkout[u]
  BY <1>1 DEF RemoveWorktree, TypeInv, WorktreesTypeOK
<1>4. WorktreesTypeOK'
  BY <1>1, <1>2, <1>3 DEF RemoveWorktree, TypeInv, WorktreesTypeOK, counters
<1>5. BusyHasRecord' /\ HeadsExist'
  BY <1>3 DEF RemoveWorktree, TypeInv, BusyHasRecord, HeadsExist
<1> QED BY <1>4, <1>5 DEF TypeInv

\* A branch that is dropped is not checked out.
LEMMA DroppedTyped ==
  ASSUME TypeInv, NEW r \in Records, NEW ahead \in BOOLEAN
  PROVE  /\ Dropped(r, ahead) \in [Branches -> {Null} \cup SUBSET Works]
         /\ \A b \in Branches : Dropped(r, ahead)[b] = branch[b] \/ (Dropped(r, ahead)[b] = Null /\ b \notin CheckedOut)
BY DEF Dropped, Droppable, TypeInv, WorktreesTypeOK

LEMMA TypeDrops ==
  ASSUME TypeInv, HistoryTypeOK', NEW p \in Processes, DropBranch(p) \/ DropMissing(p)
  PROVE  TypeInv'
<1>1. release[p] # Null /\ release[p] \in Releases /\ release[p].record \in Records
      /\ release[p].ahead \in BOOLEAN /\ pc[p] \in {"sweeping", "cleaning", "exiting"}
  BY ReleaseFields DEF DropBranch, DropMissing, At, Releases
<1>2. /\ release' \in [Processes -> {Null} \cup Releases]
      /\ \A q \in Processes : release'[q] # Null => release[q] # Null
  BY <1>1 DEF DropBranch, DropMissing, Advance, TypeInv, WorktreesTypeOK, Releases, ReleaseSteps
<1>3. branch' = branch \/ branch' = Dropped(release[p].record, release[p].ahead)
  BY DEF DropBranch, DropMissing
<1>4. /\ branch' \in [Branches -> {Null} \cup SUBSET Works]
      /\ \A b \in Branches : branch'[b] = branch[b] \/ b \notin CheckedOut
  BY <1>1, <1>3, DroppedTyped DEF TypeInv, WorktreesTypeOK
<1>5. /\ lock' \in {lock, Null}
      /\ UNCHANGED <<main, checkout, registry, pc, mine, todo, session, uuids, work>>
  BY DEF DropBranch, DropMissing, counters
<1>6. WorktreesTypeOK'
  BY <1>1, <1>2, <1>4, <1>5 DEF TypeInv, WorktreesTypeOK
<1>7. BusyHasRecord' /\ HeadsExist'
  BY <1>4, <1>5 DEF TypeInv, BusyHasRecord, HeadsExist, CheckedOut, WorktreesTypeOK, Checkouts
<1> QED BY <1>6, <1>7 DEF TypeInv

LEMMA TypeDiscard == ASSUME TypeInv, HistoryTypeOK', NEW p \in Processes, DiscardRecord(p) \/ GiveUp(p) PROVE TypeInv'
<1>1. release' \in [Processes -> {Null} \cup Releases]
      /\ \A q \in Processes : release'[q] # Null => release[q] # Null
  BY DEF DiscardRecord, GiveUp, Abandon, TypeInv, WorktreesTypeOK
<1>2. registry' \in [Uuids -> {Null} \cup Records]
      /\ \A u \in Uuids : registry'[u] # Null => registry'[u] = registry[u]
  BY DEF DiscardRecord, GiveUp, TypeInv, WorktreesTypeOK
<1>3. lock' \in Processes \cup {Null}
  BY DEF DiscardRecord, GiveUp, TypeInv, WorktreesTypeOK
<1>4. UNCHANGED <<main, branch, checkout, pc, mine, todo, session, uuids, work>>
  BY DEF DiscardRecord, GiveUp, repository, counters
<1>5. WorktreesTypeOK'
  BY <1>1, <1>2, <1>3, <1>4 DEF TypeInv, WorktreesTypeOK
<1> QED BY <1>4, <1>5 DEF TypeInv, BusyHasRecord, HeadsExist

LEMMA TypeMerge == ASSUME TypeInv, HistoryTypeOK', NEW b \in Branches, Merge(b) PROVE TypeInv'
<1>1. main' \subseteq Works
  BY DEF Merge, TypeInv, WorktreesTypeOK
<1> QED BY <1>1 DEF Merge, TypeInv, WorktreesTypeOK, BusyHasRecord, HeadsExist, processes, counters

\* What is counted, and what the histories name.
LEMMA Bounded ==
  ASSUME NEW n, NEW max \in Nat, n \in 0..max
  PROVE  n < max => n + 1 \in 0..max
OBVIOUS

LEMMA FaultsTyped ==
  ASSUME TypeInv, NEW fails \in BOOLEAN, MayFail(fails)
  PROVE  faults' \in 0..MaxFaults
<1>1. faults \in 0..MaxFaults
  BY DEF TypeInv, WorktreesTypeOK, HistoryTypeOK
<1> QED BY <1>1, Bounded, WorktreesAssumption DEF MayFail

LEMMA MovesTyped == ASSUME TypeInv, Move PROVE moves' \in 0..MaxMoves
<1>1. moves \in 0..MaxMoves
  BY DEF TypeInv, WorktreesTypeOK, HistoryTypeOK
<1> QED BY <1>1, Bounded, WorktreesAssumption DEF Move

LEMMA CountTyped ==
  ASSUME TypeInv, NEW r \in Records, NEW fails \in BOOLEAN, Count(r, fails)
  PROVE  faults' \in 0..MaxFaults /\ atRisk' \subseteq Works /\ atRisk \subseteq atRisk'
<1>1. r.branch \in Branches /\ atRisk \subseteq Works
  BY RecordFields DEF TypeInv, WorktreesTypeOK, HistoryTypeOK
<1>2. Misjudged(r) \subseteq Works
  BY <1>1 DEF Misjudged, TypeInv, WorktreesTypeOK
<1> QED BY <1>1, <1>2, FaultsTyped DEF Count

\* Histories only grow.
Grows ==
  /\ moves' \in 0..MaxMoves /\ faults' \in 0..MaxFaults
  /\ atRisk \subseteq atRisk' /\ atRisk' \subseteq Works
  /\ orphans \subseteq orphans' /\ orphans' \subseteq Uuids
  /\ contested \subseteq contested' /\ contested' \subseteq Uuids

LEMMA HistoryGrows == ASSUME TypeInv, [Next]_vars PROVE Grows
<1> USE DEF Grows
<1>0. /\ moves \in 0..MaxMoves /\ faults \in 0..MaxFaults
      /\ atRisk \subseteq Works /\ orphans \subseteq Uuids /\ contested \subseteq Uuids
  BY DEF TypeInv, WorktreesTypeOK, HistoryTypeOK
<1>1. ASSUME NEW p \in Processes, Adopt(p) \/ AdoptOther(p) PROVE Grows
  <2>1. PICK path \in Uuids : Take(p, path)
    BY <1>1, LatestReusable, RecordFields, AdoptedRecord DEF Adopt, AdoptOther, TypeInv
  <2>2. contested \subseteq contested' /\ contested' \subseteq Uuids
    BY <1>0, <2>1 DEF Take
  <2> QED BY <1>0, <1>1, <2>2 DEF Adopt, AdoptOther, counters
<1>2. ASSUME NEW p \in Processes, Reattach(p) PROVE Grows
  <2>1. session.path \in Uuids
    BY <1>2, RecordFields DEF Reattach, TypeInv, WorktreesTypeOK
  <2>2. contested \subseteq contested' /\ contested' \subseteq Uuids
    BY <1>0, <1>2, <2>1 DEF Reattach
  <2> QED BY <1>0, <1>2, <2>2 DEF Reattach
<1>3. ASSUME NEW p \in Processes, Start(p) \/ Exit(p) PROVE Grows
  <2>1. PICK left \in SUBSET Recorded : todo' = [todo EXCEPT ![p] = left]
    BY <1>3 DEF Start, Exit, TypeInv, WorktreesTypeOK
  <2>2. \A r \in Recorded : r.path \in Uuids
    BY RecordFields DEF Recorded, TypeInv, WorktreesTypeOK
  <2>3. \A r \in todo'[p] : r.path \in Uuids
    BY <2>1, <2>2 DEF TypeInv, WorktreesTypeOK
  <2>4. contested \subseteq contested' /\ contested' \subseteq Uuids
    BY <1>0, <1>3, <2>3 DEF Start, Exit, Overtake
  <2> QED BY <1>0, <1>3, <2>4 DEF Start, Exit, counters
<1>4. ASSUME NEW p \in Processes, AddWorktree(p) \/ Rebuild(p) \/ SaveRecord(p) \/ ReplaceRecord(p) \/ Cleanup(p) \/ Released(p)
                                \/ RemoveWorktree(p)
      PROVE  Grows
  BY <1>0, <1>4 DEF AddWorktree, Rebuild, SaveRecord, ReplaceRecord, Cleanup, Released, RemoveWorktree, counters, history
<1>5. ASSUME NEW p \in Processes, SaveSession(p) \/ Detach(p) \/ SwitchBranch(p) PROVE Grows
  BY <1>0, <1>5, MovesTyped DEF SaveSession, Detach, SwitchBranch, history
<1>6. ASSUME NEW b \in Branches, Merge(b) PROVE Grows
  BY <1>0, <1>6, MovesTyped DEF Merge, history
<1>7. ASSUME NEW p \in Processes, Write(p) PROVE Grows
  <2>1. work + 1 \in Works
    BY <1>7, WorktreesAssumption DEF Write, TypeInv, WorktreesTypeOK, Works
  <2>2. atRisk \subseteq atRisk' /\ atRisk' \subseteq Works
    BY <1>0, <1>7, <2>1 DEF Write
  <2> QED BY <1>0, <1>7, <2>2 DEF Write
<1>8. ASSUME NEW u \in Uuids, CommitAll(u), checkout[u] # Null
      PROVE  atRisk \subseteq atRisk' /\ atRisk' \subseteq Works
  BY <1>0, <1>8 DEF CommitAll, TypeInv, WorktreesTypeOK, Checkouts
<1>9. ASSUME NEW p \in Processes, Commit(p) PROVE Grows
  <2>1. atRisk \subseteq atRisk' /\ atRisk' \subseteq Works
    BY <1>8, <1>9, HerePath DEF Commit
  <2> QED BY <1>0, <1>9, <2>1 DEF Commit, counters
<1>10. ASSUME NEW p \in Processes, CommitDirty(p) PROVE Grows
  <2>1. Path(p) \in Uuids
    BY <1>10, ReleaseFields DEF CommitDirty, At
  <2>2. atRisk \subseteq atRisk' /\ atRisk' \subseteq Works
    BY <1>0, <1>8, <1>10, <2>1 DEF CommitDirty
  <2> QED BY <1>0, <1>10, <2>2 DEF CommitDirty, counters
<1>11. ASSUME NEW p \in Processes, NEW r \in todo[p], BeginRelease(p, r) PROVE Grows
  <2>1. UNCHANGED <<moves, orphans, contested>>
    BY <1>11 DEF BeginRelease
  <2>2. r \in Records /\ r.path \in Uuids
    BY RecordFields DEF TypeInv, WorktreesTypeOK
  <2>3. CASE BeginMissing(p, r)
    BY <1>0, <2>1, <2>2, <2>3, CountTyped DEF BeginMissing
  <2>4. CASE BeginUnmanaged(p, r)
    BY <1>0, <2>1, <2>4, FaultsTyped DEF BeginUnmanaged
  <2>5. CASE BeginStatus(p, r)
    <3>1. checkout[r.path].dirty \subseteq Works
      BY <2>2, <2>5 DEF BeginStatus, TypeInv, WorktreesTypeOK, Checkouts
    <3> QED BY <1>0, <2>1, <2>5, <3>1, FaultsTyped DEF BeginStatus
  <2> QED BY <1>11, <2>3, <2>4, <2>5 DEF BeginRelease
<1>12. ASSUME NEW p \in Processes, Inspect(p) PROVE Grows
  <2>1. UNCHANGED <<moves, orphans, contested>>
    BY <1>12 DEF Inspect
  <2>2. CASE checkout[Path(p)] = Null
    BY <1>0, <1>12, <2>1, <2>2 DEF Inspect
  <2>3. CASE checkout[Path(p)] # Null
    <3>1. faults' \in 0..MaxFaults
      BY <1>12, <2>3, FaultsTyped DEF Inspect
    <3> QED BY <1>0, <1>12, <2>1, <2>3, <3>1, SaveResult
  <2> QED BY <2>2, <2>3
<1>13. ASSUME NEW p \in Processes, CountAhead(p) PROVE Grows
  <2>1. release[p].record \in Records
    BY <1>13, ReleaseFields DEF CountAhead, At
  <2> QED BY <1>0, <1>13, <2>1, CountTyped DEF CountAhead
<1>14. ASSUME NEW p \in Processes, DropBranch(p) \/ DropMissing(p) PROVE Grows
  BY <1>0, <1>14, FaultsTyped DEF DropBranch, DropMissing, history
<1>15. ASSUME NEW p \in Processes, DiscardRecord(p) PROVE Grows
  <2>1. Path(p) \in Uuids
    BY <1>15, ReleaseFields DEF DiscardRecord, At
  <2> QED BY <1>0, <1>15, <2>1 DEF DiscardRecord, counters
<1>16. ASSUME NEW p \in Processes, GiveUp(p) PROVE Grows
  BY <1>0, <1>16, FaultsTyped DEF GiveUp, history
<1>17. ASSUME NEW p \in Processes, Crash(p) PROVE Grows
  <2>1. Unrecorded(p) => mine[p].path \in Uuids
    BY RecordFields DEF Unrecorded, TypeInv, WorktreesTypeOK, BusyHasRecord, Busy, Holders
  <2> QED BY <1>0, <1>17, <2>1, FaultsTyped DEF Crash
<1>18. CASE UNCHANGED vars
  BY <1>0, <1>18 DEF vars, counters, history
<1> QED BY <1>1, <1>2, <1>3, <1>4, <1>5, <1>6, <1>7, <1>9, <1>10, <1>11, <1>12, <1>13, <1>14, <1>15, <1>16, <1>17, <1>18
        DEF Next, Step

LEMMA TypeKept == ASSUME TypeInv, [Next]_vars PROVE TypeInv'
<1>1. HistoryTypeOK'
  BY HistoryGrows DEF Grows, HistoryTypeOK
<1> QED BY <1>1, TypeStutter, TypeSaves, TypeEnds, TypeBeginRelease, TypeCommits, TypeInspect, TypeCount, TypeRemove, TypeDrops,
   TypeDiscard, TypeStart, TypeAdopt, TypeAddWorktree, TypeReattach, TypeAdoptOther, TypeRebuild,
   TypeWrite, TypeDetach, TypeSwitchBranch, TypeExit, TypeMerge DEF Next, Step

-----------------------------------------------------------------------------
(* What the steps do to records and checkouts.                             *)

\* The same worktree, whoever owns it.
Same(r, s) == r.uuid = s.uuid /\ r.path = s.path /\ r.branch = s.branch /\ r.base = s.base

\* A record of a worktree known before, perhaps taken over by p.
Old(p, r) == \E s \in Known : Same(r, s) /\ r.pid \in {s.pid, p}

LEMMA KnownIsOld == ASSUME NEW p, NEW r \in Known PROVE Old(p, r)
BY DEF Old, Same

LEMMA KnownFrom ==
  ASSUME NEW S,
         \A u \in Uuids : registry'[u] # Null => registry'[u] \in S,
         \A p \in Processes : mine'[p] # Null => mine'[p] \in S,
         \A p \in Processes : \A r \in todo'[p] : r \in S,
         \A p \in Processes : release'[p] # Null => release'[p].record \in S,
         session' # Null => session' \in S
  PROVE  \A r \in Known' : r \in S
BY RecordFields DEF Known

\* What create makes.
LEMMA AddResult ==
  ASSUME TypeInv, NEW p \in Processes, AddWorktree(p)
  PROVE  /\ uuids + 1 \in Uuids /\ uuids \in Nat /\ uuids' = uuids + 1 /\ <<"cecli", uuids + 1>> \in Branches
         /\ pc[p] = "up" /\ lock = Null /\ lock' = p /\ Reusable = {}
         /\ mine[p] = Null /\ mine'[p] \in Records /\ mine'[p] # Null
         /\ mine'[p].uuid = uuids + 1 /\ mine'[p].path = uuids + 1 /\ mine'[p].branch = <<"cecli", uuids + 1>>
         /\ mine'[p].base = main /\ mine'[p].pid = p
         /\ pc'[p] = "adding"
         /\ \A q \in Processes : q # p => mine'[q] = mine[q] /\ pc'[q] = pc[q]
         /\ checkout'[uuids + 1] = Fresh(<<"cecli", uuids + 1>>)
         /\ \A u \in Uuids : u # uuids + 1 => checkout'[u] = checkout[u]
         /\ branch'[<<"cecli", uuids + 1>>] = main
         /\ \A b \in Branches : b # <<"cecli", uuids + 1>> => branch'[b] = branch[b]
         /\ UNCHANGED <<main, registry, todo, release, session, work>>
<1> DEFINE u == uuids + 1
           b == <<"cecli", u>>
           r == [uuid |-> u, path |-> u, branch |-> b, base |-> main, pid |-> p, created |-> u]
<1>1. u \in Uuids /\ b \in Branches /\ uuids \in Nat
  BY WorktreesAssumption DEF AddWorktree, TypeInv, WorktreesTypeOK, Uuids, Branches
<1>2. r \in Records /\ r.pid = p /\ r.uuid = u /\ r.path = u /\ r.branch = b /\ r.base = main
  BY <1>1 DEF Records, TypeInv, WorktreesTypeOK
<1>3. /\ branch' = [branch EXCEPT ![b] = main] /\ checkout' = [checkout EXCEPT ![u] = Fresh(b)]
      /\ mine' = [mine EXCEPT ![p] = r] /\ uuids' = u /\ lock' = p /\ lock = Null
      /\ pc' = [pc EXCEPT ![p] = "adding"] /\ pc[p] = "up" /\ Reusable = {}
      /\ UNCHANGED <<main, registry, todo, release, session, work>>
  BY DEF AddWorktree
<1> HIDE DEF u, b, r
<1>4. mine[p] = Null
  BY <1>3 DEF TypeInv, BusyHasRecord, Busy, Holders
<1>5. r # Null
  BY <1>2, RecordFields
<1>6. /\ mine'[p] = r /\ pc'[p] = "adding"
      /\ \A q \in Processes : q # p => mine'[q] = mine[q] /\ pc'[q] = pc[q]
  BY <1>3 DEF TypeInv, WorktreesTypeOK
<1>7. /\ checkout'[u] = Fresh(b) /\ \A v \in Uuids : v # u => checkout'[v] = checkout[v]
      /\ branch'[b] = main /\ \A c \in Branches : c # b => branch'[c] = branch[c]
  BY <1>1, <1>3 DEF TypeInv, WorktreesTypeOK
<1> QED BY <1>1, <1>2, <1>3, <1>4, <1>5, <1>6, <1>7 DEF u, b

\* The branch of a rebuilt checkout.
RebuiltOn == IF session.branch \in CheckedOut THEN <<"cecli", uuids + 1>> ELSE session.branch

LEMMA RebuildResult ==
  ASSUME TypeInv, NEW p \in Processes, Rebuild(p)
  PROVE  /\ uuids + 1 \in Uuids /\ uuids \in Nat /\ uuids' = uuids + 1 /\ RebuiltOn \in Branches
         /\ pc[p] = "up" /\ lock = Null /\ Reusable = {}
         /\ session \in Records /\ session # Null /\ checkout[session.path] = Null
         /\ mine[p] = Null /\ mine'[p] \in Records /\ mine'[p] # Null
         /\ mine'[p].uuid = uuids + 1 /\ mine'[p].path = uuids + 1 /\ mine'[p].branch = RebuiltOn
         /\ mine'[p].base = session.base /\ mine'[p].pid = p
         /\ pc'[p] = "replacing"
         /\ \A q \in Processes : q # p => mine'[q] = mine[q] /\ pc'[q] = pc[q]
         /\ checkout'[uuids + 1] = Fresh(RebuiltOn)
         /\ \A u \in Uuids : u # uuids + 1 => checkout'[u] = checkout[u]
         /\ branch'[RebuiltOn] = IF branch[session.branch] = Null THEN session.base ELSE branch[session.branch]
         /\ \A b \in Branches : b # RebuiltOn => branch'[b] = branch[b]
         /\ UNCHANGED <<main, registry, lock, todo, release, session, work>>
<1> DEFINE u == uuids + 1
           b == RebuiltOn
           r == Recreated(p, u, b)
<1>1. u \in Uuids /\ uuids \in 0..MaxUuids /\ uuids < MaxUuids /\ uuids \in Nat /\ session \in Records
  BY WorktreesAssumption DEF Rebuild, TypeInv, WorktreesTypeOK, Uuids
<1>2. b \in Branches
  BY <1>1, RecordFields DEF Branches, RebuiltOn
<1>3. r \in Records /\ r.pid = p /\ r.uuid = u /\ r.path = u /\ r.branch = b /\ r.base = session.base
  BY <1>1, <1>2, RecreatedRecord
<1>4. /\ branch' = [branch EXCEPT ![b] = Restored] /\ checkout' = [checkout EXCEPT ![u] = Fresh(b)]
      /\ mine' = [mine EXCEPT ![p] = r] /\ uuids' = u
      /\ pc' = [pc EXCEPT ![p] = "replacing"] /\ pc[p] = "up" /\ session # Null
      /\ lock = Null /\ Reusable = {} /\ checkout[session.path] = Null
      /\ UNCHANGED <<main, registry, lock, todo, release, session, work>>
  BY DEF Rebuild, RebuiltOn
<1> HIDE DEF u, b, r
<1>5. mine[p] = Null /\ r # Null
  BY <1>3, <1>4, RecordFields DEF TypeInv, BusyHasRecord, Busy, Holders
<1>6. /\ mine'[p] = r /\ pc'[p] = "replacing"
      /\ \A q \in Processes : q # p => mine'[q] = mine[q] /\ pc'[q] = pc[q]
  BY <1>4 DEF TypeInv, WorktreesTypeOK
<1>7. /\ checkout'[u] = Fresh(b) /\ \A v \in Uuids : v # u => checkout'[v] = checkout[v]
      /\ branch'[b] = Restored /\ \A c \in Branches : c # b => branch'[c] = branch[c]
  BY <1>1, <1>2, <1>4 DEF TypeInv, WorktreesTypeOK
<1> QED BY <1>1, <1>2, <1>3, <1>4, <1>5, <1>6, <1>7 DEF u, b, Restored

\* The branch of a checkout that is taken as it is.
ReattachedOn == IF checkout[session.path].head = Detached THEN session.branch ELSE checkout[session.path].head

LEMMA ReattachResult ==
  ASSUME TypeInv, NEW p \in Processes, Reattach(p)
  PROVE  /\ uuids + 1 \in Uuids /\ uuids \in Nat /\ uuids' = uuids + 1 /\ ReattachedOn \in Branches
         /\ pc[p] = "up" /\ session \in Records /\ session # Null /\ session.path \in Uuids
         /\ checkout[session.path] # Null
         /\ mine[p] = Null /\ mine'[p] \in Records /\ mine'[p] # Null
         /\ mine'[p].uuid = uuids + 1 /\ mine'[p].path = session.path /\ mine'[p].branch = ReattachedOn
         /\ mine'[p].base = session.base /\ mine'[p].pid = p
         /\ pc'[p] = "replacing"
         /\ \A q \in Processes : q # p => mine'[q] = mine[q] /\ pc'[q] = pc[q]
         /\ \A u \in Uuids : u = session.path => u \in contested' \/
              (~Contended(p, u) /\ \A r \in Recorded : r.path = u => r.uuid = session.uuid)
         /\ UNCHANGED <<main, branch, checkout, registry, lock, todo, release, session, work, atRisk, orphans>>
<1> DEFINE b == ReattachedOn
           r == Recreated(p, session.path, b)
<1>0. uuids + 1 \in Uuids /\ uuids \in 0..MaxUuids /\ uuids < MaxUuids /\ uuids \in Nat
  <2>1. uuids < MaxUuids
    BY DEF Reattach
  <2>2. uuids \in 0..MaxUuids
    BY DEF TypeInv, WorktreesTypeOK
  <2> QED BY <2>1, <2>2, WorktreesAssumption DEF Uuids
<1>1. session \in Records /\ session.path \in Uuids /\ session.branch \in Branches
  BY RecordFields DEF Reattach, TypeInv, WorktreesTypeOK
<1>2. b \in Branches
  BY <1>1 DEF Reattach, TypeInv, WorktreesTypeOK, Checkouts, ReattachedOn
<1>3. r \in Records /\ r.pid = p /\ r.uuid = uuids + 1 /\ r.path = session.path /\ r.branch = b /\ r.base = session.base
  BY <1>0, <1>1, <1>2, RecreatedRecord
<1>4. /\ mine' = [mine EXCEPT ![p] = r] /\ uuids' = uuids + 1
      /\ pc' = [pc EXCEPT ![p] = "replacing"] /\ pc[p] = "up"
      /\ session # Null /\ checkout[session.path] # Null
      /\ UNCHANGED <<main, branch, checkout, registry, lock, todo, release, session, work, atRisk, orphans>>
  BY DEF Reattach, repository, ReattachedOn
<1>7. \A u \in Uuids : u = session.path => u \in contested' \/
        (~Contended(p, u) /\ \A x \in Recorded : x.path = u => x.uuid = session.uuid)
  BY DEF Reattach
<1> HIDE DEF b, r
<1>5. mine[p] = Null /\ r # Null
  BY <1>3, <1>4, RecordFields DEF TypeInv, BusyHasRecord, Busy, Holders
<1>6. /\ mine'[p] = r /\ pc'[p] = "replacing"
      /\ \A q \in Processes : q # p => mine'[q] = mine[q] /\ pc'[q] = pc[q]
  BY <1>4 DEF TypeInv, WorktreesTypeOK
<1> QED BY <1>0, <1>1, <1>2, <1>3, <1>4, <1>5, <1>6, <1>7 DEF b

\* A record of the workflow changes hands, and AdoptOther forgets the session's.
LEMMA AdoptResult ==
  ASSUME TypeInv, NEW p \in Processes, Adopt(p) \/ AdoptOther(p)
  PROVE  \E s \in Known :
           /\ pc[p] = "up" /\ lock = Null /\ mine[p] = Null /\ pc'[p] = "working"
           /\ s # Null /\ registry[s.uuid] = s /\ s.uuid \in Uuids /\ s.path \in Uuids
           /\ checkout[s.path] # Null /\ Take(p, s.path)
           /\ mine'[p] \in Records /\ mine'[p] # Null
           /\ Same(mine'[p], s) /\ mine'[p].pid = p
           /\ registry'[s.uuid] = mine'[p]
           /\ \A u \in Uuids : u # s.uuid => registry'[u] = registry[u] \/
                (AdoptOther(p) /\ session # Null /\ u = session.uuid /\ checkout[session.path] = Null /\ registry'[u] = Null)
           /\ \A q \in Processes : q # p => mine'[q] = mine[q] /\ pc'[q] = pc[q]
           /\ UNCHANGED <<main, branch, checkout, lock, todo, release, session, uuids, work, atRisk, orphans>>
<1> DEFINE s == Latest(Reusable)
           r == Adopted(p, s)
<1>1. Reusable # {} /\ lock = Null
  BY DEF Adopt, AdoptOther
<1>2. s \in Records /\ s # Null /\ registry[s.uuid] = s /\ checkout[s.path] # Null /\ s.uuid \in Uuids /\ s.path \in Uuids
  BY <1>1, LatestReusable, RecordFields DEF TypeInv
<1>3. s \in Known
  BY <1>2 DEF Known
<1>4. r \in Records /\ r # Null /\ Same(r, s) /\ r.pid = p /\ r.uuid = s.uuid
  BY <1>2, AdoptedRecord, RecordFields DEF Same
<1>5. /\ mine' = [mine EXCEPT ![p] = r] /\ pc' = [pc EXCEPT ![p] = "working"] /\ pc[p] = "up"
      /\ UNCHANGED <<main, branch, checkout, lock, todo, release, session, uuids, work, atRisk, orphans>>
  BY DEF Adopt, AdoptOther, repository, counters
<1>9. Take(p, s.path)
  <2>1. s.path = r.path
    BY <1>4 DEF Same
  <2>2. Take(p, r.path)
    BY DEF Adopt, AdoptOther
  <2> HIDE DEF s, r
  <2> QED BY <2>1, <2>2
<1>6. /\ registry'[s.uuid] = r
      /\ \A u \in Uuids : u # s.uuid => registry'[u] = registry[u] \/
           (AdoptOther(p) /\ session # Null /\ u = session.uuid /\ checkout[session.path] = Null /\ registry'[u] = Null)
  <2>1. CASE Adopt(p)
    <3>1. registry' = [registry EXCEPT ![r.uuid] = r]
      BY <2>1 DEF Adopt
    <3> HIDE DEF r, s
    <3> QED BY <1>2, <1>4, <3>1 DEF TypeInv, WorktreesTypeOK
  <2>2. CASE AdoptOther(p)
    <3>1. registry' = [u \in Uuids |-> IF u = r.uuid THEN r ELSE IF u = session.uuid THEN Null ELSE registry[u]]
          /\ session # Null /\ checkout[session.path] = Null
      BY <2>2 DEF AdoptOther
    <3> HIDE DEF r, s
    <3> QED BY <1>2, <1>4, <2>2, <3>1
  <2> QED BY <2>1, <2>2
<1> HIDE DEF s, r
<1>7. mine[p] = Null
  BY <1>5 DEF TypeInv, BusyHasRecord, Busy, Holders
<1>8. /\ mine'[p] = r /\ pc'[p] = "working"
      /\ \A q \in Processes : q # p => mine'[q] = mine[q] /\ pc'[q] = pc[q]
  BY <1>5 DEF TypeInv, WorktreesTypeOK
<1> QED BY <1>1, <1>2, <1>3, <1>4, <1>5, <1>6, <1>7, <1>8, <1>9

\* A step of a release already begun keeps its record, or abandons it.
Continues(p) ==
  CommitDirty(p) \/ Inspect(p) \/ CountAhead(p) \/ RemoveWorktree(p) \/ DropBranch(p) \/ DropMissing(p) \/ DiscardRecord(p) \/ GiveUp(p)

LEMMA ContinuesResult ==
  ASSUME TypeInv, NEW p \in Processes, Continues(p)
  PROVE  /\ release[p] # Null
         /\ \A q \in Processes : release'[q] # Null =>
              release[q] # Null /\ release'[q].record = release[q].record /\ (q # p => release'[q] = release[q])
         /\ \A u \in Uuids : registry'[u] # Null => registry'[u] = registry[u]
         /\ UNCHANGED <<main, pc, mine, todo, session, uuids, work>>
<1>0. release[p] # Null /\ release[p] \in Releases /\ release \in [Processes -> {Null} \cup Releases]
  BY ReleaseFields DEF Continues, CommitDirty, Inspect, CountAhead, RemoveWorktree, DropBranch, DropMissing, DiscardRecord, GiveUp, At,
     TypeInv, WorktreesTypeOK
<1>1. \/ release' = [release EXCEPT ![p] = Null]
      \/ \E step : Advance(p, step)
      \/ \E rel \in Releases : release' = [release EXCEPT ![p] = rel] /\ rel.record = release[p].record
  <2>1. CASE Inspect(p)
    BY <2>1, InspectResult DEF Inspect, Abandon
  <2>2. CASE CountAhead(p)
    BY <2>2, CountResult
  <2>3. CASE ~ Inspect(p) /\ ~ CountAhead(p)
    BY <2>3 DEF Continues, CommitDirty, RemoveWorktree, DropBranch, DropMissing, DiscardRecord, GiveUp, Abandon
  <2> QED BY <2>1, <2>2, <2>3
<1>2. \A q \in Processes : release'[q] # Null =>
        release[q] # Null /\ release'[q].record = release[q].record /\ (q # p => release'[q] = release[q])
  <2>1. CASE release' = [release EXCEPT ![p] = Null]
    BY <1>0, <2>1
  <2>2. ASSUME NEW step, Advance(p, step) PROVE release'[p].record = release[p].record
                                             /\ \A q \in Processes : q # p => release'[q] = release[q]
    <3>1. release' = [release EXCEPT ![p] = [release[p] EXCEPT !.step = step]]
      BY <2>2 DEF Advance
    <3> QED BY <1>0, <3>1 DEF Releases
  <2>3. ASSUME NEW rel \in Releases, release' = [release EXCEPT ![p] = rel], rel.record = release[p].record
        PROVE  release'[p].record = release[p].record /\ \A q \in Processes : q # p => release'[q] = release[q]
    BY <1>0, <2>3
  <2> QED BY <1>0, <1>1, <2>1, <2>2, <2>3
<1>3. \A u \in Uuids : registry'[u] # Null => registry'[u] = registry[u]
  BY DEF Continues, CommitDirty, Inspect, CountAhead, RemoveWorktree, DropBranch, DropMissing, DiscardRecord, GiveUp, TypeInv, WorktreesTypeOK
<1>4. UNCHANGED <<main, pc, mine, todo, session, uuids, work>>
  BY DEF Continues, CommitDirty, Inspect, CountAhead, RemoveWorktree, DropBranch, DropMissing, DiscardRecord, GiveUp, repository, counters
<1> QED BY <1>0, <1>2, <1>3, <1>4

\* The agent, and the user.
Edits(p) == Write(p) \/ Commit(p) \/ Detach(p) \/ SwitchBranch(p)

\* Processes begin and end.
Schedules(p) == Start(p) \/ Cleanup(p) \/ Exit(p) \/ Released(p) \/ Crash(p)

Saves(p) == SaveRecord(p) \/ ReplaceRecord(p) \/ SaveSession(p)
Adopts(p) == Adopt(p) \/ AdoptOther(p)
Creates(p) == AddWorktree(p) \/ Rebuild(p) \/ Reattach(p)
Begins(p) == \E r \in todo[p] : BeginRelease(p, r)

LEMMA NextSplit ==
  ASSUME Next
  PROVE  \/ \E p \in Processes : Continues(p) \/ Edits(p) \/ Schedules(p) \/ Saves(p) \/ Adopts(p) \/ Creates(p) \/ Begins(p)
         \/ \E b \in Branches : Merge(b)
BY DEF Next, Step, Continues, Edits, Schedules, Saves, Adopts, Creates, Begins

LEMMA BeginsResult ==
  ASSUME TypeInv, NEW p \in Processes, Begins(p)
  PROVE  \E r \in todo[p] :
           /\ \A q \in Processes : todo'[q] \subseteq todo[q]
           /\ \A q \in Processes : q # p => release'[q] = release[q]
           /\ release'[p] # Null /\ release'[p].record = r
           /\ release'[p].step \in {"drop", "dropMissing", "discard"} => checkout[r.path] = Null
           /\ UNCHANGED <<main, branch, checkout, registry, lock, pc, mine, session, uuids, work, orphans, contested>>
<1>1. PICK r \in todo[p] : BeginRelease(p, r)
  BY DEF Begins
<1>2. PICK rel \in Releases :
        /\ release' = [release EXCEPT ![p] = rel] /\ todo' = [todo EXCEPT ![p] = @ \ {r}]
        /\ rel.record = r
        /\ UNCHANGED <<main, branch, checkout, registry, lock, pc, mine, session, uuids, work, orphans, contested>>
        /\ rel.step \in {"drop", "dropMissing", "discard"} => checkout[r.path] = Null
  BY <1>1, BeginResult
<1>3. rel # Null
  BY <1>2, WorktreesAssumption
<1> QED BY <1>1, <1>2, <1>3 DEF TypeInv, WorktreesTypeOK

LEMMA WriteResult ==
  ASSUME TypeInv, NEW p \in Processes, Write(p)
  PROVE  /\ Here(p) /\ work' = work + 1 /\ branch' = branch
         /\ checkout'[mine[p].path] # Null
         /\ checkout'[mine[p].path].head = checkout[mine[p].path].head
         /\ checkout'[mine[p].path].at = checkout[mine[p].path].at
         /\ checkout'[mine[p].path].dirty = checkout[mine[p].path].dirty \cup {work + 1}
         /\ \A u \in Uuids : u # mine[p].path => checkout'[u] = checkout[u]
<1> DEFINE u == mine[p].path
           c == [checkout[u] EXCEPT !.dirty = @ \cup {work + 1}]
<1>1. u \in Uuids /\ checkout[u] \in Checkouts /\ checkout[u] # Null
  BY HerePath DEF Write
<1>2. work + 1 \in Works
  BY WorktreesAssumption DEF Write, TypeInv, WorktreesTypeOK, Works
<1>3. c \in Checkouts /\ c.head = checkout[u].head /\ c.at = checkout[u].at /\ c.dirty = checkout[u].dirty \cup {work + 1}
  BY <1>1, <1>2 DEF Checkouts
<1>4. checkout' = [checkout EXCEPT ![u] = c] /\ Here(p) /\ work' = work + 1 /\ branch' = branch
  BY DEF Write
<1>5. c # Null
  BY <1>3, WorktreesAssumption
<1> HIDE DEF c
<1> QED BY <1>1, <1>3, <1>4, <1>5 DEF TypeInv, WorktreesTypeOK

LEMMA DetachResult ==
  ASSUME TypeInv, NEW p \in Processes, Detach(p)
  PROVE  /\ Here(p) /\ branch' = branch /\ work' = work /\ checkout[mine[p].path].head # Detached
         /\ checkout'[mine[p].path] # Null
         /\ checkout'[mine[p].path].head = Detached
         /\ checkout'[mine[p].path].at = Head(mine[p].path)
         /\ checkout'[mine[p].path].dirty = checkout[mine[p].path].dirty
         /\ \A u \in Uuids : u # mine[p].path => checkout'[u] = checkout[u]
<1> DEFINE u == mine[p].path
           c == [[checkout[u] EXCEPT !.head = Detached] EXCEPT !.at = Head(u)]
<1>1. u \in Uuids /\ checkout[u] \in Checkouts /\ checkout[u] # Null
  BY HerePath DEF Detach
<1>2. Head(u) \in SUBSET Works
  BY <1>1, HeadTyped DEF TypeInv
<1>3. c \in Checkouts /\ c.head = Detached /\ c.at = Head(u) /\ c.dirty = checkout[u].dirty
  BY <1>1, <1>2 DEF Checkouts
<1>4. checkout' = [checkout EXCEPT ![u] = c] /\ Here(p) /\ branch' = branch /\ work' = work /\ checkout[u].head # Detached
  BY DEF Detach, counters
<1>5. c # Null
  BY <1>3, WorktreesAssumption
<1> HIDE DEF c
<1> QED BY <1>1, <1>3, <1>4, <1>5 DEF TypeInv, WorktreesTypeOK

LEMMA SwitchResult ==
  ASSUME TypeInv, NEW p \in Processes, SwitchBranch(p)
  PROVE  /\ Here(p) /\ work' = work /\ <<"agent", mine[p].path>> \in Branches
         /\ branch[<<"agent", mine[p].path>>] = Null
         /\ branch'[<<"agent", mine[p].path>>] = Head(mine[p].path)
         /\ \A b \in Branches : b # <<"agent", mine[p].path>> => branch'[b] = branch[b]
         /\ checkout'[mine[p].path] # Null
         /\ checkout'[mine[p].path].head = <<"agent", mine[p].path>>
         /\ checkout'[mine[p].path].at = {}
         /\ checkout'[mine[p].path].dirty = checkout[mine[p].path].dirty
         /\ \A u \in Uuids : u # mine[p].path => checkout'[u] = checkout[u]
<1> DEFINE u == mine[p].path
           b == <<"agent", u>>
           c == [[checkout[u] EXCEPT !.head = b] EXCEPT !.at = {}]
<1>1. u \in Uuids /\ checkout[u] \in Checkouts /\ checkout[u] # Null /\ b \in Branches
  BY HerePath DEF SwitchBranch, Branches
<1>3. c \in Checkouts /\ c.head = b /\ c.at = {} /\ c.dirty = checkout[u].dirty
  BY <1>1 DEF Checkouts
<1>4. /\ checkout' = [checkout EXCEPT ![u] = c] /\ Here(p) /\ work' = work
      /\ branch[b] = Null /\ branch' = [branch EXCEPT ![b] = Head(u)]
  BY DEF SwitchBranch, counters
<1>5. c # Null
  BY <1>3, WorktreesAssumption
<1> HIDE DEF c, b
<1>6. /\ checkout'[u] = c /\ \A v \in Uuids : v # u => checkout'[v] = checkout[v]
      /\ branch'[b] = Head(u) /\ \A d \in Branches : d # b => branch'[d] = branch[d]
  BY <1>1, <1>4 DEF TypeInv, WorktreesTypeOK
<1> QED BY <1>1, <1>3, <1>4, <1>5, <1>6 DEF b

LEMMA EditsResult ==
  ASSUME TypeInv, NEW p \in Processes, Edits(p)
  PROVE  /\ Here(p) /\ UNCHANGED <<main, registry, lock, pc, mine, todo, release, session, uuids>>
         /\ \A u \in Uuids : checkout'[u] # Null <=> checkout[u] # Null
         /\ \A u \in Uuids : u # mine[p].path => checkout'[u] = checkout[u]
<1>1. Here(p) /\ UNCHANGED <<main, registry, lock, pc, mine, todo, release, session, uuids>>
  BY DEF Edits, Write, Commit, Detach, SwitchBranch, processes, counters
<1>2. mine[p].path \in Uuids /\ checkout[mine[p].path] # Null
  BY <1>1, HerePath
<1>3. checkout'[mine[p].path] # Null /\ \A u \in Uuids : u # mine[p].path => checkout'[u] = checkout[u]
  <2>1. CASE Commit(p)
    BY <1>2, <2>1, CommitResult DEF Commit, TypeInv
  <2> QED BY <2>1, WriteResult, DetachResult, SwitchResult DEF Edits
<1> QED BY <1>1, <1>2, <1>3

-----------------------------------------------------------------------------
(* What is known.                                                          *)

LEMMA ContinuesKnown ==
  ASSUME TypeInv, NEW p \in Processes, Continues(p)
  PROVE  \A r \in Known' : r \in Known
BY ContinuesResult, RecordsTyped, KnownFrom DEF TypeInv

LEMMA EditsKnown ==
  ASSUME TypeInv, NEW p \in Processes, Edits(p)
  PROVE  \A r \in Known' : r \in Known
BY EditsResult, RecordsTyped, KnownFrom DEF TypeInv

LEMMA MergeKnown ==
  ASSUME TypeInv, NEW b \in Branches, Merge(b)
  PROVE  \A r \in Known' : r \in Known
BY RecordsTyped, KnownFrom DEF Merge, processes, counters, TypeInv

LEMMA BeginsKnown ==
  ASSUME TypeInv, NEW p \in Processes, Begins(p)
  PROVE  \A r \in Known' : r \in Known
<1>1. PICK r \in todo[p] :
        /\ \A q \in Processes : todo'[q] \subseteq todo[q]
        /\ \A q \in Processes : q # p => release'[q] = release[q]
        /\ release'[p].record = r
        /\ UNCHANGED <<registry, mine, session>>
  BY BeginsResult
<1>2. r \in Known
  BY RecordsTyped DEF TypeInv
<1> QED BY <1>1, <1>2, RecordsTyped, KnownFrom DEF TypeInv

LEMMA SchedulesKnown ==
  ASSUME TypeInv, NEW p \in Processes, Schedules(p)
  PROVE  \A r \in Known' : r \in Known
<1>1. UNCHANGED <<registry, session>>
  BY DEF Schedules, Start, Cleanup, Exit, Released, Crash, counters
<1>2. \A q \in Processes : release'[q] # Null => release'[q] = release[q]
  BY DEF Schedules, Start, Cleanup, Exit, Released, Crash, TypeInv, WorktreesTypeOK
<1>3. \A q \in Processes : mine'[q] # Null => mine'[q] = mine[q]
  BY DEF Schedules, Start, Cleanup, Exit, Released, Crash, TypeInv, WorktreesTypeOK
<1>4. \A r \in Recorded : r \in Known
  BY RecordsTyped DEF Recorded, TypeInv
<1>5. \A q \in Processes : \A r \in todo'[q] : r \in todo[q] \/ r \in Recorded \/ (r = mine[p] /\ mine[p] # Null)
  <2>1. CASE Start(p) \/ Exit(p)
    <3>1. \E left \in SUBSET Recorded : todo' = [todo EXCEPT ![p] = left]
      BY <2>1 DEF Start, Exit, TypeInv, WorktreesTypeOK
    <3> QED BY <3>1 DEF TypeInv, WorktreesTypeOK
  <2>2. CASE Cleanup(p)
    <3>1. mine[p] # Null /\ todo' = [todo EXCEPT ![p] = {mine[p]}]
      BY <2>2 DEF Cleanup, TypeInv, BusyHasRecord, Busy, Holders
    <3> QED BY <3>1 DEF TypeInv, WorktreesTypeOK
  <2>3. CASE Released(p) \/ Crash(p)
    BY <2>3 DEF Released, Crash, TypeInv, WorktreesTypeOK
  <2> QED BY <2>1, <2>2, <2>3 DEF Schedules
<1> QED BY <1>1, <1>2, <1>3, <1>4, <1>5, RecordsTyped, KnownFrom DEF TypeInv

\* What a process writes to the registry.
LEMMA SavesResult ==
  ASSUME TypeInv, NEW p \in Processes, Saves(p)
  PROVE  /\ mine[p] \in Records /\ mine[p] # Null /\ mine[p].uuid \in Uuids /\ mine[p].pid = p
         /\ SaveRecord(p) => /\ pc[p] = "adding" /\ pc'[p] = "working" /\ registry'[mine[p].uuid] = mine[p]
                             /\ \A u \in Uuids : u # mine[p].uuid => registry'[u] = registry[u]
                             /\ session' = session /\ lock' = Null
         /\ ReplaceRecord(p) => /\ pc[p] = "replacing" /\ pc'[p] = "working" /\ registry'[mine[p].uuid] = mine[p]
                                /\ \A u \in Uuids : u # mine[p].uuid =>
                                     registry'[u] = IF u = session.uuid THEN Null ELSE registry[u]
                                /\ session' = session /\ lock' = lock
         /\ SaveSession(p) => /\ pc[p] = "working" /\ session = Null /\ session' = mine[p]
                              /\ UNCHANGED <<pc, registry, lock>>
         /\ \A q \in Processes : q # p => pc'[q] = pc[q]
         /\ UNCHANGED <<main, branch, checkout, mine, todo, release, uuids, work>>
<1>1. mine[p] \in Records /\ mine[p] # Null /\ mine[p].uuid \in Uuids /\ mine[p].pid = p
  BY RecordFields DEF Saves, SaveRecord, ReplaceRecord, SaveSession, TypeInv, BusyHasRecord, Busy, Holders, WorktreesTypeOK
<1>2. UNCHANGED <<main, branch, checkout, mine, todo, release, uuids, work>>
      /\ \A q \in Processes : q # p => pc'[q] = pc[q]
  BY DEF Saves, SaveRecord, ReplaceRecord, SaveSession, repository, processes, counters, TypeInv, WorktreesTypeOK
<1>3. CASE SaveRecord(p)
  BY <1>1, <1>2, <1>3 DEF SaveRecord, ReplaceRecord, SaveSession, counters, TypeInv, WorktreesTypeOK
<1>4. CASE ReplaceRecord(p)
  <2>1. /\ registry' = [[registry EXCEPT ![session.uuid] = Null] EXCEPT ![mine[p].uuid] = mine[p]]
        /\ pc[p] = "replacing" /\ pc' = [pc EXCEPT ![p] = "working"]
        /\ UNCHANGED <<session, lock>>
    BY <1>4 DEF ReplaceRecord, counters
  <2>2. ~ SaveRecord(p) /\ ~ SaveSession(p)
    BY <2>1 DEF SaveRecord, SaveSession
  <2>3. /\ registry'[mine[p].uuid] = mine[p] /\ pc'[p] = "working"
        /\ \A u \in Uuids : u # mine[p].uuid => registry'[u] = IF u = session.uuid THEN Null ELSE registry[u]
    BY <1>1, <2>1 DEF TypeInv, WorktreesTypeOK
  <2> QED BY <1>1, <1>2, <2>1, <2>2, <2>3
<1>5. CASE SaveSession(p)
  BY <1>1, <1>2, <1>5 DEF SaveRecord, ReplaceRecord, SaveSession, processes
<1> QED BY <1>3, <1>4, <1>5 DEF Saves

LEMMA SavesKnown ==
  ASSUME TypeInv, NEW p \in Processes, Saves(p)
  PROVE  \A r \in Known' : r \in Known
<1>1. \A u \in Uuids : registry'[u] # Null => registry'[u] \in Known
  BY SavesResult, RecordsTyped DEF Saves, TypeInv
<1>2. session' # Null => session' \in Known
  BY SavesResult, RecordsTyped DEF Saves, TypeInv
<1> QED BY <1>1, <1>2, SavesResult, RecordsTyped, KnownFrom DEF TypeInv

LEMMA AdoptsKnown ==
  ASSUME TypeInv, NEW p \in Processes, Adopts(p)
  PROVE  \A r \in Known' : Old(p, r)
<1>1. PICK s \in Known :
        /\ s.uuid \in Uuids /\ Same(mine'[p], s) /\ mine'[p].pid = p /\ registry'[s.uuid] = mine'[p]
        /\ \A u \in Uuids : u # s.uuid => registry'[u] = registry[u] \/ registry'[u] = Null
        /\ \A q \in Processes : q # p => mine'[q] = mine[q]
        /\ UNCHANGED <<todo, release, session>>
  BY AdoptResult DEF Adopts
<1>2. Old(p, mine'[p])
  BY <1>1 DEF Old
<1> DEFINE S == Known \cup {mine'[p]}
<1>3. \A r \in Known' : r \in S
  <2>1. \A u \in Uuids : registry'[u] # Null => registry'[u] \in S
    BY <1>1, RecordsTyped DEF TypeInv
  <2>2. \A q \in Processes : mine'[q] # Null => mine'[q] \in S
    BY <1>1, RecordsTyped DEF TypeInv
  <2> HIDE DEF S
  <2>3. Known \subseteq S
    BY DEF S
  <2> QED BY <1>1, <2>1, <2>2, <2>3, RecordsTyped, KnownFrom DEF TypeInv
<1> QED BY <1>2, <1>3, KnownIsOld

LEMMA CreatesKnown ==
  ASSUME TypeInv, NEW p \in Processes, Creates(p)
  PROVE  \A r \in Known' : r \in Known \/ r = mine'[p]
<1>1. /\ \A q \in Processes : q # p => mine'[q] = mine[q]
      /\ UNCHANGED <<registry, todo, release, session>>
  BY AddResult, RebuildResult, ReattachResult DEF Creates
<1> DEFINE S == Known \cup {mine'[p]}
<1>2. \A r \in Known' : r \in S
  <2>1. \A q \in Processes : mine'[q] # Null => mine'[q] \in S
    BY <1>1, RecordsTyped DEF TypeInv
  <2> HIDE DEF S
  <2>2. Known \subseteq S
    BY DEF S
  <2> QED BY <1>1, <2>1, <2>2, RecordsTyped, KnownFrom DEF TypeInv
<1> QED BY <1>2

-----------------------------------------------------------------------------
(* Ids.                                                                    *)

\* A started process is never new again.
LEMMA StartedStays ==
  ASSUME TypeInv, [Next]_vars
  PROVE  \A q \in Processes : pc[q] # "new" => pc'[q] # "new"
<1>1. CASE UNCHANGED vars
  BY <1>1 DEF vars, processes
<1>2. ASSUME NEW p \in Processes, Continues(p) \/ Edits(p) \/ Saves(p) \/ Adopts(p) \/ Creates(p)
      PROVE  \A q \in Processes : pc[q] # "new" => pc'[q] # "new"
  BY <1>2, ContinuesResult, EditsResult, SavesResult, AdoptResult, AddResult, RebuildResult, ReattachResult
     DEF Saves, Adopts, Creates
<1>3. ASSUME NEW p \in Processes, Schedules(p) \/ Begins(p)
      PROVE  \A q \in Processes : pc[q] # "new" => pc'[q] # "new"
  BY <1>3 DEF Schedules, Begins, BeginRelease, Start, Cleanup, Exit, Released, Crash, TypeInv, WorktreesTypeOK
<1>4. ASSUME NEW b \in Branches, Merge(b)
      PROVE  \A q \in Processes : pc[q] # "new" => pc'[q] # "new"
  BY <1>4 DEF Merge, processes
<1> QED BY <1>1, <1>2, <1>3, <1>4, NextSplit

\* No new id: the records are old ones.
LEMMA IdsKept ==
  ASSUME TypeInv, IdsStand, NEW p \in Processes, [Next]_vars,
         uuids' = uuids, pc'[p] # "new", TypeInv',
         \A r \in Known' : Old(p, r),
         \A u \in Uuids : checkout'[u] # Null => checkout[u] # Null
  PROVE  IdsStand'
<1>1. \A r \in Known' : r.uuid <= uuids' /\ r.path <= uuids' /\ pc'[r.pid] # "new"
  <2> SUFFICES ASSUME NEW r \in Known' PROVE r.uuid <= uuids' /\ r.path <= uuids' /\ pc'[r.pid] # "new"
    OBVIOUS
  <2>1. PICK s \in Known : Same(r, s) /\ r.pid \in {s.pid, p}
    BY DEF Old
  <2>2. s.pid \in Processes
    BY RecordFields DEF Known
  <2> QED BY <2>1, <2>2, StartedStays DEF IdsStand, Same
<1>2. \A r, s \in Known' : r.uuid = s.uuid => r.path = s.path
  BY DEF IdsStand, Old, Same
<1>3. \A u \in Uuids : checkout'[u] # Null => u <= uuids'
  BY DEF IdsStand
<1> QED BY <1>1, <1>2, <1>3 DEF IdsStand

\* The next id is given to a new record.
LEMMA IdsExtended ==
  ASSUME TypeInv, IdsStand, NEW p \in Processes, Creates(p)
  PROVE  IdsStand'
<1>1. /\ \A r \in Known' : r \in Known \/ r = mine'[p]
      /\ mine'[p].uuid = uuids + 1 /\ mine'[p].pid = p /\ uuids' = uuids + 1 /\ uuids \in Nat
      /\ pc'[p] # "new" /\ \A q \in Processes : q # p => pc'[q] = pc[q]
  BY CreatesKnown, AddResult, RebuildResult, ReattachResult DEF Creates
<1>2. mine'[p].path = uuids + 1 \/ (session # Null /\ session \in Known /\ mine'[p].path = session.path)
  BY AddResult, RebuildResult, ReattachResult, RecordsTyped DEF Creates, TypeInv
<1>3. \A r \in Known : r.uuid \in Nat /\ r.path \in Nat /\ r.pid \in Processes
  BY RecordFields DEF Known, Uuids
<1>4. mine'[p].path <= uuids + 1
  BY <1>1, <1>2, <1>3 DEF IdsStand
<1>5. \A r \in Known' : r.uuid <= uuids' /\ r.path <= uuids' /\ pc'[r.pid] # "new"
  BY <1>1, <1>3, <1>4 DEF IdsStand
<1>6. \A r \in Known : r.uuid # mine'[p].uuid
  BY <1>1, <1>3 DEF IdsStand
<1>7. \A r, s \in Known' : r.uuid = s.uuid => r.path = s.path
  BY <1>1, <1>6 DEF IdsStand
<1>8. \A u \in Uuids : checkout'[u] # Null => checkout[u] # Null \/ u = uuids + 1
  BY AddResult, RebuildResult, ReattachResult DEF Creates
<1>9. \A u \in Uuids : checkout'[u] # Null => u <= uuids'
  BY <1>1, <1>8 DEF IdsStand, Uuids
<1> QED BY <1>5, <1>7, <1>9 DEF IdsStand

-----------------------------------------------------------------------------
(* No checkout leaks.                                                      *)

LEMMA ContinuesCheckouts ==
  ASSUME TypeInv, NEW p \in Processes, Continues(p)
  PROVE  \A u \in Uuids : checkout'[u] # Null => checkout[u] # Null
<1>1. CASE CommitDirty(p) /\ checkout[Path(p)] # Null /\ checkout[Path(p)].dirty # {}
  <2>1. CommitAll(Path(p)) /\ Path(p) \in Uuids
    BY <1>1, ContinuesResult, ReleaseFields DEF CommitDirty
  <2>2. \A v \in Uuids : v # Path(p) => checkout'[v] = checkout[v]
    BY <1>1, <2>1, CommitResult DEF TypeInv
  <2> QED BY <1>1, <2>2
<1>2. CASE CommitDirty(p) /\ ~ (checkout[Path(p)] # Null /\ checkout[Path(p)].dirty # {})
  BY <1>2 DEF CommitDirty
<1>3. CASE ~ CommitDirty(p)
  BY <1>3 DEF Continues, Inspect, CountAhead, RemoveWorktree, DropBranch, DropMissing, DiscardRecord, GiveUp, repository,
     TypeInv, WorktreesTypeOK
<1> QED BY <1>1, <1>2, <1>3

LEMMA IdsStep == ASSUME TypeInv, IdsStand, [Next]_vars PROVE IdsStand'
<1>0. TypeInv'
  BY TypeKept
<1>1. CASE UNCHANGED vars
  BY <1>1 DEF IdsStand, Known, vars, repository, processes, counters
<1>2. ASSUME NEW p \in Processes, Creates(p) PROVE IdsStand'
  BY <1>2, IdsExtended
<1>3. ASSUME NEW p \in Processes, Adopts(p) PROVE IdsStand'
  <2>1. uuids' = uuids /\ checkout' = checkout /\ pc'[p] # "new"
    BY <1>3, AdoptResult DEF Adopts
  <2> QED BY <1>0, <1>3, <2>1, AdoptsKnown, IdsKept
<1>4. ASSUME NEW p \in Processes, \A r \in Known' : r \in Known, uuids' = uuids, pc'[p] # "new",
             \A u \in Uuids : checkout'[u] # Null => checkout[u] # Null
      PROVE  IdsStand'
  BY <1>0, <1>4, KnownIsOld, IdsKept
<1>5. ASSUME NEW p \in Processes, Continues(p) PROVE IdsStand'
  <2>1. \A u \in Uuids : checkout'[u] # Null => checkout[u] # Null
    BY <1>5, ContinuesCheckouts
  <2>2. pc'[p] # "new"
    BY <1>5, ContinuesResult, ReleaseFields
  <2> QED BY <1>4, <1>5, <2>1, <2>2, ContinuesKnown, ContinuesResult
<1>6. ASSUME NEW p \in Processes, Edits(p) PROVE IdsStand'
  BY <1>4, <1>6, EditsKnown, EditsResult DEF Here
<1>7. ASSUME NEW p \in Processes, Schedules(p) PROVE IdsStand'
  <2>1. uuids' = uuids /\ checkout' = checkout /\ pc'[p] # "new"
    BY <1>7 DEF Schedules, Start, Cleanup, Exit, Released, Crash, repository, counters, TypeInv, WorktreesTypeOK
  <2> QED BY <1>4, <1>7, <2>1, SchedulesKnown
<1>8. ASSUME NEW p \in Processes, Saves(p) PROVE IdsStand'
  BY <1>4, <1>8, SavesKnown, SavesResult DEF Saves
<1>9. ASSUME NEW p \in Processes, Begins(p) PROVE IdsStand'
  <2>1. uuids' = uuids /\ checkout' = checkout /\ pc'[p] # "new"
    BY <1>9 DEF Begins, BeginRelease, repository, counters, TypeInv, WorktreesTypeOK
  <2> QED BY <1>4, <1>9, <2>1, BeginsKnown
<1>10. ASSUME NEW b \in Branches, Merge(b) PROVE IdsStand'
  <2>1. uuids' = uuids /\ checkout' = checkout /\ pc' = pc
    BY <1>10 DEF Merge, processes, counters
  <2>2. \A r \in Known' : r \in Known
    BY <1>10, MergeKnown
  <2> QED BY <2>1, <2>2 DEF IdsStand
<1> QED BY <1>1, <1>2, <1>3, <1>5, <1>6, <1>7, <1>8, <1>9, <1>10, NextSplit

\* A checkout appears under the next uuid, and only there.
LEMMA CheckoutsAppear ==
  ASSUME TypeInv, [Next]_vars
  PROVE  \A u \in Uuids : checkout'[u] # Null => checkout[u] # Null \/ (u = uuids + 1 /\ \E p \in Processes : Creates(p) /\ mine'[p].path = u)
<1>1. CASE UNCHANGED vars
  BY <1>1 DEF vars, repository
<1>2. ASSUME NEW p \in Processes, Creates(p)
      PROVE  \A u \in Uuids : checkout'[u] # Null => checkout[u] # Null \/ (u = uuids + 1 /\ mine'[p].path = u)
  BY <1>2, AddResult, RebuildResult, ReattachResult DEF Creates
<1>3. ASSUME NEW p \in Processes, Continues(p)
      PROVE  \A u \in Uuids : checkout'[u] # Null => checkout[u] # Null
  BY <1>3, ContinuesCheckouts
<1>4. ASSUME NEW p \in Processes, Edits(p) PROVE \A u \in Uuids : checkout'[u] # Null => checkout[u] # Null
  BY <1>4, EditsResult
<1>5. ASSUME NEW p \in Processes, Adopts(p) \/ Saves(p) PROVE checkout' = checkout
  BY <1>5, AdoptResult, SavesResult DEF Adopts, Saves
<1>6. ASSUME NEW p \in Processes, Schedules(p) \/ Begins(p) PROVE checkout' = checkout
  BY <1>6 DEF Schedules, Start, Cleanup, Exit, Released, Crash, Begins, BeginRelease, repository
<1>7. ASSUME NEW b \in Branches, Merge(b) PROVE checkout' = checkout
  BY <1>7 DEF Merge
<1> QED BY <1>1, <1>2, <1>3, <1>4, <1>5, <1>6, <1>7, NextSplit

\* The path of a record that is known, once gone, stays gone.
LEMMA GoneStays ==
  ASSUME TypeInv, IdsStand, [Next]_vars, NEW r \in Known, checkout[r.path] = Null
  PROVE  checkout'[r.path] = Null
<1>1. r.path \in Uuids /\ r.path <= uuids /\ uuids \in Nat
  BY RecordFields, WorktreesAssumption DEF Known, IdsStand, TypeInv, WorktreesTypeOK
<1>2. r.path # uuids + 1
  BY <1>1 DEF Uuids
<1> QED BY <1>1, <1>2, CheckoutsAppear

LEMMA GoneStep == ASSUME TypeInv, IdsStand, GoneForGood, [Next]_vars PROVE GoneForGood'
<1> DEFINE Past == {"drop", "dropMissing", "discard"}
<1>1. ASSUME NEW q \in Processes, release'[q] # Null, release'[q].step \in Past,
             release[q] # Null /\ release[q].step \in Past /\ release'[q].record = release[q].record
      PROVE  checkout'[release'[q].record.path] = Null
  <2>1. checkout[release[q].record.path] = Null
    BY <1>1 DEF GoneForGood
  <2>2. release[q].record \in Known
    BY <1>1, RecordsTyped DEF TypeInv
  <2> QED BY <1>1, <2>1, <2>2, GoneStays
<1>2. CASE release' = release
  BY <1>1, <1>2 DEF GoneForGood
<1>3. ASSUME NEW p \in Processes, Continues(p) PROVE GoneForGood'
  <2> SUFFICES ASSUME NEW q \in Processes, release'[q] # Null, release'[q].step \in Past
               PROVE  checkout'[release'[q].record.path] = Null
    BY DEF GoneForGood
  <2>1. release[q] # Null /\ release'[q].record = release[q].record /\ (q # p => release'[q] = release[q])
    BY <1>3, ContinuesResult
  <2>2. CASE release[q].step \in Past
    BY <1>1, <2>1, <2>2
  <2>3. CASE release[q].step \notin Past
    <3>1. q = p /\ release[p] \in Releases
      BY <2>1, <2>3, ReleaseFields
    <3>0. ~ Inspect(p) /\ ~ CountAhead(p)
      <4>1. ASSUME Inspect(p) PROVE FALSE
        <5>1. checkout[Path(p)] = Null => release'[p] = Null
          BY <4>1 DEF Inspect, Abandon, TypeInv, WorktreesTypeOK
        <5>2. checkout[Path(p)] # Null => release'[p].step = "count"
          BY <4>1, InspectResult DEF TypeInv, WorktreesTypeOK
        <5> QED BY <2>1, <3>1, <5>1, <5>2
      <4>2. ASSUME CountAhead(p) PROVE FALSE
        <5>1. release'[p].step = "remove"
          BY <4>2, CountResult DEF TypeInv, WorktreesTypeOK
        <5> QED BY <3>1, <5>1
      <4> QED BY <4>1, <4>2
    <3>2. RemoveWorktree(p) /\ checkout[Path(p)] # Null
      BY <3>0, <1>3, <2>1, <2>3, <3>1 DEF Continues, CommitDirty, RemoveWorktree, DropBranch, DropMissing, DiscardRecord, GiveUp,
         At, Abandon, Advance, TypeInv, WorktreesTypeOK, Releases
    <3> QED BY <2>1, <3>1, <3>2, ReleaseFields DEF RemoveWorktree, Path, TypeInv, WorktreesTypeOK
  <2> QED BY <2>2, <2>3
<1>4. ASSUME NEW p \in Processes, Begins(p) PROVE GoneForGood'
  <2>2. PICK r \in todo[p] :
          /\ \A q \in Processes : q # p => release'[q] = release[q]
          /\ release'[p].record = r
          /\ release'[p].step \in Past => checkout[r.path] = Null
          /\ checkout' = checkout
    BY <1>4, BeginsResult
  <2> QED BY <1>1, <2>2 DEF GoneForGood
<1>5. ASSUME NEW p \in Processes, Schedules(p) PROVE GoneForGood'
  <2>1. \A q \in Processes : release'[q] # Null => release'[q] = release[q]
    BY <1>5 DEF Schedules, Start, Cleanup, Exit, Released, Crash, TypeInv, WorktreesTypeOK
  <2> QED BY <1>1, <2>1 DEF GoneForGood
<1>6. ASSUME NEW p \in Processes, Edits(p) \/ Saves(p) \/ Adopts(p) \/ Creates(p) PROVE release' = release
  BY <1>6, EditsResult, SavesResult, AdoptResult, AddResult, RebuildResult, ReattachResult DEF Saves, Adopts, Creates
<1>7. ASSUME NEW b \in Branches, Merge(b) PROVE release' = release
  BY <1>7 DEF Merge, processes
<1>8. CASE UNCHANGED vars
  BY <1>2, <1>8 DEF vars, processes
<1> QED BY <1>2, <1>3, <1>4, <1>5, <1>6, <1>7, <1>8, NextSplit

\* The record of a session is saved once.
LEMMA SessionStays ==
  ASSUME TypeInv, [Next]_vars, session # Null
  PROVE  session' = session
<1>1. ASSUME NEW p \in Processes, Continues(p) \/ Edits(p) \/ Saves(p) \/ Adopts(p) \/ Creates(p) PROVE session' = session
  BY <1>1, ContinuesResult, EditsResult, SavesResult, AdoptResult, AddResult, RebuildResult, ReattachResult
     DEF Saves, Adopts, Creates
<1>2. ASSUME NEW p \in Processes, Schedules(p) \/ Begins(p) PROVE session' = session
  BY <1>2 DEF Schedules, Begins, BeginRelease, Start, Cleanup, Exit, Released, Crash, counters
<1>3. ASSUME NEW b \in Branches, Merge(b) PROVE session' = session
  BY <1>3 DEF Merge, counters
<1>4. CASE UNCHANGED vars
  BY <1>4 DEF vars, counters
<1> QED BY <1>1, <1>2, <1>3, <1>4, NextSplit

\* A process that has made a checkout saves its record, or dies.
Making == {"adding", "replacing"}

LEMMA MakingBegins ==
  ASSUME TypeInv, [Next]_vars, NEW q \in Processes, pc'[q] \in Making
  PROVE  Creates(q) \/ (pc'[q] = pc[q] /\ mine'[q] = mine[q])
<1>1. ASSUME NEW p \in Processes, Continues(p) \/ Edits(p) \/ Saves(p) \/ Adopts(p) \/ Creates(p)
      PROVE  Creates(q) \/ (pc'[q] = pc[q] /\ mine'[q] = mine[q])
  BY <1>1, ContinuesResult, EditsResult, SavesResult, AdoptResult, AddResult, RebuildResult, ReattachResult
     DEF Saves, Adopts, Creates, Making
<1>2. ASSUME NEW p \in Processes, Schedules(p) \/ Begins(p) PROVE pc'[q] = pc[q] /\ mine'[q] = mine[q]
  BY <1>2 DEF Schedules, Begins, BeginRelease, Start, Cleanup, Exit, Released, Crash, TypeInv, WorktreesTypeOK, Making
<1>3. ASSUME NEW b \in Branches, Merge(b) PROVE pc'[q] = pc[q] /\ mine'[q] = mine[q]
  BY <1>3 DEF Merge, processes
<1>4. CASE UNCHANGED vars
  BY <1>4 DEF vars, processes
<1> QED BY <1>1, <1>2, <1>3, <1>4, NextSplit

LEMMA MakingEnds ==
  ASSUME TypeInv, [Next]_vars, NEW q \in Processes, pc[q] \in Making
  PROVE  \/ pc'[q] = pc[q] /\ mine'[q] = mine[q]
         \/ SaveRecord(q) \/ ReplaceRecord(q)
         \/ Crash(q)
<1>1. ASSUME NEW p \in Processes, Continues(p) \/ Edits(p) \/ Adopts(p) \/ Creates(p)
      PROVE  pc'[q] = pc[q] /\ mine'[q] = mine[q]
  BY <1>1, ContinuesResult, EditsResult, AdoptResult, AddResult, RebuildResult, ReattachResult
     DEF Adopts, Creates, Making, Here
<1>2. ASSUME NEW p \in Processes, Saves(p)
      PROVE  SaveRecord(q) \/ ReplaceRecord(q) \/ (pc'[q] = pc[q] /\ mine'[q] = mine[q])
  BY <1>2, SavesResult DEF Saves
<1>3. ASSUME NEW p \in Processes, Schedules(p) \/ Begins(p)
      PROVE  Crash(q) \/ (pc'[q] = pc[q] /\ mine'[q] = mine[q])
  BY <1>3 DEF Schedules, Begins, BeginRelease, Start, Cleanup, Exit, Released, Crash, TypeInv, WorktreesTypeOK, Making
<1>4. ASSUME NEW b \in Branches, Merge(b) PROVE pc'[q] = pc[q] /\ mine'[q] = mine[q]
  BY <1>4 DEF Merge, processes
<1>5. CASE UNCHANGED vars
  BY <1>5 DEF vars, processes
<1> QED BY <1>1, <1>2, <1>3, <1>4, <1>5, NextSplit

LEMMA ReplacesStep ==
  ASSUME TypeInv, IdsStand, ReplacesSession, [Next]_vars
  PROVE  ReplacesSession'
<1> SUFFICES ASSUME NEW q \in Processes, pc'[q] = "replacing"
             PROVE  /\ session' # Null /\ session'.uuid # mine'[q].uuid
                    /\ mine'[q].path = session'.path \/ checkout'[session'.path] = Null
  BY DEF ReplacesSession
<1>1. CASE pc'[q] = pc[q] /\ mine'[q] = mine[q]
  <2>1. session # Null /\ session.uuid # mine[q].uuid /\ (mine[q].path = session.path \/ checkout[session.path] = Null)
    BY <1>1 DEF ReplacesSession
  <2>2. session' = session /\ session \in Known
    BY <2>1, SessionStays, RecordsTyped DEF TypeInv
  <2> QED BY <1>1, <2>1, <2>2, GoneStays
<1>2. CASE Creates(q)
  <2>1. /\ session # Null /\ session' = session /\ mine'[q].uuid = uuids + 1 /\ uuids \in Nat
        /\ mine'[q].path = session.path \/ checkout[session.path] = Null
    BY <1>2, AddResult, RebuildResult, ReattachResult DEF Creates
  <2>2. session \in Known /\ session.uuid \in Nat /\ session.uuid <= uuids
    BY <2>1, RecordsTyped, RecordFields DEF TypeInv, IdsStand, Known, Uuids
  <2> QED BY <2>1, <2>2, GoneStays
<1> QED BY <1>1, <1>2, MakingBegins DEF Making

\* A record is only removed when its checkout is gone, another one replaces
\* it, or its checkout becomes an orphan.
LEMMA RecordsStay ==
  ASSUME LeakInv, [Next]_vars, NEW u \in Uuids, registry[u] # Null, checkout'[registry[u].path] # Null,
         registry[u].path \notin orphans'
  PROVE  \E v \in Uuids : registry'[v] # Null /\ registry'[v].path = registry[u].path
<1> USE DEF LeakInv
<1>0. registry[u] \in Known /\ registry[u].uuid = u
  BY RecordsTyped DEF TypeInv, WorktreesTypeOK
<1>1. checkout[registry[u].path] # Null
  BY <1>0, GoneStays
<1>2. CASE registry' = registry
  BY <1>2
<1>3. ASSUME NEW p \in Processes, Adopts(p)
      PROVE  \E v \in Uuids : registry'[v] # Null /\ registry'[v].path = registry[u].path
  <2>1. PICK s \in Known :
          /\ registry[s.uuid] = s /\ s.uuid \in Uuids /\ Same(mine'[p], s) /\ registry'[s.uuid] = mine'[p] /\ mine'[p] # Null
          /\ \A v \in Uuids : v # s.uuid => registry'[v] = registry[v] \/
               (session # Null /\ v = session.uuid /\ checkout[session.path] = Null)
    BY <1>3, AdoptResult DEF Adopts
  <2>2. CASE u = s.uuid
    BY <2>1, <2>2 DEF Same
  <2>3. CASE u # s.uuid
    <3>1. session # Null => session \in Known
      BY RecordsTyped DEF TypeInv
    <3>2. session # Null /\ u = session.uuid => session.path = registry[u].path
      BY <1>0, <3>1 DEF IdsStand
    <3> QED BY <1>1, <2>1, <2>3, <3>2
  <2> QED BY <2>2, <2>3
<1>4. ASSUME NEW p \in Processes, Saves(p)
      PROVE  \E v \in Uuids : registry'[v] # Null /\ registry'[v].path = registry[u].path
  <2>1. mine[p] # Null /\ mine[p].uuid \in Uuids /\ mine[p] \in Known
    BY <1>4, SavesResult, RecordsTyped DEF TypeInv
  <2>2. mine[p].uuid = u => mine[p].path = registry[u].path
    BY <1>0, <2>1 DEF IdsStand
  <2>3. CASE SaveRecord(p)
    BY <1>4, <2>1, <2>2, <2>3, SavesResult
  <2>4. CASE ReplaceRecord(p)
    <3>1. session # Null /\ session \in Known /\ (mine[p].path = session.path \/ checkout[session.path] = Null)
      BY <1>4, <2>4, SavesResult, RecordsTyped DEF ReplacesSession, TypeInv
    <3>2. u = session.uuid => session.path = registry[u].path
      BY <1>0, <3>1 DEF IdsStand
    <3> QED BY <1>1, <1>4, <2>1, <2>2, <2>4, <3>1, <3>2, SavesResult
  <2>5. CASE SaveSession(p)
    BY <1>2, <1>4, <2>5, SavesResult
  <2> QED BY <1>4, <2>3, <2>4, <2>5 DEF Saves
<1>5. ASSUME NEW p \in Processes, Continues(p)
      PROVE  \E v \in Uuids : registry'[v] # Null /\ registry'[v].path = registry[u].path
  <2>1. CASE DiscardRecord(p)
    <3>1. /\ release[p] # Null /\ release[p].record \in Known
          /\ checkout[release[p].record.path] = Null \/ release[p].record.path \in orphans'
      BY <2>1, RecordsTyped DEF DiscardRecord, At, Path, GoneForGood, TypeInv
    <3>2. u # release[p].record.uuid
      BY <1>0, <1>1, <3>1 DEF IdsStand
    <3>3. registry'[u] = registry[u]
      BY <2>1, <3>2 DEF DiscardRecord, TypeInv, WorktreesTypeOK
    <3> QED BY <3>3
  <2>2. CASE ~ DiscardRecord(p)
    BY <1>2, <1>5, <2>2 DEF Continues, CommitDirty, Inspect, CountAhead, RemoveWorktree, DropBranch, DropMissing, GiveUp
  <2> QED BY <2>1, <2>2
<1>6. ASSUME NEW p \in Processes, Edits(p) \/ Creates(p) PROVE registry' = registry
  BY <1>6, EditsResult, AddResult, RebuildResult, ReattachResult DEF Creates
<1>7. ASSUME NEW p \in Processes, Schedules(p) \/ Begins(p) PROVE registry' = registry
  BY <1>7 DEF Schedules, Begins, BeginRelease, Start, Cleanup, Exit, Released, Crash
<1>8. ASSUME NEW b \in Branches, Merge(b) PROVE registry' = registry
  BY <1>8 DEF Merge
<1>9. CASE UNCHANGED vars
  BY <1>2, <1>9 DEF vars
<1> QED BY <1>2, <1>3, <1>4, <1>5, <1>6, <1>7, <1>8, <1>9, NextSplit

LEMMA LeakInit == ASSUME Init PROVE LeakInv /\ NothingLeaks
<1>1. Known = {}
  BY RecordFields DEF Init, Known
<1>2. IdsStand /\ GoneForGood /\ ReplacesSession
  BY <1>1 DEF Init, IdsStand, GoneForGood, ReplacesSession
<1>3. NothingLeaks
  BY DEF Init, NothingLeaks
<1> QED BY <1>2, <1>3, TypeInit DEF LeakInv

LEMMA LeakKept == ASSUME LeakInv, [Next]_vars PROVE LeakInv'
BY TypeKept, IdsStep, GoneStep, ReplacesStep DEF LeakInv

LEMMA LeaksStep == ASSUME LeakInv, NothingLeaks, [Next]_vars PROVE NothingLeaks'
<1> USE DEF LeakInv
<1> DEFINE Held(u) == \/ \E v \in Uuids : registry'[v] # Null /\ registry'[v].path = u
                      \/ \E p \in Processes : pc'[p] \in Making /\ mine'[p].uuid = mine'[p].path /\ mine'[p].path = u
<1> SUFFICES ASSUME NEW u \in Uuids, u \notin orphans', checkout'[u] # Null
             PROVE  Held(u)
  BY DEF NothingLeaks, Recorded, Making, Unrecorded
<1>1. u \notin orphans
  BY HistoryGrows DEF Grows
<1>2. CASE checkout[u] # Null
  <2>1. CASE \E v \in Uuids : registry[v] # Null /\ registry[v].path = u
    BY <2>1, RecordsStay
  <2>2. ASSUME NEW p \in Processes, Unrecorded(p), mine[p].path = u
        PROVE  Held(u)
    <3>1. CASE SaveRecord(p) \/ ReplaceRecord(p)
      <4>1. mine[p] # Null /\ mine[p].uuid \in Uuids /\ registry'[mine[p].uuid] = mine[p]
        BY <3>1, SavesResult DEF Saves
      <4> QED BY <2>2, <4>1
    <3>2. ~ Crash(p)
      BY <2>2 DEF Crash
    <3> QED BY <2>2, <3>1, <3>2, MakingEnds DEF Unrecorded, Making
  <2> QED BY <1>1, <1>2, <2>1, <2>2 DEF NothingLeaks, Recorded
<1>3. CASE checkout[u] = Null
  <2>1. PICK p \in Processes : Creates(p) /\ mine'[p].path = u /\ u = uuids + 1
    BY <1>3, CheckoutsAppear
  <2>2. mine'[p].uuid = uuids + 1 /\ pc'[p] \in Making
    BY <2>1, AddResult, RebuildResult, ReattachResult DEF Creates, Making
  <2> QED BY <2>1, <2>2
<1> QED BY <1>2, <1>3

\* The variables of the manager and of the processes stay well-formed,
\* whatever meets: a release is only in progress, or due, in a process that is
\* sweeping, cleaning up or exiting.
THEOREM WorktreesTypes == Spec => []WorktreesTypeOK
<1>1. Init => TypeInv
  BY TypeInit
<1>2. TypeInv /\ [Next]_vars => TypeInv'
  BY TypeKept
<1>3. TypeInv => WorktreesTypeOK
  BY DEF TypeInv
<1> QED BY <1>1, <1>2, <1>3, PTL DEF Spec

\* Nothing leaks: whenever a process dies, gives up or fails, every checkout
\* that is left has a record a later sweep will find, but for those of a
\* process that died between git worktree add and the registry, and those a
\* release disowned because git did not answer.
THEOREM CheckoutsAreRecorded == Spec => []NothingLeaks
<1>1. Init => LeakInv /\ NothingLeaks
  BY LeakInit
<1>2. (LeakInv /\ NothingLeaks) /\ [Next]_vars => (LeakInv /\ NothingLeaks)'
  BY LeakKept, LeaksStep
<1> QED BY <1>1, <1>2, PTL DEF Spec

-----------------------------------------------------------------------------
(* Who has a checkout.                                                     *)

\* A process comes to hold a checkout by taking or making it.
LEMMA HoldersBegin ==
  ASSUME TypeInv, [Next]_vars, NEW q \in Processes, pc'[q] \in Holders
  PROVE  \/ Creates(q) \/ Adopts(q)
         \/ (SaveRecord(q) \/ ReplaceRecord(q)) /\ mine'[q] = mine[q] /\ pc[q] \in Making
         \/ pc'[q] = pc[q] /\ mine'[q] = mine[q]
<1>1. ASSUME NEW p \in Processes, Continues(p) \/ Edits(p) \/ Saves(p) \/ Adopts(p) \/ Creates(p)
      PROVE  \/ Creates(q) \/ Adopts(q)
             \/ (SaveRecord(q) \/ ReplaceRecord(q)) /\ mine'[q] = mine[q] /\ pc[q] \in Making
             \/ pc'[q] = pc[q] /\ mine'[q] = mine[q]
  BY <1>1, ContinuesResult, EditsResult, SavesResult, AdoptResult, AddResult, RebuildResult, ReattachResult
     DEF Saves, Adopts, Creates, Making
<1>2. ASSUME NEW p \in Processes, Schedules(p) \/ Begins(p) PROVE pc'[q] = pc[q] /\ mine'[q] = mine[q]
  BY <1>2 DEF Schedules, Begins, BeginRelease, Start, Cleanup, Exit, Released, Crash, TypeInv, WorktreesTypeOK, Holders
<1>3. ASSUME NEW b \in Branches, Merge(b) PROVE pc'[q] = pc[q] /\ mine'[q] = mine[q]
  BY <1>3 DEF Merge, processes
<1>4. CASE UNCHANGED vars
  BY <1>4 DEF vars, processes
<1> QED BY <1>1, <1>2, <1>3, <1>4, NextSplit

LEMMA MineBegins ==
  ASSUME TypeInv, [Next]_vars, NEW q \in Processes, mine'[q] # Null
  PROVE  Creates(q) \/ Adopts(q) \/ mine'[q] = mine[q]
<1>1. ASSUME NEW p \in Processes, Continues(p) \/ Edits(p) \/ Saves(p) \/ Adopts(p) \/ Creates(p)
      PROVE  Creates(q) \/ Adopts(q) \/ mine'[q] = mine[q]
  BY <1>1, ContinuesResult, EditsResult, SavesResult, AdoptResult, AddResult, RebuildResult, ReattachResult
     DEF Saves, Adopts, Creates
<1>2. ASSUME NEW p \in Processes, Schedules(p) \/ Begins(p) PROVE mine'[q] = mine[q]
  BY <1>2 DEF Schedules, Begins, BeginRelease, Start, Cleanup, Exit, Released, Crash, TypeInv, WorktreesTypeOK
<1>3. ASSUME NEW b \in Branches, Merge(b) PROVE mine'[q] = mine[q]
  BY <1>3 DEF Merge, processes
<1>4. CASE UNCHANGED vars
  BY <1>4 DEF vars, processes
<1> QED BY <1>1, <1>2, <1>3, <1>4, NextSplit

\* The path of a new uuid is nobody's.
LEMMA FreshPath ==
  ASSUME TypeInv, IdsStand, NEW r \in Known
  PROVE  r.path # uuids + 1 /\ r.uuid # uuids + 1
<1>1. r.path \in Nat /\ r.uuid \in Nat /\ r.path <= uuids /\ r.uuid <= uuids /\ uuids \in Nat
  BY RecordFields, WorktreesAssumption DEF Known, IdsStand, Uuids, TypeInv, WorktreesTypeOK
<1> QED BY <1>1

\* What is taken is free, or contested.
LEMMA TakenIsFree ==
  ASSUME LeakInv, NEW p \in Processes, Creates(p) \/ Adopts(p)
  PROVE  /\ mine'[p] # Null /\ checkout'[mine'[p].path] # Null
         /\ mine'[p].path \notin contested' =>
              /\ \A q \in Processes : q # p /\ mine[q] # Null => mine[q].path # mine'[p].path
              /\ \A q \in Processes : \A r \in todo[q] : r.path # mine'[p].path
              /\ \A q \in Processes : release[q] # Null => release[q].record.path # mine'[p].path
         /\ \A q \in Processes : q # p => mine'[q] = mine[q] /\ pc'[q] = pc[q]
         /\ todo' = todo /\ release' = release
<1> USE DEF LeakInv
<1>1. ASSUME NEW path, ~Contended(p, path)
      PROVE  /\ \A q \in Processes : q # p /\ mine[q] # Null => mine[q].path # path
             /\ \A q \in Processes : \A r \in todo[q] : r.path # path
             /\ \A q \in Processes : release[q] # Null => release[q].record.path # path
  <2>1. \A r \in Releasing : r.path # path
    BY <1>1 DEF Contended
  <2>2. \A q \in Processes : \A r \in todo[q] : r \in Releasing
    BY DEF Releasing
  <2>3. \A q \in Processes : release[q] # Null => release[q].record \in Releasing
    BY DEF Releasing
  <2> QED BY <1>1, <2>1, <2>2, <2>3 DEF Contended
<1>2. CASE Adopts(p)
  <2>1. PICK s \in Known :
          /\ checkout[s.path] # Null /\ Take(p, s.path) /\ mine'[p] # Null /\ Same(mine'[p], s)
          /\ \A q \in Processes : q # p => mine'[q] = mine[q] /\ pc'[q] = pc[q]
          /\ UNCHANGED <<checkout, todo, release>>
    BY <1>2, AdoptResult DEF Adopts
  <2>2. mine'[p].path = s.path
    BY <2>1 DEF Same
  <2>3. s.path \notin contested' => ~Contended(p, s.path)
    BY <2>1 DEF Take
  <2> QED BY <1>1, <2>1, <2>2, <2>3
<1>3. CASE Reattach(p)
  <2>1. /\ mine'[p] # Null /\ mine'[p].path = session.path /\ checkout[session.path] # Null
        /\ \A q \in Processes : q # p => mine'[q] = mine[q] /\ pc'[q] = pc[q]
        /\ UNCHANGED <<checkout, todo, release>>
        /\ session.path \notin contested' => ~Contended(p, session.path)
    BY <1>3, ReattachResult
  <2> QED BY <1>1, <2>1
<1>4. CASE AddWorktree(p) \/ Rebuild(p)
  <2>1. /\ mine'[p] # Null /\ mine'[p].path = uuids + 1 /\ checkout'[uuids + 1] # Null
        /\ \A q \in Processes : q # p => mine'[q] = mine[q] /\ pc'[q] = pc[q]
        /\ todo' = todo /\ release' = release
    BY <1>4, AddResult, RebuildResult, FreshCheckout
  <2>2. /\ \A q \in Processes : mine[q] # Null => mine[q] \in Known
        /\ \A q \in Processes : \A r \in todo[q] : r \in Known
        /\ \A q \in Processes : release[q] # Null => release[q].record \in Known
    BY RecordsTyped DEF TypeInv
  <2> QED BY <2>1, <2>2, FreshPath
<1> QED BY <1>2, <1>3, <1>4 DEF Creates

LEMMA ExclusiveStep ==
  ASSUME LeakInv, Exclusive, [Next]_vars
  PROVE  Exclusive'
<1> USE DEF LeakInv
<1>0. contested \subseteq contested'
  BY HistoryGrows DEF Grows
<1>1. ASSUME NEW p \in Processes, Creates(p) \/ Adopts(p) PROVE Exclusive'
  BY <1>0, <1>1, TakenIsFree DEF Exclusive
<1>2. ASSUME \A p \in Processes : ~ (Creates(p) \/ Adopts(p)) PROVE Exclusive'
  BY <1>0, <1>2, MineBegins DEF Exclusive
<1> QED BY <1>1, <1>2

LEMMA OneRecordStep ==
  ASSUME OwnerInv, [Next]_vars
  PROVE  OneRecord'
<1> USE DEF OwnerInv, LeakInv
<1>0. contested \subseteq contested'
  BY HistoryGrows DEF Grows
<1>1. ASSUME \A u \in Uuids : registry'[u] # Null => registry[u] # Null /\ registry'[u].path = registry[u].path
      PROVE  OneRecord'
  BY <1>0, <1>1 DEF OneRecord
<1>2. ASSUME NEW p \in Processes, Adopts(p) PROVE OneRecord'
  <2>1. PICK s \in Known :
          /\ s # Null /\ registry[s.uuid] = s /\ s.uuid \in Uuids /\ Same(mine'[p], s) /\ registry'[s.uuid] = mine'[p]
          /\ \A u \in Uuids : u # s.uuid => registry'[u] = registry[u] \/ registry'[u] = Null
    BY <1>2, AdoptResult DEF Adopts
  <2>2. \A u \in Uuids : registry'[u] # Null => registry[u] # Null /\ registry'[u].path = registry[u].path
    BY <2>1 DEF Same
  <2> QED BY <1>1, <2>2
<1>3. ASSUME NEW p \in Processes, Saves(p) PROVE OneRecord'
  <2>1. mine[p] # Null /\ mine[p].uuid \in Uuids /\ RecordOf(p)
    BY <1>3, SavesResult
  <2>2. CASE SaveRecord(p)
    <3>1. /\ registry'[mine[p].uuid] = mine[p] /\ \A u \in Uuids : u # mine[p].uuid => registry'[u] = registry[u]
          /\ mine[p].path \notin contested => \A u \in Uuids : registry[u] # Null => registry[u].path # mine[p].path
      BY <1>3, <2>1, <2>2, SavesResult DEF RecordOf, Holds, Holders
    <3> QED BY <1>0, <2>1, <3>1 DEF OneRecord
  <2>3. CASE ReplaceRecord(p)
    <3>1. /\ registry'[mine[p].uuid] = mine[p]
          /\ \A u \in Uuids : u # mine[p].uuid => registry'[u] = IF u = session.uuid THEN Null ELSE registry[u]
          /\ mine[p].path \notin contested =>
               \A u \in Uuids : registry[u] # Null /\ registry[u].path = mine[p].path => u = session.uuid
      BY <1>3, <2>1, <2>3, SavesResult DEF RecordOf, Holds, Holders
    <3> QED BY <1>0, <2>1, <3>1 DEF OneRecord
  <2>4. CASE SaveSession(p)
    BY <1>1, <1>3, <2>4, SavesResult
  <2> QED BY <1>3, <2>2, <2>3, <2>4 DEF Saves
<1>4. ASSUME NEW p \in Processes, Continues(p) PROVE OneRecord'
  BY <1>1, <1>4, ContinuesResult
<1>5. ASSUME NEW p \in Processes, Edits(p) \/ Creates(p) PROVE registry' = registry
  BY <1>5, EditsResult, AddResult, RebuildResult, ReattachResult DEF Creates
<1>6. ASSUME NEW p \in Processes, Schedules(p) \/ Begins(p) PROVE registry' = registry
  BY <1>6 DEF Schedules, Begins, BeginRelease, Start, Cleanup, Exit, Released, Crash
<1>7. ASSUME NEW b \in Branches, Merge(b) PROVE registry' = registry
  BY <1>7 DEF Merge
<1>8. ASSUME registry' = registry PROVE OneRecord'
  BY <1>1, <1>8
<1>9. CASE UNCHANGED vars
  BY <1>8, <1>9 DEF vars
<1> QED BY <1>2, <1>3, <1>4, <1>5, <1>6, <1>7, <1>8, <1>9, NextSplit

\* What falls due for release, and of whom.
LEMMA DueRecords ==
  ASSUME TypeInv, [Next]_vars
  PROVE  \/ \A q \in Processes : \A r \in todo'[q] : r \in todo[q]
         \/ \E x \in Processes :
              /\ \A q \in Processes : q # x => todo'[q] = todo[q]
              /\ pc'[x] \notin Holders /\ UNCHANGED <<checkout, registry, release>>
              /\ \A q \in Processes : q # x => pc'[q] = pc[q] /\ mine'[q] = mine[q]
              /\ \/ Cleanup(x) /\ mine[x] # Null /\ todo'[x] = {mine[x]}
                 \/ Start(x) /\ \A r \in todo'[x] : r \in Recorded /\ ~Alive(r.pid)
                 \/ Exit(x) /\ \A r \in todo'[x] : r \in Recorded /\ r.pid = x
<1>1. ASSUME NEW x \in Processes, Start(x) \/ Exit(x) \/ Cleanup(x)
      PROVE  /\ \A q \in Processes : q # x => todo'[q] = todo[q]
             /\ pc'[x] \notin Holders /\ UNCHANGED <<checkout, registry, release>>
             /\ \A q \in Processes : q # x => pc'[q] = pc[q] /\ mine'[q] = mine[q]
  BY <1>1 DEF Start, Exit, Cleanup, repository, TypeInv, WorktreesTypeOK, Holders
<1>2. ASSUME NEW x \in Processes, Cleanup(x) PROVE mine[x] # Null /\ todo'[x] = {mine[x]}
  BY <1>2 DEF Cleanup, TypeInv, WorktreesTypeOK, BusyHasRecord, Busy, Holders
<1>3. ASSUME NEW x \in Processes, Start(x) PROVE \A r \in todo'[x] : r \in Recorded /\ ~Alive(r.pid)
  BY <1>3 DEF Start, TypeInv, WorktreesTypeOK
<1>4. ASSUME NEW x \in Processes, Exit(x) PROVE \A r \in todo'[x] : r \in Recorded /\ r.pid = x
  BY <1>4 DEF Exit, TypeInv, WorktreesTypeOK
<1>5. ASSUME NEW x \in Processes, Released(x) \/ Crash(x) \/ Begins(x)
      PROVE  \A q \in Processes : \A r \in todo'[q] : r \in todo[q]
  <2>1. CASE Released(x)
    BY <2>1 DEF Released
  <2>2. CASE Crash(x)
    BY <2>2 DEF Crash, TypeInv, WorktreesTypeOK
  <2>3. CASE Begins(x)
    BY <2>3 DEF Begins, BeginRelease, TypeInv, WorktreesTypeOK
  <2> QED BY <1>5, <2>1, <2>2, <2>3
<1>6. ASSUME NEW x \in Processes, Continues(x) \/ Edits(x) \/ Saves(x) \/ Adopts(x) \/ Creates(x) PROVE todo' = todo
  BY <1>6, ContinuesResult, EditsResult, SavesResult, AdoptResult, AddResult, RebuildResult, ReattachResult
     DEF Saves, Adopts, Creates
<1>7. ASSUME NEW b \in Branches, Merge(b) PROVE todo' = todo
  BY <1>7 DEF Merge, processes
<1>8. CASE UNCHANGED vars
  BY <1>8 DEF vars, processes
<1> QED BY <1>1, <1>2, <1>3, <1>4, <1>5, <1>6, <1>7, <1>8, NextSplit DEF Schedules

\* A release begins with a record that is due.
LEMMA BegunRecords ==
  ASSUME TypeInv, [Next]_vars, NEW q \in Processes, release'[q] # Null
  PROVE  \/ release[q] # Null /\ release'[q].record = release[q].record
         \/ release'[q].record \in todo[q]
<1>1. ASSUME NEW x \in Processes, Begins(x)
      PROVE  (release[q] # Null /\ release'[q].record = release[q].record) \/ release'[q].record \in todo[q]
  BY <1>1, BeginsResult
<1>2. ASSUME NEW x \in Processes, Schedules(x) PROVE release'[q] = release[q]
  BY <1>2 DEF Schedules, Start, Cleanup, Exit, Released, Crash, TypeInv, WorktreesTypeOK
<1>3. ASSUME NEW x \in Processes, Edits(x) \/ Saves(x) \/ Adopts(x) \/ Creates(x) PROVE release' = release
  BY <1>3, EditsResult, SavesResult, AdoptResult, AddResult, RebuildResult, ReattachResult DEF Saves, Adopts, Creates
<1>4. ASSUME NEW b \in Branches, Merge(b) PROVE release' = release
  BY <1>4 DEF Merge, processes
<1>5. CASE UNCHANGED vars
  BY <1>5 DEF vars, processes
<1> QED BY <1>1, <1>2, <1>3, <1>4, <1>5, ContinuesResult, NextSplit

\* What a process at work has in the registry is all there is of its checkout.
LEMMA WorkersRecord ==
  ASSUME OwnerInv, NEW p \in Processes, Holds(p), pc[p] = "working", NEW u \in Uuids,
         registry[u] # Null, registry[u].path = mine[p].path
  PROVE  registry[u] = mine[p] /\ registry[u].pid = p
<1>1. mine[p] # Null /\ mine[p] \in Records /\ mine[p].uuid \in Uuids /\ mine[p].pid = p
  BY RecordFields DEF OwnerInv, LeakInv, TypeInv, BusyHasRecord, WorktreesTypeOK, Busy, Holders
<1>2. registry[mine[p].uuid] = mine[p]
  BY DEF OwnerInv, RecordOf
<1> QED BY <1>1, <1>2 DEF OwnerInv, OneRecord, Holds

LEMMA HoldersMine ==
  ASSUME OwnerInv, NEW p \in Processes, pc[p] \in Holders
  PROVE  mine[p] # Null /\ mine[p] \in Known /\ mine[p].pid = p /\ mine[p].uuid \in Uuids /\ mine[p].path \in Uuids
<1>1. mine[p] # Null /\ mine[p].pid = p
  BY DEF OwnerInv, LeakInv, TypeInv, BusyHasRecord, Busy
<1> QED BY <1>1, RecordsTyped, RecordFields DEF Known, OwnerInv, LeakInv, TypeInv

LEMMA NotReleasedStep ==
  ASSUME OwnerInv, [Next]_vars
  PROVE  NotReleased'
<1> SUFFICES ASSUME NEW p \in Processes, pc'[p] \in Holders, mine'[p].path \notin contested'
             PROVE  /\ checkout'[mine'[p].path] # Null
                    /\ \A q \in Processes :
                         /\ \A r \in todo'[q] : r.path # mine'[p].path
                         /\ release'[q] # Null => release'[q].record.path # mine'[p].path
  BY DEF NotReleased, Holds
<1> USE DEF OwnerInv, LeakInv
<1>0. contested \subseteq contested'
  BY HistoryGrows DEF Grows
<1>1. CASE Creates(p) \/ Adopts(p)
  BY <1>1, TakenIsFree
<1>2. CASE pc[p] \in Holders /\ mine'[p] = mine[p] /\ (pc[p] = "working" => pc'[p] = "working") /\ ~(Creates(p) \/ Adopts(p))
  <2>0. Holds(p)
    BY <1>0, <1>2 DEF Holds
  <2>1. /\ mine[p] # Null /\ mine[p].path \in Uuids /\ checkout[mine[p].path] # Null
        /\ \A q \in Processes : /\ \A r \in todo[q] : r.path # mine[p].path
                                /\ release[q] # Null => release[q].record.path # mine[p].path
    BY <1>2, <2>0, HoldersMine DEF NotReleased
  <2>2. checkout'[mine[p].path] # Null
    <3>1. ASSUME NEW x \in Processes, Continues(x) PROVE checkout'[mine[p].path] # Null
      <4>1. release[x] # Null /\ Path(x) \in Uuids /\ Path(x) # mine[p].path
        BY <2>1, <3>1, ContinuesResult, ReleaseFields DEF Path
      <4>2. CASE RemoveWorktree(x)
        BY <2>1, <4>1, <4>2 DEF RemoveWorktree, TypeInv, WorktreesTypeOK
      <4>3. CASE CommitDirty(x) /\ checkout[Path(x)] # Null /\ checkout[Path(x)].dirty # {}
        <5>1. CommitAll(Path(x))
          BY <4>3 DEF CommitDirty
        <5> QED BY <2>1, <4>1, <4>3, <5>1, CommitResult DEF TypeInv
      <4>4. CASE CommitDirty(x) /\ ~(checkout[Path(x)] # Null /\ checkout[Path(x)].dirty # {})
        BY <2>1, <4>4 DEF CommitDirty
      <4>5. CASE Inspect(x) \/ CountAhead(x) \/ DropBranch(x) \/ DropMissing(x) \/ DiscardRecord(x) \/ GiveUp(x)
        BY <2>1, <4>5 DEF Inspect, CountAhead, DropBranch, DropMissing, DiscardRecord, GiveUp, repository
      <4> QED BY <3>1, <4>2, <4>3, <4>4, <4>5 DEF Continues
    <3>2. ASSUME NEW x \in Processes, Edits(x) PROVE checkout'[mine[p].path] # Null
      BY <2>1, <3>2, EditsResult
    <3>3. ASSUME NEW x \in Processes, Creates(x) PROVE checkout'[mine[p].path] # Null
      <4>1. mine[p].path # uuids + 1
        BY <1>2, HoldersMine, FreshPath
      <4> QED BY <2>1, <3>3, <4>1, AddResult, RebuildResult, ReattachResult DEF Creates
    <3>4. ASSUME NEW x \in Processes, Saves(x) \/ Adopts(x) PROVE checkout' = checkout
      BY <3>4, SavesResult, AdoptResult DEF Saves, Adopts
    <3>5. ASSUME NEW x \in Processes, Schedules(x) \/ Begins(x) PROVE checkout' = checkout
      BY <3>5 DEF Schedules, Begins, BeginRelease, Start, Cleanup, Exit, Released, Crash, repository
    <3>6. ASSUME NEW b \in Branches, Merge(b) PROVE checkout' = checkout
      BY <3>6 DEF Merge
    <3>7. CASE UNCHANGED vars
      BY <2>1, <3>7 DEF vars, repository
    <3> QED BY <2>1, <3>1, <3>2, <3>3, <3>4, <3>5, <3>6, <3>7, NextSplit
  <2>3. ASSUME NEW q \in Processes, NEW r \in todo'[q] PROVE r.path # mine[p].path
    <3>1. CASE r \in todo[q]
      BY <2>1, <3>1
    <3>2. CASE r \notin todo[q]
      <4>1. PICK x \in Processes :
              /\ \A y \in Processes : y # x => todo'[y] = todo[y]
              /\ pc'[x] \notin Holders
              /\ \/ Cleanup(x) /\ mine[x] # Null /\ todo'[x] = {mine[x]}
                 \/ Start(x) /\ \A s \in todo'[x] : s \in Recorded /\ ~Alive(s.pid)
                 \/ Exit(x) /\ \A s \in todo'[x] : s \in Recorded /\ s.pid = x
        BY <3>2, DueRecords
      <4>2. x = q /\ x # p
        BY <3>2, <4>1
      <4>3. CASE Cleanup(x) /\ mine[x] # Null /\ todo'[x] = {mine[x]}
        BY <2>0, <2>1, <4>2, <4>3 DEF Exclusive, Holds
      <4>4. CASE r \in Recorded /\ ((Start(x) /\ ~Alive(r.pid)) \/ (Exit(x) /\ r.pid = x))
        <5> SUFFICES ASSUME r.path = mine[p].path PROVE FALSE
          OBVIOUS
        <5>1. PICK u \in Uuids : registry[u] = r /\ registry[u] # Null
          BY <4>4 DEF Recorded
        <5>2. CASE pc[p] = "working"
          BY <2>0, <4>2, <4>4, <5>1, <5>2, WorkersRecord DEF Alive
        <5>3. CASE pc[p] = "adding"
          BY <2>0, <5>1, <5>3 DEF RecordOf
        <5>4. CASE pc[p] = "replacing"
          <6>1. Overtake(x) /\ r \in todo'[x]
            BY <2>3, <4>2, <4>4 DEF Start, Exit
          <6>2. mine[p].path \in contested'
            BY <5>4, <6>1 DEF Overtake
          <6> QED BY <1>2, <6>2
        <5> QED BY <1>2, <5>2, <5>3, <5>4 DEF Holders
      <4>5. r \in todo'[x]
        BY <2>3, <4>2
      <4> QED BY <4>1, <4>3, <4>4, <4>5
    <3> QED BY <3>1, <3>2
  <2>4. ASSUME NEW q \in Processes, release'[q] # Null PROVE release'[q].record.path # mine[p].path
    BY <2>1, <2>4, BegunRecords
  <2> QED BY <1>2, <2>2, <2>3, <2>4
<1>3. CASE ~(Creates(p) \/ Adopts(p))
  <2>1. mine'[p] = mine[p] /\ (pc'[p] = pc[p] \/ pc[p] \in Making)
    BY <1>3, HoldersBegin
  <2> QED BY <1>2, <1>3, <2>1 DEF Making, Holders
<1> QED BY <1>1, <1>3

\* How the registry changes at the path of a process that stays where it is.
LEMMA RegistryElsewhere ==
  ASSUME OwnerInv, [Next]_vars, NEW p \in Processes, Holds(p), mine[p].path \notin contested',
         ~ Creates(p), ~ Adopts(p), ~ SaveRecord(p), ~ ReplaceRecord(p),
         NEW u \in Uuids, registry'[u] # registry[u]
  PROVE  /\ registry'[u] # Null => registry'[u].path # mine[p].path
         /\ u # mine[p].uuid \/ pc[p] # "working"
<1> USE DEF OwnerInv, LeakInv
<1>0. /\ mine[p] # Null /\ mine[p] \in Known /\ mine[p].path \in Uuids
      /\ checkout[mine[p].path] # Null
      /\ \A q \in Processes : release[q] # Null => release[q].record.path # mine[p].path
      /\ mine[p].path \notin contested
  BY HoldersMine DEF NotReleased, Holds
<1>1. ASSUME NEW x \in Processes, Adopts(x)
      PROVE  (registry'[u] # Null => registry'[u].path # mine[p].path) /\ u # mine[p].uuid
  <2>1. x # p
    BY <1>1
  <2>2. mine[p].path # mine'[x].path
    BY <1>0, <1>1, <2>1, TakenIsFree
  <2>3. PICK s \in Known :
          /\ Same(mine'[x], s) /\ registry'[s.uuid] = mine'[x]
          /\ \A v \in Uuids : v # s.uuid => registry'[v] = registry[v] \/
               (session # Null /\ v = session.uuid /\ checkout[session.path] = Null /\ registry'[v] = Null)
    BY <1>1, AdoptResult DEF Adopts
  <2>4. CASE u = s.uuid
    BY <1>0, <2>2, <2>3, <2>4 DEF Same, IdsStand
  <2>5. CASE u # s.uuid
    <3>1. session # Null /\ u = session.uuid /\ checkout[session.path] = Null /\ registry'[u] = Null
      BY <2>3, <2>5
    <3>2. session \in Known
      BY <3>1, RecordsTyped DEF TypeInv
    <3> QED BY <1>0, <3>1, <3>2 DEF IdsStand
  <2> QED BY <2>4, <2>5
<1>2. ASSUME NEW x \in Processes, Saves(x)
      PROVE  (registry'[u] # Null => registry'[u].path # mine[p].path) /\ (u # mine[p].uuid \/ pc[p] # "working")
  <2>0. SaveRecord(x) \/ ReplaceRecord(x)
    BY <1>2, SavesResult DEF Saves
  <2>1. x # p /\ mine[x] # Null /\ mine[x] \in Known
    BY <1>2, <2>0, SavesResult, RecordsTyped DEF TypeInv
  <2>2. mine[x].path # mine[p].path /\ mine[x].uuid # mine[p].uuid
    BY <1>0, <2>1 DEF Exclusive, IdsStand
  <2>3. CASE u = mine[x].uuid
    BY <1>2, <2>0, <2>2, <2>3, SavesResult
  <2>4. CASE u # mine[x].uuid
    <3>1. ReplaceRecord(x) /\ u = session.uuid /\ registry'[u] = Null
      BY <1>2, <2>0, <2>4, SavesResult
    <3>2. /\ session # Null /\ session \in Known
          /\ mine[x].path = session.path \/ checkout[session.path] = Null
      BY <1>2, <3>1, SavesResult, RecordsTyped DEF ReplacesSession, TypeInv
    <3>3. session.path # mine[p].path
      BY <1>0, <2>2, <3>2
    <3> QED BY <1>0, <3>1, <3>2, <3>3 DEF IdsStand
  <2> QED BY <2>3, <2>4
<1>3. ASSUME NEW x \in Processes, Continues(x)
      PROVE  (registry'[u] # Null => registry'[u].path # mine[p].path) /\ u # mine[p].uuid
  <2>1. DiscardRecord(x)
    BY <1>3 DEF Continues, CommitDirty, Inspect, CountAhead, RemoveWorktree, DropBranch, DropMissing, GiveUp
  <2>2. release[x] # Null /\ release[x].record \in Known /\ release[x].record.path # mine[p].path
    BY <1>0, <1>3, ContinuesResult, RecordsTyped DEF TypeInv
  <2>3. u = release[x].record.uuid /\ registry'[u] = Null
    BY <2>1 DEF DiscardRecord, TypeInv, WorktreesTypeOK
  <2> QED BY <1>0, <2>2, <2>3 DEF IdsStand
<1>4. ASSUME NEW x \in Processes, Edits(x) \/ Creates(x) PROVE FALSE
  BY <1>4, EditsResult, AddResult, RebuildResult, ReattachResult DEF Creates
<1>5. ASSUME NEW x \in Processes, Schedules(x) \/ Begins(x) PROVE FALSE
  BY <1>5 DEF Schedules, Begins, BeginRelease, Start, Cleanup, Exit, Released, Crash
<1>6. ASSUME NEW b \in Branches, Merge(b) PROVE FALSE
  BY <1>6 DEF Merge
<1>7. ~ UNCHANGED vars
  BY DEF vars
<1> QED BY <1>1, <1>2, <1>3, <1>4, <1>5, <1>6, <1>7, NextSplit

LEMMA RecordOfStep ==
  ASSUME OwnerInv, [Next]_vars, NEW p \in Processes
  PROVE  RecordOf(p)'
<1> USE DEF OwnerInv, LeakInv
<1> SUFFICES ASSUME Holds(p)' PROVE RecordOf(p)'
  BY DEF RecordOf
<1>9. pc'[p] \in Holders /\ mine'[p].path \notin contested' /\ contested \subseteq contested'
  BY HistoryGrows DEF Holds, Grows
<1>0. RecordOf(p)
  OBVIOUS
<1>1. CASE Adopts(p)
  BY <1>1, AdoptResult DEF Adopts, RecordOf, Same
<1>2. CASE SaveRecord(p) \/ ReplaceRecord(p)
  <2>1. pc'[p] = "working" /\ registry'[mine[p].uuid] = mine[p] /\ mine'[p] = mine[p]
    BY <1>2, SavesResult DEF Saves
  <2> QED BY <2>1 DEF RecordOf
<1>3. CASE AddWorktree(p) \/ Rebuild(p)
  <2>1. mine'[p].path = uuids + 1 /\ registry' = registry /\ pc'[p] # "working"
    BY <1>3, AddResult, RebuildResult
  <2>2. \A u \in Uuids : registry[u] # Null => registry[u].path # uuids + 1
    BY RecordsTyped, FreshPath DEF TypeInv
  <2> QED BY <2>1, <2>2 DEF RecordOf
<1>4. CASE Reattach(p)
  <2>1. /\ mine'[p].path = session.path /\ pc'[p] = "replacing" /\ session.path \in Uuids
        /\ \A r \in Recorded : r.path = session.path => r.uuid = session.uuid
        /\ UNCHANGED <<registry, session>>
    BY <1>4, <1>9, ReattachResult
  <2>2. \A u \in Uuids : registry[u] # Null => registry[u] \in Recorded /\ registry[u].uuid = u
    BY DEF Recorded, TypeInv, WorktreesTypeOK
  <2> QED BY <2>1, <2>2 DEF RecordOf
<1>5. CASE ~(Adopts(p) \/ SaveRecord(p) \/ ReplaceRecord(p) \/ Creates(p))
  <2>1. pc'[p] = pc[p] /\ mine'[p] = mine[p] /\ Holds(p)
    BY <1>5, <1>9, HoldersBegin DEF Holds
  <2>2. mine[p] # Null /\ mine[p].uuid \in Uuids
    BY <2>1, HoldersMine DEF Holds
  <2>3. \A u \in Uuids : registry'[u] # registry[u] =>
          /\ registry'[u] # Null => registry'[u].path # mine[p].path
          /\ u # mine[p].uuid \/ pc[p] # "working"
    BY <1>5, <1>9, <2>1, RegistryElsewhere
  <2>4. CASE pc[p] = "working"
    BY <2>1, <2>2, <2>3, <2>4 DEF RecordOf
  <2>5. CASE pc[p] = "adding"
    <3>1. ASSUME NEW u \in Uuids, registry'[u] # Null PROVE registry'[u].path # mine[p].path
      BY <2>1, <2>3, <2>5, <3>1 DEF RecordOf
    <3> QED BY <2>1, <2>5, <3>1 DEF RecordOf
  <2>6. CASE pc[p] = "replacing"
    <3>0. session # Null /\ session' = session
      BY <2>6, SessionStays DEF ReplacesSession
    <3>1. ASSUME NEW u \in Uuids, registry'[u] # Null, registry'[u].path = mine[p].path
          PROVE  u = session.uuid
      <4>1. registry'[u] = registry[u]
        BY <2>3, <3>1
      <4> QED BY <2>1, <2>6, <3>1, <4>1 DEF RecordOf
    <3> QED BY <2>1, <2>6, <3>0, <3>1 DEF RecordOf
  <2> QED BY <2>1, <2>4, <2>5, <2>6 DEF Holds, Holders
<1> QED BY <1>1, <1>2, <1>3, <1>4, <1>5 DEF Creates

LEMMA OwnerInit == ASSUME Init PROVE OwnerInv
<1>1. Exclusive /\ OneRecord /\ NotReleased /\ \A p \in Processes : RecordOf(p)
  BY DEF Init, Exclusive, OneRecord, NotReleased, RecordOf, Holds, Holders
<1> QED BY <1>1, LeakInit DEF OwnerInv

LEMMA OwnerKept == ASSUME OwnerInv, [Next]_vars PROVE OwnerInv'
<1>1. LeakInv'
  BY LeakKept DEF OwnerInv
<1>2. Exclusive'
  BY ExclusiveStep DEF OwnerInv
<1> QED BY <1>1, <1>2, OneRecordStep, NotReleasedStep, RecordOfStep DEF OwnerInv

LEMMA OwnerHasCheckout == ASSUME OwnerInv PROVE OwnerKeepsCheckout
<1> SUFFICES ASSUME NEW p \in Processes, pc[p] = "working", mine[p].path \notin contested
             PROVE  /\ checkout[mine[p].path] # Null
                    /\ \E r \in Recorded : r.path = mine[p].path /\ r.pid = p
  BY DEF OwnerKeepsCheckout
<1>1. mine[p] # Null /\ mine[p].uuid \in Uuids /\ mine[p].pid = p
  BY HoldersMine DEF Holders
<1>2. registry[mine[p].uuid] = mine[p]
  BY DEF OwnerInv, RecordOf, Holds, Holders
<1>3. checkout[mine[p].path] # Null
  BY DEF OwnerInv, NotReleased, Holds, Holders
<1> QED BY <1>1, <1>2, <1>3 DEF Recorded

\* The owner keeps its checkout: nobody takes or removes the checkout of an
\* agent at work, and its record names its process, so that no sweep touches
\* it, whoever else sweeps, adopts, recreates or dies, unless the checkout was
\* taken while another process was at it or releasing it, or restored while a
\* sweep or an exit had the record of before.
THEOREM OwnersKeepTheirs == Spec => []OwnerKeepsCheckout
<1>1. Init => OwnerInv
  BY OwnerInit
<1>2. OwnerInv /\ [Next]_vars => OwnerInv'
  BY OwnerKept
<1>3. OwnerInv => OwnerKeepsCheckout
  BY OwnerHasCheckout
<1> QED BY <1>1, <1>2, <1>3, PTL DEF Spec

-----------------------------------------------------------------------------
(* The changes.                                                            *)

\* What every step leaves: the base and the uuids grow, and only an agent that
\* writes makes a change.
LEMMA RepositoryGrows ==
  ASSUME TypeInv, [Next]_vars
  PROVE  /\ main \subseteq main'
         /\ uuids' = uuids \/ (uuids' = uuids + 1 /\ \E p \in Processes : Creates(p))
         /\ work' = work \/ (work' = work + 1 /\ \E p \in Processes : Write(p))
<1> USE DEF repository, processes, counters
<1>1. CASE UNCHANGED vars
  BY <1>1 DEF vars
<1>2. ASSUME NEW p \in Processes, Continues(p) \/ Saves(p) \/ Adopts(p) \/ Begins(p)
      PROVE  UNCHANGED <<main, uuids, work>>
  BY <1>2, ContinuesResult, SavesResult, AdoptResult, BeginsResult DEF Adopts
<1>3. ASSUME NEW p \in Processes, Schedules(p) PROVE UNCHANGED <<main, uuids, work>>
  BY <1>3 DEF Schedules, Start, Cleanup, Exit, Released, Crash
<1>4. ASSUME NEW p \in Processes, Creates(p) PROVE main' = main /\ work' = work /\ uuids' = uuids + 1
  BY <1>4, AddResult, RebuildResult, ReattachResult DEF Creates
<1>5. ASSUME NEW p \in Processes, Edits(p)
      PROVE  main' = main /\ uuids' = uuids /\ (work' = work \/ (work' = work + 1 /\ Write(p)))
  BY <1>5, EditsResult DEF Edits, Write, Commit, Detach, SwitchBranch
<1>6. ASSUME NEW b \in Branches, Merge(b) PROVE main \subseteq main' /\ UNCHANGED <<uuids, work>>
  BY <1>6 DEF Merge
<1> QED BY <1>1, <1>2, <1>3, <1>4, <1>5, <1>6, NextSplit

\* The steps that touch branches.
Committing(u) == checkout[u] # Null /\ CommitAll(u)
Dropping(p) == branch' = Dropped(release[p].record, release[p].ahead)

LEMMA BranchSteps ==
  ASSUME TypeInv, [Next]_vars
  PROVE  \/ branch' = branch
         \/ \E p \in Processes : AddWorktree(p) \/ Rebuild(p) \/ SwitchBranch(p)
         \/ \E u \in Uuids : Committing(u)
         \/ \E p \in Processes : Inspect(p) /\ checkout[Path(p)] # Null
         \/ \E p \in Processes : (At(p, "drop") \/ At(p, "dropMissing")) /\ Dropping(p)
<1> USE DEF repository
<1>1. CASE UNCHANGED vars
  BY <1>1 DEF vars
<1>2. ASSUME NEW p \in Processes, Saves(p) \/ Adopts(p) \/ Begins(p) \/ Reattach(p) PROVE branch' = branch
  BY <1>2, SavesResult, AdoptResult, BeginsResult, ReattachResult DEF Adopts
<1>3. ASSUME NEW p \in Processes, Schedules(p) \/ Write(p) \/ Detach(p) PROVE branch' = branch
  BY <1>3 DEF Schedules, Start, Cleanup, Exit, Released, Crash, Write, Detach
<1>4. ASSUME NEW p \in Processes, Commit(p) PROVE \E u \in Uuids : Committing(u)
  BY <1>4, HerePath DEF Commit, Committing
<1>5. ASSUME NEW b \in Branches, Merge(b) PROVE branch' = branch
  BY <1>5 DEF Merge
<1>6. ASSUME NEW p \in Processes, CommitDirty(p) PROVE branch' = branch \/ \E u \in Uuids : Committing(u)
  <2>1. Path(p) \in Uuids
    BY <1>6, ReleaseFields DEF CommitDirty, At
  <2> QED BY <1>6, <2>1 DEF CommitDirty, Committing
<1>7. ASSUME NEW p \in Processes, Inspect(p) PROVE branch' = branch \/ checkout[Path(p)] # Null
  BY <1>7 DEF Inspect
<1>8. ASSUME NEW p \in Processes, CountAhead(p) \/ RemoveWorktree(p) \/ DiscardRecord(p) \/ GiveUp(p) PROVE branch' = branch
  BY <1>8 DEF CountAhead, RemoveWorktree, DiscardRecord, GiveUp
<1>9. ASSUME NEW p \in Processes, DropBranch(p) \/ DropMissing(p)
      PROVE  branch' = branch \/ ((At(p, "drop") \/ At(p, "dropMissing")) /\ Dropping(p))
  BY <1>9 DEF DropBranch, DropMissing, Dropping
<1> QED BY <1>1, <1>2, <1>3, <1>4, <1>5, <1>6, <1>7, <1>8, <1>9, NextSplit DEF Continues, Edits, Creates

Carried(b) ==
  /\ branch[b] # Null => \A w \in branch[b] : Safe(w)'
  /\ b[1] = "cecli" /\ branch'[b] # Null => \A w \in branch'[b] :
       (branch[b] # Null /\ w \in branch[b]) \/ w \in main' \/ (FoundEmpty(b) => w \in atRisk')
  /\ b[2] > uuids' => branch'[b] = Null

\* No branch loses a change but to the base, to another branch or at risk; a
\* branch of the manager only gains what is committed on it; and none is made
\* under a number that was not given.
LEMMA BranchesChange ==
  ASSUME LeakInv, WorkStands, [Next]_vars, NEW b \in Branches
  PROVE  Carried(b)
<1> USE DEF LeakInv, Carried
<1>0. /\ main \subseteq main' /\ atRisk \subseteq atRisk' /\ uuids \in Nat /\ b[2] \in Nat
      /\ b[2] > uuids' => b[2] > uuids
  <2>1. uuids \in Nat /\ b[2] \in Nat
    BY WorktreesAssumption DEF TypeInv, WorktreesTypeOK, Branches, Uuids
  <2> QED BY <2>1, RepositoryGrows, HistoryGrows DEF Grows
<1>1. CASE branch' = branch
  BY <1>0, <1>1 DEF Safe, WorkStands, FreshNames
<1>2. ASSUME NEW p \in Processes, AddWorktree(p) PROVE Carried(b)
  <2>1. PICK n \in Nat : n = uuids + 1
    BY <1>0
  <2>2. PICK c \in Branches : c = <<"cecli", n>>
    BY <1>2, <2>1, AddResult
  <2>3. /\ branch'[c] = main /\ \A d \in Branches : d # c => branch'[d] = branch[d]
        /\ uuids' = n /\ main' = main
    BY <1>2, <2>1, <2>2, AddResult
  <2>4. c[2] = n /\ n > uuids /\ ~ (n > uuids')
    BY <1>0, <2>1, <2>2, <2>3
  <2>5. branch[c] = Null
    BY <2>4 DEF WorkStands, FreshNames
  <2>6. CASE b = c
    BY <2>3, <2>4, <2>5, <2>6
  <2>7. CASE b # c
    BY <1>0, <2>3, <2>7 DEF Safe, WorkStands, FreshNames
  <2> QED BY <2>6, <2>7
<1>3. ASSUME NEW p \in Processes, Rebuild(p) PROVE Carried(b)
  <2>1. PICK n \in Nat : n = uuids + 1
    BY <1>0
  <2>2. PICK c \in Branches : c = RebuiltOn
    BY <1>3, RebuildResult
  <2>3. /\ branch'[c] = IF branch[session.branch] = Null THEN session.base ELSE branch[session.branch]
        /\ \A d \in Branches : d # c => branch'[d] = branch[d]
        /\ uuids' = n /\ main' = main /\ session # Null /\ session \in Records
    BY <1>3, <2>1, <2>2, RebuildResult
  <2>4. session \in Known /\ session.base \subseteq main /\ session.branch[2] <= uuids /\ session.branch \in Branches
    BY <2>3, RecordsTyped, RecordFields DEF TypeInv, WorkStands, RecordNames
  <2>5. CASE b # c
    BY <1>0, <2>3, <2>5 DEF Safe, WorkStands, FreshNames
  <2>6. CASE b = c /\ c = session.branch
    <3>1. ~ (b[2] > uuids')
      BY <1>0, <2>1, <2>3, <2>4, <2>6
    <3> QED BY <1>0, <2>3, <2>4, <2>6, <3>1 DEF Safe
  <2>7. CASE b = c /\ c # session.branch
    <3>1. c = <<"cecli", n>> /\ c[2] = n
      BY <2>1, <2>2, <2>7 DEF RebuiltOn
    <3>2. branch[c] = Null
      BY <1>0, <2>1, <3>1 DEF WorkStands, FreshNames
    <3>3. ~ FoundEmpty(c)
      <4>1. \A q \in Processes : release[q] # Null => release[q].record.branch[2] <= uuids
        BY RecordsTyped DEF TypeInv, WorkStands, RecordNames
      <4>2. \A q \in Processes : release[q] # Null => release[q].record.branch # c
        BY <1>0, <2>1, <3>1, <4>1
      <4> QED BY <4>2 DEF FoundEmpty, At
    <3>4. ~ (c[2] > uuids')
      BY <2>3, <3>1
    <3> QED BY <2>7, <3>2, <3>3, <3>4
  <2> QED BY <2>5, <2>6, <2>7
<1>4. ASSUME NEW p \in Processes, SwitchBranch(p) PROVE Carried(b)
  <2>1. PICK c \in Branches : c = <<"agent", mine[p].path>>
    BY <1>4, SwitchResult
  <2>2. branch[c] = Null /\ \A d \in Branches : d # c => branch'[d] = branch[d]
    BY <1>4, <2>1, SwitchResult
  <2>3. c[1] # "cecli" /\ c[2] = mine[p].path
    BY <2>1
  <2>4. uuids' = uuids /\ mine[p].path <= uuids /\ mine[p].path \in Nat
    <3>1. Here(p) /\ uuids' = uuids
      BY <1>4, EditsResult DEF Edits
    <3>2. mine[p] \in Known
      BY <3>1, HerePath, RecordsTyped DEF TypeInv
    <3> QED BY <3>1, <3>2, HerePath DEF IdsStand, Uuids
  <2>5. ~ (c[2] > uuids')
    BY <1>0, <2>3, <2>4
  <2>6. CASE b = c
    BY <2>2, <2>3, <2>5, <2>6
  <2>7. CASE b # c
    BY <1>0, <2>2, <2>7 DEF Safe, WorkStands, FreshNames
  <2> QED BY <2>6, <2>7
<1>5. ASSUME NEW u \in Uuids, Committing(u) PROVE Carried(b)
  <2>1. /\ \A c \in Branches : branch'[c] = IF c = checkout[u].head THEN branch[c] \cup checkout[u].dirty ELSE branch[c]
        /\ \A c \in Branches : branch'[c] = Null <=> branch[c] = Null
    BY <1>5, CommitResult DEF Committing, TypeInv
  <2>2. b = checkout[u].head => (FoundEmpty(b) => checkout[u].dirty \subseteq atRisk')
    BY <1>5 DEF Committing, CommitAll
  <2> QED BY <1>0, <2>1, <2>2 DEF Safe, WorkStands, FreshNames
<1>6. ASSUME NEW p \in Processes, Inspect(p), checkout[Path(p)] # Null PROVE Carried(b)
  <2>1. /\ branch[b] # Null => \A w \in branch[b] : w \in branch'[b] \/ w \in atRisk'
              \/ \E c \in Branches : branch'[c] # Null /\ w \in branch'[c]
        /\ branch[b] # Null => branch'[b] # Null
        /\ b[1] = "cecli" => branch'[b] = branch[b]
        /\ b[2] # release[p].record.branch[2] => branch'[b] = branch[b]
    BY <1>6, SaveResult
  <2>2. release[p].record.branch[2] <= uuids /\ release[p].record.branch[2] \in Nat
    <3>1. release[p] # Null
      BY <1>6 DEF Inspect, At
    <3>2. release[p].record \in Known /\ release[p].record.branch \in Branches
      BY <3>1, RecordsTyped, ReleaseFields DEF TypeInv
    <3> QED BY <3>2 DEF WorkStands, RecordNames, Branches, Uuids
  <2>3. b[2] > uuids' => branch'[b] = Null
    BY <1>0, <2>1, <2>2 DEF WorkStands, FreshNames
  <2> QED BY <2>1, <2>3 DEF Safe
<1>7. ASSUME NEW p \in Processes, At(p, "drop") \/ At(p, "dropMissing"), Dropping(p) PROVE Carried(b)
  <2>1. branch'[b] = IF b = release[p].record.branch /\ Droppable(release[p].record, release[p].ahead) THEN Null ELSE branch[b]
    BY <1>7 DEF Dropping, Dropped
  <2>2. CASE branch'[b] = branch[b]
    BY <1>0, <2>2 DEF Safe, WorkStands, FreshNames
  <2>3. CASE branch'[b] # branch[b]
    <3>1. /\ branch'[b] = Null /\ b = release[p].record.branch /\ b[1] = "cecli" /\ branch[b] # Null
          /\ ~release[p].ahead \/ branch[b] \subseteq main
      BY <2>1, <2>3 DEF Droppable
    <3>2. branch[b] \subseteq main \cup atRisk
      BY <1>7, <3>1 DEF WorkStands, Counted
    <3> QED BY <1>0, <3>1, <3>2 DEF Safe
  <2> QED BY <2>2, <2>3
<1> QED BY <1>1, <1>2, <1>3, <1>4, <1>5, <1>6, <1>7, BranchSteps

LEMMA SafeStays ==
  ASSUME LeakInv, WorkStands, [Next]_vars, NEW w, Safe(w)
  PROVE  Safe(w)'
<1>1. main \subseteq main' /\ atRisk \subseteq atRisk'
  BY RepositoryGrows, HistoryGrows DEF LeakInv, Grows
<1>2. ASSUME NEW b \in Branches, branch[b] # Null, w \in branch[b] PROVE Safe(w)'
  BY <1>2, BranchesChange DEF Carried
<1> QED BY <1>1, <1>2 DEF Safe

\* How the checkouts change.
CheckoutCarried(u) ==
  /\ checkout'[u] # Null => \/ u = uuids + 1 /\ checkout'[u].dirty = {} /\ checkout'[u].at = {}
                            \/ /\ checkout[u] # Null
                               /\ \A w \in checkout'[u].dirty : w \in checkout[u].dirty \/ (StatusRead(u) => w \in atRisk')
                               /\ \A w \in checkout'[u].at : w \in checkout[u].at \/ w \in checkout[u].dirty \/ Safe(w)
                               /\ checkout'[u].head # Detached => checkout'[u].at = {}
  /\ checkout[u] # Null => \A w \in checkout[u].at \cup checkout[u].dirty :
       Safe(w)' \/ (checkout'[u] # Null /\ w \in checkout'[u].at \cup checkout'[u].dirty)

LEMMA CheckoutSteps ==
  ASSUME TypeInv, [Next]_vars
  PROVE  \/ checkout' = checkout
         \/ \E p \in Processes : AddWorktree(p) \/ Rebuild(p) \/ Write(p) \/ Detach(p) \/ SwitchBranch(p)
         \/ \E u \in Uuids : Committing(u)
         \/ \E p \in Processes : RemoveWorktree(p)
<1> USE DEF repository
<1>1. CASE UNCHANGED vars
  BY <1>1 DEF vars
<1>2. ASSUME NEW p \in Processes, Saves(p) \/ Adopts(p) \/ Begins(p) \/ Reattach(p) PROVE checkout' = checkout
  BY <1>2, SavesResult, AdoptResult, BeginsResult, ReattachResult DEF Adopts
<1>3. ASSUME NEW p \in Processes, Schedules(p) PROVE checkout' = checkout
  BY <1>3 DEF Schedules, Start, Cleanup, Exit, Released, Crash
<1>4. ASSUME NEW p \in Processes, Commit(p) PROVE \E u \in Uuids : Committing(u)
  BY <1>4, HerePath DEF Commit, Committing
<1>5. ASSUME NEW b \in Branches, Merge(b) PROVE checkout' = checkout
  BY <1>5 DEF Merge
<1>6. ASSUME NEW p \in Processes, CommitDirty(p) PROVE checkout' = checkout \/ \E u \in Uuids : Committing(u)
  <2>1. Path(p) \in Uuids
    BY <1>6, ReleaseFields DEF CommitDirty, At
  <2> QED BY <1>6, <2>1 DEF CommitDirty, Committing
<1>7. ASSUME NEW p \in Processes, Inspect(p) \/ CountAhead(p) \/ DropBranch(p) \/ DropMissing(p) \/ DiscardRecord(p) \/ GiveUp(p)
      PROVE  checkout' = checkout
  BY <1>7 DEF Inspect, CountAhead, DropBranch, DropMissing, DiscardRecord, GiveUp
<1> QED BY <1>1, <1>2, <1>3, <1>4, <1>5, <1>6, <1>7, NextSplit DEF Continues, Edits, Creates

\* A change does not leave a checkout but to where it is safe; what a release
\* has read changes no more than it can bear.
LEMMA CheckoutsChange ==
  ASSUME LeakInv, WorkStands, [Next]_vars, NEW u \in Uuids
  PROVE  CheckoutCarried(u)
<1> USE DEF LeakInv
<1>0. \A w : Safe(w) => Safe(w)'
  BY SafeStays
<1>1. ASSUME checkout'[u] = checkout[u] PROVE CheckoutCarried(u)
  BY <1>1 DEF CheckoutCarried, WorkStands, OnBranch
<1>2. ASSUME NEW p \in Processes, AddWorktree(p) \/ Rebuild(p) PROVE CheckoutCarried(u)
  <2>1. PICK b \in Branches : checkout'[uuids + 1] = Fresh(b) /\ \A v \in Uuids : v # uuids + 1 => checkout'[v] = checkout[v]
    BY <1>2, AddResult, RebuildResult
  <2>2. CASE u = uuids + 1
    <3>1. ~ (u <= uuids)
      BY <2>2, WorktreesAssumption DEF TypeInv, WorktreesTypeOK
    <3>2. checkout[u] = Null
      BY <3>1 DEF IdsStand
    <3> QED BY <2>1, <2>2, <3>2, FreshCheckout DEF CheckoutCarried
  <2> QED BY <1>1, <2>1, <2>2
<1>3. ASSUME NEW p \in Processes, Write(p) PROVE CheckoutCarried(u)
  <2>1. CASE u = mine[p].path
    <3>1. /\ checkout[u] # Null /\ checkout'[u] # Null /\ checkout'[u].head = checkout[u].head
          /\ checkout'[u].at = checkout[u].at /\ checkout'[u].dirty = checkout[u].dirty \cup {work + 1}
      BY <1>3, <2>1, WriteResult, HerePath
    <3>2. StatusRead(u) => work + 1 \in atRisk'
      BY <1>3, <2>1 DEF Write
    <3> QED BY <3>1, <3>2 DEF CheckoutCarried, WorkStands, OnBranch
  <2> QED BY <1>1, <1>3, <2>1, WriteResult
<1>4. ASSUME NEW p \in Processes, Detach(p) PROVE CheckoutCarried(u)
  <2>1. CASE u = mine[p].path
    <3>1. /\ checkout[u] # Null /\ checkout[u].head # Detached /\ checkout'[u] # Null /\ checkout'[u].head = Detached
          /\ checkout'[u].at = branch[checkout[u].head] /\ checkout'[u].dirty = checkout[u].dirty
          /\ checkout[u] \in Checkouts
      BY <1>4, <2>1, DetachResult, HerePath DEF Head
    <3>2. checkout[u].head \in Branches /\ branch[checkout[u].head] # Null /\ checkout[u].at = {}
      BY <3>1 DEF Checkouts, TypeInv, HeadsExist, WorkStands, OnBranch
    <3>3. \A w \in checkout'[u].at : Safe(w)
      BY <3>1, <3>2 DEF Safe
    <3> QED BY <3>1, <3>2, <3>3 DEF CheckoutCarried
  <2> QED BY <1>1, <1>4, <2>1, DetachResult
<1>5. ASSUME NEW p \in Processes, SwitchBranch(p) PROVE CheckoutCarried(u)
  <2>1. CASE u = mine[p].path
    <3>1. PICK c \in Branches : /\ branch'[c] = Head(u) /\ checkout'[u].head = c
      BY <1>5, <2>1, SwitchResult
    <3>2. /\ checkout[u] # Null /\ checkout'[u] # Null
          /\ checkout'[u].at = {} /\ checkout'[u].dirty = checkout[u].dirty
      BY <1>5, <2>1, SwitchResult, HerePath
    <3>3. branch'[c] # Null
      BY <3>1, <3>2, HeadTyped, WorktreesAssumption DEF TypeInv
    <3>4. \A w \in checkout[u].at : Safe(w)'
      BY <3>1, <3>2, <3>3 DEF Safe, Head, WorkStands, OnBranch
    <3> QED BY <3>2, <3>4 DEF CheckoutCarried
  <2> QED BY <1>1, <1>5, <2>1, SwitchResult
<1>6. ASSUME NEW v \in Uuids, Committing(v) PROVE CheckoutCarried(u)
  <2>1. CASE u = v
    <3>1. /\ checkout[u] # Null /\ checkout'[u] # Null /\ checkout'[u].dirty = {}
          /\ checkout'[u].head = checkout[u].head
          /\ checkout'[u].at = IF checkout[u].head = Detached THEN checkout[u].at \cup checkout[u].dirty ELSE checkout[u].at
          /\ \A b \in Branches : branch'[b] = IF b = checkout[u].head THEN branch[b] \cup checkout[u].dirty ELSE branch[b]
          /\ \A b \in Branches : branch'[b] = Null <=> branch[b] = Null
      BY <1>6, <2>1, CommitResult DEF Committing, TypeInv
    <3>2. checkout[u].head # Detached => /\ checkout[u].head \in Branches /\ branch[checkout[u].head] # Null
                                         /\ checkout[u].at = {}
      BY <3>1 DEF TypeInv, HeadsExist, WorktreesTypeOK, Checkouts, WorkStands, OnBranch
    <3>3. checkout[u].head # Detached => \A w \in checkout[u].dirty : Safe(w)'
      BY <3>1, <3>2 DEF Safe
    <3> QED BY <3>1, <3>2, <3>3 DEF CheckoutCarried
  <2>2. CASE u # v
    BY <1>1, <1>6, <2>2, CommitResult DEF Committing, TypeInv
  <2> QED BY <2>1, <2>2
<1>7. ASSUME NEW p \in Processes, RemoveWorktree(p) PROVE CheckoutCarried(u)
  <2>1. release[p] # Null /\ Path(p) \in Uuids /\ At(p, "remove")
    BY <1>7, ReleaseFields DEF RemoveWorktree, At
  <2>2. CASE checkout[Path(p)] # Null /\ u = Path(p)
    <3>1. checkout'[u] = Null
      BY <1>7, <2>1, <2>2 DEF RemoveWorktree, TypeInv, WorktreesTypeOK
    <3>2. checkout[u].dirty \subseteq atRisk /\ \A w \in checkout[u].at : Safe(w)
      BY <2>1, <2>2 DEF WorkStands, Cleared, Path
    <3>3. \A w \in checkout[u].at \cup checkout[u].dirty : Safe(w)
      BY <3>2 DEF Safe
    <3> QED BY <1>0, <3>1, <3>3 DEF CheckoutCarried
  <2>3. CASE ~ (checkout[Path(p)] # Null /\ u = Path(p))
    <3>1. checkout'[u] = checkout[u]
      BY <1>7, <2>3 DEF RemoveWorktree, TypeInv, WorktreesTypeOK
    <3> QED BY <1>1, <3>1
  <2> QED BY <2>2, <2>3
<1> QED BY <1>1, <1>2, <1>3, <1>4, <1>5, <1>6, <1>7, CheckoutSteps

\* A release in progress is as it was, or has taken its next step.
SameRecord(x) == release[x] # Null /\ release'[x].record = release[x].record
Progress(x) ==
  \/ release[x] # Null /\ release'[x] = release[x]
  \/ Begins(x)
  \/ CommitDirty(x) /\ checkout[Path(x)] # Null /\ CommitAll(Path(x)) /\ SameRecord(x) /\ release'[x].step = "inspect"
  \/ Inspect(x) /\ checkout[Path(x)] # Null
  \/ CountAhead(x)
  \/ RemoveWorktree(x) /\ SameRecord(x) /\ release'[x].step = "drop" /\ release'[x].ahead = release[x].ahead
  \/ release'[x].step = "discard"

LEMMA AdvanceResult ==
  ASSUME TypeInv, NEW p \in Processes, release[p] # Null, NEW step \in ReleaseSteps, Advance(p, step)
  PROVE  /\ release'[p].step = step /\ release'[p].record = release[p].record
         /\ release'[p].ahead = release[p].ahead
<1>1. release[p] \in Releases
  BY ReleaseFields
<1>2. PICK rel : rel = [release[p] EXCEPT !.step = step]
  OBVIOUS
<1>3. rel.step = step /\ rel.record = release[p].record /\ rel.ahead = release[p].ahead
  BY <1>1, <1>2 DEF Releases
<1>4. release'[p] = rel
  BY <1>2 DEF Advance, TypeInv, WorktreesTypeOK
<1> QED BY <1>3, <1>4

LEMMA ReleaseMoves ==
  ASSUME TypeInv, [Next]_vars, NEW x \in Processes, release'[x] # Null
  PROVE  Progress(x)
<1>1. ASSUME release'[x] = release[x] PROVE Progress(x)
  BY <1>1 DEF Progress
<1>2. ASSUME NEW p \in Processes, Continues(p) PROVE Progress(x)
  <2>1. CASE p # x
    BY <1>1, <1>2, <2>1, ContinuesResult
  <2>2. CASE p = x
    <3>0. release[x] # Null /\ release'[x].record = release[x].record
      BY <1>2, <2>2, ContinuesResult
    <3>1. CASE CommitDirty(x)
      <4>1. checkout[Path(x)] # Null /\ CommitAll(Path(x)) /\ Advance(x, "inspect")
        BY <3>1 DEF CommitDirty, Abandon, TypeInv, WorktreesTypeOK
      <4> QED BY <3>0, <3>1, <4>1, AdvanceResult DEF Progress, SameRecord, ReleaseSteps
    <3>2. CASE Inspect(x)
      BY <3>2 DEF Progress, Inspect, Abandon, TypeInv, WorktreesTypeOK
    <3>3. CASE CountAhead(x)
      BY <3>3 DEF Progress
    <3>4. CASE RemoveWorktree(x)
      <4>1. Advance(x, "drop")
        BY <3>4 DEF RemoveWorktree, Abandon, TypeInv, WorktreesTypeOK
      <4> QED BY <3>0, <3>4, <4>1, AdvanceResult DEF Progress, SameRecord, ReleaseSteps
    <3>5. CASE DropBranch(x) \/ DropMissing(x)
      <4>1. Advance(x, "discard")
        BY <3>5 DEF DropBranch, DropMissing
      <4> QED BY <3>0, <4>1, AdvanceResult DEF Progress, ReleaseSteps
    <3>6. CASE DiscardRecord(x) \/ GiveUp(x)
      BY <3>6 DEF DiscardRecord, GiveUp, Abandon, TypeInv, WorktreesTypeOK
    <3> QED BY <1>2, <2>2, <3>1, <3>2, <3>3, <3>4, <3>5, <3>6 DEF Continues
  <2> QED BY <2>1, <2>2
<1>3. ASSUME NEW p \in Processes, Begins(p) PROVE Progress(x)
  BY <1>1, <1>3, BeginsResult DEF Progress
<1>4. ASSUME NEW p \in Processes, Schedules(p) PROVE release'[x] = release[x]
  BY <1>4 DEF Schedules, Start, Cleanup, Exit, Released, Crash, TypeInv, WorktreesTypeOK
<1>5. ASSUME NEW p \in Processes, Edits(p) \/ Saves(p) \/ Adopts(p) \/ Creates(p) PROVE release' = release
  BY <1>5, EditsResult, SavesResult, AdoptResult, AddResult, RebuildResult, ReattachResult DEF Saves, Adopts, Creates
<1>6. ASSUME NEW b \in Branches, Merge(b) PROVE release' = release
  BY <1>6 DEF Merge, processes
<1>7. CASE UNCHANGED vars
  BY <1>1, <1>7 DEF vars, processes
<1> QED BY <1>1, <1>2, <1>3, <1>4, <1>5, <1>6, <1>7, NextSplit

\* What a count of the commits says of a branch of the manager.
LEMMA CountTells ==
  ASSUME LeakInv, WorkStands, NEW r \in Known, NEW fails \in BOOLEAN, Count(r, fails),
         r.branch[1] = "cecli", branch[r.branch] # Null, ~ (Ahead(r) /\ ~fails)
  PROVE  branch[r.branch] \subseteq main \cup atRisk'
<1>1. r.base \subseteq main
  BY DEF WorkStands, RecordNames
<1>2. CASE fails
  BY <1>2 DEF Count, Misjudged
<1>3. CASE ~fails
  BY <1>1, <1>3 DEF Ahead
<1> QED BY <1>2, <1>3

LEMMA ClearedStep ==
  ASSUME LeakInv, WorkStands, [Next]_vars, NEW x \in Processes
  PROVE  Cleared(x)'
<1> USE DEF LeakInv
<1>0. \A w : Safe(w) => Safe(w)'
  BY SafeStays
<1>a. atRisk \subseteq atRisk'
  BY HistoryGrows DEF Grows
<1> SUFFICES ASSUME NEW u \in Uuids, release'[x] # Null, u = release'[x].record.path, checkout'[u] # Null
             PROVE  /\ release'[x].step \in {"inspect", "count", "remove"} => checkout'[u].dirty \subseteq atRisk'
                    /\ release'[x].step \in {"count", "remove"} => \A w \in checkout'[u].at : Safe(w)'
  BY DEF Cleared, At
<1>1. CASE release[x] # Null /\ release'[x] = release[x]
  <2>1. release[x].record \in Known /\ u # uuids + 1
    BY <1>1, RecordsTyped, FreshPath DEF TypeInv
  <2>2. /\ checkout[u] # Null
        /\ \A w \in checkout'[u].dirty : w \in checkout[u].dirty \/ (StatusRead(u) => w \in atRisk')
        /\ \A w \in checkout'[u].at : w \in checkout[u].at \/ w \in checkout[u].dirty \/ Safe(w)
    BY <2>1, CheckoutsChange DEF CheckoutCarried
  <2>3. release[x].step \in {"inspect", "count", "remove"} => StatusRead(u) /\ checkout[u].dirty \subseteq atRisk
    BY <1>1, <2>2 DEF StatusRead, At, WorkStands, Cleared
  <2>4. release[x].step \in {"count", "remove"} => \A w \in checkout[u].at : Safe(w)
    BY <1>1, <2>2 DEF At, WorkStands, Cleared
  <2>5. release[x].step \in {"count", "remove"} => \A w \in checkout'[u].at : Safe(w)
    BY <2>2, <2>3, <2>4 DEF Safe
  <2> QED BY <1>0, <1>1, <1>a, <2>2, <2>3, <2>5
<1>2. CASE Begins(x)
  <2>1. PICK r \in todo[x] : BeginRelease(x, r)
    BY <1>2 DEF Begins
  <2>2. PICK rel \in Releases :
          /\ release' = [release EXCEPT ![x] = rel] /\ rel.record = r /\ checkout' = checkout
          /\ rel.step \in {"dropMissing", "disown", "commit", "inspect"}
          /\ rel.step = "inspect" => checkout[r.path].dirty \subseteq atRisk'
    BY <2>1, BeginResult
  <2>3. release'[x] = rel
    BY <2>2 DEF TypeInv, WorktreesTypeOK
  <2> QED BY <2>2, <2>3
<1>3. CASE CommitDirty(x) /\ checkout[Path(x)] # Null /\ CommitAll(Path(x)) /\ SameRecord(x) /\ release'[x].step = "inspect"
  <2>1. u = Path(x)
    BY <1>3 DEF SameRecord, Path
  <2>2. checkout'[u].dirty = {}
    BY <1>3, <2>1, CommitResult DEF TypeInv
  <2> QED BY <1>3, <2>2
<1>4. CASE Inspect(x) /\ checkout[Path(x)] # Null
  <2>1. release'[x].step = "count" /\ release'[x].record = release[x].record /\ checkout' = checkout
    BY <1>4, InspectResult DEF TypeInv, WorktreesTypeOK
  <2>2. u = Path(x) /\ At(x, "inspect") /\ release[x] # Null
    BY <1>4, <2>1 DEF Path, Inspect, At
  <2>3. checkout[u].dirty \subseteq atRisk
    BY <1>4, <2>2 DEF WorkStands, Cleared, Path
  <2>4. checkout[u].head = Detached => Head(u) = checkout[u].at
    BY DEF Head
  <2>5. \A w \in checkout[u].at : Safe(w)'
    <3>1. CASE checkout[u].head # Detached
      BY <1>4, <2>2, <3>1 DEF WorkStands, OnBranch
    <3>2. CASE checkout[u].head = Detached /\ SaveHead(x)
      <4>1. PICK b \in Branches : b = SavedName(release[x].record.branch)
        BY <2>2, ReleaseFields, SavedNames
      <4>2. branch'[b] = checkout[u].at
        BY <2>2, <2>4, <3>2, <4>1 DEF SaveHead, TypeInv, WorktreesTypeOK
      <4>3. branch'[b] # Null
        BY <1>4, <2>2, <2>4, <3>2, <4>2, HeadTyped, WorktreesAssumption DEF TypeInv
      <4> QED BY <4>2, <4>3 DEF Safe
    <3>3. CASE checkout[u].head = Detached /\ branch' = branch /\ atRisk' = atRisk \cup Unsaved(Path(x))
      <4>1. \A w \in checkout[u].at : Safe(w) \/ w \in Unsaved(u)
        BY <2>4, <3>3 DEF Unsaved, Safe
      <4> QED BY <1>0, <2>2, <3>3, <4>1 DEF Safe
    <3> QED BY <1>4, <3>1, <3>2, <3>3, InspectResult
  <2> QED BY <1>a, <2>1, <2>3, <2>5
<1>5. CASE CountAhead(x)
  <2>1. release'[x].record = release[x].record /\ checkout' = checkout
    BY <1>5, CountResult DEF TypeInv, WorktreesTypeOK
  <2>2. At(x, "count") /\ release[x] # Null
    BY <1>5 DEF CountAhead, At
  <2>3. checkout[u].dirty \subseteq atRisk /\ \A w \in checkout[u].at : Safe(w)
    BY <2>1, <2>2 DEF WorkStands, Cleared
  <2> QED BY <1>0, <1>a, <2>1, <2>3
<1>6. CASE release'[x].step \in {"drop", "discard"}
  BY <1>6
<1> QED BY <1>1, <1>2, <1>3, <1>4, <1>5, <1>6, ReleaseMoves DEF Progress

LEMMA CountedStep ==
  ASSUME LeakInv, WorkStands, [Next]_vars, NEW x \in Processes
  PROVE  Counted(x)'
<1> USE DEF LeakInv
<1>0. main \subseteq main' /\ atRisk \subseteq atRisk'
  BY RepositoryGrows, HistoryGrows DEF Grows
<1> SUFFICES ASSUME NEW b \in Branches, release'[x] # Null, release'[x].step \in {"remove", "drop", "dropMissing"},
                    b = release'[x].record.branch, b[1] = "cecli", branch'[b] # Null, ~release'[x].ahead
             PROVE  branch'[b] \subseteq main' \cup atRisk'
  BY DEF Counted, At
<1>1. CASE release[x] # Null /\ release'[x] = release[x]
  <2>1. FoundEmpty(b)
    BY <1>1 DEF FoundEmpty, At
  <2>2. branch[b] # Null => branch[b] \subseteq main \cup atRisk
    BY <1>1 DEF At, WorkStands, Counted
  <2> QED BY <1>0, <2>1, <2>2, BranchesChange DEF Carried
<1>2. CASE Begins(x)
  <2>1. PICK r \in todo[x] : BeginRelease(x, r)
    BY <1>2 DEF Begins
  <2>2. PICK rel \in Releases :
          /\ release' = [release EXCEPT ![x] = rel] /\ rel.record = r /\ main' = main /\ branch' = branch
          /\ rel.step \in {"disown", "commit", "inspect"} \/ \E fails \in BOOLEAN : rel.ahead = (Ahead(r) /\ ~fails) /\ Count(r, fails)
    BY <2>1, BeginResult
  <2>3. release'[x] = rel /\ r \in Known
    BY <2>2, RecordsTyped DEF TypeInv, WorktreesTypeOK
  <2>4. PICK fails \in BOOLEAN : rel.ahead = (Ahead(r) /\ ~fails) /\ Count(r, fails)
    BY <2>2, <2>3
  <2> QED BY <2>2, <2>3, <2>4, CountTells
<1>3. CASE CountAhead(x)
  <2>1. PICK fails \in BOOLEAN, rel \in Releases :
          /\ Count(release[x].record, fails) /\ release' = [release EXCEPT ![x] = rel]
          /\ rel.record = release[x].record /\ rel.ahead = (Ahead(release[x].record) /\ ~fails)
          /\ main' = main /\ branch' = branch
    BY <1>3, CountResult
  <2>2. release'[x] = rel /\ release[x] # Null /\ release[x].record \in Known
    BY <1>3, <2>1, RecordsTyped DEF CountAhead, At, TypeInv, WorktreesTypeOK
  <2> QED BY <2>1, <2>2, CountTells
<1>4. CASE RemoveWorktree(x) /\ SameRecord(x) /\ release'[x].step = "drop" /\ release'[x].ahead = release[x].ahead
  <2>1. At(x, "remove") /\ branch' = branch /\ b = release[x].record.branch
    BY <1>4 DEF RemoveWorktree, SameRecord
  <2> QED BY <1>0, <1>4, <2>1 DEF WorkStands, Counted
<1>5. ASSUME Inspect(x), checkout[Path(x)] # Null PROVE release'[x].step = "count"
  BY <1>5, InspectResult DEF TypeInv, WorktreesTypeOK
<1> QED BY <1>1, <1>2, <1>3, <1>4, <1>5, ReleaseMoves DEF Progress

LEMMA NamesStep ==
  ASSUME LeakInv, WorkStands, [Next]_vars
  PROVE  RecordNames'
<1> USE DEF LeakInv
<1>0. main \subseteq main' /\ uuids \in Nat /\ uuids' \in Nat /\ uuids <= uuids'
  BY RepositoryGrows, TypeKept, WorktreesAssumption DEF TypeInv, WorktreesTypeOK
<1>1. ASSUME NEW r \in Known PROVE r.base \subseteq main' /\ r.branch[2] <= uuids' /\ r.branch \in Branches
  <2>1. r.branch[2] \in Nat /\ r.branch \in Branches /\ r.base \subseteq main /\ r.branch[2] <= uuids
    BY DEF Known, Records, Branches, Uuids, WorkStands, RecordNames
  <2> QED BY <1>0, <2>1
<1>2. ASSUME NEW r \in Known', NEW s \in Known, Same(r, s) PROVE r.base \subseteq main' /\ r.branch[2] <= uuids'
  BY <1>1, <1>2 DEF Same
<1>3. ASSUME \A r \in Known' : r \in Known PROVE RecordNames'
  BY <1>1, <1>3 DEF RecordNames
<1>4. CASE UNCHANGED vars
  BY <1>4 DEF vars, processes, repository, counters, Known, RecordNames, WorkStands
<1>5. ASSUME NEW p \in Processes, Continues(p) \/ Edits(p) \/ Schedules(p) \/ Saves(p) \/ Begins(p) PROVE RecordNames'
  BY <1>3, <1>5, ContinuesKnown, EditsKnown, SchedulesKnown, SavesKnown, BeginsKnown
<1>6. ASSUME NEW b \in Branches, Merge(b) PROVE RecordNames'
  BY <1>3, <1>6, MergeKnown
<1>7. ASSUME NEW p \in Processes, Adopts(p) PROVE RecordNames'
  <2>1. \A r \in Known' : \E s \in Known : Same(r, s)
    BY <1>7, AdoptsKnown DEF Old
  <2> QED BY <1>2, <2>1 DEF RecordNames
<1>8. ASSUME NEW p \in Processes, Creates(p) PROVE RecordNames'
  <2>0. \A r \in Known' : r \in Known \/ r = mine'[p]
    BY <1>8, CreatesKnown
  <2>1. uuids' = uuids + 1
    BY <1>8, AddResult, RebuildResult, ReattachResult DEF Creates
  <2>2. session # Null => session \in Known
    BY RecordsTyped DEF TypeInv
  <2>3. PICK r \in Records : r = mine'[p]
    BY <1>8, AddResult, RebuildResult, ReattachResult DEF Creates
  <2>4. CASE AddWorktree(p)
    <3>1. PICK n \in Nat : n = uuids + 1
      BY <1>0
    <3>2. r.base = main /\ r.branch = <<"cecli", n>>
      BY <2>3, <2>4, <3>1, AddResult
    <3> QED BY <1>0, <1>1, <2>0, <2>1, <2>3, <3>1, <3>2 DEF RecordNames
  <2>5. CASE Rebuild(p)
    <3>1. PICK n \in Nat : n = uuids + 1
      BY <1>0
    <3>2. PICK c \in Branches : c = RebuiltOn
      BY <2>5, RebuildResult
    <3>3. r.base = session.base /\ r.branch = c /\ session # Null
      BY <2>3, <2>5, <3>2, RebuildResult
    <3>4. c = <<"cecli", n>> \/ c = session.branch
      BY <3>1, <3>2 DEF RebuiltOn
    <3>5. c[2] <= uuids'
      BY <1>0, <1>1, <2>1, <2>2, <3>1, <3>3, <3>4
    <3> QED BY <1>1, <2>0, <2>2, <2>3, <3>3, <3>5 DEF RecordNames
  <2>6. CASE Reattach(p)
    <3>1. PICK c \in Branches : c = ReattachedOn
      BY <2>6, ReattachResult
    <3>2. r.base = session.base /\ r.branch = c /\ session # Null /\ session.path \in Uuids /\ checkout[session.path] # Null
      BY <2>3, <2>6, <3>1, ReattachResult
    <3>3. c = session.branch \/ (c = checkout[session.path].head /\ checkout[session.path].head # Detached)
      BY <3>1 DEF ReattachedOn
    <3>4. c = session.branch \/ branch[c] # Null
      BY <3>2, <3>3 DEF TypeInv, HeadsExist
    <3>5. c[2] \in Nat /\ (branch[c] # Null => ~ (c[2] > uuids))
      BY DEF Branches, Uuids, WorkStands, FreshNames
    <3>6. c[2] <= uuids'
      BY <1>0, <1>1, <2>2, <3>2, <3>4, <3>5
    <3> QED BY <1>1, <2>0, <2>2, <2>3, <3>2, <3>6 DEF RecordNames
  <2> QED BY <1>8, <2>4, <2>5, <2>6 DEF Creates
<1> QED BY <1>4, <1>5, <1>6, <1>7, <1>8, NextSplit

LEMMA StandsStep ==
  ASSUME LeakInv, WorkStands, [Next]_vars
  PROVE  WorkStands'
<1>1. FreshNames'
  BY BranchesChange DEF Carried, FreshNames
<1>2. OnBranch'
  <2> SUFFICES ASSUME NEW u \in Uuids, checkout'[u] # Null, checkout'[u].head # Detached PROVE checkout'[u].at = {}
    BY DEF OnBranch
  <2> QED BY CheckoutsChange DEF CheckoutCarried
<1> QED BY <1>1, <1>2, NamesStep, ClearedStep, CountedStep DEF WorkStands

LEMMA ChangesStay ==
  ASSUME LeakInv, WorkStands, NoWorkLost, [Next]_vars
  PROVE  NoWorkLost'
<1> SUFFICES ASSUME NEW w \in 1..work', w \notin atRisk'
             PROVE  Kept(w)'
  BY DEF NoWorkLost
<1>0. work \in Nat /\ atRisk \subseteq atRisk'
  BY HistoryGrows, WorktreesAssumption DEF LeakInv, TypeInv, WorktreesTypeOK, Grows
<1>1. ASSUME Safe(w)' PROVE Kept(w)'
  BY <1>1 DEF Safe, Kept
<1>2. CASE w \in 1..work
  <2>1. Kept(w)
    BY <1>0, <1>2 DEF NoWorkLost
  <2>2. CASE Safe(w)
    BY <1>1, <2>2, SafeStays
  <2>3. ASSUME NEW u \in Uuids, checkout[u] # Null, w \in checkout[u].at \/ w \in checkout[u].dirty PROVE Kept(w)'
    <3>1. Safe(w)' \/ (checkout'[u] # Null /\ w \in checkout'[u].at \cup checkout'[u].dirty)
      BY <2>3, CheckoutsChange DEF CheckoutCarried
    <3> QED BY <1>1, <3>1 DEF Kept
  <2> QED BY <2>1, <2>2, <2>3 DEF Kept, Safe
<1>3. CASE w \notin 1..work
  <2>1. work' = work \/ (work' = work + 1 /\ \E p \in Processes : Write(p))
    BY RepositoryGrows DEF LeakInv
  <2>2. w = work + 1 /\ \E p \in Processes : Write(p)
    BY <1>0, <1>3, <2>1
  <2>3. PICK p \in Processes : Write(p)
    BY <2>2
  <2>4. /\ mine[p].path \in Uuids /\ checkout'[mine[p].path] # Null
        /\ checkout'[mine[p].path].dirty = checkout[mine[p].path].dirty \cup {work + 1}
    BY <2>3, WriteResult, HerePath DEF LeakInv
  <2>5. PICK u \in Uuids : checkout'[u] # Null /\ w \in checkout'[u].dirty
    BY <2>2, <2>4
  <2> QED BY <2>5 DEF Kept
<1> QED BY <1>2, <1>3

LEMMA WorkInit == ASSUME Init PROVE WorkInv
<1>1. Known = {}
  BY WorktreesAssumption DEF Init, Known
<1>2. FreshNames /\ OnBranch /\ \A p \in Processes : Cleared(p) /\ Counted(p)
  BY DEF Init, FreshNames, OnBranch, Cleared, Counted, At
<1>3. NoWorkLost
  BY DEF Init, NoWorkLost
<1> QED BY <1>1, <1>2, <1>3, LeakInit DEF WorkInv, WorkStands, RecordNames

\* No change of an agent is lost: it stays uncommitted in a checkout or on its
\* HEAD, on a branch or in the base, whoever releases, sweeps, restores, merges
\* or dies, and in whatever order, but for what the code cannot see: what was
\* dirty when git status failed, on a branch when ahead_count failed, on a HEAD
\* or a branch that git branch -f did not save or overwrote, and what was made
\* in a checkout or on a branch that a release had already found clean or
\* empty.
THEOREM NoChangeIsLost == Spec => []NoWorkLost
<1>1. Init => WorkInv
  BY WorkInit
<1>2. WorkInv /\ [Next]_vars => WorkInv'
  BY LeakKept, StandsStep, ChangesStay DEF WorkInv
<1>3. WorkInv => NoWorkLost
  BY DEF WorkInv
<1> QED BY <1>1, <1>2, <1>3, PTL DEF Spec

=============================================================================
