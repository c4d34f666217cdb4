------------------------------ MODULE Worktrees ------------------------------
(***************************************************************************)
(* The worktrees of one workflow's agent in one repository:                *)
(* src/cecli/helpers/worktrees/manager.py, as main.py calls it at start    *)
(* and exit and helpers/agents/service.py around each run.                 *)
(*                                                                         *)
(* Several cecli processes share the repository and the registry file.  A  *)
(* call of git is a step, and so is a transaction on the registry; a       *)
(* process may die between any two.  Within a release a call of git may    *)
(* also fail; the code often takes that for an answer.  A checkout is      *)
(* known by the number of the uuid its path was made from.                 *)
(***************************************************************************)
EXTENDS Integers, FiniteSetsExt

CONSTANTS
  Processes,    \* each with a pid of its own, started once
  Null,
  Detached,     \* a HEAD that is not on a branch
  MaxAlive,     \* bound: processes at a time
  MaxFaults,    \* bound: crashes and calls of git that fail
  MaxUuids,     \* bound: agents that get a worktree
  MaxWork,      \* bound: changes made by agents
  MaxMoves      \* bound: branches switched, detached or merged, and sessions saved

Uuids == 1..MaxUuids
Works == 1..MaxWork
\* A branch made by the manager, one the agent made itself, and what release
\* saves of a detached HEAD.
Branches == {"cecli", "agent", "cecli-detached", "agent-detached"} \X Uuids

Records == [uuid : Uuids, path : Uuids, branch : Branches, base : SUBSET Works,
            pid : Processes, created : Uuids]

Phases == {"new", "sweeping", "up", "adding", "replacing", "working", "cleaning", "exiting", "dead"}
ReleaseSteps == {"commit", "inspect", "count", "remove", "drop", "dropMissing", "discard", "disown"}
Releases == [step : ReleaseSteps, record : Records, dirty : BOOLEAN,
             active : Branches \cup {Detached}, ahead : BOOLEAN]
Checkouts == [head : Branches \cup {Detached}, at : SUBSET Works, dirty : SUBSET Works]

ASSUME WorktreesAssumption ==
  /\ MaxAlive \in Nat /\ MaxFaults \in Nat /\ MaxUuids \in Nat /\ MaxWork \in Nat /\ MaxMoves \in Nat
  /\ Null \notin Processes \cup Records \cup Releases \cup Checkouts
  /\ \A set \in SUBSET Works : set # Null
  /\ Detached \notin Branches

VARIABLES
  \* the repository
  main,         \* what the base branch contains: commits are sets of changes
  branch,       \* what each branch contains
  checkout,     \* path -> where HEAD is, what it contains, what is not committed
  \* the manager's directory
  registry,     \* uuid -> record
  lock,         \* the process in _repo_lock
  \* processes
  pc,           \* what each one is doing
  mine,         \* the record its agent works with
  todo,         \* the records it is to release
  release,      \* the release in progress
  session,      \* what a session has saved
  uuids, work, moves, faults,
  \* history
  atRisk,       \* changes the manager no longer looks at
  orphans,      \* checkouts whose record was never written, or thrown away
  contested     \* checkouts taken while another process was at them

repository == <<main, branch, checkout>>
processes == <<pc, mine, todo, release>>
counters == <<session, uuids, work, moves, faults>>
history == <<atRisk, orphans, contested>>
vars == <<repository, registry, lock, processes, counters, history>>

HistoryTypeOK ==
  /\ moves \in 0..MaxMoves /\ faults \in 0..MaxFaults
  /\ atRisk \subseteq Works /\ orphans \subseteq Uuids /\ contested \subseteq Uuids

WorktreesTypeOK ==
  /\ main \subseteq Works
  /\ branch \in [Branches -> {Null} \cup SUBSET Works]
  /\ checkout \in [Uuids -> {Null} \cup Checkouts]
  /\ registry \in [Uuids -> {Null} \cup Records]
  /\ \A u \in Uuids : registry[u] # Null => registry[u].uuid = u
  /\ lock \in Processes \cup {Null}
  /\ pc \in [Processes -> Phases]
  /\ mine \in [Processes -> {Null} \cup Records]
  /\ release \in [Processes -> {Null} \cup Releases]
  /\ todo \in [Processes -> SUBSET Records]
  /\ \A p \in Processes :
       release[p] # Null \/ todo[p] # {} => pc[p] \in {"sweeping", "cleaning", "exiting"}
  /\ session \in {Null} \cup Records
  /\ uuids \in 0..MaxUuids /\ work \in 0..MaxWork
  /\ HistoryTypeOK

Init ==
  /\ main = {}
  /\ branch = [b \in Branches |-> Null]
  /\ checkout = [u \in Uuids |-> Null]
  /\ registry = [u \in Uuids |-> Null]
  /\ lock = Null
  /\ pc = [p \in Processes |-> "new"]
  /\ mine = [p \in Processes |-> Null]
  /\ todo = [p \in Processes |-> {}]
  /\ release = [p \in Processes |-> Null]
  /\ session = Null /\ uuids = 0 /\ work = 0 /\ moves = 0 /\ faults = 0
  /\ atRisk = {} /\ orphans = {} /\ contested = {}

Recorded == {registry[u] : u \in {v \in Uuids : registry[v] # Null}}
Alive(p) == pc[p] \notin {"new", "dead"}

\* Branches git has checked out: it neither deletes nor checks them out again.
CheckedOut == {checkout[u].head : u \in {v \in Uuids : checkout[v] # Null}}

\* What HEAD of a checkout contains.
Head(u) == IF checkout[u].head = Detached THEN checkout[u].at ELSE branch[checkout[u].head]

Fresh(b) == [head |-> b, at |-> {}, dirty |-> {}]

At(p, step) == release[p] # Null /\ release[p].step = step

Move == moves < MaxMoves /\ moves' = moves + 1

\* A call of git that need not succeed.
MayFail(fails) ==
  /\ fails => faults < MaxFaults
  /\ faults' = IF fails THEN faults + 1 ELSE faults

\* The records somebody releases or is about to.
Releasing == UNION {todo[p] \cup (IF release[p] = Null THEN {} ELSE {release[p].record}) : p \in Processes}

-----------------------------------------------------------------------------
(* create.                                                                 *)

\* _find_reusable: the latest record with a checkout.
Reusable == {r \in Recorded : checkout[r.path] # Null}
Latest(set) == CHOOSE r \in set : \A s \in set : s.created <= r.created

\* No check is made: the path may be another agent's, or be released.
Contended(p, path) ==
  \/ \E q \in Processes \ {p} : mine[q] # Null /\ mine[q].path = path
  \/ \E r \in Releasing : r.path = path
Take(p, path) == contested' = contested \cup {u \in {path} : Contended(p, u)}

Adopted(p, r) == [r EXCEPT !.pid = p]

\* Broken variant of Adopt: the owner is not refreshed.
AdoptQuietly(p) ==
  /\ pc[p] = "up" /\ lock = Null
  /\ Reusable # {}
  /\ mine' = [mine EXCEPT ![p] = Adopted(p, Latest(Reusable))]
  /\ Take(p, Latest(Reusable).path)
  /\ pc' = [pc EXCEPT ![p] = "working"]
  /\ UNCHANGED <<repository, registry, lock, todo, release, counters, atRisk, orphans>>

\* A checkout of the workflow is there: it changes owner.
Adopt(p) ==
  /\ pc[p] = "up" /\ lock = Null
  /\ Reusable # {}
  /\ LET r == Adopted(p, Latest(Reusable))
     IN  /\ registry' = [registry EXCEPT ![r.uuid] = r]
         /\ mine' = [mine EXCEPT ![p] = r]
         /\ Take(p, r.path)
  /\ pc' = [pc EXCEPT ![p] = "working"]
  /\ UNCHANGED <<repository, lock, todo, release, counters, atRisk, orphans>>

\* git worktree add, on a new branch at the base.
AddWorktree(p) ==
  /\ pc[p] = "up" /\ lock = Null
  /\ Reusable = {} /\ uuids < MaxUuids
  /\ LET u == uuids + 1
         b == <<"cecli", u>>
     IN  /\ branch' = [branch EXCEPT ![b] = main]
         /\ checkout' = [checkout EXCEPT ![u] = Fresh(b)]
         /\ mine' = [mine EXCEPT ![p] = [uuid |-> u, path |-> u, branch |-> b, base |-> main,
                                         pid |-> p, created |-> u]]
         /\ uuids' = u
  /\ lock' = p
  /\ pc' = [pc EXCEPT ![p] = "adding"]
  /\ UNCHANGED <<main, registry, todo, release, session, work, moves, faults, history>>

\* Broken variant of SaveRecord: the record is left to the exit.
SaveNothing(p) ==
  /\ pc[p] = "adding"
  /\ lock' = Null
  /\ pc' = [pc EXCEPT ![p] = "working"]
  /\ UNCHANGED <<repository, registry, mine, todo, release, counters, history>>

SaveRecord(p) ==
  /\ pc[p] = "adding"
  /\ registry' = [registry EXCEPT ![mine[p].uuid] = mine[p]]
  /\ lock' = Null
  /\ pc' = [pc EXCEPT ![p] = "working"]
  /\ UNCHANGED <<repository, mine, todo, release, counters, history>>

-----------------------------------------------------------------------------
(* recreate, for the record of a saved session.                            *)

SaveSession(p) ==
  /\ pc[p] = "working"
  /\ session = Null /\ Move
  /\ session' = mine[p]
  /\ UNCHANGED <<repository, registry, lock, processes, uuids, work, faults, history>>

\* The record a recreation saves.
Recreated(p, path, b) ==
  [session EXCEPT !.uuid = uuids + 1, !.path = path, !.branch = b, !.pid = p]

\* Its checkout is there: taken without the lock.
Reattach(p) ==
  /\ pc[p] = "up"
  /\ session # Null /\ uuids < MaxUuids
  /\ checkout[session.path] # Null
  /\ contested' = contested \cup
       {u \in {session.path} : Contended(p, u) \/ \E r \in Recorded : r.path = u /\ r.uuid # session.uuid}
  /\ LET head == checkout[session.path].head
     IN  mine' = [mine EXCEPT ![p] =
                    Recreated(p, session.path, IF head = Detached THEN session.branch ELSE head)]
  /\ uuids' = uuids + 1
  /\ pc' = [pc EXCEPT ![p] = "replacing"]
  /\ UNCHANGED <<repository, registry, lock, todo, release, session, work, moves, faults, atRisk, orphans>>

\* It is gone, and the workflow has another one: adopted, and the record of
\* the session is discarded.
AdoptOther(p) ==
  /\ pc[p] = "up" /\ lock = Null
  /\ session # Null
  /\ checkout[session.path] = Null
  /\ Reusable # {}
  /\ LET r == Adopted(p, Latest(Reusable))
     IN  /\ registry' = [u \in Uuids |-> IF u = r.uuid THEN r
                                         ELSE IF u = session.uuid THEN Null ELSE registry[u]]
         /\ mine' = [mine EXCEPT ![p] = r]
         /\ Take(p, r.path)
  /\ pc' = [pc EXCEPT ![p] = "working"]
  /\ UNCHANGED <<repository, lock, todo, release, counters, atRisk, orphans>>

\* What the branch of a recreated checkout contains: what the saved branch
\* contains, or the recorded base if that is gone.
Restored == IF branch[session.branch] = Null THEN session.base ELSE branch[session.branch]

\* ... or has none: the saved branch is attached, or if it is checked out
\* elsewhere a new one at its tip.
Rebuild(p) ==
  /\ pc[p] = "up" /\ lock = Null
  /\ session # Null /\ uuids < MaxUuids
  /\ checkout[session.path] = Null
  /\ Reusable = {}
  /\ LET u == uuids + 1
         b == IF session.branch \in CheckedOut THEN <<"cecli", u>> ELSE session.branch
     IN  /\ branch' = [branch EXCEPT ![b] = Restored]
         /\ checkout' = [checkout EXCEPT ![u] = Fresh(b)]
         /\ mine' = [mine EXCEPT ![p] = Recreated(p, u, b)]
         /\ uuids' = u
  /\ pc' = [pc EXCEPT ![p] = "replacing"]
  /\ UNCHANGED <<main, registry, lock, todo, release, session, work, moves, faults, history>>

\* _replace_record, out of the lock.
ReplaceRecord(p) ==
  /\ pc[p] = "replacing"
  /\ registry' = [registry EXCEPT ![session.uuid] = Null, ![mine[p].uuid] = mine[p]]
  /\ pc' = [pc EXCEPT ![p] = "working"]
  /\ UNCHANGED <<repository, lock, mine, todo, release, counters, history>>

-----------------------------------------------------------------------------
(* The agent in its checkout, and the user.                                *)

Here(p) == pc[p] = "working" /\ checkout[mine[p].path] # Null

\* A release that has read the status does not see what is written after.
StatusRead(u) == \E p \in Processes :
  (At(p, "inspect") \/ At(p, "count") \/ At(p, "remove")) /\ release[p].record.path = u

Write(p) ==
  /\ Here(p) /\ work < MaxWork
  /\ checkout' = [checkout EXCEPT ![mine[p].path].dirty = @ \cup {work + 1}]
  /\ work' = work + 1
  /\ atRisk' = atRisk \cup {w \in {work + 1} : StatusRead(mine[p].path)}
  /\ UNCHANGED <<main, branch, registry, lock, processes, session, uuids, moves, faults, orphans, contested>>

\* Nor one that has found a branch empty what is committed on it after.
FoundEmpty(b) == \E p \in Processes :
  /\ At(p, "remove") \/ At(p, "drop") \/ At(p, "dropMissing")
  /\ release[p].record.branch = b /\ ~release[p].ahead

\* git add -A; git commit.
CommitAll(u) ==
  /\ checkout' = [checkout EXCEPT ![u].dirty = {},
                                  ![u].at = IF checkout[u].head = Detached THEN @ \cup checkout[u].dirty ELSE @]
  /\ branch' = [b \in Branches |-> IF b = checkout[u].head THEN branch[b] \cup checkout[u].dirty ELSE branch[b]]
  /\ atRisk' = IF FoundEmpty(checkout[u].head) THEN atRisk \cup checkout[u].dirty ELSE atRisk

Commit(p) ==
  /\ Here(p) /\ checkout[mine[p].path].dirty # {}
  /\ CommitAll(mine[p].path)
  /\ UNCHANGED <<main, registry, lock, processes, counters, orphans, contested>>

SavedName(b) == <<IF b[1] = "cecli" THEN "cecli-detached" ELSE "agent-detached", b[2]>>

\* git checkout --detach.
Detach(p) ==
  /\ Here(p) /\ checkout[mine[p].path].head # Detached
  /\ Move
  /\ checkout' = [checkout EXCEPT ![mine[p].path].head = Detached, ![mine[p].path].at = Head(mine[p].path)]
  /\ UNCHANGED <<main, branch, registry, lock, processes, session, uuids, work, faults, history>>

\* git checkout -b.
SwitchBranch(p) ==
  /\ Here(p) /\ Move
  /\ LET b == <<"agent", mine[p].path>>
     IN  /\ branch[b] = Null
         /\ branch' = [branch EXCEPT ![b] = Head(mine[p].path)]
         /\ checkout' = [checkout EXCEPT ![mine[p].path].head = b, ![mine[p].path].at = {}]
  /\ UNCHANGED <<main, registry, lock, processes, session, uuids, work, faults, history>>

\* The user merges a branch that was kept into the base.
Merge(b) ==
  /\ Move
  /\ branch[b] # Null /\ b \notin CheckedOut /\ ~(branch[b] \subseteq main)
  /\ main' = main \cup branch[b]
  /\ UNCHANGED <<branch, checkout, registry, lock, processes, session, uuids, work, faults, history>>

-----------------------------------------------------------------------------
(* Who releases, and when.                                                 *)

\* Records are looked up while a recreation is about to replace one of them.
Overtake(p) == contested' = contested \cup
  {u \in {r.path : r \in todo'[p]} : \E q \in Processes : pc[q] = "replacing" /\ mine[q].path = u}

\* sweep_stale: the records of processes that are gone.
Start(p) ==
  /\ pc[p] = "new"
  /\ Cardinality({q \in Processes : Alive(q)}) < MaxAlive
  /\ todo' = [todo EXCEPT ![p] = {r \in Recorded : ~Alive(r.pid)}]
  /\ Overtake(p)
  /\ pc' = [pc EXCEPT ![p] = IF todo'[p] = {} THEN "up" ELSE "sweeping"]
  /\ UNCHANGED <<repository, registry, lock, mine, release, counters, atRisk, orphans>>

\* _cleanup_sub_agent, or the agent's coder could not be created.
Cleanup(p) ==
  /\ pc[p] = "working"
  /\ pc' = [pc EXCEPT ![p] = "cleaning"]
  /\ todo' = [todo EXCEPT ![p] = {mine[p]}]
  /\ UNCHANGED <<repository, registry, lock, mine, release, counters, history>>

\* release_all: the records of this process; its agents have been stopped.
Exit(p) ==
  /\ pc[p] \in {"up", "working"}
  /\ todo' = [todo EXCEPT ![p] = {r \in Recorded : r.pid = p}]
  /\ Overtake(p)
  /\ pc' = [pc EXCEPT ![p] = IF todo'[p] = {} THEN "dead" ELSE "exiting"]
  /\ mine' = [mine EXCEPT ![p] = Null]
  /\ UNCHANGED <<repository, registry, lock, release, counters, atRisk, orphans>>

\* Broken variant of Released: the last release is not waited for.
ReleasedEarly(p) ==
  /\ todo[p] = {}
  /\ \/ pc[p] \in {"sweeping", "cleaning"} /\ pc' = [pc EXCEPT ![p] = "up"]
     \/ pc[p] = "exiting" /\ pc' = [pc EXCEPT ![p] = "dead"]
  /\ mine' = [mine EXCEPT ![p] = Null]
  /\ UNCHANGED <<repository, registry, lock, todo, release, counters, history>>

\* All released, or given up.
Released(p) ==
  /\ todo[p] = {} /\ release[p] = Null
  /\ \/ pc[p] \in {"sweeping", "cleaning"} /\ pc' = [pc EXCEPT ![p] = "up"]
     \/ pc[p] = "exiting" /\ pc' = [pc EXCEPT ![p] = "dead"]
  /\ mine' = [mine EXCEPT ![p] = Null]
  /\ UNCHANGED <<repository, registry, lock, todo, release, counters, history>>

-----------------------------------------------------------------------------
(* release.                                                                *)

Ahead(r) == branch[r.branch] # Null /\ ~(branch[r.branch] \subseteq r.base)

\* ahead_count gives 0 when git fails: a branch of the manager is taken for
\* empty, whatever it has.
Misjudged(r) == IF r.branch[1] = "cecli" /\ branch[r.branch] # Null THEN branch[r.branch] \ main ELSE {}
Count(r, fails) ==
  /\ MayFail(fails)
  /\ atRisk' = IF fails THEN atRisk \cup Misjudged(r) ELSE atRisk

Begun(p, r, step, ahead) ==
  release' = [release EXCEPT ![p] = [step |-> step, record |-> r, dirty |-> step = "commit",
                                     active |-> r.branch, ahead |-> ahead]]

\* The path is gone.
BeginMissing(p, r) ==
  /\ checkout[r.path] = Null
  /\ \E fails \in BOOLEAN : Count(r, fails) /\ Begun(p, r, "dropMissing", Ahead(r) /\ ~fails)

\* _is_worktree gets no answer from git, and the path counts as not managed.
BeginUnmanaged(p, r) ==
  /\ checkout[r.path] # Null
  /\ MayFail(TRUE)
  /\ Begun(p, r, "disown", FALSE)
  /\ UNCHANGED atRisk

\* The status is read; a git status that fails reads as a clean one.
BeginStatus(p, r) ==
  /\ checkout[r.path] # Null
  /\ \E fails \in BOOLEAN :
       /\ MayFail(fails)
       /\ Begun(p, r, IF checkout[r.path].dirty # {} /\ ~fails THEN "commit" ELSE "inspect", FALSE)
       /\ atRisk' = IF fails THEN atRisk \cup checkout[r.path].dirty ELSE atRisk

BeginRelease(p, r) ==
  /\ release[p] = Null /\ r \in todo[p]
  /\ todo' = [todo EXCEPT ![p] = @ \ {r}]
  /\ BeginMissing(p, r) \/ BeginUnmanaged(p, r) \/ BeginStatus(p, r)
  /\ UNCHANGED <<repository, registry, lock, pc, mine, session, uuids, work, moves, orphans, contested>>

Path(p) == release[p].record.path
Advance(p, step) == release' = [release EXCEPT ![p].step = step]
Abandon(p) == release' = [release EXCEPT ![p] = Null]

\* _commit_dirty; with nothing left to commit git fails, and so does release.
CommitDirty(p) ==
  /\ At(p, "commit")
  /\ IF checkout[Path(p)] # Null /\ checkout[Path(p)].dirty # {}
     THEN CommitAll(Path(p)) /\ Advance(p, "inspect")
     ELSE UNCHANGED <<branch, checkout, atRisk>> /\ Abandon(p)
  /\ UNCHANGED <<main, registry, lock, pc, mine, todo, counters, orphans, contested>>

\* Commits of a HEAD that are on no branch.
Unsaved(u) == {w \in Head(u) \ main : \A b \in Branches : branch[b] # Null => w \notin branch[b]}

\* git branch -f: what was saved under the name before is not looked at.
SaveHead(p) ==
  LET b == SavedName(release[p].record.branch)
  IN  /\ branch' = [branch EXCEPT ![b] = Head(Path(p))]
      /\ atRisk' = IF branch[b] = Null THEN atRisk ELSE atRisk \cup (branch[b] \ Head(Path(p)))

\* Which branch is checked out, and a branch for a detached HEAD if there was
\* something to commit or, the count being made in the user's checkout
\* (cwd=repo), the user's own HEAD is ahead of the base.  A current_branch
\* that fails reads as a detached HEAD; git branch -f may fail unseen.
Inspect(p) ==
  /\ At(p, "inspect")
  /\ IF checkout[Path(p)] = Null
     THEN Abandon(p) /\ UNCHANGED <<branch, atRisk, faults>>
     ELSE \E failing \in {"none", "current_branch", "branch -f"}, userAhead \in BOOLEAN :
            LET active == IF failing = "current_branch" THEN Detached ELSE checkout[Path(p)].head
            IN  /\ MayFail(failing # "none")
                /\ release' = [release EXCEPT ![p].step = "count", ![p].active = active]
                /\ IF active = Detached /\ (release[p].dirty \/ userAhead) /\ failing # "branch -f"
                   THEN SaveHead(p)
                   ELSE UNCHANGED branch /\ atRisk' = atRisk \cup Unsaved(Path(p))
  /\ UNCHANGED <<main, checkout, registry, lock, pc, mine, todo, session, uuids, work, moves, orphans, contested>>

\* Whether the recorded branch is ahead.
CountAhead(p) ==
  /\ At(p, "count")
  /\ \E fails \in BOOLEAN :
       /\ Count(release[p].record, fails)
       /\ release' = [release EXCEPT ![p].step = "remove", ![p].ahead = Ahead(release[p].record) /\ ~fails]
  /\ UNCHANGED <<repository, registry, lock, pc, mine, todo, session, uuids, work, moves, orphans, contested>>

\* git worktree remove --force, in the lock.
RemoveWorktree(p) ==
  /\ At(p, "remove") /\ lock = Null
  /\ IF checkout[Path(p)] = Null
     THEN Abandon(p) /\ UNCHANGED <<checkout, lock>>
     ELSE /\ checkout' = [checkout EXCEPT ![Path(p)] = Null]
          /\ lock' = p
          /\ Advance(p, "drop")
  /\ UNCHANGED <<main, branch, registry, pc, mine, todo, counters, history>>

\* Broken variant of Droppable: whatever the branch contains.
DroppableAlways(r, ahead) == r.branch[1] = "cecli" /\ r.branch \notin CheckedOut

\* _drop_empty_branch deletes a managed branch that has nothing of its own;
\* git refuses while it is checked out.
Droppable(r, ahead) ==
  /\ r.branch[1] = "cecli" /\ r.branch \notin CheckedOut
  /\ branch[r.branch] # Null
  /\ ~ahead \/ branch[r.branch] \subseteq main

Dropped(r, ahead) ==
  [b \in Branches |-> IF b = r.branch /\ Droppable(r, ahead) THEN Null ELSE branch[b]]

\* Still in the lock, unless the agent had switched branches.  A git that
\* fails leaves the branch.
DropBranch(p) ==
  /\ At(p, "drop")
  /\ \E fails \in BOOLEAN :
       /\ MayFail(fails)
       /\ branch' = IF release[p].active = release[p].record.branch /\ ~fails
                    THEN Dropped(release[p].record, release[p].ahead) ELSE branch
  /\ lock' = Null
  /\ Advance(p, "discard")
  /\ UNCHANGED <<main, checkout, registry, pc, mine, todo, session, uuids, work, moves, history>>

\* The same for a path that was gone, without the lock.
DropMissing(p) ==
  /\ At(p, "dropMissing")
  /\ \E fails \in BOOLEAN :
       /\ MayFail(fails)
       /\ branch' = IF fails THEN branch ELSE Dropped(release[p].record, release[p].ahead)
  /\ Advance(p, "discard")
  /\ UNCHANGED <<main, checkout, registry, lock, pc, mine, todo, session, uuids, work, moves, history>>

\* Its checkout may still be there if it was taken for unmanaged.
DiscardRecord(p) ==
  /\ At(p, "discard") \/ At(p, "disown")
  /\ registry' = [registry EXCEPT ![release[p].record.uuid] = Null]
  /\ orphans' = IF At(p, "disown") THEN orphans \cup {Path(p)} ELSE orphans
  /\ Abandon(p)
  /\ UNCHANGED <<repository, lock, pc, mine, todo, counters, atRisk, contested>>

\* Untracked files are too large, git fails to commit or to remove, or it
\* cannot be run at all, which ends a release wherever it is.
GiveUp(p) ==
  /\ release[p] # Null /\ ~At(p, "discard") /\ ~At(p, "disown")
  /\ At(p, "remove") => lock = Null
  /\ MayFail(TRUE)
  /\ lock' = IF At(p, "drop") THEN Null ELSE lock
  /\ Abandon(p)
  /\ UNCHANGED <<repository, registry, pc, mine, todo, session, uuids, work, moves, history>>

\* Between git worktree add and the record: only the process knows.
Unrecorded(p) == pc[p] \in {"adding", "replacing"} /\ mine[p].uuid = mine[p].path

\* The process dies; the system frees its lock.
Crash(p) ==
  /\ Alive(p)
  /\ MayFail(TRUE)
  /\ lock' = IF lock = p THEN Null ELSE lock
  /\ orphans' = IF Unrecorded(p) THEN orphans \cup {mine[p].path} ELSE orphans
  /\ pc' = [pc EXCEPT ![p] = "dead"]
  /\ todo' = [todo EXCEPT ![p] = {}]
  /\ release' = [release EXCEPT ![p] = Null]
  /\ mine' = [mine EXCEPT ![p] = Null]
  /\ UNCHANGED <<repository, registry, session, uuids, work, moves, atRisk, contested>>

Step(p) ==
  \/ SaveRecord(p) \/ ReplaceRecord(p) \/ Released(p)
  \/ \E r \in todo[p] : BeginRelease(p, r)
  \/ CommitDirty(p) \/ Inspect(p) \/ CountAhead(p) \/ RemoveWorktree(p)
  \/ DropBranch(p) \/ DropMissing(p) \/ DiscardRecord(p)

Next ==
  \/ \E p \in Processes :
       \/ Step(p) \/ Start(p) \/ Adopt(p) \/ AddWorktree(p)
       \/ SaveSession(p) \/ Reattach(p) \/ AdoptOther(p) \/ Rebuild(p)
       \/ Write(p) \/ Commit(p) \/ Detach(p) \/ SwitchBranch(p)
       \/ Cleanup(p) \/ Exit(p) \/ GiveUp(p) \/ Crash(p)
  \/ \E b \in Branches : Merge(b)

Spec == Init /\ [][Next]_vars

-----------------------------------------------------------------------------

Kept(w) ==
  \/ w \in main
  \/ \E b \in Branches : branch[b] # Null /\ w \in branch[b]
  \/ \E u \in Uuids : checkout[u] # Null /\ (w \in checkout[u].at \/ w \in checkout[u].dirty)

\* No work is lost but in the ways the code cannot see: every change an agent
\* made is uncommitted in a checkout, or on its HEAD, on a branch or in the
\* base, whatever releases, sweeps, recreations, merges, crashes and failures
\* of git meet ("the branch is kept so the work is not lost", release).  What
\* is lost was dirty when git status failed, on a branch when ahead_count
\* failed, on a HEAD or a branch git branch -f did not save or overwrote, or
\* made in a checkout while a release of it, or of its branch, had gone past.
NoWorkLost == \A w \in 1..work \ atRisk : Kept(w)

\* What the documentation says: "committing unfinished changes so nothing is
\* lost".  One git status that fails breaks it.
WorkKept == \A w \in 1..work : Kept(w)

\* Every checkout has a record by which it will be released, or is in the
\* hands of the process that has just made it, unless that one died before it
\* wrote the record, or a release threw the record away because git did not
\* answer: after any other crash the next sweep finds it.
NothingLeaks ==
  \A u \in Uuids \ orphans : checkout[u] # Null =>
    \/ \E r \in Recorded : r.path = u
    \/ \E p \in Processes : Unrecorded(p) /\ mine[p].path = u

\* The same of all: a crash between git worktree add and the registry breaks it.
AllRecorded ==
  \A u \in Uuids : checkout[u] # Null =>
    \/ \E r \in Recorded : r.path = u
    \/ \E p \in Processes : Unrecorded(p) /\ mine[p].path = u

\* Nobody takes a checkout from an agent at work, and its record names the
\* process it works in, so that a sweep elsewhere leaves it alone; unless it
\* was taken while another process was at it or releasing it, or restored
\* where a sweep or an exit still had the record of before.
OwnerKeepsCheckout ==
  \A p \in Processes : pc[p] = "working" /\ mine[p].path \notin contested =>
    /\ checkout[mine[p].path] # Null
    /\ \E r \in Recorded : r.path = mine[p].path /\ r.pid = p

\* What the documentation says: "concurrent workflow runs share one
\* checkout".  The first to end removes it.
SharersKeepCheckout == \A p \in Processes : pc[p] = "working" => checkout[mine[p].path] # Null

=============================================================================
