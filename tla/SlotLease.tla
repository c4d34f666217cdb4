----------------------------- MODULE SlotLease -----------------------------
(***************************************************************************)
(* What the scheduler's store promises its clients about each scheduled    *)
(* slot: a lease with at most one holder.  Attempts are granted one after  *)
(* the other and stay on record; a new one is granted only while nobody    *)
(* holds the slot; a lease may lapse at any time; after a lapse only the   *)
(* latest grantee may take it up again.  There is no time in this module   *)
(* and no row: SchedulerDB implements it (LeaseSpec there).                *)
(***************************************************************************)
EXTENDS Integers, Sequences

CONSTANTS Jobs, Slots, Instances

VARIABLES
  grants,  \* grants[j][s]: the instances granted an attempt, in order
  holder   \* holder[j][s]: the attempt holding the lease, 0 for none

vars == <<grants, holder>>

Init ==
  /\ grants = [j \in Jobs |-> [s \in Slots |-> <<>>]]
  /\ holder = [j \in Jobs |-> [s \in Slots |-> 0]]

Grant(j, s, i) ==
  /\ holder[j][s] = 0
  /\ grants' = [grants EXCEPT ![j][s] = Append(@, i)]
  /\ holder' = [holder EXCEPT ![j][s] = Len(grants[j][s]) + 1]

Resume(j, s) ==
  /\ holder[j][s] = 0
  /\ grants[j][s] # <<>>
  /\ holder' = [holder EXCEPT ![j][s] = Len(grants[j][s])]
  /\ UNCHANGED grants

\* Time may end several leases at once.
Lapse ==
  /\ holder' \in [Jobs -> [Slots -> Nat]]
  /\ \A j \in Jobs, s \in Slots : holder'[j][s] \in {0, holder[j][s]}
  /\ UNCHANGED grants

Next ==
  \/ \E j \in Jobs, s \in Slots : Resume(j, s) \/ \E i \in Instances : Grant(j, s, i)
  \/ Lapse

Spec == Init /\ [][Next]_vars

=============================================================================
