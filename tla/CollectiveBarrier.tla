-------------------------- MODULE CollectiveBarrier -------------------------
(***************************************************************************)
(* What a collective that moves no data promises the ranks of a            *)
(* communicator: a rank leaves its k-th call only after every rank has     *)
(* entered its k-th.  How the ranks find each other is not its business.   *)
(***************************************************************************)
EXTENDS Naturals

CONSTANT Ranks

VARIABLES
  entered,   \* the calls each rank has entered
  returned   \* the calls each rank has returned from

vars == <<entered, returned>>

Init ==
  /\ entered = [r \in Ranks |-> 0]
  /\ returned = [r \in Ranks |-> 0]

Enter(r) ==
  /\ entered[r] = returned[r]
  /\ entered' = [entered EXCEPT ![r] = @ + 1]
  /\ UNCHANGED returned

Leave(r) ==
  /\ entered[r] = returned[r] + 1
  /\ \A q \in Ranks : entered[q] >= entered[r]
  /\ returned' = [returned EXCEPT ![r] = @ + 1]
  /\ UNCHANGED entered

Next == \E r \in Ranks : Enter(r) \/ Leave(r)

Spec == Init /\ [][Next]_vars
=============================================================================
