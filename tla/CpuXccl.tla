------------------------------ MODULE CpuXccl -------------------------------
(***************************************************************************)
(* The collectives of the custom_cpu plugin                                *)
(* (src/backends/custom_cpu/runtime/runtime.cc): XcclAllReduce and         *)
(* XcclBroadcast move no data; they meet at two named semaphores that all  *)
(* the processes of a communicator open.                                   *)
(*                                                                         *)
(* A process is one rank; a step is one call on a semaphore.  External: the*)
(* semaphores.  A name refers to the semaphore created last; sem_unlink    *)
(* frees the name, and who has the semaphore open keeps it.                *)
(***************************************************************************)
EXTENDS Integers, FiniteSets

CONSTANTS
  Ranks,        \* the processes
  Root,         \* rank 0
  MaxCalls,     \* collectives each rank makes before it destroys its comm
  MaxNames,     \* bound on the semaphores created under one name
  Lockstep      \* a rank makes its next call when all have returned

ASSUME RanksAssumption == IsFiniteSet(Ranks) /\ Root \in Ranks
ASSUME CallsAssumption == MaxCalls \in Nat \ {0}
ASSUME NamesAssumption == MaxNames \in Nat \ {0}

nranks == Cardinality(Ranks)
Sems == 1..MaxNames

VARIABLES
  name, name2,  \* the semaphore each of the two names refers to, 0: none
  created, created2,    \* the semaphores created so far
  value, value2,        \* their values
  sig, sig2,    \* the comm of each rank: what it has open
  pc,
  i,            \* the loop counter of rank 0
  entered, returned     \* collectives of each rank

names == <<name, name2, created, created2>>
comms == <<sig, sig2>>
vars  == <<names, value, value2, comms, pc, i, entered, returned>>

Goto(r, label) == pc' = [pc EXCEPT ![r] = label]

Init ==
  /\ name = 0 /\ name2 = 0 /\ created = 0 /\ created2 = 0
  /\ value = [x \in Sems |-> 0] /\ value2 = [x \in Sems |-> 0]
  /\ sig = [r \in Ranks |-> 0] /\ sig2 = [r \in Ranks |-> 0]
  /\ pc = [r \in Ranks |-> "start"]
  /\ i = 0
  /\ entered = [r \in Ranks |-> 0] /\ returned = [r \in Ranks |-> 0]

(***************************************************************************)
(* XcclCommInitRank: sem_open with O_CREAT, value 0, of either name.       *)
(***************************************************************************)
OpenSig(r) ==
  /\ pc[r] = "start"
  /\ IF name # 0
     THEN /\ sig' = [sig EXCEPT ![r] = name]
          /\ UNCHANGED <<name, created>>
     ELSE /\ created < MaxNames
          /\ created' = created + 1 /\ name' = created + 1
          /\ sig' = [sig EXCEPT ![r] = created + 1]
  /\ Goto(r, "open2")
  /\ UNCHANGED <<name2, created2, value, value2, sig2, i, entered, returned>>

OpenSig2(r) ==
  /\ pc[r] = "open2"
  /\ IF name2 # 0
     THEN /\ sig2' = [sig2 EXCEPT ![r] = name2]
          /\ UNCHANGED <<name2, created2>>
     ELSE /\ created2 < MaxNames
          /\ created2' = created2 + 1 /\ name2' = created2 + 1
          /\ sig2' = [sig2 EXCEPT ![r] = created2 + 1]
  /\ Goto(r, "idle")
  /\ UNCHANGED <<name, created, value, value2, sig, i, entered, returned>>

(***************************************************************************)
(* XcclAllReduce and XcclBroadcast.                                        *)
(***************************************************************************)
Post(r) ==
  /\ pc[r] = "idle" /\ entered[r] < MaxCalls
  /\ Lockstep => \A q \in Ranks : returned[q] >= entered[r]
  /\ value' = [value EXCEPT ![sig[r]] = @ + 1]
  /\ entered' = [entered EXCEPT ![r] = @ + 1]
  /\ Goto(r, IF r = Root THEN "gather" ELSE "wait")
  /\ UNCHANGED <<names, value2, comms, i, returned>>

(* A bug: rank 0 does not count itself.                                    *)
GatherFewer ==
  /\ pc[Root] = "gather"
  /\ \/ /\ i < nranks - 1 /\ value[sig[Root]] > 0
        /\ value' = [value EXCEPT ![sig[Root]] = @ - 1]
        /\ i' = i + 1
        /\ UNCHANGED pc
     \/ /\ i = nranks - 1
        /\ i' = 0
        /\ Goto(Root, "release")
        /\ UNCHANGED value
  /\ UNCHANGED <<names, value2, comms, entered, returned>>

Gather ==
  /\ pc[Root] = "gather"
  /\ \/ /\ i < nranks /\ value[sig[Root]] > 0
        /\ value' = [value EXCEPT ![sig[Root]] = @ - 1]
        /\ i' = i + 1
        /\ UNCHANGED pc
     \/ /\ i = nranks
        /\ i' = 0
        /\ Goto(Root, "release")
        /\ UNCHANGED value
  /\ UNCHANGED <<names, value2, comms, entered, returned>>

(* A bug: rank 0 does not release itself.                                  *)
ReleaseFewer ==
  /\ pc[Root] = "release"
  /\ \/ /\ i < nranks - 1
        /\ value2' = [value2 EXCEPT ![sig2[Root]] = @ + 1]
        /\ i' = i + 1
        /\ UNCHANGED pc
     \/ /\ i = nranks - 1
        /\ i' = 0
        /\ Goto(Root, "wait")
        /\ UNCHANGED value2
  /\ UNCHANGED <<names, value, comms, entered, returned>>

(* A bug: one too many.                                                    *)
ReleaseMore ==
  /\ pc[Root] = "release"
  /\ \/ /\ i <= nranks
        /\ value2' = [value2 EXCEPT ![sig2[Root]] = @ + 1]
        /\ i' = i + 1
        /\ UNCHANGED pc
     \/ /\ i = nranks + 1
        /\ i' = 0
        /\ Goto(Root, "wait")
        /\ UNCHANGED value2
  /\ UNCHANGED <<names, value, comms, entered, returned>>

Release ==
  /\ pc[Root] = "release"
  /\ \/ /\ i < nranks
        /\ value2' = [value2 EXCEPT ![sig2[Root]] = @ + 1]
        /\ i' = i + 1
        /\ UNCHANGED pc
     \/ /\ i = nranks
        /\ i' = 0
        /\ Goto(Root, "wait")
        /\ UNCHANGED value2
  /\ UNCHANGED <<names, value, comms, entered, returned>>

Wait(r) ==
  /\ pc[r] = "wait" /\ value2[sig2[r]] > 0
  /\ value2' = [value2 EXCEPT ![sig2[r]] = @ - 1]
  /\ returned' = [returned EXCEPT ![r] = @ + 1]
  /\ Goto(r, "idle")
  /\ UNCHANGED <<names, value, comms, i, entered>>

(***************************************************************************)
(* XcclDestroyComm: sem_unlink of either name.                             *)
(***************************************************************************)
(* A bug: the comm is torn down before the rank's call has returned.       *)
UnlinkSigEarly(r) ==
  /\ pc[r] \in {"idle", "wait"}
  /\ name' = 0
  /\ Goto(r, "unlink2")
  /\ UNCHANGED <<name2, created, created2, value, value2, comms, i, entered, returned>>

UnlinkSig(r) ==
  /\ pc[r] = "idle" /\ entered[r] = MaxCalls
  /\ name' = 0
  /\ Goto(r, "unlink2")
  /\ UNCHANGED <<name2, created, created2, value, value2, comms, i, entered, returned>>

UnlinkSig2(r) ==
  /\ pc[r] = "unlink2"
  /\ name2' = 0
  /\ sig' = [sig EXCEPT ![r] = 0] /\ sig2' = [sig2 EXCEPT ![r] = 0]
  /\ Goto(r, "done")
  /\ UNCHANGED <<name, created, created2, value, value2, i, entered, returned>>

RankStep(r) ==
  \/ OpenSig(r) \/ OpenSig2(r) \/ Post(r) \/ Wait(r) \/ UnlinkSig(r) \/ UnlinkSig2(r)
  \/ r = Root /\ (Gather \/ Release)

Next == \E r \in Ranks : RankStep(r)

Spec == Init /\ [][Next]_vars

(* Every rank makes all its calls, and keeps running.                      *)
FairSpec == Spec /\ \A r \in Ranks : WF_vars(RankStep(r))

-----------------------------------------------------------------------------
TypeOK ==
  /\ {name, name2, created, created2} \subseteq 0..MaxNames
  /\ value \in [Sems -> 0..nranks] /\ value2 \in [Sems -> 0..nranks]
  /\ sig \in [Ranks -> 0..MaxNames] /\ sig2 \in [Ranks -> 0..MaxNames]
  /\ pc \in [Ranks -> {"start", "open2", "idle", "gather", "release", "wait", "unlink2", "done"}]
  /\ i \in 0..nranks
  /\ entered \in [Ranks -> 0..MaxCalls] /\ returned \in [Ranks -> 0..MaxCalls]

(* A collective is a barrier: no rank returns from its k-th before every   *)
(* rank has entered its k-th.                                              *)
Rendezvous == \A r, q \in Ranks : returned[r] <= entered[q]

(* Whatever the ranks do: none returns from a collective before all have   *)
(* entered their first, and so opened the semaphores it counts on.         *)
FirstRendezvous == \A r, q \in Ranks : returned[r] > 0 => entered[q] > 0

(* The ranks of a communicator meet at the same two semaphores, although   *)
(* the names are opened one by one and unlinked by every rank.             *)
OneCommunicator ==
  \A r, q \in Ranks :
    /\ sig[r] # 0 /\ sig[q] # 0 => sig[r] = sig[q]
    /\ sig2[r] # 0 /\ sig2[q] # 0 => sig2[r] = sig2[q]

(* The two semaphores make a collective the barrier it is to its callers.  *)
Collective == INSTANCE CollectiveBarrier
ImplementsBarrier == Collective!Spec

(* Every collective returns on every rank.                                 *)
CallsReturn == \A r \in Ranks : <>(returned[r] = MaxCalls)
=============================================================================
