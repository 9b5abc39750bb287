--------------------------- MODULE CpuXcclProofs ----------------------------
(***************************************************************************)
(* For any number of ranks.  Whatever the ranks do, they meet at the same  *)
(* semaphores and their first collective is a barrier.  The later ones are *)
(* barriers, so that CpuXccl implements CollectiveBarrier, on a condition  *)
(* the code does not enforce: a rank makes its next call when all have     *)
(* returned from the last one (InTurn).                                    *)
(***************************************************************************)
EXTENDS CpuXccl, FiniteSetTheorems, TLAPS

(* The condition: the ranks call in lockstep, or once only.                *)
InTurn == Lockstep \/ MaxCalls = 1

Labels == {"start", "open2", "idle", "gather", "release", "wait", "unlink2", "done"}

Inside == {r \in Ranks : pc[r] \in {"gather", "release", "wait"}}

Types ==
  /\ name \in {0, 1} /\ created \in {0, 1} /\ name2 \in {0, 1} /\ created2 \in {0, 1}
  /\ value \in [Sems -> Nat] /\ value2 \in [Sems -> Nat]
  /\ sig \in [Ranks -> {0, 1}] /\ sig2 \in [Ranks -> {0, 1}]
  /\ pc \in [Ranks -> Labels]
  /\ i \in 0..nranks
  /\ entered \in [Ranks -> 0..MaxCalls] /\ returned \in [Ranks -> 0..MaxCalls]

(* The semaphore of either name is created once: the names are unlinked    *)
(* only when every rank has opened both.                                   *)
Opening(r) == pc[r] \in {"start", "open2"}
NamesOK ==
  /\ \A r \in Ranks : pc[r] = "start" => name = created
  /\ \A r \in Ranks : Opening(r) => name2 = created2
  /\ \A r \in Ranks : pc[r] \in {"open2", "idle", "gather", "release", "wait"} => sig[r] = 1
  /\ \A r \in Ranks : pc[r] \in {"idle", "gather", "release", "wait"} => sig2[r] = 1
  /\ \A r \in Ranks : Opening(r) => entered[r] = 0
  /\ \A r \in Ranks : pc[r] \in {"gather", "release"} => r = Root
  /\ \A r \in Ranks : pc[r] \in {"unlink2", "done"} => entered[r] = MaxCalls

CountsOK ==
  /\ \A x \in Sems : x # 1 => value[x] = 0 /\ value2[x] = 0
  /\ \A r \in Ranks : entered[r] = returned[r] + (IF r \in Inside THEN 1 ELSE 0)

(* The ranks come in: rank 0 has taken i of the tokens they post.          *)
Collecting ==
  /\ \A r, q \in Ranks : returned[r] = returned[q]
  /\ pc[Root] \notin {"release", "wait"}
  /\ pc[Root] # "gather" => i = 0
  /\ value[1] + i = Cardinality(Inside)
  /\ value2[1] = 0

(* The ranks go out: rank 0 has given i of the tokens they take.           *)
Releasing ==
  /\ \A r, q \in Ranks : entered[r] = entered[q]
  /\ pc[Root] # "gather"
  /\ value[1] = 0
  /\ pc[Root] = "release" => value2[1] + Cardinality(Ranks \ Inside) = i
  /\ pc[Root] # "release" => i = 0 /\ value2[1] = Cardinality(Inside)

BarrierInv == Types /\ NamesOK /\ CountsOK /\ (Collecting \/ Releasing)

-----------------------------------------------------------------------------
(* Constants: one semaphore at least, and a known number of ranks.         *)
LEMMA Sizes == nranks \in Nat /\ nranks >= 1 /\ 1 \in Sems /\ Root \in Ranks
<1>1. nranks \in Nat BY RanksAssumption, FS_CardinalityType DEF nranks
<1>2. nranks # 0 BY RanksAssumption, FS_EmptySet DEF nranks
<1> QED BY <1>1, <1>2, RanksAssumption, NamesAssumption DEF Sems

(* How many ranks are in a collective.                                     *)
LEMMA InsideSize ==
  /\ IsFiniteSet(Inside) /\ Cardinality(Inside) \in Nat /\ Cardinality(Inside) <= nranks
  /\ Cardinality(Inside) = nranks => Inside = Ranks
  /\ Cardinality(Inside) = 0 <=> Inside = {}
  /\ Cardinality(Ranks \ Inside) = nranks - Cardinality(Inside)
<1>1. Inside \in SUBSET Ranks BY DEF Inside
<1>2. /\ IsFiniteSet(Inside) /\ Cardinality(Inside) <= nranks
      /\ Cardinality(Inside) = nranks => Inside = Ranks
  BY <1>1, RanksAssumption, FS_Subset DEF nranks
<1>3. Cardinality(Inside) \in Nat BY <1>2, FS_CardinalityType
<1>4. Cardinality(Inside) = 0 <=> Inside = {} BY <1>2, FS_EmptySet
<1>5. Ranks \cap Inside = Inside BY <1>1
<1>6. Cardinality(Ranks \ Inside) = nranks - Cardinality(Inside)
  BY <1>5, RanksAssumption, FS_Difference DEF nranks
<1> QED BY <1>2, <1>3, <1>4, <1>6

LEMMA InsideGrows ==
  ASSUME NEW r \in Ranks, r \notin Inside, Inside' = Inside \cup {r}
  PROVE  Cardinality(Inside)' = Cardinality(Inside) + 1
BY InsideSize, FS_AddElement

LEMMA InsideShrinks ==
  ASSUME NEW r \in Ranks, r \in Inside, Inside' = Inside \ {r}
  PROVE  Cardinality(Inside)' = Cardinality(Inside) - 1
BY InsideSize, FS_RemoveElement

(* Rendezvous, from the invariant: in either phase the calls of two ranks  *)
(* are less than one apart.                                                *)
LEMMA Together == BarrierInv => Rendezvous
<1> SUFFICES ASSUME BarrierInv, NEW r \in Ranks, NEW q \in Ranks
             PROVE  returned[r] <= entered[q]
  BY DEF Rendezvous
<1>1. /\ returned[r] \in Int /\ returned[q] \in Int
      /\ entered[r] \in Int /\ entered[q] \in Int
  BY CallsAssumption DEF BarrierInv, Types
<1>2. /\ returned[q] <= entered[q] /\ returned[r] <= entered[r]
  BY <1>1 DEF BarrierInv, CountsOK
<1>3. returned[r] = returned[q] \/ entered[r] = entered[q]
  BY DEF BarrierInv, Collecting, Releasing
<1> QED BY <1>1, <1>2, <1>3

THEOREM InitHolds == Init => BarrierInv
<1> SUFFICES ASSUME Init PROVE BarrierInv OBVIOUS
<1>1. Inside = {} BY DEF Init, Inside
<1>2. Cardinality(Inside) = 0 BY <1>1, FS_EmptySet
<1>3. Types BY Sizes, CallsAssumption DEF Init, Types, Labels
<1>4. NamesOK BY DEF Init, NamesOK, Opening
<1>5. CountsOK BY <1>1 DEF Init, CountsOK
<1>6. Collecting BY <1>2, Sizes DEF Init, Collecting
<1> QED BY <1>3, <1>4, <1>5, <1>6 DEF BarrierInv

-----------------------------------------------------------------------------
(* A step that neither enters nor leaves a collective and moves no token   *)
(* keeps the counts and the phase.                                         *)
LEMMA QuietStep ==
  ASSUME BarrierInv, NEW r \in Ranks, NEW l \in Labels,
         Goto(r, l), r \notin Inside, l \notin {"gather", "release", "wait"},
         UNCHANGED <<value, value2, i, entered, returned>>
  PROVE  CountsOK' /\ (Collecting \/ Releasing)'
<1>1. pc \in [Ranks -> Labels] BY DEF BarrierInv, Types
<1>2. Inside' = Inside BY <1>1 DEF Inside, Goto
<1>3. CountsOK' BY <1>2 DEF BarrierInv, CountsOK
<1>4. pc'[Root] \in {"gather", "release", "wait"} <=> pc[Root] \in {"gather", "release", "wait"}
  BY <1>1, Sizes DEF Inside, Goto
<1>5. r = Root \/ pc'[Root] = pc[Root] BY <1>1, Sizes DEF Goto
<1>6. r = Root => /\ pc[Root] \notin {"gather", "release", "wait"}
                  /\ pc'[Root] \notin {"gather", "release", "wait"}
  BY <1>1, Sizes DEF Inside, Goto
<1>7. Collecting => Collecting' BY <1>2, <1>5, <1>6 DEF Collecting
<1>8. Releasing => Releasing' BY <1>2, <1>5, <1>6 DEF Releasing
<1> QED BY <1>3, <1>7, <1>8 DEF BarrierInv

LEMMA OpenStep ==
  ASSUME BarrierInv, NEW r \in Ranks, OpenSig(r) \/ OpenSig2(r)
  PROVE  BarrierInv'
<1>1. pc \in [Ranks -> Labels] /\ sig \in [Ranks -> {0, 1}] /\ sig2 \in [Ranks -> {0, 1}]
  BY DEF BarrierInv, Types
<1>2. CASE OpenSig(r)
  <2>1. name' = 1 /\ created' = 1 /\ sig' = [sig EXCEPT ![r] = 1]
    BY <1>2 DEF OpenSig, BarrierInv, Types, NamesOK
  <2>2. Types' BY <1>1, <1>2, <2>1 DEF OpenSig, BarrierInv, Types, Goto, Labels
  <2>3. NamesOK' BY <1>1, <1>2, <2>1 DEF OpenSig, BarrierInv, NamesOK, Opening, Goto
  <2>4. CountsOK' /\ (Collecting \/ Releasing)'
    BY <1>2, QuietStep DEF OpenSig, Labels, Inside
  <2> QED BY <2>2, <2>3, <2>4 DEF BarrierInv
<1>3. CASE OpenSig2(r)
  <2>1. name2' = 1 /\ created2' = 1 /\ sig2' = [sig2 EXCEPT ![r] = 1]
    BY <1>3 DEF OpenSig2, BarrierInv, Types, NamesOK, Opening
  <2>2. Types' BY <1>1, <1>3, <2>1 DEF OpenSig2, BarrierInv, Types, Goto, Labels
  <2>3. NamesOK' BY <1>1, <1>3, <2>1 DEF OpenSig2, BarrierInv, NamesOK, Opening, Goto
  <2>4. CountsOK' /\ (Collecting \/ Releasing)'
    BY <1>3, QuietStep DEF OpenSig2, Labels, Inside
  <2> QED BY <2>2, <2>3, <2>4 DEF BarrierInv
<1> QED BY <1>2, <1>3

(* The names go only when no rank has yet to open them.                    *)
LEMMA UnlinkStep ==
  ASSUME BarrierInv, NEW r \in Ranks, UnlinkSig(r) \/ UnlinkSig2(r)
  PROVE  BarrierInv'
<1>1. pc \in [Ranks -> Labels] /\ sig \in [Ranks -> {0, 1}] /\ sig2 \in [Ranks -> {0, 1}]
  BY DEF BarrierInv, Types
<1>2. CASE UnlinkSig(r)
  <2>1. returned[r] = MaxCalls
    BY <1>2, CallsAssumption DEF UnlinkSig, BarrierInv, Types, CountsOK, Inside
  <2>2. \A q \in Ranks : entered[q] >= 1
    BY <2>1, Together, CallsAssumption DEF Rendezvous, BarrierInv, Types
  <2>3. \A q \in Ranks : ~Opening(q) BY <2>2 DEF BarrierInv, NamesOK
  <2>4. Types' BY <1>1, <1>2 DEF UnlinkSig, comms, BarrierInv, Types, Goto, Labels
  <2>5. NamesOK' BY <1>1, <1>2, <2>3 DEF UnlinkSig, comms, BarrierInv, NamesOK, Opening, Goto
  <2>6. CountsOK' /\ (Collecting \/ Releasing)'
    BY <1>2, QuietStep DEF UnlinkSig, Labels, Inside
  <2> QED BY <2>4, <2>5, <2>6 DEF BarrierInv
<1>3. CASE UnlinkSig2(r)
  <2>1. returned[r] = MaxCalls
    BY <1>3, CallsAssumption DEF UnlinkSig2, BarrierInv, Types, NamesOK, CountsOK, Inside
  <2>2. \A q \in Ranks : entered[q] >= 1
    BY <2>1, Together, CallsAssumption DEF Rendezvous, BarrierInv, Types
  <2>3. \A q \in Ranks : ~Opening(q) BY <2>2 DEF BarrierInv, NamesOK
  <2>4. Types' BY <1>1, <1>3 DEF UnlinkSig2, BarrierInv, Types, Goto, Labels
  <2>5. NamesOK' BY <1>1, <1>3, <2>3 DEF UnlinkSig2, BarrierInv, NamesOK, Opening, Goto
  <2>6. CountsOK' /\ (Collecting \/ Releasing)'
    BY <1>3, QuietStep DEF UnlinkSig2, Labels, Inside
  <2> QED BY <2>4, <2>5, <2>6 DEF BarrierInv
<1> QED BY <1>2, <1>3

(* A rank enters: all have returned from the last collective.              *)
LEMMA PostStep ==
  ASSUME BarrierInv, NEW r \in Ranks, Post(r), \A q \in Ranks : returned[q] >= entered[r]
  PROVE  BarrierInv'
<1>1. /\ pc \in [Ranks -> Labels] /\ entered \in [Ranks -> 0..MaxCalls]
      /\ returned \in [Ranks -> 0..MaxCalls] /\ value \in [Sems -> Nat]
      /\ value2 \in [Sems -> Nat]
  BY DEF BarrierInv, Types
<1>2. pc[r] = "idle" /\ sig[r] = 1 /\ r \notin Inside BY DEF Post, BarrierInv, NamesOK, Inside
<1>3. Inside' = Inside \cup {r} BY <1>1, <1>2, Sizes DEF Inside, Post, Goto
<1>4. Cardinality(Inside)' = Cardinality(Inside) + 1 BY <1>2, <1>3, InsideGrows
<1>5. value' = [value EXCEPT ![1] = @ + 1] /\ value'[1] = value[1] + 1 /\ UNCHANGED value2
  BY <1>1, <1>2, Sizes DEF Post
<1>6. Collecting
  <2>1. CASE Releasing
    <3>1. \A q \in Ranks : returned[q] >= entered[q]
      BY <2>1 DEF Releasing
    <3>2. Inside = {} BY <3>1, <1>1, CallsAssumption DEF BarrierInv, CountsOK, Inside
    <3>3. \A q \in Ranks : returned[q] = entered[q]
      BY <3>2, <1>1, CallsAssumption DEF BarrierInv, CountsOK
    <3>4. Cardinality(Inside) = 0 BY <3>2, InsideSize
    <3>5. pc[Root] \notin {"gather", "release", "wait"} BY <3>2, Sizes DEF Inside
    <3> QED BY <2>1, <3>3, <3>4, <3>5 DEF Releasing, Collecting
  <2> QED BY <2>1 DEF BarrierInv
<1>7. Types' BY <1>1, <1>5, CallsAssumption, Sizes DEF Post, names, comms, BarrierInv, Types, Goto, Labels
<1>8. NamesOK' BY <1>1, <1>2 DEF Post, names, comms, BarrierInv, NamesOK, Opening, Goto
<1>9. CountsOK'
  <2>1. \A x \in Sems : x # 1 => value'[x] = 0 /\ value2'[x] = 0
    BY <1>1, <1>5 DEF BarrierInv, CountsOK
  <2>2. \A q \in Ranks : entered'[q] = returned'[q] + (IF q \in Inside' THEN 1 ELSE 0)
    BY <1>1, <1>2, <1>3, CallsAssumption DEF Post, BarrierInv, CountsOK
  <2> QED BY <2>1, <2>2 DEF CountsOK
<1>10. Collecting'
  <2>1. pc'[Root] \notin {"release", "wait"} /\ (pc'[Root] # "gather" => i' = 0)
    BY <1>1, <1>2, <1>6, Sizes DEF Post, Goto, Collecting
  <2>2. value'[1] + i' = Cardinality(Inside)'
    BY <1>1, <1>4, <1>5, <1>6, Sizes, InsideSize DEF Post, Collecting, BarrierInv, Types
  <2> QED BY <1>5, <1>6, <2>1, <2>2 DEF Collecting, Post
<1> QED BY <1>7, <1>8, <1>9, <1>10 DEF BarrierInv

(* Rank 0 takes a token, or has them all: then every rank is inside.       *)
LEMMA GatherStep ==
  ASSUME BarrierInv, Gather
  PROVE  BarrierInv'
<1>1. /\ pc \in [Ranks -> Labels] /\ entered \in [Ranks -> 0..MaxCalls]
      /\ returned \in [Ranks -> 0..MaxCalls] /\ value \in [Sems -> Nat]
      /\ value2 \in [Sems -> Nat] /\ i \in 0..nranks
  BY DEF BarrierInv, Types
<1>2. pc[Root] = "gather" /\ sig[Root] = 1 /\ Collecting
  BY Sizes DEF Gather, BarrierInv, NamesOK, Releasing
<1>3. UNCHANGED <<names, value2, comms, entered, returned>> BY DEF Gather
<1>4. Inside' = Inside BY <1>1, <1>2, Sizes DEF Inside, Gather, Goto
<1>5. CASE i < nranks /\ value[1] > 0 /\ i' = i + 1 /\ UNCHANGED pc
           /\ value' = [value EXCEPT ![1] = @ - 1]
  <2>1. value'[1] = value[1] - 1 /\ value' \in [Sems -> Nat] BY <1>1, <1>5, Sizes
  <2>2. Types' BY <1>1, <1>3, <1>5, <2>1, Sizes DEF names, comms, BarrierInv, Types
  <2>3. NamesOK' BY <1>3, <1>5 DEF names, comms, BarrierInv, NamesOK, Opening
  <2>4. CountsOK' BY <1>1, <1>3, <1>4, <1>5 DEF BarrierInv, CountsOK
  <2>5. Collecting'
    BY <1>1, <1>2, <1>3, <1>4, <1>5, <2>1, InsideSize, Sizes DEF Collecting
  <2> QED BY <2>2, <2>3, <2>4, <2>5 DEF BarrierInv
<1>6. CASE i = nranks /\ i' = 0 /\ Goto(Root, "release") /\ UNCHANGED value
  <2>1. value[1] = 0 /\ Cardinality(Inside) = nranks
    BY <1>1, <1>2, <1>6, InsideSize, Sizes DEF Collecting
  <2>2. Inside = Ranks BY <2>1, InsideSize
  <2>3. Types' BY <1>1, <1>3, <1>6, Sizes DEF names, comms, BarrierInv, Types, Goto, Labels
  <2>4. NamesOK' BY <1>1, <1>2, <1>3, <1>6, Sizes DEF names, comms, BarrierInv, NamesOK, Opening, Goto
  <2>5. CountsOK' BY <1>3, <1>4, <1>6 DEF BarrierInv, CountsOK
  <2>6. pc'[Root] = "release" BY <1>1, <1>6, Sizes DEF Goto
  <2>7. value2'[1] + Cardinality(Ranks \ Inside)' = i'
    BY <1>2, <1>3, <1>4, <1>6, <2>1, InsideSize, Sizes DEF Collecting
  <2>8. \A r, q \in Ranks : entered'[r] = entered'[q]
    BY <1>2, <1>3, <2>2 DEF Collecting, BarrierInv, CountsOK
  <2>9. Releasing' BY <1>6, <2>1, <2>6, <2>7, <2>8 DEF Releasing
  <2> QED BY <2>3, <2>4, <2>5, <2>9 DEF BarrierInv
<1> QED BY <1>2, <1>5, <1>6 DEF Gather

LEMMA ReleaseStep ==
  ASSUME BarrierInv, Release
  PROVE  BarrierInv'
<1>1. /\ pc \in [Ranks -> Labels] /\ value2 \in [Sems -> Nat] /\ i \in 0..nranks
  BY DEF BarrierInv, Types
<1>2. pc[Root] = "release" /\ sig2[Root] = 1 /\ Releasing
  BY Sizes DEF Release, BarrierInv, NamesOK, Collecting
<1>3. UNCHANGED <<names, value, comms, entered, returned>> BY DEF Release
<1>4. Inside' = Inside BY <1>1, <1>2, Sizes DEF Inside, Release, Goto
<1>5. CASE i < nranks /\ i' = i + 1 /\ UNCHANGED pc /\ value2' = [value2 EXCEPT ![1] = @ + 1]
  <2>1. value2'[1] = value2[1] + 1 /\ value2' \in [Sems -> Nat] BY <1>1, <1>5, Sizes
  <2>2. Types' BY <1>1, <1>3, <1>5, <2>1, Sizes DEF names, comms, BarrierInv, Types
  <2>3. NamesOK' BY <1>3, <1>5 DEF names, comms, BarrierInv, NamesOK, Opening
  <2>4. CountsOK' BY <1>1, <1>3, <1>4, <1>5 DEF BarrierInv, CountsOK
  <2>5. Releasing'
    BY <1>1, <1>2, <1>3, <1>4, <1>5, <2>1, InsideSize, Sizes DEF Releasing
  <2> QED BY <2>2, <2>3, <2>4, <2>5 DEF BarrierInv
<1>6. CASE i = nranks /\ i' = 0 /\ Goto(Root, "wait") /\ UNCHANGED value2
  <2>1. Types' BY <1>1, <1>3, <1>6, Sizes DEF names, comms, BarrierInv, Types, Goto, Labels
  <2>2. NamesOK' BY <1>1, <1>2, <1>3, <1>6, Sizes DEF names, comms, BarrierInv, NamesOK, Opening, Goto
  <2>3. CountsOK' BY <1>3, <1>4, <1>6 DEF BarrierInv, CountsOK
  <2>4. pc'[Root] = "wait" BY <1>1, <1>6, Sizes DEF Goto
  <2>5. value2[1] = Cardinality(Inside)
    BY <1>1, <1>2, <1>6, InsideSize, Sizes DEF Releasing
  <2>6. Releasing' BY <1>2, <1>3, <1>4, <1>6, <2>4, <2>5 DEF Releasing
  <2> QED BY <2>1, <2>2, <2>3, <2>6 DEF BarrierInv
<1> QED BY <1>2, <1>5, <1>6 DEF Release

LEMMA WaitStep ==
  ASSUME BarrierInv, NEW r \in Ranks, Wait(r)
  PROVE  BarrierInv'
<1>1. /\ pc \in [Ranks -> Labels] /\ entered \in [Ranks -> 0..MaxCalls]
      /\ returned \in [Ranks -> 0..MaxCalls] /\ value2 \in [Sems -> Nat] /\ i \in 0..nranks
  BY DEF BarrierInv, Types
<1>2. pc[r] = "wait" /\ sig2[r] = 1 /\ r \in Inside /\ value2[1] > 0
  BY DEF Wait, BarrierInv, NamesOK, Inside
<1>3. Releasing BY <1>2 DEF BarrierInv, Collecting
<1>4. Inside' = Inside \ {r} BY <1>1 DEF Inside, Wait, Goto
<1>5. Cardinality(Inside)' = Cardinality(Inside) - 1 BY <1>2, <1>4, InsideShrinks
<1>6. value2' = [value2 EXCEPT ![1] = @ - 1] /\ value2'[1] = value2[1] - 1
      /\ value2' \in [Sems -> Nat]
  BY <1>1, <1>2, Sizes DEF Wait
<1>7. entered[r] = returned[r] + 1 BY <1>2 DEF BarrierInv, CountsOK
<1>8. Types'
  <2>1. returned' \in [Ranks -> 0..MaxCalls] BY <1>1, <1>7, CallsAssumption DEF Wait
  <2> QED BY <1>1, <1>6, <2>1 DEF Wait, names, comms, BarrierInv, Types, Goto, Labels
<1>9. NamesOK' BY <1>1, <1>2 DEF Wait, names, comms, BarrierInv, NamesOK, Opening, Goto
<1>10. CountsOK'
  <2>1. \A x \in Sems : x # 1 => value'[x] = 0 /\ value2'[x] = 0
    BY <1>1, <1>6 DEF Wait, BarrierInv, CountsOK
  <2>2. \A q \in Ranks : entered'[q] = returned'[q] + (IF q \in Inside' THEN 1 ELSE 0)
    BY <1>1, <1>2, <1>4, <1>7, CallsAssumption DEF Wait, BarrierInv, CountsOK
  <2> QED BY <2>1, <2>2 DEF CountsOK
<1>11. Releasing'
  <2>1. Cardinality(Ranks \ Inside)' = Cardinality(Ranks \ Inside) + 1
    <3>1. Cardinality(Ranks \ Inside)' = nranks - Cardinality(Inside)'
      <4>1. Inside' \in SUBSET Ranks BY DEF Inside
      <4>2. Ranks \cap Inside' = Inside' BY <4>1
      <4> QED BY <4>2, RanksAssumption, FS_Difference DEF nranks
    <3> QED BY <3>1, <1>5, InsideSize, Sizes
  <2>2. pc'[Root] = "release" <=> pc[Root] = "release"
    BY <1>1, <1>2, Sizes DEF Wait, Goto
  <2>3. pc'[Root] # "gather" BY <1>1, <1>2, <1>3, Sizes DEF Wait, Goto, Releasing
  <2>4. pc'[Root] = "release" => value2'[1] + Cardinality(Ranks \ Inside)' = i'
    BY <1>1, <1>3, <1>6, <2>1, <2>2, InsideSize, Sizes DEF Wait, Releasing
  <2>5. pc'[Root] # "release" => i' = 0 /\ value2'[1] = Cardinality(Inside)'
    BY <1>1, <1>3, <1>5, <1>6, <2>2, InsideSize DEF Wait, Releasing
  <2> QED BY <1>3, <2>3, <2>4, <2>5 DEF Wait, Releasing
<1> QED BY <1>8, <1>9, <1>10, <1>11 DEF BarrierInv

(* Every step but a Post that comes before its turn.                       *)
LEMMA StepHolds ==
  ASSUME BarrierInv, [Next]_vars,
         \A r \in Ranks : Post(r) => \A q \in Ranks : returned[q] >= entered[r]
  PROVE  BarrierInv'
<1>1. CASE UNCHANGED vars
  BY <1>1 DEF vars, names, comms, BarrierInv, Types, NamesOK, Opening, CountsOK, Collecting,
              Releasing, Inside
<1>2. ASSUME NEW r \in Ranks, RankStep(r) PROVE BarrierInv'
  BY <1>2, OpenStep, UnlinkStep, PostStep, GatherStep, ReleaseStep, WaitStep DEF RankStep
<1> QED BY <1>1, <1>2 DEF Next

LEMMA Invariance == InTurn => (Spec => []BarrierInv)
<1> SUFFICES ASSUME InTurn PROVE Spec => []BarrierInv OBVIOUS
<1>1. Init => BarrierInv BY InitHolds
<1>2. BarrierInv /\ [Next]_vars => BarrierInv'
  <2> SUFFICES ASSUME BarrierInv, [Next]_vars PROVE BarrierInv' OBVIOUS
  <2>1. ASSUME NEW r \in Ranks, Post(r), NEW q \in Ranks PROVE returned[q] >= entered[r]
    <3>1. CASE Lockstep BY <2>1, <3>1 DEF Post
    <3>2. CASE MaxCalls = 1 BY <2>1, <3>2 DEF Post, BarrierInv, Types
    <3> QED BY <3>1, <3>2 DEF InTurn
  <2> QED BY <2>1, StepHolds
<1> QED BY <1>1, <1>2, PTL DEF Spec

-----------------------------------------------------------------------------
(* Without the condition BarrierInv holds until every rank has entered a   *)
(* collective; from then on none has its semaphores to open.               *)
Settled ==
  /\ entered \in [Ranks -> Nat] /\ pc \in [Ranks -> Labels]
  /\ sig \in [Ranks -> {0, 1}] /\ sig2 \in [Ranks -> {0, 1}]
  /\ \A r \in Ranks : entered[r] > 0 /\ ~Opening(r)

FreeInv == BarrierInv \/ Settled

LEMMA SettledStays ==
  ASSUME Settled, NEW r \in Ranks, RankStep(r)
  PROVE  Settled'
<1>1. ~OpenSig(r) /\ ~OpenSig2(r) BY DEF Settled, Opening, OpenSig, OpenSig2
<1>2. CASE Post(r) BY <1>2 DEF Post, comms, Settled, Opening, Goto, Labels
<1>3. CASE Wait(r) BY <1>3 DEF Wait, comms, Settled, Opening, Goto, Labels
<1>4. CASE UnlinkSig(r) BY <1>4 DEF UnlinkSig, comms, Settled, Opening, Goto, Labels
<1>5. CASE UnlinkSig2(r) BY <1>5 DEF UnlinkSig2, Settled, Opening, Goto, Labels
<1>6. CASE Gather BY <1>6, Sizes DEF Gather, comms, Settled, Opening, Goto, Labels
<1>7. CASE Release BY <1>7, Sizes DEF Release, comms, Settled, Opening, Goto, Labels
<1> QED BY <1>1, <1>2, <1>3, <1>4, <1>5, <1>6, <1>7 DEF RankStep

(* As long as one rank has not entered, none is in its second collective.  *)
LEMMA FirstCalls ==
  ASSUME BarrierInv, NEW p \in Ranks, entered[p] = 0, NEW r \in Ranks, pc[r] = "idle"
  PROVE  entered[r] = 0
<1>1. \A q \in Ranks : entered[q] \in Nat /\ returned[q] \in Nat
  BY CallsAssumption DEF BarrierInv, Types
<1>2. entered[r] = returned[r] BY <1>1 DEF BarrierInv, CountsOK, Inside
<1>3. returned[r] <= entered[p] BY Together DEF Rendezvous
<1> QED BY <1>1, <1>2, <1>3

LEMMA FreeStep == FreeInv /\ [Next]_vars => FreeInv'
<1> SUFFICES ASSUME FreeInv, [Next]_vars PROVE FreeInv' OBVIOUS
<1>1. CASE Settled
  <2>1. CASE UNCHANGED vars BY <1>1, <2>1 DEF vars, comms, Settled, Opening, FreeInv
  <2> QED BY <1>1, <2>1, SettledStays DEF Next, FreeInv
<1>2. CASE BarrierInv /\ ~Settled
  <2>1. PICK p \in Ranks : entered[p] = 0
    <3>1. /\ entered \in [Ranks -> Nat] /\ pc \in [Ranks -> Labels]
          /\ sig \in [Ranks -> {0, 1}] /\ sig2 \in [Ranks -> {0, 1}]
      BY <1>2, CallsAssumption DEF BarrierInv, Types
    <3>2. \A r \in Ranks : entered[r] > 0 => ~Opening(r)
      BY <1>2, <3>1 DEF BarrierInv, NamesOK
    <3> QED BY <1>2, <3>1, <3>2 DEF Settled
  <2>2. ASSUME NEW r \in Ranks, Post(r), NEW q \in Ranks PROVE returned[q] >= entered[r]
    <3>1. entered[r] = 0 BY <1>2, <2>1, <2>2, FirstCalls DEF Post
    <3>2. returned[q] \in Nat BY <1>2, CallsAssumption DEF BarrierInv, Types
    <3> QED BY <3>1, <3>2
  <2> QED BY <1>2, <2>2, StepHolds DEF FreeInv
<1> QED BY <1>1, <1>2 DEF FreeInv

LEMMA FreeInvariance == Spec => []FreeInv
<1>1. Init => FreeInv BY InitHolds DEF FreeInv
<1> QED BY <1>1, FreeStep, PTL DEF Spec

-----------------------------------------------------------------------------
(* Whatever the ranks do, none returns from a collective of custom_cpu     *)
(* before every one has entered its first, for any number of processes.    *)
THEOREM FirstRendezvousCorrect == Spec => []FirstRendezvous
<1>1. FreeInv => FirstRendezvous
  <2> SUFFICES ASSUME FreeInv, NEW r \in Ranks, NEW q \in Ranks, returned[r] > 0
               PROVE  entered[q] > 0
    BY DEF FirstRendezvous
  <2>1. CASE Settled BY <2>1 DEF Settled
  <2>2. CASE BarrierInv
    <3>1. returned[r] <= entered[q] BY <2>2, Together DEF Rendezvous
    <3>2. returned[r] \in Nat /\ entered[q] \in Nat
      BY <2>2, CallsAssumption DEF BarrierInv, Types
    <3> QED BY <3>1, <3>2
  <2> QED BY <2>1, <2>2 DEF FreeInv
<1> QED BY <1>1, FreeInvariance, PTL

(* All the ranks of a communicator use the semaphores that the first of    *)
(* them created, whatever they do: XcclDestroyComm of one never comes      *)
(* before XcclCommInitRank of another.                                     *)
THEOREM OneCommunicatorCorrect == Spec => []OneCommunicator
<1>1. FreeInv => OneCommunicator BY DEF FreeInv, Settled, BarrierInv, Types, OneCommunicator
<1> QED BY <1>1, FreeInvariance, PTL

(* No rank returns from a collective that some rank has not entered, for   *)
(* any number of processes of custom_cpu that call in turn.                *)
THEOREM BarrierCorrect == InTurn => (Spec => []Rendezvous)
<1>1. BarrierInv => Rendezvous BY Together
<1> QED BY <1>1, Invariance, PTL

(* Every variable of the model stays in its range; no semaphore's value    *)
(* exceeds the number of ranks that call in turn.                          *)
THEOREM TypesCorrect == InTurn => (Spec => []TypeOK)
<1>1. BarrierInv => TypeOK
  <2> SUFFICES ASSUME BarrierInv PROVE TypeOK OBVIOUS
  <2>1. {name, name2, created, created2} \subseteq 0..MaxNames
    BY NamesAssumption DEF BarrierInv, Types
  <2>2. value[1] \in 0..nranks /\ value2[1] \in 0..nranks
    BY InsideSize, Sizes DEF BarrierInv, Types, Collecting, Releasing
  <2>3. \A x \in Sems : value[x] \in 0..nranks /\ value2[x] \in 0..nranks
    BY <2>2, Sizes DEF BarrierInv, CountsOK
  <2>4. value \in [Sems -> 0..nranks] /\ value2 \in [Sems -> 0..nranks]
    BY <2>3 DEF BarrierInv, Types
  <2>5. sig \in [Ranks -> 0..MaxNames] /\ sig2 \in [Ranks -> 0..MaxNames]
    BY NamesAssumption DEF BarrierInv, Types
  <2> QED BY <2>1, <2>4, <2>5 DEF BarrierInv, Types, TypeOK, Labels
<1> QED BY <1>1, Invariance, PTL

(* If its ranks call in turn, the collectives of custom_cpu implement the  *)
(* abstract barrier, call by call: Post enters, the last Wait leaves, every*)
(* other step is hidden.                                                   *)
THEOREM BarrierRefinement == InTurn => (Spec => ImplementsBarrier)
<1> SUFFICES ASSUME InTurn PROVE Spec => ImplementsBarrier OBVIOUS
<1>1. Init => Collective!Init BY DEF Init, Collective!Init
<1>2. BarrierInv /\ [Next]_vars => [Collective!Next]_(Collective!vars)
  <2> SUFFICES ASSUME BarrierInv, [Next]_vars
               PROVE  Collective!Next \/ UNCHANGED <<entered, returned>>
    BY DEF Collective!vars
  <2>1. CASE UNCHANGED vars BY <2>1 DEF vars
  <2>2. ASSUME NEW r \in Ranks, Post(r) PROVE Collective!Enter(r)
    <3>1. entered[r] = returned[r]
      BY <2>2, CallsAssumption DEF Post, BarrierInv, Types, CountsOK, Inside
    <3> QED BY <2>2, <3>1 DEF Post, Collective!Enter
  <2>3. ASSUME NEW r \in Ranks, Wait(r) PROVE Collective!Leave(r)
    <3>1. pc[r] = "wait" /\ r \in Inside BY <2>3 DEF Wait, Inside
    <3>2. entered[r] = returned[r] + 1 BY <3>1 DEF BarrierInv, CountsOK
    <3>3. Releasing
      BY <2>3, <3>1, CallsAssumption DEF Wait, BarrierInv, Collecting, NamesOK, Types
    <3>4. \A q \in Ranks : entered[q] >= entered[r]
      BY <3>3, CallsAssumption DEF Releasing, BarrierInv, Types
    <3> QED BY <2>3, <3>2, <3>4 DEF Wait, Collective!Leave
  <2>4. ASSUME NEW r \in Ranks, RankStep(r), ~Post(r), ~Wait(r)
        PROVE  UNCHANGED <<entered, returned>>
    BY <2>4 DEF RankStep, OpenSig, OpenSig2, UnlinkSig, UnlinkSig2, Gather, Release
  <2> QED BY <2>1, <2>2, <2>3, <2>4 DEF Next, Collective!Next
<1>3. Spec => []BarrierInv BY Invariance
<1> QED BY <1>1, <1>2, <1>3, PTL DEF Spec, ImplementsBarrier, Collective!Spec
=============================================================================
