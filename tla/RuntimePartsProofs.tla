------------------------- MODULE RuntimePartsProofs -------------------------
(***************************************************************************)
(* Proofs about the parts of the device runtimes that MCRuntimeParts puts  *)
(* together and about RuntimeManager, each for every value of its          *)
(* constants.  A behaviour of PartSpec is a behaviour of each of its parts:*)
(* one that does not run stands still.                                     *)
(***************************************************************************)
EXTENDS MCRuntimeParts, MCHpuRuntime, TaskQueueLemmas, FiniteSetTheorems

(***************************************************************************)
(* CommStream.  Every rank starts its collectives in the order of the      *)
(* program, for any number of ranks, streams, collectives and kernels.     *)
(*                                                                         *)
(* The inductive invariant: the collectives a rank has issued and not      *)
(* finished stand, each once and in order, in the stream lastCommStream    *)
(* names; every other stream holds kernels only.  The wait in Update is    *)
(* what moves the first part from one stream to the next: an empty stream  *)
(* means that all that was issued is finished.                             *)
(***************************************************************************)
Queue == Seq(Nat)

CommTypes ==
  /\ pStream \in [Ranks -> Streams \cup {None}]
  /\ call \in [Ranks -> Streams \cup {None}]
  /\ issued \in [Ranks -> Nat]
  /\ launched \in [Ranks -> Nat]
  /\ queue \in [Ranks -> [Streams -> Queue]]
  /\ running \in [Ranks -> Nat]
  /\ finished \in [Ranks -> Seq(Nat)]

(* The collectives f+1, ..., n stand in q, in this order, among kernels.   *)
InOrder(q, f, n) ==
  /\ \A i \in 1..Len(q) : q[i] # 0 => q[i] \in f+1..n
  /\ \A i, j \in 1..Len(q) : i < j /\ q[i] # 0 /\ q[j] # 0 => q[i] < q[j]
  /\ \A c \in f+1..n : \E i \in 1..Len(q) : q[i] = c

KernelsOnly(q) == \A i \in 1..Len(q) : q[i] = 0

Done(r) == Len(finished[r])

QueuesRight(r) ==
  \A s \in Streams :
    IF s = pStream[r] THEN InOrder(queue[r][s], Done(r), issued[r])
                      ELSE KernelsOnly(queue[r][s])

RunningRight(r) ==
  running[r] > 0 => pStream[r] \in Streams /\ Holds(r, pStream[r], running[r])

RankInv(r) ==
  /\ Done(r) <= issued[r]
  /\ pStream[r] = None => Done(r) = issued[r]
  /\ QueuesRight(r)
  /\ RunningRight(r)

CommInv == CommTypes /\ \A r \in Ranks : RankInv(r)

-----------------------------------------------------------------------------
(* The queue of the current stream under the four things that happen to it.*)
LEMMA KernelAdded ==
  ASSUME NEW q \in Queue, NEW f \in Nat, NEW n \in Nat, InOrder(q, f, n)
  PROVE  InOrder(Append(q, 0), f, n)
<1> DEFINE p == Append(q, 0)
<1>1. Len(q) \in Nat /\ Len(p) = Len(q) + 1
      /\ (\A i \in 1..Len(q) : p[i] = q[i]) /\ p[Len(q) + 1] = 0
  BY DEF Queue
<1> HIDE DEF p
<1>2. \A i \in 1..Len(p) : p[i] # 0 => i \in 1..Len(q) /\ p[i] = q[i]
  BY <1>1
<1>3. \A i \in 1..Len(p) : p[i] # 0 => p[i] \in f+1..n
  BY <1>2 DEF InOrder
<1>4. \A i, j \in 1..Len(p) : i < j /\ p[i] # 0 /\ p[j] # 0 => p[i] < p[j]
  BY <1>2 DEF InOrder
<1>5. \A c \in f+1..n : \E i \in 1..Len(p) : p[i] = c
  BY <1>1 DEF InOrder
<1>6. QED BY <1>3, <1>4, <1>5 DEF InOrder, p

LEMMA CollectiveAdded ==
  ASSUME NEW q \in Queue, NEW f \in Nat, NEW n \in Nat, InOrder(q, f, n), f <= n
  PROVE  InOrder(Append(q, n + 1), f, n + 1)
<1> DEFINE p == Append(q, n + 1)
<1>1. Len(q) \in Nat /\ Len(p) = Len(q) + 1
      /\ (\A i \in 1..Len(q) : p[i] = q[i]) /\ p[Len(q) + 1] = n + 1
  BY DEF Queue
<1> HIDE DEF p
<1>2. \A i \in 1..Len(p) : (i \in 1..Len(q) /\ p[i] = q[i]) \/ (i = Len(q) + 1 /\ p[i] = n + 1)
  BY <1>1
<1>3. \A i \in 1..Len(q) : q[i] # 0 => q[i] \in f+1..n
  BY DEF InOrder
<1>4. \A i \in 1..Len(p) : p[i] # 0 => p[i] \in f+1..n+1
  BY <1>2, <1>3
<1>5. ASSUME NEW i \in 1..Len(p), NEW j \in 1..Len(p), i < j, p[i] # 0, p[j] # 0
      PROVE  p[i] < p[j]
  <2>1. i \in 1..Len(q) /\ p[i] = q[i]
    BY <1>1, <1>5
  <2>2. CASE j \in 1..Len(q) /\ p[j] = q[j]
    BY <2>1, <2>2, <1>5 DEF InOrder
  <2>3. CASE p[j] = n + 1
    BY <2>1, <2>3, <1>3, <1>5
  <2>4. QED BY <2>2, <2>3, <1>2
<1>6. ASSUME NEW c \in f+1..n+1
      PROVE  \E i \in 1..Len(p) : p[i] = c
  <2>1. CASE c = n + 1
    BY <2>1, <1>1
  <2>2. CASE c \in f+1..n
    <3>1. PICK i \in 1..Len(q) : q[i] = c
      BY <2>2 DEF InOrder
    <3>2. i \in 1..Len(p) /\ p[i] = c
      BY <3>1, <1>1
    <3>3. QED BY <3>2
  <2>3. QED BY <2>1, <2>2
<1>7. QED BY <1>4, <1>5, <1>6 DEF InOrder, p

LEMMA TailOf ==
  ASSUME NEW q \in Queue, q # <<>>
  PROVE  /\ Tail(q) \in Queue /\ Len(Tail(q)) = Len(q) - 1 /\ Len(q) \in Nat /\ Len(q) > 0
         /\ \A i \in 1..Len(q) - 1 : Tail(q)[i] = q[i + 1]
         /\ Head(q) = q[1] /\ \A i \in 1..Len(q) : q[i] \in Nat
BY DEF Queue

LEMMA KernelRun ==
  ASSUME NEW q \in Queue, NEW f \in Nat, NEW n \in Nat, InOrder(q, f, n), q # <<>>, Head(q) = 0
  PROVE  InOrder(Tail(q), f, n)
<1> DEFINE p == Tail(q)
<1>1. p \in Queue /\ Len(p) = Len(q) - 1 /\ Len(q) \in Nat /\ Len(q) > 0
      /\ (\A i \in 1..Len(q) - 1 : p[i] = q[i + 1])
      /\ q[1] = 0 /\ \A i \in 1..Len(q) : q[i] \in Nat
  BY TailOf
<1> HIDE DEF p
<1>2. \A i \in 1..Len(p) : p[i] # 0 => p[i] \in f+1..n
  BY <1>1 DEF InOrder
<1>3. ASSUME NEW i \in 1..Len(p), NEW j \in 1..Len(p), i < j, p[i] # 0, p[j] # 0
      PROVE  p[i] < p[j]
  <2>1. i + 1 \in 1..Len(q) /\ j + 1 \in 1..Len(q) /\ i + 1 < j + 1
        /\ p[i] = q[i + 1] /\ p[j] = q[j + 1]
    BY <1>1, <1>3
  <2>2. QED BY <2>1, <1>3 DEF InOrder
<1>4. \A c \in f+1..n : \E i \in 1..Len(p) : p[i] = c
  <2> SUFFICES ASSUME NEW c \in f+1..n PROVE \E i \in 1..Len(p) : p[i] = c
    OBVIOUS
  <2>1. PICK i \in 1..Len(q) : q[i] = c
    BY DEF InOrder
  <2>2. i - 1 \in 1..Len(p) /\ p[i - 1] = c
    BY <2>1, <1>1
  <2>3. QED BY <2>2
<1>5. QED BY <1>2, <1>3, <1>4 DEF InOrder, p

LEMMA CollectiveRun ==
  ASSUME NEW q \in Queue, NEW f \in Nat, NEW n \in Nat, InOrder(q, f, n), q # <<>>, Head(q) = f + 1
  PROVE  InOrder(Tail(q), f + 1, n)
<1> DEFINE p == Tail(q)
<1>1. p \in Queue /\ Len(p) = Len(q) - 1 /\ Len(q) \in Nat /\ Len(q) > 0
      /\ (\A i \in 1..Len(q) - 1 : p[i] = q[i + 1])
      /\ q[1] = f + 1 /\ \A i \in 1..Len(q) : q[i] \in Nat
  BY TailOf
<1> HIDE DEF p
<1>2. \A i \in 1..Len(p) : p[i] # 0 => p[i] \in f+2..n
  BY <1>1 DEF InOrder
<1>3. ASSUME NEW i \in 1..Len(p), NEW j \in 1..Len(p), i < j, p[i] # 0, p[j] # 0
      PROVE  p[i] < p[j]
  <2>1. i + 1 \in 1..Len(q) /\ j + 1 \in 1..Len(q) /\ i + 1 < j + 1
        /\ p[i] = q[i + 1] /\ p[j] = q[j + 1]
    BY <1>1, <1>3
  <2>2. QED BY <2>1, <1>3 DEF InOrder
<1>4. \A c \in f+2..n : \E i \in 1..Len(p) : p[i] = c
  <2> SUFFICES ASSUME NEW c \in f+2..n PROVE \E i \in 1..Len(p) : p[i] = c
    OBVIOUS
  <2>1. PICK i \in 1..Len(q) : q[i] = c
    BY DEF InOrder
  <2>2. i - 1 \in 1..Len(p) /\ p[i - 1] = c
    BY <2>1, <1>1
  <2>3. QED BY <2>2
<1>5. f + 1 + 1 = f + 2
  OBVIOUS
<1>6. QED BY <1>2, <1>3, <1>4, <1>5 DEF InOrder, p

(* The first collective in the queue is the first that is not finished.    *)
LEMMA HeadIsNext ==
  ASSUME NEW q \in Queue, NEW f \in Nat, NEW n \in Nat, InOrder(q, f, n), q # <<>>, Head(q) > 0
  PROVE  Head(q) = f + 1 /\ f + 1 <= n
<1>1. Head(q) = q[1] /\ q[1] \in Nat /\ 1 \in 1..Len(q) /\ Len(q) \in Nat
  BY TailOf
<1>2. q[1] \in f+1..n
  BY <1>1 DEF InOrder
<1>3. PICK i \in 1..Len(q) : q[i] = f + 1
  BY <1>1, <1>2 DEF InOrder
<1>4. ~(1 < i)
  BY <1>1, <1>2, <1>3 DEF InOrder
<1>5. i = 1
  BY <1>4, <1>1
<1>6. QED BY <1>1, <1>2, <1>3, <1>5

(* An empty queue, or one of kernels alone, means that all is finished.    *)
LEMMA EmptyIsDone ==
  ASSUME NEW f \in Nat, NEW n \in Nat, f <= n, InOrder(<<>>, f, n)
  PROVE  f = n
BY DEF InOrder

LEMMA KernelsInOrder ==
  ASSUME NEW q \in Queue, NEW f \in Nat, KernelsOnly(q)
  PROVE  InOrder(q, f, f)
BY DEF KernelsOnly, InOrder, Queue

LEMMA KernelsOnlyKept ==
  ASSUME NEW q \in Queue, KernelsOnly(q)
  PROVE  KernelsOnly(Append(q, 0)) /\ (q # <<>> => KernelsOnly(Tail(q)) /\ Head(q) = 0)
BY TailOf DEF KernelsOnly, Queue

-----------------------------------------------------------------------------
LEMMA CommInitial == Init => CommInv
<1> SUFFICES ASSUME Init PROVE CommInv
  OBVIOUS
<1> USE DEF Init
<1>1. CommTypes
  BY DEF CommTypes, Queue
<1>2. ASSUME NEW r \in Ranks PROVE RankInv(r)
  BY <1>1, NoneAssumption DEF RankInv, Done, QueuesRight, RunningRight, KernelsOnly, InOrder, CommTypes
<1>3. QED BY <1>1, <1>2 DEF CommInv

(* The issue of a collective: nothing is left in the stream before when the*)
(* stream changes.                                                         *)
LEMMA IssueInv ==
  ASSUME CommInv, NEW a \in Ranks, Issue(a)
  PROVE  CommInv'
<1> DEFINE s == pStream'[a]
           n == issued[a]
<1>1. CommTypes /\ RankInv(a)
  BY DEF CommInv
<1>2. call[a] \in Streams /\ s = call[a] /\ s \in Streams /\ n \in Nat /\ Done(a) \in Nat
      /\ queue[a][s] \in Queue /\ Done(a) <= n
  BY <1>1 DEF Issue, Update, CommTypes, RankInv, Done
<1>3. /\ queue'[a] = [queue[a] EXCEPT ![s] = Append(@, n + 1)]
      /\ issued'[a] = n + 1 /\ Done(a)' = Done(a)
      /\ \A r \in Ranks \ {a} : queue'[r] = queue[r] /\ issued'[r] = issued[r]
                                 /\ pStream'[r] = pStream[r]
      /\ running' = running /\ finished' = finished
  BY <1>1, <1>2 DEF Issue, Update, Put, CommTypes, Done
<1>4. CommTypes'
  <2>1. queue' \in [Ranks -> [Streams -> Queue]]
    BY <1>1, <1>2 DEF Issue, Put, CommTypes, Queue
  <2>2. QED BY <2>1, <1>1, <1>2 DEF Issue, Update, CommTypes
<1>5. InOrder(queue[a][s], Done(a), n)
  <2>1. CASE pStream[a] = s
    BY <2>1, <1>1, <1>2 DEF RankInv, QueuesRight
  <2>2. CASE pStream[a] # s
    <3>1. KernelsOnly(queue[a][s])
      BY <2>2, <1>1, <1>2 DEF RankInv, QueuesRight
    <3>2. Done(a) = n
      <4>1. CASE pStream[a] = None
        BY <4>1, <1>1 DEF RankInv
      <4>2. CASE pStream[a] # None
        <5>1. pStream[a] \in Streams /\ queue[a][pStream[a]] = <<>>
          BY <4>2, <2>2, <1>1, <1>2 DEF Issue, Update, CommTypes
        <5>2. InOrder(<<>>, Done(a), n)
          BY <5>1, <1>1 DEF RankInv, QueuesRight
        <5>3. QED BY <5>2, <1>2, EmptyIsDone
      <4>3. QED BY <4>1, <4>2
    <3>3. QED BY <3>1, <3>2, <1>2, KernelsInOrder
  <2>3. QED BY <2>1, <2>2
<1>6. ASSUME NEW x \in Streams, x # s PROVE KernelsOnly(queue[a][x])
  <2>1. CASE x = pStream[a]
    <3>1. pStream[a] \notin {None, call[a]}
      BY <2>1, <1>2, <1>6, NoneAssumption
    <3>2. queue[a][x] = <<>>
      BY <3>1, <2>1 DEF Issue, Update
    <3>3. QED BY <3>2 DEF KernelsOnly
  <2>2. CASE x # pStream[a]
    BY <2>2, <1>1 DEF RankInv, QueuesRight
  <2>3. QED BY <2>1, <2>2
<1>7. RankInv(a)'
  <2>1. queue'[a][s] = Append(queue[a][s], n + 1) /\ \A x \in Streams \ {s} : queue'[a][x] = queue[a][x]
    BY <1>1, <1>2, <1>3 DEF CommTypes
  <2>2. InOrder(queue'[a][s], Done(a), n + 1)
    BY <2>1, <1>2, <1>5, CollectiveAdded
  <2>3. QueuesRight(a)'
    BY <2>1, <2>2, <1>3, <1>6 DEF QueuesRight
  <2>4. RunningRight(a)'
    <3>1. ASSUME running[a] > 0
          PROVE  queue'[a][s] # <<>> /\ Head(queue'[a][s]) = running[a]
      <4>1. pStream[a] \in Streams /\ Holds(a, pStream[a], running[a])
        BY <3>1, <1>1 DEF RankInv, RunningRight
      <4>2. pStream[a] = s
        BY <4>1, <1>2, NoneAssumption DEF Issue, Update, Holds
      <4>3. Append(queue[a][s], n + 1) # <<>> /\ Head(Append(queue[a][s], n + 1)) = running[a]
        BY <4>1, <4>2, <1>2 DEF Holds, Queue
      <4>4. QED BY <4>3, <2>1
    <3>2. running'[a] = running[a]
      BY <1>3
    <3>3. QED BY <3>1, <3>2, <1>2 DEF RunningRight, Holds
  <2>5. Done(a)' <= issued'[a] /\ pStream'[a] # None
    BY <1>2, <1>3, NoneAssumption
  <2>6. QED BY <2>3, <2>4, <2>5 DEF RankInv
<1>8. ASSUME NEW r \in Ranks \ {a} PROVE RankInv(r)'
  <2>1. RankInv(r)
    BY DEF CommInv
  <2>2. QED BY <2>1, <1>3 DEF RankInv, QueuesRight, RunningRight, Holds, Done
<1>9. QED BY <1>4, <1>7, <1>8 DEF CommInv

(* A task of a rank's own is put on a stream or run.                       *)
LEMMA KernelInv ==
  ASSUME CommInv, NEW a \in Ranks, NEW s \in Streams, LaunchKernel(a, s) \/ RunKernel(a, s)
  PROVE  CommInv'
<1> DEFINE q == queue[a][s]
<1>1. CommTypes /\ RankInv(a) /\ q \in Queue /\ Done(a) \in Nat /\ issued[a] \in Nat
  BY DEF CommInv, CommTypes, Done
<1>2. (queue'[a][s] = Append(q, 0)) \/ (queue'[a][s] = Tail(q) /\ q # <<>> /\ Head(q) = 0)
  <2>1. CASE LaunchKernel(a, s)
    BY <2>1, <1>1 DEF LaunchKernel, Put, CommTypes
  <2>2. CASE RunKernel(a, s)
    BY <2>2, <1>1 DEF RunKernel, Pop, CommTypes
  <2>3. QED BY <2>1, <2>2
<1>3. (\A x \in Streams \ {s} : queue'[a][x] = queue[a][x])
      /\ (\A r \in Ranks \ {a} : queue'[r] = queue[r])
      /\ pStream' = pStream /\ issued' = issued /\ running' = running /\ finished' = finished
  BY <1>1 DEF LaunchKernel, RunKernel, Put, Pop, CommTypes
<1>4. CommTypes'
  <2>1. queue' \in [Ranks -> [Streams -> Queue]]
    <3>1. Append(q, 0) \in Queue /\ (q # <<>> => Tail(q) \in Queue)
      BY <1>1, TailOf DEF Queue
    <3>2. queue' = [queue EXCEPT ![a][s] = Append(q, 0)] \/ (q # <<>> /\ queue' = [queue EXCEPT ![a][s] = Tail(q)])
      BY DEF LaunchKernel, RunKernel, Put, Pop
    <3>3. queue \in [Ranks -> [Streams -> Queue]]
      BY <1>1 DEF CommTypes
    <3>4. PICK p \in Queue : queue' = [queue EXCEPT ![a][s] = p]
      BY <3>1, <3>2
    <3>5. QED BY <3>3, <3>4
  <2>2. QED BY <2>1, <1>1, <1>3 DEF LaunchKernel, RunKernel, CommTypes
<1>5. RankInv(a)'
  <2>1. s = pStream[a] => InOrder(queue'[a][s], Done(a), issued[a])
    BY <1>1, <1>2, KernelAdded, KernelRun DEF RankInv, QueuesRight
  <2>2. s # pStream[a] => KernelsOnly(queue'[a][s])
    BY <1>1, <1>2, KernelsOnlyKept DEF RankInv, QueuesRight
  <2>3. QueuesRight(a)'
    BY <2>1, <2>2, <1>1, <1>3 DEF RankInv, QueuesRight, Done
  <2>4. ASSUME running[a] > 0 PROVE Holds(a, pStream[a], running[a])'
    <3>1. pStream[a] \in Streams /\ Holds(a, pStream[a], running[a])
      BY <2>4, <1>1 DEF RankInv, RunningRight
    <3>2. CASE pStream[a] # s
      BY <3>1, <3>2, <1>3 DEF Holds
    <3>3. CASE pStream[a] = s
      <4>1. q # <<>> /\ Head(q) = running[a]
        BY <3>1, <3>3 DEF Holds
      <4>2. queue'[a][s] = Append(q, 0)
        BY <4>1, <2>4, <1>2
      <4>3. Append(q, 0) # <<>> /\ Head(Append(q, 0)) = running[a]
        BY <4>1, <1>1 DEF Queue
      <4>4. QED BY <4>2, <4>3, <3>3, <1>3 DEF Holds
    <3>4. QED BY <3>2, <3>3
  <2>5. RunningRight(a)'
    BY <2>4, <1>1, <1>3 DEF RankInv, RunningRight
  <2>6. QED BY <2>3, <2>5, <1>1, <1>3 DEF RankInv, Done
<1>6. ASSUME NEW r \in Ranks \ {a} PROVE RankInv(r)'
  <2>1. RankInv(r)
    BY DEF CommInv
  <2>2. QED BY <2>1, <1>3 DEF RankInv, QueuesRight, RunningRight, Holds, Done
<1>7. QED BY <1>4, <1>5, <1>6 DEF CommInv

(* The devices run a collective: only the stream in use holds one.         *)
LEMMA StartInv ==
  ASSUME CommInv, NEW a \in Ranks, NEW s \in Streams, Start(a, s)
  PROVE  CommInv'
<1>1. CommTypes /\ RankInv(a) /\ queue[a][s] \in Queue
  BY DEF CommInv, CommTypes
<1>2. s = pStream[a]
  BY <1>1, KernelsOnlyKept DEF Start, RankInv, QueuesRight
<1>3. CommTypes'
  BY <1>1 DEF Start, CommTypes, Queue
<1>4. ASSUME NEW r \in Ranks PROVE RankInv(r)'
  <2>1. RankInv(r)
    BY DEF CommInv
  <2>2. RunningRight(r)'
    BY <2>1, <1>1, <1>2 DEF Start, RankInv, RunningRight, Holds, CommTypes
  <2>3. QED BY <2>1, <2>2 DEF Start, RankInv, QueuesRight, Done
<1>5. QED BY <1>3, <1>4 DEF CommInv

LEMMA RunsNext ==
  ASSUME CommInv, NEW r \in Ranks, running[r] > 0
  PROVE  running[r] = Done(r) + 1
<1>1. pStream[r] \in Streams /\ Holds(r, pStream[r], running[r])
  BY DEF CommInv, RankInv, RunningRight
<1>2. InOrder(queue[r][pStream[r]], Done(r), issued[r])
  BY <1>1 DEF CommInv, RankInv, QueuesRight
<1>3. queue[r][pStream[r]] \in Queue /\ Done(r) \in Nat /\ issued[r] \in Nat
  BY <1>1 DEF CommInv, CommTypes, Done
<1>4. QED BY <1>1, <1>2, <1>3, HeadIsNext DEF Holds

LEMMA CompleteInv ==
  ASSUME CommInv, NEW c \in 1..Collectives, Complete(c)
  PROVE  CommInv'
<1>1. CommTypes /\ c > 0 /\ c \in Nat
  BY CollectivesAssumption DEF CommInv
<1>2. ASSUME NEW r \in Ranks
      PROVE  /\ RankInv(r) /\ Done(r) \in Nat /\ issued[r] \in Nat
             /\ c = Done(r) + 1
             /\ pStream[r] \in Streams /\ Holds(r, pStream[r], c)
             /\ \A s \in Streams : queue[r][s] \in Queue
  <2>1. running[r] = c
    BY DEF Complete
  <2>2. QED BY <2>1, <1>1, RunsNext DEF CommInv, RankInv, RunningRight, CommTypes, Done
<1>3. ASSUME NEW r \in Ranks
      PROVE  /\ queue'[r][pStream[r]] = Tail(queue[r][pStream[r]])
             /\ \A s \in Streams \ {pStream[r]} : queue'[r][s] = queue[r][s]
             /\ Done(r)' = Done(r) + 1 /\ finished'[r] \in Seq(Nat)
             /\ running'[r] = 0
  <2>1. \A s \in Streams : queue'[r][s] = IF Holds(r, s, c) THEN Tail(queue[r][s]) ELSE queue[r][s]
    BY DEF Complete
  <2>2. ASSUME NEW s \in Streams \ {pStream[r]} PROVE ~Holds(r, s, c)
    <3>1. KernelsOnly(queue[r][s])
      BY <1>2 DEF RankInv, QueuesRight
    <3>2. QED BY <3>1, <1>1, <1>2, KernelsOnlyKept DEF Holds
  <2>3. finished'[r] = Append(finished[r], c) /\ running'[r] = 0 /\ finished[r] \in Seq(Nat)
    BY <1>1 DEF Complete, CommTypes
  <2>4. QED BY <2>1, <2>2, <2>3, <1>1, <1>2 DEF Done
<1>4. pStream' = pStream /\ issued' = issued /\ call' = call /\ launched' = launched
  BY DEF Complete
<1>5. CommTypes'
  <2>1. \A r \in Ranks : \A s \in Streams : (IF Holds(r, s, c) THEN Tail(queue[r][s]) ELSE queue[r][s]) \in Queue
    BY <1>2, TailOf DEF Holds
  <2>2. queue' \in [Ranks -> [Streams -> Queue]]
    BY <2>1 DEF Complete
  <2>3. running' \in [Ranks -> Nat] /\ finished' \in [Ranks -> Seq(Nat)]
    BY <1>1 DEF Complete, CommTypes
  <2>4. QED BY <2>2, <2>3, <1>1, <1>4 DEF CommTypes
<1>6. ASSUME NEW r \in Ranks PROVE RankInv(r)'
  <2>1. InOrder(queue'[r][pStream[r]], Done(r) + 1, issued[r]) /\ Done(r) + 1 <= issued[r]
    BY <1>1, <1>2, <1>3, CollectiveRun, HeadIsNext DEF RankInv, QueuesRight, Holds
  <2>2. QueuesRight(r)'
    BY <2>1, <1>2, <1>3, <1>4 DEF RankInv, QueuesRight
  <2>3. QED BY <2>1, <2>2, <1>2, <1>3, <1>4, NoneAssumption DEF RankInv, RunningRight
<1>7. QED BY <1>5, <1>6 DEF CommInv

LEMMA CommStep == CommInv /\ [Next]_vars => CommInv'
<1> SUFFICES ASSUME CommInv, [Next]_vars PROVE CommInv'
  OBVIOUS
<1>1. ASSUME NEW r \in Ranks, Issue(r) PROVE CommInv'
  BY <1>1, IssueInv
<1>2. ASSUME NEW r \in Ranks, NEW s \in Streams, LaunchKernel(r, s) \/ RunKernel(r, s) PROVE CommInv'
  BY <1>2, KernelInv
<1>3. ASSUME NEW r \in Ranks, NEW s \in Streams, Start(r, s) PROVE CommInv'
  BY <1>3, StartInv
<1>4. ASSUME NEW c \in 1..Collectives, Complete(c) PROVE CommInv'
  BY <1>4, CompleteInv
<1>5. ASSUME NEW r \in Ranks, NEW s \in Streams, Collective(r, s) PROVE CommInv'
  BY <1>5 DEF Collective, CommInv, CommTypes, RankInv, QueuesRight, RunningRight, Holds, Done
<1>6. CASE UNCHANGED vars
  BY <1>6 DEF vars, CommInv, CommTypes, RankInv, QueuesRight, RunningRight, Holds, Done
<1>7. QED BY <1>1, <1>2, <1>3, <1>4, <1>5, <1>6 DEF Next, Progress, CompleteSome

(* The devices of a rank start the collectives in the order the program    *)
(* issues them, for any number of ranks and streams: lastCommStream's wait *)
(* before a change of stream is enough.                                    *)
THEOREM ProgramOrderCorrect == Spec => []ProgramOrder
<1>1. CommInv => ProgramOrder
  BY RunsNext DEF ProgramOrder, Done
<1>2. QED BY <1>1, CommInitial, CommStep, PTL DEF Spec

-----------------------------------------------------------------------------
(***************************************************************************)
(* HpuWorkspace.  With one stream, or with every Run waited for, no recipe *)
(* runs in a workspace that was freed, for any sizes and number of streams.*)
(* The workspace is exchanged only when the stream of the new recipe is    *)
(* empty, and then all are; but not for the first one, when no recipe that *)
(* is there asked for any.                                                 *)
(***************************************************************************)
Recipe == [request : Nat, workspace : Nat]

RecipeRight(recipe) ==
  recipe.request <= recipe.workspace /\ (recipe.request > 0 => recipe.workspace = size)

HpuInv ==
  /\ used \subseteq Streams /\ syncExecute \in BOOLEAN /\ size \in Nat
  /\ hpuStream \in [Streams -> Seq(Recipe)]
  /\ \A s \in Streams \ used : hpuStream[s] = <<>>
  /\ Cardinality(used) = 1 \/ syncExecute =>
       \A s \in Streams : \A i \in 1..Len(hpuStream[s]) : RecipeRight(hpuStream[s][i])

LEMMA RunKeeps ==
  ASSUME IsFiniteSet(Streams), HpuInv, NEW s \in used, NEW request \in 0..MaxSize,
         Hpu!Run(s, request)
  PROVE  HpuInv'
<1> DEFINE recipe == [request |-> request, workspace |-> size']
           old == hpuStream[s]
<1>1. /\ s \in Streams /\ request \in Nat /\ size' \in Nat /\ recipe \in Recipe
      /\ old \in Seq(Recipe) /\ Append(old, recipe) \in Seq(Recipe)
  BY DEF HpuInv, Hpu!Run, Hpu!Workspace, Recipe
<1>2. /\ hpuStream' \in [Streams -> Seq(Recipe)]
      /\ hpuStream'[s] = Append(old, recipe)
      /\ \A x \in Streams \ {s} : hpuStream'[x] = hpuStream[x]
  BY <1>1 DEF HpuInv, Hpu!Run
<1>3. /\ Len(old) \in Nat /\ Len(Append(old, recipe)) = Len(old) + 1
      /\ \A i \in 1..Len(old) : Append(old, recipe)[i] = old[i]
      /\ Append(old, recipe)[Len(old) + 1] = recipe
  BY <1>1
<1>4. UNCHANGED <<used, syncExecute>> /\ request <= size'
  BY <1>1 DEF Hpu!Run, Hpu!Workspace, HpuInv
<1>5. ASSUME Cardinality(used) = 1 \/ syncExecute,
             NEW x \in Streams, NEW i \in 1..Len(hpuStream[x])
      PROVE  RecipeRight(hpuStream[x][i])'
  <2>1. RecipeRight(hpuStream[x][i]) /\ hpuStream[x][i] \in Recipe
    BY <1>5 DEF HpuInv
  <2>2. CASE size' = size
    <3>1. (x = s => i \in 1..Len(old)) /\ hpuStream'[x][i] = hpuStream[x][i]
      BY <1>2, <1>3
    <3> QED  BY <2>1, <2>2, <3>1 DEF RecipeRight
  <2>3. CASE size' # size /\ size # 0
    <3>1. hpuStream[s] = <<>>
      BY <2>3 DEF Hpu!Run, Hpu!Workspace
    <3>2. \A y \in Streams : hpuStream[y] = <<>>
      <4>1. CASE syncExecute
        BY <4>1 DEF Hpu!Run
      <4>2. CASE Cardinality(used) = 1
        <5>1. IsFiniteSet(used)
          BY FS_Subset DEF HpuInv
        <5>2. used = {s}
          BY <5>1, <4>2, FS_Singleton
        <5> QED  BY <3>1, <5>2 DEF HpuInv
      <4> QED  BY <4>1, <4>2, <1>5
    <3> QED  BY <3>2
  <2>4. CASE size' # size /\ size = 0
    <3>1. hpuStream[x][i].request = 0 /\ hpuStream[x][i].workspace \in Nat
      BY <2>1, <2>4 DEF RecipeRight, Recipe
    <3>2. hpuStream'[x][i] = hpuStream[x][i]
      BY <1>2, <1>3
    <3> QED  BY <3>1, <3>2 DEF RecipeRight
  <2> QED  BY <2>2, <2>3, <2>4
<1>6. recipe.request <= recipe.workspace /\ recipe.workspace = size'
  BY <1>1, <1>4
<1>7. ASSUME Cardinality(used) = 1 \/ syncExecute, NEW x \in Streams, NEW i \in 1..Len(hpuStream'[x])
      PROVE  RecipeRight(hpuStream[x][i])'
  <2>1. CASE x = s /\ i = Len(old) + 1
    BY <2>1, <1>2, <1>3, <1>6 DEF RecipeRight
  <2>2. CASE ~(x = s /\ i = Len(old) + 1)
    <3>1. i \in 1..Len(hpuStream[x])
      BY <2>2, <1>2, <1>3
    <3> QED  BY <3>1, <1>5, <1>7
  <2> QED  BY <2>1, <2>2
<1> QED  BY <1>1, <1>2, <1>4, <1>7 DEF HpuInv

LEMMA ExecuteKeeps ==
  ASSUME HpuInv, NEW s \in used, Hpu!Execute(s)
  PROVE  HpuInv'
<1> DEFINE old == hpuStream[s]
<1>1. /\ s \in Streams /\ old \in Seq(Recipe) /\ old # <<>>
      /\ UNCHANGED <<used, syncExecute, size>>
  BY DEF HpuInv, Hpu!Execute
<1>2. /\ Len(old) \in Nat /\ Tail(old) \in Seq(Recipe) /\ Len(Tail(old)) = Len(old) - 1
      /\ \A i \in 1..Len(old) - 1 : Tail(old)[i] = old[i + 1]
  BY <1>1
<1>3. /\ hpuStream' \in [Streams -> Seq(Recipe)]
      /\ hpuStream'[s] = Tail(old) /\ \A x \in Streams \ {s} : hpuStream'[x] = hpuStream[x]
  BY <1>1, <1>2 DEF HpuInv, Hpu!Execute
<1>4. ASSUME Cardinality(used) = 1 \/ syncExecute, NEW x \in Streams, NEW i \in 1..Len(hpuStream'[x])
      PROVE  RecipeRight(hpuStream[x][i])'
  <2>1. \E j \in 1..Len(hpuStream[x]) : hpuStream'[x][i] = hpuStream[x][j]
    <3>1. CASE x = s
      <4>1. i + 1 \in 1..Len(old) /\ hpuStream'[x][i] = old[i + 1]
        BY <3>1, <1>2, <1>3
      <4> QED  BY <3>1, <4>1
    <3>2. CASE x # s
      BY <3>2, <1>3
    <3> QED  BY <3>1, <3>2
  <2> QED  BY <2>1, <1>1, <1>4 DEF HpuInv, RecipeRight
<1> QED  BY <1>1, <1>3, <1>4 DEF HpuInv

LEMMA HpuStep ==
  ASSUME IsFiniteSet(Streams)
  PROVE  HpuInv /\ [Hpu!Next]_(Hpu!vars) => HpuInv'
<1> SUFFICES ASSUME HpuInv, [Hpu!Next]_(Hpu!vars)  PROVE HpuInv'
  OBVIOUS
<1>1. CASE Hpu!Next
  BY <1>1, RunKeeps, ExecuteKeeps DEF Hpu!Next
<1>2. CASE UNCHANGED Hpu!vars
  BY <1>2 DEF Hpu!vars, HpuInv, RecipeRight
<1> QED  BY <1>1, <1>2

LEMMA PartIsHpu == PartSpec => Hpu!Spec
<1>1. PartInit => Hpu!Init
  BY DEF PartInit
<1>2. [PartNext]_partVars => [Hpu!Next]_(Hpu!vars)
  BY DEF PartNext, InComm, InStaging, RunSdaa, RunHpu, RunGcu, partVars, hpuVars, Hpu!vars
<1> QED  BY <1>1, <1>2, PTL DEF PartSpec, Hpu!Spec

(* RecipeRunner::Run frees the workspace under no recipe and gives none a  *)
(* smaller one than it asked for, if all kernels are launched on one       *)
(* stream or FLAGS_intel_hpu_sync_execute is set.                          *)
THEOREM WorkspaceLiveCorrect ==
  ASSUME IsFiniteSet(Streams)
  PROVE  PartSpec => []WorkspaceLive
<1>1. Hpu!Init => HpuInv
  BY DEF Hpu!Init, HpuInv
<1>2. HpuInv => WorkspaceLive
  <2> SUFFICES ASSUME HpuInv, Cardinality(used) = 1 \/ syncExecute,
                      NEW s \in Streams, NEW i \in 1..Len(hpuStream[s])
               PROVE  RecipeRight(hpuStream[s][i])
    <3>1. Hpu!Cardinality(used) = Cardinality(used)
      BY DEF Cardinality, Hpu!Cardinality
    <3> QED  BY <3>1 DEF RecipeRight, WorkspaceLive, Hpu!WorkspaceLive
  <2> QED  BY DEF HpuInv
<1> QED  BY <1>1, <1>2, HpuStep, PartIsHpu, PTL DEF Hpu!Spec

-----------------------------------------------------------------------------
(***************************************************************************)
(* GcuAllReduce.  With one stream the result of XcclAllReduce is right     *)
(* whenever it can be, for every width and all integers: a sum or product  *)
(* modulo 2 * Width does not depend on where it is reduced.  The invariant:*)
(* the tasks of a call stand one behind the other, and what the last one   *)
(* left in the buffer is what the head of the stream expects there.        *)
(***************************************************************************)
Wide == INSTANCE GcuAllReduce WITH
          stream <- gcuStream, Streams <- GcuStreams, MaxPending <- GcuPending, Values <- Int

LEMMA Division ==
  ASSUME NEW x \in Int, NEW m \in Nat \ {0}
  PROVE  x % m \in 0..(m - 1) /\ x \div m \in Int /\ x = m * (x \div m) + (x % m)
  OBVIOUS

LEMMA SameRemainder ==
  ASSUME NEW m \in Nat \ {0}, NEW k \in Int, NEW a \in 0..(m - 1), NEW b \in 0..(m - 1), a = b + m * k
  PROVE  a = b
<1>1. CASE k = 0
  BY <1>1
<1>2. CASE k >= 1
  <2>1. m * k >= m
    BY <1>2
  <2> QED  BY <2>1
<1>3. CASE k <= -1
  <2>1. m * k <= -m
    BY <1>3
  <2> QED  BY <2>1
<1> QED  BY <1>1, <1>2, <1>3

LEMMA Wrapped ==
  ASSUME NEW x \in Int, NEW m \in Nat \ {0}, NEW k \in Int
  PROVE  (x + m * k) % m = x % m
<1> DEFINE y == x + m * k
           p == x \div m
           q == y \div m
           a == x % m
           b == y % m
<1>1. y \in Int
  OBVIOUS
<1>2. p \in Int /\ q \in Int /\ a \in 0..(m - 1) /\ b \in 0..(m - 1) /\ x = m * p + a /\ y = m * q + b
  BY <1>1, Division
<1>3. y = x + m * k
  OBVIOUS
<1> HIDE DEF y, p, q, a, b
<1>4. p + k - q \in Int /\ b = a + m * (p + k - q)
  BY <1>1, <1>2, <1>3
<1>5. b = a
  BY <1>2, <1>4, SameRemainder
<1> QED  BY <1>5 DEF a, b, y

(* A value of an integer type stands for all that differ from it by a      *)
(* multiple of the modulus.                                                *)
LEMMA NarrowModular ==
  ASSUME NEW type, Wide!Modular(type), NEW v \in Int
  PROVE  /\ \A k \in Int : Wide!Narrow(type, v + (2 * Width) * k) = Wide!Narrow(type, v)
         /\ \E k \in Int : Wide!Narrow(type, v) = v + (2 * Width) * k
<1> USE WidthAssumption
<1>1. PICK m \in Nat \ {0} : m = 2 * Width
  OBVIOUS
<1>2. PICK o \in Int : \A x \in Int : Wide!Narrow(type, x) = ((x + o) % m) - o
  <2>1. CASE type = "int32"
    BY <2>1, <1>1 DEF Wide!Narrow
  <2>2. CASE type = "uint32"
    <3>1. \A x \in Int : Wide!Narrow(type, x) = x % m
      BY <2>2, <1>1 DEF Wide!Narrow
    <3>2. \A x \in Int : ((x + 0) % m) - 0 = x % m
      BY Division
    <3>3. 0 \in Int /\ \A x \in Int : Wide!Narrow(type, x) = ((x + 0) % m) - 0
      BY <3>1, <3>2
    <3> QED  BY <3>3
  <2> QED  BY <2>1, <2>2 DEF Wide!Modular
<1>3. v + o \in Int
  OBVIOUS
<1>4. ASSUME NEW k \in Int
      PROVE  Wide!Narrow(type, v + m * k) = Wide!Narrow(type, v)
  <2>1. v + m * k \in Int /\ (v + m * k) + o = (v + o) + m * k
    BY <1>1
  <2>2. ((v + o) + m * k) % m = (v + o) % m
    BY ONLY m \in Nat \ {0}, <1>3, k \in Int, Wrapped
  <2> QED  BY <1>2, <2>1, <2>2
<1>5. PICK q \in Int : (v + o) % m = (v + o) + m * q
  <2> DEFINE x == v + o
             p == x \div m
  <2>1. p \in Int /\ x % m \in Int /\ x = m * p + (x % m)
    BY <1>3, Division
  <2>2. -p \in Int /\ m * (-p) = -(m * p)
    BY <2>1
  <2>3. x \in Int /\ m * p \in Int
    BY <1>3, <2>1
  <2> HIDE DEF x, p
  <2>4. x % m = x + m * (-p)
    BY <2>1, <2>2, <2>3
  <2> QED  BY <2>2, <2>4 DEF x
<1>6. Wide!Narrow(type, v) = v + m * q
  BY <1>2, <1>5
<1> QED  BY <1>1, <1>4, <1>6

LEMMA NarrowInt ==
  ASSUME NEW type, NEW v \in Int
  PROVE  Wide!Narrow(type, v) \in Int
  BY WidthAssumption DEF Wide!Narrow

(* A narrow sum or product of narrowed terms is the narrowed sum, product. *)
LEMMA NarrowSum ==
  ASSUME NEW type, Wide!Modular(type), NEW a \in Int, NEW b \in Int
  PROVE  Wide!Narrow(type, Wide!Narrow(type, a) + Wide!Narrow(type, b)) = Wide!Narrow(type, a + b)
<1>1. PICK m \in Int : m = 2 * Width
  BY WidthAssumption
<1>2. PICK k \in Int : Wide!Narrow(type, a) = a + m * k
  BY <1>1, NarrowModular
<1>3. PICK l \in Int : Wide!Narrow(type, b) = b + m * l
  BY <1>1, NarrowModular
<1>4. (a + m * k) + (b + m * l) = (a + b) + m * (k + l) /\ k + l \in Int /\ a + b \in Int
  OBVIOUS
<1> QED  BY <1>1, <1>2, <1>3, <1>4, NarrowModular

LEMMA NarrowProduct ==
  ASSUME NEW type, Wide!Modular(type), NEW a \in Int, NEW b \in Int
  PROVE  Wide!Narrow(type, Wide!Narrow(type, a) * Wide!Narrow(type, b)) = Wide!Narrow(type, a * b)
<1>1. PICK m \in Int : m = 2 * Width
  BY WidthAssumption
<1>2. PICK k \in Int : Wide!Narrow(type, a) = a + m * k
  BY <1>1, NarrowModular
<1>3. PICK l \in Int : Wide!Narrow(type, b) = b + m * l
  BY <1>1, NarrowModular
<1>4. PICK n \in Int : n = a * l + k * b + m * (k * l)
  OBVIOUS
<1>5. (a + m * k) * (b + m * l) = a * b + m * n /\ a * b \in Int
  BY <1>4
<1> QED  BY <1>1, <1>2, <1>3, <1>4, <1>5, NarrowModular

GcuTask == [step : {"narrow", "reduce", "widen", "direct"}, call : Wide!Calls]

OneGcuStream == \A s, t \in GcuStreams : s = t

Starts(task) == task.step \in {"narrow", "direct"}

(* The tasks of a call stand together and in order.                        *)
InOrderOfCalls(q) ==
  \A i \in 1..Len(q) :
    /\ q[i].step = "narrow" => i < Len(q) /\ q[i + 1] = Wide!Task("reduce", q[i].call)
    /\ q[i].step = "reduce" => i < Len(q) /\ q[i + 1] = Wide!Task("widen", q[i].call)
    /\ q[i].step \in {"widen", "direct"} /\ i < Len(q) => Starts(q[i + 1])

Mine(c)     == Wide!Narrow(Wide!Real(c), c.mine)
Theirs(c)   == Wide!Narrow(Wide!Real(c), c.theirs)
Reduced(c)  == Wide!AllReduced(c, Mine(c), Theirs(c))

HeadReady(task, maps) ==
  /\ task.step = "reduce" => maps[Wide!Key(task.call)] = Mine(task.call)
  /\ task.step = "widen" => maps[Wide!Key(task.call)] = Reduced(task.call)

HasBuffer(task, maps) ==
  IF task.step = "direct" THEN Wide!Real(task.call) = task.call.type
                          ELSE Wide!Key(task.call) \in DOMAIN maps

GcuInv ==
  /\ memory \in [DOMAIN memory -> Int]
  /\ gcuStream \in [GcuStreams -> Seq(GcuTask)]
  /\ \A s \in GcuStreams :
       /\ InOrderOfCalls(gcuStream[s])
       /\ \A i \in 1..Len(gcuStream[s]) : HasBuffer(gcuStream[s][i], memory)
       /\ gcuStream[s] # <<>> => HeadReady(gcuStream[s][1], memory)
  /\ received # <<>> => \E c \in Wide!Calls : received = <<c, Reduced(c)>>

LEMMA CallsTyped ==
  ASSUME NEW c \in Wide!Calls
  PROVE  /\ c.mine \in Int /\ c.theirs \in Int /\ c.op \in {"sum", "product", "max", "min"}
         /\ Wide!Real(c) = c.type => Mine(c) = c.mine /\ Theirs(c) = c.theirs
  BY DEF Wide!Calls, Wide!Fits, Mine, Theirs

LEMMA ReducedInt ==
  ASSUME NEW c \in Wide!Calls
  PROVE  Mine(c) \in Int /\ Reduced(c) \in Int
<1>1. Mine(c) \in Int /\ Theirs(c) \in Int
  BY CallsTyped, NarrowInt DEF Mine, Theirs
<1>2. Wide!Reduce(c.op, Mine(c), Theirs(c)) \in Int
  BY <1>1, CallsTyped DEF Wide!Reduce
<1> QED  BY <1>1, <1>2, NarrowInt DEF Reduced, Wide!AllReduced

(* What is computed in the narrow type is right where ReductionRight says. *)
LEMMA ReducedRight ==
  ASSUME NEW c \in Wide!Calls,
         Wide!Fits(Wide!Real(c), Wide!Reduce(c.op, c.mine, c.theirs)),
         \/ Wide!Fits(Wide!Real(c), c.mine) /\ Wide!Fits(Wide!Real(c), c.theirs)
         \/ Wide!Modular(Wide!Real(c)) /\ c.op \in {"sum", "product"}
  PROVE  Reduced(c) = Wide!Reduce(c.op, c.mine, c.theirs)
<1>1. CASE Wide!Fits(Wide!Real(c), c.mine) /\ Wide!Fits(Wide!Real(c), c.theirs)
  <2>1. Mine(c) = c.mine /\ Theirs(c) = c.theirs
    BY <1>1 DEF Mine, Theirs, Wide!Fits
  <2> QED  BY <2>1 DEF Reduced, Wide!AllReduced, Wide!Fits
<1>2. CASE Wide!Modular(Wide!Real(c)) /\ c.op = "sum"
  <2>1. Reduced(c) = Wide!Narrow(Wide!Real(c), Mine(c) + Theirs(c))
    BY <1>2 DEF Reduced, Wide!AllReduced, Wide!Reduce
  <2>2. Reduced(c) = Wide!Narrow(Wide!Real(c), c.mine + c.theirs)
    BY <1>2, <2>1, CallsTyped, NarrowSum DEF Mine, Theirs
  <2> QED  BY <1>2, <2>2 DEF Wide!Reduce, Wide!Fits
<1>3. CASE Wide!Modular(Wide!Real(c)) /\ c.op = "product"
  <2>1. Reduced(c) = Wide!Narrow(Wide!Real(c), Mine(c) * Theirs(c))
    BY <1>3 DEF Reduced, Wide!AllReduced, Wide!Reduce
  <2>2. Reduced(c) = Wide!Narrow(Wide!Real(c), c.mine * c.theirs)
    BY <1>3, <2>1, CallsTyped, NarrowProduct DEF Mine, Theirs
  <2> QED  BY <1>3, <2>2 DEF Wide!Reduce, Wide!Fits
<1> QED  BY <1>1, <1>2, <1>3

(* The tasks of a new call are put behind the others.                      *)
LEMMA TasksAdded ==
  ASSUME NEW q \in Seq(GcuTask), NEW new \in Seq(GcuTask), new # <<>>,
         InOrderOfCalls(q), InOrderOfCalls(new), Starts(new[1])
  PROVE  InOrderOfCalls(q \o new)
<1> DEFINE n == Len(q)
           k == Len(new)
           r == q \o new
<1>1. /\ n \in Nat /\ k \in Nat \ {0} /\ Len(r) = n + k
      /\ \A i \in 1..n : r[i] = q[i]
      /\ \A i \in 1..k : r[n + i] = new[i]
  OBVIOUS
<1> HIDE DEF r
<1> SUFFICES ASSUME NEW i \in 1..(n + k)
             PROVE  /\ r[i].step = "narrow" => i < n + k /\ r[i + 1] = Wide!Task("reduce", r[i].call)
                    /\ r[i].step = "reduce" => i < n + k /\ r[i + 1] = Wide!Task("widen", r[i].call)
                    /\ r[i].step \in {"widen", "direct"} /\ i < n + k => Starts(r[i + 1])
  BY <1>1 DEF InOrderOfCalls, r
<1> HIDE DEF n, k
<1>2. CASE i \in 1..n /\ i < n
  <2>1. i + 1 \in 1..n /\ r[i] = q[i] /\ r[i + 1] = q[i + 1] /\ i < n + k
    BY <1>1, <1>2
  <2> QED  BY <1>2, <2>1 DEF InOrderOfCalls, n
<1>3. CASE i \in 1..n /\ i = n
  <2>1. r[i] = q[n] /\ n \in 1..n /\ ~(n < n)
    BY <1>1, <1>3
  <2>2. r[i].step # "narrow" /\ r[i].step # "reduce"
    BY <2>1 DEF InOrderOfCalls, n
  <2>3. r[i + 1] = new[1]
    BY <1>1, <1>3
  <2> QED  BY <2>2, <2>3
<1>4. CASE i \notin 1..n
  <2>1. PICK j \in 1..k : i = n + j
    <3>1. i - n \in 1..k /\ i = n + (i - n)
      BY <1>1, <1>4
    <3> QED  BY <3>1
  <2>2. r[i] = new[j] /\ (j < k => r[i + 1] = new[j + 1]) /\ (i < n + k <=> j < k)
    <3>1. r[n + j] = new[j]
      BY <1>1
    <3>2. j < k => j + 1 \in 1..k /\ i + 1 = n + (j + 1)
      BY <1>1, <2>1
    <3>3. i < n + k <=> j < k
      BY <1>1, <2>1
    <3> QED  BY <1>1, <2>1, <3>1, <3>2, <3>3
  <2> QED  BY <2>2 DEF InOrderOfCalls, k
<1> QED  BY <1>1, <1>2, <1>3, <1>4

(* XcclAllReduce in one step: what it puts behind the stream.              *)
LEMMA NewTasks ==
  ASSUME GcuInv, NEW s \in GcuStreams, NEW c \in Wide!Calls, Wide!XcclAllReduce(s, c)
  PROVE  \E new \in Seq(GcuTask) :
           /\ new # <<>> /\ InOrderOfCalls(new) /\ Starts(new[1])
           /\ \A i \in 1..Len(new) : HasBuffer(new[i], memory')
           /\ gcuStream' = [gcuStream EXCEPT ![s] = gcuStream[s] \o new]
<1> DEFINE a == Wide!Task("narrow", c)
           b == Wide!Task("reduce", c)
           d == Wide!Task("widen", c)
           e == Wide!Task("direct", c)
<1>1. /\ a \in GcuTask /\ b \in GcuTask /\ d \in GcuTask /\ e \in GcuTask
      /\ a.step = "narrow" /\ b.step = "reduce" /\ d.step = "widen" /\ e.step = "direct"
      /\ a.call = c /\ b.call = c /\ d.call = c /\ e.call = c
      /\ b = Wide!Task("reduce", a.call) /\ d = Wide!Task("widen", b.call)
  BY DEF GcuTask, Wide!Task
<1>2. CASE Wide!ThroughBuffer(s, c)
  <2> DEFINE new == <<a, b, d>>
  <2>1. gcuStream' = [gcuStream EXCEPT ![s] = gcuStream[s] \o new] /\ Wide!Key(c) \in DOMAIN memory'
    BY <1>2 DEF Wide!ThroughBuffer
  <2> HIDE DEF a, b, d, e
  <2>2. /\ new \in Seq(GcuTask) /\ new # <<>> /\ Len(new) = 3
        /\ new[1] = a /\ new[2] = b /\ new[3] = d
    BY <1>1
  <2> HIDE DEF new
  <2>3. \A i \in 1..Len(new) : HasBuffer(new[i], memory')
    BY <1>1, <2>1, <2>2 DEF HasBuffer
  <2>4. InOrderOfCalls(new)
    BY <1>1, <2>2 DEF InOrderOfCalls
  <2> QED  BY <1>1, <2>1, <2>2, <2>3, <2>4 DEF Starts
<1>3. CASE Wide!Direct(s, c)
  <2> DEFINE new == <<e>>
  <2>1. /\ gcuStream' = [gcuStream EXCEPT ![s] = Append(gcuStream[s], e)]
        /\ Wide!Real(c) = c.type
    BY <1>3 DEF Wide!Direct
  <2> HIDE DEF a, b, d, e
  <2>2. new \in Seq(GcuTask) /\ new # <<>> /\ Len(new) = 1 /\ new[1] = e
    BY <1>1
  <2>3. gcuStream[s] \in Seq(GcuTask)
    BY DEF GcuInv
  <2>4. Append(gcuStream[s], e) = gcuStream[s] \o new
    BY <1>1, <2>3
  <2> HIDE DEF new
  <2>5. \A i \in 1..Len(new) : HasBuffer(new[i], memory')
    BY <1>1, <2>1, <2>2 DEF HasBuffer
  <2>6. InOrderOfCalls(new)
    BY <1>1, <2>2 DEF InOrderOfCalls
  <2> QED  BY <1>1, <2>1, <2>2, <2>4, <2>5, <2>6 DEF Starts
<1> QED  BY <1>2, <1>3 DEF Wide!XcclAllReduce

LEMMA AllReduceKeeps ==
  ASSUME OneGcuStream, GcuInv, NEW s \in GcuStreams, NEW c \in Wide!Calls,
         Wide!XcclAllReduce(s, c)
  PROVE  GcuInv'
<1>1. PICK new \in Seq(GcuTask) :
        /\ new # <<>> /\ InOrderOfCalls(new) /\ Starts(new[1])
        /\ \A i \in 1..Len(new) : HasBuffer(new[i], memory')
        /\ gcuStream' = [gcuStream EXCEPT ![s] = gcuStream[s] \o new]
  BY NewTasks
<1> DEFINE q == gcuStream[s]
           n == Len(q)
           k == Len(new)
           r == q \o new
<1>2. q \in Seq(GcuTask) /\ InOrderOfCalls(q) /\ (\A i \in 1..n : HasBuffer(q[i], memory))
      /\ (n > 0 => HeadReady(q[1], memory))
  BY DEF GcuInv
<1>3. /\ n \in Nat /\ k \in Nat \ {0} /\ r \in Seq(GcuTask) /\ Len(r) = n + k
      /\ \A i \in 1..n : r[i] = q[i]
      /\ \A i \in 1..k : r[n + i] = new[i]
  <2>1. q \in Seq(GcuTask)
    BY <1>2
  <2> HIDE DEF q
  <2>2. r \in Seq(GcuTask) /\ n \in Nat /\ k \in Nat \ {0} /\ Len(r) = n + k
    BY <1>1, <2>1
  <2>3. (\A i \in 1..n : r[i] = q[i]) /\ (\A i \in 1..k : r[n + i] = new[i])
    BY <2>1
  <2> QED  BY <2>2, <2>3
<1>4. gcuStream' \in [GcuStreams -> Seq(GcuTask)] /\ \A t \in GcuStreams : gcuStream'[t] = r
  BY <1>1, <1>3 DEF OneGcuStream, GcuInv
<1>5. InOrderOfCalls(r)
  BY <1>1, <1>2, TasksAdded
<1>6. /\ memory' \in [DOMAIN memory' -> Int]
      /\ DOMAIN memory \subseteq DOMAIN memory'
      /\ \A x \in DOMAIN memory : memory'[x] = memory[x]
      /\ received' = <<>>
  <2>1. CASE Wide!ThroughBuffer(s, c)
    BY <2>1 DEF GcuInv, Wide!XcclAllReduce, Wide!ThroughBuffer
  <2>2. CASE Wide!Direct(s, c)
    <3>1. memory' = memory
      BY <2>2 DEF Wide!Direct
    <3> QED  BY <3>1 DEF GcuInv, Wide!XcclAllReduce
  <2> QED  BY <2>1, <2>2 DEF Wide!XcclAllReduce
<1> HIDE DEF r, q, n, k
<1>7. ASSUME NEW i \in 1..(n + k)
      PROVE  HasBuffer(r[i], memory')
  <2>1. CASE i \in 1..n
    <3>1. r[i] = q[i] /\ HasBuffer(q[i], memory)
      BY <2>1, <1>2, <1>3
    <3> QED  BY <3>1, <1>6 DEF HasBuffer
  <2>2. CASE i \notin 1..n
    <3>1. i - n \in 1..k /\ r[n + (i - n)] = new[i - n] /\ n + (i - n) = i
      BY <2>2, <1>3
    <3> QED  BY <3>1, <1>1 DEF k
  <2> QED  BY <2>1, <2>2
<1>8. HeadReady(r[1], memory')
  <2>1. CASE n = 0
    <3>1. r[n + 1] = new[1]
      BY <1>3
    <3> QED  BY <3>1, <2>1, <1>1 DEF HeadReady, Starts
  <2>2. CASE n > 0
    <3>1. 1 \in 1..n /\ r[1] = q[1] /\ HasBuffer(q[1], memory)
      BY <2>2, <1>2, <1>3
    <3> QED  BY <2>2, <3>1, <1>2, <1>6 DEF HeadReady, HasBuffer
  <2> QED  BY <1>3, <2>1, <2>2
<1> QED  BY <1>3, <1>4, <1>5, <1>6, <1>7, <1>8 DEF GcuInv

LEMMA GcuRunKeeps ==
  ASSUME OneGcuStream, GcuInv, NEW s \in GcuStreams, Wide!Run(s)
  PROVE  GcuInv'
<1> DEFINE q == gcuStream[s]
           n == Len(q)
           r == Tail(q)
           c == q[1].call
           key == Wide!Key(c)
<1>1. /\ q \in Seq(GcuTask) /\ q # <<>> /\ Head(q) = q[1] /\ q[1] \in GcuTask /\ c \in Wide!Calls
      /\ n \in Nat \ {0} /\ r \in Seq(GcuTask) /\ Len(r) = n - 1 /\ \A i \in 1..(n - 1) : r[i] = q[i + 1]
  <2>1. q \in Seq(GcuTask) /\ q # <<>>
    BY DEF GcuInv, Wide!Run
  <2>2. /\ Head(q) = q[1] /\ q[1] \in GcuTask /\ n \in Nat \ {0}
        /\ r \in Seq(GcuTask) /\ Len(r) = n - 1 /\ \A i \in 1..(n - 1) : r[i] = q[i + 1]
    BY <2>1
  <2> QED  BY <2>1, <2>2 DEF GcuTask
<1>2. gcuStream' \in [GcuStreams -> Seq(GcuTask)] /\ \A t \in GcuStreams : gcuStream'[t] = r
  BY <1>1 DEF OneGcuStream, GcuInv, Wide!Run
<1>3. InOrderOfCalls(q) /\ (\A i \in 1..n : HasBuffer(q[i], memory)) /\ HeadReady(q[1], memory)
  BY <1>1 DEF GcuInv
<1>4. /\ memory \in [DOMAIN memory -> Int] /\ q[1].step \in {"narrow", "reduce", "widen", "direct"}
      /\ q[1].step # "direct" => key \in DOMAIN memory
      /\ q[1].step = "direct" => Mine(c) = c.mine /\ Theirs(c) = c.theirs
      /\ Mine(c) \in Int /\ Reduced(c) \in Int
  <2>1. 1 \in 1..n
    BY <1>1
  <2>2. HasBuffer(q[1], memory)
    BY <1>3, <2>1
  <2>3. q[1].step = "direct" => Wide!Real(c) = c.type
    BY <2>2 DEF HasBuffer
  <2>4. q[1].step # "direct" => key \in DOMAIN memory
    BY <2>2 DEF HasBuffer
  <2>5. memory \in [DOMAIN memory -> Int] /\ q[1].step \in {"narrow", "reduce", "widen", "direct"}
    BY <1>1 DEF GcuInv, GcuTask
  <2> HIDE DEF q, key
  <2>6. q[1].step = "direct" => Mine(c) = c.mine /\ Theirs(c) = c.theirs
    BY <1>1, <2>3, CallsTyped
  <2>7. Mine(c) \in Int /\ Reduced(c) \in Int
    BY <1>1, ReducedInt
  <2> QED  BY <2>4, <2>5, <2>6, <2>7
<1>5. /\ q[1].step = "narrow" => memory' = [memory EXCEPT ![key] = Mine(c)] /\ received' = <<>>
      /\ q[1].step = "reduce" => memory' = [memory EXCEPT ![key] = Reduced(c)] /\ received' = <<>>
      /\ q[1].step = "widen" => memory' = memory /\ received' = <<c, Reduced(c)>>
      /\ q[1].step = "direct" => memory' = memory /\ received' = <<c, Reduced(c)>>
  <2> HIDE DEF n, r
  <2> QED  BY <1>1, <1>3, <1>4 DEF Wide!Run, Wide!Store, Wide!Return, HeadReady, Mine, Theirs, Reduced
<1> HIDE DEF q, n, r, c, key
<1>6. InOrderOfCalls(r)
  <2> SUFFICES ASSUME NEW i \in 1..(n - 1)
               PROVE  /\ r[i].step = "narrow" => i < n - 1 /\ r[i + 1] = Wide!Task("reduce", r[i].call)
                      /\ r[i].step = "reduce" => i < n - 1 /\ r[i + 1] = Wide!Task("widen", r[i].call)
                      /\ r[i].step \in {"widen", "direct"} /\ i < n - 1 => Starts(r[i + 1])
    BY <1>1 DEF InOrderOfCalls
  <2>1. i + 1 \in 1..n /\ r[i] = q[i + 1] /\ (i < n - 1 => r[i + 1] = q[(i + 1) + 1])
    BY <1>1
  <2> QED  BY <2>1, <1>1, <1>3 DEF InOrderOfCalls, n
<1>7. memory' \in [DOMAIN memory' -> Int] /\ DOMAIN memory' = DOMAIN memory
  BY <1>4, <1>5
<1>8. ASSUME NEW i \in 1..(n - 1)
      PROVE  HasBuffer(r[i], memory')
  <2>1. i + 1 \in 1..n /\ r[i] = q[i + 1]
    BY <1>1
  <2> QED  BY <2>1, <1>3, <1>7 DEF HasBuffer
<1>9. n > 1 => HeadReady(r[1], memory')
  <2> SUFFICES ASSUME n > 1  PROVE HeadReady(r[1], memory')
    OBVIOUS
  <2>1. r[1] = q[1 + 1] /\ 1 \in 1..Len(q) /\ 1 < Len(q)
    BY <1>1 DEF n
  <2>2. CASE q[1].step = "narrow"
    <3>1. r[1] = Wide!Task("reduce", c)
      BY <2>1, <2>2, <1>3 DEF InOrderOfCalls, c
    <3>2. r[1].step = "reduce" /\ r[1].call = c
      BY <3>1 DEF Wide!Task
    <3> QED  BY <2>2, <3>2, <1>4, <1>5 DEF HeadReady, key
  <2>3. CASE q[1].step = "reduce"
    <3>1. r[1] = Wide!Task("widen", c)
      BY <2>1, <2>3, <1>3 DEF InOrderOfCalls, c
    <3>2. r[1].step = "widen" /\ r[1].call = c
      BY <3>1 DEF Wide!Task
    <3> QED  BY <2>3, <3>2, <1>4, <1>5 DEF HeadReady, key
  <2>4. CASE q[1].step \in {"widen", "direct"}
    <3>1. Starts(r[1])
      BY <2>1, <2>4, <1>3 DEF InOrderOfCalls
    <3> QED  BY <3>1 DEF HeadReady, Starts
  <2> QED  BY <1>4, <2>2, <2>3, <2>4
<1>10. received' # <<>> => \E x \in Wide!Calls : received' = <<x, Reduced(x)>>
  BY <1>1, <1>4, <1>5
<1>11. r # <<>> => n > 1
  BY <1>1
<1> QED  BY <1>1, <1>2, <1>6, <1>7, <1>8, <1>9, <1>10, <1>11 DEF GcuInv

LEMMA GcuStep ==
  ASSUME OneGcuStream
  PROVE  GcuInv /\ [Wide!Next]_(Wide!vars) => GcuInv'
<1> SUFFICES ASSUME GcuInv, [Wide!Next]_(Wide!vars)  PROVE GcuInv'
  OBVIOUS
<1>1. CASE Wide!Next
  BY <1>1, AllReduceKeeps, GcuRunKeeps DEF Wide!Next
<1>2. CASE UNCHANGED Wide!vars
  BY <1>2 DEF Wide!vars, GcuInv
<1> QED  BY <1>1, <1>2

(* XcclAllReduce of any type, 64-bit data through a buffer of half the     *)
(* width: with one stream a sum or product of integers is right whenever   *)
(* it fits, a maximum, a minimum or a float when its terms fit too, for    *)
(* every width of the narrow type and all integers.  Two streams would     *)
(* share the buffers and get in each other's way.                          *)
THEOREM WideReductionCorrect ==
  ASSUME OneGcuStream
  PROVE  Wide!Spec => []Wide!ReductionRight
<1>1. Wide!Init => GcuInv
  BY DEF Wide!Init, GcuInv, InOrderOfCalls
<1>2. GcuInv => Wide!ReductionRight
  BY ReducedRight DEF GcuInv, Wide!ReductionRight
<1> QED  BY <1>1, <1>2, GcuStep, PTL DEF Wide!Spec

LEMMA PartIsGcu == PartSpec => Wide!Spec
<1>1. PartInit => Wide!Init
  BY DEF PartInit, Gcu!Init, Wide!Init
<1>2. Gcu!Calls \subseteq Wide!Calls
  BY ValuesAssumption DEF Gcu!Calls, Wide!Calls, Gcu!Fits, Wide!Fits, Gcu!Narrow, Wide!Narrow
<1>3. Gcu!Next => Wide!Next
  <2>1. ASSUME NEW s \in GcuStreams, Gcu!Run(s)  PROVE Wide!Run(s)
    BY <2>1 DEF Gcu!Run, Gcu!Store, Gcu!Return, Gcu!AllReduced, Gcu!Real, Gcu!RealType, Gcu!Key, Gcu!Narrow, Gcu!Reduce,
                Wide!Run, Wide!Store, Wide!Return, Wide!AllReduced, Wide!Real, Wide!RealType, Wide!Key, Wide!Narrow,
                Wide!Reduce
  <2>2. ASSUME NEW s \in GcuStreams, NEW c \in Gcu!Calls, Gcu!XcclAllReduce(s, c)  PROVE Wide!XcclAllReduce(s, c)
    <3>1. Gcu!Pending(s) = Wide!Pending(s)
      BY DEF Gcu!Pending, Wide!Pending, Gcu!Cardinality, Wide!Cardinality
    <3> QED  BY <2>2, <3>1 DEF Gcu!XcclAllReduce, Gcu!ThroughBuffer, Gcu!Direct, Gcu!Real, Gcu!RealType, Gcu!Key, Gcu!Task,
                Wide!XcclAllReduce, Wide!ThroughBuffer, Wide!Direct, Wide!Real, Wide!RealType, Wide!Key, Wide!Task
  <2> QED  BY <1>2, <2>1, <2>2 DEF Gcu!Next, Wide!Next
<1>4. [PartNext]_partVars => [Wide!Next]_(Wide!vars)
  BY <1>3 DEF PartNext, InComm, InStaging, RunSdaa, RunHpu, RunGcu, partVars, gcuVars, Wide!vars
<1> QED  BY <1>1, <1>4, PTL DEF PartSpec, Wide!Spec

(* The same of the part that TLC runs.                                     *)
THEOREM ReductionRightCorrect ==
  ASSUME OneGcuStream
  PROVE  PartSpec => []ReductionRight
<1>1. Wide!ReductionRight => ReductionRight
  BY DEF Wide!ReductionRight, ReductionRight, Gcu!ReductionRight, Wide!Fits, Gcu!Fits, Wide!Reduce,
         Gcu!Reduce, Wide!Narrow, Gcu!Narrow, Wide!Real, Gcu!Real, Wide!RealType, Gcu!RealType,
         Wide!Modular, Gcu!Modular
<1> QED  BY <1>1, WideReductionCorrect, PartIsGcu, PTL

-----------------------------------------------------------------------------
(***************************************************************************)
(* NpuStaging.  AsyncMemCpyH2D frees no buffer the device has still to copy*)
(* from, and only overlapping calls can make ProcessEvents spin, for any   *)
(* number of threads, streams, buffers and events.  The invariant: a buffer*)
(* without an event is that of a call that is between Alloc and Record, a  *)
(* buffer with one has its copies before the event's latest record; no two *)
(* calls or entries have the same buffer or the same event.                *)
(***************************************************************************)
CopyOf(b) == Staging!CopyTask(b)
RecordOf(r) == Staging!Service!RecordOf(r)

StagingTask == {CopyOf(b) : b \in Buffers} \cup {RecordOf(r) : r \in Records}

Entries == DOMAIN recorded
Pending(b) == \E s \in Streams : In(CopyOf(b), stream[s])

StagingLabels == {"out", "alloc", "process", "spin", "create", "copy", "record", "enter", "sync"}

WithBuffer(t) == pc[t] \in {"create", "copy", "record", "enter"}
WithEvent(t)  == pc[t] \in {"copy", "record", "enter"}

StagingTypes ==
  /\ latest \in [Events -> Records \cup {None}]
  /\ stream \in [Streams -> Seq(StagingTask)]
  /\ taken \subseteq Events /\ live \subseteq Buffers /\ Entries \subseteq live
  /\ recorded \in [Entries -> Events \cup {None}]
  /\ pc \in [Threads -> StagingLabels]
  /\ buf \in [Threads -> Buffers \cup {None}] /\ ev \in [Threads -> Events \cup {None}]
  /\ st \in [Threads -> Streams \cup {None}]
  /\ \A t \in Threads : pc[t] # "out" => st[t] \in Streams

(* mtx_ is held by the thread in ProcessEvents, which has yet to visit only*)
(* entries that are there.                                                 *)
MutexInv ==
  \A t \in Threads :
    /\ pc[t] \in {"process", "spin"} <=> mtx = t
    /\ pc[t] \in {"process", "spin"} => todo[t] \subseteq Entries
    /\ todo \in [Threads -> SUBSET Buffers]

EntryInv ==
  /\ \A t \in Threads : WithBuffer(t) =>
       /\ buf[t] \in Entries /\ recorded[buf[t]] = None
       /\ \A u \in Threads : WithBuffer(u) /\ buf[u] = buf[t] => u = t
  /\ \A b \in Entries : recorded[b] = None => \E u \in Threads : WithBuffer(u) /\ buf[u] = b
  /\ \A t \in Threads : pc[t] = "spin" => \E b \in Entries : recorded[b] = None

HandleInv ==
  /\ \A b \in Entries : recorded[b] # None =>
       /\ recorded[b] \in taken
       /\ \A c \in Entries : recorded[c] = recorded[b] => c = b
  /\ \A t \in Threads : WithEvent(t) =>
       /\ ev[t] \in taken
       /\ \A b \in Entries : recorded[b] # ev[t]
       /\ \A u \in Threads : WithEvent(u) /\ ev[u] = ev[t] => u = t

(* The copies from b that are pending stand before the latest record of e. *)
CopiedBefore(b, e) ==
  latest[e] # None /\ \A s \in Streams : Before(CopyOf(b), RecordOf(latest[e]), stream[s])

CopyInv ==
  /\ \A b \in Buffers : Pending(b) => b \in Entries
  /\ \A b \in Entries : recorded[b] # None => CopiedBefore(b, recorded[b])
  /\ \A t \in Threads :
       /\ pc[t] \in {"create", "copy"} => ~Pending(buf[t])
       /\ pc[t] = "record" => \A s \in Streams \ {st[t]} : ~In(CopyOf(buf[t]), stream[s])
       /\ pc[t] = "enter" => CopiedBefore(buf[t], ev[t])

StagingInv == StagingTypes /\ MutexInv /\ EntryInv /\ HandleInv /\ CopyInv

-----------------------------------------------------------------------------
(* The tasks of a stream are told apart by their kind and what they name.  *)
LEMMA StagingKinds ==
  /\ \A b \in Buffers : CopyOf(b) \in StagingTask
  /\ \A r \in Records : RecordOf(r) \in StagingTask
  /\ \A b, r : CopyOf(b) # RecordOf(r)
  /\ \A b, c : CopyOf(b) = CopyOf(c) => b = c
<1>1. /\ \A b \in Buffers : CopyOf(b) \in StagingTask
      /\ \A r \in Records : RecordOf(r) \in StagingTask
  BY DEF StagingTask
<1>2. /\ \A b : CopyOf(b).op = "copy" /\ CopyOf(b).buffer = b
      /\ \A r : RecordOf(r).op = "record"
  BY DEF CopyOf, RecordOf, Staging!CopyTask, Staging!Service!RecordOf
<1>3. "copy" # "record"
  OBVIOUS
<1> QED  BY ONLY <1>1, <1>2, <1>3

(* The model's ways of saying that a task is in a stream.                  *)
LEMMA StagingTasks ==
  ASSUME StagingTypes
  PROVE  /\ \A b : Staging!Copying(b) <=> Pending(b)
         /\ \A r : Staging!Service!HasRun(r) <=> \A s \in Streams : ~In(RecordOf(r), stream[s])
<1>1. \A s \in Streams : \A x : x \in Staging!Service!Tasks(s) <=> In(x, stream[s])
  BY DEF Staging!Service!Tasks, In
<1> QED  BY <1>1 DEF Staging!Copying, Pending, CopyOf, Staging!Service!HasRun, RecordOf

(* What a call that puts a task into a stream changes.                     *)
LEMMA StreamAppend ==
  ASSUME StagingTypes, NEW s \in Streams, NEW x \in StagingTask,
         stream' = [stream EXCEPT ![s] = Append(@, x)]
  PROVE  /\ stream' \in [Streams -> Seq(StagingTask)]
         /\ \A y : \A r \in Streams : In(y, stream'[r]) <=> In(y, stream[r]) \/ (r = s /\ y = x)
         /\ \A w, m : \A r \in Streams :
              x # w /\ Before(w, m, stream[r]) => Before(w, m, stream'[r])
         /\ \A w : w # x => Before(w, x, stream'[s])
<1>1. Append(stream[s], x) \in Seq(StagingTask) /\ stream[s] \in Seq(StagingTask)
  BY DEF StagingTypes
<1>2. /\ \A r \in Streams : stream'[r] = IF r = s THEN Append(stream[s], x) ELSE stream[r]
      /\ stream' \in [Streams -> Seq(StagingTask)]
  BY <1>1 DEF StagingTypes
<1>3. \A y : In(y, Append(stream[s], x)) <=> In(y, stream[s]) \/ y = x
  BY <1>1, InAppend
<1>4. \A w, m : x # w /\ Before(w, m, stream[s]) => Before(w, m, Append(stream[s], x))
  BY <1>1, BeforeAppend
<1>5. \A w : w # x => Before(w, x, Append(stream[s], x))
  BY <1>1, BeforeMark
<1> QED  BY ONLY <1>1, <1>2, <1>3, <1>4, <1>5

(* What the end of the task at the head of a stream changes.               *)
LEMMA StreamTail ==
  ASSUME StagingTypes, NEW s \in Streams, stream[s] # <<>>,
         stream' = [stream EXCEPT ![s] = Tail(@)]
  PROVE  /\ stream' \in [Streams -> Seq(StagingTask)]
         /\ \A y : \A r \in Streams : In(y, stream'[r]) => In(y, stream[r])
         /\ \A w, m : \A r \in Streams :
              w # m /\ Before(w, m, stream[r]) => Before(w, m, stream'[r])
<1>1. Tail(stream[s]) \in Seq(StagingTask) /\ stream[s] \in Seq(StagingTask)
  BY DEF StagingTypes
<1>2. /\ \A r \in Streams : stream'[r] = IF r = s THEN Tail(stream[s]) ELSE stream[r]
      /\ stream' \in [Streams -> Seq(StagingTask)]
  BY <1>1 DEF StagingTypes
<1>3. \A y : In(y, Tail(stream[s])) => In(y, stream[s])
  BY <1>1, InTail
<1>4. \A w, m : w # m /\ Before(w, m, stream[s]) => Before(w, m, Tail(stream[s]))
  BY <1>1, BeforeTail
<1> QED  BY ONLY <1>1, <1>2, <1>3, <1>4

(* A thread without a buffer that goes where it has none changes nothing   *)
(* that the invariant says of the others.                                  *)
LEMMA StagingIdle ==
  ASSUME StagingInv, NEW t \in Threads, NEW label \in {"out", "alloc", "process", "spin", "sync"},
         ~WithBuffer(t), pc' = [pc EXCEPT ![t] = label],
         UNCHANGED <<latest, stream, taken, recorded, live>>,
         buf' \in [Threads -> Buffers \cup {None}], ev' \in [Threads -> Events \cup {None}],
         st' \in [Threads -> Streams \cup {None}],
         \A u \in Threads \ {t} : buf'[u] = buf[u] /\ ev'[u] = ev[u] /\ st'[u] = st[u],
         label # "out" => st'[t] \in Streams,
         label = "spin" => \E b \in Entries : recorded[b] = None,
         MutexInv'
  PROVE  StagingInv'
<1>1. StagingTypes'
  BY DEF StagingInv, StagingTypes, StagingLabels, Entries
<1>2. /\ ~WithBuffer(t)' /\ ~WithEvent(t) /\ ~WithEvent(t)' /\ pc'[t] = label
      /\ \A u \in Threads \ {t} : pc'[u] = pc[u] /\ (WithBuffer(u)' <=> WithBuffer(u))
                                  /\ (WithEvent(u)' <=> WithEvent(u))
  BY DEF StagingInv, StagingTypes, WithBuffer, WithEvent
<1>3. EntryInv'
  BY <1>2 DEF StagingInv, EntryInv, Entries
<1>4. HandleInv'
  BY <1>2 DEF StagingInv, HandleInv, Entries
<1>5. CopyInv'
  BY <1>2 DEF StagingInv, CopyInv, CopiedBefore, Pending, Entries
<1> QED  BY <1>1, <1>3, <1>4, <1>5 DEF StagingInv

LEMMA CallKeeps ==
  ASSUME StagingInv, NEW t \in Threads, NEW s \in Streams, Staging!Call(t, s)
  PROVE  StagingInv'
<1> USE DEF Staging!Call, Staging!Goto
<1>1. MutexInv'
  BY DEF StagingInv, StagingTypes, MutexInv, Entries
<1> QED  BY <1>1, StagingIdle DEF StagingInv, StagingTypes, WithBuffer

LEMMA LockKeeps ==
  ASSUME StagingInv, NEW t \in Threads, Staging!Lock(t)
  PROVE  StagingInv'
<1> USE DEF Staging!Lock, Staging!Goto, Staging!local
<1>1. MutexInv'
  BY NullAssumption DEF StagingInv, StagingTypes, MutexInv, Entries, Staging!Entries
<1> QED  BY <1>1, StagingIdle DEF StagingInv, StagingTypes, WithBuffer

LEMMA SpinKeeps ==
  ASSUME StagingInv, NEW t \in Threads, NEW b \in Buffers, Staging!Spin(t, b)
  PROVE  StagingInv'
<1> USE DEF Staging!Spin, Staging!Goto, Staging!local
<1>1. MutexInv'
  BY DEF StagingInv, StagingTypes, MutexInv, Entries
<1>2. b \in Entries /\ recorded[b] = None
  BY DEF StagingInv, MutexInv
<1> QED  BY <1>1, <1>2, StagingIdle DEF StagingInv, StagingTypes, WithBuffer

LEMMA SyncKeeps ==
  ASSUME StagingInv, NEW t \in Threads, Staging!Sync(t)
  PROVE  StagingInv'
<1> USE DEF Staging!Sync, Staging!Goto, Staging!Return
<1>1. MutexInv'
  BY DEF StagingInv, StagingTypes, MutexInv, Entries
<1> QED  BY <1>1, StagingIdle DEF StagingInv, StagingTypes, WithBuffer

(* A buffer whose event has completed is no longer copied from.            *)
LEMMA CompletedIsCopied ==
  ASSUME StagingInv, NEW b \in Entries, recorded[b] # None, Staging!Completed(recorded[b])
  PROVE  ~Pending(b)
<1>1. recorded[b] \in Events /\ CopiedBefore(b, recorded[b])
  BY DEF StagingInv, StagingTypes, CopyInv
<1> DEFINE mark == RecordOf(latest[recorded[b]])
<1>2. \A s \in Streams : ~In(mark, stream[s]) /\ Before(CopyOf(b), mark, stream[s])
  BY <1>1, StagingTasks DEF Staging!Completed, Staging!Service!Answerable, Staging!NoRecord,
                            CopiedBefore, StagingInv
<1>3. ASSUME NEW s \in Streams  PROVE ~In(CopyOf(b), stream[s])
  <2>1. Len(stream[s]) \in Nat
    BY DEF StagingInv, StagingTypes
  <2> QED  BY <1>2, <2>1 DEF Before, In
<1> QED  BY <1>3 DEF Pending

(* ProcessEvents frees a buffer whose event has completed, with its event. *)
LEMMA ProcessKeeps ==
  ASSUME StagingInv, NEW t \in Threads, NEW b \in Buffers, Staging!Process(t, b)
  PROVE  StagingInv'
<1> DEFINE e == recorded[b]
<1>1. /\ b \in Entries /\ e # None /\ e \in Events /\ e \in taken
      /\ pc[t] = "process" /\ mtx = t
      /\ todo' = [todo EXCEPT ![t] = @ \ {b}]
      /\ UNCHANGED <<latest, stream, mtx, pc, buf, ev, st>>
  BY DEF StagingInv, StagingTypes, MutexInv, HandleInv, Staging!Process, Staging!local
<1>2. \A u \in Threads : (WithBuffer(u)' <=> WithBuffer(u)) /\ (WithEvent(u)' <=> WithEvent(u))
  BY <1>1 DEF WithBuffer, WithEvent
<1>3. CASE Staging!Completed(e)
  <2>1. /\ live' = live \ {b} /\ taken' = taken \ {e}
        /\ recorded' = [x \in Entries \ {b} |-> recorded[x]]
    BY <1>3 DEF Staging!Process, Staging!Free, Staging!Entries, Entries
  <2>2. Entries' = Entries \ {b} /\ \A x \in Entries \ {b} : recorded'[x] = recorded[x]
    BY <2>1 DEF Entries
  <2>3. StagingTypes'
    <3>1. recorded' \in [Entries' -> Events \cup {None}]
      BY <2>1, <2>2 DEF StagingInv, StagingTypes
    <3> QED  BY <1>1, <2>1, <2>2, <3>1 DEF StagingInv, StagingTypes
  <2>4. MutexInv'
    BY <1>1, <2>2 DEF StagingInv, MutexInv
  <2>5. \A u \in Threads : WithBuffer(u) => buf[u] # b
    BY <1>1 DEF StagingInv, EntryInv
  <2>6. EntryInv'
    BY <1>1, <1>2, <2>2, <2>5 DEF StagingInv, MutexInv, EntryInv
  <2>7. HandleInv'
    BY <1>1, <1>2, <2>1, <2>2 DEF StagingInv, HandleInv
  <2>8. CopyInv'
    <3>1. ~Pending(b)
      BY <1>1, <1>3, CompletedIsCopied
    <3> QED  BY <1>1, <2>2, <3>1 DEF StagingInv, CopyInv, CopiedBefore, Pending
  <2> QED  BY <2>3, <2>4, <2>6, <2>7, <2>8 DEF StagingInv
<1>4. CASE ~Staging!Completed(e)
  <2>1. UNCHANGED <<taken, recorded, live>>
    BY <1>4 DEF Staging!Process
  <2>2. MutexInv'
    BY <1>1, <2>1 DEF StagingInv, MutexInv, Entries
  <2> QED  BY <1>1, <1>2, <2>1, <2>2 DEF StagingInv, StagingTypes, EntryInv, HandleInv, CopyInv,
                                         CopiedBefore, Pending, Entries
<1> QED  BY <1>3, <1>4

LEMMA AllocKeeps ==
  ASSUME StagingInv, NEW t \in Threads, Staging!Alloc(t)
  PROVE  StagingInv'
<1> DEFINE b == CHOOSE x \in Buffers : x \notin live
<1>1. /\ pc[t] = "process" /\ todo[t] = {} /\ mtx' = None
      /\ live' = live \cup {b} /\ buf' = [buf EXCEPT ![t] = b]
      /\ recorded' = [x \in Entries \cup {b} |-> IF x = b THEN None ELSE recorded[x]]
      /\ pc' = [pc EXCEPT ![t] = "create"]
      /\ UNCHANGED <<latest, stream, taken, ev, st, todo>>
  BY DEF Staging!Alloc, Staging!Malloc, Staging!Goto, Staging!Entries, Entries
<1>2. b \in Buffers /\ b \notin live
  <2>1. \E x \in Buffers : x \notin live
    BY DEF StagingInv, StagingTypes, Staging!Alloc, Staging!Malloc
  <2> QED  BY <2>1
<1> HIDE DEF b
<1>3. /\ b \notin Entries /\ Entries' = Entries \cup {b} /\ recorded'[b] = None
      /\ \A x \in Entries : recorded'[x] = recorded[x]
  BY <1>1, <1>2 DEF StagingInv, StagingTypes, Entries
<1>4. StagingTypes'
  <2>1. recorded' \in [Entries' -> Events \cup {None}]
    BY <1>1, <1>3 DEF StagingInv, StagingTypes
  <2>2. pc' \in [Threads -> StagingLabels] /\ buf' \in [Threads -> Buffers \cup {None}]
    BY <1>1, <1>2 DEF StagingInv, StagingTypes, StagingLabels
  <2>3. \A u \in Threads : pc'[u] # "out" => st'[u] \in Streams
    BY <1>1 DEF StagingInv, StagingTypes
  <2> QED  BY <1>1, <1>2, <1>3, <2>1, <2>2, <2>3 DEF StagingInv, StagingTypes
<1>5. /\ pc'[t] = "create" /\ buf'[t] = b /\ WithBuffer(t)' /\ ~WithBuffer(t)
      /\ ~WithEvent(t) /\ ~WithEvent(t)' /\ mtx = t /\ t # None
      /\ \A u \in Threads \ {t} : pc'[u] = pc[u] /\ buf'[u] = buf[u]
                                  /\ (WithBuffer(u)' <=> WithBuffer(u))
                                  /\ (WithEvent(u)' <=> WithEvent(u))
  BY <1>1, NullAssumption DEF StagingInv, StagingTypes, MutexInv, WithBuffer, WithEvent
<1>6. MutexInv'
  BY <1>1, <1>3, <1>5, NullAssumption DEF StagingInv, MutexInv
<1>7. EntryInv'
  <2>1. \A u \in Threads : WithBuffer(u) => buf[u] # b
    BY <1>3 DEF StagingInv, EntryInv
  <2> QED  BY <1>3, <1>5, <2>1 DEF StagingInv, EntryInv
<1>8. HandleInv'
  BY <1>1, <1>3, <1>5, NullAssumption DEF StagingInv, StagingTypes, HandleInv
<1>9. CopyInv'
  <2>1. ~Pending(b)
    BY <1>2, <1>3 DEF StagingInv, CopyInv
  <2> QED  BY <1>1, <1>3, <1>5, <2>1 DEF StagingInv, CopyInv, CopiedBefore, Pending, WithBuffer
<1> QED  BY <1>4, <1>6, <1>7, <1>8, <1>9 DEF StagingInv

LEMMA CreateKeeps ==
  ASSUME StagingInv, NEW t \in Threads, Staging!Create(t)
  PROVE  StagingInv'
<1> DEFINE e == CHOOSE x \in Events : x \notin taken
<1>1. /\ pc[t] = "create" /\ e \notin taken /\ taken' = taken \cup {e}
      /\ latest' = [latest EXCEPT ![e] = None] /\ ev' = [ev EXCEPT ![t] = e]
      /\ pc' = [pc EXCEPT ![t] = "copy"]
      /\ UNCHANGED <<stream, recorded, live, mtx, buf, st, todo>>
  BY DEF Staging!Create, Staging!Service!Create, Staging!Goto, Staging!NoRecord
<1>2. e \in Events
  <2>1. \E x \in Events : x \notin taken
    BY DEF StagingInv, StagingTypes, Staging!Create
  <2> QED  BY <2>1
<1> HIDE DEF e
<1>3. StagingTypes'
  BY <1>1, <1>2 DEF StagingInv, StagingTypes, StagingLabels, Entries
<1>4. /\ pc'[t] = "copy" /\ ev'[t] = e /\ ~WithEvent(t) /\ WithEvent(t)' /\ e # None
      /\ \A u \in Threads \ {t} : pc'[u] = pc[u] /\ ev'[u] = ev[u] /\ (WithEvent(u)' <=> WithEvent(u))
      /\ \A u \in Threads : WithBuffer(u)' <=> WithBuffer(u)
  BY <1>1, <1>2, NullAssumption DEF StagingInv, StagingTypes, WithBuffer, WithEvent
<1>5. MutexInv'
  BY <1>1, <1>4 DEF StagingInv, MutexInv, Entries
<1>6. EntryInv'
  BY <1>1, <1>4 DEF StagingInv, EntryInv, Entries
<1>7. \A b \in Entries : recorded[b] # e
  BY <1>1, <1>4 DEF StagingInv, HandleInv
<1>8. HandleInv'
  BY <1>1, <1>4, <1>7 DEF StagingInv, HandleInv, Entries
<1>9. CopyInv'
  <2>1. \A b : \A f \in Events \ {e} : CopiedBefore(b, f) => CopiedBefore(b, f)'
    BY <1>1 DEF StagingInv, StagingTypes, CopiedBefore
  <2>2. \A b \in Entries : recorded[b] # None => recorded[b] \in Events \ {e}
    BY <1>7 DEF StagingInv, StagingTypes
  <2>3. \A u \in Threads \ {t} : pc[u] = "enter" => ev[u] \in Events \ {e}
    BY <1>1 DEF StagingInv, StagingTypes, HandleInv, WithEvent
  <2>4. \A b : Pending(b)' <=> Pending(b)
    BY <1>1 DEF Pending
  <2>5. \A b \in Entries' : recorded'[b] # None => CopiedBefore(b, recorded[b])'
    <3>1. \A b \in Entries : recorded[b] # None => CopiedBefore(b, recorded[b])
      BY DEF StagingInv, CopyInv
    <3> QED  BY <1>1, <2>1, <2>2, <3>1 DEF CopiedBefore, Entries
  <2>6. ASSUME NEW u \in Threads
        PROVE  /\ pc'[u] \in {"create", "copy"} => ~Pending(buf[u])
               /\ pc'[u] = "record" => \A s \in Streams \ {st[u]} : ~In(CopyOf(buf[u]), stream[s])
               /\ pc'[u] = "enter" => CopiedBefore(buf[u], ev[u])'
    <3>1. CASE u = t
      BY <3>1, <1>1, <1>4 DEF StagingInv, CopyInv
    <3>2. CASE u # t
      <4>1. pc[u] = "enter" => CopiedBefore(buf[u], ev[u])
        BY DEF StagingInv, CopyInv
      <4>2. pc'[u] = "enter" => CopiedBefore(buf[u], ev[u])'
        BY <3>2, <4>1, <1>1, <1>4, <2>1, <2>3 DEF CopiedBefore
      <4> QED  BY <3>2, <4>2, <1>4 DEF StagingInv, CopyInv
    <3> QED  BY <3>1, <3>2
  <2>7. \A b \in Buffers : Pending(b)' => b \in Entries'
    BY <1>1, <2>4 DEF StagingInv, CopyInv, Entries
  <2> QED  BY <1>1, <2>4, <2>5, <2>6, <2>7 DEF CopyInv, Pending
<1> QED  BY <1>3, <1>5, <1>6, <1>8, <1>9 DEF StagingInv

(* The copy is the only task of its buffer in any stream.                  *)
LEMMA CopyKeeps ==
  ASSUME StagingInv, NEW t \in Threads, Staging!Copy(t)
  PROVE  StagingInv'
<1> DEFINE b == buf[t]  s == st[t]
<1>1. /\ pc[t] = "copy" /\ stream' = [stream EXCEPT ![s] = Append(@, CopyOf(b))]
      /\ pc' = [pc EXCEPT ![t] = "record"]
      /\ UNCHANGED <<latest, taken, recorded, live, mtx, buf, ev, st, todo>>
  BY DEF Staging!Copy, Staging!Goto, Staging!local, CopyOf
<1>2. /\ b \in Entries /\ b \in Buffers /\ recorded[b] = None /\ s \in Streams
      /\ CopyOf(b) \in StagingTask
      /\ \A u \in Threads \ {t} : WithBuffer(u) => buf[u] # b /\ buf[u] \in Buffers
  BY <1>1, StagingKinds DEF StagingInv, StagingTypes, EntryInv, WithBuffer
<1>3. /\ stream' \in [Streams -> Seq(StagingTask)]
      /\ \A y : \A r \in Streams : In(y, stream'[r]) <=> In(y, stream[r]) \/ (r = s /\ y = CopyOf(b))
      /\ \A w, m : \A r \in Streams :
           CopyOf(b) # w /\ Before(w, m, stream[r]) => Before(w, m, stream'[r])
  BY <1>1, <1>2, StreamAppend DEF StagingInv
<1>4. StagingTypes'
  BY <1>1, <1>3 DEF StagingInv, StagingTypes, StagingLabels, Entries
<1>5. /\ pc'[t] = "record" /\ \A u \in Threads \ {t} : pc'[u] = pc[u]
      /\ \A u \in Threads : (WithBuffer(u)' <=> WithBuffer(u)) /\ (WithEvent(u)' <=> WithEvent(u))
  BY <1>1 DEF StagingInv, StagingTypes, WithBuffer, WithEvent
<1>6. MutexInv' /\ EntryInv' /\ HandleInv'
  BY <1>1, <1>5 DEF StagingInv, MutexInv, EntryInv, HandleInv, Entries
<1>7. CopyInv'
  <2>1. \A c \in Buffers \ {b} : Pending(c)' => Pending(c)
    BY <1>3, StagingKinds DEF Pending
  <2>2. \A c \in Buffers \ {b} : \A f : CopiedBefore(c, f) => CopiedBefore(c, f)'
    <3>1. \A c \in Buffers \ {b} : CopyOf(c) # CopyOf(b)
      BY StagingKinds
    <3> QED  BY <1>1, <1>3, <3>1 DEF CopiedBefore
  <2>3. \A r \in Streams \ {s} : ~In(CopyOf(b), stream'[r])
    BY <1>1, <1>3 DEF StagingInv, CopyInv, Pending
  <2>4. \A c \in Buffers : Pending(c)' => c \in Entries'
    BY <1>1, <1>2, <2>1 DEF StagingInv, CopyInv, Entries
  <2>5. \A c \in Entries' : recorded'[c] # None => CopiedBefore(c, recorded[c])'
    <3>1. \A c \in Entries : recorded[c] # None => c \in Buffers \ {b} /\ CopiedBefore(c, recorded[c])
      BY <1>2 DEF StagingInv, StagingTypes, CopyInv
    <3> QED  BY <1>1, <2>2, <3>1 DEF CopiedBefore, Entries
  <2>6. ASSUME NEW u \in Threads
        PROVE  /\ pc'[u] \in {"create", "copy"} => ~Pending(buf[u])'
               /\ pc'[u] = "record" => \A r \in Streams \ {st'[u]} : ~In(CopyOf(buf'[u]), stream'[r])
               /\ pc'[u] = "enter" => CopiedBefore(buf[u], ev[u])'
    <3>1. CASE u = t
      BY <3>1, <1>1, <1>5, <2>3
    <3>2. CASE u # t
      <4>1. WithBuffer(u) => buf[u] \in Buffers \ {b} /\ CopyOf(buf[u]) # CopyOf(b)
        BY <3>2, <1>2, StagingKinds
      <4>2. pc'[u] \in {"create", "copy"} => ~Pending(buf[u])'
        BY <3>2, <4>1, <1>1, <1>5, <2>1 DEF StagingInv, CopyInv, WithBuffer, Pending
      <4>3. pc'[u] = "record" => \A r \in Streams \ {st[u]} : ~In(CopyOf(buf[u]), stream'[r])
        BY <3>2, <4>1, <1>3, <1>5 DEF StagingInv, CopyInv, WithBuffer
      <4>4. pc'[u] = "enter" => CopiedBefore(buf[u], ev[u])'
        <5>1. pc[u] = "enter" => CopiedBefore(buf[u], ev[u]) /\ buf[u] \in Buffers \ {b}
          BY <4>1 DEF StagingInv, CopyInv, WithBuffer
        <5> QED  BY <3>2, <5>1, <1>1, <1>5, <2>2 DEF CopiedBefore
      <4> QED  BY <1>1, <4>2, <4>3, <4>4
    <3> QED  BY <3>1, <3>2
  <2> QED  BY <2>4, <2>5, <2>6 DEF CopyInv, Pending
<1> QED  BY <1>4, <1>6, <1>7 DEF StagingInv

(* The record goes behind the copy, in the stream the copy is in.          *)
LEMMA RecordKeeps ==
  ASSUME StagingInv, NEW t \in Threads, Staging!RecordEvent(t)
  PROVE  StagingInv'
<1> DEFINE b == buf[t]  s == st[t]  e == ev[t]  new == Staging!Service!NewRecord
<1>1. /\ pc[t] = "record" /\ new \in Records
      /\ latest' = [latest EXCEPT ![e] = new]
      /\ stream' = [stream EXCEPT ![s] = Append(@, RecordOf(new))]
      /\ pc' = [pc EXCEPT ![t] = "enter"]
      /\ UNCHANGED <<taken, recorded, live, mtx, buf, ev, st, todo>>
  BY DEF Staging!RecordEvent, Staging!Service!RecordAs, Staging!Goto, Staging!local, RecordOf
<1> HIDE DEF new
<1>2. /\ b \in Entries /\ b \in Buffers /\ s \in Streams /\ e \in taken /\ e \in Events
      /\ RecordOf(new) \in StagingTask /\ new # None
      /\ \A c \in Entries : recorded[c] # e
      /\ \A u \in Threads \ {t} : WithEvent(u) => ev[u] # e
  BY <1>1, StagingKinds, NullAssumption
     DEF StagingInv, StagingTypes, EntryInv, HandleInv, WithBuffer, WithEvent
<1>3. /\ stream' \in [Streams -> Seq(StagingTask)]
      /\ \A y : \A r \in Streams :
           In(y, stream'[r]) <=> In(y, stream[r]) \/ (r = s /\ y = RecordOf(new))
      /\ \A w, m : \A r \in Streams :
           RecordOf(new) # w /\ Before(w, m, stream[r]) => Before(w, m, stream'[r])
      /\ \A w : w # RecordOf(new) => Before(w, RecordOf(new), stream'[s])
  BY <1>1, <1>2, StreamAppend DEF StagingInv
<1>4. StagingTypes'
  BY <1>1, <1>2, <1>3 DEF StagingInv, StagingTypes, StagingLabels, Entries
<1>5. /\ pc'[t] = "enter" /\ \A u \in Threads \ {t} : pc'[u] = pc[u]
      /\ \A u \in Threads : (WithBuffer(u)' <=> WithBuffer(u)) /\ (WithEvent(u)' <=> WithEvent(u))
  BY <1>1 DEF StagingInv, StagingTypes, WithBuffer, WithEvent
<1>6. MutexInv' /\ EntryInv' /\ HandleInv'
  BY <1>1, <1>5 DEF StagingInv, MutexInv, EntryInv, HandleInv, Entries
<1>7. CopyInv'
  <2>1. \A c : In(CopyOf(c), stream'[s]) <=> In(CopyOf(c), stream[s])
    BY <1>2, <1>3, StagingKinds
  <2>2. \A c : \A r \in Streams : In(CopyOf(c), stream'[r]) <=> In(CopyOf(c), stream[r])
    BY <1>3, <2>1
  <2>3. \A c : Pending(c)' <=> Pending(c)
    BY <2>2 DEF Pending
  <2>4. \A c : \A f \in Events \ {e} : CopiedBefore(c, f) => CopiedBefore(c, f)'
    <3>1. \A c : \A m : \A r \in Streams : Before(CopyOf(c), m, stream[r]) => Before(CopyOf(c), m, stream'[r])
      BY <1>3, StagingKinds
    <3>2. \A f \in Events \ {e} : latest'[f] = latest[f]
      BY <1>1 DEF StagingInv, StagingTypes
    <3> QED  BY <3>1, <3>2 DEF CopiedBefore
  <2>5. CopiedBefore(b, e)'
    <3>1. latest'[e] = new /\ buf' = buf /\ ev' = ev
      BY <1>1, <1>2 DEF StagingInv, StagingTypes
    <3>2. Before(CopyOf(b), RecordOf(new), stream'[s])
      BY <1>3, StagingKinds
    <3>3. ASSUME NEW r \in Streams \ {s}  PROVE Before(CopyOf(b), RecordOf(new), stream'[r])
      <4>1. ~In(CopyOf(b), stream'[r])
        BY <1>1, <2>2 DEF StagingInv, CopyInv
      <4> QED  BY <4>1 DEF In, Before
    <3> QED  BY <1>2, <3>1, <3>2, <3>3 DEF CopiedBefore
  <2>6. \A c \in Entries' : recorded'[c] # None => CopiedBefore(c, recorded[c])'
    <3>1. \A c \in Entries : recorded[c] # None => recorded[c] \in Events \ {e} /\ CopiedBefore(c, recorded[c])
      BY <1>2 DEF StagingInv, StagingTypes, CopyInv
    <3> QED  BY <1>1, <2>4, <3>1 DEF CopiedBefore, Entries
  <2>7. \A c \in Buffers : Pending(c)' => c \in Entries'
    BY <1>1, <2>3 DEF StagingInv, CopyInv, Entries
  <2>8. ASSUME NEW u \in Threads
        PROVE  /\ pc'[u] \in {"create", "copy"} => ~Pending(buf[u])'
               /\ pc'[u] = "record" => \A r \in Streams \ {st'[u]} : ~In(CopyOf(buf'[u]), stream'[r])
               /\ pc'[u] = "enter" => CopiedBefore(buf[u], ev[u])'
    <3>1. CASE u = t
      BY <3>1, <1>5, <2>5
    <3>2. CASE u # t
      <4>1. pc'[u] \in {"create", "copy"} => ~Pending(buf[u])'
        BY <3>2, <1>1, <1>5, <2>3 DEF StagingInv, CopyInv, Pending
      <4>2. pc'[u] = "record" => \A r \in Streams \ {st[u]} : ~In(CopyOf(buf[u]), stream'[r])
        BY <3>2, <1>5, <2>2 DEF StagingInv, CopyInv
      <4>3. pc'[u] = "enter" => CopiedBefore(buf[u], ev[u])'
        <5>1. pc[u] = "enter" => CopiedBefore(buf[u], ev[u]) /\ ev[u] \in Events \ {e}
          BY <3>2, <1>2 DEF StagingInv, StagingTypes, CopyInv, HandleInv, WithEvent
        <5> QED  BY <3>2, <5>1, <1>1, <1>5, <2>4 DEF CopiedBefore
      <4> QED  BY <1>1, <4>1, <4>2, <4>3
    <3> QED  BY <3>1, <3>2
  <2> QED  BY <2>6, <2>7, <2>8 DEF CopyInv, Pending
<1> QED  BY <1>4, <1>6, <1>7 DEF StagingInv

(* The buffer is entered with the event recorded behind its copy.          *)
LEMMA EnterKeeps ==
  ASSUME StagingInv, NEW t \in Threads, Staging!Enter(t)
  PROVE  StagingInv'
<1> DEFINE b == buf[t]  e == ev[t]
<1>1. /\ pc[t] = "enter" /\ mtx = None
      /\ recorded' = [recorded EXCEPT ![b] = e]
      /\ \E label \in {"out", "sync"} : pc' = [pc EXCEPT ![t] = label]
      /\ pc'[t] # "out" => st' = st
      /\ \A u \in Threads \ {t} : buf'[u] = buf[u] /\ ev'[u] = ev[u] /\ st'[u] = st[u]
      /\ buf' \in [Threads -> Buffers \cup {None}] /\ ev' \in [Threads -> Events \cup {None}]
      /\ st' \in [Threads -> Streams \cup {None}]
      /\ UNCHANGED <<latest, stream, taken, live, mtx, todo>>
  BY DEF Staging!Enter, Staging!Return, Staging!Goto, Staging!local, StagingInv, StagingTypes
<1>2. /\ b \in Entries /\ b \in Buffers /\ e \in taken /\ e \in Events /\ e # None
      /\ recorded[b] = None /\ CopiedBefore(b, e)
      /\ \A c \in Entries : recorded[c] # e
      /\ \A u \in Threads \ {t} : WithBuffer(u) => buf[u] # b
      /\ \A u \in Threads \ {t} : WithEvent(u) => ev[u] # e
  BY <1>1, NullAssumption
     DEF StagingInv, StagingTypes, EntryInv, HandleInv, CopyInv, WithBuffer, WithEvent
<1>3. /\ Entries' = Entries /\ recorded'[b] = e /\ recorded' \in [Entries -> Events \cup {None}]
      /\ \A c \in Entries \ {b} : recorded'[c] = recorded[c]
  BY <1>1, <1>2 DEF StagingInv, StagingTypes, Entries
<1>4. /\ pc'[t] \in {"out", "sync"} /\ ~WithBuffer(t)' /\ ~WithEvent(t)'
      /\ \A u \in Threads \ {t} : pc'[u] = pc[u] /\ (WithBuffer(u)' <=> WithBuffer(u))
                                  /\ (WithEvent(u)' <=> WithEvent(u))
  BY <1>1 DEF StagingInv, StagingTypes, WithBuffer, WithEvent
<1>5. StagingTypes'
  <2>1. pc' \in [Threads -> StagingLabels]
    BY <1>1 DEF StagingInv, StagingTypes, StagingLabels
  <2>2. \A u \in Threads : pc'[u] # "out" => st'[u] \in Streams
    BY <1>1, <1>4 DEF StagingInv, StagingTypes
  <2> QED  BY <1>1, <1>3, <2>1, <2>2 DEF StagingInv, StagingTypes
<1>6. MutexInv'
  BY <1>1, <1>3, <1>4, NullAssumption DEF StagingInv, MutexInv
<1>7. EntryInv'
  <2>1. \A u \in Threads : pc'[u] # "spin"
    BY <1>1, <1>4, NullAssumption DEF StagingInv, MutexInv
  <2>2. ASSUME NEW u \in Threads, WithBuffer(u)'
        PROVE  /\ buf'[u] \in Entries' /\ recorded'[buf'[u]] = None
               /\ \A v \in Threads : WithBuffer(v)' /\ buf'[v] = buf'[u] => v = u
    BY <2>2, <1>1, <1>2, <1>3, <1>4 DEF StagingInv, EntryInv
  <2>3. ASSUME NEW c \in Entries', recorded'[c] = None
        PROVE  \E u \in Threads : WithBuffer(u)' /\ buf'[u] = c
    <3>1. c \in Entries \ {b} /\ recorded[c] = None
      BY <2>3, <1>2, <1>3
    <3>2. PICK u \in Threads : WithBuffer(u) /\ buf[u] = c
      BY <3>1 DEF StagingInv, EntryInv
    <3> QED  BY <3>1, <3>2, <1>1, <1>4
  <2> QED  BY <2>1, <2>2, <2>3 DEF EntryInv
<1>8. HandleInv'
  <2>1. ASSUME NEW c \in Entries', recorded'[c] # None
        PROVE  /\ recorded'[c] \in taken'
               /\ \A d \in Entries' : recorded'[d] = recorded'[c] => d = c
    BY <2>1, <1>1, <1>2, <1>3 DEF StagingInv, HandleInv
  <2>2. ASSUME NEW u \in Threads, WithEvent(u)'
        PROVE  /\ ev'[u] \in taken' /\ \A d \in Entries' : recorded'[d] # ev'[u]
               /\ \A v \in Threads : WithEvent(v)' /\ ev'[v] = ev'[u] => v = u
    BY <2>2, <1>1, <1>2, <1>3, <1>4 DEF StagingInv, HandleInv
  <2> QED  BY <2>1, <2>2 DEF HandleInv
<1>9. CopyInv'
  <2>1. \A c, f : CopiedBefore(c, f)' <=> CopiedBefore(c, f)
    BY <1>1 DEF CopiedBefore
  <2>2. \A c : Pending(c)' <=> Pending(c)
    BY <1>1 DEF Pending
  <2>3. \A c \in Entries : recorded'[c] # None => CopiedBefore(c, recorded'[c])
    BY <1>2, <1>3 DEF StagingInv, CopyInv
  <2>4. ASSUME NEW u \in Threads
        PROVE  /\ pc'[u] \in {"create", "copy"} => ~Pending(buf'[u])
               /\ pc'[u] = "record" => \A r \in Streams \ {st'[u]} : ~In(CopyOf(buf'[u]), stream[r])
               /\ pc'[u] = "enter" => CopiedBefore(buf'[u], ev'[u])
    BY <1>1, <1>4 DEF StagingInv, CopyInv
  <2> QED  BY <1>1, <1>3, <2>2, <2>3, <2>4 DEF StagingInv, CopyInv, CopiedBefore, Pending
<1> QED  BY <1>5, <1>6, <1>7, <1>8, <1>9 DEF StagingInv

LEMMA ResetKeeps ==
  ASSUME StagingInv, Staging!Reset
  PROVE  StagingInv'
<1>1. /\ \A t \in Threads : pc[t] = "out"
      /\ recorded' = <<>> /\ taken' = {}
      /\ latest' = [e \in Events |-> None] /\ stream' = [s \in Streams |-> <<>>]
      /\ UNCHANGED <<live, mtx, pc, buf, ev, st, todo>>
  BY DEF Staging!Reset, Staging!local, Staging!NoRecord
<1>2. Entries' = {} /\ recorded' \in [Entries' -> Events \cup {None}]
  BY <1>1 DEF Entries
<1>3. StagingTypes'
  BY <1>1, <1>2 DEF StagingInv, StagingTypes
<1>4. MutexInv' /\ EntryInv' /\ HandleInv'
  BY <1>1, <1>2 DEF StagingInv, MutexInv, EntryInv, HandleInv, WithBuffer, WithEvent
<1>5. \A c : ~Pending(c)'
  BY <1>1 DEF Pending, In
<1>6. CopyInv'
  BY <1>1, <1>2, <1>5 DEF CopyInv
<1> QED  BY <1>3, <1>4, <1>6 DEF StagingInv

LEMMA StreamRunKeeps ==
  ASSUME StagingInv, NEW s \in Streams, Staging!Run(s)
  PROVE  StagingInv'
<1>1. /\ stream[s] # <<>> /\ stream' = [stream EXCEPT ![s] = Tail(@)]
      /\ UNCHANGED <<latest, taken, recorded, live, mtx, pc, buf, ev, st, todo>>
  BY DEF Staging!Run, Staging!Service!Run, Staging!Service!Ready, Staging!local
<1>2. /\ stream' \in [Streams -> Seq(StagingTask)]
      /\ \A y : \A r \in Streams : In(y, stream'[r]) => In(y, stream[r])
      /\ \A w, m : \A r \in Streams : w # m /\ Before(w, m, stream[r]) => Before(w, m, stream'[r])
  BY <1>1, StreamTail DEF StagingInv
<1>3. StagingTypes' /\ MutexInv' /\ EntryInv' /\ HandleInv'
  BY <1>1, <1>2 DEF StagingInv, StagingTypes, MutexInv, EntryInv, HandleInv, WithBuffer, WithEvent, Entries
<1>4. CopyInv'
  <2>1. \A c : Pending(c)' => Pending(c)
    BY <1>2 DEF Pending
  <2>2. \A c, f : CopiedBefore(c, f) => CopiedBefore(c, f)'
    BY <1>1, <1>2, StagingKinds DEF CopiedBefore
  <2>3. \A c \in Entries' : recorded'[c] # None => CopiedBefore(c, recorded[c])'
    <3>1. \A c \in Entries : recorded[c] # None => CopiedBefore(c, recorded[c])
      BY DEF StagingInv, CopyInv
    <3> QED  BY <1>1, <2>2, <3>1 DEF CopiedBefore, Entries
  <2>4. ASSUME NEW u \in Threads
        PROVE  /\ pc'[u] \in {"create", "copy"} => ~Pending(buf[u])'
               /\ pc'[u] = "record" => \A r \in Streams \ {st'[u]} : ~In(CopyOf(buf'[u]), stream'[r])
               /\ pc'[u] = "enter" => CopiedBefore(buf[u], ev[u])'
    <3>1. pc[u] = "enter" => CopiedBefore(buf[u], ev[u])
      BY DEF StagingInv, CopyInv
    <3>2. pc'[u] = "enter" => CopiedBefore(buf[u], ev[u])'
      BY <1>1, <2>2, <3>1 DEF CopiedBefore
    <3> QED  BY <1>1, <1>2, <2>1, <3>2 DEF StagingInv, CopyInv, Pending
  <2> QED  BY <1>1, <2>1, <2>3, <2>4 DEF StagingInv, CopyInv, Pending, Entries
<1> QED  BY <1>3, <1>4 DEF StagingInv

-----------------------------------------------------------------------------
LEMMA StagingInitial == Staging!Init => StagingInv
<1> SUFFICES ASSUME Staging!Init  PROVE StagingInv
  OBVIOUS
<1> USE DEF Staging!Init, Staging!NoRecord
<1>1. Entries = {} /\ recorded \in [Entries -> Events \cup {None}]
  BY DEF Entries
<1>2. StagingTypes
  BY <1>1 DEF StagingTypes, StagingLabels
<1>3. MutexInv /\ EntryInv /\ HandleInv
  BY <1>1, NullAssumption DEF MutexInv, EntryInv, HandleInv, WithBuffer, WithEvent
<1>4. CopyInv
  BY <1>1 DEF CopyInv, Pending, In
<1> QED  BY <1>2, <1>3, <1>4 DEF StagingInv

LEMMA StagingSteps == StagingInv /\ [Staging!Next]_(Staging!vars) => StagingInv'
<1> SUFFICES ASSUME StagingInv, [Staging!Next]_(Staging!vars)  PROVE StagingInv'
  OBVIOUS
<1>1. ASSUME NEW t \in Threads, Staging!Step(t)  PROVE StagingInv'
  BY <1>1, LockKeeps, AllocKeeps, CreateKeeps, CopyKeeps, RecordKeeps, EnterKeeps, SyncKeeps,
     ProcessKeeps, SpinKeeps DEF Staging!Step
<1>2. ASSUME NEW t \in Threads, NEW s \in Streams, Staging!Call(t, s)  PROVE StagingInv'
  BY <1>2, CallKeeps
<1>3. ASSUME NEW s \in Streams, Staging!Run(s)  PROVE StagingInv'
  BY <1>3, StreamRunKeeps
<1>4. CASE Staging!Reset
  BY <1>4, ResetKeeps
<1>5. CASE UNCHANGED Staging!vars
  BY <1>5 DEF Staging!vars, StagingInv, StagingTypes, MutexInv, EntryInv, HandleInv, CopyInv,
              CopiedBefore, Pending, Entries, WithBuffer, WithEvent
<1> QED  BY <1>1, <1>2, <1>3, <1>4, <1>5 DEF Staging!Next

LEMMA StagingAlways == PartSpec => []StagingInv
<1>1. PartInit => Staging!Init
  BY DEF PartInit
<1>2. [PartNext]_partVars => [Staging!Next]_(Staging!vars)
  BY DEF PartNext, InComm, InStaging, RunSdaa, RunHpu, RunGcu, partVars, stagingVars, Staging!vars
<1> QED  BY <1>1, <1>2, StagingInitial, StagingSteps, PTL DEF PartSpec

(* AlignnedAllocator frees no buffer the device has still to copy from and *)
(* gives none to two calls, whatever the interleaving of the calls, the    *)
(* streams and ReleaseDevice.                                              *)
THEOREM StagingLiveCorrect == PartSpec => []StagingLive
<1>1. StagingInv => StagingLive
  <2> SUFFICES ASSUME StagingInv  PROVE StagingLive
    OBVIOUS
  <2>1. \A b : Staging!Copying(b) <=> Pending(b)
    BY StagingTasks DEF StagingInv
  <2> QED  BY <2>1 DEF StagingInv, StagingTypes, CopyInv, StagingLive, Staging!StagingLive
<1> QED  BY <1>1, StagingAlways, PTL

(* The iterator of ProcessEvents is caught only at the buffer of a call    *)
(* that overlaps: a thread alone never spins there.                        *)
THEOREM SpinsOnOverlapCorrect == PartSpec => []SpinsOnOverlap
<1>1. StagingInv => SpinsOnOverlap
  <2> SUFFICES ASSUME StagingInv, NEW t \in Threads, pc[t] = "spin"
               PROVE  \E u \in Threads \ {t} : pc[u] \in {"create", "copy", "record", "enter"}
    BY DEF SpinsOnOverlap, Staging!SpinsOnOverlap
  <2>1. PICK b \in Entries : recorded[b] = None
    BY DEF StagingInv, EntryInv
  <2>2. PICK u \in Threads : WithBuffer(u) /\ buf[u] = b
    BY <2>1 DEF StagingInv, EntryInv
  <2> QED  BY <2>2 DEF WithBuffer
<1> QED  BY <1>1, StagingAlways, PTL

-----------------------------------------------------------------------------
(***************************************************************************)
(* SdaaEvents.  The recycled wrappers implement the events of EventService,*)
(* for any number of events, streams and records.  The invariant: a wrapper*)
(* is held or in the pool, once, and what its own client recorded last is  *)
(* what the driver knows as the latest record of its handle.               *)
(***************************************************************************)
InPool(e) == \E i \in 1..Len(pool) : pool[i] = e

SdaaInv ==
  /\ held \subseteq Events /\ pool \in Seq(Events)
  /\ \A e \in held : ~InPool(e)
  /\ \A i, j \in 1..Len(pool) : pool[i] = pool[j] => i = j
  /\ last \in [Events -> SdaaRecords \cup {None}]
  /\ sdaaLatest \in [Events -> SdaaRecords \cup {None}]
  /\ \A e \in Events : sdaaLatest[e] \in {None, last[e]}

(* Create, as a client sees it: the event was nobody's.                    *)
LEMMA SdaaCreate ==
  ASSUME SdaaInv, NEW e \in Events, Sdaa!CreateEvent(e)
  PROVE  SdaaInv' /\ Sdaa!Service!Create(e)
<1>1. /\ held' = held \cup {e} /\ sdaaLatest' = [sdaaLatest EXCEPT ![e] = None]
      /\ UNCHANGED sdaaStream
  BY DEF Sdaa!CreateEvent, Sdaa!NoRecord
<1>2. CASE pool # <<>>
  <2>1. e = Head(pool) /\ pool' = Tail(pool) /\ UNCHANGED last
    BY <1>2 DEF Sdaa!CreateEvent, Sdaa!Get
  <2>2. /\ Len(pool) \in Nat \ {0} /\ e = pool[1] /\ pool' \in Seq(Events)
        /\ Len(pool') = Len(pool) - 1 /\ \A i \in 1..Len(pool') : pool'[i] = pool[i + 1]
    BY <1>2, <2>1 DEF SdaaInv
  <2>3. InPool(e) /\ e \notin held
    BY <2>2 DEF SdaaInv, InPool
  <2>4. \A i, j \in 1..Len(pool') : pool'[i] = pool'[j] => i = j
    <3> SUFFICES ASSUME NEW i \in 1..Len(pool'), NEW j \in 1..Len(pool'), pool'[i] = pool'[j]
                 PROVE  i = j
      OBVIOUS
    <3>1. i + 1 \in 1..Len(pool) /\ j + 1 \in 1..Len(pool) /\ pool[i + 1] = pool[j + 1]
      BY <2>2
    <3> QED  BY <3>1 DEF SdaaInv
  <2>5. \A i \in 1..Len(pool') : pool'[i] # e /\ InPool(pool'[i])
    <3> SUFFICES ASSUME NEW i \in 1..Len(pool')  PROVE pool'[i] # e /\ InPool(pool'[i])
      OBVIOUS
    <3>1. i + 1 \in 1..Len(pool) /\ 1 \in 1..Len(pool) /\ pool'[i] = pool[i + 1] /\ i + 1 # 1
      BY <2>2
    <3> QED  BY <2>2, <3>1 DEF SdaaInv, InPool
  <2>6. \A x \in held' : ~InPool(x)'
    BY <1>1, <2>5 DEF SdaaInv, InPool
  <2> QED  BY <1>1, <2>1, <2>2, <2>3, <2>4, <2>6 DEF SdaaInv, Sdaa!Service!Create, Sdaa!NoRecord
<1>3. CASE pool = <<>>
  <2>1. e \notin held /\ pool' = pool /\ last' = [last EXCEPT ![e] = None]
    BY <1>3 DEF Sdaa!CreateEvent, Sdaa!Get, Sdaa!NoRecord
  <2>2. \A x : ~InPool(x)'
    BY <1>3, <2>1 DEF InPool
  <2> QED  BY <1>1, <2>1, <2>2 DEF SdaaInv, Sdaa!Service!Create, Sdaa!NoRecord
<1> QED  BY <1>2, <1>3

(* Record: the record is new to the client as it is to the driver.         *)
LEMMA SdaaRecord ==
  ASSUME SdaaInv, NEW e \in Events, NEW s \in Streams, Sdaa!RecordEvent(e, s)
  PROVE  SdaaInv' /\ Sdaa!Service!Record(e, s)
<1> DEFINE r == Sdaa!Driver!NewRecord
<1>1. /\ e \in held /\ r \in SdaaRecords \ Sdaa!Driver!Referred
      /\ last' = [last EXCEPT ![e] = r]
      /\ sdaaStream' = [sdaaStream EXCEPT ![s] = Append(@, Sdaa!Driver!RecordOf(r))]
      /\ sdaaLatest' = [sdaaLatest EXCEPT ![e] = last'[e]]
      /\ UNCHANGED <<held, pool>>
  BY DEF Sdaa!RecordEvent, Sdaa!Driver!RecordAs
<1> HIDE DEF r
<1>2. last'[e] = r /\ r # None
  BY <1>1, NullAssumption DEF SdaaInv
<1>3. SdaaInv'
  BY <1>1, <1>2 DEF SdaaInv, InPool
<1>4. r \notin Sdaa!Service!Referred
  <2>1. /\ \A x \in Events : r # last[x] /\ r # sdaaLatest[x]
        /\ r \notin {task.record : task \in UNION {Sdaa!Driver!Tasks(x) : x \in Streams}}
    BY <1>1, <1>2 DEF SdaaInv, Sdaa!Driver!Referred
  <2>2. \A x \in Streams : Sdaa!Service!Tasks(x) = Sdaa!Driver!Tasks(x)
    BY DEF Sdaa!Service!Tasks, Sdaa!Driver!Tasks
  <2> QED  BY <2>1, <2>2 DEF Sdaa!Service!Referred
<1>5. Sdaa!Service!RecordOf(r) = Sdaa!Driver!RecordOf(r)
  BY DEF Sdaa!Service!RecordOf, Sdaa!Driver!RecordOf
<1> QED  BY <1>1, <1>2, <1>3, <1>4, <1>5 DEF Sdaa!Service!Record, Sdaa!Service!RecordAs

(* Wait: the record waited for is the one the event's own client recorded. *)
LEMMA SdaaWait ==
  ASSUME ~Early, SdaaInv, NEW e \in Events, NEW s \in Streams, Sdaa!StreamWaitEvent(e, s)
  PROVE  SdaaInv' /\ Sdaa!Service!Wait(e, s)
<1>1. /\ e \in held /\ sdaaLatest[e] # None /\ sdaaLatest[e] = last[e]
      /\ sdaaStream' = [sdaaStream EXCEPT ![s] = Append(@, Sdaa!Driver!WaitFor(last[e]))]
      /\ UNCHANGED <<held, pool, last, sdaaLatest>>
  BY DEF SdaaInv, Sdaa!StreamWaitEvent, Sdaa!Recorded, Sdaa!NoRecord, Sdaa!Driver!Wait
<1>2. SdaaInv'
  BY <1>1 DEF SdaaInv, InPool
<1> QED  BY <1>1, <1>2 DEF Sdaa!Service!Wait, Sdaa!NoRecord, Sdaa!Service!WaitFor, Sdaa!Driver!WaitFor

LEMMA SdaaDestroy ==
  ASSUME SdaaInv, NEW e \in Events, Sdaa!DestroyEvent(e)
  PROVE  SdaaInv' /\ Sdaa!Service!Destroy({e})
<1>1. /\ e \in held /\ held' = held \ {e} /\ pool' = Append(pool, e)
      /\ UNCHANGED <<last, sdaaStream, sdaaLatest>>
  BY DEF Sdaa!DestroyEvent
<1>2. /\ Len(pool) \in Nat /\ pool' \in Seq(Events) /\ Len(pool') = Len(pool) + 1
      /\ pool'[Len(pool) + 1] = e /\ \A i \in 1..Len(pool) : pool'[i] = pool[i]
  BY <1>1 DEF SdaaInv
<1>3. \A i \in 1..Len(pool) : pool[i] # e
  BY <1>1 DEF SdaaInv, InPool
<1>4. \A i, j \in 1..Len(pool') : pool'[i] = pool'[j] => i = j
  <2> SUFFICES ASSUME NEW i \in 1..Len(pool'), NEW j \in 1..Len(pool'), pool'[i] = pool'[j]
               PROVE  i = j
    OBVIOUS
  <2>1. (i \in 1..Len(pool) \/ i = Len(pool) + 1) /\ (j \in 1..Len(pool) \/ j = Len(pool) + 1)
    BY <1>2
  <2> QED  BY <2>1, <1>2, <1>3 DEF SdaaInv
<1>5. \A x \in held' : ~InPool(x)'
  <2> SUFFICES ASSUME NEW x \in held', NEW i \in 1..Len(pool'), pool'[i] = x  PROVE FALSE
    BY DEF InPool
  <2>1. x \in held /\ x # e /\ (i \in 1..Len(pool) \/ i = Len(pool) + 1)
    BY <1>1, <1>2
  <2> QED  BY <2>1, <1>2 DEF SdaaInv, InPool
<1>6. SdaaInv'
  BY <1>1, <1>2, <1>4, <1>5 DEF SdaaInv
<1> QED  BY <1>1, <1>6 DEF Sdaa!Service!Destroy

LEMMA SdaaDestroyDevice ==
  ASSUME SdaaInv, Sdaa!DestroyDevice
  PROVE  SdaaInv' /\ ((\E gone \in SUBSET Events : Sdaa!Service!Destroy(gone)) \/ Sdaa!Service!Think)
<1>1. held' = {} /\ pool' = <<>> /\ UNCHANGED <<last, sdaaStream, sdaaLatest>>
  BY DEF Sdaa!DestroyDevice
<1>2. SdaaInv'
  BY <1>1 DEF SdaaInv
<1>3. CASE held = {}
  BY <1>1, <1>2, <1>3 DEF Sdaa!Service!Think
<1>4. CASE held # {}
  <2>1. \E gone \in SUBSET Events : gone # {} /\ gone \subseteq held /\ held' = held \ gone
    BY <1>1, <1>4 DEF SdaaInv
  <2> QED  BY <1>1, <1>2, <2>1 DEF Sdaa!Service!Destroy
<1> QED  BY <1>3, <1>4

LEMMA SdaaRun ==
  ASSUME SdaaInv, NEW s \in Streams, Sdaa!Run(s)
  PROVE  SdaaInv' /\ Sdaa!Service!Run(s)
<1>1. /\ Sdaa!Driver!Ready(s) /\ sdaaStream' = [sdaaStream EXCEPT ![s] = Tail(@)]
      /\ UNCHANGED <<held, pool, last, sdaaLatest>>
  BY DEF Sdaa!Run, Sdaa!Driver!Run
<1>2. SdaaInv'
  BY <1>1 DEF SdaaInv, InPool
<1>3. Sdaa!Service!Ready(s)
  BY <1>1 DEF Sdaa!Driver!Ready, Sdaa!Service!Ready, Sdaa!Driver!WaitFor, Sdaa!Service!WaitFor,
       Sdaa!Driver!HasRun, Sdaa!Service!HasRun, Sdaa!Driver!RecordOf, Sdaa!Service!RecordOf,
       Sdaa!Driver!Tasks, Sdaa!Service!Tasks
<1> QED  BY <1>1, <1>2, <1>3 DEF Sdaa!Service!Run

(* QueryEvent answers for the record its event's own client made.          *)
LEMMA SdaaAnswers == SdaaInv => {e \in held : Sdaa!Query(e)} \subseteq Sdaa!Service!Answerable
<1>1. \A r : Sdaa!Driver!HasRun(r) <=> Sdaa!Service!HasRun(r)
  BY DEF Sdaa!Driver!HasRun, Sdaa!Service!HasRun, Sdaa!Driver!RecordOf, Sdaa!Service!RecordOf,
         Sdaa!Driver!Tasks, Sdaa!Service!Tasks
<1> QED  BY <1>1 DEF SdaaInv, Sdaa!Query, Sdaa!NoRecord, Sdaa!Driver!Answerable, Sdaa!Service!Answerable

(* Every step of the plugin is one the client expects, or none.            *)
LEMMA SdaaStep ==
  ASSUME ~Early
  PROVE  SdaaInv /\ [Sdaa!Next]_(Sdaa!vars) => SdaaInv' /\ [Sdaa!Service!Next]_(Sdaa!Service!vars)
<1>0. SdaaInv' => ({e \in held : Sdaa!Query(e)} \subseteq Sdaa!Service!Answerable)'
  BY SdaaAnswers, PTL
<1> SUFFICES ASSUME SdaaInv, [Sdaa!Next]_(Sdaa!vars)
             PROVE  SdaaInv' /\ [Sdaa!Service!Next]_(Sdaa!Service!vars)
  OBVIOUS
<1> DEFINE Known ==
      \/ \E e \in Events : Sdaa!Service!Create(e)
      \/ \E gone \in SUBSET Events : Sdaa!Service!Destroy(gone)
      \/ \E e \in Events, s \in Streams : Sdaa!Service!Record(e, s) \/ Sdaa!Service!Wait(e, s)
      \/ \E s \in Streams : Sdaa!Service!Run(s)
      \/ Sdaa!Service!Think
<1>1. CASE Sdaa!Next
  <2>1. ASSUME NEW e \in Events, Sdaa!CreateEvent(e)  PROVE SdaaInv' /\ Known
    BY <2>1, SdaaCreate
  <2>2. ASSUME NEW e \in Events, Sdaa!DestroyEvent(e)  PROVE SdaaInv' /\ Known
    BY <2>2, SdaaDestroy
  <2>3. ASSUME NEW e \in Events, NEW s \in Streams, Sdaa!RecordEvent(e, s)  PROVE SdaaInv' /\ Known
    BY <2>3, SdaaRecord
  <2>4. ASSUME NEW e \in Events, NEW s \in Streams, Sdaa!StreamWaitEvent(e, s)
        PROVE  SdaaInv' /\ Known
    BY <2>4, SdaaWait
  <2>5. ASSUME \/ Sdaa!SyncEnd
               \/ \E e \in Events : Sdaa!SyncBegin(e)
        PROVE  SdaaInv' /\ Known
    <3>1. UNCHANGED <<held, pool, last, sdaaStream, sdaaLatest>>
      BY <2>5 DEF Sdaa!SyncEnd, Sdaa!SyncBegin
    <3> QED  BY <3>1 DEF SdaaInv, InPool, Sdaa!Service!Think
  <2>6. ASSUME Sdaa!DestroyDevice  PROVE SdaaInv' /\ Known
    BY <2>6, SdaaDestroyDevice
  <2>7. ASSUME NEW s \in Streams, Sdaa!Run(s)  PROVE SdaaInv' /\ Known
    BY <2>7, SdaaRun
  <2>8. SdaaInv' /\ Known
    <3> HIDE DEF Known
    <3> QED  BY <1>1, <2>1, <2>2, <2>3, <2>4, <2>5, <2>6, <2>7 DEF Sdaa!Next, Sdaa!Call
  <2> QED  BY <1>0, <2>8 DEF Sdaa!Service!Next
<1>2. CASE UNCHANGED Sdaa!vars
  <2>1. SdaaInv'
    BY <1>2 DEF Sdaa!vars, SdaaInv, InPool
  <2>2. UNCHANGED Sdaa!Service!vars
    BY <1>2 DEF Sdaa!vars, Sdaa!Service!vars, Sdaa!Query, Sdaa!Driver!Answerable, Sdaa!NoRecord,
                Sdaa!Driver!HasRun, Sdaa!Driver!Tasks
  <2> QED  BY <2>1, <2>2
<1> QED  BY <1>1, <1>2

(* The recycled wrappers of the SDAA plugin implement the events a client  *)
(* expects, as long as the client waits for no event before it has recorded*)
(* it (RecordEvent does not clear the record of the wrapper's last owner). *)
THEOREM SdaaImplementsService ==
  ASSUME ~Early
  PROVE  PartSpec => ImplementsService
<1>1. PartInit => Sdaa!Init
  BY DEF PartInit
<1>2. [PartNext]_partVars => [Sdaa!Next]_(Sdaa!vars)
  BY DEF PartNext, InComm, InStaging, RunSdaa, RunHpu, RunGcu, partVars, sdaaVars, Sdaa!vars
<1>3. Sdaa!Init => SdaaInv /\ Sdaa!Service!Init
  BY DEF Sdaa!Init, Sdaa!NoRecord, SdaaInv, InPool, Sdaa!Service!Init
<1> QED  BY <1>1, <1>2, <1>3, SdaaStep, PTL
         DEF PartSpec, ImplementsService, Sdaa!ImplementsService, Sdaa!Service!Spec

-----------------------------------------------------------------------------
(***************************************************************************)
(* HpuRuntime.  SetDevice never holds two devices and a synchronous copy is*)
(* made when it returns, for any number of devices, streams and places and *)
(* whatever the client does; with a client that synchronizes its copies the*)
(* shared host buffer keeps the data of a pending upload.  That part of the*)
(* invariant: at most one pending task goes through the buffer, and one in *)
(* a built-in stream is what the call in progress waits for.               *)
(***************************************************************************)
DeviceInv ==
  /\ status \in {0, 1}
  /\ status = 0 => acquired = {}
  /\ acquired \subseteq {moduleID}

LEMMA DeviceSteps == DeviceInv /\ [Manager!Next]_(Manager!vars) => DeviceInv'
<1> SUFFICES ASSUME DeviceInv, [Manager!Next]_(Manager!vars)  PROVE DeviceInv'
  OBVIOUS
<1>1. ASSUME UNCHANGED Manager!devices  PROVE DeviceInv'
  BY <1>1 DEF DeviceInv, Manager!devices
<1>2. ASSUME NEW m \in Modules, Manager!SetDevice(m)  PROVE DeviceInv'
  BY <1>2 DEF DeviceInv, Manager!SetDevice, Manager!vars, Manager!devices, Manager!Fail
<1>3. ASSUME Manager!Release  PROVE DeviceInv'
  BY <1>3 DEF DeviceInv, Manager!Release, Manager!Fail, Manager!devices
<1>4. ASSUME NEW s \in UserStreams,
             Manager!CreateStream(s) \/ Manager!DestroyStream(s) \/ Manager!SyncStream(s)
      PROVE  UNCHANGED Manager!devices
  BY <1>4 DEF Manager!CreateStream, Manager!DestroyStream, Manager!SyncStream, Manager!Fail
<1>5. ASSUME NEW kind, NEW n, NEW value, NEW task, Manager!Copy(kind, n, value, task)
      PROVE  UNCHANGED Manager!devices
  BY <1>5 DEF Manager!Copy, Manager!Fail
<1>6. ASSUME NEW c \in Cells, NEW v \in Contents, NEW n \in Sizes,
             Manager!MemCpyH2D(c, v, n) \/ \E s \in UserStreams : Manager!AsyncMemCpyH2D(s, c, v, n)
      PROVE  UNCHANGED Manager!devices
  BY <1>5, <1>6 DEF Manager!MemCpyH2D, Manager!AsyncMemCpyH2D, Manager!Fail
<1>7. ASSUME NEW c \in Cells, NEW n \in Sizes,
             Manager!MemCpyD2H(c, n) \/ \E s \in UserStreams : Manager!AsyncMemCpyD2H(s, c, n)
      PROVE  UNCHANGED Manager!devices
  BY <1>5, <1>7 DEF Manager!MemCpyD2H, Manager!AsyncMemCpyD2H, Manager!Fail
<1>8. ASSUME NEW c \in Cells, NEW d \in Cells,
             Manager!MemCpyD2D(c, d) \/ \E s \in UserStreams : Manager!AsyncMemCpyD2D(s, c, d)
      PROVE  UNCHANGED Manager!devices
  BY <1>5, <1>8 DEF Manager!MemCpyD2D, Manager!AsyncMemCpyD2D, Manager!Fail
<1>9. ASSUME Manager!Return \/ \E q \in Manager!Queues : Manager!DeviceStep(q)
      PROVE  UNCHANGED Manager!devices
  BY <1>9 DEF Manager!Return, Manager!DeviceStep
<1>10. CASE Manager!Next
  BY <1>1, <1>2, <1>3, <1>4, <1>6, <1>7, <1>8, <1>9, <1>10 DEF Manager!Next
<1>11. CASE UNCHANGED Manager!vars
  BY <1>1, <1>11 DEF Manager!vars
<1> QED  BY <1>10, <1>11

(* RuntimeManager holds at most one device: SetDevice gives the old one    *)
(* back before it takes the new one, after any calls.                      *)
THEOREM OneDeviceCorrect == ManagerSpec => []OneDevice
<1>1. Manager!Init => DeviceInv
  BY DEF Manager!Init, DeviceInv
<1>2. DeviceInv => OneDevice
  <2> SUFFICES ASSUME DeviceInv  PROVE Cardinality(acquired) <= 1
    BY DEF OneDevice, Manager!OneDevice, Cardinality, Manager!Cardinality
  <2>1. acquired = {} \/ acquired = {moduleID}
    BY DEF DeviceInv
  <2>2. Cardinality({}) = 0 /\ Cardinality({moduleID}) = 1
    BY FS_EmptySet, FS_Singleton
  <2> QED  BY <2>1, <2>2
<1> QED  BY <1>1, <1>2, DeviceSteps, PTL DEF ManagerSpec, Manager!Spec

-----------------------------------------------------------------------------
CallInv == copyCall # Nothing => (copyCall.sync => copyCall.on = copyCall.waits)

LEMMA CallSteps == CallInv /\ [Manager!Next]_(Manager!vars) => CallInv'
<1> SUFFICES ASSUME CallInv, [Manager!Next]_(Manager!vars)  PROVE CallInv'
  OBVIOUS
<1>1. ASSUME UNCHANGED copyCall  PROVE CallInv'
  BY <1>1 DEF CallInv
<1>2. ASSUME NEW kind, NEW n, NEW value, NEW task, Manager!Copy(kind, n, value, task)
      PROVE  CallInv'
  BY <1>1, <1>2 DEF CallInv, Manager!Copy, Manager!Fail
<1>3. ASSUME NEW s, Manager!SyncStream(s)  PROVE CallInv'
  BY <1>1, <1>3 DEF CallInv, Manager!SyncStream, Manager!Fail
<1>4. ASSUME NEW s, NEW c, NEW n, Manager!AsyncMemCpyD2H(s, c, n)  PROVE CallInv'
  BY <1>1, <1>4 DEF CallInv, Manager!AsyncMemCpyD2H, Manager!Fail
<1>5. ASSUME Manager!Return  PROVE CallInv'
  BY <1>5 DEF CallInv, Manager!Return
<1>6. ASSUME \/ \E m \in Modules : Manager!SetDevice(m)
             \/ Manager!Release
             \/ \E s \in UserStreams : Manager!CreateStream(s) \/ Manager!DestroyStream(s)
             \/ \E s \in UserStreams, c \in Cells, v \in Contents, n \in Sizes : Manager!AsyncMemCpyH2D(s, c, v, n)
             \/ \E s \in UserStreams, c, d \in Cells : Manager!AsyncMemCpyD2D(s, c, d)
             \/ \E q \in Manager!Queues : Manager!DeviceStep(q)
      PROVE  CallInv'
  BY <1>1, <1>6 DEF Manager!SetDevice, Manager!Release, Manager!CreateStream, Manager!DestroyStream,
     Manager!AsyncMemCpyH2D, Manager!AsyncMemCpyD2D, Manager!DeviceStep, Manager!Fail, Manager!vars
<1>7. CASE Manager!Next
  BY <1>2, <1>3, <1>4, <1>5, <1>6, <1>7 DEF Manager!Next, Manager!MemCpyH2D, Manager!MemCpyD2H, Manager!MemCpyD2D
<1>8. CASE UNCHANGED Manager!vars
  BY <1>1, <1>8 DEF Manager!vars
<1> QED  BY <1>7, <1>8

(* While a call waits, only the end of its wait ends it.                   *)
LEMMA CallEnds ==
  ASSUME [Manager!Next]_(Manager!vars), copyCall # Nothing, copyCall' = Nothing
  PROVE  Manager!Return
<1>1. ASSUME Manager!Ready  PROVE FALSE
  BY <1>1 DEF Manager!Ready
<1>2. ~UNCHANGED copyCall
  OBVIOUS
<1>3. \A q \in Manager!Queues : ~Manager!DeviceStep(q)
  BY <1>2 DEF Manager!DeviceStep
<1>4. Manager!Next
  BY <1>2 DEF Manager!vars
<1> QED  BY <1>1, <1>3, <1>4 DEF Manager!Next, Manager!SetDevice, Manager!Release, Manager!CreateStream,
         Manager!DestroyStream, Manager!SyncStream, Manager!MemCpyH2D, Manager!MemCpyD2H, Manager!MemCpyD2D,
         Manager!Copy, Manager!AsyncMemCpyH2D, Manager!AsyncMemCpyD2H, Manager!AsyncMemCpyD2D

(* MemCpyH2D, MemCpyD2H, MemCpyD2D and SyncStream return only when nothing *)
(* is pending in the stream they were to wait for: each of them waits for  *)
(* the stream it put its task in.                                          *)
THEOREM SyncDoneCorrect == ManagerSpec => SyncDone
<1>1. Manager!Init => CallInv
  BY DEF Manager!Init, CallInv
<1>2. CallInv /\ [Manager!Next]_(Manager!vars) =>
        [copyCall # Nothing /\ copyCall' = Nothing /\ copyCall.sync => copyQueue[copyCall.on] = <<>>]_(Manager!vars)
  BY CallEnds DEF CallInv, Manager!Return
<1> QED  BY <1>1, <1>2, CallSteps, PTL DEF ManagerSpec, Manager!Spec, SyncDone, Manager!SyncDone

-----------------------------------------------------------------------------
Queues == Manager!Queues
Task == Manager!Task
Positions(q) == 1..Len(copyQueue[q])

(* A task that goes through the shared host buffer.                        *)
Staged(task) == task.op \in {"h2d", "d2h"}

(* The pending tasks, and the one that may go through the buffer.          *)
StagedOnce ==
  \A p, q \in Queues : \A i \in Positions(p), j \in Positions(q) :
    Staged(copyQueue[p][i]) /\ Staged(copyQueue[q][j]) => p = q /\ i = j

WaitedFor ==
  \A q \in Queues \ UserStreams : \A i \in Positions(q) :
    Staged(copyQueue[q][i]) => copyCall # Nothing /\ copyCall.waits = q

Intact ==
  \A q \in Queues : \A i \in Positions(q) :
    copyQueue[q][i].op = "h2d" =>
      copyQueue[q][i].size = capacity /\ content = copyQueue[q][i].value

BufferInv ==
  /\ copyQueue \in [Queues -> Seq(Task)]
  /\ capacity \in Sizes \cup {0}
  /\ StagedOnce /\ WaitedFor /\ Intact

(* What the two ends of a queue do to the positions of its tasks.          *)
LEMMA ManagerAppend ==
  ASSUME BufferInv, NEW q \in Queues, NEW task \in Task, Manager!Enqueue(q, task)
  PROVE  /\ copyQueue' \in [Queues -> Seq(Task)]
         /\ \A p \in Queues : \A i \in 1..Len(copyQueue'[p]) :
              \/ i \in Positions(p) /\ copyQueue'[p][i] = copyQueue[p][i]
              \/ p = q /\ i = Len(copyQueue[q]) + 1 /\ copyQueue'[p][i] = task
<1> DEFINE old == copyQueue[q]
<1>1. old \in Seq(Task) /\ Append(old, task) \in Seq(Task)
  BY DEF BufferInv
<1>2. /\ Len(old) \in Nat /\ Len(Append(old, task)) = Len(old) + 1
      /\ \A i \in 1..Len(old) : Append(old, task)[i] = old[i]
      /\ Append(old, task)[Len(old) + 1] = task
  BY <1>1
<1>3. /\ copyQueue' \in [Queues -> Seq(Task)]
      /\ copyQueue'[q] = Append(old, task) /\ \A p \in Queues \ {q} : copyQueue'[p] = copyQueue[p]
  BY <1>1 DEF BufferInv, Manager!Enqueue
<1>4. \A i \in 1..Len(old) + 1 : i \in 1..Len(old) \/ i = Len(old) + 1
  BY <1>2
<1> QED  BY <1>2, <1>3, <1>4 DEF Positions

LEMMA ManagerTail ==
  ASSUME BufferInv, NEW q \in Queues, copyQueue[q] # <<>>,
         copyQueue' = [copyQueue EXCEPT ![q] = Tail(@)]
  PROVE  /\ copyQueue' \in [Queues -> Seq(Task)]
         /\ \A p \in Queues : \A i \in 1..Len(copyQueue'[p]) :
              \/ p # q /\ i \in Positions(p) /\ copyQueue'[p][i] = copyQueue[p][i]
              \/ /\ p = q /\ i + 1 \in Positions(q) /\ i \in Nat \ {0}
                 /\ copyQueue'[p][i] = copyQueue[q][i + 1]
<1> DEFINE old == copyQueue[q]
<1>1. old \in Seq(Task) /\ old # <<>>
  BY DEF BufferInv
<1>2. /\ Len(old) \in Nat \ {0} /\ Tail(old) \in Seq(Task) /\ Len(Tail(old)) = Len(old) - 1
      /\ \A i \in 1..Len(old) - 1 : Tail(old)[i] = old[i + 1]
      /\ Head(old) = old[1] /\ old[1] \in Task
  BY <1>1
<1>3. /\ copyQueue' \in [Queues -> Seq(Task)]
      /\ copyQueue'[q] = Tail(old) /\ \A p \in Queues \ {q} : copyQueue'[p] = copyQueue[p]
  BY <1>2 DEF BufferInv
<1>4. \A i \in 1..Len(old) - 1 : i + 1 \in 1..Len(old) /\ i \in Nat \ {0}
  BY <1>2
<1> QED  BY <1>2, <1>3, <1>4 DEF Positions

LEMMA TaskOps ==
  \A task \in Task : task.op \in {"h2d", "d2h", "d2d"} /\ (task.op # "d2d" <=> Staged(task))
  BY DEF Task, Manager!Task, Staged

(* With a disciplined client a new copy finds no pending one in the buffer.*)
LEMMA NothingStaged ==
  ASSUME Disciplined, BufferInv, Manager!Ready, Manager!Drained
  PROVE  \A q \in Queues : \A i \in Positions(q) : ~Staged(copyQueue[q][i])
<1>1. \A q \in UserStreams : \A i \in Positions(q) : ~Staged(copyQueue[q][i])
  BY DEF Manager!Drained, Manager!StagedTasks, Positions, Staged
<1>2. \A q \in Queues \ UserStreams : \A i \in Positions(q) : ~Staged(copyQueue[q][i])
  BY DEF Manager!Ready, BufferInv, WaitedFor
<1> QED  BY <1>1, <1>2

(* Putting a copy into the buffer.                                         *)
LEMMA StageKeeps ==
  ASSUME BufferInv, NEW q \in Queues, NEW task \in Task, NEW n \in Sizes,
         NEW value \in Contents \cup {Nothing},
         \A p \in Queues : \A i \in Positions(p) : ~Staged(copyQueue[p][i]),
         Manager!Enqueue(q, task), Manager!Stage(n, value),
         Staged(task) => task.size = Manager!BufferFor(n),
         task.op = "h2d" => value \in Contents /\ task.value = value,
         q \in UserStreams \/ (copyCall' # Nothing /\ copyCall'.waits = q)
  PROVE  BufferInv'
<1>1. n \in Nat \ {0} /\ Nothing \notin Contents
  BY SizesAssumption, NothingAssumption
<1>2. capacity \in Nat /\ capacity' \in Sizes \cup {0} /\ capacity' = Manager!BufferFor(n)
  <2>1. capacity \in Sizes \cup {0} /\ Sizes \subseteq Nat
    BY SizesAssumption DEF BufferInv
  <2>2. CASE capacity >= n
    BY <2>1, <2>2 DEF Manager!Stage, Manager!BufferFor
  <2>3. CASE ~(capacity >= n)
    BY <2>1, <2>3 DEF Manager!Stage, Manager!BufferFor
  <2> QED  BY <2>1, <2>2, <2>3
<1>3. value \in Contents => content' = value
  BY <1>1 DEF Manager!Stage
<1>4. /\ copyQueue' \in [Queues -> Seq(Task)]
      /\ \A p \in Queues : \A i \in 1..Len(copyQueue'[p]) :
           Staged(copyQueue'[p][i]) => p = q /\ i = Len(copyQueue[q]) + 1 /\ copyQueue'[p][i] = task
  BY ManagerAppend
<1>5. StagedOnce'
  BY <1>4 DEF StagedOnce, Positions
<1>6. WaitedFor'
  BY <1>4 DEF WaitedFor, Positions
<1>7. Intact'
  <2>1. \A p \in Queues : \A i \in 1..Len(copyQueue'[p]) :
          copyQueue'[p][i].op = "h2d" => copyQueue'[p][i] = task /\ task.op = "h2d" /\ Staged(task)
    BY <1>4 DEF Staged
  <2> QED  BY <2>1, <1>2, <1>3 DEF Intact, Positions
<1> QED  BY <1>2, <1>4, <1>5, <1>6, <1>7 DEF BufferInv

(* A task that does not go through the buffer.                             *)
LEMMA MoveKeeps ==
  ASSUME BufferInv, NEW q \in Queues, NEW task \in Task, ~Staged(task), Manager!Enqueue(q, task),
         UNCHANGED <<capacity, content>>, UNCHANGED copyCall \/ copyCall = Nothing
  PROVE  BufferInv'
<1>1. /\ copyQueue' \in [Queues -> Seq(Task)]
      /\ \A p \in Queues : \A i \in 1..Len(copyQueue'[p]) :
           Staged(copyQueue'[p][i]) => i \in Positions(p) /\ copyQueue'[p][i] = copyQueue[p][i]
  BY ManagerAppend
<1>2. StagedOnce'
  BY <1>1 DEF BufferInv, StagedOnce, Positions
<1>3. WaitedFor'
  BY <1>1 DEF BufferInv, WaitedFor, Positions
<1>4. Intact'
  <2>1. \A p \in Queues : \A i \in 1..Len(copyQueue'[p]) :
          copyQueue'[p][i].op = "h2d" => i \in Positions(p) /\ copyQueue'[p][i] = copyQueue[p][i]
    BY <1>1 DEF Staged
  <2> QED  BY <2>1 DEF BufferInv, Intact, Positions
<1> QED  BY <1>1, <1>2, <1>3, <1>4 DEF BufferInv

(* Calls that leave the queues and the buffer alone, and those that lose   *)
(* the device and with it every queue.                                     *)
LEMMA RestKeeps ==
  ASSUME BufferInv, UNCHANGED <<copyQueue, capacity, content>>, UNCHANGED copyCall \/ copyCall = Nothing
  PROVE  BufferInv'
  BY DEF BufferInv, StagedOnce, WaitedFor, Intact, Positions

LEMMA InvalidateKeeps ==
  ASSUME BufferInv, Manager!Invalidate, UNCHANGED capacity
  PROVE  BufferInv'
<1>1. copyQueue' = [q \in Queues |-> <<>>]
  BY DEF Manager!Invalidate, Queues
<1>2. copyQueue' \in [Queues -> Seq(Task)] /\ \A q \in Queues : 1..Len(copyQueue'[q]) = {}
  BY <1>1
<1> QED  BY <1>2 DEF BufferInv, StagedOnce, WaitedFor, Intact, Positions

-----------------------------------------------------------------------------
LEMMA CopyingKeeps ==
  ASSUME Disciplined, BufferInv
  PROVE  /\ \A c \in Cells, v \in Contents, n \in Sizes : Manager!MemCpyH2D(c, v, n) => BufferInv'
         /\ \A c \in Cells, n \in Sizes : Manager!MemCpyD2H(c, n) => BufferInv'
         /\ \A c, d \in Cells : Manager!MemCpyD2D(c, d) => BufferInv'
<1> USE DEF Queues, Manager!Queues, Manager!Kinds, Task, Manager!Task
<1>1. \A n \in Sizes : Manager!BufferFor(n) \in Sizes
  BY SizesAssumption DEF BufferInv, Manager!BufferFor
<1>2. ASSUME NEW kind \in Manager!Kinds, NEW task \in Task
      PROVE  [sync |-> TRUE, on |-> kind, waits |-> kind, task |-> task] # Nothing
  <2>1. [sync |-> TRUE, on |-> kind, waits |-> kind, task |-> task] \in Manager!Call
    BY DEF Manager!Call
  <2> QED  BY <2>1, NothingAssumption
<1>3. ASSUME NEW kind \in {"h2d", "d2h"}, NEW n \in Sizes, NEW value \in Contents \cup {Nothing}, NEW task \in Task,
             Manager!Copy(kind, n, value, task), task.size = Manager!BufferFor(n),
             task.op = "h2d" => value \in Contents /\ task.value = value
      PROVE  BufferInv'
  <2>1. CASE Manager!Fail
    BY <2>1, RestKeeps DEF Manager!Fail, Manager!buffer
  <2>2. CASE ~Manager!Fail
    <3>1. /\ Manager!Ready /\ Manager!Drained /\ Manager!Enqueue(kind, task) /\ Manager!Stage(n, value)
          /\ copyCall' = [sync |-> TRUE, on |-> kind, waits |-> kind, task |-> task]
      BY <1>3, <2>2 DEF Manager!Copy
    <3>2. \A p \in Queues : \A i \in Positions(p) : ~Staged(copyQueue[p][i])
      BY <3>1, NothingStaged
    <3>3. copyCall' # Nothing /\ copyCall'.waits = kind
      BY <3>1, <1>2
    <3>4. kind \in Queues
      OBVIOUS
    <3> HIDE DEF Queues, Task
    <3> QED  BY <3>1, <3>2, <3>3, <3>4, <1>3, StageKeeps
  <2> QED  BY <2>1, <2>2
<1>4. ASSUME NEW c \in Cells, NEW v \in Contents, NEW n \in Sizes, Manager!MemCpyH2D(c, v, n)
      PROVE  BufferInv'
  <2> DEFINE task == Manager!Upload(c, v, Manager!BufferFor(n))
  <2>1. task \in Task /\ task.size = Manager!BufferFor(n) /\ task.value = v
    BY <1>1 DEF Manager!Upload
  <2> HIDE DEF task
  <2>2. Manager!Copy("h2d", n, v, task)
    BY <1>4 DEF Manager!MemCpyH2D, task
  <2> QED  BY <2>1, <2>2, <1>3
<1>5. ASSUME NEW c \in Cells, NEW n \in Sizes, Manager!MemCpyD2H(c, n)
      PROVE  BufferInv'
  <2> DEFINE task == Manager!Download(c, Manager!BufferFor(n))
  <2>1. task \in Task /\ task.size = Manager!BufferFor(n) /\ task.op # "h2d"
    BY <1>1 DEF Manager!Download
  <2> HIDE DEF task
  <2>2. Manager!Copy("d2h", n, Nothing, task)
    BY <1>5 DEF Manager!MemCpyD2H, task
  <2> QED  BY <2>1, <2>2, <1>3
<1>6. ASSUME NEW c \in Cells, NEW d \in Cells, Manager!MemCpyD2D(c, d)
      PROVE  BufferInv'
  <2> DEFINE task == Manager!Move(c, d)
  <2>1. task \in Task /\ ~Staged(task) /\ "d2d" \in Queues
    BY DEF Manager!Move, Staged
  <2> HIDE DEF task
  <2>2. Manager!Copy("d2d", 0, Nothing, task)
    BY <1>6 DEF Manager!MemCpyD2D, task
  <2>3. CASE Manager!Fail
    BY <2>3, RestKeeps DEF Manager!Fail, Manager!buffer
  <2>4. CASE ~Manager!Fail
    <3>1. Manager!Ready /\ Manager!Enqueue("d2d", task) /\ UNCHANGED Manager!buffer
      BY <2>2, <2>4 DEF Manager!Copy
    <3> HIDE DEF Queues, Task
    <3> QED  BY <3>1, <2>1, MoveKeeps DEF Manager!buffer, Manager!Ready
  <2> QED  BY <2>3, <2>4
<1> QED  BY <1>4, <1>5, <1>6

LEMMA AsyncCopyingKeeps ==
  ASSUME Disciplined, BufferInv, NEW s \in UserStreams
  PROVE  /\ \A c \in Cells, v \in Contents, n \in Sizes : Manager!AsyncMemCpyH2D(s, c, v, n) => BufferInv'
         /\ \A c \in Cells, n \in Sizes : Manager!AsyncMemCpyD2H(s, c, n) => BufferInv'
         /\ \A c, d \in Cells : Manager!AsyncMemCpyD2D(s, c, d) => BufferInv'
<1> USE DEF Queues, Manager!Queues, Task, Manager!Task
<1>1. \A n \in Sizes : Manager!BufferFor(n) \in Sizes
  BY SizesAssumption DEF BufferInv, Manager!BufferFor
<1>2. ASSUME Manager!Fail  PROVE BufferInv'
  BY <1>2, RestKeeps DEF Manager!Fail, Manager!buffer
<1>3. s \in Queues
  OBVIOUS
<1>4. ASSUME NEW c \in Cells, NEW v \in Contents, NEW n \in Sizes, Manager!AsyncMemCpyH2D(s, c, v, n)
      PROVE  BufferInv'
  <2> DEFINE task == Manager!Upload(c, v, Manager!BufferFor(n))
  <2>1. task \in Task /\ task.size = Manager!BufferFor(n) /\ task.value = v
    BY <1>1 DEF Manager!Upload
  <2>2. CASE ~Manager!Fail
    <3>1. Manager!Ready /\ Manager!Drained /\ Manager!Enqueue(s, task) /\ Manager!Stage(n, v)
      BY <1>4, <2>2 DEF Manager!AsyncMemCpyH2D
    <3> HIDE DEF task, Queues, Task
    <3>2. \A p \in Queues : \A i \in Positions(p) : ~Staged(copyQueue[p][i])
      BY <3>1, NothingStaged
    <3> QED  BY <3>1, <3>2, <2>1, <1>3, StageKeeps
  <2> QED  BY <1>2, <2>2
<1>5. ASSUME NEW c \in Cells, NEW n \in Sizes, Manager!AsyncMemCpyD2H(s, c, n)
      PROVE  BufferInv'
  <2> DEFINE task == Manager!Download(c, Manager!BufferFor(n))
  <2>1. task \in Task /\ task.size = Manager!BufferFor(n) /\ task.op # "h2d"
    BY <1>1 DEF Manager!Download
  <2>2. CASE ~Manager!Fail
    <3>1. Manager!Ready /\ Manager!Drained /\ Manager!Enqueue(s, task) /\ Manager!Stage(n, Nothing)
      BY <1>5, <2>2 DEF Manager!AsyncMemCpyD2H
    <3> HIDE DEF task, Queues, Task
    <3>2. \A p \in Queues : \A i \in Positions(p) : ~Staged(copyQueue[p][i])
      BY <3>1, NothingStaged
    <3> QED  BY <3>1, <3>2, <2>1, <1>3, StageKeeps
  <2> QED  BY <1>2, <2>2
<1>6. ASSUME NEW c \in Cells, NEW d \in Cells, Manager!AsyncMemCpyD2D(s, c, d)
      PROVE  BufferInv'
  <2> DEFINE task == Manager!Move(c, d)
  <2>1. task \in Task /\ ~Staged(task)
    BY DEF Manager!Move, Staged
  <2>2. CASE ~Manager!Fail
    <3>1. Manager!Ready /\ Manager!Enqueue(s, task) /\ UNCHANGED Manager!buffer
      BY <1>6, <2>2 DEF Manager!AsyncMemCpyD2D
    <3> HIDE DEF task, Queues, Task
    <3> QED  BY <3>1, <2>1, <1>3, MoveKeeps DEF Manager!buffer, Manager!Ready
  <2> QED  BY <1>2, <2>2
<1> QED  BY <1>4, <1>5, <1>6

(* The device runs the oldest task of a queue: only a download changes the *)
(* buffer, and then no upload is pending.                                  *)
LEMMA DeviceRunKeeps ==
  ASSUME BufferInv, NEW q \in Queues, Manager!DeviceStep(q)
  PROVE  BufferInv'
<1> DEFINE first == copyQueue[q][1]
<1>1. copyQueue[q] # <<>> /\ copyQueue' = [copyQueue EXCEPT ![q] = Tail(@)]
      /\ UNCHANGED <<capacity, copyCall>>
  BY DEF Manager!DeviceStep
<1>2. Head(copyQueue[q]) = first /\ first \in Task /\ 1 \in Positions(q)
  <2>1. copyQueue[q] \in Seq(Task) /\ copyQueue[q] # <<>>
    BY <1>1 DEF BufferInv
  <2>2. Len(copyQueue[q]) \in Nat \ {0} /\ Head(copyQueue[q]) = first /\ first \in Task
    BY <2>1
  <2> QED  BY <2>2 DEF Positions
<1>3. /\ copyQueue' \in [Queues -> Seq(Task)]
      /\ \A p \in Queues : \A i \in 1..Len(copyQueue'[p]) :
           \/ p # q /\ i \in Positions(p) /\ copyQueue'[p][i] = copyQueue[p][i]
           \/ /\ p = q /\ i + 1 \in Positions(q) /\ i \in Nat \ {0}
              /\ copyQueue'[p][i] = copyQueue[q][i + 1]
  BY <1>1, ManagerTail
<1>4. content' = content \/ first.op = "d2h"
  <2>1. first.op \in {"h2d", "d2h", "d2d"}
    BY <1>2, TaskOps
  <2> QED  BY <1>2, <2>1 DEF Manager!DeviceStep
<1> HIDE DEF first
<1>5. \A p \in Queues : \A i \in 1..Len(copyQueue'[p]) : \E j \in Positions(p) :
        copyQueue'[p][i] = copyQueue[p][j] /\ j = (IF p = q THEN i + 1 ELSE i)
  BY <1>3
<1>6. StagedOnce'
  <2> SUFFICES ASSUME NEW p \in Queues, NEW r \in Queues, NEW i \in 1..Len(copyQueue'[p]),
                      NEW j \in 1..Len(copyQueue'[r]),
                      Staged(copyQueue'[p][i]), Staged(copyQueue'[r][j])
               PROVE  p = r /\ i = j
    BY DEF StagedOnce, Positions
  <2>1. PICK a \in Positions(p) : copyQueue'[p][i] = copyQueue[p][a] /\ a = (IF p = q THEN i + 1 ELSE i)
    BY <1>5
  <2>2. PICK b \in Positions(r) : copyQueue'[r][j] = copyQueue[r][b] /\ b = (IF r = q THEN j + 1 ELSE j)
    BY <1>5
  <2>3. p = r /\ a = b
    BY <2>1, <2>2 DEF BufferInv, StagedOnce
  <2>4. i \in Int /\ j \in Int
    OBVIOUS
  <2> QED  BY <2>1, <2>2, <2>3, <2>4
<1>7. WaitedFor'
  BY <1>1, <1>5 DEF BufferInv, WaitedFor, Positions
<1>8. Intact'
  <2> SUFFICES ASSUME NEW p \in Queues, NEW i \in 1..Len(copyQueue'[p]), copyQueue'[p][i].op = "h2d"
               PROVE  copyQueue'[p][i].size = capacity' /\ content' = copyQueue'[p][i].value
    BY DEF Intact, Positions
  <2>1. PICK a \in Positions(p) : copyQueue'[p][i] = copyQueue[p][a] /\ a = (IF p = q THEN i + 1 ELSE i)
    BY <1>5
  <2>2. copyQueue[p][a].size = capacity /\ content = copyQueue[p][a].value
    BY <2>1 DEF BufferInv, Intact
  <2>3. ASSUME first.op = "d2h"  PROVE FALSE
    <3>1. Staged(copyQueue[q][1]) /\ Staged(copyQueue[p][a])
      BY <2>1, <2>3 DEF Staged, first
    <3>2. p = q /\ a = 1
      BY <3>1, <1>2 DEF BufferInv, StagedOnce
    <3>3. i \in 1..Len(copyQueue'[p])
      OBVIOUS
    <3> QED  BY <2>1, <3>2, <3>3
  <2> QED  BY <1>1, <1>4, <2>1, <2>2, <2>3
<1> QED  BY <1>1, <1>3, <1>6, <1>7, <1>8 DEF BufferInv

(* A wait ends when the queue it is for is empty.                          *)
LEMMA ReturnKeeps ==
  ASSUME BufferInv, Manager!Return
  PROVE  BufferInv'
<1>1. /\ copyCall # Nothing /\ copyQueue[copyCall.waits] = <<>>
      /\ UNCHANGED <<copyQueue, capacity, content>>
  BY DEF Manager!Return, Manager!buffer
<1>2. \A q \in Queues \ UserStreams : \A i \in Positions(q) : ~Staged(copyQueue[q][i])
  BY <1>1 DEF BufferInv, WaitedFor, Positions
<1>3. WaitedFor'
  BY <1>1, <1>2 DEF WaitedFor, Positions
<1>4. (StagedOnce /\ Intact)'
  BY <1>1 DEF BufferInv, StagedOnce, Intact, Positions
<1> QED  BY <1>1, <1>3, <1>4 DEF BufferInv

LEMMA BufferSteps ==
  ASSUME Disciplined
  PROVE  BufferInv /\ [Manager!Next]_(Manager!vars) => BufferInv'
<1> SUFFICES ASSUME BufferInv, [Manager!Next]_(Manager!vars)  PROVE BufferInv'
  OBVIOUS
<1>1. ASSUME NEW m \in Modules, Manager!SetDevice(m)  PROVE BufferInv'
  BY <1>1, RestKeeps, InvalidateKeeps DEF Manager!SetDevice, Manager!Fail, Manager!vars, Manager!buffer
<1>2. ASSUME Manager!Release  PROVE BufferInv'
  BY <1>2, RestKeeps, InvalidateKeeps DEF Manager!Release, Manager!Fail, Manager!buffer
<1>3. ASSUME NEW s \in UserStreams,
             Manager!CreateStream(s) \/ Manager!DestroyStream(s) \/ Manager!SyncStream(s)
      PROVE  BufferInv'
  BY <1>3, RestKeeps DEF Manager!CreateStream, Manager!DestroyStream, Manager!SyncStream, Manager!Fail,
     Manager!buffer, Manager!Ready
<1>4. CASE Manager!Next
  BY <1>1, <1>2, <1>3, <1>4, CopyingKeeps, AsyncCopyingKeeps, DeviceRunKeeps, ReturnKeeps
     DEF Manager!Next, Queues
<1>5. CASE UNCHANGED Manager!vars
  BY <1>5, RestKeeps DEF Manager!vars, Manager!buffer
<1> QED  BY <1>4, <1>5

(* A pending upload reads the buffer it was staged in, and its own data,   *)
(* although getCachedHostMem gives every copy the same buffer and frees it *)
(* for a larger one: provided that the client synchronizes its copies.     *)
THEOREM StagedIntactCorrect ==
  ASSUME Disciplined
  PROVE  ManagerSpec => []StagedIntact
<1>1. Manager!Init => BufferInv
  <2> SUFFICES ASSUME Manager!Init  PROVE BufferInv
    OBVIOUS
  <2>1. copyQueue = [q \in Queues |-> <<>>] /\ capacity = 0
    BY DEF Manager!Init, Queues
  <2>2. copyQueue \in [Queues -> Seq(Task)] /\ \A q \in Queues : Positions(q) = {}
    BY <2>1 DEF Positions
  <2> QED  BY <2>1, <2>2 DEF BufferInv, StagedOnce, WaitedFor, Intact
<1>2. BufferInv => StagedIntact
  BY DEF BufferInv, Intact, StagedIntact, Manager!StagedIntact, Positions, Queues
<1> QED  BY <1>1, <1>2, BufferSteps, PTL DEF ManagerSpec, Manager!Spec
=============================================================================
