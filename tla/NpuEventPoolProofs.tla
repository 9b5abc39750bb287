------------------------- MODULE NpuEventPoolProofs -------------------------
(***************************************************************************)
(* Proofs about NpuEventPool.  TypeInv is inductive for every client; the  *)
(* recycling invariant RecycleInv needs the client of Discipline, and is   *)
(* inductive on top of TypeInv.  On top of both, HistoryInv relates the    *)
(* streams to what a client has asked for, by the names NpuEventRefinement *)
(* gives the records: the pool implements EventService.                    *)
(***************************************************************************)
EXTENDS NpuEventRefinement, TaskQueueLemmas

-----------------------------------------------------------------------------
(* The queues of the streams.                                              *)

(* The tasks are of three distinct kinds.                                  *)
LEMMA TaskKinds ==
  /\ \A e \in Events : RecordTask(e) \in Task /\ WaitTask(e) \in Task
  /\ \A t \in Threads : MarkTask(t) \in Task
  /\ \A e \in Events, t \in Threads : RecordTask(e) # MarkTask(t) /\ WaitTask(e) # MarkTask(t)
  /\ \A e, f \in Events : RecordTask(e) # WaitTask(f)
  /\ \A e, f \in Events : RecordTask(e) = RecordTask(f) => e = f
  /\ \A e, f \in Events : WaitTask(e) = WaitTask(f) => e = f
  /\ \A t, u \in Threads : MarkTask(t) = MarkTask(u) => t = u
<1>1. \A e \in Events : RecordTask(e) \in Task /\ WaitTask(e) \in Task
  BY DEF RecordTask, WaitTask, Task
<1>2. \A t \in Threads : MarkTask(t) \in Task
  BY DEF MarkTask, Task
<1>3. /\ \A x : RecordTask(x).op = "record" /\ RecordTask(x).arg = x
      /\ \A x : WaitTask(x).op = "wait" /\ WaitTask(x).arg = x
      /\ \A x : MarkTask(x).op = "mark" /\ MarkTask(x).arg = x
  BY DEF RecordTask, WaitTask, MarkTask
<1>4. "record" # "wait" /\ "record" # "mark" /\ "wait" # "mark"
  OBVIOUS
<1> QED  BY ONLY <1>1, <1>2, <1>3, <1>4

(* What an aclrt call that enqueues a task changes.                        *)
LEMMA QueueAppend ==
  ASSUME queue \in [Streams -> Seq(Task)], NEW s \in Streams, NEW x \in Task, Enqueue(s, x)
  PROVE  /\ queue' \in [Streams -> Seq(Task)]
         /\ \A r \in Streams : queue'[r] = IF r = s THEN Append(queue[s], x) ELSE queue[r]
         /\ \A y : \A r \in Streams : PendingOn(y, r)' <=> PendingOn(y, r) \/ (r = s /\ y = x)
<1>1. Append(queue[s], x) \in Seq(Task)
  OBVIOUS
<1>2. \A r \in Streams : queue'[r] = IF r = s THEN Append(queue[s], x) ELSE queue[r]
  BY DEF Enqueue
<1>3. \A y : In(y, Append(queue[s], x)) <=> In(y, queue[s]) \/ y = x
  BY InAppend
<1>4. ASSUME NEW r \in Streams, NEW y
      PROVE  PendingOn(y, r)' <=> PendingOn(y, r) \/ (r = s /\ y = x)
  BY <1>2, <1>3 DEF PendingOn
<1> QED  BY <1>1, <1>2, <1>4 DEF Enqueue

(* What the end of the task at the head of a stream changes.               *)
LEMMA QueueTail ==
  ASSUME queue \in [Streams -> Seq(Task)], NEW s \in Streams, queue[s] # <<>>,
         queue' = [queue EXCEPT ![s] = Tail(@)]
  PROVE  /\ queue' \in [Streams -> Seq(Task)]
         /\ \A r \in Streams : queue'[r] = IF r = s THEN Tail(queue[s]) ELSE queue[r]
         /\ \A y : \A r \in Streams : PendingOn(y, r)' => PendingOn(y, r)
         /\ \A y : \A r \in Streams :
              PendingOn(y, r) => PendingOn(y, r)' \/ (r = s /\ y = Head(queue[s]))
         /\ PendingOn(Head(queue[s]), s)
<1>1. Tail(queue[s]) \in Seq(Task)
  OBVIOUS
<1>2. \A r \in Streams : queue'[r] = IF r = s THEN Tail(queue[s]) ELSE queue[r]
  OBVIOUS
<1>3. \A y : /\ In(y, Tail(queue[s])) => In(y, queue[s])
             /\ In(y, queue[s]) => In(y, Tail(queue[s])) \/ y = Head(queue[s])
             /\ In(Head(queue[s]), queue[s])
  BY InTail
<1>4. ASSUME NEW r \in Streams, NEW y
      PROVE  /\ PendingOn(y, r)' => PendingOn(y, r)
             /\ PendingOn(y, r) => PendingOn(y, r)' \/ (r = s /\ y = Head(queue[s]))
  BY <1>2, <1>3 DEF PendingOn
<1> QED  BY <1>1, <1>2, <1>3, <1>4 DEF PendingOn

-----------------------------------------------------------------------------
(* Type correctness.                                                       *)

Resetting == {"drain", "sync", "reset"}

(* At most one marker of a thread is pending, and only while it blocks.    *)
MarkOK ==
  /\ \A t \in Threads, s \in Streams : Once(MarkTask(t), queue[s])
  /\ \A t \in Threads, s \in Streams : PendingOn(MarkTask(t), s) => pc[t] = "sync"
  /\ \A t \in Threads, r, s \in Streams :
       PendingOn(MarkTask(t), r) /\ PendingOn(MarkTask(t), s) => r = s

(* The locals of a thread inside a call.                                   *)
CallOK ==
  \A t \in Threads :
    /\ pc[t] \in {"record", "waitEnqueue", "waitPush"} => ev[t] \in busy /\ st[t] \in Streams
    /\ pc[t] \in Resetting =>
         \/ back[t] = "scan" /\ ev[t] \in scan[t]
         \/ back[t] = "record" /\ ev[t] \in busy /\ st[t] \in Streams
    /\ scan[t] \subseteq wait
    /\ pc[t] \notin Locked => scan[t] = {}
    /\ pc[t] = "record" => scan[t] = {}
    /\ pc[t] \in Resetting /\ back[t] = "record" => scan[t] = {}

TypeInv == TypeOK /\ MarkOK /\ CallOK

(* The invariant holds initially.                                          *)
LEMMA TypeInit == Init => TypeInv
  BY NoneAssumption
  DEF Init, TypeInv, TypeOK, RangeOK, ListsOK, LockOK, MarkOK, CallOK, Once, In, PendingOn,
      Labels, Locked, Resetting, Task

(* Every step of the pool, of its clients and of the device keeps the      *)
(* variables in their ranges and the mutex held by the thread under it.    *)
LEMMA TypeStep == TypeInv /\ [Next]_vars => TypeInv'
<1> SUFFICES ASSUME TypeInv, [Next]_vars  PROVE TypeInv'
  OBVIOUS
<1> USE NoneAssumption DEF TypeInv
<1>1. ASSUME NEW t \in Threads, NEW s \in Streams, DrainStream(t, s)
      PROVE  TypeInv'
  <2>1. RangeOK'
    <3>1. CASE s \in alive
      <4>1. Enqueue(s, MarkTask(t)) /\ MarkTask(t) \in Task
        BY <1>1, <3>1, TaskKinds DEF DrainStream
      <4>2. queue' \in [Streams -> Seq(Task)]
        BY <4>1, QueueAppend DEF TypeOK, RangeOK
      <4>3. /\ pc' = [pc EXCEPT ![t] = "sync"]
            /\ todo' = [todo EXCEPT ![t] = @ \ {s}]
            /\ UNCHANGED <<pool, mutex, ev, st, scan, back, flag, alive, stopped>>
        BY <1>1, <3>1 DEF DrainStream, Goto
      <4> QED  BY <4>2, <4>3 DEF pool, TypeOK, RangeOK, Labels
    <3>2. CASE s \notin alive
      BY <1>1, <3>2 DEF DrainStream, Stop, pool, local, device, TypeOK, RangeOK
    <3> QED  BY <3>1, <3>2
  <2>2. ListsOK'
    BY <1>1 DEF DrainStream, Stop, Goto, Return, Outside, pool, local, device, TypeOK, RangeOK, ListsOK, CallOK, Resetting, Fresh
  <2>3. LockOK'
    BY <1>1 DEF DrainStream, Stop, Goto, Return, Outside, pool, local, device, TypeOK, RangeOK, LockOK, Locked, Labels, CallOK, MarkOK, Resetting
  <2>4. MarkOK'
    <3>1. CASE s \in alive
      <4>1. /\ pc[t] = "drain" /\ pc' = [pc EXCEPT ![t] = "sync"]
            /\ Enqueue(s, MarkTask(t))
        BY <1>1, <3>1 DEF DrainStream, Goto
      <4>2. \A r \in Streams : ~PendingOn(MarkTask(t), r)
        BY <4>1 DEF MarkOK
      <4>3. ASSUME NEW u \in Threads, NEW r \in Streams
            PROVE  Once(MarkTask(u), queue[r])'
        <5>1. CASE r = s
          BY <4>1, <4>2, <5>1, QueueAppend, TaskKinds, OnceAppend
          DEF MarkOK, PendingOn, TypeOK, RangeOK
        <5>2. CASE r # s
          BY <4>1, <5>2, QueueAppend, TaskKinds DEF MarkOK, TypeOK, RangeOK
        <5> QED  BY <5>1, <5>2
      <4> QED  BY <4>1, <4>2, <4>3, QueueAppend, TaskKinds DEF MarkOK, TypeOK, RangeOK
    <3>2. CASE s \notin alive
      BY <1>1, <3>2 DEF DrainStream, Stop, pool, local, device, MarkOK, PendingOn
    <3> QED  BY <3>1, <3>2
  <2>5. CallOK'
    BY <1>1 DEF DrainStream, Stop, Goto, Return, Outside, pool, local, device, TypeOK, RangeOK, ListsOK, LockOK, Locked, Labels, CallOK, MarkOK, Resetting
  <2> QED  BY <2>1, <2>2, <2>3, <2>4, <2>5 DEF TypeInv, TypeOK
<1>2. ASSUME NEW t \in Threads, DrainDone(t)
      PROVE  TypeInv'
  <2>1. RangeOK'
    BY <1>2 DEF DrainDone, Goto, Return, Outside, pool, local, device, TypeOK, RangeOK, Labels, CallOK, Resetting, Locked, Fresh
  <2>2. ListsOK'
    BY <1>2 DEF DrainDone, Goto, Return, Outside, pool, local, device, TypeOK, RangeOK, ListsOK, CallOK, Resetting, Fresh
  <2>3. LockOK'
    BY <1>2 DEF DrainDone, Goto, Return, Outside, pool, local, device, TypeOK, RangeOK, LockOK, Locked, Labels, CallOK, MarkOK, Resetting
  <2>4. MarkOK'
    BY <1>2 DEF DrainDone, Goto, Return, Outside, pool, local, device, TypeOK, RangeOK, MarkOK, PendingOn
  <2>5. CallOK'
    BY <1>2 DEF DrainDone, Goto, Return, Outside, pool, local, device, TypeOK, RangeOK, ListsOK, LockOK, Locked, Labels, CallOK, MarkOK, Resetting
  <2> QED  BY <2>1, <2>2, <2>3, <2>4, <2>5 DEF TypeInv, TypeOK
<1>3. ASSUME NEW t \in Threads, ResetFinish(t)
      PROVE  TypeInv'
  <2>1. RangeOK'
    <3>1. CASE recStream[ev[t]] \in alive \cup {None}
      <4>1. ev[t] \in Events /\ back[t] \in Labels
        BY <1>3 DEF ResetFinish, CallOK, Resetting, TypeOK, RangeOK, Labels
      <4>2. /\ waitStreams' = [waitStreams EXCEPT ![ev[t]] = {}]
            /\ flag' = [flag EXCEPT ![ev[t]] = @ /\ recStream[ev[t]] = None]
            /\ pc' = [pc EXCEPT ![t] = back[t]]
            /\ back' = [back EXCEPT ![t] = "out"]
            /\ UNCHANGED <<busy, recorded, recStream, mutex, st, todo, queue, alive, stopped>>
        BY <1>3, <3>1 DEF ResetFinish, LowerFlag, Goto
      <4>3. /\ idle' \subseteq Events /\ wait' \subseteq Events
            /\ scan' \in [Threads -> SUBSET Events] /\ ev' \in [Threads -> Events \cup {None}]
        <5>1. CASE back[t] = "scan"
          <6>1. /\ idle' = idle \cup {ev[t]}
                /\ wait' = wait \ {ev[t]}
                /\ scan' = [scan EXCEPT ![t] = @ \ {ev[t]}]
                /\ ev' = [ev EXCEPT ![t] = None]
            BY <1>3, <3>1, <5>1 DEF ResetFinish
          <6> QED  BY <4>1, <6>1 DEF TypeOK, RangeOK
        <5>2. CASE back[t] # "scan"
          BY <1>3, <3>1, <4>1, <5>2 DEF ResetFinish, TypeOK, RangeOK
        <5> QED  BY <5>1, <5>2
      <4> QED  BY <4>1, <4>2, <4>3 DEF TypeOK, RangeOK
    <3>2. CASE recStream[ev[t]] \notin alive \cup {None}
      BY <1>3, <3>2 DEF ResetFinish, Stop, pool, local, device, TypeOK, RangeOK
    <3> QED  BY <3>1, <3>2
  <2>2. ListsOK'
    BY <1>3 DEF ResetFinish, Stop, LowerFlag, Goto, Return, Outside, pool, local, device, TypeOK, RangeOK, ListsOK, CallOK, Resetting, Fresh
  <2>3. LockOK'
    BY <1>3 DEF ResetFinish, Stop, LowerFlag, Goto, Return, Outside, pool, local, device, TypeOK, RangeOK, LockOK, Locked, Labels, CallOK, MarkOK, Resetting
  <2>4. MarkOK'
    BY <1>3 DEF ResetFinish, Stop, LowerFlag, Goto, Return, Outside, pool, local, device, TypeOK, RangeOK, MarkOK, PendingOn
  <2>5. CallOK'
    BY <1>3 DEF ResetFinish, Stop, LowerFlag, Goto, Return, Outside, pool, local, device, TypeOK, RangeOK, ListsOK, LockOK, Locked, Labels, CallOK, MarkOK, Resetting
  <2> QED  BY <2>1, <2>2, <2>3, <2>4, <2>5 DEF TypeInv, TypeOK
<1>4. ASSUME NEW t \in Threads, CreateEnter(t)
      PROVE  TypeInv'
  <2>1. RangeOK'
    BY <1>4 DEF CreateEnter, Goto, Return, Outside, pool, local, device, TypeOK, RangeOK, Labels, CallOK, Resetting, Locked, Fresh
  <2>2. ListsOK'
    BY <1>4 DEF CreateEnter, Goto, Return, Outside, pool, local, device, TypeOK, RangeOK, ListsOK, CallOK, Resetting, Fresh
  <2>3. LockOK'
    BY <1>4 DEF CreateEnter, Goto, Return, Outside, pool, local, device, TypeOK, RangeOK, LockOK, Locked, Labels, CallOK, MarkOK, Resetting
  <2>4. MarkOK'
    BY <1>4 DEF CreateEnter, Goto, Return, Outside, pool, local, device, TypeOK, RangeOK, MarkOK, PendingOn
  <2>5. CallOK'
    BY <1>4 DEF CreateEnter, Goto, Return, Outside, pool, local, device, TypeOK, RangeOK, ListsOK, LockOK, Locked, Labels, CallOK, MarkOK, Resetting
  <2> QED  BY <2>1, <2>2, <2>3, <2>4, <2>5 DEF TypeInv, TypeOK
<1>5. ASSUME NEW t \in Threads, NEW e \in Events, ScanUnrecorded(t, e)
      PROVE  TypeInv'
  <2>1. RangeOK'
    BY <1>5 DEF ScanUnrecorded, Goto, Return, Outside, pool, local, device, TypeOK, RangeOK, Labels, CallOK, Resetting, Locked, Fresh
  <2>2. ListsOK'
    BY <1>5 DEF ScanUnrecorded, Goto, Return, Outside, pool, local, device, TypeOK, RangeOK, ListsOK, CallOK, Resetting, Fresh
  <2>3. LockOK'
    BY <1>5 DEF ScanUnrecorded, Goto, Return, Outside, pool, local, device, TypeOK, RangeOK, LockOK, Locked, Labels, CallOK, MarkOK, Resetting
  <2>4. MarkOK'
    BY <1>5 DEF ScanUnrecorded, Goto, Return, Outside, pool, local, device, TypeOK, RangeOK, MarkOK, PendingOn
  <2>5. CallOK'
    BY <1>5 DEF ScanUnrecorded, Goto, Return, Outside, pool, local, device, TypeOK, RangeOK, ListsOK, LockOK, Locked, Labels, CallOK, MarkOK, Resetting
  <2> QED  BY <2>1, <2>2, <2>3, <2>4, <2>5 DEF TypeInv, TypeOK
<1>6. ASSUME NEW t \in Threads, NEW e \in Events, ScanPending(t, e)
      PROVE  TypeInv'
  <2>1. RangeOK'
    BY <1>6 DEF ScanPending, Goto, Return, Outside, pool, local, device, TypeOK, RangeOK, Labels, CallOK, Resetting, Locked, Fresh
  <2>2. ListsOK'
    BY <1>6 DEF ScanPending, Goto, Return, Outside, pool, local, device, TypeOK, RangeOK, ListsOK, CallOK, Resetting, Fresh
  <2>3. LockOK'
    BY <1>6 DEF ScanPending, Goto, Return, Outside, pool, local, device, TypeOK, RangeOK, LockOK, Locked, Labels, CallOK, MarkOK, Resetting
  <2>4. MarkOK'
    BY <1>6 DEF ScanPending, Goto, Return, Outside, pool, local, device, TypeOK, RangeOK, MarkOK, PendingOn
  <2>5. CallOK'
    BY <1>6 DEF ScanPending, Goto, Return, Outside, pool, local, device, TypeOK, RangeOK, ListsOK, LockOK, Locked, Labels, CallOK, MarkOK, Resetting
  <2> QED  BY <2>1, <2>2, <2>3, <2>4, <2>5 DEF TypeInv, TypeOK
<1>7. ASSUME NEW t \in Threads, NEW e \in Events, ScanComplete(t, e)
      PROVE  TypeInv'
  <2>1. RangeOK'
    BY <1>7 DEF ScanComplete, ResetCall, Goto, Return, Outside, pool, local, device, TypeOK, RangeOK, Labels, CallOK, Resetting, Locked, Fresh
  <2>2. ListsOK'
    BY <1>7 DEF ScanComplete, ResetCall, Goto, Return, Outside, pool, local, device, TypeOK, RangeOK, ListsOK, CallOK, Resetting, Fresh
  <2>3. LockOK'
    BY <1>7 DEF ScanComplete, ResetCall, Goto, Return, Outside, pool, local, device, TypeOK, RangeOK, LockOK, Locked, Labels, CallOK, MarkOK, Resetting
  <2>4. MarkOK'
    BY <1>7 DEF ScanComplete, ResetCall, Goto, Return, Outside, pool, local, device, TypeOK, RangeOK, MarkOK, PendingOn
  <2>5. CallOK'
    BY <1>7 DEF ScanComplete, ResetCall, Goto, Return, Outside, pool, local, device, TypeOK, RangeOK, ListsOK, LockOK, Locked, Labels, CallOK, MarkOK, Resetting
  <2> QED  BY <2>1, <2>2, <2>3, <2>4, <2>5 DEF TypeInv, TypeOK
<1>8. ASSUME NEW t \in Threads, NEW e \in Events, CreateTake(t, e)
      PROVE  TypeInv'
  <2>1. RangeOK'
    BY <1>8 DEF CreateTake, Goto, Return, Outside, pool, local, device, TypeOK, RangeOK, Labels, CallOK, Resetting, Locked, Fresh
  <2>2. ListsOK'
    BY <1>8 DEF CreateTake, Goto, Return, Outside, pool, local, device, TypeOK, RangeOK, ListsOK, CallOK, Resetting, Fresh
  <2>3. LockOK'
    BY <1>8 DEF CreateTake, Goto, Return, Outside, pool, local, device, TypeOK, RangeOK, LockOK, Locked, Labels, CallOK, MarkOK, Resetting
  <2>4. MarkOK'
    BY <1>8 DEF CreateTake, Goto, Return, Outside, pool, local, device, TypeOK, RangeOK, MarkOK, PendingOn
  <2>5. CallOK'
    BY <1>8 DEF CreateTake, Goto, Return, Outside, pool, local, device, TypeOK, RangeOK, ListsOK, LockOK, Locked, Labels, CallOK, MarkOK, Resetting
  <2> QED  BY <2>1, <2>2, <2>3, <2>4, <2>5 DEF TypeInv, TypeOK
<1>9. ASSUME NEW t \in Threads, NEW e \in Events, DestroyEvent(t, e)
      PROVE  TypeInv'
  <2>1. RangeOK'
    BY <1>9 DEF DestroyEvent, InCall, Goto, Return, Outside, pool, local, device, TypeOK, RangeOK, Labels, CallOK, Resetting, Locked, Fresh
  <2>2. ListsOK'
    BY <1>9 DEF DestroyEvent, InCall, Goto, Return, Outside, pool, local, device, TypeOK, RangeOK, ListsOK, CallOK, Resetting, Fresh
  <2>3. LockOK'
    BY <1>9 DEF DestroyEvent, InCall, Goto, Return, Outside, pool, local, device, TypeOK, RangeOK, LockOK, Locked, Labels, CallOK, MarkOK, Resetting
  <2>4. MarkOK'
    BY <1>9 DEF DestroyEvent, InCall, Goto, Return, Outside, pool, local, device, TypeOK, RangeOK, MarkOK, PendingOn
  <2>5. CallOK'
    BY <1>9 DEF DestroyEvent, InCall, Goto, Return, Outside, pool, local, device, TypeOK, RangeOK, ListsOK, LockOK, Locked, Labels, CallOK, MarkOK, Resetting
  <2> QED  BY <2>1, <2>2, <2>3, <2>4, <2>5 DEF TypeInv, TypeOK
<1>10. ASSUME NEW t \in Threads, NEW e \in Events, NEW s \in Streams, RecordEnter(t, e, s)
      PROVE  TypeInv'
  <2>1. RangeOK'
    <3>1. pc' \in [Threads -> Labels]
      BY <1>10 DEF RecordEnter, ResetCall, Goto, TypeOK, RangeOK, Labels
    <3>2. todo' \in [Threads -> SUBSET Streams] /\ back' \in [Threads -> {"out", "scan", "record"}]
      BY <1>10 DEF RecordEnter, ResetCall, TypeOK, RangeOK
    <3>3. ev' \in [Threads -> Events \cup {None}] /\ st' \in [Threads -> Streams \cup {None}]
      BY <1>10 DEF RecordEnter, ResetCall, TypeOK, RangeOK
    <3> QED  BY <1>10, <3>1, <3>2, <3>3 DEF RecordEnter, pool, device, TypeOK, RangeOK
  <2>2. ListsOK'
    BY <1>10 DEF RecordEnter, ResetCall, Usable, Goto, Return, Outside, pool, local, device, TypeOK, RangeOK, ListsOK, CallOK, Resetting, Fresh
  <2>3. LockOK'
    BY <1>10 DEF RecordEnter, ResetCall, Usable, Goto, Return, Outside, pool, local, device, TypeOK, RangeOK, LockOK, Locked, Labels, CallOK, MarkOK, Resetting
  <2>4. MarkOK'
    BY <1>10 DEF RecordEnter, ResetCall, Usable, Goto, Return, Outside, pool, local, device, TypeOK, RangeOK, MarkOK, PendingOn
  <2>5. CallOK'
    BY <1>10 DEF RecordEnter, ResetCall, Usable, Goto, Return, Outside, pool, local, device, TypeOK, RangeOK, ListsOK, LockOK, Locked, Labels, CallOK, MarkOK, Resetting
  <2> QED  BY <2>1, <2>2, <2>3, <2>4, <2>5 DEF TypeInv, TypeOK
<1>11. ASSUME NEW t \in Threads, RecordDo(t)
      PROVE  TypeInv'
  <2>1. RangeOK'
    <3>1. pc[t] = "record" /\ ev[t] \in Events /\ st[t] \in Streams
      BY <1>11 DEF RecordDo, CallOK, TypeOK, RangeOK
    <3> QED
      BY <1>11, <3>1, QueueAppend, TaskKinds
      DEF RecordDo, pool, local, TypeOK, RangeOK, Goto, Return, Labels
  <2>2. ListsOK'
    BY <1>11 DEF RecordDo, Goto, Return, Outside, pool, local, device, TypeOK, RangeOK, ListsOK, CallOK, Resetting, Fresh
  <2>3. LockOK'
    BY <1>11 DEF RecordDo, Goto, Return, Outside, pool, local, device, TypeOK, RangeOK, LockOK, Locked, Labels, CallOK, MarkOK, Resetting
  <2>4. MarkOK'
    <3>1. pc[t] = "record" /\ ev[t] \in Events /\ st[t] \in Streams
      BY <1>11 DEF RecordDo, CallOK, TypeOK, RangeOK
    <3>2. Enqueue(st[t], RecordTask(ev[t])) /\ \A u \in Threads \ {t} : pc'[u] = pc[u]
      BY <1>11 DEF RecordDo, Goto, Return, TypeOK, RangeOK
    <3>3. ASSUME NEW u \in Threads, NEW r \in Streams
          PROVE  Once(MarkTask(u), queue[r])'
      <4>1. CASE r = st[t]
        BY <3>1, <3>2, <4>1, QueueAppend, TaskKinds, OnceAppend DEF MarkOK, TypeOK, RangeOK
      <4>2. CASE r # st[t]
        BY <3>1, <3>2, <4>2, QueueAppend, TaskKinds DEF MarkOK, TypeOK, RangeOK
      <4> QED  BY <4>1, <4>2
    <3>4. \A u \in Threads, r \in Streams : PendingOn(MarkTask(u), r)' <=> PendingOn(MarkTask(u), r)
      BY <3>1, <3>2, QueueAppend, TaskKinds DEF TypeOK, RangeOK
    <3> QED  BY <3>1, <3>2, <3>3, <3>4 DEF MarkOK
  <2>5. CallOK'
    BY <1>11 DEF RecordDo, Goto, Return, Outside, pool, local, device, TypeOK, RangeOK, ListsOK, LockOK, Locked, Labels, CallOK, MarkOK, Resetting
  <2> QED  BY <2>1, <2>2, <2>3, <2>4, <2>5 DEF TypeInv, TypeOK
<1>12. ASSUME NEW t \in Threads, NEW e \in Events, NEW s \in Streams, WaitCheck(t, e, s)
      PROVE  TypeInv'
  <2>1. RangeOK'
    <3>1. CASE recorded[e]
      <4>1. /\ pc' = [pc EXCEPT ![t] = "waitEnqueue"]
            /\ ev' = [ev EXCEPT ![t] = e]
            /\ st' = [st EXCEPT ![t] = s]
            /\ UNCHANGED <<pool, mutex, scan, todo, back, device, stopped>>
        BY <1>12, <3>1 DEF WaitCheck, Goto
      <4> QED  BY <4>1 DEF pool, device, TypeOK, RangeOK, Labels
    <3>2. CASE ~recorded[e]
      BY <1>12, <3>2 DEF WaitCheck, Stop, pool, local, device, TypeOK, RangeOK
    <3> QED  BY <3>1, <3>2
  <2>2. ListsOK'
    BY <1>12 DEF WaitCheck, Stop, Usable, Goto, Return, Outside, pool, local, device, TypeOK, RangeOK, ListsOK, CallOK, Resetting, Fresh
  <2>3. LockOK'
    BY <1>12 DEF WaitCheck, Stop, Usable, Goto, Return, Outside, pool, local, device, TypeOK, RangeOK, LockOK, Locked, Labels, CallOK, MarkOK, Resetting
  <2>4. MarkOK'
    BY <1>12 DEF WaitCheck, Stop, Usable, Goto, Return, Outside, pool, local, device, TypeOK, RangeOK, MarkOK, PendingOn
  <2>5. CallOK'
    BY <1>12 DEF WaitCheck, Stop, Usable, Goto, Return, Outside, pool, local, device, TypeOK, RangeOK, ListsOK, LockOK, Locked, Labels, CallOK, MarkOK, Resetting
  <2> QED  BY <2>1, <2>2, <2>3, <2>4, <2>5 DEF TypeInv, TypeOK
<1>13. ASSUME NEW t \in Threads, WaitEnqueue(t)
      PROVE  TypeInv'
  <2>1. RangeOK'
    <3>1. pc[t] = "waitEnqueue" /\ ev[t] \in Events /\ st[t] \in Streams
      BY <1>13 DEF WaitEnqueue, CallOK, TypeOK, RangeOK
    <3> QED
      BY <1>13, <3>1, QueueAppend, TaskKinds
      DEF WaitEnqueue, pool, local, TypeOK, RangeOK, Goto, Return, Labels
  <2>2. ListsOK'
    BY <1>13 DEF WaitEnqueue, Goto, Return, Outside, pool, local, device, TypeOK, RangeOK, ListsOK, CallOK, Resetting, Fresh
  <2>3. LockOK'
    BY <1>13 DEF WaitEnqueue, Goto, Return, Outside, pool, local, device, TypeOK, RangeOK, LockOK, Locked, Labels, CallOK, MarkOK, Resetting
  <2>4. MarkOK'
    <3>1. pc[t] = "waitEnqueue" /\ ev[t] \in Events /\ st[t] \in Streams
      BY <1>13 DEF WaitEnqueue, CallOK, TypeOK, RangeOK
    <3>2. Enqueue(st[t], WaitTask(ev[t])) /\ \A u \in Threads \ {t} : pc'[u] = pc[u]
      BY <1>13 DEF WaitEnqueue, Goto, Return, TypeOK, RangeOK
    <3>3. ASSUME NEW u \in Threads, NEW r \in Streams
          PROVE  Once(MarkTask(u), queue[r])'
      <4>1. CASE r = st[t]
        BY <3>1, <3>2, <4>1, QueueAppend, TaskKinds, OnceAppend DEF MarkOK, TypeOK, RangeOK
      <4>2. CASE r # st[t]
        BY <3>1, <3>2, <4>2, QueueAppend, TaskKinds DEF MarkOK, TypeOK, RangeOK
      <4> QED  BY <4>1, <4>2
    <3>4. \A u \in Threads, r \in Streams : PendingOn(MarkTask(u), r)' <=> PendingOn(MarkTask(u), r)
      BY <3>1, <3>2, QueueAppend, TaskKinds DEF TypeOK, RangeOK
    <3> QED  BY <3>1, <3>2, <3>3, <3>4 DEF MarkOK
  <2>5. CallOK'
    BY <1>13 DEF WaitEnqueue, Goto, Return, Outside, pool, local, device, TypeOK, RangeOK, ListsOK, LockOK, Locked, Labels, CallOK, MarkOK, Resetting
  <2> QED  BY <2>1, <2>2, <2>3, <2>4, <2>5 DEF TypeInv, TypeOK
<1>14. ASSUME NEW t \in Threads, WaitPush(t)
      PROVE  TypeInv'
  <2>1. RangeOK'
    BY <1>14 DEF WaitPush, Goto, Return, Outside, pool, local, device, TypeOK, RangeOK, Labels, CallOK, Resetting, Locked, Fresh
  <2>2. ListsOK'
    BY <1>14 DEF WaitPush, Goto, Return, Outside, pool, local, device, TypeOK, RangeOK, ListsOK, CallOK, Resetting, Fresh
  <2>3. LockOK'
    BY <1>14 DEF WaitPush, Goto, Return, Outside, pool, local, device, TypeOK, RangeOK, LockOK, Locked, Labels, CallOK, MarkOK, Resetting
  <2>4. MarkOK'
    BY <1>14 DEF WaitPush, Goto, Return, Outside, pool, local, device, TypeOK, RangeOK, MarkOK, PendingOn
  <2>5. CallOK'
    BY <1>14 DEF WaitPush, Goto, Return, Outside, pool, local, device, TypeOK, RangeOK, ListsOK, LockOK, Locked, Labels, CallOK, MarkOK, Resetting
  <2> QED  BY <2>1, <2>2, <2>3, <2>4, <2>5 DEF TypeInv, TypeOK
<1>15. ASSUME NEW t \in Threads, NEW s \in Streams, DestroyStream(t, s)
      PROVE  TypeInv'
  <2>1. RangeOK'
    BY <1>15 DEF DestroyStream, Goto, Return, Outside, pool, local, device, TypeOK, RangeOK, Labels, CallOK, Resetting, Locked, Fresh
  <2>2. ListsOK'
    BY <1>15 DEF DestroyStream, Goto, Return, Outside, pool, local, device, TypeOK, RangeOK, ListsOK, CallOK, Resetting, Fresh
  <2>3. LockOK'
    BY <1>15 DEF DestroyStream, Goto, Return, Outside, pool, local, device, TypeOK, RangeOK, LockOK, Locked, Labels, CallOK, MarkOK, Resetting
  <2>4. MarkOK'
    BY <1>15 DEF DestroyStream, Goto, Return, Outside, pool, local, device, TypeOK, RangeOK, MarkOK, PendingOn
  <2>5. CallOK'
    BY <1>15 DEF DestroyStream, Goto, Return, Outside, pool, local, device, TypeOK, RangeOK, ListsOK, LockOK, Locked, Labels, CallOK, MarkOK, Resetting
  <2> QED  BY <2>1, <2>2, <2>3, <2>4, <2>5 DEF TypeInv, TypeOK
<1>16. ASSUME NEW t \in Threads, PostDestroyStream(t)
      PROVE  TypeInv'
  <2>1. RangeOK'
    BY <1>16 DEF PostDestroyStream, Goto, Return, Outside, pool, local, device, TypeOK, RangeOK, Labels, CallOK, Resetting, Locked, Fresh
  <2>2. ListsOK'
    BY <1>16 DEF PostDestroyStream, Goto, Return, Outside, pool, local, device, TypeOK, RangeOK, ListsOK, CallOK, Resetting, Fresh
  <2>3. LockOK'
    BY <1>16 DEF PostDestroyStream, Goto, Return, Outside, pool, local, device, TypeOK, RangeOK, LockOK, Locked, Labels, CallOK, MarkOK, Resetting
  <2>4. MarkOK'
    BY <1>16 DEF PostDestroyStream, Goto, Return, Outside, pool, local, device, TypeOK, RangeOK, MarkOK, PendingOn
  <2>5. CallOK'
    BY <1>16 DEF PostDestroyStream, Goto, Return, Outside, pool, local, device, TypeOK, RangeOK, ListsOK, LockOK, Locked, Labels, CallOK, MarkOK, Resetting
  <2> QED  BY <2>1, <2>2, <2>3, <2>4, <2>5 DEF TypeInv, TypeOK
<1>17. ASSUME NEW t \in Threads, Release(t)
      PROVE  TypeInv'
  <2>1. RangeOK'
    BY <1>17 DEF Release, Goto, Return, Outside, pool, local, device, TypeOK, RangeOK, Labels, CallOK, Resetting, Locked, Fresh
  <2>2. ListsOK'
    BY <1>17 DEF Release, Goto, Return, Outside, pool, local, device, TypeOK, RangeOK, ListsOK, CallOK, Resetting, Fresh
  <2>3. LockOK'
    BY <1>17 DEF Release, Goto, Return, Outside, pool, local, device, TypeOK, RangeOK, LockOK, Locked, Labels, CallOK, MarkOK, Resetting
  <2>4. MarkOK'
    BY <1>17 DEF Release, Goto, Return, Outside, pool, local, device, TypeOK, RangeOK, MarkOK, PendingOn
  <2>5. CallOK'
    BY <1>17 DEF Release, Goto, Return, Outside, pool, local, device, TypeOK, RangeOK, ListsOK, LockOK, Locked, Labels, CallOK, MarkOK, Resetting
  <2> QED  BY <2>1, <2>2, <2>3, <2>4, <2>5 DEF TypeInv, TypeOK
<1>18. ASSUME NEW s \in Streams, DeviceRecord(s)
      PROVE  TypeInv'
  <2>1. RangeOK'
    BY <1>18 DEF DeviceRecord, Goto, Return, Outside, pool, local, device, TypeOK, RangeOK, Labels, CallOK, Resetting, Locked, Fresh
  <2>2. ListsOK'
    BY <1>18 DEF DeviceRecord, Goto, Return, Outside, pool, local, device, TypeOK, RangeOK, ListsOK, CallOK, Resetting, Fresh
  <2>3. LockOK'
    BY <1>18 DEF DeviceRecord, Goto, Return, Outside, pool, local, device, TypeOK, RangeOK, LockOK, Locked, Labels, CallOK, MarkOK, Resetting
  <2>4. MarkOK'
    <3>1. queue[s] # <<>> /\ queue' = [queue EXCEPT ![s] = Tail(@)] /\ pc' = pc
      BY <1>18 DEF DeviceRecord
    <3>2. ASSUME NEW u \in Threads, NEW r \in Streams
          PROVE  Once(MarkTask(u), queue[r])'
      BY <3>1, QueueTail, OnceTail DEF MarkOK, TypeOK, RangeOK
    <3> QED  BY <3>1, <3>2, QueueTail DEF MarkOK, TypeOK, RangeOK
  <2>5. CallOK'
    BY <1>18 DEF DeviceRecord, Goto, Return, Outside, pool, local, device, TypeOK, RangeOK, ListsOK, LockOK, Locked, Labels, CallOK, MarkOK, Resetting
  <2> QED  BY <2>1, <2>2, <2>3, <2>4, <2>5 DEF TypeInv, TypeOK
<1>19. ASSUME NEW s \in Streams, DeviceWait(s)
      PROVE  TypeInv'
  <2>1. RangeOK'
    BY <1>19 DEF DeviceWait, Goto, Return, Outside, pool, local, device, TypeOK, RangeOK, Labels, CallOK, Resetting, Locked, Fresh
  <2>2. ListsOK'
    BY <1>19 DEF DeviceWait, Goto, Return, Outside, pool, local, device, TypeOK, RangeOK, ListsOK, CallOK, Resetting, Fresh
  <2>3. LockOK'
    BY <1>19 DEF DeviceWait, Goto, Return, Outside, pool, local, device, TypeOK, RangeOK, LockOK, Locked, Labels, CallOK, MarkOK, Resetting
  <2>4. MarkOK'
    <3>1. queue[s] # <<>> /\ queue' = [queue EXCEPT ![s] = Tail(@)] /\ pc' = pc
      BY <1>19 DEF DeviceWait
    <3>2. ASSUME NEW u \in Threads, NEW r \in Streams
          PROVE  Once(MarkTask(u), queue[r])'
      BY <3>1, QueueTail, OnceTail DEF MarkOK, TypeOK, RangeOK
    <3> QED  BY <3>1, <3>2, QueueTail DEF MarkOK, TypeOK, RangeOK
  <2>5. CallOK'
    BY <1>19 DEF DeviceWait, Goto, Return, Outside, pool, local, device, TypeOK, RangeOK, ListsOK, LockOK, Locked, Labels, CallOK, MarkOK, Resetting
  <2> QED  BY <2>1, <2>2, <2>3, <2>4, <2>5 DEF TypeInv, TypeOK
<1>20. ASSUME NEW s \in Streams, DeviceMark(s)
       PROVE  TypeInv'
  <2> PICK t \in Threads :
        /\ queue[s] # <<>> /\ Head(queue[s]) = MarkTask(t)
        /\ Goto(t, "drain")
        /\ queue' = [queue EXCEPT ![s] = Tail(@)]
        /\ UNCHANGED <<pool, mutex, local, flag, alive, stopped>>
    BY <1>20 DEF DeviceMark
  <2>1. RangeOK'
    BY QueueTail DEF Goto, pool, local, TypeOK, RangeOK, Labels
  <2>2. pc[t] = "sync" /\ pc' = [pc EXCEPT ![t] = "drain"] /\ PendingOn(MarkTask(t), s)
    <3>1. PendingOn(Head(queue[s]), s)
      BY QueueTail DEF TypeOK, RangeOK
    <3> QED  BY <3>1 DEF MarkOK, Goto
  <2>3. ListsOK' /\ LockOK'
    BY <2>2 DEF pool, TypeOK, RangeOK, ListsOK, LockOK, Locked
  <2>4. MarkOK'
    <3>1. ASSUME NEW u \in Threads, NEW r \in Streams
          PROVE  Once(MarkTask(u), queue[r])'
      BY QueueTail, OnceTail DEF MarkOK, TypeOK, RangeOK
    <3>2. ASSUME NEW r \in Streams, PendingOn(MarkTask(t), r)'  PROVE FALSE
      <4>1. PendingOn(MarkTask(t), r)
        BY <3>2, QueueTail DEF TypeOK, RangeOK
      <4>2. r = s
        BY <2>2, <4>1 DEF MarkOK
      <4>3. ~In(MarkTask(t), Tail(queue[s]))
        BY OnceTail DEF MarkOK, TypeOK, RangeOK
      <4>4. queue'[s] = Tail(queue[s])
        BY DEF TypeOK, RangeOK
      <4>5. In(MarkTask(t), queue'[s])
        <5>1. In(MarkTask(t), queue[r])'
          BY <3>2 DEF PendingOn
        <5> QED  BY <4>2, <5>1
      <4> QED  BY <4>3, <4>4, <4>5
    <3>3. \A u \in Threads, r \in Streams : PendingOn(MarkTask(u), r)' => PendingOn(MarkTask(u), r)
      BY QueueTail DEF TypeOK, RangeOK
    <3>4. \A u \in Threads, r \in Streams : PendingOn(MarkTask(u), r)' => (pc[u] = "sync")'
      BY <2>2, <3>2, <3>3 DEF MarkOK, TypeOK, RangeOK
    <3>5. \A u \in Threads, r, q \in Streams :
            PendingOn(MarkTask(u), r)' /\ PendingOn(MarkTask(u), q)' => r = q
      BY <3>3 DEF MarkOK
    <3> QED  BY <3>1, <3>4, <3>5 DEF MarkOK
  <2>5. CallOK'
    BY <2>2 DEF pool, local, TypeOK, RangeOK, CallOK, Resetting, Locked
  <2> QED  BY <2>1, <2>3, <2>4, <2>5 DEF TypeOK
<1>21. CASE UNCHANGED vars
  BY <1>21 DEF vars, pool, local, device, TypeOK, RangeOK, ListsOK, LockOK, MarkOK, CallOK, PendingOn
<1> QED
  BY <1>1, <1>2, <1>3, <1>4, <1>5, <1>6, <1>7, <1>8, <1>9, <1>10, <1>11, <1>12, <1>13,
     <1>14, <1>15, <1>16, <1>17, <1>18, <1>19, <1>20, <1>21
  DEF Next, ClientStep, InnerStep, DeviceStep

(* In every execution, whatever the clients do, the pool's lists stay      *)
(* disjoint and its mutex excludes: EventResourcePool::mutex_ is held by   *)
(* exactly the thread that is inside CreateEvent or RecordEvent.           *)
THEOREM TypeCorrect == Spec => []TypeOK
<1>1. TypeInv => TypeOK
  BY DEF TypeInv
<1> QED  BY TypeInit, TypeStep, <1>1, PTL DEF Spec

-----------------------------------------------------------------------------
(* Destroyed streams.  With one thread nobody resets an event between      *)
(* aclrtDestroyStream and PostDestroyStream, the one time at which the     *)
(* pool's maps name a stream that is gone.                                 *)
Gone(s) == s \notin alive /\ \A t \in Threads : ~(pc[t] = "postDestroy" /\ st[t] = s)

StreamInv ==
  /\ \A e \in Events : recStream[e] # None => ~Gone(recStream[e])
  /\ \A e \in Events : \A s \in waitStreams[e] : ~Gone(s)
  /\ \A t \in Threads : /\ todo[t] \subseteq alive
                        /\ pc[t] \notin {"out", "postDestroy"} /\ st[t] # None => st[t] \in alive
                        /\ pc[t] = "out" => st[t] = None
                        /\ pc[t] \notin {"drain", "sync"} => todo[t] = {}
  /\ stopped # "deadStream"

LEMMA StreamInit == Init => StreamInv
BY DEF Init, StreamInv, Gone

LEMMA StreamStep ==
  ASSUME \A t, u \in Threads : t = u, TypeInv, StreamInv, [Next]_vars
  PROVE  StreamInv'
<1> USE NoneAssumption
<1>1. ASSUME NEW t \in Threads, NEW s \in Streams, DrainStream(t, s)  PROVE StreamInv'
  <2>1. s \in alive
    BY <1>1 DEF DrainStream, StreamInv
  <2>2. QED BY <1>1, <2>1 DEF DrainStream, Goto, pool, StreamInv, Gone, TypeInv, TypeOK, RangeOK
<1>2. ASSUME NEW t \in Threads, DrainDone(t)  PROVE StreamInv'
  BY <1>2 DEF DrainDone, Goto, pool, local, device, StreamInv, Gone, TypeInv, TypeOK, RangeOK
<1>3. ASSUME NEW t \in Threads, ResetFinish(t)  PROVE StreamInv'
  <2>1. /\ pc[t] = "reset" /\ ev[t] \in Events /\ back[t] \in {"scan", "record"}
        /\ \A u \in Threads : pc[u] # "postDestroy"
    BY <1>3 DEF ResetFinish, TypeInv, TypeOK, RangeOK, CallOK, Resetting
  <2>2. recStream[ev[t]] \in alive \cup {None}
    BY <2>1 DEF StreamInv, Gone
  <2>3. /\ waitStreams' = [waitStreams EXCEPT ![ev[t]] = {}]
        /\ pc' = [pc EXCEPT ![t] = back[t]]
        /\ UNCHANGED <<recStream, st, todo, alive, stopped>>
    BY <1>3, <2>2 DEF ResetFinish, Goto
  <2>4. QED BY <2>1, <2>3 DEF StreamInv, Gone, TypeInv, TypeOK, RangeOK
<1>4. ASSUME NEW t \in Threads, CreateEnter(t)  PROVE StreamInv'
  BY <1>4 DEF CreateEnter, Outside, Goto, pool, device, StreamInv, Gone, TypeInv, TypeOK, RangeOK
<1>5. ASSUME NEW t \in Threads, NEW e \in Events, ScanUnrecorded(t, e) \/ ScanPending(t, e)  PROVE StreamInv'
  BY <1>5 DEF ScanUnrecorded, ScanPending, pool, device, StreamInv, Gone
<1>6. ASSUME NEW t \in Threads, NEW e \in Events, ScanComplete(t, e)  PROVE StreamInv'
  <2>1. \A u \in Threads : pc[u] = "scan"
    BY <1>6 DEF ScanComplete
  <2>2. waitStreams[e] \subseteq alive
    BY <2>1 DEF StreamInv, Gone
  <2>3. QED BY <1>6, <2>1, <2>2
        DEF ScanComplete, ResetCall, Goto, pool, device, StreamInv, Gone, TypeInv, TypeOK, RangeOK
<1>7. ASSUME NEW t \in Threads, NEW e \in Events, CreateTake(t, e)  PROVE StreamInv'
  <2>1. /\ pc[t] = "scan" /\ pc' = [pc EXCEPT ![t] = "out"] /\ st' = [st EXCEPT ![t] = None]
        /\ \E f \in Events : /\ recStream' = [recStream EXCEPT ![f] = None]
                             /\ waitStreams' = [waitStreams EXCEPT ![f] = {}]
        /\ UNCHANGED <<todo, alive, stopped>>
    BY <1>7 DEF CreateTake, Return, Goto
  <2>2. todo[t] = {}
    BY <2>1 DEF StreamInv
  <2>3. QED BY <2>1, <2>2 DEF StreamInv, Gone, TypeInv, TypeOK, RangeOK
<1>8. ASSUME NEW t \in Threads, NEW e \in Events, DestroyEvent(t, e)  PROVE StreamInv'
  BY <1>8 DEF DestroyEvent, local, device, StreamInv, Gone
<1>9. ASSUME NEW t \in Threads, NEW e \in Events, NEW s \in Streams, RecordEnter(t, e, s)  PROVE StreamInv'
  <2>1. s \in alive /\ pc[t] = "out" /\ \A u \in Threads : pc[u] = "out"
    BY <1>9 DEF RecordEnter, Usable, Outside
  <2>2. waitStreams[e] \subseteq alive
    BY <2>1 DEF StreamInv, Gone
  <2>3. /\ st' = [st EXCEPT ![t] = s] /\ UNCHANGED <<recStream, waitStreams, alive, stopped>>
        /\ \/ /\ todo' = [todo EXCEPT ![t] = {}] \/ todo' = todo
              /\ pc' = [pc EXCEPT ![t] = "reset"] \/ pc' = [pc EXCEPT ![t] = "record"]
           \/ todo' = [todo EXCEPT ![t] = waitStreams[e]] /\ pc' = [pc EXCEPT ![t] = "drain"]
    BY <1>9 DEF RecordEnter, ResetCall, Goto, pool, device
  <2>4. QED BY <2>1, <2>2, <2>3 DEF StreamInv, Gone, TypeInv, TypeOK, RangeOK
<1>10. ASSUME NEW t \in Threads, RecordDo(t)  PROVE StreamInv'
  <2>1. pc[t] = "record" /\ st[t] \in alive /\ ev[t] \in Events
    BY <1>10 DEF RecordDo, StreamInv, TypeInv, CallOK, TypeOK, RangeOK
  <2>2. /\ recStream' = [recStream EXCEPT ![ev[t]] = st[t]]
        /\ pc' = [pc EXCEPT ![t] = "out"] /\ st' = [st EXCEPT ![t] = None]
        /\ UNCHANGED <<waitStreams, todo, alive, stopped>>
    BY <1>10 DEF RecordDo, Return, Goto
  <2>3. QED BY <2>1, <2>2 DEF StreamInv, Gone, TypeInv, TypeOK, RangeOK
<1>11. ASSUME NEW t \in Threads, NEW e \in Events, NEW s \in Streams, WaitCheck(t, e, s)  PROVE StreamInv'
  BY <1>11 DEF WaitCheck, Usable, Outside, Stop, Goto, pool, local, device, StreamInv, Gone, TypeInv, TypeOK, RangeOK
<1>12. ASSUME NEW t \in Threads, WaitEnqueue(t)  PROVE StreamInv'
  BY <1>12 DEF WaitEnqueue, Goto, pool, local, StreamInv, Gone, TypeInv, TypeOK, RangeOK
<1>13. ASSUME NEW t \in Threads, WaitPush(t)  PROVE StreamInv'
  <2>1. pc[t] = "waitPush" /\ st[t] \in alive /\ ev[t] \in Events
    BY <1>13 DEF WaitPush, StreamInv, TypeInv, CallOK, TypeOK, RangeOK
  <2>2. /\ waitStreams' = [waitStreams EXCEPT ![ev[t]] = @ \cup {st[t]}]
        /\ pc' = [pc EXCEPT ![t] = "out"] /\ st' = [st EXCEPT ![t] = None]
        /\ UNCHANGED <<recStream, todo, alive, stopped>>
    BY <1>13 DEF WaitPush, Return, Goto, device
  <2>3. QED BY <2>1, <2>2 DEF StreamInv, Gone, TypeInv, TypeOK, RangeOK
<1>14. ASSUME NEW t \in Threads, NEW s \in Streams, DestroyStream(t, s)  PROVE StreamInv'
  BY <1>14 DEF DestroyStream, Outside, Goto, pool, StreamInv, Gone, TypeInv, TypeOK, RangeOK
<1>15. ASSUME NEW t \in Threads, PostDestroyStream(t)  PROVE StreamInv'
  BY <1>15 DEF PostDestroyStream, Return, Goto, device, StreamInv, Gone, TypeInv, TypeOK, RangeOK
<1>16. ASSUME NEW t \in Threads, Release(t)  PROVE StreamInv'
  BY <1>16 DEF Release, local, device, StreamInv, Gone
<1>17. ASSUME NEW s \in Streams, DeviceStep(s)  PROVE StreamInv'
  <2>1. CASE DeviceRecord(s) \/ DeviceWait(s)
    BY <2>1 DEF DeviceRecord, DeviceWait, pool, local, StreamInv, Gone
  <2>2. CASE DeviceMark(s)
    <3>1. PICK t \in Threads : /\ queue[s] # <<>> /\ Head(queue[s]) = MarkTask(t)
                               /\ pc' = [pc EXCEPT ![t] = "drain"]
                               /\ queue' = [queue EXCEPT ![s] = Tail(@)]
                               /\ UNCHANGED <<pool, mutex, local, flag, alive, stopped>>
      BY <2>2 DEF DeviceMark, Goto
    <3>2. pc[t] = "sync"
      <4>1. PendingOn(Head(queue[s]), s)
        BY <3>1, QueueTail DEF TypeInv, TypeOK, RangeOK
      <4>2. QED BY <3>1, <4>1 DEF TypeInv, MarkOK
    <3>3. QED BY <3>1, <3>2 DEF pool, local, StreamInv, Gone, TypeInv, TypeOK, RangeOK
  <2>3. QED BY <1>17, <2>1, <2>2 DEF DeviceStep
<1>18. CASE UNCHANGED vars
  BY <1>18 DEF vars, pool, local, device, StreamInv, Gone
<1> QED
  BY <1>1, <1>2, <1>3, <1>4, <1>5, <1>6, <1>7, <1>8, <1>9, <1>10, <1>11, <1>12, <1>13,
     <1>14, <1>15, <1>16, <1>17, <1>18
  DEF Next, ClientStep, InnerStep

(* With one thread, reset_event never touches a destroyed stream, although *)
(* the stream is destroyed before the pool forgets it, whatever events were*)
(* recorded on it or wait on it.                                           *)
THEOREM NoDeadStreamCorrect ==
  ASSUME \A t, u \in Threads : t = u
  PROVE  Spec => []NoDeadStream
<1>1. StreamInv => NoDeadStream
  BY DEF StreamInv, NoDeadStream
<1> QED  BY TypeInit, TypeStep, StreamInit, StreamStep, <1>1, PTL DEF Spec

-----------------------------------------------------------------------------
(* Recycling.  A client under Discipline destroys no stream, records an    *)
(* event again only once its record has completed, and makes one call on   *)
(* an event at a time.                                                     *)
Discipline == Destroyable = {} /\ ~RerecordPending /\ ~SharedCalls

Held == busy \cup wait

(* Two threads are never in calls on one event.                            *)
DistinctOK ==
  /\ \A t \in Threads : pc[t] # "postDestroy"
  /\ \A t \in Threads : pc[t] \in {"out", "scan"} => ev[t] = None
  /\ \A t, u \in Threads : ev[t] # None /\ ev[t] = ev[u] => t = u

(* Only recorded events of a client have tasks in the streams.             *)
PendingOK ==
  \A e \in Events, s \in Streams :
    PendingOn(RecordTask(e), s) \/ PendingOn(WaitTask(e), s) => e \in Held /\ recorded[e]

(* A raised flag means the last record has completed.                      *)
FlagOK ==
  /\ \A e \in Events : e \in idle \/ (e \in Held /\ ~recorded[e]) => ~flag[e]
  /\ \A e \in Held, s \in Streams : recorded[e] /\ flag[e] => ~PendingOn(RecordTask(e), s)
  /\ \A e \in Held : recorded[e] => recStream[e] # None

(* The pool knows every stream that still waits for an event.              *)
TrackOK ==
  \A e \in Events, s \in Streams : PendingOn(WaitTask(e), s) =>
    \/ s \in waitStreams[e]
    \/ \E t \in Threads : pc[t] = "waitPush" /\ ev[t] = e /\ st[t] = s

WaiterOK ==
  \A t \in Threads : pc[t] \in {"waitEnqueue", "waitPush"} => recorded[ev[t]]

(* While reset_event runs nobody adds a wait for its event, and the waits  *)
(* that are left are on streams still to be synchronized.                  *)
ResetOK ==
  \A t \in Threads :
    /\ pc[t] \in Resetting => recorded[ev[t]] /\ flag[ev[t]]
    /\ pc[t] = "drain" => \A s \in Streams \ todo[t] : ~PendingOn(WaitTask(ev[t]), s)
    /\ pc[t] = "sync" =>
         \A s \in Streams \ todo[t] : Before(WaitTask(ev[t]), MarkTask(t), queue[s])
    /\ pc[t] = "reset" => \A s \in Streams : ~PendingOn(WaitTask(ev[t]), s)
    /\ pc[t] = "record" =>
         /\ ~flag[ev[t]]
         /\ \A s \in Streams : ~PendingOn(RecordTask(ev[t]), s)

(* A recorded event has completed, or its record is still going to run.    *)
SignalOK ==
  \A e \in Held : recorded[e] =>
    \/ flag[e]
    \/ \E s \in Streams : PendingOn(RecordTask(e), s)
    \/ \E t \in Threads : pc[t] = "record" /\ ev[t] = e

(* At most one record of an event is pending.                              *)
OneRecordOK ==
  /\ \A e \in Events, s \in Streams : Once(RecordTask(e), queue[s])
  /\ \A e \in Events, r, s \in Streams :
       PendingOn(RecordTask(e), r) /\ PendingOn(RecordTask(e), s) => r = s

RecycleInv ==
  /\ DistinctOK /\ PendingOK /\ FlagOK /\ TrackOK /\ WaiterOK /\ ResetOK /\ SignalOK
  /\ OneRecordOK

-----------------------------------------------------------------------------
(* The invariant holds initially.                                          *)
LEMMA RecycleInit == Init => RecycleInv
  BY NoneAssumption
  DEF Init, RecycleInv, DistinctOK, PendingOK, FlagOK, TrackOK, WaiterOK, ResetOK, SignalOK,
      OneRecordOK, Once, PendingOn, In, Held, Resetting

(* A call that ends the process changes nothing else.                      *)
LEMMA StopInv ==
  ASSUME NEW why, Stop(why), RecycleInv
  PROVE  RecycleInv'
  BY DEF Stop, pool, local, device, RecycleInv, DistinctOK, PendingOK, FlagOK, TrackOK,
         WaiterOK, ResetOK, SignalOK, OneRecordOK, PendingOn, Held

(* Enqueuing a record that is not pending anywhere, or any other task,     *)
(* leaves at most one record of each event.                                *)
LEMMA OneAppend ==
  ASSUME TypeOK, OneRecordOK, NEW s \in Streams, NEW x \in Task, Enqueue(s, x),
         \A e \in Events, r \in Streams : x = RecordTask(e) => ~PendingOn(RecordTask(e), r)
  PROVE  OneRecordOK'
<1>1. /\ \A r \in Streams : queue'[r] = IF r = s THEN Append(queue[s], x) ELSE queue[r]
      /\ \A y : \A r \in Streams : PendingOn(y, r)' <=> PendingOn(y, r) \/ (r = s /\ y = x)
      /\ queue[s] \in Seq(Task)
  BY QueueAppend DEF TypeOK, RangeOK
<1>2. ASSUME NEW e \in Events, NEW r \in Streams
      PROVE  Once(RecordTask(e), queue'[r])
  <2>1. Once(RecordTask(e), queue[r])
    BY DEF OneRecordOK
  <2>2. x = RecordTask(e) => ~In(RecordTask(e), queue[s])
    BY DEF PendingOn
  <2>3. r = s => Once(RecordTask(e), Append(queue[s], x))
    BY <1>1, <2>1, <2>2, OnceAppend
  <2> QED  BY <1>1, <2>1, <2>3
<1>3. ASSUME NEW e \in Events, NEW p \in Streams, NEW r \in Streams,
             PendingOn(RecordTask(e), p)', PendingOn(RecordTask(e), r)'
      PROVE  p = r
  BY <1>1, <1>3 DEF OneRecordOK
<1> QED  BY <1>2, <1>3 DEF OneRecordOK

(* So does running a task.                                                 *)
LEMMA OneTail ==
  ASSUME TypeOK, OneRecordOK, NEW s \in Streams, queue[s] # <<>>,
         queue' = [queue EXCEPT ![s] = Tail(@)]
  PROVE  /\ OneRecordOK'
         /\ \A e \in Events : Head(queue[s]) = RecordTask(e) =>
              \A r \in Streams : ~PendingOn(RecordTask(e), r)'
<1>1. /\ \A r \in Streams : queue'[r] = IF r = s THEN Tail(queue[s]) ELSE queue[r]
      /\ \A y : \A r \in Streams : PendingOn(y, r)' => PendingOn(y, r)
      /\ PendingOn(Head(queue[s]), s)
      /\ queue[s] \in Seq(Task)
  BY QueueTail DEF TypeOK, RangeOK
<1>2. ASSUME NEW e \in Events, NEW r \in Streams
      PROVE  Once(RecordTask(e), queue'[r])
  BY <1>1, OnceTail DEF OneRecordOK
<1>3. OneRecordOK'
  BY <1>1, <1>2 DEF OneRecordOK
<1>4. ASSUME NEW e \in Events, Head(queue[s]) = RecordTask(e), NEW r \in Streams
      PROVE  ~PendingOn(RecordTask(e), r)'
  <2>1. CASE r = s
    BY <1>1, <1>4, <2>1, OnceTail DEF OneRecordOK, PendingOn
  <2>2. CASE r # s
    BY <1>1, <1>4, <2>2 DEF OneRecordOK
  <2> QED  BY <2>1, <2>2
<1> QED  BY <1>3, <1>4

(* While a thread resets an event, the tasks that run leave the waits it   *)
(* has ordered before its marker there.                                    *)
LEMMA BeforeStep ==
  ASSUME TypeOK, NEW s \in Streams, queue[s] # <<>>, queue' = [queue EXCEPT ![s] = Tail(@)],
         NEW r \in Streams, NEW e \in Events, NEW t \in Threads,
         Before(WaitTask(e), MarkTask(t), queue[r])
  PROVE  Before(WaitTask(e), MarkTask(t), queue'[r])
<1>1. queue[r] \in Seq(Task) /\ WaitTask(e) # MarkTask(t)
  BY TaskKinds DEF TypeOK, RangeOK
<1>2. queue'[r] = IF r = s THEN Tail(queue[r]) ELSE queue[r]
  BY DEF TypeOK, RangeOK
<1> QED  BY <1>1, <1>2, BeforeTail

-----------------------------------------------------------------------------
(* Every step preserves the recycling invariant.                           *)
LEMMA RecycleStep ==
  ASSUME Discipline, TypeInv, TypeInv', RecycleInv, [Next]_vars
  PROVE  RecycleInv'
<1> USE NoneAssumption DEF Discipline
<1>1. ASSUME NEW t \in Threads, NEW s \in Streams, DrainStream(t, s)
      PROVE  RecycleInv'
  <2>1. CASE s \notin alive
    BY <1>1, <2>1, StopInv DEF DrainStream
  <2>2. CASE s \in alive
    <3>1. /\ pc[t] = "drain" /\ s \in todo[t]
          /\ pc' = [pc EXCEPT ![t] = "sync"] /\ todo' = [todo EXCEPT ![t] = @ \ {s}]
          /\ Enqueue(s, MarkTask(t))
          /\ UNCHANGED <<idle, busy, wait, recorded, recStream, waitStreams, ev, st, flag>>
      BY <1>1, <2>2 DEF DrainStream, Goto, pool
    <3>2. \A u \in Threads : pc'[u] = IF u = t THEN "sync" ELSE pc[u]
      BY <3>1 DEF TypeInv, TypeOK, RangeOK
    <3>3. /\ \A r \in Streams : queue'[r] = IF r = s THEN Append(queue[s], MarkTask(t)) ELSE queue[r]
          /\ \A y : \A r \in Streams : PendingOn(y, r)' <=> PendingOn(y, r) \/ (r = s /\ y = MarkTask(t))
      BY <3>1, QueueAppend, TaskKinds DEF TypeInv, TypeOK, RangeOK
    <3>4. \A e \in Events, r \in Streams :
            /\ PendingOn(RecordTask(e), r)' <=> PendingOn(RecordTask(e), r)
            /\ PendingOn(WaitTask(e), r)' <=> PendingOn(WaitTask(e), r)
      BY <3>3, TaskKinds
    <3>5. DistinctOK'
      BY <3>1, <3>2 DEF RecycleInv, DistinctOK
    <3>6. PendingOK'
      BY <3>1, <3>4 DEF RecycleInv, PendingOK, Held
    <3>7. FlagOK'
      BY <3>1, <3>4 DEF RecycleInv, FlagOK, Held, TypeInv, TypeOK, RangeOK
    <3>8. TrackOK'
      BY <3>1, <3>2, <3>4 DEF RecycleInv, TrackOK
    <3>9. WaiterOK'
      BY <3>1, <3>2 DEF RecycleInv, WaiterOK
    <3>10. ResetOK'
      <4>1. ev[t] \in Events /\ todo[t] \subseteq Streams
        BY <3>1 DEF TypeInv, TypeOK, RangeOK, CallOK, Resetting
      <4>2. \A u \in Threads : u # t => pc[u] \notin Locked
        BY <3>1 DEF TypeInv, TypeOK, LockOK, Locked
      <4>3. ASSUME NEW r \in Streams, r \notin todo'[t]
            PROVE  Before(WaitTask(ev[t]), MarkTask(t), queue'[r])
        <5>1. CASE r = s
          <6>1. /\ queue[s] \in Seq(Task) /\ MarkTask(t) \in Task
                /\ WaitTask(ev[t]) # MarkTask(t)
            BY <4>1, TaskKinds DEF TypeInv, TypeOK, RangeOK
          <6>2. Before(WaitTask(ev[t]), MarkTask(t), Append(queue[s], MarkTask(t)))
            BY <6>1, BeforeMark
          <6> QED  BY <3>3, <5>1, <6>2
        <5>2. CASE r # s
          <6>1. ~PendingOn(WaitTask(ev[t]), r)
            BY <3>1, <4>3, <5>2 DEF RecycleInv, ResetOK, TypeInv, TypeOK, RangeOK
          <6> QED  BY <3>3, <5>2, <6>1 DEF PendingOn, In, Before
        <5> QED  BY <5>1, <5>2
      <4> QED  BY <3>1, <3>2, <4>2, <4>3 DEF RecycleInv, ResetOK, Resetting, Locked
    <3>11. SignalOK'
      BY <3>1, <3>2, <3>4 DEF RecycleInv, SignalOK, Held, TypeInv, TypeOK, RangeOK
    <3>12. OneRecordOK'
      BY <3>1, OneAppend, TaskKinds DEF RecycleInv, TypeInv
    <3> QED  BY <3>5, <3>6, <3>7, <3>8, <3>9, <3>10, <3>11, <3>12 DEF RecycleInv
  <2> QED  BY <2>1, <2>2
<1>2. ASSUME NEW t \in Threads, DrainDone(t)
      PROVE  RecycleInv'
  <2>1. DistinctOK'
    BY <1>2 DEF DrainDone, Goto, Return, Outside, pool, local, device, TypeInv, TypeOK, RangeOK, RecycleInv, Held, DistinctOK, Labels, LockOK, Locked, CallOK, Resetting, ListsOK, InCall, Usable
  <2>2. PendingOK'
    BY <1>2 DEF DrainDone, Goto, Return, Outside, pool, local, device, TypeInv, TypeOK, RangeOK, RecycleInv, Held, PendingOK, PendingOn, CallOK, Resetting, ListsOK, Fresh, WaiterOK
  <2>3. FlagOK'
    BY <1>2 DEF DrainDone, Goto, Return, Outside, pool, local, device, TypeInv, TypeOK, RangeOK, RecycleInv, Held, FlagOK, PendingOK, PendingOn, CallOK, Resetting, ListsOK, Fresh, ResetOK, WaiterOK
  <2>4. TrackOK'
    BY <1>2 DEF DrainDone, Goto, Return, Outside, pool, local, device, TypeInv, TypeOK, RangeOK, RecycleInv, Held, TrackOK, PendingOn, PendingOK, CallOK, Resetting, ListsOK, Fresh, ResetOK
  <2>5. WaiterOK'
    BY <1>2 DEF DrainDone, Goto, Return, Outside, pool, local, device, TypeInv, TypeOK, RangeOK, RecycleInv, Held, WaiterOK, CallOK, Resetting, ListsOK, Fresh, Usable, LockOK, Locked
  <2>6. ResetOK'
    BY <1>2 DEF DrainDone, Goto, Return, Outside, pool, local, device, TypeInv, TypeOK, RangeOK, RecycleInv, Held, ResetOK, PendingOn, PendingOK, TrackOK, NeedsDrain, Pending, DistinctOK, CallOK, Resetting, ListsOK, Fresh, LockOK, Locked, FlagOK, QueryEvent
  <2>7. SignalOK'
    BY <1>2 DEF DrainDone, Goto, Return, Outside, pool, local, device, TypeInv, TypeOK, RangeOK, RecycleInv, Held, SignalOK, PendingOn, CallOK, Resetting, ListsOK, Fresh, ResetOK, LockOK, Locked
  <2>8. OneRecordOK'
    BY <1>2 DEF DrainDone, Goto, Return, Outside, pool, local, device, TypeInv, TypeOK, RangeOK, RecycleInv, Held, OneRecordOK, PendingOn
  <2> QED  BY <2>1, <2>2, <2>3, <2>4, <2>5, <2>6, <2>7, <2>8 DEF RecycleInv
<1>3. ASSUME NEW t \in Threads, ResetFinish(t)
      PROVE  RecycleInv'
  <2>1. CASE recStream[ev[t]] \notin alive \cup {None}
    BY <1>3, <2>1, StopInv DEF ResetFinish
  <2>2. CASE recStream[ev[t]] \in alive \cup {None}
    <3> DEFINE e == ev[t]
    <3>1. /\ pc[t] = "reset" /\ e \in Held /\ e \in Events /\ recorded[e]
          /\ recStream[e] # None
          /\ \A r \in Streams : ~PendingOn(WaitTask(e), r) /\ ~PendingOn(RecordTask(e), r)
      BY <1>3 DEF ResetFinish, RecycleInv, ResetOK, FlagOK, Held, Resetting, TypeInv, TypeOK, RangeOK, CallOK
    <3>2. /\ waitStreams' = [waitStreams EXCEPT ![e] = {}]
          /\ flag' = [flag EXCEPT ![e] = FALSE]
          /\ pc' = [pc EXCEPT ![t] = back[t]]
          /\ UNCHANGED <<busy, recorded, recStream, st, queue>>
      BY <1>3, <2>2, <3>1 DEF ResetFinish, LowerFlag, Goto, TypeInv, TypeOK, RangeOK
    <3>3. \/ /\ back[t] = "scan" /\ e \in wait
             /\ idle' = idle \cup {e} /\ wait' = wait \ {e}
             /\ ev' = [ev EXCEPT ![t] = None]
          \/ back[t] = "record" /\ e \in busy /\ UNCHANGED <<idle, wait, ev>>
      BY <1>3, <2>2, <3>1 DEF ResetFinish, TypeInv, CallOK, Resetting
    <3>4. \A u \in Threads : /\ pc'[u] = IF u = t THEN back[t] ELSE pc[u]
                             /\ u # t => pc[u] \notin Locked /\ ev'[u] = ev[u]
      BY <3>1, <3>2, <3>3 DEF TypeInv, TypeOK, RangeOK, LockOK, Locked
    <3>5. \A y : \A r \in Streams : PendingOn(y, r)' <=> PendingOn(y, r)
      BY <3>2 DEF PendingOn
    <3>6. /\ DistinctOK /\ PendingOK /\ FlagOK /\ TrackOK /\ WaiterOK /\ ResetOK /\ SignalOK
          /\ pc \in [Threads -> Labels] /\ ev \in [Threads -> Events \cup {None}]
          /\ flag \in [Events -> BOOLEAN] /\ waitStreams \in [Events -> SUBSET Streams]
          /\ idle \subseteq Events /\ busy \subseteq Events /\ wait \subseteq Events
          /\ ListsOK
      BY DEF RecycleInv, TypeInv, TypeOK, RangeOK
    <3>7. DistinctOK'
      <4>1. ev'[t] = IF back[t] = "scan" THEN None ELSE e
        BY <3>3, <3>6
      <4> QED  BY <3>3, <3>4, <4>1, <3>6 DEF DistinctOK
    <3>8. PendingOK'
      <4>1. \A f \in Events : f \in Held' <=> f \in Held /\ (f = e => back[t] = "record")
        BY <3>1, <3>2, <3>3, <3>6 DEF Held, ListsOK
      <4> QED  BY <3>1, <3>2, <3>5, <4>1, <3>6 DEF PendingOK
    <3>9. FlagOK'
      BY <3>1, <3>2, <3>3, <3>5, <3>6 DEF FlagOK, Held
    <3>10. TrackOK'
      <4> SUFFICES ASSUME NEW f \in Events, NEW s \in Streams, PendingOn(WaitTask(f), s)
                   PROVE  \/ s \in waitStreams'[f]
                          \/ \E u \in Threads : pc'[u] = "waitPush" /\ ev'[u] = f /\ st'[u] = s
        BY <3>5 DEF TrackOK
      <4>1. f # e /\ waitStreams'[f] = waitStreams[f]
        BY <3>1, <3>2, <3>6
      <4>2. ASSUME NEW u \in Threads, pc[u] = "waitPush", ev[u] = f, st[u] = s
            PROVE  pc'[u] = "waitPush" /\ ev'[u] = f /\ st'[u] = s
        BY <3>1, <3>2, <3>4, <4>2
      <4> QED  BY <4>1, <4>2, <3>6 DEF TrackOK
    <3>11. WaiterOK'
      BY <3>2, <3>3, <3>4, <3>6 DEF WaiterOK
    <3>12. ResetOK'
      BY <3>1, <3>2, <3>3, <3>4, <3>5, <3>6 DEF ResetOK, Resetting, Locked
    <3>13. SignalOK'
      <4> SUFFICES ASSUME NEW f \in Held', recorded[f]
                   PROVE  \/ flag'[f]
                          \/ \E s \in Streams : PendingOn(RecordTask(f), s)'
                          \/ \E u \in Threads : pc'[u] = "record" /\ ev'[u] = f
        BY <3>2 DEF SignalOK
      <4>1. CASE f = e
        <5>1. back[t] = "record" /\ ev'[t] = e
          BY <3>2, <3>3, <3>6, <4>1 DEF Held, ListsOK
        <5>2. pc'[t] = "record"
          BY <3>4, <5>1
        <5> QED  BY <4>1, <5>1, <5>2
      <4>2. CASE f # e
        <5>1. f \in Held /\ f \in Events /\ flag'[f] = flag[f]
          BY <3>2, <3>3, <3>6, <4>2 DEF Held
        <5>2. ~\E u \in Threads : pc[u] = "record"
          BY <3>1, <3>4 DEF Locked
        <5> QED  BY <5>1, <5>2, <3>5, <3>6 DEF SignalOK
      <4> QED  BY <4>1, <4>2
    <3>14. OneRecordOK'
      BY <3>2, <3>5 DEF RecycleInv, OneRecordOK
    <3> QED  BY <3>7, <3>8, <3>9, <3>10, <3>11, <3>12, <3>13, <3>14 DEF RecycleInv
  <2> QED  BY <2>1, <2>2
<1>4. ASSUME NEW t \in Threads, CreateEnter(t)
      PROVE  RecycleInv'
  <2>1. DistinctOK'
    BY <1>4 DEF CreateEnter, Goto, Return, Outside, pool, local, device, TypeInv, TypeOK, RangeOK, RecycleInv, Held, DistinctOK, Labels, LockOK, Locked, CallOK, Resetting, ListsOK, InCall, Usable
  <2>2. PendingOK'
    BY <1>4 DEF CreateEnter, Goto, Return, Outside, pool, local, device, TypeInv, TypeOK, RangeOK, RecycleInv, Held, PendingOK, PendingOn, CallOK, Resetting, ListsOK, Fresh, WaiterOK
  <2>3. FlagOK'
    BY <1>4 DEF CreateEnter, Goto, Return, Outside, pool, local, device, TypeInv, TypeOK, RangeOK, RecycleInv, Held, FlagOK, PendingOK, PendingOn, CallOK, Resetting, ListsOK, Fresh, ResetOK, WaiterOK
  <2>4. TrackOK'
    BY <1>4 DEF CreateEnter, Goto, Return, Outside, pool, local, device, TypeInv, TypeOK, RangeOK, RecycleInv, Held, TrackOK, PendingOn, PendingOK, CallOK, Resetting, ListsOK, Fresh, ResetOK
  <2>5. WaiterOK'
    BY <1>4 DEF CreateEnter, Goto, Return, Outside, pool, local, device, TypeInv, TypeOK, RangeOK, RecycleInv, Held, WaiterOK, CallOK, Resetting, ListsOK, Fresh, Usable, LockOK, Locked
  <2>6. ResetOK'
    BY <1>4 DEF CreateEnter, Goto, Return, Outside, pool, local, device, TypeInv, TypeOK, RangeOK, RecycleInv, Held, ResetOK, PendingOn, PendingOK, TrackOK, NeedsDrain, Pending, DistinctOK, CallOK, Resetting, ListsOK, Fresh, LockOK, Locked, FlagOK, QueryEvent
  <2>7. SignalOK'
    BY <1>4 DEF CreateEnter, Goto, Return, Outside, pool, local, device, TypeInv, TypeOK, RangeOK, RecycleInv, Held, SignalOK, PendingOn, CallOK, Resetting, ListsOK, Fresh, ResetOK, LockOK, Locked
  <2>8. OneRecordOK'
    BY <1>4 DEF CreateEnter, Goto, Return, Outside, pool, local, device, TypeInv, TypeOK, RangeOK, RecycleInv, Held, OneRecordOK, PendingOn
  <2> QED  BY <2>1, <2>2, <2>3, <2>4, <2>5, <2>6, <2>7, <2>8 DEF RecycleInv
<1>5. ASSUME NEW t \in Threads, NEW e \in Events, ScanUnrecorded(t, e)
      PROVE  RecycleInv'
  <2>1. DistinctOK'
    BY <1>5 DEF ScanUnrecorded, Goto, Return, Outside, pool, local, device, TypeInv, TypeOK, RangeOK, RecycleInv, Held, DistinctOK, Labels, LockOK, Locked, CallOK, Resetting, ListsOK, InCall, Usable
  <2>2. PendingOK'
    BY <1>5 DEF ScanUnrecorded, Goto, Return, Outside, pool, local, device, TypeInv, TypeOK, RangeOK, RecycleInv, Held, PendingOK, PendingOn, CallOK, Resetting, ListsOK, Fresh, WaiterOK
  <2>3. FlagOK'
    BY <1>5 DEF ScanUnrecorded, Goto, Return, Outside, pool, local, device, TypeInv, TypeOK, RangeOK, RecycleInv, Held, FlagOK, PendingOK, PendingOn, CallOK, Resetting, ListsOK, Fresh, ResetOK, WaiterOK
  <2>4. TrackOK'
    BY <1>5 DEF ScanUnrecorded, Goto, Return, Outside, pool, local, device, TypeInv, TypeOK, RangeOK, RecycleInv, Held, TrackOK, PendingOn, PendingOK, CallOK, Resetting, ListsOK, Fresh, ResetOK
  <2>5. WaiterOK'
    BY <1>5 DEF ScanUnrecorded, Goto, Return, Outside, pool, local, device, TypeInv, TypeOK, RangeOK, RecycleInv, Held, WaiterOK, CallOK, Resetting, ListsOK, Fresh, Usable, LockOK, Locked
  <2>6. ResetOK'
    BY <1>5 DEF ScanUnrecorded, Goto, Return, Outside, pool, local, device, TypeInv, TypeOK, RangeOK, RecycleInv, Held, ResetOK, PendingOn, PendingOK, TrackOK, NeedsDrain, Pending, DistinctOK, CallOK, Resetting, ListsOK, Fresh, LockOK, Locked, FlagOK, QueryEvent
  <2>7. SignalOK'
    BY <1>5 DEF ScanUnrecorded, Goto, Return, Outside, pool, local, device, TypeInv, TypeOK, RangeOK, RecycleInv, Held, SignalOK, PendingOn, CallOK, Resetting, ListsOK, Fresh, ResetOK, LockOK, Locked
  <2>8. OneRecordOK'
    BY <1>5 DEF ScanUnrecorded, Goto, Return, Outside, pool, local, device, TypeInv, TypeOK, RangeOK, RecycleInv, Held, OneRecordOK, PendingOn
  <2> QED  BY <2>1, <2>2, <2>3, <2>4, <2>5, <2>6, <2>7, <2>8 DEF RecycleInv
<1>6. ASSUME NEW t \in Threads, NEW e \in Events, ScanPending(t, e)
      PROVE  RecycleInv'
  <2>1. DistinctOK'
    BY <1>6 DEF ScanPending, Goto, Return, Outside, pool, local, device, TypeInv, TypeOK, RangeOK, RecycleInv, Held, DistinctOK, Labels, LockOK, Locked, CallOK, Resetting, ListsOK, InCall, Usable
  <2>2. PendingOK'
    BY <1>6 DEF ScanPending, Goto, Return, Outside, pool, local, device, TypeInv, TypeOK, RangeOK, RecycleInv, Held, PendingOK, PendingOn, CallOK, Resetting, ListsOK, Fresh, WaiterOK
  <2>3. FlagOK'
    BY <1>6 DEF ScanPending, Goto, Return, Outside, pool, local, device, TypeInv, TypeOK, RangeOK, RecycleInv, Held, FlagOK, PendingOK, PendingOn, CallOK, Resetting, ListsOK, Fresh, ResetOK, WaiterOK
  <2>4. TrackOK'
    BY <1>6 DEF ScanPending, Goto, Return, Outside, pool, local, device, TypeInv, TypeOK, RangeOK, RecycleInv, Held, TrackOK, PendingOn, PendingOK, CallOK, Resetting, ListsOK, Fresh, ResetOK
  <2>5. WaiterOK'
    BY <1>6 DEF ScanPending, Goto, Return, Outside, pool, local, device, TypeInv, TypeOK, RangeOK, RecycleInv, Held, WaiterOK, CallOK, Resetting, ListsOK, Fresh, Usable, LockOK, Locked
  <2>6. ResetOK'
    BY <1>6 DEF ScanPending, Goto, Return, Outside, pool, local, device, TypeInv, TypeOK, RangeOK, RecycleInv, Held, ResetOK, PendingOn, PendingOK, TrackOK, NeedsDrain, Pending, DistinctOK, CallOK, Resetting, ListsOK, Fresh, LockOK, Locked, FlagOK, QueryEvent
  <2>7. SignalOK'
    BY <1>6 DEF ScanPending, Goto, Return, Outside, pool, local, device, TypeInv, TypeOK, RangeOK, RecycleInv, Held, SignalOK, PendingOn, CallOK, Resetting, ListsOK, Fresh, ResetOK, LockOK, Locked
  <2>8. OneRecordOK'
    BY <1>6 DEF ScanPending, Goto, Return, Outside, pool, local, device, TypeInv, TypeOK, RangeOK, RecycleInv, Held, OneRecordOK, PendingOn
  <2> QED  BY <2>1, <2>2, <2>3, <2>4, <2>5, <2>6, <2>7, <2>8 DEF RecycleInv
<1>7. ASSUME NEW t \in Threads, NEW e \in Events, ScanComplete(t, e)
      PROVE  RecycleInv'
  <2>1. DistinctOK'
    BY <1>7 DEF ScanComplete, ResetCall, Goto, Return, Outside, pool, local, device, TypeInv, TypeOK, RangeOK, RecycleInv, Held, DistinctOK, Labels, LockOK, Locked, CallOK, Resetting, ListsOK, InCall, Usable
  <2>2. PendingOK'
    BY <1>7 DEF ScanComplete, ResetCall, Goto, Return, Outside, pool, local, device, TypeInv, TypeOK, RangeOK, RecycleInv, Held, PendingOK, PendingOn, CallOK, Resetting, ListsOK, Fresh, WaiterOK
  <2>3. FlagOK'
    BY <1>7 DEF ScanComplete, ResetCall, Goto, Return, Outside, pool, local, device, TypeInv, TypeOK, RangeOK, RecycleInv, Held, FlagOK, PendingOK, PendingOn, CallOK, Resetting, ListsOK, Fresh, ResetOK, WaiterOK
  <2>4. TrackOK'
    BY <1>7 DEF ScanComplete, ResetCall, Goto, Return, Outside, pool, local, device, TypeInv, TypeOK, RangeOK, RecycleInv, Held, TrackOK, PendingOn, PendingOK, CallOK, Resetting, ListsOK, Fresh, ResetOK
  <2>5. WaiterOK'
    BY <1>7 DEF ScanComplete, ResetCall, Goto, Return, Outside, pool, local, device, TypeInv, TypeOK, RangeOK, RecycleInv, Held, WaiterOK, CallOK, Resetting, ListsOK, Fresh, Usable, LockOK, Locked
  <2>6. ResetOK'
    <3>1. /\ pc[t] = "scan" /\ e \in wait /\ recorded[e] /\ flag[e]
          /\ pc' = [pc EXCEPT ![t] = IF NeedsDrain(e) THEN "drain" ELSE "reset"]
          /\ ev' = [ev EXCEPT ![t] = e]
          /\ todo' = [todo EXCEPT ![t] = IF NeedsDrain(e) THEN waitStreams[e] ELSE {}]
          /\ UNCHANGED <<idle, busy, wait, recorded, recStream, waitStreams, queue, flag>>
      BY <1>7 DEF ScanComplete, ResetCall, Goto, pool, device, TypeInv, CallOK
    <3>2. \A u \in Threads : u # t => pc'[u] = pc[u] /\ pc[u] \notin Locked
      BY <3>1 DEF TypeInv, TypeOK, RangeOK, LockOK, Locked
    <3>3. /\ ev'[t] = e /\ e \in Events
          /\ pc'[t] = IF NeedsDrain(e) THEN "drain" ELSE "reset"
          /\ todo'[t] = IF NeedsDrain(e) THEN waitStreams[e] ELSE {}
      BY <3>1 DEF TypeInv, TypeOK, RangeOK
    <3>4. \A s \in Streams : PendingOn(WaitTask(e), s) => s \in waitStreams[e]
      BY <3>1 DEF RecycleInv, TrackOK, TypeInv, TypeOK, RangeOK, ListsOK, CallOK
    <3>5. ~NeedsDrain(e) => \A s \in Streams : ~PendingOn(WaitTask(e), s)
      BY <3>4 DEF NeedsDrain, Pending
    <3>6. \A y : \A r \in Streams : PendingOn(y, r)' <=> PendingOn(y, r)
      BY <3>1 DEF PendingOn
    <3>7. CASE NeedsDrain(e)
      BY <3>1, <3>2, <3>3, <3>4, <3>6, <3>7 DEF ResetOK, Resetting, Locked
    <3>8. CASE ~NeedsDrain(e)
      BY <3>1, <3>2, <3>3, <3>5, <3>6, <3>8 DEF ResetOK, Resetting, Locked
    <3> QED  BY <3>7, <3>8
  <2>7. SignalOK'
    BY <1>7 DEF ScanComplete, ResetCall, Goto, Return, Outside, pool, local, device, TypeInv, TypeOK, RangeOK, RecycleInv, Held, SignalOK, PendingOn, CallOK, Resetting, ListsOK, Fresh, ResetOK, LockOK, Locked
  <2>8. OneRecordOK'
    BY <1>7 DEF ScanComplete, ResetCall, Goto, Return, Outside, pool, local, device, TypeInv, TypeOK, RangeOK, RecycleInv, Held, OneRecordOK, PendingOn
  <2> QED  BY <2>1, <2>2, <2>3, <2>4, <2>5, <2>6, <2>7, <2>8 DEF RecycleInv
<1>8. ASSUME NEW t \in Threads, NEW e \in Events, CreateTake(t, e)
      PROVE  RecycleInv'
  <2>1. DistinctOK'
    BY <1>8 DEF CreateTake, Goto, Return, Outside, pool, local, device, TypeInv, TypeOK, RangeOK, RecycleInv, Held, DistinctOK, Labels, LockOK, Locked, CallOK, Resetting, ListsOK, InCall, Usable
  <2>2. PendingOK'
    BY <1>8 DEF CreateTake, Goto, Return, Outside, pool, local, device, TypeInv, TypeOK, RangeOK, RecycleInv, Held, PendingOK, PendingOn, CallOK, Resetting, ListsOK, Fresh, WaiterOK
  <2>3. FlagOK'
    BY <1>8 DEF CreateTake, Goto, Return, Outside, pool, local, device, TypeInv, TypeOK, RangeOK, RecycleInv, Held, FlagOK, PendingOK, PendingOn, CallOK, Resetting, ListsOK, Fresh, ResetOK, WaiterOK
  <2>4. TrackOK'
    BY <1>8 DEF CreateTake, Goto, Return, Outside, pool, local, device, TypeInv, TypeOK, RangeOK, RecycleInv, Held, TrackOK, PendingOn, PendingOK, CallOK, Resetting, ListsOK, Fresh, ResetOK
  <2>5. WaiterOK'
    BY <1>8 DEF CreateTake, Goto, Return, Outside, pool, local, device, TypeInv, TypeOK, RangeOK, RecycleInv, Held, WaiterOK, CallOK, Resetting, ListsOK, Fresh, Usable, LockOK, Locked
  <2>6. ResetOK'
    BY <1>8 DEF CreateTake, Goto, Return, Outside, pool, local, device, TypeInv, TypeOK, RangeOK, RecycleInv, Held, ResetOK, PendingOn, PendingOK, TrackOK, NeedsDrain, Pending, DistinctOK, CallOK, Resetting, ListsOK, Fresh, LockOK, Locked, FlagOK, QueryEvent
  <2>7. SignalOK'
    <3>1. /\ pc[t] = "scan" /\ pc' = [pc EXCEPT ![t] = "out"]
          /\ recorded' = [recorded EXCEPT ![e] = FALSE]
          /\ busy' = busy \cup {e} /\ e \notin Held
          /\ UNCHANGED <<wait, queue>>
          /\ \A f \in Events : f # e => flag'[f] = flag[f]
      BY <1>8 DEF CreateTake, Goto, Return, TypeInv, TypeOK, RangeOK, ListsOK, Fresh, Held
    <3>2. ~\E u \in Threads : pc[u] = "record"
      BY <3>1 DEF TypeInv, TypeOK, LockOK, Locked
    <3>3. \A y : \A r \in Streams : PendingOn(y, r)' <=> PendingOn(y, r)
      BY <3>1 DEF PendingOn
    <3> QED  BY <3>1, <3>2, <3>3 DEF RecycleInv, SignalOK, Held, TypeInv, TypeOK, RangeOK
  <2>8. OneRecordOK'
    BY <1>8 DEF CreateTake, Goto, Return, Outside, pool, local, device, TypeInv, TypeOK, RangeOK, RecycleInv, Held, OneRecordOK, PendingOn
  <2> QED  BY <2>1, <2>2, <2>3, <2>4, <2>5, <2>6, <2>7, <2>8 DEF RecycleInv
<1>9. ASSUME NEW t \in Threads, NEW e \in Events, DestroyEvent(t, e)
      PROVE  RecycleInv'
  <2>1. DistinctOK'
    BY <1>9 DEF DestroyEvent, InCall, Goto, Return, Outside, pool, local, device, TypeInv, TypeOK, RangeOK, RecycleInv, Held, DistinctOK, Labels, LockOK, Locked, CallOK, Resetting, ListsOK, Usable
  <2>2. PendingOK'
    BY <1>9 DEF DestroyEvent, InCall, Goto, Return, Outside, pool, local, device, TypeInv, TypeOK, RangeOK, RecycleInv, Held, PendingOK, PendingOn, CallOK, Resetting, ListsOK, Fresh, WaiterOK
  <2>3. FlagOK'
    BY <1>9 DEF DestroyEvent, InCall, Goto, Return, Outside, pool, local, device, TypeInv, TypeOK, RangeOK, RecycleInv, Held, FlagOK, PendingOK, PendingOn, CallOK, Resetting, ListsOK, Fresh, ResetOK, WaiterOK
  <2>4. TrackOK'
    BY <1>9 DEF DestroyEvent, InCall, Goto, Return, Outside, pool, local, device, TypeInv, TypeOK, RangeOK, RecycleInv, Held, TrackOK, PendingOn, PendingOK, CallOK, Resetting, ListsOK, Fresh, ResetOK
  <2>5. WaiterOK'
    BY <1>9 DEF DestroyEvent, InCall, Goto, Return, Outside, pool, local, device, TypeInv, TypeOK, RangeOK, RecycleInv, Held, WaiterOK, CallOK, Resetting, ListsOK, Fresh, Usable, LockOK, Locked
  <2>6. ResetOK'
    BY <1>9 DEF DestroyEvent, InCall, Goto, Return, Outside, pool, local, device, TypeInv, TypeOK, RangeOK, RecycleInv, Held, ResetOK, PendingOn, PendingOK, TrackOK, NeedsDrain, Pending, DistinctOK, CallOK, Resetting, ListsOK, Fresh, LockOK, Locked, FlagOK, QueryEvent
  <2>7. SignalOK'
    BY <1>9 DEF DestroyEvent, InCall, Goto, Return, Outside, pool, local, device, TypeInv, TypeOK, RangeOK, RecycleInv, Held, SignalOK, PendingOn, CallOK, Resetting, ListsOK, Fresh, ResetOK, LockOK, Locked
  <2>8. OneRecordOK'
    BY <1>9 DEF DestroyEvent, InCall, Goto, Return, Outside, pool, local, device, TypeInv, TypeOK, RangeOK, RecycleInv, Held, OneRecordOK, PendingOn
  <2> QED  BY <2>1, <2>2, <2>3, <2>4, <2>5, <2>6, <2>7, <2>8 DEF RecycleInv
<1>10. ASSUME NEW t \in Threads, NEW e \in Events, NEW s \in Streams, RecordEnter(t, e, s)
      PROVE  RecycleInv'
  <2>1. DistinctOK'
    <3>1. /\ pc[t] = "out" /\ e \in busy /\ \A u \in Threads : pc[u] # "out" => ev[u] # e
          /\ ev' = [ev EXCEPT ![t] = e]
      BY <1>10 DEF RecordEnter, ResetCall, Outside, Usable, InCall
    <3>2. \E label \in {"drain", "reset", "record"} : pc' = [pc EXCEPT ![t] = label]
      BY <1>10 DEF RecordEnter, ResetCall, Goto
    <3> QED  BY <3>1, <3>2 DEF RecycleInv, DistinctOK, TypeInv, TypeOK, RangeOK
  <2>2. PendingOK'
    BY <1>10 DEF RecordEnter, ResetCall, Usable, InCall, QueryEvent, Goto, Return, Outside, pool, local, device, TypeInv, TypeOK, RangeOK, RecycleInv, Held, PendingOK, PendingOn, CallOK, Resetting, ListsOK, Fresh, WaiterOK
  <2>3. FlagOK'
    BY <1>10 DEF RecordEnter, ResetCall, Usable, InCall, QueryEvent, Goto, Return, Outside, pool, local, device, TypeInv, TypeOK, RangeOK, RecycleInv, Held, FlagOK, PendingOK, PendingOn, CallOK, Resetting, ListsOK, Fresh, ResetOK, WaiterOK
  <2>4. TrackOK'
    BY <1>10 DEF RecordEnter, ResetCall, Usable, InCall, QueryEvent, Goto, Return, Outside, pool, local, device, TypeInv, TypeOK, RangeOK, RecycleInv, Held, TrackOK, PendingOn, PendingOK, CallOK, Resetting, ListsOK, Fresh, ResetOK
  <2>5. WaiterOK'
    BY <1>10 DEF RecordEnter, ResetCall, Usable, InCall, QueryEvent, Goto, Return, Outside, pool, local, device, TypeInv, TypeOK, RangeOK, RecycleInv, Held, WaiterOK, CallOK, Resetting, ListsOK, Fresh, LockOK, Locked
  <2>6. ResetOK'
    BY <1>10 DEF RecordEnter, ResetCall, Usable, InCall, QueryEvent, Goto, Return, Outside, pool, local, device, TypeInv, TypeOK, RangeOK, RecycleInv, Held, ResetOK, PendingOn, PendingOK, TrackOK, NeedsDrain, Pending, DistinctOK, CallOK, Resetting, ListsOK, Fresh, LockOK, Locked, FlagOK
  <2>7. SignalOK'
    <3>1. /\ mutex = None
          /\ UNCHANGED <<busy, wait, recorded, queue, flag>>
      BY <1>10 DEF RecordEnter, pool, device
    <3>2. ~\E u \in Threads : pc[u] = "record"
      BY <3>1 DEF TypeInv, TypeOK, LockOK, Locked
    <3>3. \A y : \A r \in Streams : PendingOn(y, r)' <=> PendingOn(y, r)
      BY <3>1 DEF PendingOn
    <3> QED  BY <3>1, <3>2, <3>3 DEF RecycleInv, SignalOK, Held
  <2>8. OneRecordOK'
    BY <1>10 DEF RecordEnter, ResetCall, Usable, InCall, QueryEvent, Goto, Return, Outside, pool, local, device, TypeInv, TypeOK, RangeOK, RecycleInv, Held, OneRecordOK, PendingOn
  <2> QED  BY <2>1, <2>2, <2>3, <2>4, <2>5, <2>6, <2>7, <2>8 DEF RecycleInv
<1>11. ASSUME NEW t \in Threads, RecordDo(t)
      PROVE  RecycleInv'
  <2>1. /\ pc[t] = "record" /\ ev[t] \in busy /\ ev[t] \in Events /\ st[t] \in Streams
        /\ Enqueue(st[t], RecordTask(ev[t])) /\ RecordTask(ev[t]) \in Task
    BY <1>11, TaskKinds DEF RecordDo, TypeInv, TypeOK, RangeOK, CallOK
  <2>2. /\ pc' = [pc EXCEPT ![t] = "out"] /\ ev' = [ev EXCEPT ![t] = None]
        /\ recorded' = [recorded EXCEPT ![ev[t]] = TRUE]
        /\ recStream' = [recStream EXCEPT ![ev[t]] = st[t]]
        /\ UNCHANGED <<idle, busy, wait, waitStreams, todo, flag>>
        /\ \A u \in Threads : u # t => st'[u] = st[u]
    BY <1>11 DEF RecordDo, Goto, Return, TypeInv, TypeOK, RangeOK
  <2>3. \A u \in Threads : /\ pc'[u] = IF u = t THEN "out" ELSE pc[u]
                           /\ ev'[u] = IF u = t THEN None ELSE ev[u]
                           /\ u # t => pc[u] \notin Locked
    BY <2>1, <2>2 DEF TypeInv, TypeOK, RangeOK, LockOK, Locked
  <2>4. \A y : \A r \in Streams : PendingOn(y, r)' <=> PendingOn(y, r) \/ (r = st[t] /\ y = RecordTask(ev[t]))
    BY <2>1, QueueAppend DEF TypeInv, TypeOK, RangeOK
  <2>5. \A e \in Events, r \in Streams :
          /\ PendingOn(RecordTask(e), r)' <=> PendingOn(RecordTask(e), r) \/ (r = st[t] /\ e = ev[t])
          /\ PendingOn(WaitTask(e), r)' <=> PendingOn(WaitTask(e), r)
    BY <2>1, <2>4, TaskKinds
  <2>6. DistinctOK'
    BY <2>3 DEF RecycleInv, DistinctOK
  <2>7. PendingOK'
    BY <2>1, <2>2, <2>5 DEF RecycleInv, PendingOK, Held, TypeInv, TypeOK, RangeOK
  <2>8. FlagOK'
    <3>1. ~flag[ev[t]]
      BY <2>1 DEF RecycleInv, ResetOK
    <3>2. st[t] # None
      BY <2>1
    <3> QED  BY <2>1, <2>2, <2>5, <3>1, <3>2 DEF RecycleInv, FlagOK, Held, TypeInv, TypeOK, RangeOK
  <2>9. TrackOK'
    <3> SUFFICES ASSUME NEW f \in Events, NEW r \in Streams, PendingOn(WaitTask(f), r)
                 PROVE  \/ r \in waitStreams[f]
                        \/ \E u \in Threads : pc'[u] = "waitPush" /\ ev'[u] = f /\ st'[u] = r
      BY <2>2, <2>5 DEF TrackOK
    <3>1. ASSUME NEW u \in Threads, pc[u] = "waitPush", ev[u] = f, st[u] = r
          PROVE  pc'[u] = "waitPush" /\ ev'[u] = f /\ st'[u] = r
      BY <2>1, <2>2, <2>3, <3>1
    <3> QED  BY <3>1 DEF RecycleInv, TrackOK
  <2>10. WaiterOK'
    BY <2>2, <2>3 DEF RecycleInv, WaiterOK, TypeInv, TypeOK, RangeOK
  <2>11. ResetOK'
    BY <2>3 DEF ResetOK, Resetting, Locked
  <2>12. SignalOK'
    <3>1. ASSUME NEW f \in Held, f # ev[t], recorded[f]
          PROVE  flag[f] \/ \E s \in Streams : PendingOn(RecordTask(f), s)
      BY <2>3, <3>1 DEF RecycleInv, SignalOK, Locked
    <3> QED  BY <2>1, <2>2, <2>5, <3>1 DEF SignalOK, Held, TypeInv, TypeOK, RangeOK
  <2>13. OneRecordOK'
    <3>1. \A r \in Streams : ~PendingOn(RecordTask(ev[t]), r)
      BY <2>1 DEF RecycleInv, ResetOK
    <3> QED  BY <2>1, <3>1, OneAppend, TaskKinds DEF RecycleInv, TypeInv
  <2> QED  BY <2>6, <2>7, <2>8, <2>9, <2>10, <2>11, <2>12, <2>13 DEF RecycleInv
<1>12. ASSUME NEW t \in Threads, NEW e \in Events, NEW s \in Streams, WaitCheck(t, e, s)
      PROVE  RecycleInv'
  <2>1. CASE ~recorded[e]
    BY <1>12, <2>1, StopInv DEF WaitCheck
  <2>2. CASE recorded[e]
    <3>1. /\ pc[t] = "out" /\ e \in busy /\ \A u \in Threads : pc[u] # "out" => ev[u] # e
          /\ pc' = [pc EXCEPT ![t] = "waitEnqueue"]
          /\ ev' = [ev EXCEPT ![t] = e] /\ st' = [st EXCEPT ![t] = s]
          /\ UNCHANGED <<idle, busy, wait, recorded, recStream, waitStreams, todo, queue, flag>>
      BY <1>12, <2>2 DEF WaitCheck, Goto, pool, device, Outside, Usable, InCall
    <3>2. \A u \in Threads : /\ pc'[u] = IF u = t THEN "waitEnqueue" ELSE pc[u]
                             /\ ev'[u] = IF u = t THEN e ELSE ev[u]
                             /\ st'[u] = IF u = t THEN s ELSE st[u]
      BY <3>1 DEF TypeInv, TypeOK, RangeOK
    <3>3. \A y : \A r \in Streams : PendingOn(y, r)' <=> PendingOn(y, r)
      BY <3>1 DEF PendingOn
    <3>4. DistinctOK'
      BY <3>1, <3>2 DEF RecycleInv, DistinctOK
    <3>5. PendingOK' /\ FlagOK'
      BY <3>1, <3>3 DEF RecycleInv, PendingOK, FlagOK, Held, TypeInv, TypeOK, RangeOK
    <3>6. TrackOK'
      <4> SUFFICES ASSUME NEW f \in Events, NEW r \in Streams, PendingOn(WaitTask(f), r)
                   PROVE  \/ r \in waitStreams'[f]
                          \/ \E u \in Threads : pc'[u] = "waitPush" /\ ev'[u] = f /\ st'[u] = r
        BY <3>3 DEF TrackOK
      <4>1. ASSUME NEW u \in Threads, pc[u] = "waitPush", ev[u] = f, st[u] = r
            PROVE  pc'[u] = "waitPush" /\ ev'[u] = f /\ st'[u] = r
        BY <3>1, <3>2, <4>1
      <4> QED  BY <3>1, <4>1 DEF RecycleInv, TrackOK
    <3>7. WaiterOK'
      BY <2>2, <3>1, <3>2 DEF RecycleInv, WaiterOK
    <3>8. ResetOK'
      BY <3>1, <3>2, <3>3 DEF RecycleInv, ResetOK, Resetting
    <3>9. SignalOK'
      <4> SUFFICES ASSUME NEW f \in Held, recorded[f]
                   PROVE  \/ flag[f]
                          \/ \E r \in Streams : PendingOn(RecordTask(f), r)
                          \/ \E u \in Threads : pc'[u] = "record" /\ ev'[u] = f
        BY <3>1, <3>3 DEF SignalOK, Held
      <4>1. ASSUME NEW u \in Threads, pc[u] = "record", ev[u] = f
            PROVE  pc'[u] = "record" /\ ev'[u] = f
        BY <3>1, <3>2, <4>1
      <4> QED  BY <4>1 DEF RecycleInv, SignalOK
    <3>10. OneRecordOK'
      BY <3>1, <3>3 DEF RecycleInv, OneRecordOK
    <3> QED  BY <3>4, <3>5, <3>6, <3>7, <3>8, <3>9, <3>10 DEF RecycleInv
  <2> QED  BY <2>1, <2>2
<1>13. ASSUME NEW t \in Threads, WaitEnqueue(t)
      PROVE  RecycleInv'
  <2>1. /\ pc[t] = "waitEnqueue" /\ ev[t] \in busy /\ ev[t] \in Events /\ st[t] \in Streams
        /\ Enqueue(st[t], WaitTask(ev[t])) /\ WaitTask(ev[t]) \in Task
    BY <1>13, TaskKinds DEF WaitEnqueue, TypeInv, TypeOK, RangeOK, CallOK
  <2>2. /\ pc' = [pc EXCEPT ![t] = "waitPush"]
        /\ UNCHANGED <<idle, busy, wait, recorded, recStream, waitStreams, ev, st, todo, flag>>
    BY <1>13 DEF WaitEnqueue, Goto, pool, local
  <2>3. \A u \in Threads : pc'[u] = IF u = t THEN "waitPush" ELSE pc[u]
    BY <2>2 DEF TypeInv, TypeOK, RangeOK
  <2>4. /\ \A r \in Streams : queue'[r] = IF r = st[t] THEN Append(queue[st[t]], WaitTask(ev[t])) ELSE queue[r]
        /\ \A y : \A r \in Streams : PendingOn(y, r)' <=> PendingOn(y, r) \/ (r = st[t] /\ y = WaitTask(ev[t]))
    BY <2>1, QueueAppend DEF TypeInv, TypeOK, RangeOK
  <2>5. \A e \in Events, r \in Streams :
          /\ PendingOn(RecordTask(e), r)' <=> PendingOn(RecordTask(e), r)
          /\ PendingOn(WaitTask(e), r)' <=> PendingOn(WaitTask(e), r) \/ (r = st[t] /\ e = ev[t])
    BY <2>1, <2>4, TaskKinds
  <2>6. DistinctOK'
    BY <2>1, <2>2, <2>3 DEF RecycleInv, DistinctOK
  <2>7. PendingOK'
    BY <2>1, <2>2, <2>5 DEF RecycleInv, PendingOK, Held, WaiterOK
  <2>8. FlagOK'
    BY <2>2, <2>5 DEF RecycleInv, FlagOK, Held, TypeInv, TypeOK, RangeOK
  <2>9. TrackOK'
    <3> SUFFICES ASSUME NEW f \in Events, NEW r \in Streams, PendingOn(WaitTask(f), r)'
                 PROVE  \/ r \in waitStreams[f]
                        \/ \E u \in Threads : pc'[u] = "waitPush" /\ ev[u] = f /\ st[u] = r
      BY <2>2 DEF TrackOK
    <3>1. CASE r = st[t] /\ f = ev[t]
      BY <2>3, <3>1
    <3>2. CASE ~(r = st[t] /\ f = ev[t])
      BY <2>1, <2>3, <2>5, <3>2 DEF RecycleInv, TrackOK
    <3> QED  BY <3>1, <3>2
  <2>10. WaiterOK'
    BY <2>1, <2>2, <2>3 DEF RecycleInv, WaiterOK
  <2>11. ResetOK'
    <3> SUFFICES ASSUME NEW u \in Threads, u # t, pc[u] \in Resetting \cup {"record"}
                 PROVE  /\ pc[u] \in Resetting => recorded[ev[u]] /\ flag[ev[u]]
                        /\ pc[u] = "drain" => \A r \in Streams \ todo[u] : ~PendingOn(WaitTask(ev[u]), r)'
                        /\ pc[u] = "sync" =>
                             \A r \in Streams \ todo[u] : Before(WaitTask(ev[u]), MarkTask(u), queue'[r])
                        /\ pc[u] = "reset" => \A r \in Streams : ~PendingOn(WaitTask(ev[u]), r)'
                        /\ pc[u] = "record" =>
                             /\ ~flag[ev[u]]
                             /\ \A r \in Streams : ~PendingOn(RecordTask(ev[u]), r)'
      BY <2>1, <2>2, <2>3 DEF ResetOK, Resetting
    <3>1. ev[u] \in Events /\ ev[u] # ev[t]
      BY <2>1 DEF RecycleInv, DistinctOK, TypeInv, TypeOK, RangeOK, CallOK, Resetting
    <3>2. ASSUME pc[u] = "sync", NEW r \in Streams \ todo[u]
          PROVE  Before(WaitTask(ev[u]), MarkTask(u), queue'[r])
      <4>1. Before(WaitTask(ev[u]), MarkTask(u), queue[r])
        BY <3>2 DEF RecycleInv, ResetOK
      <4>2. CASE r = st[t]
        <5>1. /\ WaitTask(ev[t]) # WaitTask(ev[u])
              /\ queue[r] \in Seq(Task) /\ WaitTask(ev[t]) \in Task
          BY <2>1, <3>1, TaskKinds DEF TypeInv, TypeOK, RangeOK
        <5>2. Before(WaitTask(ev[u]), MarkTask(u), Append(queue[r], WaitTask(ev[t])))
          BY <4>1, <5>1, BeforeAppend
        <5> QED  BY <2>4, <4>2, <5>2
      <4>3. CASE r # st[t]
        BY <2>4, <4>1, <4>3
      <4> QED  BY <4>2, <4>3
    <3>3. \A r \in Streams :
            /\ PendingOn(WaitTask(ev[u]), r)' <=> PendingOn(WaitTask(ev[u]), r)
            /\ PendingOn(RecordTask(ev[u]), r)' <=> PendingOn(RecordTask(ev[u]), r)
      BY <2>2, <2>5, <3>1
    <3>4. ResetOK
      BY DEF RecycleInv
    <3> QED  BY <3>2, <3>3, <3>4 DEF ResetOK
  <2>12. SignalOK'
    <3>1. ASSUME NEW u \in Threads, pc[u] = "record"  PROVE pc'[u] = "record"
      BY <2>1, <2>3, <3>1
    <3> QED  BY <2>2, <2>5, <3>1 DEF RecycleInv, SignalOK, Held, TypeInv, TypeOK, RangeOK
  <2>13. OneRecordOK'
    BY <2>1, OneAppend, TaskKinds DEF RecycleInv, TypeInv
  <2> QED  BY <2>6, <2>7, <2>8, <2>9, <2>10, <2>11, <2>12, <2>13 DEF RecycleInv
<1>14. ASSUME NEW t \in Threads, WaitPush(t)
      PROVE  RecycleInv'
  <2>1. DistinctOK'
    BY <1>14 DEF WaitPush, Goto, Return, Outside, pool, local, device, TypeInv, TypeOK, RangeOK, RecycleInv, Held, DistinctOK, Labels, LockOK, Locked, CallOK, Resetting, ListsOK, InCall, Usable
  <2>2. PendingOK'
    BY <1>14 DEF WaitPush, Goto, Return, Outside, pool, local, device, TypeInv, TypeOK, RangeOK, RecycleInv, Held, PendingOK, PendingOn, CallOK, Resetting, ListsOK, Fresh, WaiterOK
  <2>3. FlagOK'
    BY <1>14 DEF WaitPush, Goto, Return, Outside, pool, local, device, TypeInv, TypeOK, RangeOK, RecycleInv, Held, FlagOK, PendingOK, PendingOn, CallOK, Resetting, ListsOK, Fresh, ResetOK, WaiterOK
  <2>4. TrackOK'
    BY <1>14 DEF WaitPush, Goto, Return, Outside, pool, local, device, TypeInv, TypeOK, RangeOK, RecycleInv, Held, TrackOK, PendingOn, PendingOK, CallOK, Resetting, ListsOK, Fresh, ResetOK
  <2>5. WaiterOK'
    BY <1>14 DEF WaitPush, Goto, Return, Outside, pool, local, device, TypeInv, TypeOK, RangeOK, RecycleInv, Held, WaiterOK, CallOK, Resetting, ListsOK, Fresh, Usable, LockOK, Locked
  <2>6. ResetOK'
    BY <1>14 DEF WaitPush, Goto, Return, Outside, pool, local, device, TypeInv, TypeOK, RangeOK, RecycleInv, Held, ResetOK, PendingOn, PendingOK, TrackOK, NeedsDrain, Pending, DistinctOK, CallOK, Resetting, ListsOK, Fresh, LockOK, Locked, FlagOK, QueryEvent
  <2>7. SignalOK'
    BY <1>14 DEF WaitPush, Goto, Return, Outside, pool, local, device, TypeInv, TypeOK, RangeOK, RecycleInv, Held, SignalOK, PendingOn, CallOK, Resetting, ListsOK, Fresh, ResetOK, LockOK, Locked
  <2>8. OneRecordOK'
    BY <1>14 DEF WaitPush, Goto, Return, Outside, pool, local, device, TypeInv, TypeOK, RangeOK, RecycleInv, Held, OneRecordOK, PendingOn
  <2> QED  BY <2>1, <2>2, <2>3, <2>4, <2>5, <2>6, <2>7, <2>8 DEF RecycleInv
<1>15. ASSUME NEW t \in Threads, NEW s \in Streams, DestroyStream(t, s)
      PROVE  RecycleInv'
  <2>1. DistinctOK'
    BY <1>15 DEF DestroyStream, Goto, Return, Outside, pool, local, device, TypeInv, TypeOK, RangeOK, RecycleInv, Held, DistinctOK, Labels, LockOK, Locked, CallOK, Resetting, ListsOK, InCall, Usable
  <2>2. PendingOK'
    BY <1>15 DEF DestroyStream, Goto, Return, Outside, pool, local, device, TypeInv, TypeOK, RangeOK, RecycleInv, Held, PendingOK, PendingOn, CallOK, Resetting, ListsOK, Fresh, WaiterOK
  <2>3. FlagOK'
    BY <1>15 DEF DestroyStream, Goto, Return, Outside, pool, local, device, TypeInv, TypeOK, RangeOK, RecycleInv, Held, FlagOK, PendingOK, PendingOn, CallOK, Resetting, ListsOK, Fresh, ResetOK, WaiterOK
  <2>4. TrackOK'
    BY <1>15 DEF DestroyStream, Goto, Return, Outside, pool, local, device, TypeInv, TypeOK, RangeOK, RecycleInv, Held, TrackOK, PendingOn, PendingOK, CallOK, Resetting, ListsOK, Fresh, ResetOK
  <2>5. WaiterOK'
    BY <1>15 DEF DestroyStream, Goto, Return, Outside, pool, local, device, TypeInv, TypeOK, RangeOK, RecycleInv, Held, WaiterOK, CallOK, Resetting, ListsOK, Fresh, Usable, LockOK, Locked
  <2>6. ResetOK'
    BY <1>15 DEF DestroyStream, Goto, Return, Outside, pool, local, device, TypeInv, TypeOK, RangeOK, RecycleInv, Held, ResetOK, PendingOn, PendingOK, TrackOK, NeedsDrain, Pending, DistinctOK, CallOK, Resetting, ListsOK, Fresh, LockOK, Locked, FlagOK, QueryEvent
  <2>7. SignalOK'
    BY <1>15 DEF DestroyStream, Goto, Return, Outside, pool, local, device, TypeInv, TypeOK, RangeOK, RecycleInv, Held, SignalOK, PendingOn, CallOK, Resetting, ListsOK, Fresh, ResetOK, LockOK, Locked
  <2>8. OneRecordOK'
    BY <1>15 DEF DestroyStream, Goto, Return, Outside, pool, local, device, TypeInv, TypeOK, RangeOK, RecycleInv, Held, OneRecordOK, PendingOn
  <2> QED  BY <2>1, <2>2, <2>3, <2>4, <2>5, <2>6, <2>7, <2>8 DEF RecycleInv
<1>16. ASSUME NEW t \in Threads, PostDestroyStream(t)
      PROVE  RecycleInv'
  BY <1>16 DEF PostDestroyStream, RecycleInv, DistinctOK
<1>17. ASSUME NEW t \in Threads, Release(t)
      PROVE  RecycleInv'
  <2>1. DistinctOK'
    BY <1>17 DEF Release, Goto, Return, Outside, pool, local, device, TypeInv, TypeOK, RangeOK, RecycleInv, Held, DistinctOK, Labels, LockOK, Locked, CallOK, Resetting, ListsOK, InCall, Usable
  <2>2. PendingOK'
    <3>1. \A s \in Streams : queue'[s] = <<>>
      BY <1>17 DEF Release, device
    <3> QED  BY <3>1 DEF PendingOK, PendingOn, In
  <2>3. FlagOK'
    BY <1>17 DEF Release, Goto, Return, Outside, pool, local, device, TypeInv, TypeOK, RangeOK, RecycleInv, Held, FlagOK, PendingOK, PendingOn, CallOK, Resetting, ListsOK, Fresh, ResetOK, WaiterOK
  <2>4. TrackOK'
    BY <1>17 DEF Release, Goto, Return, Outside, pool, local, device, TypeInv, TypeOK, RangeOK, RecycleInv, Held, TrackOK, PendingOn, PendingOK, CallOK, Resetting, ListsOK, Fresh, ResetOK
  <2>5. WaiterOK'
    BY <1>17 DEF Release, Goto, Return, Outside, pool, local, device, TypeInv, TypeOK, RangeOK, RecycleInv, Held, WaiterOK, CallOK, Resetting, ListsOK, Fresh, Usable, LockOK, Locked
  <2>6. ResetOK'
    BY <1>17 DEF Release, Goto, Return, Outside, pool, local, device, TypeInv, TypeOK, RangeOK, RecycleInv, Held, ResetOK, PendingOn, PendingOK, TrackOK, NeedsDrain, Pending, DistinctOK, CallOK, Resetting, ListsOK, Fresh, LockOK, Locked, FlagOK, QueryEvent
  <2>7. SignalOK'
    BY <1>17 DEF Release, Goto, Return, Outside, pool, local, device, TypeInv, TypeOK, RangeOK, RecycleInv, Held, SignalOK, PendingOn, CallOK, Resetting, ListsOK, Fresh, ResetOK, LockOK, Locked
  <2>8. OneRecordOK'
    BY <1>17 DEF Release, Goto, Return, Outside, pool, local, device, TypeInv, TypeOK, RangeOK, RecycleInv, Held, OneRecordOK, PendingOn
  <2> QED  BY <2>1, <2>2, <2>3, <2>4, <2>5, <2>6, <2>7, <2>8 DEF RecycleInv
<1>18. ASSUME NEW s \in Streams, DeviceRecord(s)
      PROVE  RecycleInv'
  <2> PICK e \in Events :
        /\ queue[s] # <<>> /\ Head(queue[s]) = RecordTask(e)
        /\ queue' = [queue EXCEPT ![s] = Tail(@)]
        /\ flag' = [flag EXCEPT ![e] = TRUE]
        /\ UNCHANGED <<pool, mutex, pc, local, alive, stopped>>
    BY <1>18 DEF DeviceRecord, Goto
  <2>1. /\ \A r \in Streams : queue'[r] = IF r = s THEN Tail(queue[s]) ELSE queue[r]
        /\ \A y : \A r \in Streams : PendingOn(y, r)' => PendingOn(y, r)
        /\ \A y : \A r \in Streams : PendingOn(y, r) => PendingOn(y, r)' \/ y = RecordTask(e)
        /\ PendingOn(RecordTask(e), s)
    <3>1. /\ \A y : \A r \in Streams : PendingOn(y, r)' => PendingOn(y, r)
          /\ \A y : \A r \in Streams :
               PendingOn(y, r) => PendingOn(y, r)' \/ (r = s /\ y = Head(queue[s]))
          /\ PendingOn(Head(queue[s]), s)
      BY QueueTail DEF TypeInv, TypeOK, RangeOK
    <3>2. \A r \in Streams : queue'[r] = IF r = s THEN Tail(queue[s]) ELSE queue[r]
      BY DEF TypeInv, TypeOK, RangeOK
    <3> QED  BY <3>1, <3>2
  <2>2. UNCHANGED <<idle, busy, wait, recorded, recStream, waitStreams, ev, st, todo>>
    BY DEF pool, local
  <2>3. OneRecordOK'
    BY OneTail DEF RecycleInv, TypeInv
  <2>4. e \in Held /\ recorded[e]
    BY <2>1 DEF RecycleInv, PendingOK
  <2>5. DistinctOK' /\ WaiterOK' /\ PendingOK' /\ TrackOK'
    BY <2>1, <2>2 DEF RecycleInv, DistinctOK, WaiterOK, PendingOK, TrackOK, Held
  <2>6. FlagOK'
    <3>1. \A r \in Streams : ~PendingOn(RecordTask(e), r)'
      BY OneTail DEF RecycleInv, TypeInv
    <3> QED  BY <2>1, <2>2, <2>4, <3>1
             DEF RecycleInv, FlagOK, Held, TypeInv, TypeOK, RangeOK, ListsOK
  <2>7. ResetOK'
    <3> SUFFICES ASSUME NEW t \in Threads
                 PROVE  /\ pc[t] \in Resetting => recorded[ev[t]] /\ flag'[ev[t]]
                        /\ pc[t] = "drain" =>
                             \A r \in Streams \ todo[t] : ~PendingOn(WaitTask(ev[t]), r)'
                        /\ pc[t] = "sync" => \A r \in Streams \ todo[t] :
                             Before(WaitTask(ev[t]), MarkTask(t), queue'[r])
                        /\ pc[t] = "reset" => \A r \in Streams : ~PendingOn(WaitTask(ev[t]), r)'
                        /\ pc[t] = "record" =>
                             /\ ~flag'[ev[t]]
                             /\ \A r \in Streams : ~PendingOn(RecordTask(ev[t]), r)'
      BY <2>2 DEF ResetOK
    <3>1. ASSUME pc[t] \in Resetting PROVE ev[t] \in Events /\ flag'[ev[t]]
      BY <2>2, <3>1 DEF RecycleInv, ResetOK, TypeInv, TypeOK, RangeOK, CallOK
    <3>2. ASSUME pc[t] = "sync", NEW r \in Streams \ todo[t]
          PROVE  Before(WaitTask(ev[t]), MarkTask(t), queue'[r])
      BY <3>1, <3>2, BeforeStep DEF RecycleInv, ResetOK, TypeInv, Resetting
    <3>3. ASSUME pc[t] = "record" PROVE ~flag'[ev[t]]
      <4>1. ev[t] \in Events /\ ~flag[ev[t]] /\ ~PendingOn(RecordTask(ev[t]), s)
        BY <3>3 DEF RecycleInv, ResetOK, TypeInv, TypeOK, RangeOK, CallOK
      <4> QED  BY <2>1, <4>1 DEF TypeInv, TypeOK, RangeOK
    <3> QED  BY <2>1, <2>2, <3>1, <3>2, <3>3 DEF RecycleInv, ResetOK
  <2>8. SignalOK'
    <3>1. \A f \in Events, r \in Streams :
            f # e /\ PendingOn(RecordTask(f), r) => PendingOn(RecordTask(f), r)'
      BY <2>1, TaskKinds
    <3> QED  BY <2>2, <3>1 DEF RecycleInv, SignalOK, Held, TypeInv, TypeOK, RangeOK
  <2> QED  BY <2>3, <2>5, <2>6, <2>7, <2>8 DEF RecycleInv
<1>19. ASSUME NEW s \in Streams, DeviceWait(s)
      PROVE  RecycleInv'
  <2> PICK e \in Events :
        /\ queue[s] # <<>> /\ Head(queue[s]) = WaitTask(e)
        /\ queue' = [queue EXCEPT ![s] = Tail(@)]
        /\ flag[e] /\ UNCHANGED flag
        /\ UNCHANGED <<pool, mutex, pc, local, alive, stopped>>
    BY <1>19 DEF DeviceWait, Goto
  <2>1. /\ \A r \in Streams : queue'[r] = IF r = s THEN Tail(queue[s]) ELSE queue[r]
        /\ \A y : \A r \in Streams : PendingOn(y, r)' => PendingOn(y, r)
        /\ \A y : \A r \in Streams : PendingOn(y, r) => PendingOn(y, r)' \/ y = WaitTask(e)
        /\ PendingOn(WaitTask(e), s)
    <3>1. /\ \A y : \A r \in Streams : PendingOn(y, r)' => PendingOn(y, r)
          /\ \A y : \A r \in Streams :
               PendingOn(y, r) => PendingOn(y, r)' \/ (r = s /\ y = Head(queue[s]))
          /\ PendingOn(Head(queue[s]), s)
      BY QueueTail DEF TypeInv, TypeOK, RangeOK
    <3>2. \A r \in Streams : queue'[r] = IF r = s THEN Tail(queue[s]) ELSE queue[r]
      BY DEF TypeInv, TypeOK, RangeOK
    <3> QED  BY <3>1, <3>2
  <2>2. UNCHANGED <<idle, busy, wait, recorded, recStream, waitStreams, ev, st, todo>>
    BY DEF pool, local
  <2>3. OneRecordOK'
    BY OneTail DEF RecycleInv, TypeInv
  <2>4. e \in Held /\ recorded[e]
    BY <2>1 DEF RecycleInv, PendingOK
  <2>5. DistinctOK' /\ WaiterOK' /\ PendingOK' /\ TrackOK'
    BY <2>1, <2>2 DEF RecycleInv, DistinctOK, WaiterOK, PendingOK, TrackOK, Held
  <2>6. FlagOK'
    BY <2>1, <2>2 DEF RecycleInv, FlagOK, Held
  <2>7. ResetOK'
    <3> SUFFICES ASSUME NEW t \in Threads
                 PROVE  /\ pc[t] \in Resetting => recorded[ev[t]] /\ flag'[ev[t]]
                        /\ pc[t] = "drain" =>
                             \A r \in Streams \ todo[t] : ~PendingOn(WaitTask(ev[t]), r)'
                        /\ pc[t] = "sync" => \A r \in Streams \ todo[t] :
                             Before(WaitTask(ev[t]), MarkTask(t), queue'[r])
                        /\ pc[t] = "reset" => \A r \in Streams : ~PendingOn(WaitTask(ev[t]), r)'
                        /\ pc[t] = "record" =>
                             /\ ~flag'[ev[t]]
                             /\ \A r \in Streams : ~PendingOn(RecordTask(ev[t]), r)'
      BY <2>2 DEF ResetOK
    <3>1. ASSUME pc[t] \in Resetting PROVE ev[t] \in Events /\ flag'[ev[t]]
      BY <2>2, <3>1 DEF RecycleInv, ResetOK, TypeInv, TypeOK, RangeOK, CallOK
    <3>2. ASSUME pc[t] = "sync", NEW r \in Streams \ todo[t]
          PROVE  Before(WaitTask(ev[t]), MarkTask(t), queue'[r])
      BY <3>1, <3>2, BeforeStep DEF RecycleInv, ResetOK, TypeInv, Resetting
    <3>3. ASSUME pc[t] = "record" PROVE ~flag'[ev[t]]
      <4>1. ev[t] \in Events /\ ~flag[ev[t]] /\ ~PendingOn(RecordTask(ev[t]), s)
        BY <3>3 DEF RecycleInv, ResetOK, TypeInv, TypeOK, RangeOK, CallOK
      <4> QED  BY <2>1, <4>1 DEF TypeInv, TypeOK, RangeOK
    <3> QED  BY <2>1, <2>2, <3>1, <3>2, <3>3 DEF RecycleInv, ResetOK
  <2>8. SignalOK'
    <3>1. \A f \in Events, r \in Streams :
            PendingOn(RecordTask(f), r) => PendingOn(RecordTask(f), r)'
      BY <2>1, TaskKinds
    <3> QED  BY <2>2, <3>1 DEF RecycleInv, SignalOK, Held, TypeInv, TypeOK, RangeOK
  <2> QED  BY <2>3, <2>5, <2>6, <2>7, <2>8 DEF RecycleInv
<1>20. ASSUME NEW s \in Streams, DeviceMark(s)
      PROVE  RecycleInv'
  <2> PICK t \in Threads :
        /\ queue[s] # <<>> /\ Head(queue[s]) = MarkTask(t)
        /\ queue' = [queue EXCEPT ![s] = Tail(@)]
        /\ pc' = [pc EXCEPT ![t] = "drain"]
        /\ UNCHANGED <<pool, mutex, local, flag, alive, stopped>>
    BY <1>20 DEF DeviceMark, Goto
  <2>1. /\ \A r \in Streams : queue'[r] = IF r = s THEN Tail(queue[s]) ELSE queue[r]
        /\ \A y : \A r \in Streams : PendingOn(y, r)' => PendingOn(y, r)
        /\ \A y : \A r \in Streams : PendingOn(y, r) => PendingOn(y, r)' \/ y = MarkTask(t)
        /\ PendingOn(MarkTask(t), s)
    <3>1. /\ \A y : \A r \in Streams : PendingOn(y, r)' => PendingOn(y, r)
          /\ \A y : \A r \in Streams :
               PendingOn(y, r) => PendingOn(y, r)' \/ (r = s /\ y = Head(queue[s]))
          /\ PendingOn(Head(queue[s]), s)
      BY QueueTail DEF TypeInv, TypeOK, RangeOK
    <3>2. \A r \in Streams : queue'[r] = IF r = s THEN Tail(queue[s]) ELSE queue[r]
      BY DEF TypeInv, TypeOK, RangeOK
    <3> QED  BY <3>1, <3>2
  <2>2. UNCHANGED <<idle, busy, wait, recorded, recStream, waitStreams, ev, st, todo>>
    BY DEF pool, local
  <2>3. OneRecordOK'
    BY OneTail DEF RecycleInv, TypeInv
  <2>4. /\ pc[t] = "sync" /\ ev[t] \in Events
        /\ \A u \in Threads : pc'[u] = IF u = t THEN "drain" ELSE pc[u]
        /\ \A u \in Threads : u # t => pc[u] \notin Locked
    BY <2>1 DEF TypeInv, TypeOK, RangeOK, MarkOK, CallOK, Resetting, LockOK, Locked
  <2>5. \A e \in Events, r \in Streams :
          /\ PendingOn(RecordTask(e), r)' <=> PendingOn(RecordTask(e), r)
          /\ PendingOn(WaitTask(e), r)' <=> PendingOn(WaitTask(e), r)
    BY <2>1, TaskKinds
  <2>6. DistinctOK' /\ WaiterOK'
    BY <2>2, <2>4 DEF RecycleInv, DistinctOK, WaiterOK
  <2>7. PendingOK' /\ FlagOK'
    BY <2>2, <2>5 DEF RecycleInv, PendingOK, FlagOK, Held, TypeInv, TypeOK, RangeOK
  <2>8. TrackOK'
    <3>1. ASSUME NEW u \in Threads, pc[u] = "waitPush"  PROVE pc'[u] = "waitPush"
      BY <2>4, <3>1
    <3> QED  BY <2>2, <2>5, <3>1 DEF RecycleInv, TrackOK
  <2>9. ResetOK'
    <3>1. ASSUME NEW r \in Streams \ todo[t]
          PROVE  ~PendingOn(WaitTask(ev[t]), r)
      <4>1. Before(WaitTask(ev[t]), MarkTask(t), queue[r])
        BY <2>4, <3>1 DEF RecycleInv, ResetOK
      <4>2. CASE r = s
        BY <2>4, <4>1, <4>2, BeforeTail, TaskKinds
        DEF PendingOn, TypeInv, TypeOK, RangeOK, MarkOK
      <4>3. CASE r # s
        <5>1. ~In(MarkTask(t), queue[r])
          BY <2>1, <4>3 DEF TypeInv, MarkOK, PendingOn
        <5>2. Len(queue[r]) \in Nat
          BY DEF TypeInv, TypeOK, RangeOK
        <5> QED  BY <4>1, <5>1, <5>2 DEF Before, PendingOn, In
      <4> QED  BY <4>2, <4>3
    <3>2. recorded[ev[t]] /\ flag[ev[t]]
      BY <2>4 DEF RecycleInv, ResetOK, Resetting
    <3> QED  BY <2>2, <2>4, <2>5, <3>1, <3>2 DEF ResetOK, Resetting, Locked
  <2>10. SignalOK'
    <3>1. ASSUME NEW u \in Threads, pc[u] = "record"  PROVE pc'[u] = "record"
      BY <2>4, <3>1
    <3> QED  BY <2>2, <2>5, <3>1 DEF RecycleInv, SignalOK, Held, TypeInv, TypeOK, RangeOK
  <2> QED  BY <2>3, <2>6, <2>7, <2>8, <2>9, <2>10 DEF RecycleInv
<1>21. CASE UNCHANGED vars
  BY <1>21 DEF vars, pool, local, device, RecycleInv, DistinctOK, PendingOK, FlagOK, TrackOK,
     WaiterOK, ResetOK, SignalOK, OneRecordOK, PendingOn, Held
<1> QED
  BY <1>1, <1>2, <1>3, <1>4, <1>5, <1>6, <1>7, <1>8, <1>9, <1>10, <1>11, <1>12, <1>13,
     <1>14, <1>15, <1>16, <1>17, <1>18, <1>19, <1>20, <1>21
  DEF Next, ClientStep, InnerStep, DeviceStep

(* A handle is recycled only when no stream holds a record of it or waits  *)
(* for it, QueryEvent does not answer early, and no stream waits for an    *)
(* event that will not be signalled: what CreateEvent, QueryEvent and      *)
(* WaitEvent promise a client under Discipline.                            *)
THEOREM RecycleCorrect ==
  ASSUME Discipline
  PROVE  Spec => [](RecycleSafe /\ QuerySound /\ NoStrandedWait)
<1>1. Init => TypeInv /\ RecycleInv
  BY TypeInit, RecycleInit
<1>2. TypeInv /\ RecycleInv /\ [Next]_vars => (TypeInv /\ RecycleInv)'
  BY TypeStep, RecycleStep
<1>3. TypeInv /\ RecycleInv => RecycleSafe /\ QuerySound /\ NoStrandedWait
  <2> SUFFICES ASSUME TypeInv, RecycleInv
               PROVE  RecycleSafe /\ QuerySound /\ NoStrandedWait
    OBVIOUS
  <2>1. /\ PendingOK /\ FlagOK /\ SignalOK
        /\ \A e \in idle : e \in Events /\ e \notin Held
        /\ busy \subseteq Events /\ wait \subseteq Events
    BY DEF RecycleInv, TypeInv, TypeOK, RangeOK, ListsOK, Held
  <2>2. RecycleSafe
    BY <2>1 DEF RecycleSafe, Pending, PendingOK
  <2>3. QuerySound
    BY <2>1 DEF QuerySound, Pending, FlagOK, Held
  <2>4. NoStrandedWait
    BY <2>1 DEF NoStrandedWait, Pending, PendingOK, SignalOK
  <2> QED  BY <2>2, <2>3, <2>4
<1> QED  BY <1>1, <1>2, <1>3, PTL DEF Spec

(* QueryEvent answers "completed" only when the record has run.            *)
THEOREM QuerySoundCorrect ==
  ASSUME Discipline
  PROVE  Spec => []QuerySound
BY RecycleCorrect, PTL

(* No stream waits for an event that nothing will signal.                  *)
THEOREM NoStrandedWaitCorrect ==
  ASSUME Discipline
  PROVE  Spec => []NoStrandedWait
BY RecycleCorrect, PTL

-----------------------------------------------------------------------------
(* The refinement of EventService.  Without the marks, the queue of a      *)
(* stream is what the client has put there, each record and wait under the *)
(* name of the latest record of its event: a client under Discipline gives *)
(* an event no new record while an older one, or a wait for it, is pending.*)

(* The task x of a queue under the name it was issued for.                 *)
Shown(x, names) == [op |-> x.op, record |-> names[x.arg]]

(* p is q without the marks: position i of p is position f[i] of q.        *)
Aligned(p, q, names) ==
  \E f \in [1..Len(p) -> 1..Len(q)] :
    /\ \A i, j \in 1..Len(p) : i < j => f[i] < f[j]
    /\ \A k \in 1..Len(q) : q[k].op # "mark" => \E i \in 1..Len(p) : f[i] = k
    /\ \A i \in 1..Len(p) : q[f[i]].op # "mark" /\ p[i] = Shown(q[f[i]], names)

LEMMA AlignMark ==
  ASSUME NEW P, NEW Q, NEW p \in Seq(P), NEW q \in Seq(Q), NEW names,
         NEW x \in Q, x.op = "mark", Aligned(p, q, names)
  PROVE  Aligned(p, Append(q, x), names)
<1>1. PICK f \in [1..Len(p) -> 1..Len(q)] :
        /\ \A i, j \in 1..Len(p) : i < j => f[i] < f[j]
        /\ \A k \in 1..Len(q) : q[k].op # "mark" => \E i \in 1..Len(p) : f[i] = k
        /\ \A i \in 1..Len(p) : q[f[i]].op # "mark" /\ p[i] = Shown(q[f[i]], names)
  BY DEF Aligned
<1>2. /\ Len(q) \in Nat /\ Len(Append(q, x)) = Len(q) + 1
      /\ \A k \in 1..Len(q) : Append(q, x)[k] = q[k]
      /\ Append(q, x)[Len(q) + 1] = x
  OBVIOUS
<1>3. f \in [1..Len(p) -> 1..Len(Append(q, x))]
  BY <1>2
<1>4. \A k \in 1..Len(Append(q, x)) : k \in 1..Len(q) \/ k = Len(q) + 1
  BY <1>2
<1>5. \A k \in 1..Len(Append(q, x)) :
        Append(q, x)[k].op # "mark" => \E i \in 1..Len(p) : f[i] = k
  BY <1>1, <1>2, <1>4
<1>6. \A i \in 1..Len(p) : /\ Append(q, x)[f[i]].op # "mark"
                           /\ p[i] = Shown(Append(q, x)[f[i]], names)
  BY <1>1, <1>2
<1> QED  BY <1>1, <1>3, <1>5, <1>6 DEF Aligned

LEMMA AlignAppend ==
  ASSUME NEW P, NEW Q, NEW p \in Seq(P), NEW q \in Seq(Q), NEW names, NEW y \in P,
         NEW x \in Q, x.op # "mark", y = Shown(x, names), Aligned(p, q, names)
  PROVE  Aligned(Append(p, y), Append(q, x), names)
<1>1. PICK f \in [1..Len(p) -> 1..Len(q)] :
        /\ \A i, j \in 1..Len(p) : i < j => f[i] < f[j]
        /\ \A k \in 1..Len(q) : q[k].op # "mark" => \E i \in 1..Len(p) : f[i] = k
        /\ \A i \in 1..Len(p) : q[f[i]].op # "mark" /\ p[i] = Shown(q[f[i]], names)
  BY DEF Aligned
<1>2. /\ Len(q) \in Nat /\ Len(Append(q, x)) = Len(q) + 1
      /\ \A k \in 1..Len(q) : Append(q, x)[k] = q[k]
      /\ Append(q, x)[Len(q) + 1] = x
  OBVIOUS
<1>3. /\ Len(p) \in Nat /\ Len(Append(p, y)) = Len(p) + 1
      /\ \A k \in 1..Len(p) : Append(p, y)[k] = p[k]
      /\ Append(p, y)[Len(p) + 1] = y
  OBVIOUS
<1> DEFINE m == Len(p)
           n == Len(q)
           g == [i \in 1..m+1 |-> IF i = m+1 THEN n+1 ELSE f[i]]
<1>4. /\ \A i \in 1..m : g[i] = f[i] /\ f[i] \in 1..n /\ i \in 1..m+1 /\ i # m+1
      /\ g[m+1] = n+1
      /\ \A i \in 1..m+1 : i \in 1..m \/ i = m+1
  BY <1>1, <1>2, <1>3
<1>5. g \in [1..m+1 -> 1..n+1]
  <2>1. \A i \in 1..m+1 : (IF i = m+1 THEN n+1 ELSE f[i]) \in 1..n+1
    BY <1>2, <1>3, <1>4
  <2> QED  BY <2>1
<1> HIDE DEF g
<1>6. \A i, j \in 1..m+1 : i < j => g[i] < g[j]
  BY <1>1, <1>2, <1>3, <1>4
<1>7. \A k \in 1..n+1 : Append(q, x)[k].op # "mark" => \E i \in 1..m+1 : g[i] = k
  <2>1. \A k \in 1..n+1 : k \in 1..n \/ k = n+1
    BY <1>2
  <2>2. m+1 \in 1..m+1
    BY <1>3
  <2> QED  BY <1>1, <1>2, <1>4, <2>1, <2>2
<1>8. \A i \in 1..m+1 : /\ Append(q, x)[g[i]].op # "mark"
                        /\ Append(p, y)[i] = Shown(Append(q, x)[g[i]], names)
  <2>1. \A i \in 1..m : /\ Append(q, x)[g[i]] = q[f[i]] /\ Append(p, y)[i] = p[i]
    BY <1>2, <1>3, <1>4
  <2>2. Append(q, x)[g[m+1]] = x /\ Append(p, y)[m+1] = y
    BY <1>2, <1>3, <1>4
  <2> QED  BY <1>1, <1>4, <2>1, <2>2
<1>9. 1..Len(Append(p, y)) = 1..m+1 /\ 1..Len(Append(q, x)) = 1..n+1
  BY <1>2, <1>3
<1> QED  BY ONLY <1>5, <1>6, <1>7, <1>8, <1>9 DEF Aligned

LEMMA AlignTailMark ==
  ASSUME NEW P, NEW Q, NEW p \in Seq(P), NEW q \in Seq(Q), NEW names,
         q # <<>>, Head(q).op = "mark", Aligned(p, q, names)
  PROVE  Aligned(p, Tail(q), names)
<1>1. PICK f \in [1..Len(p) -> 1..Len(q)] :
        /\ \A i, j \in 1..Len(p) : i < j => f[i] < f[j]
        /\ \A k \in 1..Len(q) : q[k].op # "mark" => \E i \in 1..Len(p) : f[i] = k
        /\ \A i \in 1..Len(p) : q[f[i]].op # "mark" /\ p[i] = Shown(q[f[i]], names)
  BY DEF Aligned
<1> DEFINE m == Len(p)
           n == Len(q)
           g == [i \in 1..m |-> f[i] - 1]
<1>2. /\ n \in Nat \ {0} /\ Len(Tail(q)) = n - 1 /\ Head(q) = q[1]
      /\ \A k \in 1..n-1 : Tail(q)[k] = q[k+1]
      /\ m \in Nat
  OBVIOUS
<1>3. \A i \in 1..m : f[i] \in 1..n /\ f[i] # 1 /\ g[i] = f[i] - 1 /\ g[i] \in 1..n-1 /\ g[i] + 1 = f[i]
  BY <1>1, <1>2
<1>4. g \in [1..m -> 1..n-1]
  BY <1>3
<1> HIDE DEF g
<1>5. \A i, j \in 1..m : i < j => g[i] < g[j]
  BY <1>1, <1>2, <1>3
<1>6. \A k \in 1..n-1 : Tail(q)[k].op # "mark" => \E i \in 1..m : g[i] = k
  <2> SUFFICES ASSUME NEW k \in 1..n-1, Tail(q)[k].op # "mark"  PROVE \E i \in 1..m : g[i] = k
    OBVIOUS
  <2>1. k + 1 \in 1..n /\ q[k+1].op # "mark"
    BY <1>2
  <2>2. PICK i \in 1..m : f[i] = k + 1
    BY <1>1, <2>1
  <2>3. g[i] = k
    BY <1>2, <1>3, <2>2
  <2> QED  BY <2>3
<1>7. \A i \in 1..m : Tail(q)[g[i]].op # "mark" /\ p[i] = Shown(Tail(q)[g[i]], names)
  BY <1>1, <1>2, <1>3
<1> QED  BY <1>2, <1>4, <1>5, <1>6, <1>7 DEF Aligned

LEMMA AlignTail ==
  ASSUME NEW P, NEW Q, NEW p \in Seq(P), NEW q \in Seq(Q), NEW names,
         q # <<>>, Head(q).op # "mark", Aligned(p, q, names)
  PROVE  p # <<>> /\ Head(p) = Shown(Head(q), names) /\ Aligned(Tail(p), Tail(q), names)
<1>1. PICK f \in [1..Len(p) -> 1..Len(q)] :
        /\ \A i, j \in 1..Len(p) : i < j => f[i] < f[j]
        /\ \A k \in 1..Len(q) : q[k].op # "mark" => \E i \in 1..Len(p) : f[i] = k
        /\ \A i \in 1..Len(p) : q[f[i]].op # "mark" /\ p[i] = Shown(q[f[i]], names)
  BY DEF Aligned
<1> DEFINE m == Len(p)
           n == Len(q)
           g == [i \in 1..m-1 |-> f[i+1] - 1]
<1>2. /\ n \in Nat \ {0} /\ Len(Tail(q)) = n - 1 /\ Head(q) = q[1]
      /\ \A k \in 1..n-1 : Tail(q)[k] = q[k+1]
      /\ m \in Nat
  OBVIOUS
<1>3. \A i \in 1..m : f[i] \in 1..n
  BY <1>1
<1>4. 1 \in 1..m /\ f[1] = 1
  <2>1. PICK i \in 1..m : f[i] = 1
    BY <1>1, <1>2
  <2>2. 1 \in 1..m /\ (1 < i \/ i = 1)
    BY <1>2
  <2> QED  BY <1>1, <1>2, <1>3, <2>1, <2>2
<1>5. /\ p # <<>> /\ m \in Nat \ {0} /\ Len(Tail(p)) = m - 1 /\ Head(p) = p[1]
      /\ \A k \in 1..m-1 : Tail(p)[k] = p[k+1]
  BY <1>4
<1>6. \A i \in 1..m-1 : /\ i + 1 \in 1..m /\ f[i+1] \in 1..n /\ f[1] < f[i+1]
  BY <1>1, <1>3, <1>4, <1>5
<1>7. \A i \in 1..m-1 : f[i+1] - 1 \in 1..n-1 /\ g[i] = f[i+1] - 1 /\ g[i] + 1 = f[i+1]
  BY <1>2, <1>4, <1>6
<1>8. g \in [1..m-1 -> 1..n-1]
  BY <1>7
<1> HIDE DEF g
<1>9. \A i, j \in 1..m-1 : i < j => g[i] < g[j]
  <2> SUFFICES ASSUME NEW i \in 1..m-1, NEW j \in 1..m-1, i < j  PROVE g[i] < g[j]
    OBVIOUS
  <2>1. f[i+1] < f[j+1]
    BY <1>1, <1>6
  <2> QED  BY <1>2, <1>6, <1>7, <2>1
<1>10. \A k \in 1..n-1 : Tail(q)[k].op # "mark" => \E i \in 1..m-1 : g[i] = k
  <2> SUFFICES ASSUME NEW k \in 1..n-1, Tail(q)[k].op # "mark"  PROVE \E i \in 1..m-1 : g[i] = k
    OBVIOUS
  <2>1. k + 1 \in 1..n /\ q[k+1].op # "mark" /\ k + 1 # 1
    BY <1>2
  <2>2. PICK i \in 1..m : f[i] = k + 1
    BY <1>1, <2>1
  <2>3. i - 1 \in 1..m-1 /\ (i - 1) + 1 = i
    BY <1>4, <1>5, <2>1, <2>2
  <2>4. g[i - 1] = k
    BY <1>7, <2>2, <2>3
  <2> QED  BY <2>3, <2>4
<1>11. \A i \in 1..m-1 : Tail(q)[g[i]].op # "mark" /\ Tail(p)[i] = Shown(Tail(q)[g[i]], names)
  <2>1. \A i \in 1..m-1 : Tail(q)[g[i]] = q[f[i+1]] /\ Tail(p)[i] = p[i+1]
    BY <1>2, <1>5, <1>7
  <2>2. \A i \in 1..m-1 : /\ q[f[i+1]].op # "mark"
                          /\ p[i+1] = Shown(q[f[i+1]], names)
    BY <1>1, <1>6
  <2> QED  BY <2>1, <2>2
<1>12. 1..Len(Tail(p)) = 1..m-1 /\ 1..Len(Tail(q)) = 1..n-1
  BY <1>2, <1>5
<1>13. Aligned(Tail(p), Tail(q), names)
  BY ONLY <1>8, <1>9, <1>10, <1>11, <1>12 DEF Aligned
<1>14. Head(p) = Shown(Head(q), names)
  BY <1>1, <1>2, <1>4, <1>5
<1> QED  BY <1>5, <1>13, <1>14

ClientTask == [op : {"record", "wait"}, record : Records]

NamesInv ==
  /\ latest \in [Events -> Records \cup {NoRecord}]
  /\ stream \in [Streams -> Seq(ClientTask)]
  /\ \A e \in Events : recorded[e] <=> latest[e] # NoRecord
  /\ \A d, e \in Events : latest[d] = latest[e] /\ latest[e] # NoRecord => d = e

AlignedInv == \A s \in Streams : Aligned(stream[s], queue[s], latest)

(* When an event is recorded no stream waits for an earlier record of it.  *)
RecordClear ==
  \A t \in Threads : pc[t] = "record" => \A s \in Streams : ~PendingOn(WaitTask(ev[t]), s)

HistoryInv == NamesInv /\ AlignedInv /\ RecordClear

LEMMA HistoryInit == HInit => HistoryInv
<1> SUFFICES ASSUME HInit  PROVE HistoryInv
  OBVIOUS
<1>1. NamesInv /\ RecordClear
  BY NoRecordAssumption DEF HInit, Init, NamesInv, RecordClear
<1>2. \A s \in Streams : stream[s] = <<>> /\ queue[s] = <<>>
  BY DEF HInit, Init
<1>3. Aligned(<<>>, <<>>, latest)
  <2>1. [i \in 1..0 |-> 1] \in [1..Len(<<>>) -> 1..Len(<<>>)] /\ 1..Len(<<>>) = {}
    OBVIOUS
  <2> QED  BY <2>1 DEF Aligned
<1> QED  BY <1>1, <1>2, <1>3 DEF HistoryInv, AlignedInv

(* A task that a client knows of is a pending record or wait.              *)
LEMMA ClientKnows ==
  ASSUME TypeInv, HistoryInv, NEW s \in Streams, NEW x \in Service!Tasks(s)
  PROVE  \E e \in Events :
           \/ PendingOn(RecordTask(e), s) /\ x = Service!RecordOf(latest[e])
           \/ PendingOn(WaitTask(e), s) /\ x = Service!WaitFor(latest[e])
<1>1. Aligned(stream[s], queue[s], latest) /\ queue[s] \in Seq(Task)
  BY DEF HistoryInv, AlignedInv, TypeInv, TypeOK, RangeOK
<1>2. PICK k \in 1..Len(stream[s]) : x = stream[s][k]
  BY DEF Service!Tasks
<1>3. PICK j \in 1..Len(queue[s]) : queue[s][j].op # "mark" /\ x = Shown(queue[s][j], latest)
  BY <1>1, <1>2 DEF Aligned
<1>4. queue[s][j] \in Task
  BY <1>1
<1>5. PICK e \in Events : queue[s][j] \in {RecordTask(e), WaitTask(e)}
  <2>1. queue[s][j] \in [op : {"record", "wait"}, arg : Events]
    BY <1>3, <1>4 DEF Task
  <2> QED  BY <2>1 DEF RecordTask, WaitTask
<1>6. CASE queue[s][j] = RecordTask(e)
  BY <1>3, <1>6 DEF PendingOn, In, Shown, RecordTask, Service!RecordOf
<1>7. CASE queue[s][j] = WaitTask(e)
  BY <1>3, <1>7 DEF PendingOn, In, Shown, WaitTask, Service!WaitFor
<1> QED  BY <1>5, <1>6, <1>7

LEMMA LatestHasRun ==
  ASSUME TypeInv, HistoryInv, NEW e \in Events, latest[e] # NoRecord,
         \A s \in Streams : ~PendingOn(RecordTask(e), s)
  PROVE  Service!HasRun(latest[e])
<1> SUFFICES ASSUME NEW s \in Streams, Service!RecordOf(latest[e]) \in Service!Tasks(s)
             PROVE  FALSE
  BY DEF Service!HasRun
<1>1. PICK d \in Events :
        \/ /\ PendingOn(RecordTask(d), s)
           /\ Service!RecordOf(latest[e]) = Service!RecordOf(latest[d])
        \/ Service!RecordOf(latest[e]) = Service!WaitFor(latest[d])
  BY ClientKnows
<1>2. PendingOn(RecordTask(d), s) /\ latest[e] = latest[d]
  BY <1>1 DEF Service!RecordOf, Service!WaitFor
<1> QED  BY <1>2 DEF HistoryInv, NamesInv

(* What QueryEvent answers is what a client expects.                       *)
LEMMA AnswersRight ==
  ASSUME TypeInv, RecycleInv, HistoryInv
  PROVE  {e \in busy : QueryEvent(e)} \subseteq Service!Answerable
<1> SUFFICES ASSUME NEW e \in busy, QueryEvent(e), latest[e] # NoRecord
             PROVE  Service!HasRun(latest[e])
  BY DEF Service!Answerable, TypeInv, TypeOK, RangeOK
<1>1. e \in Events /\ e \in Held /\ recorded[e] /\ flag[e]
  BY DEF TypeInv, TypeOK, RangeOK, Held, HistoryInv, NamesInv, QueryEvent
<1>2. \A s \in Streams : ~PendingOn(RecordTask(e), s)
  BY <1>1 DEF RecycleInv, FlagOK
<1> QED  BY <1>1, <1>2, LatestHasRun

(* The next record has a name of its own.                                  *)
LEMMA FreshName ==
  ASSUME TypeInv, HistoryInv
  PROVE  /\ Service!NewRecord \in Records \ Service!Referred
         /\ \A e \in Events : latest[e] # Service!NewRecord
<1>1. PICK r \in Records : \A e \in Events : latest[e] # r
  BY RecordsAssumption DEF HistoryInv, NamesInv
<1>2. ASSUME NEW s \in Streams, NEW x \in Service!Tasks(s)
      PROVE  \E e \in Events : x.record = latest[e]
  BY ClientKnows DEF Service!RecordOf, Service!WaitFor
<1>3. r \notin Service!Referred
  BY <1>1, <1>2 DEF Service!Referred
<1>4. Service!NewRecord \in Records \ Service!Referred
  BY <1>3 DEF Service!NewRecord
<1> QED  BY <1>4 DEF Service!Referred

(* What the history variables record of a step that puts no task into a    *)
(* stream and runs none,                                                   *)
LEMMA TrackQuiet ==
  ASSUME TypeInv, HistoryInv, Track, queue' = queue
  PROVE  /\ stream' = stream
         /\ latest' = [e \in Events |-> IF e \in busy' \ busy THEN NoRecord ELSE latest[e]]
<1>1. \A s \in Streams : ~Longer(s) /\ ~Shorter(s)
  BY DEF Longer, Shorter, TypeInv, TypeOK, RangeOK
<1>2. \A e \in Events : ~Recording(e)
  BY <1>1 DEF Recording
<1>3. stream' = [s \in Streams |-> stream[s]]
  BY <1>1 DEF Track
<1>4. latest' = [e \in Events |-> IF e \in busy' \ busy THEN NoRecord ELSE latest[e]]
  BY <1>2 DEF Track, Creating
<1> QED  BY <1>3, <1>4 DEF HistoryInv, NamesInv

(* of an aclrt call that puts one,                                         *)
LEMMA TrackPut ==
  ASSUME TypeInv, HistoryInv, Track, NEW s \in Streams, NEW x \in Task, Enqueue(s, x),
         busy' = busy
  PROVE  /\ x.op = "mark" => latest' = latest /\ stream' = stream
         /\ \A e \in Events : x = WaitTask(e) =>
              /\ latest' = latest
              /\ stream' = [stream EXCEPT ![s] = Append(@, Service!WaitFor(latest[e]))]
         /\ \A e \in Events : x = RecordTask(e) =>
              /\ latest' = [latest EXCEPT ![e] = Service!NewRecord]
              /\ stream' = [stream EXCEPT ![s] = Append(@, Service!RecordOf(Service!NewRecord))]
<1> DEFINE name == Service!NewRecord
<1>1. /\ \A r \in Streams : queue'[r] = IF r = s THEN Append(queue[s], x) ELSE queue[r]
      /\ \A r \in Streams : queue[r] \in Seq(Task)
  BY QueueAppend DEF TypeInv, TypeOK, RangeOK
<1>2. /\ Len(Append(queue[s], x)) = Len(queue[s]) + 1
      /\ Append(queue[s], x)[Len(queue[s]) + 1] = x
      /\ \A r \in Streams : Len(queue[r]) \in Nat
  BY <1>1
<1>3. /\ \A r \in Streams : (Longer(r) <=> r = s) /\ ~Shorter(r)
      /\ Added(s) = x
  <2>1. /\ \A r \in Streams : Len(queue'[r]) = IF r = s THEN Len(queue[s]) + 1 ELSE Len(queue[r])
        /\ queue'[s][Len(queue[s]) + 1] = x
    BY <1>1, <1>2
  <2>2. \A r \in Streams : (Longer(r) <=> r = s) /\ ~Shorter(r)
    BY ONLY <1>2, <2>1 DEF Longer, Shorter
  <2> QED  BY <2>1, <2>2 DEF Added
<1>4. \A e \in Events : (Recording(e) <=> x = RecordTask(e)) /\ ~Creating(e)
  BY <1>3 DEF Recording, Creating
<1>5. latest' = [e \in Events |-> IF x = RecordTask(e) THEN name ELSE latest[e]]
  BY <1>4 DEF Track
<1>6. stream' = [r \in Streams |->
        IF r = s /\ x.op # "mark" THEN Append(stream[r], [op |-> x.op, record |-> latest'[x.arg]])
        ELSE stream[r]]
  BY <1>3 DEF Track
<1> HIDE DEF name
<1>7. latest \in [Events -> Records \cup {NoRecord}] /\ stream \in [Streams -> Seq(ClientTask)]
  BY DEF HistoryInv, NamesInv
<1>8. ASSUME x.op = "mark"  PROVE latest' = latest /\ stream' = stream
  <2>1. \A e \in Events : x # RecordTask(e)
    BY <1>8 DEF RecordTask
  <2> QED  BY <1>5, <1>6, <1>7, <1>8, <2>1
<1>9. ASSUME NEW e \in Events, x = WaitTask(e)
      PROVE  /\ latest' = latest
             /\ stream' = [stream EXCEPT ![s] = Append(@, Service!WaitFor(latest[e]))]
  <2>1. x.op = "wait" /\ x.arg = e /\ \A d \in Events : x # RecordTask(d)
    BY <1>9 DEF RecordTask, WaitTask
  <2>2. latest' = latest
    BY <1>5, <1>7, <2>1
  <2> QED  BY <1>6, <1>7, <2>1, <2>2 DEF Service!WaitFor
<1>10. ASSUME NEW e \in Events, x = RecordTask(e)
       PROVE  /\ latest' = [latest EXCEPT ![e] = name]
              /\ stream' = [stream EXCEPT ![s] = Append(@, Service!RecordOf(name))]
  <2>1. x.op = "record" /\ x.arg = e /\ \A d \in Events : x = RecordTask(d) <=> d = e
    BY <1>10 DEF RecordTask
  <2>2. latest' = [latest EXCEPT ![e] = name] /\ latest'[e] = name
    BY <1>5, <1>7, <2>1
  <2> QED  BY <1>6, <1>7, <2>1, <2>2 DEF Service!RecordOf
<1> QED  BY <1>8, <1>9, <1>10 DEF name

(* and of the device that runs the task at the head of one.                *)
LEMMA TrackRun ==
  ASSUME TypeInv, HistoryInv, Track, NEW s \in Streams, queue[s] # <<>>,
         queue' = [queue EXCEPT ![s] = Tail(@)], busy' = busy
  PROVE  /\ latest' = latest
         /\ Head(queue[s]).op = "mark" => stream' = stream
         /\ Head(queue[s]).op # "mark" => stream' = [stream EXCEPT ![s] = Tail(@)]
<1>1. /\ \A r \in Streams : queue'[r] = IF r = s THEN Tail(queue[s]) ELSE queue[r]
      /\ \A r \in Streams : queue[r] \in Seq(Task)
  BY DEF TypeInv, TypeOK, RangeOK
<1>2. /\ Len(Tail(queue[s])) = Len(queue[s]) - 1
      /\ \A r \in Streams : Len(queue[r]) \in Nat
  BY <1>1
<1>3. \A r \in Streams : (Shorter(r) <=> r = s) /\ ~Longer(r)
  <2>1. queue'[s] = Tail(queue[s])
    BY <1>1
  <2>2. Len(queue'[s]) = Len(queue[s]) - 1
    BY <1>2, <2>1
  <2>3. \A r \in Streams : r # s => queue'[r] = queue[r]
    BY <1>1
  <2> QED  BY ONLY <1>2, <2>2, <2>3 DEF Longer, Shorter
<1>4. \A e \in Events : ~Recording(e) /\ ~Creating(e)
  BY <1>3 DEF Recording, Creating
<1>5. latest \in [Events -> Records \cup {NoRecord}] /\ stream \in [Streams -> Seq(ClientTask)]
  BY DEF HistoryInv, NamesInv
<1>6. latest' = latest
  BY <1>4, <1>5 DEF Track
<1>7. stream' = [r \in Streams |-> IF r = s /\ Head(queue[r]).op # "mark" THEN Tail(stream[r]) ELSE stream[r]]
  BY <1>3 DEF Track
<1> QED  BY <1>5, <1>6, <1>7

(* A new latest record of an event with nothing pending renames no task.   *)
LEMMA AlignNames ==
  ASSUME TypeInv, NEW s \in Streams, NEW p, NEW names, NEW names2, NEW e \in Events,
         ~PendingOn(RecordTask(e), s), ~PendingOn(WaitTask(e), s),
         \A d \in Events : d # e => names2[d] = names[d],
         Aligned(p, queue[s], names)
  PROVE  Aligned(p, queue[s], names2)
<1>1. ASSUME NEW k \in 1..Len(queue[s]), queue[s][k].op # "mark"
      PROVE  Shown(queue[s][k], names2) = Shown(queue[s][k], names)
  <2>1. queue[s][k] \in [op : {"record", "wait"}, arg : Events]
    BY <1>1 DEF TypeInv, TypeOK, RangeOK, Task
  <2>2. queue[s][k].arg # e
    BY <2>1 DEF PendingOn, In, RecordTask, WaitTask
  <2> QED  BY <2>1, <2>2 DEF Shown
<1>2. PICK f \in [1..Len(p) -> 1..Len(queue[s])] :
        /\ \A i, j \in 1..Len(p) : i < j => f[i] < f[j]
        /\ \A k \in 1..Len(queue[s]) : queue[s][k].op # "mark" => \E i \in 1..Len(p) : f[i] = k
        /\ \A i \in 1..Len(p) :
             queue[s][f[i]].op # "mark" /\ p[i] = Shown(queue[s][f[i]], names)
  BY DEF Aligned
<1>3. \A i \in 1..Len(p) : queue[s][f[i]].op # "mark" /\ p[i] = Shown(queue[s][f[i]], names2)
  BY <1>1, <1>2
<1> QED  BY <1>2, <1>3 DEF Aligned

(* The steps of the pool and of the device, as a client sees them.         *)
LEMMA QuietStep ==
  ASSUME TypeInv, HistoryInv, Track, queue' = queue, recorded' = recorded, busy' \subseteq busy
  PROVE  /\ NamesInv' /\ AlignedInv'
         /\ Service!Think \/ Service!Destroy(busy \ busy')
<1>1. stream' = stream /\ latest' = [e \in Events |-> latest[e]]
  BY TrackQuiet
<1>2. latest' = latest
  BY <1>1 DEF HistoryInv, NamesInv
<1>3. NamesInv' /\ AlignedInv'
  BY <1>1, <1>2 DEF HistoryInv, NamesInv, AlignedInv
<1>4. CASE busy' = busy
  BY <1>1, <1>2, <1>3, <1>4 DEF Service!Think
<1>5. CASE busy' # busy
  <2>1. busy \ busy' # {} /\ busy' = busy \ (busy \ busy')
    BY <1>5
  <2> QED  BY <1>1, <1>2, <1>3, <2>1 DEF Service!Destroy
<1> QED  BY <1>4, <1>5

LEMMA CreateStep ==
  ASSUME TypeInv, RecycleInv, HistoryInv, Track, NEW t \in Threads, NEW e \in Events,
         CreateTake(t, e)
  PROVE  NamesInv' /\ AlignedInv' /\ Service!Create(e)
<1>1. /\ queue' = queue /\ busy' = busy \cup {e} /\ recorded' = [recorded EXCEPT ![e] = FALSE]
      /\ e \in idle \/ e \in Fresh
  BY DEF CreateTake
<1>2. e \notin busy /\ e \notin Held
  BY <1>1 DEF Fresh, Held, TypeInv, TypeOK, ListsOK
<1>3. /\ stream' = stream
      /\ latest' = [d \in Events |-> IF d = e THEN NoRecord ELSE latest[d]]
  BY <1>1, <1>2, TrackQuiet
<1>4. NamesInv'
  BY <1>1, <1>3 DEF HistoryInv, NamesInv, TypeInv, TypeOK, RangeOK
<1>5. \A s \in Streams : ~PendingOn(RecordTask(e), s) /\ ~PendingOn(WaitTask(e), s)
  BY <1>2 DEF RecycleInv, PendingOK
<1>6. \A d \in Events : d # e => latest'[d] = latest[d]
  BY <1>3
<1>7. \A s \in Streams : Aligned(stream[s], queue[s], latest')
  BY <1>5, <1>6, AlignNames DEF HistoryInv, AlignedInv
<1>8. latest' = [latest EXCEPT ![e] = NoRecord]
  BY <1>3 DEF HistoryInv, NamesInv
<1> QED  BY <1>1, <1>2, <1>3, <1>4, <1>7, <1>8 DEF AlignedInv, Service!Create

LEMMA MarkStep ==
  ASSUME TypeInv, HistoryInv, Track, NEW s \in Streams, NEW t \in Threads,
         Enqueue(s, MarkTask(t)), busy' = busy, recorded' = recorded
  PROVE  NamesInv' /\ AlignedInv' /\ Service!Think
<1>1. MarkTask(t) \in Task /\ MarkTask(t).op = "mark"
  BY TaskKinds DEF MarkTask
<1>2. latest' = latest /\ stream' = stream
  BY <1>1, TrackPut
<1>3. /\ \A r \in Streams :
           queue'[r] = IF r = s THEN Append(queue[s], MarkTask(t)) ELSE queue[r]
      /\ queue[s] \in Seq(Task) /\ stream[s] \in Seq(ClientTask)
  BY <1>1, QueueAppend DEF TypeInv, TypeOK, RangeOK, HistoryInv, NamesInv
<1>4. Aligned(stream[s], Append(queue[s], MarkTask(t)), latest)
  BY <1>1, <1>3, AlignMark DEF HistoryInv, AlignedInv
<1> QED  BY <1>2, <1>3, <1>4 DEF HistoryInv, NamesInv, AlignedInv, Service!Think

LEMMA WaitStep ==
  ASSUME TypeInv, RecycleInv, HistoryInv, Track, NEW t \in Threads, WaitEnqueue(t)
  PROVE  /\ NamesInv' /\ AlignedInv'
         /\ \E e \in Events, s \in Streams : Service!Wait(e, s)
<1> DEFINE s == st[t]
           e == ev[t]
<1>1. pc[t] = "waitEnqueue" /\ Enqueue(s, WaitTask(e)) /\ UNCHANGED <<busy, recorded>>
  BY DEF WaitEnqueue, pool
<1>2. s \in Streams /\ e \in busy /\ e \in Events /\ recorded[e]
  BY <1>1 DEF TypeInv, CallOK, TypeOK, RangeOK, RecycleInv, WaiterOK
<1> HIDE DEF s, e
<1>3. WaitTask(e) \in Task /\ WaitTask(e).op # "mark"
  BY <1>2, TaskKinds DEF WaitTask
<1>4. latest' = latest /\ stream' = [stream EXCEPT ![s] = Append(@, Service!WaitFor(latest[e]))]
  BY <1>1, <1>2, <1>3, TrackPut
<1>5. /\ \A r \in Streams : queue'[r] = IF r = s THEN Append(queue[s], WaitTask(e)) ELSE queue[r]
      /\ queue[s] \in Seq(Task) /\ stream[s] \in Seq(ClientTask)
  BY <1>1, <1>2, <1>3, QueueAppend DEF TypeInv, TypeOK, RangeOK, HistoryInv, NamesInv
<1>6. latest[e] # NoRecord /\ Service!WaitFor(latest[e]) \in ClientTask
  BY <1>2 DEF HistoryInv, NamesInv, ClientTask, Service!WaitFor
<1>7. Service!WaitFor(latest[e]) = Shown(WaitTask(e), latest)
  BY DEF Shown, WaitTask, Service!WaitFor
<1>8. Aligned(Append(stream[s], Service!WaitFor(latest[e])), Append(queue[s], WaitTask(e)), latest)
  BY <1>2, <1>3, <1>5, <1>6, <1>7, AlignAppend DEF HistoryInv, AlignedInv
<1>9. /\ stream'[s] = Append(stream[s], Service!WaitFor(latest[e]))
      /\ stream' \in [Streams -> Seq(ClientTask)]
      /\ \A r \in Streams : r # s => stream'[r] = stream[r]
  BY <1>2, <1>4, <1>5, <1>6 DEF HistoryInv, NamesInv
<1>10. NamesInv'
  BY <1>1, <1>4, <1>9 DEF HistoryInv, NamesInv
<1>11. AlignedInv'
  BY <1>4, <1>5, <1>8, <1>9 DEF HistoryInv, AlignedInv
<1>12. Service!Wait(e, s)
  BY <1>1, <1>2, <1>4, <1>6 DEF Service!Wait
<1> QED  BY <1>2, <1>10, <1>11, <1>12

LEMMA RecordStep ==
  ASSUME TypeInv, RecycleInv, HistoryInv, Track, NEW t \in Threads, RecordDo(t)
  PROVE  /\ NamesInv' /\ AlignedInv'
         /\ \E e \in Events, s \in Streams : Service!Record(e, s)
<1> DEFINE s == st[t]
           e == ev[t]
           name == Service!NewRecord
<1>1. /\ pc[t] = "record" /\ Enqueue(s, RecordTask(e)) /\ UNCHANGED busy
      /\ recorded' = [recorded EXCEPT ![e] = TRUE]
  BY DEF RecordDo
<1>2. /\ s \in Streams /\ e \in busy /\ e \in Events
      /\ \A r \in Streams : ~PendingOn(RecordTask(e), r) /\ ~PendingOn(WaitTask(e), r)
  BY <1>1 DEF TypeInv, CallOK, TypeOK, RangeOK, RecycleInv, ResetOK, HistoryInv, RecordClear
<1>3. /\ name \in Records /\ name # NoRecord /\ name \in Records \ Service!Referred
      /\ \A d \in Events : latest[d] # name
  BY FreshName, NoRecordAssumption
<1> HIDE DEF s, e
<1>4. RecordTask(e) \in Task /\ RecordTask(e).op # "mark"
  BY <1>2, TaskKinds DEF RecordTask
<1>5. /\ latest' = [latest EXCEPT ![e] = name]
      /\ stream' = [stream EXCEPT ![s] = Append(@, Service!RecordOf(name))]
  BY <1>1, <1>2, <1>4, TrackPut
<1> HIDE DEF name
<1>6. /\ \A r \in Streams : queue'[r] = IF r = s THEN Append(queue[s], RecordTask(e)) ELSE queue[r]
      /\ queue[s] \in Seq(Task) /\ stream[s] \in Seq(ClientTask)
  BY <1>1, <1>2, <1>4, QueueAppend DEF TypeInv, TypeOK, RangeOK, HistoryInv, NamesInv
<1>7. /\ latest'[e] = name /\ latest' \in [Events -> Records \cup {NoRecord}]
      /\ \A d \in Events : d # e => latest'[d] = latest[d]
  BY <1>2, <1>3, <1>5 DEF HistoryInv, NamesInv
<1>8. Service!RecordOf(name) \in ClientTask /\ Service!RecordOf(name) = Shown(RecordTask(e), latest')
  BY <1>3, <1>7 DEF ClientTask, Service!RecordOf, Shown, RecordTask
<1>9. \A r \in Streams : Aligned(stream[r], queue[r], latest')
  BY <1>2, <1>7, AlignNames DEF HistoryInv, AlignedInv
<1>10. Aligned(Append(stream[s], Service!RecordOf(name)), Append(queue[s], RecordTask(e)), latest')
  BY <1>2, <1>4, <1>6, <1>8, <1>9, AlignAppend
<1>11. /\ stream'[s] = Append(stream[s], Service!RecordOf(name))
       /\ stream' \in [Streams -> Seq(ClientTask)]
       /\ \A r \in Streams : r # s => stream'[r] = stream[r]
  BY <1>2, <1>5, <1>6, <1>8 DEF HistoryInv, NamesInv
<1>12. NamesInv'
  <2>1. \A d \in Events : recorded'[d] <=> latest'[d] # NoRecord
    BY <1>1, <1>2, <1>3, <1>7 DEF HistoryInv, NamesInv, TypeInv, TypeOK, RangeOK
  <2>2. \A c, d \in Events : latest'[c] = latest'[d] /\ latest'[d] # NoRecord => c = d
    BY <1>3, <1>7 DEF HistoryInv, NamesInv
  <2> QED  BY <1>7, <1>11, <2>1, <2>2 DEF NamesInv
<1>13. AlignedInv'
  BY <1>6, <1>9, <1>10, <1>11 DEF AlignedInv
<1>14. Service!Record(e, s)
  BY <1>1, <1>2, <1>3, <1>5 DEF Service!Record, Service!RecordAs
<1> QED  BY <1>2, <1>12, <1>13, <1>14

LEMMA RunStep ==
  ASSUME TypeInv, RecycleInv, HistoryInv, Track, NEW s \in Streams, DeviceStep(s)
  PROVE  NamesInv' /\ AlignedInv' /\ (Service!Run(s) \/ Service!Think)
<1>1. /\ queue[s] # <<>> /\ queue' = [queue EXCEPT ![s] = Tail(@)] /\ UNCHANGED <<busy, recorded>>
  BY DEF DeviceStep, DeviceRecord, DeviceWait, DeviceMark, pool
<1>2. /\ \A r \in Streams : queue'[r] = IF r = s THEN Tail(queue[s]) ELSE queue[r]
      /\ queue[s] \in Seq(Task) /\ stream[s] \in Seq(ClientTask)
      /\ Aligned(stream[s], queue[s], latest)
      /\ PendingOn(Head(queue[s]), s)
  BY <1>1, QueueTail DEF TypeInv, TypeOK, RangeOK, HistoryInv, NamesInv, AlignedInv
<1>3. /\ latest' = latest
      /\ Head(queue[s]).op = "mark" => stream' = stream
      /\ Head(queue[s]).op # "mark" => stream' = [stream EXCEPT ![s] = Tail(@)]
  BY <1>1, TrackRun
<1>4. CASE Head(queue[s]).op = "mark"
  <2>1. Aligned(stream[s], Tail(queue[s]), latest)
    BY <1>1, <1>2, <1>4, AlignTailMark
  <2> QED  BY <1>1, <1>2, <1>3, <1>4, <2>1 DEF HistoryInv, NamesInv, AlignedInv, Service!Think
<1>5. CASE Head(queue[s]).op # "mark"
  <2>1. /\ stream[s] # <<>> /\ Head(stream[s]) = Shown(Head(queue[s]), latest)
        /\ Aligned(Tail(stream[s]), Tail(queue[s]), latest)
    BY <1>1, <1>2, <1>5, AlignTail
  <2>2. Tail(stream[s]) \in Seq(ClientTask)
    BY <1>2, <2>1
  <2>3. /\ stream'[s] = Tail(stream[s])
        /\ \A r \in Streams : r # s => stream'[r] = stream[r]
        /\ stream' \in [Streams -> Seq(ClientTask)]
    BY <1>3, <1>5, <2>2 DEF HistoryInv, NamesInv
  <2>4. NamesInv'
    BY <1>1, <1>3, <2>3 DEF HistoryInv, NamesInv
  <2>5. AlignedInv'
    BY <1>2, <1>3, <2>1, <2>3 DEF HistoryInv, AlignedInv
  <2>6. ASSUME NEW r \in Records, Head(stream[s]) = Service!WaitFor(r)
        PROVE  Service!HasRun(r)
    <3>1. Head(queue[s]).op = "wait" /\ r = latest[Head(queue[s]).arg]
      BY <2>1, <2>6 DEF Shown, Service!WaitFor
    <3>2. /\ \A e \in Events : Head(queue[s]) # RecordTask(e)
          /\ \A t \in Threads : Head(queue[s]) # MarkTask(t)
      BY <3>1 DEF RecordTask, MarkTask
    <3>3. PICK e \in Events : Head(queue[s]) = WaitTask(e) /\ flag[e]
      BY <3>2 DEF DeviceStep, DeviceRecord, DeviceWait, DeviceMark
    <3>4. e \in Held /\ recorded[e] /\ r = latest[e]
      BY <1>2, <3>1, <3>3 DEF RecycleInv, PendingOK, WaitTask
    <3>5. \A q \in Streams : ~PendingOn(RecordTask(e), q)
      BY <3>3, <3>4 DEF RecycleInv, FlagOK
    <3> QED  BY <3>4, <3>5, LatestHasRun DEF HistoryInv, NamesInv
  <2>7. Service!Run(s)
    BY <1>1, <1>3, <1>5, <2>1, <2>6 DEF Service!Run, Service!Ready
  <2> QED  BY <2>4, <2>5, <2>7
<1> QED  BY <1>4, <1>5

(* No wait is added for the event a thread is about to record.             *)
LEMMA ClearKeeps ==
  ASSUME HistoryInv,
         \A t \in Threads : pc'[t] = "record" => pc[t] = "record" /\ ev'[t] = ev[t],
         \A y : \A s \in Streams : PendingOn(y, s)' =>
            \/ PendingOn(y, s)
            \/ \E t \in Threads : y = MarkTask(t) \/ y = RecordTask(ev[t])
  PROVE  RecordClear'
<1>1. \A e, t : WaitTask(e) # MarkTask(t) /\ WaitTask(e) # RecordTask(t)
  BY DEF WaitTask, MarkTask, RecordTask
<1> QED  BY <1>1 DEF HistoryInv, RecordClear

LEMMA ClearStep ==
  ASSUME Discipline, TypeInv, RecycleInv, HistoryInv, Next
  PROVE  RecordClear'
<1> USE NoneAssumption DEF Discipline
<1>1. ASSUME NEW t \in Threads, NEW s \in Streams, DrainStream(t, s)
      PROVE  RecordClear'
  <2>1. CASE s \in alive
    <3>1. Enqueue(s, MarkTask(t)) /\ pc' = [pc EXCEPT ![t] = "sync"] /\ ev' = ev
      BY <1>1, <2>1 DEF DrainStream, Goto
    <3>2. \A y : \A r \in Streams : PendingOn(y, r)' <=> PendingOn(y, r) \/ (r = s /\ y = MarkTask(t))
      BY <3>1, QueueAppend, TaskKinds DEF TypeInv, TypeOK, RangeOK
    <3>3. \A u \in Threads : pc'[u] = "record" => pc[u] = "record" /\ ev'[u] = ev[u]
      BY <3>1 DEF TypeInv, TypeOK, RangeOK
    <3> QED  BY <3>2, <3>3, ClearKeeps
  <2>2. CASE s \notin alive
    BY <1>1, <2>2 DEF DrainStream, Stop, local, device, HistoryInv, RecordClear, PendingOn
  <2> QED  BY <2>1, <2>2
<1>2. ASSUME NEW t \in Threads, RecordDo(t)
      PROVE  RecordClear'
  <2>1. /\ pc[t] = "record" /\ Enqueue(st[t], RecordTask(ev[t]))
        /\ pc' = [pc EXCEPT ![t] = "out"] /\ ev' = [ev EXCEPT ![t] = None]
    BY <1>2 DEF RecordDo, Return, Goto
  <2>2. st[t] \in Streams /\ ev[t] \in Events
    BY <2>1 DEF TypeInv, CallOK, TypeOK, RangeOK
  <2>3. \A y : \A r \in Streams :
          PendingOn(y, r)' <=> PendingOn(y, r) \/ (r = st[t] /\ y = RecordTask(ev[t]))
    BY <2>1, <2>2, QueueAppend, TaskKinds DEF TypeInv, TypeOK, RangeOK
  <2>4. \A u \in Threads : pc'[u] = "record" => pc[u] = "record" /\ ev'[u] = ev[u]
    BY <2>1 DEF TypeInv, TypeOK, RangeOK
  <2> QED  BY <2>3, <2>4, ClearKeeps
<1>3. ASSUME NEW t \in Threads, WaitEnqueue(t)
      PROVE  RecordClear'
  <2>1. /\ pc[t] = "waitEnqueue" /\ Enqueue(st[t], WaitTask(ev[t])) /\ ev' = ev
        /\ pc' = [pc EXCEPT ![t] = "waitPush"]
    BY <1>3 DEF WaitEnqueue, Goto, local
  <2>2. st[t] \in Streams /\ ev[t] \in Events
    BY <2>1 DEF TypeInv, CallOK, TypeOK, RangeOK
  <2>3. \A y : \A r \in Streams :
          PendingOn(y, r)' <=> PendingOn(y, r) \/ (r = st[t] /\ y = WaitTask(ev[t]))
    BY <2>1, <2>2, QueueAppend, TaskKinds DEF TypeInv, TypeOK, RangeOK
  <2>4. \A u \in Threads : pc'[u] = "record" => pc[u] = "record" /\ u # t
    BY <2>1 DEF TypeInv, TypeOK, RangeOK
  <2>5. \A u \in Threads : pc'[u] = "record" => WaitTask(ev[u]) # WaitTask(ev[t])
    <3>1. \A u \in Threads : pc'[u] = "record" => ev[u] \in Events /\ ev[u] # ev[t]
      BY <2>2, <2>4 DEF TypeInv, CallOK, TypeOK, RangeOK, RecycleInv, DistinctOK
    <3> QED  BY <2>2, <3>1, TaskKinds
  <2> QED  BY <2>1, <2>3, <2>4, <2>5 DEF HistoryInv, RecordClear
<1>4. ASSUME NEW s \in Streams, DeviceStep(s)
      PROVE  RecordClear'
  <2>1. /\ queue[s] # <<>> /\ queue' = [queue EXCEPT ![s] = Tail(@)] /\ ev' = ev
        /\ pc' = pc \/ \E t \in Threads : pc' = [pc EXCEPT ![t] = "drain"]
    BY <1>4 DEF DeviceStep, DeviceRecord, DeviceWait, DeviceMark, Goto, local
  <2>2. \A y : \A r \in Streams : PendingOn(y, r)' => PendingOn(y, r)
    BY <2>1, QueueTail DEF TypeInv, TypeOK, RangeOK
  <2>3. \A u \in Threads : pc'[u] = "record" => pc[u] = "record" /\ ev'[u] = ev[u]
    BY <2>1 DEF TypeInv, TypeOK, RangeOK
  <2> QED  BY <2>2, <2>3, ClearKeeps
<1>5. ASSUME NEW t \in Threads, ResetFinish(t)
      PROVE  RecordClear'
  <2>1. CASE recStream[ev[t]] \in alive \cup {None}
    <3>1. /\ pc[t] = "reset" /\ queue' = queue
          /\ pc' = [pc EXCEPT ![t] = back[t]]
          /\ back[t] = "scan" \/ ev' = ev
          /\ \A u \in Threads : u # t => ev'[u] = ev[u]
      BY <1>5, <2>1 DEF ResetFinish, Goto, TypeInv, TypeOK, RangeOK
    <3>2. \A s \in Streams : ~PendingOn(WaitTask(ev[t]), s)
      BY <3>1 DEF RecycleInv, ResetOK
    <3>3. \A u \in Threads : pc'[u] = "record" => ev'[u] = ev[u] /\ (u = t \/ pc[u] = "record")
      BY <3>1 DEF TypeInv, TypeOK, RangeOK
    <3> QED  BY <3>1, <3>2, <3>3 DEF HistoryInv, RecordClear, PendingOn
  <2>2. CASE recStream[ev[t]] \notin alive \cup {None}
    BY <1>5, <2>2 DEF ResetFinish, Stop, local, device, HistoryInv, RecordClear, PendingOn
  <2> QED  BY <2>1, <2>2
<1>6. ASSUME NEW t \in Threads, NEW e \in Events, NEW s \in Streams, RecordEnter(t, e, s)
      PROVE  RecordClear'
  <2>1. queue' = queue /\ ev' = [ev EXCEPT ![t] = e]
    BY <1>6 DEF RecordEnter, ResetCall, device
  <2>2. CASE recorded[e]
    <3>1. \A u \in Threads : pc'[u] = "record" => pc[u] = "record" /\ ev'[u] = ev[u]
      BY <1>6, <2>1, <2>2 DEF RecordEnter, ResetCall, Goto, TypeInv, TypeOK, RangeOK
    <3> QED  BY <2>1, <3>1 DEF HistoryInv, RecordClear, PendingOn
  <2>3. CASE ~recorded[e]
    <3>1. pc' = [pc EXCEPT ![t] = "record"]
      BY <1>6, <2>3 DEF RecordEnter, Goto
    <3>2. \A u \in Threads : ev'[u] = IF u = t THEN e ELSE ev[u]
      BY <2>1 DEF TypeInv, TypeOK, RangeOK
    <3>3. \A u \in Threads : pc'[u] = "record" => u = t \/ pc[u] = "record"
      BY <3>1 DEF TypeInv, TypeOK, RangeOK
    <3>4. \A r \in Streams : ~PendingOn(WaitTask(e), r)
      BY <2>3 DEF RecycleInv, PendingOK
    <3> QED  BY <2>1, <3>2, <3>3, <3>4 DEF HistoryInv, RecordClear, PendingOn
  <2> QED  BY <2>2, <2>3
<1>7. ASSUME NEW t \in Threads,
             \/ CreateEnter(t) \/ DrainDone(t) \/ WaitPush(t) \/ PostDestroyStream(t) \/ Release(t)
             \/ \E e \in Events : \/ DestroyEvent(t, e) \/ ScanUnrecorded(t, e) \/ ScanPending(t, e)
                                  \/ ScanComplete(t, e) \/ CreateTake(t, e)
             \/ \E s \in Streams : DestroyStream(t, s)
             \/ \E e \in Events, s \in Streams : WaitCheck(t, e, s)
      PROVE  RecordClear'
  <2>1. queue' = queue
    BY <1>7 DEF CreateEnter, DrainDone, WaitPush, PostDestroyStream, Release, DestroyEvent,
       ScanUnrecorded, ScanPending, ScanComplete, CreateTake, DestroyStream, WaitCheck, Stop, device
  <2>2. \A u \in Threads : pc'[u] = "record" => pc[u] = "record" /\ ev'[u] = ev[u]
    BY <1>7 DEF CreateEnter, DrainDone, WaitPush, PostDestroyStream, Release, DestroyEvent,
       ScanUnrecorded, ScanPending, ScanComplete, CreateTake, DestroyStream, WaitCheck, Stop,
       ResetCall, Return, Goto, local, TypeInv, TypeOK, RangeOK
  <2> QED  BY <2>1, <2>2 DEF HistoryInv, RecordClear, PendingOn
<1> QED
  BY <1>1, <1>2, <1>3, <1>4, <1>5, <1>6, <1>7 DEF Next, ClientStep, InnerStep

HistoryVars == <<vars, latest, stream>>

(* Every step of the pool is a step of EventService or none.               *)
LEMMA HistoryStep ==
  ASSUME Discipline, TypeInv, RecycleInv, HistoryInv, HNext
  PROVE  /\ HistoryInv'
         /\ \/ \E e \in Events : Service!Create(e)
            \/ \E gone \in SUBSET Events : Service!Destroy(gone)
            \/ \E e \in Events, s \in Streams : Service!Record(e, s) \/ Service!Wait(e, s)
            \/ \E s \in Streams : Service!Run(s)
            \/ Service!Think
<1> DEFINE Shows == /\ NamesInv' /\ AlignedInv'
                    /\ \/ \E e \in Events : Service!Create(e)
                       \/ \E gone \in SUBSET Events : Service!Destroy(gone)
                       \/ \E e \in Events, s \in Streams : Service!Record(e, s) \/ Service!Wait(e, s)
                       \/ \E s \in Streams : Service!Run(s)
                       \/ Service!Think
<1>1. Next /\ Track
  BY DEF HNext
<1>2. RecordClear'
  BY <1>1, ClearStep
<1>3. ASSUME queue' = queue, recorded' = recorded, busy' \subseteq busy
      PROVE  Shows
  <2>1. busy \ busy' \in SUBSET Events
    BY DEF TypeInv, TypeOK, RangeOK
  <2> QED  BY <1>1, <1>3, <2>1, QuietStep
<1>4. ASSUME NEW t \in Threads, NEW e \in Events, CreateTake(t, e)  PROVE Shows
  BY <1>1, <1>4, CreateStep
<1>5. ASSUME NEW t \in Threads, NEW s \in Streams, DrainStream(t, s)  PROVE Shows
  <2>1. CASE s \in alive
    BY <1>1, <1>5, <2>1, MarkStep DEF DrainStream, pool
  <2>2. CASE s \notin alive
    BY <1>3, <1>5, <2>2 DEF DrainStream, Stop, pool, device
  <2> QED  BY <2>1, <2>2
<1>6. ASSUME NEW t \in Threads, WaitEnqueue(t)  PROVE Shows
  BY <1>1, <1>6, WaitStep
<1>7. ASSUME NEW t \in Threads, RecordDo(t)  PROVE Shows
  BY <1>1, <1>7, RecordStep
<1>8. ASSUME NEW s \in Streams, DeviceStep(s)  PROVE Shows
  BY <1>1, <1>8, RunStep
<1>9. ASSUME NEW t \in Threads,
             \/ CreateEnter(t) \/ DrainDone(t) \/ ResetFinish(t) \/ WaitPush(t)
             \/ PostDestroyStream(t) \/ Release(t)
             \/ \E e \in Events : \/ DestroyEvent(t, e) \/ ScanUnrecorded(t, e)
                                  \/ ScanPending(t, e) \/ ScanComplete(t, e)
             \/ \E s \in Streams : DestroyStream(t, s)
             \/ \E e \in Events, s \in Streams : WaitCheck(t, e, s) \/ RecordEnter(t, e, s)
      PROVE  Shows
  <2>1. queue' = queue /\ recorded' = recorded /\ busy' \subseteq busy
    BY <1>9 DEF CreateEnter, DrainDone, ResetFinish, WaitPush, PostDestroyStream, Release,
       DestroyEvent, ScanUnrecorded, ScanPending, ScanComplete, DestroyStream, WaitCheck,
       RecordEnter, Stop, pool, device
  <2> QED  BY <1>3, <2>1
<1>10. Shows
  BY <1>1, <1>4, <1>5, <1>6, <1>7, <1>8, <1>9 DEF Next, ClientStep, InnerStep
<1> QED  BY <1>2, <1>10 DEF HistoryInv

(* The recycled handles implement the events a client expects: a wait      *)
(* passes only when the record it was issued for has run, although the     *)
(* handle may be recorded again, destroyed and handed out anew, and a query*)
(* never answers for another record; for any number of threads, handles and*)
(* streams and a client under Discipline.                                  *)
THEOREM PoolImplementsService ==
  ASSUME Discipline
  PROVE  HSpec => ImplementsService
<1> DEFINE Answers == {e \in busy : QueryEvent(e)} \subseteq Service!Answerable
<1>1. HInit => TypeInv /\ RecycleInv /\ HistoryInv
  BY TypeInit, RecycleInit, HistoryInit DEF HInit
<1>2. TypeInv /\ RecycleInv /\ HistoryInv /\ [HNext]_HistoryVars => (TypeInv /\ RecycleInv /\ HistoryInv)'
  <2> SUFFICES ASSUME TypeInv, RecycleInv, HistoryInv, [HNext]_HistoryVars
               PROVE  (TypeInv /\ RecycleInv /\ HistoryInv)'
    OBVIOUS
  <2>1. [Next]_vars
    BY DEF HNext, HistoryVars
  <2>2. TypeInv'
    BY <2>1, TypeStep
  <2>3. RecycleInv'
    BY <2>1, <2>2, RecycleStep
  <2>4. CASE HNext
    BY <2>2, <2>3, <2>4, HistoryStep
  <2>5. CASE UNCHANGED HistoryVars
    BY <2>2, <2>3, <2>5 DEF HistoryVars, vars, pool, local, device, HistoryInv, NamesInv, AlignedInv,
       RecordClear, PendingOn
  <2> QED  BY <2>4, <2>5
<1>3. TypeInv /\ RecycleInv /\ HistoryInv => Answers
  BY AnswersRight
<1>4. HInit => Service!Init
  BY DEF HInit, Init, Service!Init
<1>5. TypeInv /\ RecycleInv /\ HistoryInv /\ Answers' /\ [HNext]_HistoryVars => [Service!Next]_(Service!vars)
  <2> SUFFICES ASSUME TypeInv, RecycleInv, HistoryInv, Answers', [HNext]_HistoryVars
               PROVE  [Service!Next]_(Service!vars)
    OBVIOUS
  <2>1. CASE HNext
    BY <2>1, HistoryStep DEF Service!Next
  <2>2. CASE UNCHANGED HistoryVars
    BY <2>2 DEF HistoryVars, vars, pool, device, Service!vars, QueryEvent
  <2> QED  BY <2>1, <2>2
<1> HIDE DEF Answers
<1> QED  BY <1>1, <1>2, <1>3, <1>4, <1>5, PTL DEF HSpec, HistoryVars, ImplementsService, Service!Spec
=============================================================================
