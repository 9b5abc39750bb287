------------------------ MODULE SdaaPinnedRingProofs ------------------------
(***************************************************************************)
(* StagedIntact for every number of blocks, streams and sources, if one    *)
(* thread at a time is in a call.  The invariant: behind every pending copy*)
(* from a block there is a pending record of the block's event, so a block *)
(* whose event has completed is not read any more.                         *)
(***************************************************************************)
EXTENDS SdaaPinnedRing, TaskQueueLemmas

Using == {"query", "copy", "event", "record"}

OneCall == \A t, u \in Threads : pc[t] # "out" /\ pc[u] # "out" => t = u

(* The streams are empty until the ring is ready.                          *)
PhaseOK ==
  /\ phase # "ready" => \A s \in Streams : queue[s] = <<>>
  /\ phase = "published" => \E t \in Threads : pc[t] \in {"alloc", "events"}
  /\ \A t \in Threads : pc[t] \in {"alloc", "events"} => phase = "published"
  /\ \A t \in Threads : pc[t] \in Using \cup {"clear"} => phase = "ready"

(* A thread stays with the slot of the counter, which nothing pending uses *)
(* from the time its event has completed until the copy is started.        *)
SlotOK ==
  \A t \in Threads :
    /\ pc[t] \in Using => slot[t] = counter /\ src[t] \in Data /\ st[t] \in Streams
    /\ pc[t] \in {"copy", "event"} =>
         /\ content[counter] = src[t]
         /\ \A s \in Streams : ~PendingOn(RecordTask(counter), s)
    /\ pc[t] = "copy" =>
         \A s \in Streams, d \in Data : ~PendingOn(CopyTask(counter, d), s)
    /\ pc[t] = "event" =>
         \A s \in Streams, d \in Data : PendingOn(CopyTask(counter, d), s) => s = st[t]

NotedOK == \A b \in Slots : noted[b] \in {None, b}

RecordedOK == \A i \in Slots, s \in Streams : PendingOn(RecordTask(i), s) => recordedOn[i] = s

CoveredOK ==
  \A s \in Streams, b \in Slots, d \in Data : PendingOn(CopyTask(b, d), s) =>
    /\ content[b] = d
    /\ \/ Before(CopyTask(b, d), RecordTask(b), queue[s])
       \/ \E t \in Threads : pc[t] = "event" /\ slot[t] = b

RingInv == TypeOK /\ OneCall /\ PhaseOK /\ SlotOK /\ NotedOK /\ RecordedOK /\ CoveredOK

-----------------------------------------------------------------------------
(* Copies and records are told apart by their kind and their block.        *)
LEMMA TaskKinds ==
  /\ \A b \in Slots, d \in Data : CopyTask(b, d) \in Task
  /\ \A i \in Slots : RecordTask(i) \in Task
  /\ DirectTask \in Task
  /\ \A b, i, d : CopyTask(b, d) # RecordTask(i)
  /\ \A b, c, d, e : CopyTask(b, d) = CopyTask(c, e) => b = c /\ d = e
  /\ \A i, j : RecordTask(i) = RecordTask(j) => i = j
  /\ \A b, d : CopyTask(b, d) # DirectTask /\ RecordTask(b) # DirectTask
<1>1. /\ \A b \in Slots, d \in Data : CopyTask(b, d) \in Task
      /\ \A i \in Slots : RecordTask(i) \in Task
      /\ DirectTask \in Task
  BY DEF Task
<1>2. /\ \A b, d : /\ CopyTask(b, d).op = "copy" /\ CopyTask(b, d).block = b
                   /\ CopyTask(b, d).data = d
      /\ \A i : RecordTask(i).op = "record" /\ RecordTask(i).event = i
      /\ DirectTask.op = "direct"
  BY DEF CopyTask, RecordTask, DirectTask
<1>3. "copy" # "record" /\ "copy" # "direct" /\ "record" # "direct"
  OBVIOUS
<1> QED  BY ONLY <1>1, <1>2, <1>3

(* What a call that enqueues a task changes.                               *)
LEMMA QueueAppend ==
  ASSUME queue \in [Streams -> Seq(Task)], NEW s \in Streams, NEW x \in Task, Enqueue(s, x)
  PROVE  /\ queue' \in [Streams -> Seq(Task)]
         /\ queue[s] \in Seq(Task)
         /\ \A r \in Streams : queue'[r] = IF r = s THEN Append(queue[s], x) ELSE queue[r]
         /\ \A y : \A r \in Streams : PendingOn(y, r)' <=> PendingOn(y, r) \/ (r = s /\ y = x)
<1>1. Append(queue[s], x) \in Seq(Task)
  OBVIOUS
<1>2. \A r \in Streams : queue'[r] = IF r = s THEN Append(queue[s], x) ELSE queue[r]
  BY DEF Enqueue
<1>3. \A y : In(y, Append(queue[s], x)) <=> In(y, queue[s]) \/ y = x
  BY InAppend
<1>4. ASSUME NEW r \in Streams, NEW y
      PROVE  PendingOn(y, r)' <=> PendingOn(y, r) \/ (r = s /\ y = x)
  BY <1>2, <1>3 DEF PendingOn
<1> QED  BY <1>1, <1>2, <1>4 DEF Enqueue

(* What the end of the task at the head of a stream changes.               *)
LEMMA QueueTail ==
  ASSUME queue \in [Streams -> Seq(Task)], NEW s \in Streams, queue[s] # <<>>,
         queue' = [queue EXCEPT ![s] = Tail(@)]
  PROVE  /\ queue' \in [Streams -> Seq(Task)]
         /\ queue[s] \in Seq(Task)
         /\ \A r \in Streams : queue'[r] = IF r = s THEN Tail(queue[s]) ELSE queue[r]
         /\ \A y : \A r \in Streams : PendingOn(y, r)' => PendingOn(y, r)
<1>1. Tail(queue[s]) \in Seq(Task)
  OBVIOUS
<1>2. \A r \in Streams : queue'[r] = IF r = s THEN Tail(queue[s]) ELSE queue[r]
  OBVIOUS
<1>3. \A y : In(y, Tail(queue[s])) => In(y, queue[s])
  BY InTail
<1>4. ASSUME NEW r \in Streams, NEW y
      PROVE  PendingOn(y, r)' => PendingOn(y, r)
  BY <1>2, <1>3 DEF PendingOn
<1> QED  BY <1>1, <1>2, <1>4

(* A task that is in an empty stream nowhere is.                           *)
LEMMA NothingPending ==
  ASSUME NEW s \in Streams, queue[s] = <<>>, NEW y
  PROVE  ~PendingOn(y, s)
  BY DEF PendingOn, In

(* A block whose event has completed is not read by any pending copy.      *)
LEMMA DoneMeansFree ==
  ASSUME RingInv, NEW b \in Slots, EventDone(b),
         \A t \in Threads : pc[t] = "event" => slot[t] # b
  PROVE  /\ \A s \in Streams : ~PendingOn(RecordTask(b), s)
         /\ \A s \in Streams, d \in Data : ~PendingOn(CopyTask(b, d), s)
<1>1. \A s \in Streams : ~PendingOn(RecordTask(b), s)
  BY DEF RingInv, RecordedOK, EventDone
<1>2. ASSUME NEW s \in Streams, NEW d \in Data, PendingOn(CopyTask(b, d), s)
      PROVE  FALSE
  <2>1. Before(CopyTask(b, d), RecordTask(b), queue[s])
    BY <1>2 DEF RingInv, CoveredOK
  <2>2. Len(queue[s]) \in Nat
    BY DEF RingInv, TypeOK
  <2>3. PICK i \in 1..Len(queue[s]) : queue[s][i] = CopyTask(b, d)
    BY <1>2 DEF PendingOn, In
  <2>4. PICK j \in (i+1)..Len(queue[s]) : queue[s][j] = RecordTask(b)
    BY <2>1, <2>3 DEF Before
  <2>5. j \in 1..Len(queue[s])
    BY <2>2
  <2> QED  BY <1>1, <2>4, <2>5 DEF PendingOn, In
<1> QED  BY <1>1, <1>2

(* The invariant holds initially.                                          *)
LEMMA RingInit == Init => RingInv
  BY NumBlocksAssumption
  DEF Init, RingInv, TypeOK, OneCall, PhaseOK, SlotOK, NotedOK, RecordedOK, CoveredOK, Slots,
      Using, PendingOn, In

(* Every step preserves the invariant, if calls do not overlap.            *)
LEMMA RingStep ==
  ASSUME ~Concurrent, RingInv, [Next]_vars
  PROVE  RingInv'
<1> USE NumBlocksAssumption, NoneAssumption
<1>1. ASSUME NEW t \in Threads, SetDevice(t)
      PROVE  RingInv'
  <2>9. /\ pc[t] = "out" /\ \A u \in Threads : u # t => pc[u] = "out"
        /\ \A u \in Threads : pc'[u] = IF u = t THEN "alloc" ELSE "out"
    BY <1>1 DEF SetDevice, Goto, Outside, RingInv, TypeOK, OneCall
  <2>1. TypeOK'
    <3>1. 0 \in Slots
      BY DEF Slots
    <3> QED  BY <1>1, <3>1 DEF SetDevice, Goto, local, device, RingInv, TypeOK
  <2>2. OneCall'
    BY <1>1, <2>9 DEF SetDevice, Goto, Outside, ring, local, device, RingInv, TypeOK, OneCall
  <2>3. PhaseOK'
    BY <1>1, <2>9 DEF SetDevice, Goto, Outside, ring, local, device, RingInv, TypeOK, PhaseOK, Using
  <2>4. SlotOK'
    BY <1>1, <2>9 DEF SetDevice, Goto, Outside, ring, local, device, RingInv, TypeOK, SlotOK, Using, PendingOn
  <2>5. NotedOK'
    BY <1>1, <2>9 DEF SetDevice, Goto, Outside, ring, local, device, RingInv, TypeOK, NotedOK
  <2>6. RecordedOK'
    BY <1>1, <2>9 DEF SetDevice, Goto, Outside, ring, local, device, RingInv, TypeOK, RecordedOK, PendingOn
  <2>7. CoveredOK'
    BY <1>1, <2>9 DEF SetDevice, Goto, Outside, ring, local, device, RingInv, TypeOK, CoveredOK, PendingOn
  <2> QED  BY <2>1, <2>2, <2>3, <2>4, <2>5, <2>6, <2>7 DEF RingInv
<1>2. ASSUME NEW t \in Threads, Alloc(t)
      PROVE  RingInv'
  <2>9. /\ pc[t] = "alloc" /\ \A u \in Threads : u # t => pc[u] = "out"
        /\ \A u \in Threads : pc'[u] = IF u = t THEN "events" ELSE "out"
        /\ phase = "published" /\ \A s \in Streams : queue'[s] = <<>>
    BY <1>2 DEF Alloc, Goto, Outside, RingInv, TypeOK, OneCall, PhaseOK, device, local
  <2>1. TypeOK'
    BY <1>2, <2>9 DEF Alloc, Goto, Outside, ring, local, device, RingInv, TypeOK
  <2>2. OneCall'
    BY <1>2, <2>9 DEF Alloc, Goto, Outside, ring, local, device, RingInv, TypeOK, OneCall
  <2>3. PhaseOK'
    BY <1>2, <2>9 DEF Alloc, Goto, Outside, ring, local, device, RingInv, TypeOK, PhaseOK, Using
  <2>4. SlotOK'
    BY <2>9 DEF SlotOK, Using
  <2>5. NotedOK'
    BY <1>2, <2>9 DEF Alloc, Goto, Outside, ring, local, device, RingInv, TypeOK, NotedOK
  <2>6. RecordedOK'
    BY <2>9 DEF RecordedOK, PendingOn, In
  <2>7. CoveredOK'
    BY <2>9 DEF CoveredOK, PendingOn, In
  <2> QED  BY <2>1, <2>2, <2>3, <2>4, <2>5, <2>6, <2>7 DEF RingInv
<1>3. ASSUME NEW t \in Threads, CreateEvents(t)
      PROVE  RingInv'
  <2>9. /\ pc[t] = "events" /\ \A u \in Threads : u # t => pc[u] = "out"
        /\ \A u \in Threads : pc'[u] = IF u = t THEN "out" ELSE "out"
        /\ \A s \in Streams : queue'[s] = <<>>
    BY <1>3 DEF CreateEvents, Goto, Outside, RingInv, TypeOK, OneCall, PhaseOK, device, local
  <2>1. TypeOK'
    BY <1>3, <2>9 DEF CreateEvents, Goto, Outside, ring, local, device, RingInv, TypeOK
  <2>2. OneCall'
    BY <1>3, <2>9 DEF CreateEvents, Goto, Outside, ring, local, device, RingInv, TypeOK, OneCall
  <2>3. PhaseOK'
    BY <1>3, <2>9 DEF CreateEvents, PhaseOK, Using
  <2>4. SlotOK'
    BY <2>9 DEF SlotOK, Using
  <2>5. NotedOK'
    BY <1>3, <2>9 DEF CreateEvents, Goto, Outside, ring, local, device, RingInv, TypeOK, NotedOK
  <2>6. RecordedOK'
    BY <2>9 DEF RecordedOK, PendingOn, In
  <2>7. CoveredOK'
    BY <2>9 DEF CoveredOK, PendingOn, In
  <2> QED  BY <2>1, <2>2, <2>3, <2>4, <2>5, <2>6, <2>7 DEF RingInv
<1>4. ASSUME NEW t \in Threads, NEW s \in Streams, CopyLarge(t, s)
      PROVE  RingInv'
  <2>9. /\ queue' \in [Streams -> Seq(Task)] /\ queue[s] \in Seq(Task)
        /\ \A r \in Streams : queue'[r] = IF r = s THEN Append(queue[s], DirectTask) ELSE queue[r]
        /\ \A y : \A r \in Streams : PendingOn(y, r)' <=> PendingOn(y, r) \/ (r = s /\ y = DirectTask)
    BY <1>4, QueueAppend, TaskKinds DEF CopyLarge, RingInv, TypeOK
  <2>10. /\ UNCHANGED <<phase, counter, content, noted, pc, slot, src, st, todo, recordedOn>>
         /\ phase # "absent" /\ \A u \in Threads : pc[u] = "out"
    BY <1>4 DEF CopyLarge, Outside, ring, local
  <2>11. /\ \A i \in Slots, r \in Streams :
              PendingOn(RecordTask(i), r)' <=> PendingOn(RecordTask(i), r)
         /\ \A b \in Slots, d \in Data, r \in Streams :
              PendingOn(CopyTask(b, d), r)' <=> PendingOn(CopyTask(b, d), r)
    BY <2>9, TaskKinds
  <2>1. TypeOK'
    BY <2>9, <2>10 DEF RingInv, TypeOK
  <2>2. OneCall'
    BY <2>10 DEF OneCall
  <2>3. PhaseOK'
    BY <2>10 DEF RingInv, TypeOK, PhaseOK, Using
  <2>4. SlotOK'
    BY <2>10 DEF SlotOK, Using
  <2>5. NotedOK'
    BY <2>10 DEF RingInv, NotedOK
  <2>6. RecordedOK'
    BY <2>10, <2>11 DEF RingInv, RecordedOK
  <2>7. CoveredOK'
    <3> SUFFICES ASSUME NEW r \in Streams, NEW b \in Slots, NEW d \in Data,
                        PendingOn(CopyTask(b, d), r)
                 PROVE  /\ content[b] = d
                        /\ Before(CopyTask(b, d), RecordTask(b), queue'[r])
      BY <2>10, <2>11 DEF CoveredOK
    <3>1. content[b] = d /\ Before(CopyTask(b, d), RecordTask(b), queue[r])
      BY <2>10 DEF RingInv, CoveredOK
    <3>2. Before(CopyTask(b, d), RecordTask(b), Append(queue[r], DirectTask)) \/ r # s
      BY <2>9, <3>1, BeforeAppend, TaskKinds
    <3> QED  BY <2>9, <3>1, <3>2
  <2> QED  BY <2>1, <2>2, <2>3, <2>4, <2>5, <2>6, <2>7 DEF RingInv
<1>5. ASSUME NEW t \in Threads, NEW s \in Streams, NEW d \in Data, CopyEnter(t, s, d)
      PROVE  RingInv'
  <2>1. TypeOK'
    BY <1>5 DEF CopyEnter, Goto, Outside, ring, local, device, RingInv, TypeOK
  <2>2. OneCall'
    BY <1>5 DEF CopyEnter, Goto, Outside, ring, local, device, RingInv, TypeOK, OneCall
  <2>3. PhaseOK'
    BY <1>5 DEF CopyEnter, Goto, Outside, ring, local, device, RingInv, TypeOK, PhaseOK, Using
  <2>4. SlotOK'
    BY <1>5 DEF CopyEnter, Goto, Outside, ring, local, device, RingInv, TypeOK, SlotOK, Using, PendingOn
  <2>5. NotedOK'
    BY <1>5 DEF CopyEnter, Goto, Outside, ring, local, device, RingInv, TypeOK, NotedOK
  <2>6. RecordedOK'
    BY <1>5 DEF CopyEnter, Goto, Outside, ring, local, device, RingInv, TypeOK, RecordedOK, PendingOn
  <2>7. CoveredOK'
    BY <1>5 DEF CopyEnter, Goto, Outside, ring, local, device, RingInv, TypeOK, CoveredOK, PendingOn
  <2> QED  BY <2>1, <2>2, <2>3, <2>4, <2>5, <2>6, <2>7 DEF RingInv
<1>6. ASSUME NEW t \in Threads, TakeBlock(t)
      PROVE  RingInv'
  <2>9. /\ pc[t] = "query" /\ \A u \in Threads : u # t => pc[u] = "out"
        /\ \A u \in Threads : pc'[u] = IF u = t THEN "copy" ELSE "out"
        /\ slot[t] = counter /\ src[t] \in Data /\ st[t] \in Streams /\ counter \in Slots
        /\ EventDone(counter)
        /\ content' = [content EXCEPT ![counter] = src[t]]
        /\ UNCHANGED <<phase, counter, noted, slot, src, st, todo, queue, recordedOn>>
    BY <1>6 DEF TakeBlock, Goto, Outside, RingInv, TypeOK, OneCall, SlotOK, Using, local, device
  <2>10. /\ \A s \in Streams : ~PendingOn(RecordTask(counter), s)
         /\ \A s \in Streams, d \in Data : ~PendingOn(CopyTask(counter, d), s)
    <3>1. \A u \in Threads : pc[u] # "event"
      BY <2>9
    <3> QED  BY <2>9, <3>1, DoneMeansFree
  <2>11. \A y : \A s \in Streams : PendingOn(y, s)' <=> PendingOn(y, s)
    BY <2>9 DEF PendingOn
  <2>1. TypeOK'
    BY <1>6, <2>9 DEF TakeBlock, Goto, Outside, ring, local, device, RingInv, TypeOK
  <2>2. OneCall'
    BY <1>6, <2>9 DEF TakeBlock, Goto, Outside, ring, local, device, RingInv, TypeOK, OneCall
  <2>3. PhaseOK'
    BY <1>6, <2>9 DEF TakeBlock, Goto, Outside, ring, local, device, RingInv, TypeOK, PhaseOK, Using
  <2>4. SlotOK'
    <3>1. content'[counter] = src[t]
      BY <2>9 DEF RingInv, TypeOK
    <3> QED  BY <2>9, <2>10, <2>11, <3>1 DEF SlotOK, Using
  <2>5. NotedOK'
    BY <1>6, <2>9 DEF TakeBlock, Goto, Outside, ring, local, device, RingInv, TypeOK, NotedOK
  <2>6. RecordedOK'
    BY <2>9, <2>11 DEF RingInv, RecordedOK
  <2>7. CoveredOK'
    <3> SUFFICES ASSUME NEW s \in Streams, NEW b \in Slots, NEW d \in Data,
                        PendingOn(CopyTask(b, d), s)
                 PROVE  content'[b] = d /\ Before(CopyTask(b, d), RecordTask(b), queue[s])
      BY <2>9, <2>11 DEF CoveredOK
    <3>1. b # counter
      BY <2>10
    <3> QED  BY <2>9, <3>1 DEF RingInv, TypeOK, CoveredOK
  <2> QED  BY <2>1, <2>2, <2>3, <2>4, <2>5, <2>6, <2>7 DEF RingInv
<1>7. ASSUME NEW t \in Threads, StartCopy(t)
      PROVE  RingInv'
  <2>9. /\ pc[t] = "copy" /\ \A u \in Threads : u # t => pc[u] = "out"
        /\ \A u \in Threads : pc'[u] = IF u = t THEN "event" ELSE "out"
        /\ slot[t] = counter /\ src[t] \in Data /\ st[t] \in Streams /\ counter \in Slots
        /\ content[counter] = src[t] /\ phase = "ready"
        /\ \A s \in Streams : ~PendingOn(RecordTask(counter), s)
        /\ \A s \in Streams, d \in Data : ~PendingOn(CopyTask(counter, d), s)
        /\ UNCHANGED <<phase, counter, content, noted, slot, src, st, todo, recordedOn>>
    BY <1>7 DEF StartCopy, Goto, Outside, RingInv, TypeOK, OneCall, SlotOK, PhaseOK, Using, local, ring
  <2>10. /\ queue' \in [Streams -> Seq(Task)] /\ queue[st[t]] \in Seq(Task) /\ CopyTask(counter, src[t]) \in Task
         /\ \A r \in Streams : queue'[r] = IF r = st[t] THEN Append(queue[r], CopyTask(counter, src[t])) ELSE queue[r]
         /\ \A y : \A r \in Streams : PendingOn(y, r)' <=> PendingOn(y, r) \/ (r = st[t] /\ y = CopyTask(counter, src[t]))
    BY <1>7, <2>9, QueueAppend, TaskKinds DEF StartCopy, RingInv, TypeOK
  <2>11. /\ \A i \in Slots, r \in Streams :
              PendingOn(RecordTask(i), r)' <=> PendingOn(RecordTask(i), r)
         /\ \A b \in Slots, d \in Data, r \in Streams :
              PendingOn(CopyTask(b, d), r)' <=>
                PendingOn(CopyTask(b, d), r) \/ (r = st[t] /\ b = counter /\ d = src[t])
    BY <2>9, <2>10, TaskKinds
  <2>1. TypeOK'
    BY <1>7, <2>10 DEF StartCopy, Goto, ring, local, RingInv, TypeOK
  <2>2. OneCall'
    BY <2>9 DEF OneCall
  <2>3. PhaseOK'
    BY <2>9 DEF PhaseOK, Using
  <2>4. SlotOK'
    <3>1. \A s \in Streams, d \in Data : PendingOn(CopyTask(counter, d), s)' => s = st[t]
      BY <2>9, <2>11
    <3>2. \A s \in Streams : ~PendingOn(RecordTask(counter), s)'
      BY <2>9, <2>11
    <3> QED  BY <2>9, <3>1, <3>2 DEF SlotOK, Using
  <2>5. NotedOK'
    BY <2>9 DEF RingInv, NotedOK
  <2>6. RecordedOK'
    BY <2>9, <2>11 DEF RingInv, RecordedOK
  <2>7. CoveredOK'
    <3> SUFFICES ASSUME NEW r \in Streams, NEW b \in Slots, NEW d \in Data,
                        PendingOn(CopyTask(b, d), r)'
                 PROVE  /\ content[b] = d
                        /\ \/ Before(CopyTask(b, d), RecordTask(b), queue'[r])
                           \/ pc'[t] = "event" /\ slot[t] = b
      BY <2>9 DEF CoveredOK
    <3>1. CASE b = counter
      BY <2>9, <2>11, <3>1
    <3>2. CASE b # counter
      <4>1. content[b] = d /\ Before(CopyTask(b, d), RecordTask(b), queue[r])
        BY <2>9, <2>11, <3>2 DEF RingInv, CoveredOK
      <4>2. CopyTask(counter, src[t]) # CopyTask(b, d)
        BY <3>2, TaskKinds
      <4>3. CASE r = st[t]
        <5>1. Before(CopyTask(b, d), RecordTask(b), Append(queue[r], CopyTask(counter, src[t])))
          BY <2>10, <4>1, <4>2, <4>3, BeforeAppend
        <5> QED  BY <2>10, <4>1, <4>3, <5>1
      <4> QED  BY <2>10, <4>1, <4>3
    <3> QED  BY <3>1, <3>2
  <2> QED  BY <2>1, <2>2, <2>3, <2>4, <2>5, <2>6, <2>7 DEF RingInv
<1>8. ASSUME NEW t \in Threads, RecordEvent(t)
      PROVE  RingInv'
  <2>9. /\ pc[t] = "event" /\ \A u \in Threads : u # t => pc[u] = "out"
        /\ \A u \in Threads : pc'[u] = IF u = t THEN "record" ELSE "out"
        /\ slot[t] = counter /\ src[t] \in Data /\ st[t] \in Streams /\ counter \in Slots
        /\ phase = "ready"
        /\ \A s \in Streams : ~PendingOn(RecordTask(counter), s)
        /\ \A s \in Streams, d \in Data : PendingOn(CopyTask(counter, d), s) => s = st[t]
        /\ recordedOn' = [recordedOn EXCEPT ![counter] = st[t]]
        /\ UNCHANGED <<phase, counter, content, noted, slot, src, st, todo>>
    BY <1>8 DEF RecordEvent, Goto, Outside, RingInv, TypeOK, OneCall, SlotOK, PhaseOK, Using, local, ring
  <2>10. /\ queue' \in [Streams -> Seq(Task)] /\ queue[st[t]] \in Seq(Task) /\ RecordTask(counter) \in Task
         /\ \A r \in Streams : queue'[r] = IF r = st[t] THEN Append(queue[r], RecordTask(counter)) ELSE queue[r]
         /\ \A y : \A r \in Streams : PendingOn(y, r)' <=> PendingOn(y, r) \/ (r = st[t] /\ y = RecordTask(counter))
    BY <1>8, <2>9, QueueAppend, TaskKinds DEF RecordEvent, RingInv, TypeOK
  <2>11. /\ \A i \in Slots, r \in Streams :
              PendingOn(RecordTask(i), r)' <=>
                PendingOn(RecordTask(i), r) \/ (r = st[t] /\ i = counter)
         /\ \A b \in Slots, d \in Data, r \in Streams :
              PendingOn(CopyTask(b, d), r)' <=> PendingOn(CopyTask(b, d), r)
    BY <2>9, <2>10, TaskKinds
  <2>1. TypeOK'
    BY <1>8, <2>9, <2>10 DEF RecordEvent, Goto, ring, local, RingInv, TypeOK
  <2>2. OneCall'
    BY <2>9 DEF OneCall
  <2>3. PhaseOK'
    BY <2>9 DEF PhaseOK, Using
  <2>4. SlotOK'
    BY <2>9 DEF SlotOK, Using
  <2>5. NotedOK'
    BY <2>9 DEF RingInv, NotedOK
  <2>6. RecordedOK'
    BY <2>9, <2>11 DEF RingInv, TypeOK, RecordedOK
  <2>7. CoveredOK'
    <3> SUFFICES ASSUME NEW r \in Streams, NEW b \in Slots, NEW d \in Data,
                        PendingOn(CopyTask(b, d), r)
                 PROVE  /\ content[b] = d
                        /\ Before(CopyTask(b, d), RecordTask(b), queue'[r])
      BY <2>9, <2>11 DEF CoveredOK
    <3>1. content[b] = d
      BY DEF RingInv, CoveredOK
    <3>2. RecordTask(counter) # CopyTask(b, d)
      BY TaskKinds
    <3>3. CASE b = counter
      <4>1. Before(CopyTask(b, d), RecordTask(b), Append(queue[r], RecordTask(counter)))
        BY <2>9, <2>10, <3>2, <3>3, BeforeMark
      <4> QED  BY <2>9, <2>10, <3>1, <3>3, <4>1
    <3>4. CASE b # counter
      <4>1. Before(CopyTask(b, d), RecordTask(b), queue[r])
        BY <2>9, <3>4 DEF RingInv, CoveredOK
      <4>2. CASE r = st[t]
        <5>1. Before(CopyTask(b, d), RecordTask(b), Append(queue[r], RecordTask(counter)))
          BY <2>10, <3>2, <4>1, <4>2, BeforeAppend
        <5> QED  BY <2>10, <3>1, <4>2, <5>1
      <4> QED  BY <2>10, <3>1, <4>1, <4>2
    <3> QED  BY <3>3, <3>4
  <2> QED  BY <2>1, <2>2, <2>3, <2>4, <2>5, <2>6, <2>7 DEF RingInv
<1>9. ASSUME NEW t \in Threads, Record(t)
      PROVE  RingInv'
  <2>9. /\ pc[t] = "record" /\ \A u \in Threads : u # t => pc[u] = "out"
        /\ \A u \in Threads : pc'[u] = IF u = t THEN "out" ELSE "out"
    BY <1>9 DEF Record, Goto, Outside, RingInv, TypeOK, OneCall
  <2>1. TypeOK'
    <3>1. Advance(counter) \in Slots
      BY DEF Advance, Slots, RingInv, TypeOK
    <3> QED  BY <1>9, <3>1 DEF Record, Goto, device, RingInv, TypeOK
  <2>2. OneCall'
    BY <1>9, <2>9 DEF Record, Goto, Outside, ring, local, device, RingInv, TypeOK, OneCall
  <2>3. PhaseOK'
    BY <1>9, <2>9 DEF Record, Goto, Outside, ring, local, device, RingInv, TypeOK, PhaseOK, Using
  <2>4. SlotOK'
    BY <2>9 DEF SlotOK, Using
  <2>5. NotedOK'
    BY <1>9, <2>9 DEF Record, Goto, Outside, ring, local, device, RingInv, TypeOK, NotedOK
  <2>6. RecordedOK'
    BY <1>9, <2>9 DEF Record, Goto, Outside, ring, local, device, RingInv, TypeOK, RecordedOK, PendingOn
  <2>7. CoveredOK'
    BY <1>9, <2>9 DEF Record, Goto, Outside, ring, local, device, RingInv, TypeOK, CoveredOK, PendingOn
  <2> QED  BY <2>1, <2>2, <2>3, <2>4, <2>5, <2>6, <2>7 DEF RingInv
<1>10. ASSUME NEW t \in Threads, DestroyEnter(t)
      PROVE  RingInv'
  <2>1. TypeOK'
    BY <1>10 DEF DestroyEnter, Goto, Outside, ring, local, device, RingInv, TypeOK
  <2>2. OneCall'
    BY <1>10 DEF DestroyEnter, Goto, Outside, ring, local, device, RingInv, TypeOK, OneCall
  <2>3. PhaseOK'
    BY <1>10 DEF DestroyEnter, Goto, Outside, ring, local, device, RingInv, TypeOK, PhaseOK, Using
  <2>4. SlotOK'
    BY <1>10 DEF DestroyEnter, Goto, Outside, ring, local, device, RingInv, TypeOK, SlotOK, Using, PendingOn
  <2>5. NotedOK'
    BY <1>10 DEF DestroyEnter, Goto, Outside, ring, local, device, RingInv, TypeOK, NotedOK
  <2>6. RecordedOK'
    BY <1>10 DEF DestroyEnter, Goto, Outside, ring, local, device, RingInv, TypeOK, RecordedOK, PendingOn
  <2>7. CoveredOK'
    BY <1>10 DEF DestroyEnter, Goto, Outside, ring, local, device, RingInv, TypeOK, CoveredOK, PendingOn
  <2> QED  BY <2>1, <2>2, <2>3, <2>4, <2>5, <2>6, <2>7 DEF RingInv
<1>11. ASSUME NEW t \in Threads, NEW b \in Slots, ClearBlock(t, b)
      PROVE  RingInv'
  <2>9. /\ pc[t] = "clear" /\ \A u \in Threads : u # t => pc[u] = "out"
        /\ EventDone(b)
        /\ content' = [content EXCEPT ![b] = None]
        /\ UNCHANGED <<pc, queue, slot, src, st, counter, recordedOn>>
    BY <1>11 DEF ClearBlock, device, RingInv, OneCall, NotedOK
  <2>10. \A r \in Streams, d \in Data : ~PendingOn(CopyTask(b, d), r)
    <3>1. \A u \in Threads : pc[u] # "event"
      BY <2>9
    <3> QED  BY <2>9, <3>1, DoneMeansFree
  <2>11. \A y : \A s \in Streams : PendingOn(y, s)' <=> PendingOn(y, s)
    BY <2>9 DEF PendingOn
  <2>1. TypeOK'
    BY <1>11, <2>9 DEF ClearBlock, Goto, Outside, ring, local, device, RingInv, TypeOK
  <2>2. OneCall'
    BY <1>11, <2>9 DEF ClearBlock, Goto, Outside, ring, local, device, RingInv, TypeOK, OneCall
  <2>3. PhaseOK'
    BY <1>11, <2>9 DEF ClearBlock, Goto, Outside, ring, local, device, RingInv, TypeOK, PhaseOK, Using
  <2>4. SlotOK'
    BY <2>9 DEF SlotOK, Using
  <2>5. NotedOK'
    BY <1>11, <2>9 DEF ClearBlock, Goto, Outside, ring, local, device, RingInv, TypeOK, NotedOK
  <2>6. RecordedOK'
    BY <2>9, <2>11 DEF RingInv, RecordedOK
  <2>7. CoveredOK'
    <3> SUFFICES ASSUME NEW s \in Streams, NEW c \in Slots, NEW d \in Data,
                        PendingOn(CopyTask(c, d), s)
                 PROVE  content'[c] = d /\ Before(CopyTask(c, d), RecordTask(c), queue[s])
      BY <2>9, <2>11 DEF CoveredOK
    <3>1. c # b
      BY <2>10
    <3>2. content'[c] = content[c]
      BY <2>9, <3>1 DEF RingInv, TypeOK
    <3>3. \A u \in Threads : pc[u] # "event"
      BY <2>9
    <3> QED  BY <3>2, <3>3 DEF RingInv, CoveredOK
  <2> QED  BY <2>1, <2>2, <2>3, <2>4, <2>5, <2>6, <2>7 DEF RingInv
<1>12. ASSUME NEW t \in Threads, DestroyFinish(t)
      PROVE  RingInv'
  <2>9. /\ pc[t] = "clear" /\ \A u \in Threads : u # t => pc[u] = "out"
        /\ \A u \in Threads : pc'[u] = IF u = t THEN "out" ELSE "out"
        /\ \A s \in Streams : queue'[s] = <<>>
        /\ phase' = "absent"
    BY <1>12 DEF DestroyFinish, Goto, Outside, RingInv, TypeOK, OneCall
  <2>1. TypeOK'
    BY <1>12, <2>9 DEF DestroyFinish, Goto, Outside, ring, local, device, RingInv, TypeOK
  <2>2. OneCall'
    BY <1>12, <2>9 DEF DestroyFinish, Goto, Outside, ring, local, device, RingInv, TypeOK, OneCall
  <2>3. PhaseOK'
    BY <2>9 DEF PhaseOK, Using
  <2>4. SlotOK'
    BY <2>9 DEF SlotOK, Using
  <2>5. NotedOK'
    BY <1>12, <2>9 DEF DestroyFinish, Goto, Outside, ring, local, device, RingInv, TypeOK, NotedOK
  <2>6. RecordedOK'
    BY <2>9 DEF RecordedOK, PendingOn, In
  <2>7. CoveredOK'
    BY <2>9 DEF CoveredOK, PendingOn, In
  <2> QED  BY <2>1, <2>2, <2>3, <2>4, <2>5, <2>6, <2>7 DEF RingInv
<1>13. ASSUME NEW s \in Streams, DeviceStep(s)
      PROVE  RingInv'
  <2>9. /\ queue' \in [Streams -> Seq(Task)] /\ queue[s] \in Seq(Task) /\ queue[s] # <<>>
        /\ \A r \in Streams : queue'[r] = IF r = s THEN Tail(queue[s]) ELSE queue[r]
        /\ \A y : \A r \in Streams : PendingOn(y, r)' => PendingOn(y, r)
    BY <1>13, QueueTail DEF DeviceStep, RingInv, TypeOK
  <2>10. UNCHANGED <<phase, counter, content, noted, pc, slot, src, st, todo, recordedOn>>
    BY <1>13 DEF DeviceStep, ring, local
  <2>1. TypeOK'
    BY <2>9, <2>10 DEF RingInv, TypeOK
  <2>2. OneCall'
    BY <1>13, <2>9 DEF DeviceStep, Goto, Outside, ring, local, device, RingInv, TypeOK, OneCall
  <2>3. PhaseOK'
    BY <2>9, <2>10 DEF RingInv, PhaseOK
  <2>4. SlotOK'
    BY <2>9, <2>10 DEF RingInv, SlotOK
  <2>5. NotedOK'
    BY <1>13, <2>9 DEF DeviceStep, Goto, Outside, ring, local, device, RingInv, TypeOK, NotedOK
  <2>6. RecordedOK'
    BY <2>9, <2>10 DEF RingInv, RecordedOK
  <2>7. CoveredOK'
    <3> SUFFICES ASSUME NEW r \in Streams, NEW b \in Slots, NEW d \in Data,
                        PendingOn(CopyTask(b, d), r),
                        Before(CopyTask(b, d), RecordTask(b), queue[r])
                 PROVE  Before(CopyTask(b, d), RecordTask(b), queue'[r])
      BY <2>9, <2>10 DEF RingInv, CoveredOK
    <3>1. CASE r = s
      <4>1. Before(CopyTask(b, d), RecordTask(b), Tail(queue[r]))
        BY <2>9, <3>1, BeforeTail, TaskKinds
      <4> QED  BY <2>9, <3>1, <4>1
    <3> QED  BY <2>9, <3>1
  <2> QED  BY <2>1, <2>2, <2>3, <2>4, <2>5, <2>6, <2>7 DEF RingInv
<1>14. CASE UNCHANGED vars
  BY <1>14 DEF vars, ring, local, device, RingInv, TypeOK, OneCall, PhaseOK, SlotOK, NotedOK,
     RecordedOK, CoveredOK, PendingOn
<1> QED
  BY <1>1, <1>2, <1>3, <1>4, <1>5, <1>6, <1>7, <1>8, <1>9, <1>10, <1>11, <1>12, <1>13, <1>14
  DEF Next, ClientStep, InnerStep

(* A device copy reads the bytes its caller gave, however often the ring   *)
(* comes round (TakeBlock, RecordEvent) and the device is destroyed and    *)
(* set up again (ClearBlock): every pinned block is safe to write or free  *)
(* once its event has completed.                                           *)
THEOREM StagingCorrect ==
  ASSUME ~Concurrent
  PROVE  Spec => [](TypeOK /\ StagedIntact)
<1>1. RingInv => TypeOK /\ StagedIntact
  BY DEF RingInv, CoveredOK, StagedIntact
<1> QED  BY <1>1, RingInit, RingStep, PTL DEF Spec

(* The slot, the counter and the blocks stay in range however often the    *)
(* ring comes round.                                                       *)
THEOREM RingTypesCorrect ==
  ASSUME ~Concurrent
  PROVE  Spec => []TypeOK
BY StagingCorrect, PTL
=============================================================================
