-------------------------- MODULE MluStagingProofs --------------------------
(***************************************************************************)
(* Every event handle has one owner, and - without the pool of events - a  *)
(* host buffer is freed only after the device has copied from it, for any  *)
(* number of threads, events, buffers and queues.                          *)
(*                                                                         *)
(* The inductive invariant: the owners of the held events are the clients, *)
(* the copies in progress and the buffers, and no two of them name the same*)
(* event or the same buffer; every pending copy from a buffer that has its *)
(* event stands before that event's last record, so a completed event means*)
(* a copy that was made.                                                   *)
(***************************************************************************)
EXTENDS MluStaging, TaskQueueLemmas

Labels == {"out", "sync", "process", "drop", "create", "copy", "record", "note"}

TypeInv ==
  /\ reuse \in BOOLEAN
  /\ held \subseteq Events /\ mine \subseteq held
  /\ cached \in Seq(Events)
  /\ buffers \subseteq Buffers
  /\ eventOf \in [Buffers -> Events \cup {None}]
  /\ pc \in [Threads -> Labels]
  /\ buf \in [Threads -> Buffers \cup {None}]
  /\ ev \in [Threads -> Events \cup {None}]
  /\ st \in [Threads -> Streams \cup {None}]
  /\ queue \in [Streams -> Seq(Task)]
  /\ last \in [Events -> Tags \cup {None}]

(* The threads that have a buffer, and an event, for a copy in progress;   *)
(* ProcessEvents has the event of the buffer it has just freed.            *)
WithBuffer(t) == pc[t] \in {"create", "copy", "record", "note"}
WithEvent(t)  == pc[t] \in {"drop", "copy", "record", "note"}

BufferInv ==
  /\ \A b \in Buffers \ buffers : eventOf[b] = None
  /\ \A t \in Threads : WithBuffer(t) =>
       /\ buf[t] \in buffers /\ eventOf[buf[t]] = None /\ st[t] \in Streams
       /\ \A u \in Threads : WithBuffer(u) /\ buf[u] = buf[t] => u = t
  /\ \A t \in Threads : pc[t] \in {"process", "drop"} => st[t] \in Streams

EventInv ==
  \A t \in Threads : WithEvent(t) =>
    /\ ev[t] \in held \ mine
    /\ \A b \in Buffers : eventOf[b] # ev[t]
    /\ \A u \in Threads : WithEvent(u) /\ ev[u] = ev[t] => u = t

PoolRight ==
  /\ \A i, j \in 1..Len(cached) : i # j => cached[i] # cached[j]
  /\ CachedSet \cap held = {}

BuffersRight ==
  \A b, c \in buffers : eventOf[b] # None =>
    /\ eventOf[b] \in held \ mine
    /\ b # c => eventOf[b] # eventOf[c]

OwnerInv == PoolRight /\ BuffersRight /\ BufferInv /\ EventInv

(* The copies from b that are pending stand before the last record of e.   *)
Waited(b, e) ==
  /\ last[e] # None
  /\ \A s \in Streams : Before(CopyTask(b), RecordTask(e, last[e]), queue[s])

CopyInv ==
  ~reuse =>
    /\ \A b \in Buffers \ buffers : ~Pending(CopyTask(b))
    /\ \A b \in buffers : eventOf[b] # None => Waited(b, eventOf[b])
    /\ \A t \in Threads :
         /\ pc[t] \in {"create", "copy"} => ~Pending(CopyTask(buf[t]))
         /\ pc[t] = "record" => \A s \in Streams \ {st[t]} : ~In(CopyTask(buf[t]), queue[s])
         /\ pc[t] = "note" => Waited(buf[t], ev[t])

StagingInv == TypeInv /\ OwnerInv /\ CopyInv

-----------------------------------------------------------------------------
(* The tasks of a queue are told apart by their kind and what they name.   *)
LEMMA TaskKinds ==
  /\ \A b \in Buffers : CopyTask(b) \in Task
  /\ \A e \in Events, g \in Tags : RecordTask(e, g) \in Task /\ WaitTask(e, g) \in Task
  /\ \A b, e, g : CopyTask(b) # RecordTask(e, g) /\ CopyTask(b) # WaitTask(e, g)
  /\ \A b, c : CopyTask(b) = CopyTask(c) => b = c
<1>1. /\ \A b \in Buffers : CopyTask(b) \in Task
      /\ \A e \in Events, g \in Tags : RecordTask(e, g) \in Task /\ WaitTask(e, g) \in Task
  BY DEF Task, CopyTask, RecordTask, WaitTask
<1>2. /\ \A b : CopyTask(b).op = "copy" /\ CopyTask(b).buffer = b
      /\ \A e, g : RecordTask(e, g).op = "record" /\ WaitTask(e, g).op = "wait"
  BY DEF CopyTask, RecordTask, WaitTask
<1>3. "copy" # "record" /\ "copy" # "wait"
  OBVIOUS
<1> QED  BY ONLY <1>1, <1>2, <1>3

(* What a call that enqueues a task changes.                               *)
LEMMA QueueAppend ==
  ASSUME queue \in [Streams -> Seq(Task)], NEW s \in Streams, NEW x \in Task, Enqueue(s, x)
  PROVE  /\ queue' \in [Streams -> Seq(Task)]
         /\ \A y : \A r \in Streams : In(y, queue'[r]) <=> In(y, queue[r]) \/ (r = s /\ y = x)
         /\ \A w, m : \A r \in Streams :
              x # w /\ Before(w, m, queue[r]) => Before(w, m, queue'[r])
<1>1. Append(queue[s], x) \in Seq(Task) /\ queue[s] \in Seq(Task)
  OBVIOUS
<1>2. \A r \in Streams : queue'[r] = IF r = s THEN Append(queue[s], x) ELSE queue[r]
  BY DEF Enqueue
<1>3. \A y : In(y, Append(queue[s], x)) <=> In(y, queue[s]) \/ y = x
  BY <1>1, InAppend
<1>4. \A w, m : x # w /\ Before(w, m, queue[s]) => Before(w, m, Append(queue[s], x))
  BY <1>1, BeforeAppend
<1> QED  BY <1>1, <1>2, <1>3, <1>4 DEF Enqueue

(* What the end of the task at the head of a queue changes.                *)
LEMMA QueueTail ==
  ASSUME queue \in [Streams -> Seq(Task)], NEW s \in Streams, queue[s] # <<>>,
         queue' = [queue EXCEPT ![s] = Tail(@)]
  PROVE  /\ queue' \in [Streams -> Seq(Task)]
         /\ \A y : \A r \in Streams : In(y, queue'[r]) => In(y, queue[r])
         /\ \A w, m : \A r \in Streams :
              w # m /\ Before(w, m, queue[r]) => Before(w, m, queue'[r])
<1>1. Tail(queue[s]) \in Seq(Task) /\ queue[s] \in Seq(Task)
  OBVIOUS
<1>2. \A r \in Streams : queue'[r] = IF r = s THEN Tail(queue[s]) ELSE queue[r]
  OBVIOUS
<1>3. \A y : In(y, Tail(queue[s])) => In(y, queue[s])
  BY <1>1, InTail
<1>4. \A w, m : w # m /\ Before(w, m, queue[s]) => Before(w, m, Tail(queue[s]))
  BY <1>1, BeforeTail
<1> QED  BY <1>1, <1>2, <1>3, <1>4

(* A record has a tag of its own, which becomes the event's last.          *)
LEMMA PlaceFacts ==
  ASSUME TypeInv, NEW e \in Events, NEW s \in Streams, Place(e, s)
  PROVE  \E tag \in Tags : /\ Enqueue(s, RecordTask(e, tag))
                           /\ RecordTask(e, tag) \in Task
                           /\ last' = [last EXCEPT ![e] = tag]
  BY TaskKinds DEF Place

-----------------------------------------------------------------------------
(* The two ways an event changes hands.                                    *)
LEMMA EventTaken ==
  ASSUME TypeInv, PoolRight, NEW e \in Events, TakeEvent(e), held' = held \cup {e}
  PROVE  /\ e \notin held
         /\ cached' \in Seq(Events)
         /\ PoolRight'
         /\ last' \in [Events -> Tags \cup {None}]
         /\ \A f \in held : last'[f] = last[f]
<1>1. CASE reuse /\ cached # <<>>
  <2> DEFINE n == Len(cached)
  <2>1. n \in Nat \ {0} /\ cached \in [1..n -> Events] /\ e = cached[n]
        /\ cached' = SubSeq(cached, 1, n - 1)
    BY <1>1 DEF TakeEvent, TypeInv
  <2>2. cached' \in Seq(Events) /\ Len(cached') = n - 1 /\ \A i \in 1..(n - 1) : cached'[i] = cached[i]
    BY <2>1 DEF TypeInv
  <2>3. e \in CachedSet /\ e \notin held
    BY <2>1 DEF CachedSet, PoolRight
  <2>4. \A i \in 1..(n - 1) : cached[i] # e /\ cached[i] \notin held
    BY <2>1 DEF CachedSet, PoolRight
  <2>5. \A i, j \in 1..Len(cached') : i # j => cached'[i] # cached'[j]
    BY <2>1, <2>2 DEF PoolRight
  <2>6. CachedSet' \cap held' = {}
    BY <2>2, <2>4 DEF CachedSet
  <2> QED  BY <1>1, <2>2, <2>3, <2>5, <2>6 DEF PoolRight, TakeEvent, TypeInv
<1>2. CASE ~(reuse /\ cached # <<>>)
  <2>1. e \notin held /\ e \notin CachedSet /\ cached' = cached
        /\ last' = [last EXCEPT ![e] = None]
    BY <1>2 DEF TakeEvent
  <2>2. CachedSet' = CachedSet
    BY <2>1 DEF CachedSet
  <2> QED  BY <2>1, <2>2 DEF PoolRight, TypeInv
<1> QED  BY <1>1, <1>2

LEMMA EventDropped ==
  ASSUME TypeInv, PoolRight, NEW e \in held, DropEvent(e)
  PROVE  /\ held' = held \ {e}
         /\ cached' \in Seq(Events)
         /\ PoolRight'
<1> DEFINE n == Len(cached)
<1>1. e \in Events /\ n \in Nat /\ cached \in [1..n -> Events] /\ held' = held \ {e}
  BY DEF DropEvent, TypeInv
<1>2. CASE reuse
  <2>1. cached' = Append(cached, e)
    BY <1>2 DEF DropEvent
  <2>2. cached' \in Seq(Events) /\ Len(cached') = n + 1 /\ cached'[n + 1] = e
        /\ \A i \in 1..n : cached'[i] = cached[i]
    BY <1>1, <2>1 DEF TypeInv
  <2>3. \A i \in 1..n : cached[i] # e /\ cached[i] \notin held
    BY <1>1 DEF CachedSet, PoolRight
  <2>4. \A i, j \in 1..Len(cached') : i # j => cached'[i] # cached'[j]
    BY <1>1, <2>2, <2>3 DEF PoolRight
  <2>5. CachedSet' \cap held' = {}
    BY <1>1, <2>2, <2>3 DEF CachedSet
  <2> QED  BY <1>1, <2>2, <2>4, <2>5 DEF PoolRight
<1>3. CASE ~reuse
  <2>1. cached' = cached /\ CachedSet' = CachedSet
    BY <1>3 DEF DropEvent, CachedSet
  <2> QED  BY <1>1, <2>1 DEF PoolRight, TypeInv
<1> QED  BY <1>2, <1>3

-----------------------------------------------------------------------------
(* What keeps the copies where they are: a client's calls touch neither a  *)
(* copy nor the last record of an event that is not a client's.            *)
LEMMA CopyFrame ==
  ASSUME StagingInv,
         UNCHANGED <<reuse, pc, buf, ev, st, buffers, eventOf>>,
         \A f \in held \ mine : last'[f] = last[f],
         \A b \in Buffers, s \in Streams : In(CopyTask(b), queue'[s]) => In(CopyTask(b), queue[s]),
         \A b \in Buffers, e \in Events, g \in Tags, s \in Streams :
           Before(CopyTask(b), RecordTask(e, g), queue[s]) =>
             Before(CopyTask(b), RecordTask(e, g), queue'[s])
  PROVE  CopyInv'
<1> SUFFICES ASSUME ~reuse  PROVE CopyInv'
  BY DEF CopyInv
<1>1. \A b \in Buffers : Pending(CopyTask(b))' => Pending(CopyTask(b))
  BY DEF Pending
<1>2. ASSUME NEW b \in Buffers, NEW e \in held \ mine, Waited(b, e)
      PROVE  Waited(b, e)'
  <2>1. e \in Events /\ last[e] \in Tags /\ last'[e] = last[e]
    BY <1>2 DEF StagingInv, TypeInv, Waited
  <2> QED  BY <1>2, <2>1 DEF Waited
<1>3. \A b \in buffers : eventOf[b] # None => eventOf[b] \in held \ mine /\ b \in Buffers
  BY DEF StagingInv, OwnerInv, BuffersRight, TypeInv
<1>4. \A t \in Threads : WithBuffer(t) => buf[t] \in Buffers
  BY DEF StagingInv, OwnerInv, BufferInv, TypeInv
<1>5. \A t \in Threads : pc[t] = "note" => ev[t] \in held \ mine
  BY DEF StagingInv, OwnerInv, EventInv, WithEvent
<1> QED  BY <1>1, <1>2, <1>3, <1>4, <1>5 DEF StagingInv, CopyInv, WithBuffer

(* ... because a client enqueues records and waits only.                   *)
LEMMA ClientEnqueues ==
  ASSUME StagingInv, NEW s \in Streams, NEW x \in Task, Enqueue(s, x),
         \A b \in Buffers : CopyTask(b) # x
  PROVE  /\ queue' \in [Streams -> Seq(Task)]
         /\ \A b \in Buffers, r \in Streams : In(CopyTask(b), queue'[r]) => In(CopyTask(b), queue[r])
         /\ \A b \in Buffers, e \in Events, g \in Tags, r \in Streams :
              Before(CopyTask(b), RecordTask(e, g), queue[r]) =>
                Before(CopyTask(b), RecordTask(e, g), queue'[r])
  BY QueueAppend DEF StagingInv, TypeInv

LEMMA CreateEventKeeps ==
  ASSUME StagingInv, NEW t \in Threads, NEW e \in Events, CreateEvent(t, e)
  PROVE  StagingInv'
<1>1. /\ e \notin held /\ cached' \in Seq(Events) /\ PoolRight'
      /\ last' \in [Events -> Tags \cup {None}] /\ \A f \in held : last'[f] = last[f]
  BY EventTaken DEF StagingInv, OwnerInv, CreateEvent
<1>2. TypeInv'
  BY <1>1 DEF StagingInv, TypeInv, CreateEvent, staged, local
<1>3. held' \ mine' = held \ mine
  BY <1>1 DEF StagingInv, TypeInv, CreateEvent
<1>4. BuffersRight' /\ BufferInv' /\ EventInv'
  BY <1>3 DEF StagingInv, OwnerInv, BuffersRight, BufferInv, EventInv, WithBuffer, WithEvent,
              CreateEvent, staged, local
<1>5. CopyInv'
  BY <1>1, CopyFrame DEF CreateEvent, staged, local
<1> QED  BY <1>1, <1>2, <1>4, <1>5 DEF StagingInv, OwnerInv

LEMMA DestroyEventKeeps ==
  ASSUME StagingInv, NEW t \in Threads, NEW e \in Events, DestroyEvent(t, e)
  PROVE  StagingInv'
<1>1. e \in held /\ held' = held \ {e} /\ cached' \in Seq(Events) /\ PoolRight'
  BY EventDropped DEF StagingInv, OwnerInv, TypeInv, DestroyEvent
<1>2. TypeInv'
  BY <1>1 DEF StagingInv, TypeInv, DestroyEvent, staged, local, device
<1>3. held' \ mine' = held \ mine
  BY <1>1 DEF StagingInv, TypeInv, DestroyEvent
<1>4. BuffersRight' /\ BufferInv' /\ EventInv'
  BY <1>3 DEF StagingInv, OwnerInv, BuffersRight, BufferInv, EventInv, WithBuffer, WithEvent,
              DestroyEvent, staged, local
<1>5. CopyInv'
  BY <1>1, CopyFrame DEF DestroyEvent, staged, local, device
<1> QED  BY <1>1, <1>2, <1>4, <1>5 DEF StagingInv, OwnerInv

LEMMA RecordEventKeeps ==
  ASSUME StagingInv, NEW t \in Threads, NEW e \in Events, NEW s \in Streams, RecordEvent(t, e, s)
  PROVE  StagingInv'
<1>1. PICK tag \in Tags : /\ Enqueue(s, RecordTask(e, tag)) /\ RecordTask(e, tag) \in Task
                          /\ last' = [last EXCEPT ![e] = tag]
  BY PlaceFacts DEF StagingInv, RecordEvent
<1>2. \A b \in Buffers : CopyTask(b) # RecordTask(e, tag)
  BY TaskKinds
<1>3. TypeInv'
  BY <1>1, <1>2, ClientEnqueues DEF StagingInv, TypeInv, RecordEvent, staged, local
<1>4. PoolRight' /\ BuffersRight' /\ BufferInv' /\ EventInv'
  BY DEF StagingInv, OwnerInv, PoolRight, CachedSet, BuffersRight, BufferInv, EventInv,
         WithBuffer, WithEvent, RecordEvent, staged, local
<1>5. \A f \in held \ mine : last'[f] = last[f]
  BY <1>1 DEF StagingInv, TypeInv, RecordEvent
<1>6. CopyInv'
  BY <1>1, <1>2, <1>5, CopyFrame, ClientEnqueues DEF RecordEvent, staged, local
<1> QED  BY <1>3, <1>4, <1>6 DEF StagingInv, OwnerInv

LEMMA StreamWaitEventKeeps ==
  ASSUME StagingInv, NEW t \in Threads, NEW e \in Events, NEW s \in Streams,
         StreamWaitEvent(t, e, s)
  PROVE  StagingInv'
<1>1. Enqueue(s, WaitTask(e, last[e])) /\ WaitTask(e, last[e]) \in Task
  BY TaskKinds DEF StagingInv, TypeInv, StreamWaitEvent
<1>2. \A b \in Buffers : CopyTask(b) # WaitTask(e, last[e])
  BY TaskKinds
<1>3. TypeInv'
  BY <1>1, <1>2, ClientEnqueues DEF StagingInv, TypeInv, StreamWaitEvent, pool, staged, local
<1>4. PoolRight' /\ BuffersRight' /\ BufferInv' /\ EventInv'
  BY DEF StagingInv, OwnerInv, PoolRight, CachedSet, BuffersRight, BufferInv, EventInv,
         WithBuffer, WithEvent, StreamWaitEvent, pool, staged, local
<1>5. CopyInv'
  BY <1>1, <1>2, CopyFrame, ClientEnqueues DEF StreamWaitEvent, pool, staged, local
<1> QED  BY <1>3, <1>4, <1>5 DEF StagingInv, OwnerInv

(* QueryEvent remembers the answer and no more.                            *)
LEMMA QueryEventKeeps ==
  ASSUME StagingInv, NEW t \in Threads, NEW e \in Events, QueryEvent(t, e)
  PROVE  StagingInv'
<1> USE DEF QueryEvent, staged, local, device
<1>1. TypeInv'
  BY DEF StagingInv, TypeInv
<1>2. PoolRight' /\ BuffersRight' /\ BufferInv' /\ EventInv'
  BY DEF StagingInv, OwnerInv, PoolRight, CachedSet, BuffersRight, BufferInv, EventInv,
         WithBuffer, WithEvent
<1>3. CopyInv'
  BY CopyFrame
<1> QED  BY <1>1, <1>2, <1>3 DEF StagingInv, OwnerInv

(* A thread without a buffer that goes where it has none changes nothing   *)
(* that the invariant says of the others.                                  *)
LEMMA IdleMove ==
  ASSUME StagingInv, NEW t \in Threads, NEW label \in {"out", "sync", "process"},
         ~WithBuffer(t), ~WithEvent(t), Goto(t, label),
         UNCHANGED <<reuse, pool, buffers, eventOf, buf, device>>,
         ev' \in [Threads -> Events \cup {None}], st' \in [Threads -> Streams \cup {None}],
         \A u \in Threads \ {t} : ev'[u] = ev[u] /\ st'[u] = st[u],
         label = "process" => st'[t] \in Streams
  PROVE  StagingInv'
<1>1. TypeInv'
  BY DEF StagingInv, TypeInv, Goto, pool, device, Labels
<1>2. /\ ~WithBuffer(t)' /\ ~WithEvent(t)' /\ pc'[t] = label
      /\ \A u \in Threads \ {t} : pc'[u] = pc[u] /\ (WithBuffer(u)' <=> WithBuffer(u))
                                  /\ (WithEvent(u)' <=> WithEvent(u))
  BY DEF StagingInv, TypeInv, Goto, WithBuffer, WithEvent
<1>3. PoolRight' /\ BuffersRight'
  BY DEF StagingInv, OwnerInv, PoolRight, CachedSet, BuffersRight, pool
<1>4. BufferInv'
  BY <1>2 DEF StagingInv, OwnerInv, BufferInv
<1>5. EventInv'
  BY <1>2 DEF StagingInv, OwnerInv, EventInv, pool
<1>6. CopyInv'
  BY <1>2 DEF StagingInv, CopyInv, Waited, Pending, device, WithBuffer
<1> QED  BY <1>1, <1>3, <1>4, <1>5, <1>6 DEF StagingInv, OwnerInv

LEMMA SyncEventKeeps ==
  ASSUME StagingInv, NEW t \in Threads, NEW e \in Events, SyncEvent(t, e)
  PROVE  StagingInv'
  BY IdleMove DEF SyncEvent, Outside, WithBuffer, WithEvent, StagingInv, TypeInv, staged, device

LEMMA SyncReturnKeeps ==
  ASSUME StagingInv, NEW t \in Threads, SyncReturn(t)
  PROVE  StagingInv'
  BY IdleMove DEF SyncReturn, WithBuffer, WithEvent, StagingInv, TypeInv, staged, device

LEMMA CopyEnterKeeps ==
  ASSUME StagingInv, NEW t \in Threads, NEW s \in Streams, CopyEnter(t, s)
  PROVE  StagingInv'
  BY IdleMove DEF CopyEnter, Outside, WithBuffer, WithEvent, StagingInv, TypeInv, staged, device

-----------------------------------------------------------------------------
(***************************************************************************)
(* The steps of AsyncMemCpyH2D.                                            *)
(***************************************************************************)
(* A buffer whose event has completed is no longer copied from.            *)
LEMMA CompletedMeansCopied ==
  ASSUME StagingInv, ~reuse, NEW b \in buffers, eventOf[b] # None, Completed(eventOf[b])
  PROVE  ~Pending(CopyTask(b))
<1>1. Waited(b, eventOf[b])
  BY DEF StagingInv, CopyInv
<1> DEFINE mark == RecordTask(eventOf[b], last[eventOf[b]])
<1>2. \A s \in Streams : ~In(mark, queue[s]) /\ Before(CopyTask(b), mark, queue[s])
  BY <1>1 DEF Completed, Waited, Pending
<1>3. ASSUME NEW s \in Streams  PROVE ~In(CopyTask(b), queue[s])
  <2>1. Len(queue[s]) \in Nat
    BY DEF StagingInv, TypeInv
  <2> QED  BY <1>2, <2>1 DEF Before, In
<1> QED  BY <1>3 DEF Pending

(* ProcessEvents frees a buffer whose event has completed, and keeps the   *)
(* event.                                                                  *)
LEMMA ProcessEntryKeeps ==
  ASSUME StagingInv, NEW t \in Threads, NEW b \in Buffers, ProcessEntry(t, b)
  PROVE  StagingInv'
<1> DEFINE e == eventOf[b]
<1>1. /\ e # None /\ b \in buffers /\ e \in held \ mine
      /\ pc[t] = "process" /\ ~WithBuffer(t) /\ ~WithEvent(t)
  BY DEF StagingInv, OwnerInv, BufferInv, BuffersRight, ProcessEntry, WithBuffer, WithEvent
<1>2. CASE QueryAnswer(e)
  <2>1. /\ buffers' = buffers \ {b} /\ eventOf' = [eventOf EXCEPT ![b] = None]
        /\ ev' = [ev EXCEPT ![t] = e] /\ pc' = [pc EXCEPT ![t] = "drop"]
        /\ UNCHANGED <<reuse, held, cached, mine, buf, st, queue, last>>
    BY <1>2 DEF ProcessEntry, Goto, device
  <2>2. PoolRight'
    BY <2>1 DEF StagingInv, OwnerInv, PoolRight, CachedSet
  <2>3. TypeInv'
    BY <1>1, <2>1 DEF StagingInv, TypeInv, Labels
  <2>4. BuffersRight'
    BY <1>1, <2>1 DEF StagingInv, TypeInv, OwnerInv, BuffersRight
  <2>5. /\ ~WithBuffer(t)' /\ pc'[t] = "drop" /\ ev'[t] = e
        /\ \A u \in Threads \ {t} : pc'[u] = pc[u] /\ ev'[u] = ev[u]
        /\ \A u \in Threads : WithBuffer(u)' <=> WithBuffer(u)
        /\ \A u \in Threads \ {t} : WithEvent(u)' <=> WithEvent(u)
    BY <1>1, <2>1 DEF StagingInv, TypeInv, WithBuffer, WithEvent
  <2>6. \A u \in Threads : WithBuffer(u) => buf[u] # b
    BY <1>1 DEF StagingInv, OwnerInv, BufferInv
  <2>7. BufferInv'
    <3>1. \A c \in Buffers \ buffers' : eventOf'[c] = None
      BY <2>1 DEF StagingInv, TypeInv, OwnerInv, BufferInv
    <3>2. \A u \in Threads : WithBuffer(u)' =>
            /\ buf'[u] \in buffers' /\ eventOf'[buf'[u]] = None /\ st'[u] \in Streams
            /\ \A v \in Threads : WithBuffer(v)' /\ buf'[v] = buf'[u] => v = u
      BY <2>1, <2>5, <2>6 DEF StagingInv, TypeInv, OwnerInv, BufferInv
    <3>3. \A u \in Threads : pc'[u] \in {"process", "drop"} => st'[u] \in Streams
      BY <1>1, <2>1, <2>5 DEF StagingInv, OwnerInv, BufferInv
    <3> QED  BY <3>1, <3>2, <3>3 DEF BufferInv
  <2>8. EventInv'
    <3>1. \A c \in Buffers : eventOf'[c] # e
      BY <1>1, <2>1 DEF StagingInv, TypeInv, OwnerInv, BufferInv, BuffersRight
    <3>2. \A u \in Threads \ {t} : WithEvent(u) => ev[u] # e
      BY DEF StagingInv, OwnerInv, EventInv
    <3>3. \A u \in Threads \ {t} : WithEvent(u) =>
            /\ ev[u] \in held \ mine /\ ev[u] # None
            /\ \A c \in Buffers : eventOf'[c] # ev[u]
      BY <2>1, NoneAssumption DEF StagingInv, TypeInv, OwnerInv, EventInv
    <3> QED  BY <1>1, <2>1, <2>5, <3>1, <3>2, <3>3 DEF StagingInv, OwnerInv, EventInv
  <2>9. CopyInv'
    <3> SUFFICES ASSUME ~reuse  PROVE CopyInv'
      BY <2>1 DEF CopyInv
    <3>1. ~Pending(CopyTask(b))
      BY <1>1, <1>2, CompletedMeansCopied DEF QueryAnswer
    <3>2. \A c \in buffers' : c \in buffers /\ eventOf'[c] = eventOf[c]
      BY <2>1 DEF StagingInv, TypeInv
    <3> QED  BY <2>1, <2>5, <3>1, <3>2 DEF StagingInv, CopyInv, Waited, Pending
  <2> QED  BY <2>2, <2>3, <2>4, <2>7, <2>8, <2>9 DEF StagingInv, OwnerInv
<1>3. CASE ~QueryAnswer(e)
  <2>1. UNCHANGED <<reuse, held, cached, mine, buffers, eventOf, pc, buf, ev, st, queue, last>>
    BY <1>3 DEF ProcessEntry, device
  <2>2. TypeInv'
    BY <2>1 DEF StagingInv, TypeInv
  <2>3. PoolRight' /\ BuffersRight' /\ BufferInv' /\ EventInv'
    BY <2>1 DEF StagingInv, OwnerInv, PoolRight, CachedSet, BuffersRight, BufferInv, EventInv,
                WithBuffer, WithEvent
  <2>4. CopyInv'
    BY <2>1, CopyFrame
  <2> QED  BY <2>2, <2>3, <2>4 DEF StagingInv, OwnerInv
<1> QED  BY <1>2, <1>3

(* The event of the freed buffer goes back: nobody else has it.            *)
LEMMA DropEntryEventKeeps ==
  ASSUME StagingInv, NEW t \in Threads, DropEntryEvent(t)
  PROVE  StagingInv'
<1> DEFINE e == ev[t]
<1> USE DEF DropEntryEvent, staged, device
<1>1. /\ e \in held \ mine /\ WithEvent(t) /\ st[t] \in Streams
      /\ \A u \in Threads \ {t} : WithEvent(u) => ev[u] # e
      /\ \A b \in Buffers : eventOf[b] # e
  BY DEF StagingInv, OwnerInv, BufferInv, EventInv, WithEvent
<1>2. held' = held \ {e} /\ cached' \in Seq(Events) /\ PoolRight'
  BY <1>1, EventDropped DEF StagingInv, OwnerInv
<1>3. TypeInv'
  BY <1>1, <1>2 DEF StagingInv, TypeInv, Goto, Labels
<1>4. /\ pc[t] = "drop" /\ pc'[t] = "process" /\ ~WithEvent(t)'
      /\ \A u \in Threads \ {t} : pc'[u] = pc[u] /\ ev'[u] = ev[u] /\ (WithEvent(u)' <=> WithEvent(u))
      /\ \A u \in Threads : WithBuffer(u)' <=> WithBuffer(u)
  BY DEF StagingInv, TypeInv, Goto, WithBuffer, WithEvent
<1>5. BuffersRight'
  <2>1. \A b \in buffers : eventOf[b] # e
    BY <1>1 DEF StagingInv, TypeInv
  <2> QED  BY <2>1, <1>2 DEF StagingInv, OwnerInv, BuffersRight
<1>6. BufferInv'
  BY <1>1, <1>4 DEF StagingInv, OwnerInv, BufferInv
<1>7. EventInv'
  BY <1>1, <1>2, <1>4 DEF StagingInv, OwnerInv, EventInv
<1>8. CopyInv'
  BY <1>4 DEF StagingInv, CopyInv, Waited, Pending
<1> QED  BY <1>2, <1>3, <1>5, <1>6, <1>7, <1>8 DEF StagingInv, OwnerInv

LEMMA AllocateKeeps ==
  ASSUME StagingInv, NEW t \in Threads, NEW b \in Buffers, Allocate(t, b)
  PROVE  StagingInv'
<1> USE DEF Allocate, pool, device
<1>1. TypeInv'
  BY DEF StagingInv, TypeInv, Goto, Labels
<1>2. /\ b \notin buffers /\ eventOf[b] = None /\ eventOf' = eventOf
      /\ buffers' = buffers \cup {b} /\ st[t] \in Streams
  BY DEF StagingInv, TypeInv, OwnerInv, BufferInv
<1>3. /\ pc'[t] = "create" /\ buf'[t] = b /\ ~WithEvent(t) /\ ~WithEvent(t)'
      /\ \A u \in Threads \ {t} : pc'[u] = pc[u] /\ buf'[u] = buf[u]
                                  /\ (WithBuffer(u)' <=> WithBuffer(u))
                                  /\ (WithEvent(u)' <=> WithEvent(u))
  BY DEF StagingInv, TypeInv, Goto, WithBuffer, WithEvent
<1>4. PoolRight' /\ BuffersRight'
  BY <1>2 DEF StagingInv, OwnerInv, PoolRight, CachedSet, BuffersRight
<1>5. BufferInv'
  BY <1>2, <1>3 DEF StagingInv, OwnerInv, BufferInv, WithBuffer
<1>6. EventInv'
  BY <1>2, <1>3 DEF StagingInv, OwnerInv, EventInv
<1>7. CopyInv'
  BY <1>2, <1>3 DEF StagingInv, CopyInv, Waited, Pending, WithBuffer
<1> QED  BY <1>1, <1>4, <1>5, <1>6, <1>7 DEF StagingInv, OwnerInv

LEMMA CopyCreateEventKeeps ==
  ASSUME StagingInv, NEW t \in Threads, NEW e \in Events, CopyCreateEvent(t, e)
  PROVE  StagingInv'
<1> USE DEF CopyCreateEvent, staged
<1>1. /\ e \notin held /\ cached' \in Seq(Events) /\ PoolRight'
      /\ last' \in [Events -> Tags \cup {None}] /\ \A f \in held : last'[f] = last[f]
  BY EventTaken DEF StagingInv, OwnerInv
<1>2. TypeInv'
  BY <1>1 DEF StagingInv, TypeInv, Goto, Labels
<1>3. /\ pc[t] = "create" /\ pc'[t] = "copy" /\ ev'[t] = e /\ ~WithEvent(t) /\ WithEvent(t)'
      /\ \A u \in Threads \ {t} : pc'[u] = pc[u] /\ ev'[u] = ev[u] /\ (WithEvent(u)' <=> WithEvent(u))
      /\ \A u \in Threads : WithBuffer(u)' <=> WithBuffer(u)
      /\ held' \ mine' = (held \ mine) \cup {e}
  BY <1>1 DEF StagingInv, TypeInv, Goto, WithBuffer, WithEvent
<1>4. BuffersRight'
  BY <1>3 DEF StagingInv, OwnerInv, BuffersRight
<1>5. BufferInv'
  BY <1>3 DEF StagingInv, OwnerInv, BufferInv
<1>6. \A b \in Buffers : eventOf[b] # e
  BY <1>1, NoneAssumption DEF StagingInv, TypeInv, OwnerInv, BuffersRight, BufferInv
<1>7. EventInv'
  BY <1>1, <1>3, <1>6 DEF StagingInv, OwnerInv, EventInv
<1>8. CopyInv'
  <2> SUFFICES ASSUME ~reuse  PROVE CopyInv'
    BY DEF CopyInv
  <2>1. \A b \in Buffers, f \in held : Waited(b, f) => Waited(b, f)'
    BY <1>1 DEF Waited
  <2>2. \A b \in buffers : eventOf[b] # None => b \in Buffers /\ eventOf[b] \in held
    BY DEF StagingInv, TypeInv, OwnerInv, BuffersRight
  <2>3. \A u \in Threads \ {t} : pc[u] = "note" => buf[u] \in Buffers /\ ev[u] \in held
    BY DEF StagingInv, TypeInv, OwnerInv, EventInv, BufferInv, WithEvent, WithBuffer
  <2> QED  BY <1>3, <2>1, <2>2, <2>3 DEF StagingInv, CopyInv, Pending
<1> QED  BY <1>1, <1>2, <1>4, <1>5, <1>7, <1>8 DEF StagingInv, OwnerInv

(* The copy is the first task of its buffer in any queue.                  *)
LEMMA StartCopyKeeps ==
  ASSUME StagingInv, NEW t \in Threads, StartCopy(t)
  PROVE  StagingInv'
<1> DEFINE b == buf[t]  s == st[t]
<1> USE DEF StartCopy, pool, staged, local
<1>1. /\ b \in buffers /\ b \in Buffers /\ s \in Streams /\ CopyTask(b) \in Task
      /\ eventOf[b] = None /\ Enqueue(s, CopyTask(b))
  BY TaskKinds DEF StagingInv, TypeInv, OwnerInv, BufferInv, WithBuffer
<1>2. /\ queue' \in [Streams -> Seq(Task)]
      /\ \A y : \A r \in Streams : In(y, queue'[r]) <=> In(y, queue[r]) \/ (r = s /\ y = CopyTask(b))
      /\ \A w, m : \A r \in Streams :
           CopyTask(b) # w /\ Before(w, m, queue[r]) => Before(w, m, queue'[r])
  BY <1>1, QueueAppend DEF StagingInv, TypeInv
<1>3. TypeInv'
  BY <1>2 DEF StagingInv, TypeInv, Goto, Labels
<1>4. /\ pc[t] = "copy" /\ pc'[t] = "record" /\ \A u \in Threads \ {t} : pc'[u] = pc[u]
      /\ \A u \in Threads : (WithBuffer(u)' <=> WithBuffer(u)) /\ (WithEvent(u)' <=> WithEvent(u))
  BY DEF StagingInv, TypeInv, Goto, WithBuffer, WithEvent
<1>5. PoolRight' /\ BuffersRight'
  BY DEF StagingInv, OwnerInv, PoolRight, CachedSet, BuffersRight
<1>6. BufferInv' /\ EventInv'
  BY <1>4 DEF StagingInv, OwnerInv, BufferInv, EventInv
<1>7. CopyInv'
  <2> SUFFICES ASSUME ~reuse  PROVE CopyInv'
    BY DEF CopyInv
  <2>1. \A c \in Buffers \ {b} : Pending(CopyTask(c))' => Pending(CopyTask(c))
    BY <1>2, TaskKinds DEF Pending
  <2>2. \A c \in Buffers \ {b}, e \in Events : Waited(c, e) => Waited(c, e)'
    BY <1>2, TaskKinds DEF Waited
  <2>3. \A r \in Streams \ {s} : ~In(CopyTask(b), queue'[r])
    BY <1>2, <1>4 DEF StagingInv, CopyInv, Pending
  <2>4. ASSUME NEW u \in Threads \ {t}, WithBuffer(u)
        PROVE  buf[u] \in Buffers \ {b}
    BY <2>4, <1>4 DEF StagingInv, TypeInv, OwnerInv, BufferInv, WithBuffer
  <2>5. \A u \in Threads : pc[u] = "note" => ev[u] \in Events
    BY DEF StagingInv, TypeInv, OwnerInv, EventInv, WithEvent
  <2>6. \A c \in Buffers \ buffers : ~Pending(CopyTask(c))'
    BY <1>1, <2>1 DEF StagingInv, CopyInv
  <2>7. \A c \in buffers : eventOf[c] # None => Waited(c, eventOf[c])'
    BY <1>1, <2>2 DEF StagingInv, TypeInv, CopyInv
  <2>8. ASSUME NEW u \in Threads
        PROVE  /\ pc'[u] \in {"create", "copy"} => ~Pending(CopyTask(buf[u]))'
               /\ pc'[u] = "record" => \A r \in Streams \ {st[u]} : ~In(CopyTask(buf[u]), queue'[r])
               /\ pc'[u] = "note" => Waited(buf[u], ev[u])'
    <3>1. CASE u = t
      BY <3>1, <1>4, <2>3
    <3>2. CASE u # t
      <4>1. pc'[u] = pc[u] /\ (WithBuffer(u) => buf[u] \in Buffers /\ CopyTask(buf[u]) # CopyTask(b))
        BY <3>2, <1>1, <1>4, <2>4, TaskKinds
      <4>2. pc[u] = "record" => \A r \in Streams \ {st[u]} : ~In(CopyTask(buf[u]), queue'[r])
        BY <4>1, <1>2 DEF StagingInv, CopyInv, WithBuffer
      <4> QED  BY <3>2, <4>1, <4>2, <2>1, <2>2, <2>4, <2>5 DEF StagingInv, CopyInv, WithBuffer
    <3> QED  BY <3>1, <3>2
  <2> QED  BY <2>6, <2>7, <2>8 DEF CopyInv
<1> QED  BY <1>3, <1>5, <1>6, <1>7 DEF StagingInv, OwnerInv

(* The record goes behind the copy, in the queue the copy is in.           *)
LEMMA CopyRecordEventKeeps ==
  ASSUME StagingInv, NEW t \in Threads, CopyRecordEvent(t)
  PROVE  StagingInv'
<1> DEFINE b == buf[t]  s == st[t]  e == ev[t]
<1> USE DEF CopyRecordEvent, staged, local
<1>1. b \in buffers /\ b \in Buffers /\ s \in Streams /\ e \in held \ mine /\ e \in Events
      /\ eventOf[b] = None
  BY DEF StagingInv, TypeInv, OwnerInv, BufferInv, EventInv, WithBuffer, WithEvent
<1>2. PICK tag \in Tags : /\ Enqueue(s, RecordTask(e, tag)) /\ RecordTask(e, tag) \in Task
                          /\ last' = [last EXCEPT ![e] = tag]
  BY <1>1, PlaceFacts DEF StagingInv
<1> DEFINE mark == RecordTask(e, tag)
<1>3. /\ queue' \in [Streams -> Seq(Task)]
      /\ \A y : \A r \in Streams : In(y, queue'[r]) <=> In(y, queue[r]) \/ (r = s /\ y = mark)
      /\ \A w, m : \A r \in Streams : mark # w /\ Before(w, m, queue[r]) => Before(w, m, queue'[r])
  BY <1>1, <1>2, QueueAppend DEF StagingInv, TypeInv
<1>4. \A c : CopyTask(c) # mark
  BY TaskKinds
<1>5. TypeInv'
  BY <1>1, <1>2, <1>3 DEF StagingInv, TypeInv, Goto, Labels
<1>6. /\ pc[t] = "record" /\ pc'[t] = "note" /\ \A u \in Threads \ {t} : pc'[u] = pc[u]
      /\ \A u \in Threads : (WithBuffer(u)' <=> WithBuffer(u)) /\ (WithEvent(u)' <=> WithEvent(u))
  BY DEF StagingInv, TypeInv, Goto, WithBuffer, WithEvent
<1>7. PoolRight' /\ BuffersRight'
  BY DEF StagingInv, OwnerInv, PoolRight, CachedSet, BuffersRight
<1>8. BufferInv' /\ EventInv'
  BY <1>6 DEF StagingInv, OwnerInv, BufferInv, EventInv
<1>9. CopyInv'
  <2> SUFFICES ASSUME ~reuse  PROVE CopyInv'
    BY DEF CopyInv
  <2>1. \A c \in Buffers : Pending(CopyTask(c))' => Pending(CopyTask(c))
    BY <1>3, <1>4 DEF Pending
  <2>2. ASSUME NEW c \in Buffers, NEW f \in Events \ {e}, Waited(c, f)
        PROVE  Waited(c, f)'
    BY <2>2, <1>2, <1>3, <1>4 DEF StagingInv, TypeInv, Waited
  <2>3. Waited(b, e)'
    <3>1. last'[e] = tag /\ tag # None
      BY <1>1, <1>2, NoneAssumption DEF StagingInv, TypeInv
    <3>2. Before(CopyTask(b), mark, queue'[s])
      <4>1. queue[s] \in Seq(Task) /\ mark \in Task /\ queue'[s] = Append(queue[s], mark)
        BY <1>1, <1>2 DEF Enqueue, StagingInv, TypeInv
      <4> QED  BY <4>1, <1>4, BeforeMark
    <3>3. ASSUME NEW r \in Streams \ {s}  PROVE Before(CopyTask(b), mark, queue'[r])
      <4>1. ~In(CopyTask(b), queue[r])
        BY <1>6 DEF StagingInv, CopyInv
      <4>2. ~In(CopyTask(b), queue'[r])
        BY <4>1, <1>3
      <4> QED  BY <4>2 DEF In, Before
    <3> QED  BY <3>1, <3>2, <3>3 DEF Waited
  <2>4. \A c \in buffers : eventOf[c] # None => c \in Buffers /\ eventOf[c] \in Events \ {e}
    BY <1>6 DEF StagingInv, TypeInv, OwnerInv, EventInv, WithEvent
  <2>5. \A u \in Threads \ {t} : pc[u] = "note" => buf[u] \in Buffers /\ ev[u] \in Events \ {e}
    BY <1>6 DEF StagingInv, TypeInv, OwnerInv, BufferInv, EventInv, WithBuffer, WithEvent
  <2>6. \A u \in Threads : WithBuffer(u) => buf[u] \in Buffers
    BY DEF StagingInv, TypeInv, OwnerInv, BufferInv
  <2>7. \A u \in Threads \ {t} : pc[u] = "record" =>
          \A r \in Streams \ {st[u]} : ~In(CopyTask(buf[u]), queue'[r])
    BY <1>3, <1>4 DEF StagingInv, CopyInv
  <2>8. /\ \A c \in Buffers \ buffers : ~Pending(CopyTask(c))'
        /\ \A c \in buffers : eventOf[c] # None => Waited(c, eventOf[c])'
    BY <2>1, <2>2, <2>4 DEF StagingInv, CopyInv
  <2>9. ASSUME NEW u \in Threads
        PROVE  /\ pc'[u] \in {"create", "copy"} => ~Pending(CopyTask(buf[u]))'
               /\ pc'[u] = "record" => \A r \in Streams \ {st[u]} : ~In(CopyTask(buf[u]), queue'[r])
               /\ pc'[u] = "note" => Waited(buf[u], ev[u])'
    <3>1. CASE u = t
      BY <3>1, <1>6, <2>3
    <3>2. CASE u # t
      BY <3>2, <1>6, <2>1, <2>2, <2>5, <2>6, <2>7 DEF StagingInv, CopyInv, WithBuffer
    <3> QED  BY <3>1, <3>2
  <2> QED  BY <2>8, <2>9 DEF CopyInv
<1> QED  BY <1>5, <1>7, <1>8, <1>9 DEF StagingInv, OwnerInv

(* The buffer is given the event that its thread recorded behind the copy. *)
LEMMA NoteKeeps ==
  ASSUME StagingInv, NEW t \in Threads, Note(t)
  PROVE  StagingInv'
<1> DEFINE b == buf[t]  e == ev[t]
<1> USE DEF Note, pool, device
<1>1. /\ b \in buffers /\ b \in Buffers /\ e \in held \ mine /\ e \in Events
      /\ \A c \in Buffers : eventOf[c] # e
      /\ \A u \in Threads \ {t} : WithBuffer(u) => buf[u] # b
      /\ \A u \in Threads \ {t} : WithEvent(u) => ev[u] # e
  BY DEF StagingInv, TypeInv, OwnerInv, BufferInv, EventInv, WithBuffer, WithEvent
<1>2. TypeInv'
  BY <1>1 DEF StagingInv, TypeInv, Goto, Labels
<1>3. /\ pc[t] = "note" /\ pc'[t] = "out" /\ ~WithBuffer(t)' /\ ~WithEvent(t)'
      /\ \A u \in Threads \ {t} : /\ pc'[u] = pc[u] /\ buf'[u] = buf[u] /\ ev'[u] = ev[u]
                                  /\ st'[u] = st[u] /\ (WithBuffer(u)' <=> WithBuffer(u))
                                  /\ (WithEvent(u)' <=> WithEvent(u))
      /\ eventOf'[b] = e /\ \A c \in Buffers \ {b} : eventOf'[c] = eventOf[c]
  BY <1>1 DEF StagingInv, TypeInv, Goto, WithBuffer, WithEvent
<1>4. PoolRight'
  BY DEF StagingInv, OwnerInv, PoolRight, CachedSet
<1>5. BuffersRight'
  BY <1>1, <1>3 DEF StagingInv, TypeInv, OwnerInv, BuffersRight
<1>6. BufferInv'
  BY <1>1, <1>3 DEF StagingInv, TypeInv, OwnerInv, BufferInv
<1>7. EventInv'
  BY <1>1, <1>3 DEF StagingInv, OwnerInv, EventInv
<1>8. CopyInv'
  <2> SUFFICES ASSUME ~reuse  PROVE CopyInv'
    BY DEF CopyInv
  <2>1. \A c, f : Waited(c, f)' <=> Waited(c, f)
    BY DEF Waited
  <2>2. \A c : Pending(CopyTask(c))' <=> Pending(CopyTask(c))
    BY DEF Pending
  <2>3. Waited(b, e)
    BY <1>3 DEF StagingInv, CopyInv
  <2>4. \A c \in buffers : eventOf'[c] # None => Waited(c, eventOf'[c])
    BY <1>1, <1>3, <2>3 DEF StagingInv, TypeInv, CopyInv
  <2>5. ASSUME NEW u \in Threads
        PROVE  /\ pc'[u] \in {"create", "copy"} => ~Pending(CopyTask(buf'[u]))
               /\ pc'[u] = "record" => \A s \in Streams \ {st'[u]} : ~In(CopyTask(buf'[u]), queue[s])
               /\ pc'[u] = "note" => Waited(buf'[u], ev'[u])
    BY <1>3 DEF StagingInv, CopyInv
  <2> QED  BY <2>1, <2>2, <2>4, <2>5 DEF StagingInv, CopyInv, Waited, Pending
<1> QED  BY <1>2, <1>4, <1>5, <1>6, <1>7, <1>8 DEF StagingInv, OwnerInv

LEMMA DeviceStepKeeps ==
  ASSUME StagingInv, NEW s \in Streams, DeviceStep(s)
  PROVE  StagingInv'
<1> USE DEF DeviceStep, pool, staged, local
<1>1. /\ queue' \in [Streams -> Seq(Task)]
      /\ \A y : \A r \in Streams : In(y, queue'[r]) => In(y, queue[r])
      /\ \A w, m : \A r \in Streams : w # m /\ Before(w, m, queue[r]) => Before(w, m, queue'[r])
  BY QueueTail DEF StagingInv, TypeInv
<1>2. TypeInv'
  BY <1>1 DEF StagingInv, TypeInv
<1>3. PoolRight' /\ BuffersRight' /\ BufferInv' /\ EventInv'
  BY DEF StagingInv, OwnerInv, PoolRight, CachedSet, BuffersRight, BufferInv, EventInv,
         WithBuffer, WithEvent
<1>4. CopyInv'
  BY <1>1, TaskKinds, CopyFrame
<1> QED  BY <1>2, <1>3, <1>4 DEF StagingInv, OwnerInv

-----------------------------------------------------------------------------
LEMMA StagingInit == Init => StagingInv
<1> SUFFICES ASSUME Init  PROVE StagingInv
  OBVIOUS
<1> USE DEF Init
<1>1. TypeInv
  BY ReuseAssumption DEF TypeInv, Labels
<1>2. PoolRight /\ BuffersRight /\ BufferInv /\ EventInv
  BY DEF PoolRight, CachedSet, BuffersRight, BufferInv, EventInv, WithBuffer, WithEvent
<1>3. CopyInv
  BY DEF CopyInv, Pending, In
<1> QED  BY <1>1, <1>2, <1>3 DEF StagingInv, OwnerInv

LEMMA StagingStep == StagingInv /\ [Next]_vars => StagingInv'
<1> SUFFICES ASSUME StagingInv, [Next]_vars  PROVE StagingInv'
  OBVIOUS
<1>1. ASSUME NEW t \in Threads, ClientStep(t)  PROVE StagingInv'
  BY <1>1, CreateEventKeeps, DestroyEventKeeps, QueryEventKeeps, SyncEventKeeps, RecordEventKeeps,
     StreamWaitEventKeeps, CopyEnterKeeps DEF ClientStep
<1>2. ASSUME NEW t \in Threads, InnerStep(t)  PROVE StagingInv'
  BY <1>2, SyncReturnKeeps, ProcessEntryKeeps, DropEntryEventKeeps, AllocateKeeps, CopyCreateEventKeeps,
     StartCopyKeeps, CopyRecordEventKeeps, NoteKeeps DEF InnerStep
<1>3. ASSUME NEW s \in Streams, DeviceStep(s)  PROVE StagingInv'
  BY <1>3, DeviceStepKeeps
<1>4. CASE UNCHANGED vars
  BY <1>4 DEF vars, pool, staged, local, device, StagingInv, TypeInv, OwnerInv, PoolRight, CachedSet,
              BuffersRight, BufferInv, EventInv, CopyInv, Waited, Pending, WithBuffer, WithEvent
<1> QED  BY <1>1, <1>2, <1>3, <1>4 DEF Next

LEMMA StagingAlways == Spec => []StagingInv
  BY StagingInit, StagingStep, PTL DEF Spec

(* No event handle has two owners: what DestroyEvent and ProcessEvents give*)
(* back to EventPool, EventPool hands to one caller at a time.             *)
THEOREM OneOwnerCorrect == Spec => []OneOwner
<1>1. StagingInv => OneOwner
  BY DEF StagingInv, OwnerInv, PoolRight, BuffersRight, OneOwner
<1> QED  BY <1>1, StagingAlways, PTL

(* AlignnedAllocator frees no buffer the device has still to copy from, as *)
(* long as QueryEvent asks the notifier itself (FLAGS_mlu_reuse_event off).*)
THEOREM StagingSafeCorrect == Spec => []StagingSafe
<1>1. StagingInv => StagingSafe
  BY DEF StagingInv, CopyInv, StagingSafe
<1> QED  BY <1>1, StagingAlways, PTL
=============================================================================
