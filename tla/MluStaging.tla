----------------------------- MODULE MluStaging -----------------------------
(***************************************************************************)
(* Events and host staging buffers of the MLU plugin                       *)
(* (src/backends/mlu/runtime/runtime.cc, CNRTEvent.h), for one device.     *)
(*                                                                         *)
(* With FLAGS_mlu_reuse_event an event handle is the notifier of a         *)
(* CNRTEvent that is either held for a user or in the EventPool; without   *)
(* it a handle is a notifier of the driver's own.  AsyncMemCpyH2D copies   *)
(* its source to a host buffer, starts the device copy from there, and     *)
(* gives the buffer to an event recorded behind the copy; the next         *)
(* AsyncMemCpyH2D frees the buffers whose event answers "completed".       *)
(*                                                                         *)
(* Calls are atomic under g_mutex except SyncEvent, which blocks with it;  *)
(* AsyncMemCpyH2D is split at each of its calls.  External: the queues of  *)
(* the device, where a record is a task with a tag so that a wait and a    *)
(* query refer to the last record at the time of the call.                 *)
(***************************************************************************)
EXTENDS TaskQueue, FiniteSets

CONSTANTS
  Threads,      \* host threads that call the C_DeviceInterface
  Copiers,      \* the threads that call AsyncMemCpyH2D
  Events,       \* cnrtNotifier_t handles (a bound)
  Streams,      \* cnrtQueue_t handles
  Buffers,      \* host buffers cnrtHostMalloc can hand out (a bound)
  Tags,         \* tags of record tasks (a bound on the pending ones)
  ReuseEvents,  \* the values FLAGS_mlu_reuse_event may have
  MaxQueue,     \* bound on the tasks a client leaves pending in a stream
  MaxMine,      \* bound on the events the clients hold at a time
  None          \* the null pointer

ASSUME ReuseAssumption == ReuseEvents \subseteq BOOLEAN
ASSUME CopiersAssumption == Copiers \subseteq Threads
ASSUME NoneAssumption == None \notin Threads \cup Events \cup Streams \cup Buffers \cup Tags

VARIABLES
  reuse,        \* FLAGS_mlu_reuse_event, set once
  held,         \* hold_event_vecs[device]; without reuse: the live handles
  cached,       \* event_pool_ of the device, the next one to reuse last
  wasRecorded,  \* CNRTEvent::was_recorded_
  isCompleted,  \* CNRTEvent::is_completed_
  mine,         \* the held events a client of the plugin created
  gMutex,       \* the thread that holds g_mutex, or None
  mtx,          \* the thread that holds AlignnedAllocator::mtx_, or None
  buffers,      \* recorded_events_: its keys
  eventOf,      \* recorded_events_: the event of each buffer, or None
  pc, buf, ev, st,
  todo,         \* buffers ProcessEvents has not visited yet
  queue,        \* device: the pending tasks of each queue
  last          \* device: the tag of the last record of each event, or None

pool   == <<held, cached, wasRecorded, isCompleted, mine>>
staged == <<mtx, buffers, eventOf>>
local  == <<buf, ev, st, todo>>
device == <<queue, last>>
vars   == <<reuse, pool, gMutex, staged, pc, local, device>>

RecordTask(e, tag) == [op |-> "record", event |-> e, tag |-> tag]
WaitTask(e, tag)   == [op |-> "wait", event |-> e, tag |-> tag]
CopyTask(b)        == [op |-> "copy", buffer |-> b]

Task == [op : {"record", "wait"}, event : Events, tag : Tags] \cup [op : {"copy"}, buffer : Buffers]

Enqueue(s, task) == queue' = [queue EXCEPT ![s] = Append(@, task)]
Pending(task) == \E s \in Streams : In(task, queue[s])
HasRoom(s) == Len(queue[s]) < MaxQueue      \* a bound

(* cnrtQueryNotifier: the last record has run.                             *)
Completed(e) == last[e] = None \/ ~Pending(RecordTask(e, last[e]))

(* cnrtPlaceNotifier.                                                      *)
Place(e, s) ==
  \E tag \in {u \in Tags : \A f \in Events : ~Pending(RecordTask(f, u)) /\ ~Pending(WaitTask(f, u))} :
    /\ Enqueue(s, RecordTask(e, tag))
    /\ last' = [last EXCEPT ![e] = tag]

(* A bound: a copy starts when the host memory will suffice.               *)
BufferToCome ==
  \/ buffers # Buffers
  \/ \E b \in buffers : eventOf[b] # None /\ Completed(eventOf[b])

Outside(t) == pc[t] = "out"
Goto(t, label) == pc' = [pc EXCEPT ![t] = label]
CachedSet == {cached[i] : i \in 1..Len(cached)}
Syncing(e) == \E t \in Threads : pc[t] = "sync" /\ ev[t] = e

Init ==
  /\ reuse \in ReuseEvents
  /\ held = {} /\ cached = <<>> /\ mine = {}
  /\ wasRecorded = [e \in Events |-> FALSE]
  /\ isCompleted = [e \in Events |-> FALSE]
  /\ gMutex = None /\ mtx = None
  /\ buffers = {}
  /\ eventOf = [b \in Buffers |-> None]
  /\ pc = [t \in Threads |-> "out"]
  /\ buf = [t \in Threads |-> None]
  /\ ev = [t \in Threads |-> None]
  /\ st = [t \in Threads |-> None]
  /\ todo = [t \in Threads |-> {}]
  /\ queue = [s \in Streams |-> <<>>]
  /\ last = [e \in Events |-> None]

(***************************************************************************)
(* The event calls, as a client or AsyncMemCpyH2D makes them.              *)
(***************************************************************************)
(* A bug: the wrapper that is reused also stays in the pool.               *)
TakeEventKept(e) ==
  IF reuse /\ cached # <<>>
  THEN /\ e = cached[Len(cached)]
       /\ UNCHANGED <<cached, wasRecorded, isCompleted, last>>
  ELSE /\ e \in Events \ (held \cup CachedSet)
       /\ wasRecorded' = [wasRecorded EXCEPT ![e] = FALSE]
       /\ isCompleted' = [isCompleted EXCEPT ![e] = FALSE]
       /\ last' = [last EXCEPT ![e] = None]
       /\ UNCHANGED cached

(* EventPool::get, or a new notifier.                                      *)
TakeEvent(e) ==
  IF reuse /\ cached # <<>>
  THEN /\ e = cached[Len(cached)]
       /\ cached' = SubSeq(cached, 1, Len(cached) - 1)
       /\ UNCHANGED <<wasRecorded, isCompleted, last>>
  ELSE /\ e \in Events \ (held \cup CachedSet)
       /\ wasRecorded' = [wasRecorded EXCEPT ![e] = FALSE]
       /\ isCompleted' = [isCompleted EXCEPT ![e] = FALSE]
       /\ last' = [last EXCEPT ![e] = None]
       /\ UNCHANGED cached

(* DestroyEvent: back to the pool, or to the driver.                       *)
DropEvent(e) ==
  /\ held' = held \ {e}
  /\ cached' = IF reuse THEN Append(cached, e) ELSE cached

(* QueryEvent's answer for a held event.  A CNRTEvent remembers that it was*)
(* once completed.                                                         *)
QueryAnswer(e) ==
  IF reuse THEN wasRecorded[e] /\ (isCompleted[e] \/ Completed(e)) ELSE Completed(e)

Remember(e) ==
  isCompleted' = [isCompleted EXCEPT
                    ![e] = @ \/ (reuse /\ wasRecorded[e] /\ Completed(e))]

CreateEvent(t, e) ==
  /\ Outside(t) /\ gMutex = None /\ Cardinality(mine) < MaxMine
  /\ TakeEvent(e)
  /\ held' = held \cup {e}
  /\ mine' = mine \cup {e}
  /\ UNCHANGED <<reuse, gMutex, staged, pc, local, queue>>

DestroyEvent(t, e) ==
  /\ Outside(t) /\ gMutex = None
  /\ e \in mine /\ ~Syncing(e)
  /\ DropEvent(e)
  /\ mine' = mine \ {e}
  /\ UNCHANGED <<reuse, wasRecorded, isCompleted, gMutex, staged, pc, local, device>>

(* A client does not record an event that a thread is waiting for.         *)
RecordEvent(t, e, s) ==
  /\ Outside(t) /\ gMutex = None
  /\ e \in mine /\ ~Syncing(e) /\ HasRoom(s)
  /\ Place(e, s)
  /\ wasRecorded' = [wasRecorded EXCEPT ![e] = TRUE]
  /\ UNCHANGED <<reuse, held, cached, isCompleted, mine, gMutex, staged, pc, local>>

QueryEvent(t, e) ==
  /\ Outside(t) /\ gMutex = None
  /\ e \in mine
  /\ Remember(e)
  /\ UNCHANGED <<reuse, held, cached, wasRecorded, mine, gMutex, staged, pc, local, device>>

(* With reuse an event that was never recorded is refused (C_FAILED).      *)
StreamWaitEvent(t, e, s) ==
  /\ Outside(t) /\ gMutex = None
  /\ e \in mine /\ HasRoom(s)
  /\ reuse => wasRecorded[e]
  /\ last[e] # None
  /\ Enqueue(s, WaitTask(e, last[e]))
  /\ UNCHANGED <<reuse, pool, gMutex, staged, pc, local, last>>

SyncEvent(t, e) ==
  /\ Outside(t) /\ gMutex = None
  /\ e \in mine
  /\ reuse => wasRecorded[e]
  /\ gMutex' = IF reuse THEN t ELSE None
  /\ ev' = [ev EXCEPT ![t] = e]
  /\ Goto(t, "sync")
  /\ UNCHANGED <<reuse, pool, staged, buf, st, todo, device>>

(* A bug: the mutex is not released.                                       *)
SyncReturnLocked(t) ==
  /\ pc[t] = "sync" /\ Completed(ev[t])
  /\ ev' = [ev EXCEPT ![t] = None]
  /\ Goto(t, "out")
  /\ UNCHANGED <<reuse, pool, gMutex, staged, buf, st, todo, device>>

SyncReturn(t) ==
  /\ pc[t] = "sync" /\ Completed(ev[t])
  /\ gMutex' = IF reuse THEN None ELSE gMutex
  /\ ev' = [ev EXCEPT ![t] = None]
  /\ Goto(t, "out")
  /\ UNCHANGED <<reuse, pool, staged, buf, st, todo, device>>

(***************************************************************************)
(* AsyncMemCpyH2D -> AlignnedAllocator::Alloc -> ProcessEvents.            *)
(***************************************************************************)
CopyEnter(t, s) ==
  /\ Outside(t) /\ t \in Copiers /\ mtx = None
  /\ HasRoom(s) /\ BufferToCome
  /\ mtx' = t
  /\ st' = [st EXCEPT ![t] = s]
  /\ todo' = [todo EXCEPT ![t] = buffers]
  /\ Goto(t, "process")
  /\ UNCHANGED <<reuse, pool, gMutex, buffers, eventOf, buf, ev, device>>

(* `if (!event) continue;`: a buffer without an event is visited again and *)
(* again, so the loop goes on only with one that has an event.  QueryEvent *)
(* and DestroyEvent lock g_mutex each for itself: other threads' calls come*)
(* between them.                                                           *)
ProcessEntry(t, b) ==
  LET e == eventOf[b] IN
  /\ pc[t] = "process" /\ gMutex = None
  /\ b \in todo[t] /\ e # None
  /\ Remember(e)
  /\ todo' = [todo EXCEPT ![t] = @ \ {b}]
  /\ IF QueryAnswer(e)
     THEN /\ buffers' = buffers \ {b}
          /\ eventOf' = [eventOf EXCEPT ![b] = None]
          /\ ev' = [ev EXCEPT ![t] = e]
          /\ Goto(t, "drop")
     ELSE UNCHANGED <<buffers, eventOf, ev, pc>>
  /\ UNCHANGED <<reuse, held, cached, wasRecorded, mine, gMutex, mtx, buf, st, device>>

DropEntryEvent(t) ==
  /\ pc[t] = "drop" /\ gMutex = None
  /\ DropEvent(ev[t])
  /\ ev' = [ev EXCEPT ![t] = None]
  /\ Goto(t, "process")
  /\ UNCHANGED <<reuse, wasRecorded, isCompleted, mine, gMutex, staged, buf, st, todo, device>>

Allocate(t, b) ==
  /\ pc[t] = "process" /\ todo[t] = {}
  /\ b \in Buffers \ buffers
  /\ buffers' = buffers \cup {b}
  /\ eventOf' = [eventOf EXCEPT ![b] = None]
  /\ mtx' = None
  /\ buf' = [buf EXCEPT ![t] = b]
  /\ Goto(t, "create")
  /\ UNCHANGED <<reuse, pool, gMutex, ev, st, todo, device>>

CopyCreateEvent(t, e) ==
  /\ pc[t] = "create" /\ gMutex = None
  /\ TakeEvent(e)
  /\ held' = held \cup {e}
  /\ ev' = [ev EXCEPT ![t] = e]
  /\ Goto(t, "copy")
  /\ UNCHANGED <<reuse, mine, gMutex, staged, buf, st, todo, queue>>

StartCopy(t) ==
  /\ pc[t] = "copy"
  /\ Enqueue(st[t], CopyTask(buf[t]))
  /\ Goto(t, "record")
  /\ UNCHANGED <<reuse, pool, gMutex, staged, local, last>>

CopyRecordEvent(t) ==
  /\ pc[t] = "record" /\ gMutex = None
  /\ Place(ev[t], st[t])
  /\ wasRecorded' = [wasRecorded EXCEPT ![ev[t]] = TRUE]
  /\ Goto(t, "note")
  /\ UNCHANGED <<reuse, held, cached, isCompleted, mine, gMutex, staged, local>>

NoteNothing(t) ==
  /\ pc[t] = "note"
  /\ buf' = [buf EXCEPT ![t] = None]
  /\ ev' = [ev EXCEPT ![t] = None]
  /\ st' = [st EXCEPT ![t] = None]
  /\ Goto(t, "out")
  /\ UNCHANGED <<reuse, pool, gMutex, staged, todo, device>>

(* A bug: the buffer is given its event before the event is recorded.      *)
NoteEarly(t) ==
  \/ /\ pc[t] = "copy" /\ mtx = None
     /\ eventOf[buf[t]] = None
     /\ eventOf' = [eventOf EXCEPT ![buf[t]] = ev[t]]
     /\ UNCHANGED <<reuse, pool, gMutex, mtx, buffers, pc, local, device>>
  \/ NoteNothing(t)

Note(t) ==
  /\ pc[t] = "note" /\ mtx = None
  /\ eventOf' = [eventOf EXCEPT ![buf[t]] = ev[t]]
  /\ buf' = [buf EXCEPT ![t] = None]
  /\ ev' = [ev EXCEPT ![t] = None]
  /\ st' = [st EXCEPT ![t] = None]
  /\ Goto(t, "out")
  /\ UNCHANGED <<reuse, pool, gMutex, mtx, buffers, todo, device>>

(* The device runs the task at the head of a queue; a wait needs the record*)
(* that was the last one when it was made.                                 *)
DeviceStep(s) ==
  /\ queue[s] # <<>>
  /\ LET task == Head(queue[s]) IN
       task.op = "wait" => ~Pending(RecordTask(task.event, task.tag))
  /\ queue' = [queue EXCEPT ![s] = Tail(@)]
  /\ UNCHANGED <<reuse, pool, gMutex, staged, pc, local, last>>

ClientStep(t) ==
  \/ \E e \in Events : \/ CreateEvent(t, e) \/ DestroyEvent(t, e)
                       \/ QueryEvent(t, e) \/ SyncEvent(t, e)
  \/ \E e \in Events, s \in Streams : RecordEvent(t, e, s) \/ StreamWaitEvent(t, e, s)
  \/ \E s \in Streams : CopyEnter(t, s)

InnerStep(t) ==
  \/ SyncReturn(t)
  \/ \E b \in Buffers : ProcessEntry(t, b) \/ Allocate(t, b)
  \/ DropEntryEvent(t)
  \/ \E e \in Events : CopyCreateEvent(t, e)
  \/ StartCopy(t) \/ CopyRecordEvent(t) \/ Note(t)

Next ==
  \/ \E t \in Threads : ClientStep(t) \/ InnerStep(t)
  \/ \E s \in Streams : DeviceStep(s)

Spec == Init /\ [][Next]_vars

(* The device keeps executing, a thread inside a call keeps running, and a *)
(* thread that waits for a mutex gets it if it is free again and again.    *)
FairSpec ==
  /\ Spec
  /\ \A t \in Threads : SF_vars(InnerStep(t))
  /\ \A s \in Streams : WF_vars(DeviceStep(s))

-----------------------------------------------------------------------------
(* The owners of event handles - clients, copies in progress, buffers - are*)
(* never given the same one: EventPool hands a wrapper to one of them.     *)
OneOwner ==
  /\ \A i, j \in 1..Len(cached) : i # j => cached[i] # cached[j]
  /\ CachedSet \cap held = {}
  /\ \A b, c \in buffers : eventOf[b] # None =>
       /\ eventOf[b] \in held \ mine
       /\ b # c => eventOf[b] # eventOf[c]

(* A host buffer is freed only after the device has copied from it: this is*)
(* why AsyncMemCpyH2D waits for its event. With the events of the pool it  *)
(* does not hold: see QueryFaithful.                                       *)
StagingSafe == ~reuse => \A b \in Buffers : Pending(CopyTask(b)) => b \in buffers

(* What QueryEvent says of an event agrees with the notifier it wraps.     *)
QueryFaithful == \A e \in held : QueryAnswer(e) => Completed(e)

(* ProcessEvents turns round on a buffer that another AsyncMemCpyH2D has   *)
(* allocated and not yet given an event, with the mutex that one needs.    *)
Spins(t) == pc[t] = "process" /\ \E b \in todo[t] : eventOf[b] = None

(* Every call returns: SyncEvent although it blocks with g_mutex, and      *)
(* AsyncMemCpyH2D although ProcessEvents takes g_mutex under mtx_.  The one*)
(* exception is two overlapping AsyncMemCpyH2D: the second may spin on the *)
(* buffer of the first, and then neither ever returns.                     *)
CallReturns ==
  \A t \in Threads : pc[t] # "out" ~> pc[t] = "out" \/ \E u \in Threads : Spins(u)
=============================================================================
