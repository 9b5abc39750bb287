---------------------------- MODULE NpuEventPool ----------------------------
(***************************************************************************)
(* EventResourcePool of the NPU plugin (src/backends/npu/runtime/          *)
(* runtime.cc): the pool that recycles aclrtEvent handles among the host   *)
(* threads of one device.  A handle destroyed by its user goes to the wait *)
(* list; the next CreateEvent moves it to the idle list once its record    *)
(* has completed and every stream that waits for it has done so.           *)
(*                                                                         *)
(* The device is external: a stream is a FIFO queue of tasks, an event is  *)
(* a flag that a record task raises, that a wait task needs raised, and    *)
(* that aclrtResetEvent lowers.  Everything a public method does under     *)
(* mutex_ is split only where it can block (aclrtSynchronizeStream in      *)
(* reset_event) or read a flag the device changes; WaitEvent, which takes  *)
(* no lock, is split at each of its three accesses.                        *)
(***************************************************************************)
EXTENDS TaskQueue

CONSTANTS
  Threads,          \* host threads that call the C_DeviceInterface
  Events,           \* aclrtEvent handles the driver can hand out (a bound)
  Streams,          \* aclrtStream handles
  Destroyable,      \* the streams the client may destroy
  RerecordPending,  \* the client may record an event whose record is pending
  SharedCalls,      \* two threads may be in a call on the same event
  MaxQueue,         \* bound on the tasks a client leaves pending in a stream
  None              \* the null pointer

ASSUME NoneAssumption == None \notin Threads \cup Events \cup Streams
ASSUME DestroyableAssumption == Destroyable \subseteq Streams
ASSUME MaxQueueAssumption == MaxQueue \in Nat

VARIABLES
  idle, busy, wait,   \* idle_event_list_, busy_event_list_, wait_event_list_
  recorded,           \* event_has_been_recorded_
  recStream,          \* recorded_event_stream_map_
  waitStreams,        \* recorded_event_wait_stream_map_
  mutex,              \* the thread that holds mutex_, or None
  pc,                 \* where each thread is in the pool's code
  ev, st,             \* the event and the stream of the call a thread is in
  scan,               \* events CreateEvent's loop has not visited yet
  todo,               \* wait streams reset_event has not synchronized yet
  back,               \* the pc reset_event returns to
  queue,              \* device: the pending tasks of each stream
  flag,               \* device: events whose last record has completed
  alive,              \* device: streams that exist
  stopped             \* why the process ended, or "no"

pool   == <<idle, busy, wait, recorded, recStream, waitStreams>>
local  == <<ev, st, scan, todo, back>>
device == <<queue, flag, alive>>
vars   == <<pool, mutex, pc, local, device, stopped>>

(***************************************************************************)
(* The device.                                                             *)
(***************************************************************************)
RecordTask(e) == [op |-> "record", arg |-> e]
WaitTask(e)   == [op |-> "wait", arg |-> e]
MarkTask(t)   == [op |-> "mark", arg |-> t]

Task == [op : {"record", "wait"}, arg : Events] \cup [op : {"mark"}, arg : Threads]

PendingOn(task, s) == In(task, queue[s])
Pending(task) == \E s \in Streams : PendingOn(task, s)

Enqueue(s, task) == queue' = [queue EXCEPT ![s] = Append(@, task)]

Fresh == Events \ (idle \cup busy \cup wait)

(* QueryEvent: an event that was never recorded counts as completed.       *)
QueryEvent(e) == recorded[e] => flag[e]

(***************************************************************************)
(* What the client may call.  A handle is used between the CreateEvent that*)
(* returned it and its DestroyEvent, by at most one thread at a time unless*)
(* SharedCalls, and never destroyed during a call on it.                   *)
(***************************************************************************)
Running == stopped = "no"
Outside(t) == Running /\ pc[t] = "out"
InCall(e) == \E t \in Threads : pc[t] # "out" /\ ev[t] = e
UsesStream(s) == \E t \in Threads : pc[t] # "out" /\ st[t] = s
Usable(e, s) ==
  /\ e \in busy
  /\ s \in alive
  /\ Len(queue[s]) < MaxQueue
  /\ SharedCalls \/ ~InCall(e)

Init ==
  /\ idle = {} /\ busy = {} /\ wait = {}
  /\ recorded = [e \in Events |-> FALSE]
  /\ recStream = [e \in Events |-> None]
  /\ waitStreams = [e \in Events |-> {}]
  /\ mutex = None
  /\ pc = [t \in Threads |-> "out"]
  /\ ev = [t \in Threads |-> None]
  /\ st = [t \in Threads |-> None]
  /\ scan = [t \in Threads |-> {}]
  /\ todo = [t \in Threads |-> {}]
  /\ back = [t \in Threads |-> "out"]
  /\ queue = [s \in Streams |-> <<>>]
  /\ flag = [e \in Events |-> FALSE]
  /\ alive = Streams
  /\ stopped = "no"

Goto(t, label) == pc' = [pc EXCEPT ![t] = label]
Return(t) ==
  /\ Goto(t, "out")
  /\ ev' = [ev EXCEPT ![t] = None]
  /\ st' = [st EXCEPT ![t] = None]
Stop(why) ==
  /\ stopped' = why
  /\ UNCHANGED <<pool, mutex, pc, local, device>>

(***************************************************************************)
(* reset_event, called with the mutex held by CreateEvent and RecordEvent. *)
(***************************************************************************)
(* A bug: the streams that wait for the event are not synchronized.        *)
NeedsDrainDropped(e) == FALSE

NeedsDrain(e) == waitStreams[e] # {} /\ Pending(WaitTask(e))

ResetCall(t, e, label) ==
  /\ ev' = [ev EXCEPT ![t] = e]
  /\ back' = [back EXCEPT ![t] = label]
  /\ todo' = [todo EXCEPT ![t] = IF NeedsDrain(e) THEN waitStreams[e] ELSE {}]
  /\ Goto(t, IF NeedsDrain(e) THEN "drain" ELSE "reset")

(* aclrtSynchronizeStream on one of the waiting streams: the thread blocks *)
(* until the tasks that are queued now have run.                           *)
DrainStream(t, s) ==
  /\ Running /\ pc[t] = "drain" /\ s \in todo[t]
  /\ IF s \in alive
     THEN /\ Enqueue(s, MarkTask(t))
          /\ Goto(t, "sync")
          /\ todo' = [todo EXCEPT ![t] = @ \ {s}]
          /\ UNCHANGED <<pool, mutex, ev, st, scan, back, flag, alive, stopped>>
     ELSE Stop("deadStream")

DrainDone(t) ==
  /\ Running /\ pc[t] = "drain" /\ todo[t] = {}
  /\ Goto(t, "reset")
  /\ UNCHANGED <<pool, mutex, local, device, stopped>>

(* A bug: the handle is not reset on the device.                           *)
LowerFlagDropped(e) == UNCHANGED flag

(* aclrtResetEvent, called only if the recording stream is still known.    *)
LowerFlag(e) == flag' = [flag EXCEPT ![e] = @ /\ recStream[e] = None]

ResetFinish(t) ==
  LET e == ev[t] IN
  /\ Running /\ pc[t] = "reset"
  /\ IF recStream[e] \in alive \cup {None}
     THEN /\ waitStreams' = [waitStreams EXCEPT ![e] = {}]
          /\ LowerFlag(e)
          /\ Goto(t, back[t])
          /\ back' = [back EXCEPT ![t] = "out"]
          /\ IF back[t] = "scan"
             THEN /\ idle' = idle \cup {e}
                  /\ wait' = wait \ {e}
                  /\ scan' = [scan EXCEPT ![t] = @ \ {e}]
                  /\ ev' = [ev EXCEPT ![t] = None]
             ELSE UNCHANGED <<idle, wait, scan, ev>>
          /\ UNCHANGED <<busy, recorded, recStream, mutex, st, todo,
                         queue, alive, stopped>>
     ELSE Stop("deadStream")

(***************************************************************************)
(* CreateEvent.                                                            *)
(***************************************************************************)
(* A bug: CreateEvent does not take the mutex.                             *)
CreateUnlocked(t) ==
  /\ Outside(t)
  /\ idle \cup Fresh # {}
  /\ Goto(t, "scan")
  /\ scan' = [scan EXCEPT ![t] = wait]
  /\ UNCHANGED <<pool, mutex, ev, st, todo, back, device, stopped>>

CreateEnter(t) ==
  /\ Outside(t) /\ mutex = None
  /\ idle \cup Fresh # {}
  /\ mutex' = t
  /\ Goto(t, "scan")
  /\ scan' = [scan EXCEPT ![t] = wait]
  /\ UNCHANGED <<pool, ev, st, todo, back, device, stopped>>

ScanUnrecorded(t, e) ==
  /\ Running /\ pc[t] = "scan" /\ e \in scan[t]
  /\ ~recorded[e]
  /\ idle' = idle \cup {e}
  /\ wait' = wait \ {e}
  /\ scan' = [scan EXCEPT ![t] = @ \ {e}]
  /\ UNCHANGED <<busy, recorded, recStream, waitStreams, mutex, pc, ev, st,
                 todo, back, device, stopped>>

ScanPending(t, e) ==
  /\ Running /\ pc[t] = "scan" /\ e \in scan[t]
  /\ recorded[e] /\ ~flag[e]
  /\ scan' = [scan EXCEPT ![t] = @ \ {e}]
  /\ UNCHANGED <<pool, mutex, pc, ev, st, todo, back, device, stopped>>

ScanComplete(t, e) ==
  /\ Running /\ pc[t] = "scan" /\ e \in scan[t]
  /\ recorded[e] /\ flag[e]
  /\ ResetCall(t, e, "scan")
  /\ UNCHANGED <<pool, mutex, st, scan, device, stopped>>

(* The front of the idle list, or a new handle if the list is empty.       *)
CreateTake(t, e) ==
  /\ Running /\ pc[t] = "scan" /\ scan[t] = {}
  /\ IF idle = {}
     THEN /\ e \in Fresh
          /\ flag' = [flag EXCEPT ![e] = FALSE]
          /\ UNCHANGED idle
     ELSE /\ e \in idle
          /\ idle' = idle \ {e}
          /\ UNCHANGED flag
  /\ busy' = busy \cup {e}
  /\ recorded' = [recorded EXCEPT ![e] = FALSE]
  /\ recStream' = [recStream EXCEPT ![e] = None]
  /\ waitStreams' = [waitStreams EXCEPT ![e] = {}]
  /\ mutex' = None
  /\ Return(t)
  /\ UNCHANGED <<wait, scan, todo, back, queue, alive, stopped>>

(***************************************************************************)
(* DestroyEvent.                                                           *)
(***************************************************************************)
DestroyEvent(t, e) ==
  /\ Outside(t) /\ mutex = None
  /\ e \in busy /\ ~InCall(e)
  /\ wait' = wait \cup {e}
  /\ busy' = busy \ {e}
  /\ UNCHANGED <<idle, recorded, recStream, waitStreams, mutex, pc, local,
                 device, stopped>>

(***************************************************************************)
(* RecordEvent: an event recorded before is reset first.                   *)
(***************************************************************************)
RecordEnter(t, e, s) ==
  /\ Outside(t) /\ mutex = None
  /\ Usable(e, s)
  /\ RerecordPending \/ QueryEvent(e)
  /\ mutex' = t
  /\ st' = [st EXCEPT ![t] = s]
  /\ IF recorded[e]
     THEN ResetCall(t, e, "record")
     ELSE /\ ev' = [ev EXCEPT ![t] = e]
          /\ Goto(t, "record")
          /\ UNCHANGED <<todo, back>>
  /\ UNCHANGED <<pool, scan, device, stopped>>

RecordDo(t) ==
  /\ Running /\ pc[t] = "record"
  /\ recorded' = [recorded EXCEPT ![ev[t]] = TRUE]
  /\ recStream' = [recStream EXCEPT ![ev[t]] = st[t]]
  /\ Enqueue(st[t], RecordTask(ev[t]))
  /\ mutex' = None
  /\ Return(t)
  /\ UNCHANGED <<idle, busy, wait, waitStreams, scan, todo, back, flag, alive,
                 stopped>>

(***************************************************************************)
(* WaitEvent: no lock is taken.  Waiting for an event that has not been    *)
(* recorded ends the process.                                              *)
(***************************************************************************)
(* A bug: an event that was never recorded is waited for.                  *)
WaitUnchecked(t, e, s) ==
  /\ Outside(t) /\ Usable(e, s)
  /\ Goto(t, "waitEnqueue")
  /\ ev' = [ev EXCEPT ![t] = e]
  /\ st' = [st EXCEPT ![t] = s]
  /\ UNCHANGED <<pool, mutex, scan, todo, back, device, stopped>>

WaitCheck(t, e, s) ==
  /\ Outside(t)
  /\ Usable(e, s)
  /\ IF recorded[e]
     THEN /\ Goto(t, "waitEnqueue")
          /\ ev' = [ev EXCEPT ![t] = e]
          /\ st' = [st EXCEPT ![t] = s]
          /\ UNCHANGED <<pool, mutex, scan, todo, back, device, stopped>>
     ELSE Stop("unrecordedWait")

WaitEnqueue(t) ==
  /\ Running /\ pc[t] = "waitEnqueue"
  /\ Enqueue(st[t], WaitTask(ev[t]))
  /\ Goto(t, "waitPush")
  /\ UNCHANGED <<pool, mutex, local, flag, alive, stopped>>

(* A bug: the pool does not remember which stream waits.                   *)
WaitForgotten(t) ==
  /\ Running /\ pc[t] = "waitPush"
  /\ Return(t)
  /\ UNCHANGED <<pool, mutex, scan, todo, back, device, stopped>>

WaitPush(t) ==
  /\ Running /\ pc[t] = "waitPush"
  /\ waitStreams' = [waitStreams EXCEPT ![ev[t]] = @ \cup {st[t]}]
  /\ Return(t)
  /\ UNCHANGED <<idle, busy, wait, recorded, recStream, mutex, scan, todo, back,
                 device, stopped>>

(***************************************************************************)
(* DestroyStream: the stream is destroyed first, and only then does the    *)
(* pool forget it.  The client has synchronized the stream.                *)
(***************************************************************************)
DestroyStream(t, s) ==
  /\ Outside(t)
  /\ s \in alive \cap Destroyable
  /\ queue[s] = <<>> /\ ~UsesStream(s)
  /\ alive' = alive \ {s}
  /\ st' = [st EXCEPT ![t] = s]
  /\ Goto(t, "postDestroy")
  /\ UNCHANGED <<pool, mutex, ev, scan, todo, back, queue, flag, stopped>>

(* A bug: a destroyed stream stays in recorded_event_stream_map_.          *)
PostDestroyKeepsStream(t) ==
  /\ Running /\ pc[t] = "postDestroy" /\ mutex = None
  /\ waitStreams' = [e \in Events |-> waitStreams[e] \ {st[t]}]
  /\ Return(t)
  /\ UNCHANGED <<idle, busy, wait, recorded, recStream, mutex, scan, todo, back,
                 device, stopped>>

PostDestroyStream(t) ==
  /\ Running /\ pc[t] = "postDestroy" /\ mutex = None
  /\ recStream' = [e \in Events |-> IF recStream[e] = st[t] THEN None ELSE recStream[e]]
  /\ waitStreams' = [e \in Events |-> waitStreams[e] \ {st[t]}]
  /\ Return(t)
  /\ UNCHANGED <<idle, busy, wait, recorded, mutex, scan, todo, back, device,
                 stopped>>

(***************************************************************************)
(* ReleaseDevice -> Release: every handle of the device is destroyed.  The *)
(* client has synchronized the device and left the runtime.                *)
(***************************************************************************)
Release(t) ==
  /\ Outside(t) /\ mutex = None
  /\ \A u \in Threads : pc[u] = "out"
  /\ \A s \in Streams : queue[s] = <<>>
  /\ idle' = {} /\ busy' = {} /\ wait' = {}
  /\ UNCHANGED <<recorded, recStream, waitStreams, mutex, pc, local, device,
                 stopped>>

(***************************************************************************)
(* The device runs the task at the head of a stream.                       *)
(***************************************************************************)
DeviceRecord(s) ==
  \E e \in Events :
    /\ queue[s] # <<>> /\ Head(queue[s]) = RecordTask(e)
    /\ flag' = [flag EXCEPT ![e] = TRUE]
    /\ queue' = [queue EXCEPT ![s] = Tail(@)]
    /\ UNCHANGED <<pool, mutex, pc, local, alive, stopped>>

DeviceWait(s) ==
  \E e \in Events :
    /\ queue[s] # <<>> /\ Head(queue[s]) = WaitTask(e)
    /\ flag[e]
    /\ queue' = [queue EXCEPT ![s] = Tail(@)]
    /\ UNCHANGED <<pool, mutex, pc, local, flag, alive, stopped>>

DeviceMark(s) ==
  \E t \in Threads :
    /\ queue[s] # <<>> /\ Head(queue[s]) = MarkTask(t)
    /\ Goto(t, "drain")
    /\ queue' = [queue EXCEPT ![s] = Tail(@)]
    /\ UNCHANGED <<pool, mutex, local, flag, alive, stopped>>

DeviceStep(s) == Running /\ (DeviceRecord(s) \/ DeviceWait(s) \/ DeviceMark(s))

(* The steps a thread takes once it is inside a call.                      *)
InnerStep(t) ==
  \/ \E s \in Streams : DrainStream(t, s)
  \/ DrainDone(t)
  \/ ResetFinish(t)
  \/ \E e \in Events : \/ ScanUnrecorded(t, e)
                       \/ ScanPending(t, e)
                       \/ ScanComplete(t, e)
                       \/ CreateTake(t, e)
  \/ RecordDo(t)
  \/ WaitEnqueue(t)
  \/ WaitPush(t)
  \/ PostDestroyStream(t)

(* The calls a client makes.                                               *)
ClientStep(t) ==
  \/ CreateEnter(t)
  \/ \E e \in Events : DestroyEvent(t, e)
  \/ \E e \in Events, s \in Streams : RecordEnter(t, e, s) \/ WaitCheck(t, e, s)
  \/ \E s \in Streams : DestroyStream(t, s)
  \/ Release(t)

Next ==
  \/ \E t \in Threads : ClientStep(t) \/ InnerStep(t)
  \/ \E s \in Streams : DeviceStep(s)

Spec == Init /\ [][Next]_vars

(* The device keeps executing and a thread inside a call keeps running;    *)
(* the client need not call anything.                                      *)
FairSpec ==
  /\ Spec
  /\ \A t \in Threads : WF_vars(InnerStep(t))
  /\ \A s \in Streams : WF_vars(DeviceStep(s))

-----------------------------------------------------------------------------
Labels == {"out", "scan", "drain", "sync", "reset", "record", "waitEnqueue",
           "waitPush", "postDestroy"}

Locked == {"scan", "drain", "sync", "reset", "record"}

RangeOK ==
  /\ idle \subseteq Events /\ busy \subseteq Events /\ wait \subseteq Events
  /\ recorded \in [Events -> BOOLEAN]
  /\ recStream \in [Events -> Streams \cup {None}]
  /\ waitStreams \in [Events -> SUBSET Streams]
  /\ mutex \in Threads \cup {None}
  /\ pc \in [Threads -> Labels]
  /\ ev \in [Threads -> Events \cup {None}]
  /\ st \in [Threads -> Streams \cup {None}]
  /\ scan \in [Threads -> SUBSET Events]
  /\ todo \in [Threads -> SUBSET Streams]
  /\ back \in [Threads -> {"out", "scan", "record"}]
  /\ queue \in [Streams -> Seq(Task)]
  /\ flag \in [Events -> BOOLEAN]
  /\ alive \subseteq Streams
  /\ stopped \in {"no", "unrecordedWait", "deadStream"}

ListsOK == idle \cap busy = {} /\ idle \cap wait = {} /\ busy \cap wait = {}

LockOK == \A t \in Threads : mutex = t <=> pc[t] \in Locked

(* Every variable stays in its range, a handle is on at most one of the    *)
(* three lists, and exactly the holder of the mutex is in code under it.   *)
TypeOK == RangeOK /\ ListsOK /\ LockOK

(* A handle on the idle list is what CreateEvent hands out next: no stream *)
(* may still hold a record or a wait of its previous user, or the new user *)
(* would be signalled by, or would signal, someone else's work.            *)
RecycleSafe ==
  \A e \in idle : ~Pending(RecordTask(e)) /\ ~Pending(WaitTask(e))

(* When QueryEvent answers "completed" for a recorded event, the work the  *)
(* event was recorded after is done: this is what AlignnedAllocator relies *)
(* on when it frees the host buffer of a copy.                             *)
QuerySound ==
  \A e \in busy \cup wait : recorded[e] /\ flag[e] => ~Pending(RecordTask(e))

(* A stream never waits for an event that nothing is going to signal.      *)
NoStrandedWait ==
  \A e \in Events : Pending(WaitTask(e)) =>
    \/ flag[e]
    \/ Pending(RecordTask(e))
    \/ \E t \in Threads : pc[t] = "record" /\ ev[t] = e

(* reset_event neither synchronizes a destroyed stream nor resets an event *)
(* on one: PostDestroyStream removed it from both maps in time.            *)
NoDeadStream == stopped # "deadStream"

(* Every call that takes the pool's mutex gives it back, although          *)
(* reset_event blocks on whole streams while it holds it.                  *)
MutexReleased == \A t \in Threads : mutex = t ~> mutex # t \/ ~Running
=============================================================================
