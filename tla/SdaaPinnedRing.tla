--------------------------- MODULE SdaaPinnedRing ---------------------------
(***************************************************************************)
(* The ring of pinned host blocks of the SDAA plugin                       *)
(* (src/backends/sdaa/runtime/runtime.cc): AsyncMemCpyH2D copies a small   *)
(* source into the next block, starts the device copy from the block, and  *)
(* records the block's event behind it; the block is taken again when the  *)
(* ring comes round and its event has completed.  One device.              *)
(*                                                                         *)
(* AsyncMemCpyH2D takes no lock and reads the counter three times, so each *)
(* reading is a step.  The counter is kept modulo NumBlocks, the only way  *)
(* the code uses it (fewer than 2^31 copies are made).                     *)
(*                                                                         *)
(* The device is external: a stream runs its tasks in order, and an event  *)
(* has completed when its most recent record has run.                      *)
(***************************************************************************)
EXTENDS TaskQueue

CONSTANTS
  Threads,      \* host threads that call the C_DeviceInterface
  Streams,      \* sdaaStream_t handles
  NumBlocks,    \* PINNED_MEMORY_BLOCKNUM
  Data,         \* the bytes of a source
  Concurrent,   \* two threads may be in calls at the same time
  MaxQueue,     \* bound on the tasks a client leaves pending in a stream
  None          \* the null pointer

ASSUME NumBlocksAssumption == NumBlocks \in Nat \ {0}
ASSUME NoneAssumption == None \notin Streams \cup Data \cup Nat

VARIABLES
  phase,        \* allocator_list[device]: absent, being filled, or ready
  counter,      \* counter % PINNED_MEMORY_BLOCKNUM
  content,      \* the bytes in each block; None: nothing, or freed
  noted,        \* recorded_events_: the event of each block, or None
  pc,           \* where each thread is
  slot,         \* the block a thread copies through
  src, st,      \* the source and the stream of the call
  todo,         \* blocks ClearEvent has still to free
  queue,        \* device: the pending tasks of each stream
  recordedOn    \* device: the stream of each event's last record, or None

ring   == <<phase, counter, content, noted>>
local  == <<slot, src, st, todo>>
device == <<queue, recordedOn>>
vars   == <<ring, pc, local, device>>

Slots == 0 .. NumBlocks - 1

CopyTask(b, d) == [op |-> "copy", block |-> b, data |-> d]
RecordTask(i)  == [op |-> "record", event |-> i]
DirectTask     == [op |-> "direct"]

Task == {CopyTask(b, d) : b \in Slots, d \in Data} \cup {RecordTask(i) : i \in Slots}
          \cup {DirectTask}

Enqueue(s, task) == queue' = [queue EXCEPT ![s] = Append(@, task)]

PendingOn(task, s) == In(task, queue[s])

(* sdaaEventQuery: the last record, if there was one, has run.             *)
EventDone(i) == \A s \in Streams : recordedOn[i] = s => ~PendingOn(RecordTask(i), s)

Outside(t) ==
  /\ pc[t] = "out"
  /\ Concurrent \/ \A u \in Threads : pc[u] = "out"

Goto(t, label) == pc' = [pc EXCEPT ![t] = label]

Init ==
  /\ phase = "absent"
  /\ counter = 0
  /\ content = [b \in Slots |-> None]
  /\ noted = [b \in Slots |-> None]
  /\ pc = [t \in Threads |-> "out"]
  /\ slot = [t \in Threads |-> 0]
  /\ src = [t \in Threads |-> None]
  /\ st = [t \in Threads |-> None]
  /\ todo = [t \in Threads |-> {}]
  /\ queue = [s \in Streams |-> <<>>]
  /\ recordedOn = [i \in Slots |-> None]

(***************************************************************************)
(* SetDevice -> AlignnedAllocatorList::Init: the allocator is published    *)
(* first, then its blocks and its events are made.  A device that is       *)
(* Inited is left alone.                                                   *)
(***************************************************************************)
SetDevice(t) ==
  /\ Outside(t) /\ phase = "absent"
  /\ phase' = "published"
  /\ counter' = 0
  /\ Goto(t, "alloc")
  /\ UNCHANGED <<content, noted, local, device>>

Alloc(t) ==
  /\ pc[t] = "alloc"
  /\ content' = [b \in Slots |-> None]
  /\ noted' = [b \in Slots |-> None]
  /\ Goto(t, "events")
  /\ UNCHANGED <<phase, counter, local, device>>

CreateEvents(t) ==
  /\ pc[t] = "events"
  /\ phase' = "ready"
  /\ recordedOn' = [i \in Slots |-> None]
  /\ Goto(t, "out")
  /\ UNCHANGED <<counter, content, noted, local, queue>>

(***************************************************************************)
(* AsyncMemCpyH2D.                                                         *)
(***************************************************************************)
(* A source larger than a block is handed to the driver as it is.          *)
CopyLarge(t, s) ==
  /\ Outside(t) /\ phase # "absent"
  /\ Len(queue[s]) < MaxQueue
  /\ Enqueue(s, DirectTask)
  /\ UNCHANGED <<ring, pc, local, recordedOn>>

CopyEnter(t, s, d) ==
  /\ Outside(t) /\ phase # "absent"
  /\ Len(queue[s]) < MaxQueue
  /\ slot' = [slot EXCEPT ![t] = counter]
  /\ src' = [src EXCEPT ![t] = d]
  /\ st' = [st EXCEPT ![t] = s]
  /\ Goto(t, "query")
  /\ UNCHANGED <<ring, todo, device>>

(* A bug: the block is taken without waiting for its event.                *)
TakeUnqueried(t) ==
  /\ pc[t] = "query"
  /\ content' = [content EXCEPT ![slot[t]] = src[t]]
  /\ Goto(t, "copy")
  /\ UNCHANGED <<phase, counter, noted, local, device>>

(* The last round of GetPinnedMemoryPtr's polling loop, and the memcpy.    *)
TakeBlock(t) ==
  /\ pc[t] = "query" /\ EventDone(slot[t])
  /\ content' = [content EXCEPT ![slot[t]] = src[t]]
  /\ Goto(t, "copy")
  /\ UNCHANGED <<phase, counter, noted, local, device>>

StartCopy(t) ==
  /\ pc[t] = "copy"
  /\ Enqueue(st[t], CopyTask(slot[t], src[t]))
  /\ Goto(t, "event")
  /\ UNCHANGED <<ring, local, recordedOn>>

RecordEvent(t) ==
  /\ pc[t] = "event"
  /\ Enqueue(st[t], RecordTask(counter))
  /\ recordedOn' = [recordedOn EXCEPT ![counter] = st[t]]
  /\ Goto(t, "record")
  /\ UNCHANGED <<ring, local>>

(* A bug: the counter is not reduced modulo the number of blocks.          *)
AdvanceUnbounded(c) == c + 1
Advance(c) == (c + 1) % NumBlocks

Record(t) ==
  /\ pc[t] = "record"
  /\ noted' = [noted EXCEPT ![counter] = counter]
  /\ counter' = Advance(counter)
  /\ src' = [src EXCEPT ![t] = None]
  /\ st' = [st EXCEPT ![t] = None]
  /\ Goto(t, "out")
  /\ UNCHANGED <<phase, content, slot, todo, device>>

(***************************************************************************)
(* DestroyDevice: ClearEvent waits for the event of each block that has    *)
(* one and frees the block; blocks that were never used are leaked.  Then  *)
(* the allocator is deleted and the device is reset.                       *)
(***************************************************************************)
(* A bug: ClearEvent does not step over a block without an event.          *)
DestroyEnterAll(t) ==
  /\ Outside(t) /\ phase = "ready"
  /\ todo' = [todo EXCEPT ![t] = Slots]
  /\ Goto(t, "clear")
  /\ UNCHANGED <<ring, slot, src, st, device>>

DestroyEnter(t) ==
  /\ Outside(t) /\ phase = "ready"
  /\ todo' = [todo EXCEPT ![t] = {b \in Slots : noted[b] # None}]
  /\ Goto(t, "clear")
  /\ UNCHANGED <<ring, slot, src, st, device>>

ClearBlock(t, b) ==
  /\ pc[t] = "clear" /\ b \in todo[t]
  /\ noted[b] # None /\ EventDone(noted[b])
  /\ content' = [content EXCEPT ![b] = None]
  /\ noted' = [noted EXCEPT ![b] = None]
  /\ todo' = [todo EXCEPT ![t] = @ \ {b}]
  /\ UNCHANGED <<phase, counter, pc, slot, src, st, device>>

DestroyFinish(t) ==
  /\ pc[t] = "clear" /\ todo[t] = {}
  /\ phase' = "absent"
  /\ queue' = [s \in Streams |-> <<>>]
  /\ Goto(t, "out")
  /\ UNCHANGED <<counter, content, noted, local, recordedOn>>

(* The device runs the task at the head of a stream.                       *)
DeviceStep(s) ==
  /\ queue[s] # <<>>
  /\ queue' = [queue EXCEPT ![s] = Tail(@)]
  /\ UNCHANGED <<ring, pc, local, recordedOn>>

InnerStep(t) ==
  \/ Alloc(t) \/ CreateEvents(t)
  \/ TakeBlock(t) \/ StartCopy(t) \/ RecordEvent(t) \/ Record(t)
  \/ \E b \in Slots : ClearBlock(t, b)
  \/ DestroyFinish(t)

ClientStep(t) ==
  \/ SetDevice(t)
  \/ \E s \in Streams : CopyLarge(t, s)
  \/ \E s \in Streams, d \in Data : CopyEnter(t, s, d)
  \/ DestroyEnter(t)

Next ==
  \/ \E t \in Threads : ClientStep(t) \/ InnerStep(t)
  \/ \E s \in Streams : DeviceStep(s)

Spec == Init /\ [][Next]_vars

(* The device keeps executing and a thread inside a call keeps running.    *)
FairSpec ==
  /\ Spec
  /\ \A t \in Threads : WF_vars(InnerStep(t))
  /\ \A s \in Streams : WF_vars(DeviceStep(s))

-----------------------------------------------------------------------------
TypeOK ==
  /\ phase \in {"absent", "published", "ready"}
  /\ counter \in Slots
  /\ content \in [Slots -> Data \cup {None}]
  /\ noted \in [Slots -> Slots \cup {None}]
  /\ pc \in [Threads -> {"out", "alloc", "events", "query", "copy", "event", "record", "clear"}]
  /\ slot \in [Threads -> Slots]
  /\ src \in [Threads -> Data \cup {None}]
  /\ st \in [Threads -> Streams \cup {None}]
  /\ todo \in [Threads -> SUBSET Slots]
  /\ queue \in [Streams -> Seq(Task)]
  /\ recordedOn \in [Slots -> Streams \cup {None}]

(* A device copy that has not run yet will read the bytes its caller gave: *)
(* nobody has written to its pinned block since, and nobody has freed it.  *)
StagedIntact ==
  \A s \in Streams, b \in Slots, d \in Data : PendingOn(CopyTask(b, d), s) => content[b] = d

(* AsyncMemCpyH2D, SetDevice and DestroyDevice return: the polling of an   *)
(* event and ClearEvent's synchronization end.                             *)
CallReturns == \A t \in Threads : pc[t] # "out" ~> pc[t] = "out"
=============================================================================
