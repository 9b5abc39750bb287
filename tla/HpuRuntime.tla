----------------------------- MODULE HpuRuntime -----------------------------
(***************************************************************************)
(* RuntimeManager of the Intel HPU plugin                                  *)
(* (src/backends/intel_hpu/runtime/runtime.cc): which device the process   *)
(* has acquired, the streams, and the copies, all of which go through one  *)
(* host buffer that is kept and grown from call to call.                   *)
(*                                                                         *)
(* One thread makes the calls: RuntimeManager has no lock.  A call that    *)
(* blocks in synStreamSynchronize is two actions, the other calls one.     *)
(* PD_CHECK throws out of the plugin: the model stops there ("dead").      *)
(*                                                                         *)
(* External: the device with its in-order queues and its memory.  Releasing*)
(* a device invalidates its streams, its mappings of host memory and its   *)
(* memory, and a call that uses one of them, or no device, fails.          *)
(***************************************************************************)
EXTENDS TaskQueue, FiniteSets

CONSTANTS
  Modules,      \* synModuleId of the devices
  FirstModule,  \* the initial value of moduleID, one of Modules
  Streams,      \* user streams
  Cells,        \* places in device memory
  Values,       \* what a place holds
  Sizes,        \* the sizes copied, positive numbers (a bound)
  MaxQueue,     \* bound on the pending tasks of a user stream
  Disciplined,  \* the client synchronizes its asynchronous staged copies
  None          \* neither a value nor a call

Kinds == {"h2d", "d2h", "d2d"}
Queues == Streams \cup Kinds

VARIABLES
  acquired,     \* the driver: the devices this process holds
  status,       \* RuntimeManager::Status
  moduleID,     \* RuntimeManager::moduleID
  handle,       \* user streams and stream_h2d, stream_d2h, stream_d2d
  capacity,     \* getCachedHostMem: ptr_size, 0 before the first buffer
  mapped,       \* the buffer is mapped on the device now acquired
  content,      \* what is in the buffer
  queue,        \* device: pending tasks
  mem,          \* device: memory
  call,         \* the call that waits in synStreamSynchronize, or None
  dead          \* a PD_CHECK has failed

devices == <<acquired, status, moduleID>>
buffer  == <<capacity, mapped, content>>
vars    == <<devices, handle, buffer, queue, mem, call, dead>>

(* A copy through the buffer of one size; the size also names the buffer,  *)
(* because ptr_size grows with every new one.                              *)
Upload(cell, value, size)  == [op |-> "h2d", cell |-> cell, value |-> value, size |-> size]
Download(cell, size)       == [op |-> "d2h", cell |-> cell, size |-> size]
Move(from, to)             == [op |-> "d2d", from |-> from, to |-> to]

Task == [op : {"h2d"}, cell : Cells, value : Values, size : Sizes]
          \cup [op : {"d2h"}, cell : Cells, size : Sizes] \cup [op : {"d2d"}, from : Cells, to : Cells]

Call == [sync : BOOLEAN, on : Queues, waits : Queues, task : Task \cup {None}]

Ready == call = None /\ ~dead
Fail == dead' = TRUE /\ UNCHANGED <<devices, handle, buffer, queue, mem, call>>

Init ==
  /\ acquired = {} /\ status = 0 /\ moduleID = FirstModule
  /\ handle = [q \in Queues |-> "none"]
  /\ capacity = 0 /\ mapped = FALSE /\ content = None
  /\ queue = [q \in Queues |-> <<>>]
  /\ mem = [c \in Cells |-> None]
  /\ call = None /\ dead = FALSE

(* What synDeviceRelease invalidates.                                      *)
Invalidate ==
  /\ handle' = [q \in Queues |-> IF handle[q] = "none" THEN "none" ELSE "stale"]
  /\ mapped' = FALSE
  /\ queue' = [q \in Queues |-> <<>>]
  /\ mem' = [c \in Cells |-> None]

(* A bug: the device in use is not released first.                         *)
SetDeviceKept(m) ==
  /\ Ready
  /\ acquired' = acquired \cup {m}
  /\ status' = 1 /\ moduleID' = m
  /\ UNCHANGED <<handle, buffer, queue, mem, call, dead>>

SetDevice(m) ==
  /\ Ready
  /\ \/ /\ status = 1 /\ m = moduleID
        /\ UNCHANGED vars
     \/ /\ status = 0
        /\ acquired' = acquired \cup {m}
        /\ status' = 1 /\ moduleID' = m
        /\ UNCHANGED <<handle, buffer, queue, mem, call, dead>>
     \/ /\ status = 1 /\ m # moduleID
        /\ IF acquired = {}
           THEN Fail
           ELSE /\ Invalidate
                /\ acquired' = {m} /\ moduleID' = m
                /\ UNCHANGED <<status, capacity, content, call, dead>>

(* DestroyDevice releases whatever device is acquired; Status stays.       *)
Release ==
  /\ Ready
  /\ status = 1
  /\ IF acquired = {}
     THEN Fail
     ELSE /\ Invalidate
          /\ acquired' = {}
          /\ UNCHANGED <<status, moduleID, capacity, content, call, dead>>

(* With an *stream that happens to be in streams the call does nothing.    *)
CreateStream(s) ==
  /\ Ready /\ handle[s] = "none"
  /\ IF acquired = {}
     THEN Fail
     ELSE /\ handle' = [handle EXCEPT ![s] = "live"]
          /\ UNCHANGED <<devices, buffer, queue, mem, call, dead>>

(* The client has synchronized the stream.                                 *)
DestroyStream(s) ==
  /\ Ready /\ handle[s] # "none" /\ queue[s] = <<>>
  /\ IF handle[s] = "stale"
     THEN Fail
     ELSE /\ handle' = [handle EXCEPT ![s] = "none"]
          /\ UNCHANGED <<devices, buffer, queue, mem, call, dead>>

(***************************************************************************)
(* Copies.                                                                 *)
(***************************************************************************)
(* The driver accepts the calls a copy makes: it finds the stream, or makes*)
(* the built-in one, and finds the buffer mapped, or makes a new one.      *)
StreamAccepted(q) == handle[q] = "live" \/ (q \in Kinds /\ handle[q] = "none" /\ acquired # {})
BufferAccepted(size) == IF capacity >= size THEN mapped ELSE acquired # {}

(* getCachedHostMem and, for an upload, the memcpy into the buffer.        *)
Stage(size, value) ==
  IF capacity >= size
  THEN /\ content' = IF value = None THEN content ELSE value
       /\ UNCHANGED <<capacity, mapped>>
  ELSE /\ capacity' = size /\ mapped' = TRUE /\ content' = value

(* The built-in streams a copy creates on its way.                         *)
Opened(qs) == handle' = [q \in Queues |-> IF q \in qs THEN "live" ELSE handle[q]]

Enqueue(q, task) == queue' = [queue EXCEPT ![q] = Append(@, task)]

(* The name of the buffer a copy of this size goes through.                *)
BufferFor(size) == IF capacity >= size THEN capacity ELSE size

StagedTasks(q) == {i \in 1..Len(queue[q]) : queue[q][i].op \in {"h2d", "d2h"}}

(* The client has synchronized the streams of its earlier asynchronous     *)
(* copies through the buffer; without this a copy may overwrite it, or free*)
(* it, under a pending one.                                                *)
Drained == Disciplined => \A s \in Streams : StagedTasks(s) = {}

HasRoom(s) == Len(queue[s]) < MaxQueue

(* Copy: on the built-in stream, which it then synchronizes.               *)
Copy(kind, size, value, task) ==
  /\ Ready /\ Drained
  /\ IF ~StreamAccepted(kind) \/ (kind # "d2d" /\ ~BufferAccepted(size))
     THEN Fail
     ELSE /\ Opened({kind})
          /\ IF kind = "d2d" THEN UNCHANGED buffer ELSE Stage(size, value)
          /\ Enqueue(kind, task)
          /\ call' = [sync |-> TRUE, on |-> kind, waits |-> kind, task |-> task]
          /\ UNCHANGED <<devices, mem, dead>>

MemCpyH2D(cell, value, size) == Copy("h2d", size, value, Upload(cell, value, BufferFor(size)))
MemCpyD2H(cell, size)        == Copy("d2h", size, None, Download(cell, BufferFor(size)))
MemCpyD2D(from, to)          == Copy("d2d", 0, None, Move(from, to))

AsyncMemCpyH2D(s, cell, value, size) ==
  /\ Ready /\ Drained /\ HasRoom(s) /\ handle[s] # "none"
  /\ IF ~StreamAccepted(s) \/ ~BufferAccepted(size)
     THEN Fail
     ELSE /\ Stage(size, value)
          /\ Enqueue(s, Upload(cell, value, BufferFor(size)))
          /\ UNCHANGED <<devices, handle, mem, call, dead>>

(* The copy is put in the caller's stream; the stream synchronized is      *)
(* stream_d2h.                                                             *)
AsyncMemCpyD2H(s, cell, size) ==
  /\ Ready /\ Drained /\ HasRoom(s) /\ handle[s] # "none"
  /\ IF ~StreamAccepted(s) \/ ~StreamAccepted("d2h") \/ ~BufferAccepted(size)
     THEN Fail
     ELSE LET task == Download(cell, BufferFor(size)) IN
          /\ Opened({"d2h"})
          /\ Stage(size, None)
          /\ Enqueue(s, task)
          /\ call' = [sync |-> FALSE, on |-> s, waits |-> "d2h", task |-> task]
          /\ UNCHANGED <<devices, mem, dead>>

AsyncMemCpyD2D(s, from, to) ==
  /\ Ready /\ HasRoom(s) /\ handle[s] # "none"
  /\ IF ~StreamAccepted(s)
     THEN Fail
     ELSE /\ Enqueue(s, Move(from, to))
          /\ UNCHANGED <<devices, handle, buffer, mem, call, dead>>

SyncStream(s) ==
  /\ Ready /\ handle[s] # "none"
  /\ IF ~StreamAccepted(s)
     THEN Fail
     ELSE /\ call' = [sync |-> TRUE, on |-> s, waits |-> s, task |-> None]
          /\ UNCHANGED <<devices, handle, buffer, queue, mem, dead>>

(* A bug: the copy is not waited for.                                      *)
ReturnEarly ==
  /\ call # None
  /\ call' = None
  /\ UNCHANGED <<devices, handle, buffer, queue, mem, dead>>

(* synStreamSynchronize is done, and the call returns; a download hands the*)
(* caller the content of the buffer.                                       *)
Return ==
  /\ call # None /\ queue[call.waits] = <<>>
  /\ call' = None
  /\ UNCHANGED <<devices, handle, buffer, queue, mem, dead>>

(* The device executes the oldest task of a queue.  One whose buffer is    *)
(* gone reads or writes freed memory.                                      *)
DeviceStep(q) ==
  /\ queue[q] # <<>>
  /\ LET task == Head(queue[q])
         live == task.size = capacity
     IN CASE task.op = "h2d" -> /\ mem' = [mem EXCEPT ![task.cell] = IF live THEN content ELSE None]
                                /\ UNCHANGED content
          [] task.op = "d2h" -> /\ content' = IF live THEN mem[task.cell] ELSE content
                                /\ UNCHANGED mem
          [] task.op = "d2d" -> /\ mem' = [mem EXCEPT ![task.to] = mem[task.from]]
                                /\ UNCHANGED content
  /\ queue' = [queue EXCEPT ![q] = Tail(@)]
  /\ UNCHANGED <<devices, handle, capacity, mapped, call, dead>>

Next ==
  \/ \E m \in Modules : SetDevice(m)
  \/ Release
  \/ \E s \in Streams : CreateStream(s) \/ DestroyStream(s) \/ SyncStream(s)
  \/ \E c \in Cells, v \in Values, n \in Sizes :
       MemCpyH2D(c, v, n) \/ \E s \in Streams : AsyncMemCpyH2D(s, c, v, n)
  \/ \E c \in Cells, n \in Sizes : MemCpyD2H(c, n) \/ \E s \in Streams : AsyncMemCpyD2H(s, c, n)
  \/ \E c, d \in Cells : MemCpyD2D(c, d) \/ \E s \in Streams : AsyncMemCpyD2D(s, c, d)
  \/ Return
  \/ \E q \in Queues : DeviceStep(q)

Spec == Init /\ [][Next]_vars

-----------------------------------------------------------------------------
(* The process never holds two devices: SetDevice gives the old one back   *)
(* before it takes the new one, whatever calls came before.                *)
OneDevice == Cardinality(acquired) <= 1

(* While a host-to-device copy is pending, the buffer it reads is the      *)
(* current one and still holds its caller's data: the buffer is shared by  *)
(* all copies and freed when a larger one is needed.                       *)
StagedIntact ==
  \A q \in Queues : \A i \in 1..Len(queue[q]) :
    LET task == queue[q][i] IN
    task.op = "h2d" => task.size = capacity /\ content = task.value

(* MemCpyH2D, MemCpyD2H, MemCpyD2D and SyncStream return only when nothing *)
(* they were to wait for is pending.                                       *)
SyncDone == [][call # None /\ call' = None /\ call.sync => queue[call.on] = <<>>]_vars

(* "TO BE NOTICED, still sync mode copy": AsyncMemCpyD2H, too, returns only*)
(* when its copy has been made.                                            *)
AsyncD2HDone ==
  [][call # None /\ call' = None /\ ~call.sync => ~In(call.task, queue[call.on])]_vars

(* "1 acquire, 0 not acquire": Status says whether a device is acquired.   *)
StatusFaithful == status = 1 <=> acquired # {}
=============================================================================
