----------------------------- MODULE NpuStaging ------------------------------
(***************************************************************************)
(* AsyncMemCpyH2D of the NPU plugin (runtime.cc, AlignnedAllocator): the   *)
(* source is copied into a host buffer, the device copies from it later,   *)
(* and an event recorded behind that copy tells when the buffer may be     *)
(* freed, which a later call finds out.                                    *)
(*                                                                         *)
(* The events are those of EventService, which EventResourcePool           *)
(* implements (NpuEventRefinement).  The copies stand in the same streams. *)
(***************************************************************************)
EXTENDS Naturals, Sequences, FiniteSets

CONSTANTS
  Threads, Streams,
  Buffers,        \* host memory: what malloc can return
  Events,         \* handles of events
  Records,        \* names of records
  MaxQueue,       \* bound on the length of a stream
  Nil             \* no event, no thread, no buffer

NoRecord == Nil

VARIABLES
  latest, stream, \* the events and the streams
  taken,          \* events created and not destroyed
  recorded,       \* recorded_events_: buffer -> its event, Nil until Record
  live,           \* buffers not freed
  mtx,            \* AlignnedAllocator::mtx_
  blockingRun,    \* FLAGS_npu_blocking_run
  pc, buf, ev, st,   \* of each thread: where it is, tmp, event, stream
  todo            \* of each thread: what its iterator has yet to reach

vars == <<latest, stream, taken, recorded, live, mtx, blockingRun, pc, buf, ev, st, todo>>
local == <<buf, ev, st>>

Service == INSTANCE EventService WITH completed <- {}

CopyTask(b) == [op |-> "copy", record |-> NoRecord, buffer |-> b]
Copying(b) == \E s \in Streams : CopyTask(b) \in Service!Tasks(s)
Entries == DOMAIN recorded
Goto(t, label) == pc' = [pc EXCEPT ![t] = label]

(* QueryEvent answers C_SUCCESS.                                           *)
Completed(e) == e \in Service!Answerable

Init ==
  /\ latest = [e \in Events |-> NoRecord]
  /\ stream = [s \in Streams |-> <<>>]
  /\ taken = {} /\ recorded = <<>> /\ live = {} /\ mtx = Nil
  /\ blockingRun \in BOOLEAN
  /\ pc = [t \in Threads |-> "out"]
  /\ buf = [t \in Threads |-> Nil] /\ ev = [t \in Threads |-> Nil] /\ st = [t \in Threads |-> Nil]
  /\ todo = [t \in Threads |-> {}]

Room(s) == Len(stream[s]) + 2 <= MaxQueue     \* a bound

Call(t, s) ==
  /\ pc[t] = "out" /\ Room(s)
  /\ st' = [st EXCEPT ![t] = s]
  /\ Goto(t, "alloc")
  /\ UNCHANGED <<latest, stream, taken, recorded, live, mtx, blockingRun, buf, ev, todo>>

-----------------------------------------------------------------------------
(***************************************************************************)
(* Alloc, with mtx_ held throughout.                                       *)
(***************************************************************************)
Lock(t) ==
  /\ pc[t] = "alloc" /\ mtx = Nil
  /\ mtx' = t
  /\ todo' = [todo EXCEPT ![t] = Entries]
  /\ Goto(t, "process")
  /\ UNCHANGED <<latest, stream, taken, recorded, live, blockingRun, local>>

Free(b) ==
  /\ live' = live \ {b}
  /\ recorded' = [x \in Entries \ {b} |-> recorded[x]]
  /\ taken' = taken \ {recorded[b]}

(* A bug: the buffer is freed whatever QueryEvent answers.                 *)
ProcessUnqueried(t, b) ==
  /\ pc[t] = "process" /\ b \in todo[t] /\ recorded[b] # Nil
  /\ todo' = [todo EXCEPT ![t] = @ \ {b}]
  /\ Free(b)
  /\ UNCHANGED <<latest, stream, mtx, blockingRun, pc, local>>

(* ProcessEvents at an entry that has its event.                           *)
Process(t, b) ==
  /\ pc[t] = "process" /\ b \in todo[t] /\ recorded[b] # Nil
  /\ todo' = [todo EXCEPT ![t] = @ \ {b}]
  /\ IF Completed(recorded[b]) THEN Free(b) ELSE UNCHANGED <<taken, recorded, live>>
  /\ UNCHANGED <<latest, stream, mtx, blockingRun, pc, local>>

(* ProcessEvents at an entry that has none: `continue` keeps the iterator. *)
Spin(t, b) ==
  /\ pc[t] = "process" /\ b \in todo[t] /\ recorded[b] = Nil
  /\ Goto(t, "spin")
  /\ UNCHANGED <<latest, stream, taken, recorded, live, mtx, blockingRun, local, todo>>

(* malloc, and an entry without an event.                                  *)
Malloc(t) ==
  /\ pc[t] = "process" /\ todo[t] = {}
  /\ Buffers # live                               \* a bound
  /\ LET b == CHOOSE x \in Buffers : x \notin live
     IN  /\ live' = live \cup {b}
         /\ recorded' = [x \in Entries \cup {b} |-> IF x = b THEN Nil ELSE recorded[x]]
         /\ buf' = [buf EXCEPT ![t] = b]
  /\ Goto(t, "create")
  /\ UNCHANGED <<latest, stream, taken, blockingRun, ev, st, todo>>

(* A bug: mtx_ is kept until Record.                                       *)
AllocLocked(t) == Malloc(t) /\ UNCHANGED mtx

Alloc(t) == Malloc(t) /\ mtx' = Nil

-----------------------------------------------------------------------------
(***************************************************************************)
(* The rest of AsyncMemCpyH2D.                                             *)
(***************************************************************************)
Create(t) ==
  /\ pc[t] = "create"
  /\ Events # taken                               \* a bound
  /\ LET e == CHOOSE x \in Events : x \notin taken
     IN  /\ Service!Create(e)
         /\ ev' = [ev EXCEPT ![t] = e]
  /\ Goto(t, "copy")
  /\ UNCHANGED <<recorded, live, mtx, blockingRun, buf, st, todo>>

(* memcpy, aclrtMemcpyAsync.                                               *)
Copy(t) ==
  /\ pc[t] = "copy"
  /\ stream' = [stream EXCEPT ![st[t]] = Append(@, CopyTask(buf[t]))]
  /\ Goto(t, "record")
  /\ UNCHANGED <<latest, taken, recorded, live, mtx, blockingRun, local, todo>>

RecordEvent(t) ==
  /\ pc[t] = "record"
  /\ Service!RecordAs(Service!NewRecord, ev[t], st[t])
  /\ Goto(t, "enter")
  /\ UNCHANGED <<recorded, live, mtx, blockingRun, local, todo>>

Return(t) ==
  /\ Goto(t, "out")
  /\ buf' = [buf EXCEPT ![t] = Nil] /\ ev' = [ev EXCEPT ![t] = Nil] /\ st' = [st EXCEPT ![t] = Nil]

(* A bug: the event is not entered after a copy that was waited for.       *)
EnterUnlessBlocking(t) ==
  /\ pc[t] = "enter" /\ mtx = Nil
  /\ IF blockingRun THEN Goto(t, "sync") /\ UNCHANGED <<recorded, local>>
                    ELSE recorded' = [recorded EXCEPT ![buf[t]] = ev[t]] /\ Return(t)
  /\ UNCHANGED <<latest, stream, taken, live, mtx, blockingRun, todo>>

(* AlignnedAllocator::Record.                                              *)
Enter(t) ==
  /\ pc[t] = "enter" /\ mtx = Nil
  /\ recorded' = [recorded EXCEPT ![buf[t]] = ev[t]]
  /\ IF blockingRun THEN Goto(t, "sync") /\ UNCHANGED local ELSE Return(t)
  /\ UNCHANGED <<latest, stream, taken, live, mtx, blockingRun, todo>>

Sync(t) ==
  /\ pc[t] = "sync" /\ stream[st[t]] = <<>>
  /\ Return(t)
  /\ UNCHANGED <<latest, stream, taken, recorded, live, mtx, blockingRun, todo>>

(* ReleaseDevice and InitDevice: the events of the pool and the tasks of   *)
(* the device are gone, the buffers stay and nobody knows them any longer. *)
Reset ==
  /\ \A t \in Threads : pc[t] = "out"
  /\ Entries # {}
  /\ recorded' = <<>> /\ taken' = {}
  /\ latest' = [e \in Events |-> NoRecord]
  /\ stream' = [s \in Streams |-> <<>>]
  /\ UNCHANGED <<live, mtx, blockingRun, pc, local, todo>>

Run(s) == Service!Run(s) /\ UNCHANGED <<recorded, live, mtx, blockingRun, pc, local, todo>>

Step(t) ==
  \/ Lock(t) \/ Alloc(t) \/ Create(t) \/ Copy(t) \/ RecordEvent(t) \/ Enter(t) \/ Sync(t)
  \/ \E b \in Buffers : Process(t, b) \/ Spin(t, b)

Next ==
  \/ \E t \in Threads : Step(t) \/ \E s \in Streams : Call(t, s)
  \/ \E s \in Streams : Run(s)
  \/ Reset

Spec == Init /\ [][Next]_vars

-----------------------------------------------------------------------------
(* The device never copies from a buffer that was freed, and no buffer is  *)
(* given to two calls.                                                     *)
StagingLive ==
  /\ \A b \in Buffers : Copying(b) => b \in live
  /\ \A t, u \in Threads : pc[t] \in {"create", "copy"} => ~Copying(buf[t])

(* The iterator is caught only at the buffer of a copy another thread has  *)
(* begun and not recorded: calls that do not overlap never spin.           *)
SpinsOnOverlap ==
  \A t \in Threads : pc[t] = "spin" =>
    \E u \in Threads \ {t} : pc[u] \in {"create", "copy", "record", "enter"}

(* A call returns, unless one of the threads spins or the host memory      *)
(* (a bound of the model, not of the program) has run out.  The threads    *)
(* and streams go on; mtx_ is not kept from a thread for ever, and         *)
(* aclrtSynchronizeStream does not wait for tasks put after it began.      *)
CopyReturns ==
  \A t \in Threads : pc[t] = "alloc" ~>
    (pc[t] = "out" \/ live = Buffers \/ \E u \in Threads : pc[u] = "spin")
=============================================================================
