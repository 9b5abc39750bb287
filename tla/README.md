# PaddleCustomDevice in TLA+

PaddleCustomDevice is a set of plugins. Each one lets PaddlePaddle drive one
kind of accelerator through a table of C functions, the `C_DeviceInterface`:
devices, streams, events, copies, memory, collectives. A plugin adds its own
state between Paddle's host threads and the vendor's driver: pools of events,
host buffers that asynchronous copies read from, worker threads, and accounts
of what the driver holds. The NPU plugin also runs whole decoder layers of a
LLaMA model, with a task queue, a paged cache and an output queue of its own.
That state, where host threads and device queues meet, is what is specified
here. The kernels (most of the repository) compute tensors and are not.

## 1. Inventory

`PROJECT.json` lists every component with its sources and status; paths below
are relative to `src/backends/`.

| component | module | state | operations | what makes it hard |
|---|---|---|---|---|
| NPU `EventResourcePool` (`npu/runtime/runtime.cc` 41-226) | `NpuEventPool`, `NpuEventRefinement` | idle, busy and wait lists, has-been-recorded flag, recorded stream and wait streams of each handle, a mutex | Create, Destroy, Record, Query, Wait, PostDestroyStream, Release | a handle may be reused only when no stream has anything to do with it any more; `reset_event` blocks on streams under the mutex; `WaitEvent` takes no lock |
| NPU staging (`npu/runtime/runtime.cc`, `AlignnedAllocator`) | `NpuStaging` | buffers with an event each, `mtx_` | AsyncMemCpyH2D, ReleaseDevice | a buffer is freed on the word of a recycled event; the loop over the buffers does not advance at one without an event |
| SDAA pinned ring (`sdaa/runtime/runtime.cc` 118-215, 380-415) | `SdaaPinnedRing` | blocks, their events, a counter, the map of recorded events | SetDevice, AsyncMemCpyH2D, DestroyDevice | a block is taken again while the device reads it; the counter is read three times without a lock |
| SDAA event pool (`sdaa/runtime/runtime.cc`, `sdaaEvent.h`) | `SdaaEvents` | held wrappers, pooled wrappers with `was_recorded_` | the event calls, DestroyDevice | what a pooled wrapper remembers of its last owner |
| MLU events and staging (`mlu/runtime/runtime.cc`, `CNRTEvent.h`) | `MluStaging` | held and pooled wrappers with `was_recorded_` and `is_completed_`, staged buffers, two mutexes | Create, Destroy, Record, Query, Sync, StreamWait, AsyncMemCpyH2D | the same handle must not have two owners; a buffer is freed on the word of a cached query; one call blocks on the device with the mutex the others need |
| Communication stream guard (`mlu/`, `sdaa/runtime/runtime.h`) | `CommStream` | the stream of the last collective | the collectives | ranks that run collectives in different orders wait for each other for ever |
| HPU `RuntimeManager` (`intel_hpu/runtime/runtime.cc`) | `HpuRuntime` | Status, moduleID, streams, one host buffer for all copies | SetDevice, Release, streams, six copies, SyncStream | one buffer is shared, grown and freed; waiting for the right stream; what outlives a change of device |
| HPU recipe workspace (`intel_hpu/kernels/hpu_operator.cc`) | `HpuWorkspace` | one workspace and its size | RecipeRunner::Run | the workspace grows while recipes run in it |
| GCU all-reduce buffers (`gcu/runtime/runtime.cc` 520-600) | `GcuAllReduce` | cast buffers by type and size | XcclAllReduce | 64-bit data reduced in 32 bits, buffers shared by streams |
| custom_cpu collectives (`custom_cpu/runtime/runtime.cc` 191-285) | `CpuXccl` | two named semaphores per communicator | CommInitRank, AllReduce, Broadcast, DestroyComm | several processes meet; a fast one may overtake |
| NPU ATB `TaskQueue` (`npu/custom_op/llama_infer/atb_ops/atb_layers/runner.cc` 23-86) | `AtbTaskQueue` | task list, mutex, condition variable, running flag, worker thread | Commit, Wait, Stop | lost notifications, order of tasks, waiting for the worker |
| NPU fused layers and `OperationRunner` (`fused_blha_layer_op.cc`, `runner.cc`) | `AtbLayers` | a runner for each layer and stage, one workspace, two buffers used in turns, a flag | the op of a layer for prefill and decode, lm_head | binding runs ahead of execution by a queue and a stream |
| NPU layer graph (`atb_layers/*.cc`) | `AtbGraph` | tensors by number | binding, the nodes of the graph | optional tensors shift the numbers of all that follow |
| NPU batch of the fused layers (`fused_blha_layer_op_utils.cc`) | `PagedCache` | lengths, block tables, the paged cache | a pass, sequences that come and go | slots and positions at block boundaries; blocks that change owner |
| NPU output queue (`save_with_output_msg.cc`, `get_output.cc`) | `OutputQueue` | a System V message queue | save_output, get_output | interrupted calls, a job that is killed and restarted |

Not modelled, and why:

| part | reason |
|---|---|
| NPU `HostCallbackManager` | no caller: `Launch`, which alone creates a worker, is never called |
| NPU `SecondaryStream` | `RecordBefore` and `RecordAfter` have no caller; the rest passes to the driver |
| NPU and MLU profilers | vendor I/O; the MLU activity buffers are the driver's and the collector's |
| GCU (but for `XcclAllReduce`), Intel GPU, Biren and MPS runtimes | every call is one call of a driver that is not in the repository, with at most a counter beside it |
| GCU executors and custom engine | caches of compiled programs filled by one thread |
| custom_cpu memory, streams and events | malloc, memcpy and empty functions |
| vendor collectives | pass to HCCL, CNCL, TCCL, HCL, ECCL |
| kernels, custom operators and passes | some 1500 of the repository's files and most of its lines: they choose and call vendor kernels on tensors, or rewrite graphs. Their correctness is numerical, and without the vendor libraries there is nothing to state |
| tests, build files, tools | not part of the running system |

How they interact: Paddle's threads call the interface; the plugins put tasks
into the device's in-order streams; events connect streams with each other and
with the host. The staging allocators (NPU, MLU) are clients of the event
functions of their own plugin, and so depend on a query's answer: `NpuStaging`
is built on `EventService`, which `NpuEventPool` implements. The fused layers
are clients of the task queue: `AtbLayers` is built on `TaskExecutor`, which
`AtbTaskQueue` implements. The collectives connect processes. Nothing is
persisted, except the names of the custom_cpu semaphores and the message queue,
which outlive a process.

The behaviours that are hard to test, each at its line, are the `hazards` of
`PROJECT.json`, with the property that covers each or the reason why none does.
Lesser ones that no property covers:

- `sdaa/runtime/runtime.cc` 145: `counter` is an `int` that only grows; it
  overflows after 2^31 small copies. 333: DestroyDevice clears the vector of held
  events without `g_mutex`, while another call may walk it; the model has it in
  one step.
- `mlu/runtime/runtime.cc` 440: ReleaseDevice deletes the allocator with the
  buffers still entered in it. NPU's (`npu/runtime/runtime.cc` 448) does the
  same; `NpuStaging` has that step, `Reset`.
- `mlu/runtime/runtime.cc` 782: `GroupStart` and `GroupEnd` do nothing.
- `intel_hpu/runtime/runtime.cc` 224: the copy streams outlive a change of
  device; 456: `getCachedHostMem` and the stream sets have no lock.
- `gcu/runtime/runtime.cc` 571: the key of the cast buffers has no device; 578:
  the buffers are never freed.
- `npu/custom_op/llama_infer/atb_ops/atb_layers/runner.cc` 26 and 225: maps
  filled without a lock (`TaskQueue::Instance`, `get_context`).
- `fused_blha_layer_op.cc` 577: in a model of one layer the only op has flag
  Begin, and none has flag End. `fused_blha_layer_op_utils.cc` 61: the sizes of the batch
  are those of the first pass. `atb_layers/fused_blha_layer.cc` 315: smoothing
  without int8 takes scales nobody binds (refused when the runner is set up);
  280: `q` is shaped with the number of key-value heads.
- `intel_gpu/runtime/runtime.cc` 110-112: an account of memory without a lock;
  322: StreamWaitEvent does nothing.

## 2. Plan

Done, in this order: the event pools and staging buffers of the four device
runtimes, the collectives of custom_cpu and the task queue; then what they
promise (`EventService`, `CollectiveBarrier`, `TaskExecutor`) with the
refinements; then the clients that rest on the promises (`NpuStaging`,
`AtbLayers`), the data of the fused layers (`AtbGraph`, `PagedCache`,
`OutputQueue`), and the small parts that several streams share (`CommStream`,
`HpuWorkspace`, `GcuAllReduce`, `SdaaEvents`).

Left, by what it would add:

1. InitDevice, ReleaseDevice and Finalize of MLU, which drop the allocator and
   empty the pools at the end of the process; events and memory of HPU.
2. The parallel variants (rank > 1) of the layer graph and `cache_kv_int8`,
   which the op never asks for today.

## 3. The modules

`TaskQueue` is the device stream most runtime modules use: a sequence of tasks,
executed from the head. It is external to the plugins, as is every task, flag
and notifier a module says is the driver's. `TaskQueueLemmas` has the facts
about sequences of tasks that the proofs use: membership, "at most once" and
"before" under Append and Tail.

Three modules say what a component promises, without saying how:

- `EventService`: every RecordEvent is a record of its own; a wait holds its
  stream until the record that was the event's latest when the wait was issued
  has run; a query never answers "completed" too early; no event is given to
  two clients.
- `CollectiveBarrier`: a rank leaves its k-th call only after every rank has
  entered its k-th.
- `TaskExecutor`: tasks run once, in the order in which they were accepted, and
  are lost only with the executor.

### NpuEventPool

Variables carry the names of the C++ members (`idle`, `busy`, `wait` for the
three lists, `recStream` and `waitStreams` for the two maps). A public method
under `mutex_` is one action, split where it can block or reads what the device
changes: `CreateEvent`'s loop over the wait list is `CreateEnter`, one of
`ScanUnrecorded`, `ScanPending`, `ScanComplete` for each handle, and
`CreateTake`; `reset_event` is `ResetCall`, `DrainStream` and `DrainDone` for
each `aclrtSynchronizeStream`, `LowerFlag` and `ResetFinish`. `WaitEvent`, which
takes no lock, is `WaitCheck`, `WaitEnqueue` and `WaitPush`. `DestroyStream`
and `PostDestroyStream` are separate because the pool hears of it afterwards.
The lists are sets: the code's scan order is over-approximated.

An event is a flag. A record task raises it, a wait task needs it raised, and
`aclrtResetEvent` lowers it at the call.

Parameters that say what the client does: `SharedCalls` (two calls on one event
at a time), `RerecordPending` (recording an event whose record is pending),
`Destroyable` (streams that are destroyed). The conjunction of the quiet values,
`Discipline`, is the assumption of the proof of `RecycleSafe`.

`NpuEventRefinement` adds two history variables, the latest record of each event
and the queues with each record and wait under the name it was issued for, and
maps the pool to `EventService`. They are written and never read by the pool.

- *NpuEventPool_service*: two threads, two handles, two streams, one pending
  task that a client leaves in each (the pool's own marks come on top):
  `TypeOK`, `RecycleSafe`, `QuerySound`, `NoStrandedWait`, the refinement
  `ImplementsService`, and `ImplementsProgress`: under the fairness below a
  stream whose next task could run, to the client, does not stand still. 557,912
  states. Two handles are enough to have one recycled while another is scanned,
  two streams for a record and a wait on different ones, five names for what two
  streams and two handles can refer to at a time.
- *NpuEventPool_destroy*: one thread that also destroys streams: `NoDeadStream`,
  and `MutexReleased`: `reset_event` ends although it blocks with the mutex.

What TLC refutes when a parameter is changed: with `SharedCalls = TRUE`, where
the unlocked `WaitEvent` races the other calls on its event, `RecycleSafe` and
`NoStrandedWait` fail (`QuerySound` still holds on this instance). With
`RerecordPending = TRUE` `QuerySound` fails: the flag of the first record answers
for the second. With two threads and `Destroyable # {}` `NoDeadStream` fails
between `aclrtDestroyStream` and `PostDestroyStream`. And after the stream an
event was recorded on is destroyed, `QuerySound` and `ImplementsService` fail:
`PostDestroyStream` erases the recorded stream, so `reset_event` skips
`aclrtResetEvent` (line 207) and the flag of the old record stays raised, if
`aclrtRecordEvent` leaves the flag alone as the model assumes. Nothing in the
code promises that these cases work; they are hazards, not findings.

### NpuStaging

AsyncMemCpyH2D in the steps between its locks: `Lock`, `Process` for each entry
of `recorded_events_`, `Alloc`; then `Create`, `Copy`, `RecordEvent`, `Enter`
and, with `FLAGS_npu_blocking_run`, `Sync`. The events are the actions of
`EventService` on the same streams in which the copies stand, so what
`ProcessEvents` hears is what the service promises of a query. `Reset` is
`Deinit` and `Init` of the allocator between uses of the device.

`if (!event) continue;` keeps the iterator (line 338): a call that meets the
buffer of another call that has not yet entered its event never leaves the loop,
and holds `mtx_`, which the other needs. `Spin` says so. `SpinsOnOverlap` and
`CopyReturns` confine it: calls that do not overlap never spin, and then every
call returns. Checked in *RuntimeParts* with two threads, three buffers, two
events, two streams of two tasks.

### SdaaPinnedRing

`CopyEnter`, `TakeBlock`, `StartCopy`, `RecordEvent`, `Record` are the five parts
of a small AsyncMemCpyH2D between its readings of `counter`; `CopyLarge` is
the direct copy; `SetDevice`, `Alloc`, `CreateEvents` build the ring and
`DestroyEnter`, `ClearBlock`, `DestroyFinish` take it apart. The counter is kept
modulo the number of blocks; the overflow of the code's `int` is not modelled.

The run has three blocks and at most three pending tasks in each of two streams,
so that the ring comes round while its first copy waits: `StagedIntact`, and
`CallReturns` for a device that keeps executing.

Calls do not overlap here (`Concurrent = FALSE`), and one thread then stands
for all. With two threads and `Concurrent = TRUE` TLC refutes `StagedIntact`:
one is still in `SetDevice`, which has published the allocator, when another
copies through a block that `Alloc` then replaces; and two copies may take one
block.

### SdaaEvents

The calls under `g_mutex`, one action each, except SyncEvent, which blocks with
it. DestroyDevice takes no lock: it may come at any time, and is one action at
the moment when the last record of every wrapper, held or pooled, has run, which
the wrappers' destructors wait for. `last` is what the driver knows of a handle and survives in the pool;
`latest` is what the owner of the event has recorded. The refinement
`ImplementsService` says that the two agree where a client can tell. It holds
for clients that record before they wait, query or synchronize; with
`Early = TRUE` TLC refutes it, for StreamWaitEvent then waits for the record of
the last owner. Two handles, two streams of two tasks, three names of records.

### MluStaging

With `reuse` (FLAGS_mlu_reuse_event) the handles are `CNRTEvent` wrappers (held by a client or
cached in `EventPool`); without it, notifiers of the driver. Calls are one action
under `g_mutex`, except `SyncEvent`, which blocks with it and returns in
`SyncReturn`. AsyncMemCpyH2D is split at each call it makes: `ProcessEvents` asks
for an entry's event (QueryEvent) in one step and gives it back (DestroyEvent) in
another, and a call of another thread may come between. A record carries a
tag, so that a query or a wait refers to the last record when it was made.

- *MluStaging_calls*: two threads that both copy and use events, either value of
  the flag, three events, two buffers, one stream: `OneOwner`, `StagingSafe`
  without reuse, and `CallReturns`. Three events are one for each copy and one
  for a client; a second stream would not add to who owns what. `CallReturns`
  has one exception, `Spins`: `ProcessEvents` does `continue` without advancing
  at the entry of a copy that has not called `Record` yet, and holds the mutex
  that `Record` needs.
- *MluStaging_query* (violation): section 5.

With reuse what `StagingSafe` says is false, as a consequence of what
*MluStaging_query* shows. `InitDevice`, `ReleaseDevice` and `Finalize` are not
modelled.

### HpuRuntime

One thread, as `RuntimeManager` has no lock. A call that blocks in
`synStreamSynchronize` is two actions: the call, and `Return` when the stream it
waits for is empty. `Stage` is `getCachedHostMem`, with the freeing and mapping
of a larger buffer. PD_CHECK ends the model (`dead`). Releasing a device
invalidates streams, mappings and memory: an assumption about the driver, under
which calls with a stale stream fail.

- *HpuRuntime_sync*: two devices, two sizes (so the buffer grows), two cells and
  two values: `OneDevice`, `StagedIntact`, and `SyncDone` as an action property.
  `Disciplined` says that the client synchronizes a stream to which it has given
  an asynchronous staged copy before it makes another copy through the buffer;
  `StagedIntact` is false without.
- *HpuRuntime_d2h* and *HpuRuntime_status* (violations): section 5.

`MCHpuRuntime` gives constants and variables names of their own (`UserStreams`,
`Contents`, `MaxCopies`, `Nothing`), so that `RuntimePartsProofs` can extend it
beside `MCRuntimeParts`.

### HpuWorkspace

`Run` with the growth of the workspace, and the streams that execute. A launched
recipe remembers what it asked for and what it was given, so `WorkspaceLive`
relates every pending recipe to the workspace there is. It holds when all
recipes go to one stream or each is waited for
(`FLAGS_intel_hpu_sync_execute`), and is checked for both in *RuntimeParts*
with two streams and three sizes; with two streams and no waiting TLC refutes
it, for `Run` synchronizes only its own stream before it frees.

### GcuAllReduce

The three tasks a 64-bit `XcclAllReduce` puts on a stream, narrow, reduce and
widen, or the one of any other type. `Narrow` wraps as the cast of an integer
does, signed or unsigned, and rounds a float. `ReductionRight`: a sum or product
of integers is right when it fits, even if its terms do not; a maximum, a
minimum or a float, when its terms do too. Terms are -1, 0, 1 and 3 for narrow
types of -1..0, 0..1 and a float exact in -1..1, so every case of fitting,
wrapping and rounding occurs. Two calls are in flight in the stream, one behind
the other in the same buffer; types share none, and a behaviour has calls of
one. With two streams TLC refutes it: calls of one size share a buffer.

### CommStream

`Collective` chooses a stream, `Issue` is `Update` and the launch, `LaunchKernel`
the rank's other work. A device runs one collective at a time, `Start`, and
`Complete` needs all ranks. `ProgramOrder` and `AllComplete` in *RuntimeParts*:
two ranks, two streams, three collectives (so that a stream is left and
returned to) and one kernel.

### CpuXccl

One action per semaphore call of a rank. AllReduce and Broadcast are the same
code and the same actions. Names and semaphores are separate, since
`sem_unlink` frees a name that others still have open.

The run *CpuXccl* has three ranks, two collectives each, then destruction: `TypeOK`,
`Rendezvous`, `OneCommunicator`, the refinement `ImplementsBarrier`, and
`CallsReturn` under weak fairness of each rank. Three ranks, because with two
the root has only one other to wait for.

`Lockstep` makes a rank wait with its next collective until all have returned
from the last. The code does not enforce it; without it `Rendezvous` is false
and ranks deadlock: a fast rank takes the `sig_2` token meant for a slow one.
The functions are marked `// for unittest`, and the repository states no promise
on consecutive calls. What remains without `Lockstep` is proved and not run:
`OneCommunicator`, and `FirstRendezvous`, no rank returns from anything before all
have entered their first collective.

### AtbTaskQueue

Worker and callers, one action for each access to `mutex_`, `task_list_`,
`is_running_` and the condition variable. `is_running_` is a plain `bool` read by
several threads; it is modelled as atomic. Spurious wake-ups are allowed and not
relied on. With `FLAGS_npu_blocking_run` a task runs in `Commit`.

The run has two threads, two tasks each, one of which may destroy the queue at
any moment: `ProgramOrder`, `WaitSound`, the refinement `ImplementsExecutor`, and
`WaitReturns` unless the queue is stopped.

That `Stop` returns is false: `is_running_ = false; notify_all()` may fall
between the worker's test of the predicate and its sleep, because `Stop` does
not take `mutex_`. And a `Wait` that meets a stopped queue blocks for ever:
`Commit` does not consume the task, so its promise is never broken. Both are
listed as hazards; no text in the repository says otherwise, so they are not
findings.

### AtbLayers

One thread runs the ops of a model. For every layer and each stage with tokens it
binds a runner (`Bind`), sets it up with a workspace (`Setup`) and commits its
execution (`Commit`); `NextLayer` exchanges the two buffers, `End` waits for the
task queue and copies the results out, `LmHead` runs a runner of its own. The
queue is `TaskExecutor`; its worker launches what the runner is bound to when
the task runs (`WorkerExecute`), and the device executes it later still
(`Device`). A buffer holds the pass and layer it was computed for, so
`OutputRight` follows the data through buffers, flag, queue and stream.

`WorkspaceLive` holds as long as no op asks for more than the ops before it while
tasks are queued; `MidGrowth = TRUE` lets the decoder ask for more than the
encoder of its pass, and TLC refutes it: `get_workspace` waits for the stream,
which may be idle while the queue is not.

### AtbGraph

The ops bind tensors one after another (`BindLayer`, `BindPrefill`,
`BindDecode`), the graph numbers them (`Numbers`) and its nodes and nested graphs
take them by number. A tensor is the term that was computed into it, and
`LayerRight` compares the output with the decoder layer written as a formula
(`Layer`). Each optional tensor is given or not on its own, as the op asks each
whether it is initialized; only with int8 is every scale given, since `Begin` takes
the size of each. The graph knows int8 and smoothing alone, so a set that does not
belong together binds one tensor too few or too many: `LayerRight` says that
exactly those are refused by ATB's count of the inputs (the process exits), and
that every other set computes the layer, with and without bias, int8, smoothing and
alibi, in both stages.

### PagedCache

A pass cuts the packed rows into those of prefill and decode, gives each its slot
and rotary position and puts the last row of each sequence into its place. Where
the C++ adds to an offset in a loop over the rows, the model has `Offset`, what
the offset is after each row; what a loop copies row by row is a concatenation
of what each row gives. For a sequence that ends with its block,
`fused_blha_layer_op_utils.cc` 379 also reads the entry after the last, which for a
full row is the next row's, or past the table; the value is not used, and the model
has no such read. The client inserts and finishes sequences and gives a new
one any blocks no live sequence has. `BatchRight` is the conjunction of three
facts: every token of a live sequence that was prefilled or decoded is in its
place of the cache, every row of the last pass was rotated by its own position,
and the last token of a sequence is returned in the sequence's row.

The run has three rows, blocks of two tokens, lengths up to four and four blocks:
sequences end within a block, at its end, and in a second block; two are live at a
time, in any two of the three rows, prefilled and decoded together in either order,
and the third takes the blocks of a finished one in any order. The proof is for
any number of rows, blocks, tokens to a block and lengths, as long as a sequence
fits into the blocks of its row (`BatchAssumption`).

### OutputQueue

`Save`/`Send`, `Get`/`Receive`, with calls that a signal interrupts and a job that
is killed and started again. `NoneVanished`: the tokens of a step of the job
that runs are received or still queued, unless an interrupted call or a kill
dropped them. A
capacity of two with three steps makes the sender wait.

### The composed runs

`MCLlamaInfer` holds `AtbLayers`, `AtbGraph`, `PagedCache` and `OutputQueue`;
`MCRuntimeParts` holds `CommStream`, `NpuStaging`, `SdaaEvents`, `HpuWorkspace`
and `GcuAllReduce`. The parts share no variable, so their product would say no
more than each part does: the initial state chooses one part (`part`), the
others rest, and the number of states is the sum and not the product (748,892
and 356,905).

Where parts do interact, one is given as what it promises: `AtbLayers` on
`TaskExecutor`, `NpuStaging` on `EventService`.

### Fairness

- Device streams: weak fairness of each. A driver that stops executing is a
  failure the plugins do not handle.
- Threads: weak fairness of a thread inside a call; a client need not call
  anything. Strong fairness where a thread waits for a mutex that others take
  again and again (`MluStaging`, `AtbTaskQueue`, `NpuStaging`): the mutex does
  not starve it. In `NpuStaging` it also covers `aclrtSynchronizeStream`, which
  waits for the tasks put before it and not for those put later.
- `CommStream`: ranks make all their collectives, and devices go on. `CpuXccl`:
  processes keep running.
- `AtbTaskQueue`: none for spurious wake-ups; nothing but a notification wakes
  the worker. The thread that destroys the queue carries its Stop on once begun.

Deadlock is checked only in the *SdaaPinnedRing* run. In the others the cfg says
`CHECK_DEADLOCK FALSE`: bounded clients come to an end, a PD_CHECK or an error
return stops the model, or a queue has been destroyed.

Every property has a mutant: the definition the map names, changed the way a
plausible bug would change it, under which TLC finds the property violated.
They stand before the definition they change, marked "A bug:".

## 4. Proofs

All proofs are for every value of the constants, under the named assumptions of
the modules and what the statement says.

| theorem | assumes | says |
|---|---|---|
| `NpuEventPoolProofs!TypeCorrect` | | `TypeOK`: a handle is on at most one list, exactly the holder of the mutex is in the code under it |
| `NpuEventPoolProofs!NoDeadStreamCorrect` | one thread | `NoDeadStream`, with streams destroyed at will |
| `NpuEventPoolProofs!RecycleCorrect` | `Discipline` | `RecycleSafe`: no handle is handed out that some stream still uses |
| `NpuEventPoolProofs!QuerySoundCorrect` | `Discipline` | `QuerySound` |
| `NpuEventPoolProofs!NoStrandedWaitCorrect` | `Discipline` | `NoStrandedWait` |
| `SdaaPinnedRingProofs!StagingCorrect` | `~Concurrent` | `StagedIntact`: a pending copy finds its caller's bytes |
| `SdaaPinnedRingProofs!RingTypesCorrect` | `~Concurrent` | `TypeOK`: slots and counter stay in the ring |
| `CpuXcclProofs!FirstRendezvousCorrect` | | `FirstRendezvous` for any number of ranks |
| `CpuXcclProofs!OneCommunicatorCorrect` | | `OneCommunicator` |
| `CpuXcclProofs!BarrierCorrect` | `InTurn`: `Lockstep`, or one collective | `Rendezvous` for any number of ranks |
| `CpuXcclProofs!TypesCorrect` | `InTurn` | `TypeOK`: no semaphore exceeds the number of ranks |
| `CpuXcclProofs!BarrierRefinement` | `InTurn` | `CpuXccl` implements `CollectiveBarrier` |
| `AtbTaskQueueProofs!ProgramOrderCorrect` | | `ProgramOrder` |
| `AtbTaskQueueProofs!WaitSoundCorrect` | | `WaitSound`, an action property |
| `AtbTaskQueueProofs!ExecutorRefinement` | | `AtbTaskQueue` implements `TaskExecutor` |
| `LlamaInferProofs!RunnerStableCorrect` | | `RunnerStable`, an action property |
| `LlamaInferProofs!WorkspaceLiveCorrect` | `~MidGrowth` | `WorkspaceLive` |
| `LlamaInferProofs!OutputRightCorrect` | `~MidGrowth` | `OutputRight`: each stage returns what its last layer computed in this pass |
| `LlamaInferProofs!NoneVanishedCorrect` | | `NoneVanished`: a saved step is received, queued, or was dropped by a signal or a kill |
| `LlamaInferProofs!BatchRightCorrect` | | `BatchRight` for any number of rows, blocks, tokens to a block and lengths |
| `MluStagingProofs!OneOwnerCorrect` | | `OneOwner`, for either value of `reuse` |
| `MluStagingProofs!StagingSafeCorrect` | | `StagingSafe`: without `reuse` no buffer is freed under its copy |
| `RuntimePartsProofs!ProgramOrderCorrect` | | `ProgramOrder` for any number of ranks, streams and collectives |
| `RuntimePartsProofs!WorkspaceLiveCorrect` | finitely many streams | `WorkspaceLive` of `HpuWorkspace`, with one stream or synchronous execution |
| `RuntimePartsProofs!ReductionRightCorrect` | `OneGcuStream` | `ReductionRight`; `WideReductionCorrect` says it of all integers and any width |
| `RuntimePartsProofs!StagingLiveCorrect` | | `StagingLive`: an NPU staging buffer is allocated while a copy from it is queued |
| `RuntimePartsProofs!SpinsOnOverlapCorrect` | | `SpinsOnOverlap`: only another call under way makes a call spin |
| `RuntimePartsProofs!OneDeviceCorrect` | | `OneDevice` for any sequence of calls |
| `RuntimePartsProofs!SyncDoneCorrect` | | `SyncDone`, an action property |
| `RuntimePartsProofs!StagedIntactCorrect` | `Disciplined` | `StagedIntact`: the shared host buffer holds each copy's data until the device has read it |
| `NpuEventPoolProofs!PoolImplementsService` | `Discipline` | `NpuEventRefinement` implements `EventService` |
| `RuntimePartsProofs!SdaaImplementsService` | `~Early` | `SdaaEvents` implements `EventService` |

`HSpec` of
`NpuEventRefinement` takes it that a name is left for the next record
(`RecordsAssumption`), so the history variable never keeps the pool from a step.

The arguments, that is, what has to be said besides the property to make it
inductive:

- `TypeInv` of `NpuEventPoolProofs`: where each thread's local variables point at
  each label. `StreamInv` for `NoDeadStream`: outside the window between
  `aclrtDestroyStream` and `PostDestroyStream` the two maps name living streams
  only, and the one thread there is cannot be in that window and in
  `reset_event`.
- `RecycleInv`: a pending record or wait of a handle is in a stream which the
  pool's two maps remember; at most one record of a handle is pending; the mark
  `aclrtSynchronizeStream` waits for is behind all of them; a handle with its
  flag raised has no record pending.
- `RingInv`: the event of the block of each pending copy is recorded behind it
  in the same stream, or the thread that will record it is on its way.
- `BarrierInv` of `CpuXcclProofs`: the communicator is either collecting (the
  tokens of `sig`, with those the root has taken, are as many as the ranks inside)
  or releasing (the tokens of `sig_2`, with those taken by ranks that have left,
  are as many as the root has given). Without `InTurn` it holds until every rank
  has entered a collective (`FreeInv`): until then no rank can overtake another,
  and from then on none has a semaphore to open.
- `AtbTaskQueueProofs`: list and executed tasks are ordered per thread and every
  executed task precedes every listed one of its thread; the task being
  committed is newer than both; while the queue runs, every task asked for is
  executed, listed, or being committed.
- `HistoryInv` of `NpuEventPoolProofs`, for the refinement: an event has a latest
  record exactly when the pool has it as recorded, and no two events share one (`NamesInv`); a stream without the pool's marks is the client's
  stream, task by task, each under the record it was issued for (`AlignedInv`);
  and no wait is pending for an event that is about to be recorded
  (`RecordClear`), so the flag a wait finds is that of its own record. With
  `RecycleInv` this maps each step of the pool to one step of the service or to
  none: marks, scans and drains are invisible to the client.
- `StagingInv` of `MluStagingProofs`: each handle is with one of the pool, a
  client, a copy that has not entered its event yet, and a buffer; a pending copy
  from a buffer stands before the last record of the buffer's event. What reuse
  breaks is the step from "query says completed" to "no record pending".
- `LlamaInferProofs`: the queue holds only tasks of layers and stages the op
  thread has passed (`PlaceInv`), so `Bind` touches none of them; while tasks
  are queued the workspace suffices for all stages of the pass (`RoomInv`), so
  it is not replaced.
  For `OutputRight`, `DataInv`: what stream and queue have yet to launch is, stage
  by stage, an unbroken run of the steps of the pass, and the buffer its first
  step reads holds the result of the step before. For `NoneVanished`, every
  step of this job that `save_output` is done with is received, queued or dropped.
- `BatchInv` of `LlamaInferProofs`, for `BatchRight`: a row is prefilled or decoded
  and never both, a row that is taken has all its blocks, and no block stands
  twice in the tables (`BlocksOwned`). Two general facts carry the rest. What
  the op concatenates row by row has the part of each row where the row's offset
  says, and nothing else (`FlattenPacked`), so place p of the cut hidden states, of
  the slots and of the rotary positions is the same token of the same
  sequence (`EncoderRows`, `DecoderRows`). And by division with remainder no two
  tokens of live sequences have one slot (`PlaceOnce`), so a pass writes no slot
  twice and none that holds a token. Both loops over rows and blocks are induction
  over the natural numbers, from the least number at which a statement would
  fail: the order of the naturals is well founded (`Induction`).
- `CommInv` of `RuntimePartsProofs`: the unfinished collectives of a rank stand, in order, in
  the stream of its `lastCommStream`; its other streams hold kernels only; a
  running collective is the first unfinished one.
- `HpuInv`: with one stream or synchronous execution, a pending recipe asked for no
  more than it was given, and was given the workspace there is unless it asked for
  none.
- `GcuInv`: the tasks of a stream come in triples narrow, reduce, widen, the
  first perhaps begun, or alone, and the buffer the head reads holds what the one
  before it left there. The arithmetic is lemmas of its own: sums and products agree modulo the width, and
  a value that fits is the only one of its class.
- `StagingInv` of `RuntimePartsProofs`: whoever holds `mtx_` is in
  `ProcessEvents`; each entry without an event belongs to one call
  under way; the events of entries are distinct and taken; a pending copy stands
  before the latest record of its entry's event, so "completed", which the
  service says only after that record has run, comes after the copy.
- `SdaaInv`: a handle held by a client is not in the pool, the pool holds none
  twice, and where the client has recorded its event the driver's last record
  is that one.
- `DeviceInv`: nothing but `moduleID` is acquired, and nothing at status 0.
  `CallInv`: a synchronous call waits for the stream it put its task in.
  `BufferInv`: at most one pending copy goes through the buffer; if it is in a
  built-in stream a call is waiting for it, and if it is in one of the client's the
  client gives no other (`Disciplined`); the buffer has the size and data of a
  pending upload.

The inductive invariants were first checked with TLC on the instances of the
runs.

Every invariant of the passing runs but `LayerRight` is a theorem.

Only model-checked:

- every liveness property, among them `ImplementsProgress`: fairness and ENABLED
  are out of the prover's reach;
- `LayerRight`: `AtbGraph` has no constant, and TLC goes through every
  combination of its parameters, so there is nothing left for a proof to add.

## 5. Findings

- `MluStaging_query`: `CNRTEvent::query` answers from `is_completed_`, which
  nothing resets when the wrapper is recorded again or comes from the pool. With
  `mlu_reuse_event` (on by default) a query may say completed while the record
  is pending, and a staging buffer is then freed under its copy.
- `HpuRuntime_d2h`: an asynchronous device-to-host copy goes to the caller's
  stream, but the code waits for the built-in stream before it reads the
  buffer, contrary to its comment "still sync mode copy".
- `HpuRuntime_status`: `Release` leaves `Status` at 1 with no device acquired.

## 6. Assumptions and limits

The drivers' functions are modelled from how the plugins use them: streams are
in order and keep executing (weak fairness of each stream in the liveness runs);
a wait task refers to the record made before it; freeing or reusing is judged by
the plugin's own calls. A driver call that fails is not modelled, except PD_CHECK in
`HpuRuntime`, in `NpuEventPool` a wait for an event never recorded and the use
of a destroyed stream, which stop the model, and the interrupted calls of
`OutputQueue`. Data races are modelled as
interleavings of single reads and writes, which over a plain container
(`TaskQueue::Instance`, the HPU stream sets) would show nothing; those are hazards
without a property.

Bounds are CONSTANTS, named where they are declared: `MaxQueue` and `GcuPending`
(pending tasks, or calls, a client leaves in a stream), `MaxMine`, `MaxTasks`, `MaxCalls`,
`MaxNames`, `Collectives`, `Kernels`, `MaxPass`, `MaxNeed`, `MaxSize`, `MaxLen`,
`MaxSeq`, `Steps`, `MaxJob`, `Signals`, and the finite sets of handles, names of
records and buffers. Where a bound is a resource the program does not run out of (host memory, event
handles, names of records), the action that would need one more is not enabled,
and the liveness properties say so or the cfg gives enough.
