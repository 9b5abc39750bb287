--------------------------- MODULE MCRuntimeParts ----------------------------
(***************************************************************************)
(* Parts of the device runtimes, for TLC: lastCommStream of MLU and SDAA   *)
(* (CommStream), the copies of the NPU plugin (NpuStaging), the events of  *)
(* the SDAA plugin (SdaaEvents), the workspace of Intel HPU (HpuWorkspace) *)
(* and the all-reduce of GCU (GcuAllReduce).  They belong to different     *)
(* plugins and share nothing: a behaviour is one of the part chosen at the *)
(* start, the others rest.                                                 *)
(***************************************************************************)
EXTENDS CommStream, Integers, TLC

CONSTANTS
  Threads, Buffers, Events, Records, MaxQueue,   \* NpuStaging
  SdaaRecords, Early,                            \* SdaaEvents
  MaxSize,                                       \* HpuWorkspace
  GcuStreams, Types, Counts, Values, Width, GcuPending   \* GcuAllReduce

(* None is the null pointer; a narrow integer has at least one bit.        *)
ASSUME NullAssumption == None \notin Threads \cup Buffers \cup Events \cup Records \cup SdaaRecords
ASSUME WidthAssumption == Width \in Nat \ {0}
ASSUME ValuesAssumption == Values \subseteq Int

VARIABLES
  part,
  latest, stream, taken, recorded, live, mtx, blockingRun, pc, buf, ev, st, todo,   \* NpuStaging
  held, pool, wasRecorded, last, sdaaStream, sdaaLatest, syncing,           \* SdaaEvents
  used, syncExecute, size, hpuStream,                                               \* HpuWorkspace
  memory, gcuStream, received                                                       \* GcuAllReduce

SmallValues == {-1, 0, 1, 3}

Staging == INSTANCE NpuStaging WITH Nil <- None
Sdaa == INSTANCE SdaaEvents WITH
          stream <- sdaaStream, latest <- sdaaLatest, Records <- SdaaRecords, Nil <- None
Hpu == INSTANCE HpuWorkspace WITH stream <- hpuStream
Gcu == INSTANCE GcuAllReduce WITH stream <- gcuStream, Streams <- GcuStreams, MaxPending <- GcuPending

stagingVars == <<latest, stream, taken, recorded, live, mtx, blockingRun, pc, buf, ev, st, todo>>
sdaaVars == <<held, pool, wasRecorded, last, sdaaStream, sdaaLatest, syncing>>
hpuVars == <<used, syncExecute, size, hpuStream>>
gcuVars == <<memory, gcuStream, received>>
partVars == <<part, vars, stagingVars, sdaaVars, hpuVars, gcuVars>>

PartInit ==
  /\ part \in {"comm", "staging", "sdaa", "hpu"} \cup Types
  /\ Init /\ Staging!Init /\ Sdaa!Init /\ Hpu!Init /\ Gcu!Init
  /\ part # "staging" => ~blockingRun
  /\ part # "hpu" => used = Streams /\ ~syncExecute

InComm(step) ==
  part = "comm" /\ step /\ UNCHANGED <<part, stagingVars, sdaaVars, hpuVars, gcuVars>>
InStaging(step) ==
  part = "staging" /\ step /\ UNCHANGED <<part, vars, sdaaVars, hpuVars, gcuVars>>
RunSdaa == part = "sdaa" /\ Sdaa!Next /\ UNCHANGED <<part, vars, stagingVars, hpuVars, gcuVars>>
RunHpu == part = "hpu" /\ Hpu!Next /\ UNCHANGED <<part, vars, stagingVars, sdaaVars, gcuVars>>
(* Calls of different types share no buffer: the calls are of one.         *)
RunGcu ==
  /\ part \in Types
  /\ Gcu!Next
  /\ \A s \in GcuStreams : \A i \in 1..Len(gcuStream'[s]) : gcuStream'[s][i].call.type = part
  /\ UNCHANGED <<part, vars, stagingVars, sdaaVars, hpuVars>>

PartNext == InComm(Next) \/ InStaging(Staging!Next) \/ RunSdaa \/ RunHpu \/ RunGcu

(* The threads and the devices go on.  Strong fairness of a thread: mtx_ is*)
(* not kept from it for ever, and it waits for the tasks put before its    *)
(* wait alone.                                                             *)
Fairness ==
  /\ \A r \in Ranks : WF_partVars(InComm(Progress(r)))
  /\ WF_partVars(InComm(CompleteSome))
  /\ \A t \in Threads : SF_partVars(InStaging(Staging!Step(t)))
  /\ \A s \in Streams : WF_partVars(InStaging(Staging!Run(s)))

PartSpec == PartInit /\ [][PartNext]_partVars /\ Fairness

AllComplete == part = "comm" => EveryCollectiveCompletes
StagingLive == Staging!StagingLive
SpinsOnOverlap == Staging!SpinsOnOverlap
CopyReturns == Staging!CopyReturns
ImplementsService == Sdaa!ImplementsService
WorkspaceLive == Hpu!WorkspaceLive
ReductionRight == Gcu!ReductionRight
=============================================================================
