---------------------------- MODULE MCHpuRuntime ----------------------------
(***************************************************************************)
(* RuntimeManager for TLC and for the proofs: HpuRuntime under names of its*)
(* own, so that it can stand beside the other parts of the device runtimes.*)
(***************************************************************************)
EXTENDS Naturals, TLC

CONSTANTS
  Modules, FirstModule, UserStreams, Cells, Contents, Sizes, MaxCopies, Disciplined, Nothing

VARIABLES
  acquired, status, moduleID, handle, capacity, mapped, content, copyQueue, mem, copyCall, dead

Manager == INSTANCE HpuRuntime WITH
             Streams <- UserStreams, Values <- Contents, MaxQueue <- MaxCopies, None <- Nothing,
             queue <- copyQueue, call <- copyCall

ASSUME ModuleAssumption == FirstModule \in Modules
ASSUME SizesAssumption == Sizes \subseteq Nat \ {0}
ASSUME NothingAssumption == Nothing \notin Contents \cup Manager!Call

ManagerSpec == Manager!Spec

(* SetDevice gives one device back before it takes another.                *)
OneDevice == Manager!OneDevice

(* The shared host buffer holds the data of every pending upload.          *)
StagedIntact == Manager!StagedIntact

(* A synchronous copy, and SyncStream, return when their stream is empty.  *)
SyncDone == Manager!SyncDone

(* "TO BE NOTICED, still sync mode copy", of AsyncMemCpyD2H.               *)
AsyncD2HDone == Manager!AsyncD2HDone

(* "1 acquire, 0 not acquire", of Status.                                  *)
StatusFaithful == Manager!StatusFaithful

Symmetry == Permutations(Cells) \cup Permutations(Contents) \cup Permutations(UserStreams)
=============================================================================
