---------------------------- MODULE HpuWorkspace -----------------------------
(***************************************************************************)
(* RecipeRunner::Run of the Intel HPU plugin (hpu_operator.cc): all        *)
(* recipes of the process run with one cached workspace, which grows when  *)
(* a recipe asks for more than there is.  synWorkspaceGetSize, synLaunch   *)
(* and the streams are external: a stream runs its recipes in order, each  *)
(* in the workspace it was launched with.                                  *)
(***************************************************************************)
EXTENDS Naturals, Sequences, FiniteSets

CONSTANTS
  Streams,
  MaxSize,    \* the largest workspace a recipe asks for
  MaxQueue    \* bound on the length of a stream

VARIABLES
  used,          \* the streams that kernels are launched on
  syncExecute,   \* FLAGS_intel_hpu_sync_execute
  size,          \* cached_workspaceSize; the address is named by its size,
                 \* for each workspace is larger than those before
  stream         \* of each stream: what its recipes ask for and were given

vars == <<used, syncExecute, size, stream>>

Init ==
  /\ used \in SUBSET Streams \ {{}}
  /\ syncExecute \in BOOLEAN
  /\ size = 0
  /\ stream = [s \in Streams |-> <<>>]

(* A bug: the old workspace is freed at once.                              *)
WorkspaceUnsynced(s, request) == size' = IF request > size THEN request ELSE size

(* synStreamSynchronize, synDeviceFree and synDeviceMalloc.                *)
Workspace(s, request) ==
  \/ /\ request > size
     /\ size # 0 => stream[s] = <<>>
     /\ size' = request
  \/ request <= size /\ UNCHANGED size

Run(s, request) ==
  /\ Len(stream[s]) < MaxQueue
  /\ syncExecute => \A x \in Streams : stream[x] = <<>>   \* the Run before has waited
  /\ Workspace(s, request)
  /\ stream' = [stream EXCEPT ![s] = Append(@, [request |-> request, workspace |-> size'])]
  /\ UNCHANGED <<used, syncExecute>>

Execute(s) ==
  /\ stream[s] # <<>>
  /\ stream' = [stream EXCEPT ![s] = Tail(@)]
  /\ UNCHANGED <<used, syncExecute, size>>

Next == \E s \in used : Execute(s) \/ \E request \in 0..MaxSize : Run(s, request)

Spec == Init /\ [][Next]_vars

-----------------------------------------------------------------------------
(* No recipe runs in a workspace that was freed or that is smaller than it *)
(* asked for, while all recipes go to one stream or each is waited for: the*)
(* wait for its own stream alone is enough then.                           *)
WorkspaceLive ==
  Cardinality(used) = 1 \/ syncExecute =>
    \A s \in Streams : \A i \in 1..Len(stream[s]) :
      LET recipe == stream[s][i]
      IN  /\ recipe.request <= recipe.workspace
          /\ recipe.request > 0 => recipe.workspace = size
=============================================================================
