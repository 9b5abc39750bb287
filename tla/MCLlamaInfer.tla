---------------------------- MODULE MCLlamaInfer -----------------------------
(***************************************************************************)
(* The parts of the LLaMA inference of the NPU plugin, for TLC: the layers *)
(* with their runners (AtbLayers), the graph of a layer (AtbGraph), the    *)
(* paged cache (PagedCache) and the queue of the results (OutputQueue).    *)
(* They meet in values the modules keep abstract, never in a variable: a   *)
(* behaviour is one of the part chosen at the start, the others rest.      *)
(***************************************************************************)
EXTENDS AtbLayers, TLC

CONSTANTS
  Rows, BlockSize, RowBlocks, Blocks, MaxLen, MaxSeq, Nothing,   \* PagedCache
  Capacity, Steps, MaxJob, Signals                               \* OutputQueue

(* The client keeps a sequence to the blocks it has given it.              *)
ASSUME BatchAssumption ==
  /\ Rows \in Nat /\ BlockSize \in Nat \ {0} /\ RowBlocks \in Nat /\ Blocks \subseteq Nat
  /\ MaxLen \in Nat /\ MaxLen <= BlockSize * RowBlocks /\ Nothing \notin Nat

VARIABLES
  part,                                                          \* the part that runs
  param, bound, tensors, node,                                   \* AtbGraph
  seq, encLen, decLen, table, begun, cache, rotated, result,     \* PagedCache
  queue, job, step, sending, dropped, receiving, received, signals   \* OutputQueue

Graph == INSTANCE AtbGraph
Paged == INSTANCE PagedCache
Output == INSTANCE OutputQueue WITH lost <- dropped

graphVars == <<param, bound, tensors, node>>
cacheVars == <<seq, encLen, decLen, table, begun, cache, rotated, result>>
outputVars == <<queue, job, step, sending, dropped, receiving, received, signals>>
partVars == <<part, vars, graphVars, cacheVars, outputVars>>

PartInit ==
  /\ part \in {"layers", "graph", "cache", "output"}
  /\ Init /\ Graph!Init /\ Paged!Init /\ Output!Init
  /\ part # "layers" => ~blockingRun
  /\ part # "graph" => param = CHOOSE p \in Graph!Param : TRUE

RunLayers == part = "layers" /\ Next /\ UNCHANGED <<part, graphVars, cacheVars, outputVars>>
RunGraph == part = "graph" /\ Graph!Next /\ UNCHANGED <<part, vars, cacheVars, outputVars>>
RunCache == part = "cache" /\ Paged!Next /\ UNCHANGED <<part, vars, graphVars, outputVars>>
RunOutput == part = "output" /\ Output!Next /\ UNCHANGED <<part, vars, graphVars, cacheVars>>

PartNext == RunLayers \/ RunGraph \/ RunCache \/ RunOutput

PartSpec == PartInit /\ [][PartNext]_partVars

LayerRight == Graph!LayerRight
BatchRight == Paged!BatchRight
NoneVanished == Output!NoneVanished
=============================================================================
