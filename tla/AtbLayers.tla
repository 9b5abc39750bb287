------------------------------ MODULE AtbLayers ------------------------------
(***************************************************************************)
(* The fused decoder layers of the NPU plugin                              *)
(* (src/backends/npu/custom_op/llama_infer/atb_ops/).  One thread runs the *)
(* ops of a model: for every layer the prefill and the decode stage bind a *)
(* runner, set it up and commit its execution to the TaskQueue, whose      *)
(* worker launches it on the device stream some time later.  The layers of *)
(* a stage hand their results on through two buffers used in turns; all    *)
(* runners share one workspace that grows on demand.                       *)
(*                                                                         *)
(* The TaskQueue is the executor AtbTaskQueue implements.  A tensor is     *)
(* what it holds: <<pass, k>> after k layers of a pass, or Garbage.        *)
(***************************************************************************)
EXTENDS Integers, Sequences

CONSTANTS
  Layers,       \* layers of the model: the first op has flag Begin, the last End
  MaxPass,      \* bound on the passes through the model
  MaxNeed,      \* bound on the size of a workspace
  MidGrowth,    \* may an op need more workspace while tasks are queued
  Garbage

ASSUME LayersAssumption == Layers \in Nat \ {0, 1}
ASSUME NeedAssumption == MaxNeed \in Nat /\ MidGrowth \in BOOLEAN

Stage == {"encoder", "decoder"}

VARIABLES
  blockingRun,  \* FLAGS_npu_blocking_run, set once
  at,           \* where the op thread is
  stage,        \* the stage whose call it is in
  pass,         \* passes begun so far
  layer,        \* layer_id
  flag,         \* first_or_second_flag
  tokens,       \* the stages with tokens in this pass
  need,         \* the workspace each stage asks for in this pass
  pack,         \* g_encoder_runners, g_decoder_runners: what a runner is bound to
  workspace,    \* tmp of get_workspace: the block it holds and its size
  pending, ran, lost,   \* the TaskQueue
  stream,       \* what the device has still to do
  buf,          \* [stage, second] -> what the buffer holds
  out           \* what the op returns for each stage, once the device is done

opVars == <<at, stage, pass, layer, flag, tokens, need>>
queueVars == <<pending, ran, lost>>
vars == <<blockingRun, opVars, pack, workspace, queueVars, stream, buf, out>>

Task == Stage \X (0..Layers-1) \X (1..MaxPass)
Executor == INSTANCE TaskExecutor

(* OutPack: the buffers are allocated anew for each pass.                  *)
Buffer(s, second) == [stage |-> s, second |-> second, pass |-> pass]
Unbound == [layer |-> -1, in |-> Garbage, out |-> Garbage, block |-> 0, size |-> 0]

(* A copy to or from one of the two buffers for each of the stages.        *)
Copies(kind, second, active) ==
  LET Copy(s) == IF s \in active THEN <<[kind |-> kind, stage |-> s, second |-> second]>> ELSE <<>>
  IN  Copy("encoder") \o Copy("decoder")

Init ==
  /\ blockingRun \in BOOLEAN
  /\ at = "out" /\ stage = "encoder" /\ pass = 0 /\ layer = 0 /\ flag = FALSE
  /\ tokens = {} /\ need = [s \in Stage |-> 0]
  /\ pack = [r \in Stage \X (0..Layers-1) |-> Unbound]
  /\ workspace = [block |-> 0, size |-> 0]
  /\ Executor!Init
  /\ stream = <<>>
  /\ buf = [s \in Stage |-> [second \in BOOLEAN |-> Garbage]]
  /\ out = [s \in Stage |-> Garbage]

(* After the call for the encoder the op calls the decoder; after the last *)
(* layer it waits.                                                         *)
StageDone ==
  IF stage = "encoder"
    THEN at' = "bind" /\ stage' = "decoder"
    ELSE at' = (IF layer = Layers - 1 THEN "wait" ELSE "next") /\ UNCHANGED stage

-----------------------------------------------------------------------------
(***************************************************************************)
(* The op of one layer.                                                    *)
(***************************************************************************)
(* update_block_tables and update_seqlens wait for the stream; then the    *)
(* buffers are allocated and the tokens of the batch copied into the first.*)
Begin ==
  /\ at = "out" /\ pass < MaxPass /\ stream = <<>>
  /\ \E active \in SUBSET Stage, size \in [Stage -> 0..MaxNeed] :
       /\ MidGrowth \/ size["decoder"] <= size["encoder"] \/ "encoder" \notin active
       /\ tokens' = active /\ need' = size
       /\ stream' = Copies("in", FALSE, active)
  /\ pass' = pass + 1 /\ flag' = FALSE /\ layer' = 0
  /\ buf' = [s \in Stage |-> [second \in BOOLEAN |-> Garbage]]
  /\ out' = [s \in Stage |-> Garbage]
  /\ at' = "bind" /\ stage' = "encoder"
  /\ UNCHANGED <<blockingRun, pack, workspace, queueVars>>

(* A bug: the buffers are not exchanged between two layers.                *)
NextLayerSameBuffers ==
  /\ at = "next"
  /\ layer' = layer + 1
  /\ at' = "bind" /\ stage' = "encoder"
  /\ UNCHANGED <<blockingRun, pass, flag, tokens, need, pack, workspace, queueVars, stream, buf, out>>

NextLayer ==
  /\ at = "next"
  /\ flag' = ~flag /\ layer' = layer + 1
  /\ at' = "bind" /\ stage' = "encoder"
  /\ UNCHANGED <<blockingRun, pass, tokens, need, pack, workspace, queueVars, stream, buf, out>>

SkipStage ==
  /\ at = "bind" /\ stage \notin tokens
  /\ StageDone
  /\ UNCHANGED <<blockingRun, pass, layer, flag, tokens, need, pack, workspace, queueVars, stream, buf, out>>

Runner == <<stage, layer>>

(* reset_variant_pack or create, and the binds.                            *)
Bind ==
  /\ at = "bind" /\ stage \in tokens
  /\ pack' = [pack EXCEPT ![Runner] =
                [layer |-> layer, in |-> Buffer(stage, flag), out |-> Buffer(stage, ~flag),
                 block |-> 0, size |-> 0]]
  /\ at' = "setup"
  /\ UNCHANGED <<blockingRun, pass, layer, flag, tokens, need, stage, workspace, queueVars, stream, buf, out>>

(* A bug: the workspace is allocated anew whenever the size differs.       *)
WorkspaceExact(size) ==
  \/ /\ size = workspace.size
     /\ UNCHANGED workspace
  \/ /\ size # workspace.size
     /\ stream = <<>>
     /\ workspace' = [block |-> workspace.block + 1, size |-> size]

(* get_workspace: a larger block replaces the one there is, which is freed *)
(* once the stream is idle; a queued task is not waited for.               *)
Workspace(size) ==
  \/ /\ size <= workspace.size
     /\ UNCHANGED workspace
  \/ /\ size > workspace.size
     /\ stream = <<>>
     /\ workspace' = [block |-> workspace.block + 1, size |-> size]

Setup ==
  /\ at = "setup"
  /\ Workspace(need[stage])
  /\ pack' = [pack EXCEPT ![Runner].block = workspace'.block, ![Runner].size = need[stage]]
  /\ at' = "commit"
  /\ UNCHANGED <<blockingRun, pass, layer, flag, tokens, need, stage, queueVars, stream, buf, out>>

Launch(r) == [kind |-> "layer", pack |-> pack[r]]

Commit ==
  /\ at = "commit" /\ ~blockingRun
  /\ Executor!Submit(<<stage, layer, pass>>)
  /\ StageDone
  /\ UNCHANGED <<blockingRun, pass, layer, flag, tokens, need, pack, workspace, stream, buf, out>>

(* With FLAGS_npu_blocking_run Commit executes the task, and execute waits *)
(* for the stream.                                                         *)
CommitBlocking ==
  /\ at = "commit" /\ blockingRun
  /\ Executor!RunInline(<<stage, layer, pass>>)
  /\ stream' = Append(stream, Launch(Runner))
  /\ at' = "sync"
  /\ UNCHANGED <<blockingRun, pass, layer, flag, tokens, need, stage, pack, workspace, buf, out>>

BlockingSync ==
  /\ at = "sync" /\ stream = <<>>
  /\ StageDone
  /\ UNCHANGED <<blockingRun, pass, layer, flag, tokens, need, pack, workspace, queueVars, stream, buf, out>>

CopyOut == Copies("out", ~flag, tokens)

(* A bug: the last op does not wait for the TaskQueue.                     *)
EndEarly ==
  /\ at = "wait"
  /\ stream' = stream \o CopyOut
  /\ at' = "head"
  /\ UNCHANGED <<blockingRun, pass, layer, flag, tokens, need, stage, pack, workspace, queueVars, buf, out>>

(* The op with flag End: TaskQueue::Wait, and the copies to the output.    *)
End ==
  /\ at = "wait" /\ pending = <<>>
  /\ stream' = stream \o CopyOut
  /\ at' = "head"
  /\ UNCHANGED <<blockingRun, pass, layer, flag, tokens, need, stage, pack, workspace, queueVars, buf, out>>

(* lm_head binds, sets up and executes a runner of its own on this thread, *)
(* and waits for the stream with FLAGS_npu_blocking_run.                   *)
LmHead ==
  /\ at = "head"
  /\ \E size \in 0..MaxNeed :
       /\ Workspace(size)
       /\ stream' = Append(stream, [kind |-> "head", block |-> workspace'.block, size |-> size])
  /\ at' = IF blockingRun THEN "headsync" ELSE "out"
  /\ UNCHANGED <<blockingRun, pass, layer, flag, tokens, need, stage, pack, queueVars, buf, out>>

HeadSync ==
  /\ at = "headsync" /\ stream = <<>>
  /\ at' = "out"
  /\ UNCHANGED <<blockingRun, pass, layer, flag, tokens, need, stage, pack, workspace, queueVars, stream, buf, out>>

-----------------------------------------------------------------------------
(***************************************************************************)
(* The worker of the TaskQueue and the device.                             *)
(***************************************************************************)
(* The task holds a reference to the runner: it launches what the runner   *)
(* is bound to now.                                                        *)
WorkerExecute ==
  /\ Executor!RunNext
  /\ stream' = Append(stream, Launch(<<Head(pending)[1], Head(pending)[2]>>))
  /\ UNCHANGED <<blockingRun, opVars, pack, workspace, buf, out>>

Live(p) == p.size = 0 \/ p.block = workspace.block

(* What a layer computes; with a workspace that was freed, anything.       *)
Results(p) ==
  IF p.in.pass = pass /\ buf[p.in.stage][p.in.second] = <<pass, p.layer>>
    THEN {<<pass, p.layer + 1>>} \cup (IF Live(p) THEN {} ELSE {Garbage})
    ELSE {Garbage}

DeviceIn(t) ==
  /\ t.kind = "in"
  /\ buf' = [buf EXCEPT ![t.stage][t.second] = <<pass, 0>>]
  /\ UNCHANGED out

DeviceLayer(p) ==
  /\ \E x \in Results(p) : buf' = [buf EXCEPT ![p.out.stage][p.out.second] = x]
  /\ UNCHANGED out

DeviceOut(t) ==
  /\ t.kind = "out"
  /\ out' = [out EXCEPT ![t.stage] = buf[t.stage][t.second]]
  /\ UNCHANGED buf

Device ==
  /\ stream # <<>>
  /\ stream' = Tail(stream)
  /\ LET t == Head(stream)
     IN  \/ DeviceIn(t)
         \/ t.kind = "layer" /\ DeviceLayer(t.pack)
         \/ DeviceOut(t)
         \/ t.kind = "head" /\ UNCHANGED <<buf, out>>
  /\ UNCHANGED <<blockingRun, opVars, pack, workspace, queueVars>>

Next ==
  \/ Begin \/ NextLayer \/ SkipStage \/ Bind \/ Setup \/ Commit \/ CommitBlocking \/ BlockingSync
  \/ End \/ LmHead \/ HeadSync
  \/ WorkerExecute \/ Device

Spec == Init /\ [][Next]_vars

-----------------------------------------------------------------------------
RunnerOf(task) == <<task[1], task[2]>>

(* The op returns what the last layer computed: through the two buffers,   *)
(* the flag, the queue and the stream, every layer reads what the one      *)
(* before it wrote, and the copy out picks the buffer written last.        *)
OutputRight ==
  at = "out" /\ stream = <<>> /\ pass > 0 => \A s \in tokens : out[s] = <<pass, Layers>>

(* The runner a queued task refers to is not bound anew before the task    *)
(* has run, in this pass or the next.                                      *)
RunnerStable ==
  [][\A i \in DOMAIN pending : pack'[RunnerOf(pending[i])] = pack[RunnerOf(pending[i])]]_vars

(* Neither a queued nor a launched execution refers to a workspace that    *)
(* get_workspace has freed.                                                *)
WorkspaceLive ==
  /\ \A i \in DOMAIN pending : Live(pack[RunnerOf(pending[i])])
  /\ \A i \in DOMAIN stream :
       CASE stream[i].kind = "layer" -> Live(stream[i].pack)
         [] stream[i].kind = "head" -> Live(stream[i])
         [] OTHER -> TRUE
=============================================================================
