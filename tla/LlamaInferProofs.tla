-------------------------- MODULE LlamaInferProofs --------------------------
(***************************************************************************)
(* Proofs about the layers with their runners (AtbLayers), the queue of the*)
(* results (OutputQueue) and the batch of a pass (PagedCache), for any     *)
(* number of layers, passes, steps and jobs, any capacity of the queue, and*)
(* any number of rows, blocks and tokens.                                  *)
(*                                                                         *)
(* RunnerStable: the queue holds tasks of earlier layers of this pass, or  *)
(* of the encoder of this one (PlaceInv).  WorkspaceLive: while it holds   *)
(* any, the workspace suffices for the whole pass (RoomInv).  OutputRight: *)
(* what the stream and the queue have yet to launch is, for each stage, an *)
(* unbroken run of the steps of its pass, and the buffer that the first of *)
(* them reads holds the result of the step before (DataInv).  NoneVanished:*)
(* every step of the job that save_output is done with is known to the     *)
(* client, in the queue, or dropped (OutputInv).  BatchRight: the lists the*)
(* op makes of the rows agree on every token, and no two live tokens have  *)
(* one slot of the cache (BatchInv).                                       *)
(***************************************************************************)
EXTENDS MCLlamaInfer, WellFoundedInduction, TLAPS

Places == {"out", "bind", "setup", "commit", "sync", "wait", "next", "head", "headsync"}
RunnerTask == Stage \X (0..Layers-1) \X Nat
Buffers == [stage : Stage, second : BOOLEAN, pass : Nat] \cup {Garbage}
Pack == [layer : Int, in : Buffers, out : Buffers, block : Nat, size : Nat]
CopyTask == [kind : {"in", "out"}, stage : Stage, second : BOOLEAN]
LayerTask == [kind : {"layer"}, pack : Pack]
HeadTask == [kind : {"head"}, block : Nat, size : Nat]
StreamTask == CopyTask \cup LayerTask \cup HeadTask

TypeInv ==
  /\ blockingRun \in BOOLEAN /\ at \in Places /\ stage \in Stage
  /\ pass \in Nat /\ layer \in 0..Layers-1 /\ flag \in BOOLEAN
  /\ tokens \subseteq Stage /\ need \in [Stage -> Nat]
  /\ pack \in [Stage \X (0..Layers-1) -> Pack]
  /\ workspace \in [block : Nat, size : Nat]
  /\ pending \in Seq(RunnerTask) /\ stream \in Seq(StreamTask)

(* The tasks that may be queued: what this pass has passed.                *)
Passed(k) ==
  \/ k[2] < layer
  \/ k[2] = layer /\ k[1] = "encoder" /\ stage = "decoder"
  \/ k[2] = layer /\ at \in {"wait", "next"}

PlaceInv ==
  /\ at \in {"out", "head", "headsync"} => pending = <<>>
  /\ blockingRun => pending = <<>>
  /\ at = "next" => layer < Layers - 1
  /\ at \in {"setup", "commit", "sync"} => stage \in tokens
  /\ at = "sync" => blockingRun
  /\ at = "bind" /\ layer = 0 /\ stage = "encoder" => pending = <<>>
  /\ \A i \in 1..Len(pending) : Passed(pending[i])

RoomInv ==
  /\ need["decoder"] <= need["encoder"] \/ "encoder" \notin tokens
  /\ at \in {"commit", "sync"} => need[stage] <= workspace.size
  /\ stage = "decoder" /\ "encoder" \in tokens => need["encoder"] <= workspace.size
  /\ pending # <<>> => \A s \in tokens : need[s] <= workspace.size

LiveTask(x) ==
  /\ x.kind = "layer" => Live(x.pack)
  /\ x.kind = "head" => Live(x)

LiveInv ==
  /\ at = "commit" => Live(pack[<<stage, layer>>])
  /\ \A i \in 1..Len(pending) : Live(pack[RunnerOf(pending[i])])
  /\ \A i \in 1..Len(stream) : LiveTask(stream[i])

QueueInv == TypeInv /\ PlaceInv
IInv == QueueInv /\ RoomInv /\ LiveInv

-----------------------------------------------------------------------------
LEMMA Added ==
  ASSUME NEW S, NEW q \in Seq(S), NEW x \in S
  PROVE  /\ Append(q, x) \in Seq(S) /\ Append(q, x) # <<>> /\ Len(q) \in Nat
         /\ \A i \in 1..Len(Append(q, x)) :
              Append(q, x)[i] = x \/ (i \in 1..Len(q) /\ Append(q, x)[i] = q[i])
OBVIOUS

LEMMA Removed ==
  ASSUME NEW S, NEW q \in Seq(S), q # <<>>
  PROVE  /\ Head(q) \in S /\ Tail(q) \in Seq(S) /\ Len(q) \in Nat
         /\ 1 \in 1..Len(q) /\ Head(q) = q[1]
         /\ \A i \in 1..Len(Tail(q)) : i + 1 \in 1..Len(q) /\ Tail(q)[i] = q[i + 1]
OBVIOUS

LEMMA Joined ==
  ASSUME NEW S, NEW q \in Seq(S), NEW r \in Seq(S)
  PROVE  /\ q \o r \in Seq(S)
         /\ \A i \in 1..Len(q \o r) :
              \/ i \in 1..Len(q) /\ (q \o r)[i] = q[i]
              \/ \E j \in 1..Len(r) : (q \o r)[i] = r[j]
<1>1. q \o r \in Seq(S) /\ Len(q) \in Nat /\ Len(r) \in Nat /\ Len(q \o r) = Len(q) + Len(r)
  OBVIOUS
<1>2. ASSUME NEW i \in 1..Len(q \o r), i \notin 1..Len(q)
      PROVE  i - Len(q) \in 1..Len(r) /\ (q \o r)[i] = r[i - Len(q)]
  BY <1>1, <1>2
<1>3. \A i \in 1..Len(q) : (q \o r)[i] = q[i]
  BY <1>1
<1>4. QED BY <1>1, <1>2, <1>3

(* The copies to and from the buffers use no workspace.                    *)
LEMMA CopiesType ==
  ASSUME NEW kind \in {"in", "out"}, NEW second \in BOOLEAN, NEW active
  PROVE  Copies(kind, second, active) \in Seq(CopyTask)
<1> DEFINE Copy(s) == IF s \in active THEN <<[kind |-> kind, stage |-> s, second |-> second]>> ELSE <<>>
<1>1. ASSUME NEW s \in Stage  PROVE Copy(s) \in Seq(CopyTask)
  <2>1. [kind |-> kind, stage |-> s, second |-> second] \in CopyTask
    BY DEF CopyTask
  <2>2. QED BY <2>1
<1>2. "encoder" \in Stage /\ "decoder" \in Stage
  BY DEF Stage
<1>3. Copies(kind, second, active) = Copy("encoder") \o Copy("decoder")
  BY DEF Copies
<1> HIDE DEF Copy
<1>4. QED BY <1>1, <1>2, <1>3, Joined

LEMMA CopyLive ==
  ASSUME NEW x \in CopyTask
  PROVE  x \in StreamTask /\ LiveTask(x) /\ LiveTask(x)'
BY DEF CopyTask, StreamTask, LiveTask

LEMMA CopiesStream ==
  ASSUME NEW q \in Seq(CopyTask)
  PROVE  q \in Seq(StreamTask) /\ \A i \in 1..Len(q) : q[i] \in CopyTask
BY DEF StreamTask

-----------------------------------------------------------------------------
LEMMA InitInv == Init => IInv
<1> SUFFICES ASSUME Init  PROVE IInv
  OBVIOUS
<1>1. pending = <<>> /\ stream = <<>> /\ at = "out" /\ stage = "encoder"
  BY DEF Init, Executor!Init
<1>2. Unbound \in Pack
  BY DEF Unbound, Pack, Buffers
<1>3. TypeInv
  <2>1. /\ blockingRun \in BOOLEAN /\ flag \in BOOLEAN /\ tokens \subseteq Stage /\ pass \in Nat
        /\ need \in [Stage -> Nat] /\ workspace \in [block : Nat, size : Nat]
    BY DEF Init
  <2>0. layer \in 0..Layers-1
    BY LayersAssumption DEF Init
  <2>3. pack \in [Stage \X (0..Layers-1) -> Pack]
    BY <1>2 DEF Init
  <2>2. at \in Places /\ stage \in Stage /\ pending \in Seq(RunnerTask) /\ stream \in Seq(StreamTask)
    BY <1>1 DEF Places, Stage
  <2>4. QED BY <2>0, <2>1, <2>2, <2>3 DEF TypeInv
<1>4. PlaceInv /\ LiveInv
  BY <1>1 DEF PlaceInv, LiveInv
<1>5. RoomInv
  BY <1>1 DEF Init, RoomInv
<1>6. QED BY <1>3, <1>4, <1>5 DEF IInv, QueueInv

(* The type invariant.                                                     *)
LEMMA WorkspaceType ==
  ASSUME TypeInv, NEW size \in Nat, Workspace(size)
  PROVE  /\ workspace' \in [block : Nat, size : Nat]
         /\ size <= workspace'.size /\ workspace.size <= workspace'.size
         /\ workspace' = workspace \/ (stream = <<>> /\ size > workspace.size)
BY DEF TypeInv, Workspace

LEMMA PackType ==
  ASSUME TypeInv, NEW r \in Stage \X (0..Layers-1)
  PROVE  Launch(r) \in StreamTask /\ Launch(r).kind = "layer" /\ Launch(r).pack = pack[r]
<1>1. pack[r] \in Pack
  BY DEF TypeInv
<1>2. QED BY <1>1 DEF Launch, StreamTask, LayerTask

LEMMA TypeStep ==
  ASSUME TypeInv, PlaceInv, [Next]_vars
  PROVE  TypeInv'
<1>1. Runner \in Stage \X (0..Layers-1)
  BY DEF Runner, TypeInv
<1>2. CASE Begin
  <2>1. PICK active \in SUBSET Stage, size \in [Stage -> 0..MaxNeed] :
          tokens' = active /\ need' = size /\ stream' = Copies("in", FALSE, active)
    BY <1>2 DEF Begin
  <2>2. stream' \in Seq(StreamTask)
    BY <2>1, CopiesType, CopiesStream
  <2>3. need' \in [Stage -> Nat]
    BY <2>1, NeedAssumption
  <2>4. /\ tokens' \subseteq Stage /\ at' = "bind" /\ stage' = "encoder" /\ layer' = 0 /\ flag' \in BOOLEAN
        /\ pass' = pass + 1 /\ UNCHANGED <<blockingRun, pack, workspace, pending>>
    BY <1>2, <2>1 DEF Begin, queueVars
  <2>5. 0 \in 0..Layers-1 /\ "encoder" \in Stage /\ "bind" \in Places
    BY LayersAssumption DEF Stage, Places
  <2>6. at' \in Places /\ stage' \in Stage /\ layer' \in 0..Layers-1
    BY <2>4, <2>5
  <2>7. QED BY <2>2, <2>3, <2>4, <2>6 DEF TypeInv
<1>3. CASE NextLayer \/ SkipStage \/ BlockingSync
  <2>1. at' \in Places /\ stage' \in Stage
    BY <1>3 DEF NextLayer, SkipStage, BlockingSync, StageDone, TypeInv, Places, Stage
  <2>2. /\ UNCHANGED <<blockingRun, pass, tokens, need, pack, workspace, pending, stream>>
        /\ flag' = flag \/ flag' = ~flag
        /\ layer' = layer \/ (NextLayer /\ layer' = layer + 1)
    BY <1>3 DEF NextLayer, SkipStage, BlockingSync, queueVars
  <2>3. layer' \in 0..Layers-1
    BY <2>2, LayersAssumption DEF NextLayer, PlaceInv, TypeInv
  <2>4. QED BY <2>1, <2>2, <2>3 DEF TypeInv
<1>4. CASE Bind
  <2>1. [layer |-> layer, in |-> Buffer(stage, flag), out |-> Buffer(stage, ~flag), block |-> 0, size |-> 0] \in Pack
    BY DEF TypeInv, Pack, Buffers, Buffer
  <2>2. QED BY <1>4, <1>1, <2>1 DEF Bind, TypeInv, Places, queueVars
<1>5. CASE Setup
  <2>1. need[stage] \in Nat /\ workspace' \in [block : Nat, size : Nat]
    BY <1>5, WorkspaceType DEF Setup, TypeInv
  <2>2. pack' \in [Stage \X (0..Layers-1) -> Pack]
    <3>1. pack[Runner] \in Pack
      BY <1>1 DEF TypeInv
    <3>2. pack' = [pack EXCEPT ![Runner] = [@ EXCEPT !.block = workspace'.block, !.size = need[stage]]]
      BY <1>5, <1>1 DEF Setup, TypeInv
    <3>3. [pack[Runner] EXCEPT !.block = workspace'.block, !.size = need[stage]] \in Pack
      BY <3>1, <2>1 DEF Pack
    <3>4. QED BY <3>2, <3>3, <1>1 DEF TypeInv
  <2>3. QED BY <1>5, <2>1, <2>2 DEF Setup, TypeInv, Places, queueVars
<1>6. CASE Commit
  <2>1. <<stage, layer, pass>> \in RunnerTask
    BY DEF TypeInv, RunnerTask
  <2>2. pending' = Append(pending, <<stage, layer, pass>>)
    BY <1>6 DEF Commit, Executor!Submit
  <2>3. pending' \in Seq(RunnerTask)
    BY <2>1, <2>2, Added DEF TypeInv
  <2>4. QED BY <1>6, <2>3 DEF Commit, StageDone, TypeInv, Places, Stage
<1>7. CASE CommitBlocking
  <2>1. stream' \in Seq(StreamTask)
    BY <1>7, <1>1, PackType, Added DEF CommitBlocking, TypeInv
  <2>2. QED BY <1>7, <2>1 DEF CommitBlocking, TypeInv, Places, Executor!RunInline
<1>8. CASE End
  <2>1. Copies("out", ~flag, tokens) \in Seq(StreamTask)
    BY CopiesType, CopiesStream DEF TypeInv
  <2>2. stream' \in Seq(StreamTask)
    BY <1>8, <2>1, Joined DEF End, CopyOut, TypeInv
  <2>3. QED BY <1>8, <2>2 DEF End, TypeInv, Places, queueVars
<1>9. CASE LmHead
  <2>1. PICK size \in Nat : /\ Workspace(size)
                            /\ stream' = Append(stream, [kind |-> "head", block |-> workspace'.block, size |-> size])
    BY <1>9, NeedAssumption DEF LmHead
  <2>2. workspace' \in [block : Nat, size : Nat]
    BY <2>1, WorkspaceType
  <2>3. stream' \in Seq(StreamTask)
    BY <2>1, <2>2, Added DEF StreamTask, HeadTask, TypeInv
  <2>4. QED BY <1>9, <2>2, <2>3 DEF LmHead, TypeInv, Places, queueVars
<1>10. CASE HeadSync
  BY <1>10 DEF HeadSync, TypeInv, Places, queueVars
<1>11. CASE WorkerExecute
  <2>1. pending # <<>> /\ pending' = Tail(pending) /\ Head(pending) \in RunnerTask /\ pending' \in Seq(RunnerTask)
    BY <1>11, Removed DEF WorkerExecute, Executor!RunNext, TypeInv
  <2>2. <<Head(pending)[1], Head(pending)[2]>> \in Stage \X (0..Layers-1)
    BY <2>1 DEF RunnerTask
  <2>3. stream' \in Seq(StreamTask)
    BY <1>11, <2>2, PackType, Added DEF WorkerExecute, TypeInv
  <2>4. QED BY <1>11, <2>1, <2>3 DEF WorkerExecute, TypeInv, opVars
<1>12. CASE Device
  <2>1. stream' \in Seq(StreamTask)
    BY <1>12, Removed DEF Device, TypeInv
  <2>2. QED BY <1>12, <2>1 DEF Device, TypeInv, opVars, queueVars
<1>13. CASE UNCHANGED vars
  BY <1>13 DEF vars, opVars, queueVars, TypeInv
<1>14. QED BY <1>2, <1>3, <1>4, <1>5, <1>6, <1>7, <1>8, <1>9, <1>10, <1>11, <1>12, <1>13 DEF Next

-----------------------------------------------------------------------------
(* What is queued stays behind the op thread.                              *)
LEMMA PlaceStep ==
  ASSUME TypeInv, TypeInv', PlaceInv, [Next]_vars
  PROVE  PlaceInv'
<1>1. CASE Begin
  BY <1>1 DEF Begin, PlaceInv, queueVars
<1>2. CASE NextLayer
  <2>1. layer' = layer + 1 /\ layer \in Nat /\ \A i \in 1..Len(pending) : pending[i] \in RunnerTask
    BY <1>2 DEF NextLayer, TypeInv
  <2>2. \A i \in 1..Len(pending) : pending[i][2] \in Nat
    BY <2>1, LayersAssumption DEF RunnerTask
  <2>3. QED BY <1>2, <2>1, <2>2 DEF NextLayer, PlaceInv, Passed, queueVars
<1>3. CASE SkipStage
  BY <1>3, LayersAssumption DEF SkipStage, StageDone, PlaceInv, Passed, queueVars, TypeInv, Stage
<1>4. CASE BlockingSync
  BY <1>4, LayersAssumption DEF BlockingSync, StageDone, PlaceInv, Passed, queueVars, TypeInv, Stage
<1>5. CASE Bind \/ Setup
  BY <1>5 DEF Bind, Setup, PlaceInv, Passed, queueVars
<1>6. CASE Commit
  <2> DEFINE k == <<stage, layer, pass>>
  <2>1. /\ at = "commit" /\ ~blockingRun /\ pending' = Append(pending, k) /\ k \in RunnerTask
        /\ UNCHANGED <<blockingRun, layer, tokens>>
    BY <1>6 DEF Commit, Executor!Submit, TypeInv, RunnerTask
  <2>2. stage \in {"encoder", "decoder"} /\ layer \in 0..Layers-1
    BY DEF TypeInv, Stage
  <2>3. \/ stage = "encoder" /\ stage' = "decoder" /\ at' = "bind"
        \/ stage = "decoder" /\ stage' = "decoder" /\ at' \in {"wait", "next"}
             /\ (at' = "next" => layer # Layers - 1)
    BY <1>6, <2>2 DEF Commit, StageDone
  <2>4. \A x \in RunnerTask : x = k \/ Passed(x) => Passed(x)'
    BY <2>1, <2>3 DEF Passed
  <2>5. ASSUME NEW i \in 1..Len(pending')
        PROVE  Passed(pending[i])'
    <3> DEFINE x == pending'[i]
    <3> HIDE DEF k
    <3>1. x \in RunnerTask /\ (x = k \/ \E j \in 1..Len(pending) : x = pending[j])
      BY <2>1, Added DEF TypeInv
    <3>2. x = k \/ Passed(x)
      BY <3>1 DEF PlaceInv
    <3>3. QED BY <2>4, <3>1, <3>2 DEF Passed
  <2>6. at' = "next" => layer' < Layers - 1
    <3>1. Layers - 1 \in Int /\ layer' = layer /\ layer \in Int /\ layer <= Layers - 1
      BY <2>1, <2>2, LayersAssumption
    <3>2. QED BY <2>3, <3>1
  <2>7. QED BY <2>1, <2>3, <2>5, <2>6 DEF PlaceInv
<1>7. CASE CommitBlocking
  BY <1>7 DEF CommitBlocking, Executor!RunInline, PlaceInv, Passed
<1>8. CASE End \/ LmHead \/ HeadSync
  BY <1>8 DEF End, LmHead, HeadSync, PlaceInv, Passed, queueVars
<1>9. CASE WorkerExecute
  <2>1. /\ pending # <<>> /\ pending' = Tail(pending)
        /\ UNCHANGED <<blockingRun, at, stage, layer, tokens>>
    BY <1>9 DEF WorkerExecute, Executor!RunNext, opVars
  <2>2. ASSUME NEW i \in 1..Len(pending')  PROVE Passed(pending'[i])
    <3>1. i + 1 \in 1..Len(pending) /\ pending'[i] = pending[i + 1]
      BY <2>1, Removed DEF TypeInv
    <3>2. QED BY <3>1 DEF PlaceInv
  <2>3. QED BY <2>1, <2>2 DEF PlaceInv, Passed
<1>10. CASE Device
  BY <1>10 DEF Device, opVars, queueVars, PlaceInv, Passed
<1>11. CASE UNCHANGED vars
  BY <1>11 DEF vars, opVars, queueVars, PlaceInv, Passed
<1>12. QED BY <1>1, <1>2, <1>3, <1>4, <1>5, <1>6, <1>7, <1>8, <1>9, <1>10, <1>11 DEF Next

LEMMA QueueInvariant == Spec => []QueueInv
<1>1. Init => QueueInv
  BY InitInv DEF IInv
<1>2. QueueInv /\ [Next]_vars => QueueInv'
  <2> SUFFICES ASSUME QueueInv, [Next]_vars  PROVE QueueInv'
    OBVIOUS
  <2>1. TypeInv'
    BY TypeStep DEF QueueInv
  <2>2. QED BY <2>1, PlaceStep DEF QueueInv
<1>3. QED BY <1>1, <1>2, PTL DEF Spec

(* The op thread binds and sets up a runner no queued task refers to.      *)
LEMMA OthersQueued ==
  ASSUME QueueInv, at \in {"bind", "setup"}, NEW i \in 1..Len(pending)
  PROVE  RunnerOf(pending[i]) # Runner
BY DEF QueueInv, PlaceInv, Passed, RunnerOf, Runner, TypeInv

LEMMA StablePack ==
  ASSUME QueueInv, [Next]_vars
  PROVE  \A i \in DOMAIN pending : pack'[RunnerOf(pending[i])] = pack[RunnerOf(pending[i])]
<1>1. DOMAIN pending = 1..Len(pending) /\ \A i \in 1..Len(pending) : RunnerOf(pending[i]) \in Stage \X (0..Layers-1)
  BY DEF QueueInv, TypeInv, RunnerOf, RunnerTask
<1>2. CASE Bind \/ Setup
  BY <1>1, <1>2, OthersQueued DEF Bind, Setup, QueueInv, TypeInv
<1>3. CASE ~(Bind \/ Setup)
  BY <1>3 DEF Next, vars, Begin, NextLayer, SkipStage, BlockingSync, Commit, CommitBlocking, End,
     LmHead, HeadSync, WorkerExecute, Device
<1>4. QED BY <1>2, <1>3

(* A runner is bound anew only when the executions committed with its old  *)
(* binding have been launched: the waits of the op with flag End suffice,  *)
(* for any number of layers and passes.                                    *)
THEOREM RunnerStableCorrect == Spec => RunnerStable
<1>1. QueueInv /\ [Next]_vars =>
        [\A i \in DOMAIN pending : pack'[RunnerOf(pending[i])] = pack[RunnerOf(pending[i])]]_vars
  BY StablePack
<1>2. QED BY <1>1, QueueInvariant, PTL DEF Spec, RunnerStable

-----------------------------------------------------------------------------
(* The workspace.                                                          *)
LEMMA RoomStep ==
  ASSUME ~MidGrowth, QueueInv, QueueInv', RoomInv, [Next]_vars
  PROVE  RoomInv'
<1>1. CASE Begin
  BY <1>1 DEF Begin, RoomInv, QueueInv, PlaceInv, queueVars
<1>2. CASE NextLayer
  BY <1>2 DEF NextLayer, RoomInv, queueVars
<1>3. CASE SkipStage
  BY <1>3 DEF SkipStage, StageDone, RoomInv, queueVars, QueueInv, TypeInv, Stage
<1>4. CASE Bind
  BY <1>4 DEF Bind, RoomInv, queueVars
<1>5. CASE Setup
  <2>1. need[stage] <= workspace'.size /\ workspace.size <= workspace'.size
    BY <1>5, WorkspaceType DEF Setup, QueueInv, TypeInv
  <2>2. /\ need["encoder"] \in Nat /\ need["decoder"] \in Nat /\ \A s \in tokens : need[s] \in Nat
        /\ workspace.size \in Nat /\ workspace'.size \in Nat
    BY DEF QueueInv, TypeInv, Stage
  <2>3. UNCHANGED <<stage, tokens, need, pending>> /\ at' = "commit"
    BY <1>5 DEF Setup, queueVars
  <2>4. QED BY <2>1, <2>2, <2>3 DEF RoomInv
<1>6. CASE Commit \/ BlockingSync
  <2>1. /\ stage \in tokens /\ need[stage] <= workspace.size
        /\ need["encoder"] \in Nat /\ need["decoder"] \in Nat /\ workspace.size \in Nat
        /\ stage \in {"encoder", "decoder"} /\ tokens \subseteq {"encoder", "decoder"}
    BY <1>6 DEF Commit, BlockingSync, QueueInv, PlaceInv, TypeInv, RoomInv, Stage
  <2>2. \A s \in tokens : need[s] <= workspace.size
    BY <2>1 DEF RoomInv
  <2>3. /\ UNCHANGED <<tokens, need, workspace>> /\ at' \in {"bind", "wait", "next"}
        /\ stage' = "decoder" /\ (stage = "decoder" \/ stage = "encoder")
    BY <1>6, <2>1 DEF Commit, BlockingSync, StageDone
  <2>4. QED BY <2>2, <2>3 DEF RoomInv
<1>7. CASE CommitBlocking
  BY <1>7 DEF CommitBlocking, Executor!RunInline, RoomInv
<1>8. CASE End \/ HeadSync
  BY <1>8 DEF End, HeadSync, RoomInv, queueVars
<1>9. CASE LmHead
  <2>1. workspace.size <= workspace'.size /\ pending = <<>>
    BY <1>9, WorkspaceType, NeedAssumption DEF LmHead, QueueInv, PlaceInv
  <2>2. need["encoder"] \in Nat /\ workspace.size \in Nat /\ workspace'.size \in Nat
    BY DEF QueueInv, TypeInv, Stage
  <2>3. UNCHANGED <<stage, tokens, need, pending>> /\ at' \in {"out", "headsync"}
    BY <1>9 DEF LmHead, queueVars
  <2>4. QED BY <2>1, <2>2, <2>3 DEF RoomInv
<1>10. CASE WorkerExecute
  BY <1>10 DEF WorkerExecute, Executor!RunNext, opVars, RoomInv
<1>11. CASE Device
  BY <1>11 DEF Device, opVars, queueVars, RoomInv
<1>12. CASE UNCHANGED vars
  BY <1>12 DEF vars, opVars, queueVars, RoomInv
<1>13. QED BY <1>1, <1>2, <1>3, <1>4, <1>5, <1>6, <1>7, <1>8, <1>9, <1>10, <1>11, <1>12 DEF Next

LEMMA LiveKept ==
  ASSUME UNCHANGED workspace
  PROVE  \A x : (LiveTask(x)' <=> LiveTask(x)) /\ (Live(x)' <=> Live(x))
BY DEF LiveTask, Live

LEMMA LiveStep ==
  ASSUME ~MidGrowth, QueueInv, QueueInv', RoomInv, LiveInv, [Next]_vars
  PROVE  LiveInv'
<1>0. TypeInv /\ PlaceInv
  BY DEF QueueInv
<1>1. CASE Begin
  <2>1. /\ pending' = <<>> /\ at' = "bind" /\ UNCHANGED workspace
        /\ \E active : stream' = Copies("in", FALSE, active)
    BY <1>1, <1>0 DEF Begin, queueVars, PlaceInv
  <2>2. \A i \in 1..Len(stream') : LiveTask(stream'[i])
    BY <2>1, CopiesType, CopiesStream, CopyLive
  <2>3. (\A i \in 1..Len(stream) : LiveTask(stream[i]))'
    BY <2>1, <2>2 DEF LiveTask, Live
  <2>4. (\A i \in 1..Len(pending) : Live(pack[RunnerOf(pending[i])]))'
    BY <2>1
  <2>5. at' # "commit"
    BY <2>1
  <2>6. QED BY <2>3, <2>4, <2>5 DEF LiveInv
<1>2. CASE NextLayer \/ SkipStage \/ BlockingSync \/ HeadSync
  <2>1. UNCHANGED <<pack, workspace, pending, stream>> /\ at' # "commit"
    BY <1>2 DEF NextLayer, SkipStage, BlockingSync, HeadSync, StageDone, queueVars
  <2>2. QED BY <2>1, LiveKept DEF LiveInv
<1>3. CASE Bind
  <2>1. \A i \in 1..Len(pending) : pack'[RunnerOf(pending[i])] = pack[RunnerOf(pending[i])]
    BY StablePack, <1>0 DEF TypeInv
  <2>2. UNCHANGED <<workspace, pending, stream>> /\ at' = "setup"
    BY <1>3 DEF Bind, queueVars
  <2>3. \A i \in 1..Len(pending) : Live(pack'[RunnerOf(pending[i])])
    BY <2>1 DEF LiveInv
  <2>4. QED BY <2>2, <2>3, LiveKept DEF LiveInv, RunnerOf
<1>4. CASE Setup
  <2>1. \A i \in 1..Len(pending) : pack'[RunnerOf(pending[i])] = pack[RunnerOf(pending[i])]
    BY StablePack, <1>0 DEF TypeInv
  <2>2. /\ UNCHANGED <<pending, stream, stage, layer>> /\ at' = "commit" /\ at = "setup"
        /\ Workspace(need[stage])
        /\ pack' = [pack EXCEPT ![Runner].block = workspace'.block, ![Runner].size = need[stage]]
    BY <1>4 DEF Setup, queueVars
  <2>3. Live(pack[<<stage, layer>>])'
    <3>1. Runner \in Stage \X (0..Layers-1) /\ pack[Runner] \in Pack
      BY <1>0 DEF TypeInv, Runner
    <3>2. pack'[Runner] = [pack[Runner] EXCEPT !.block = workspace'.block, !.size = need[stage]]
      BY <2>2, <3>1, <1>0 DEF TypeInv
    <3>3. pack'[Runner].block = workspace'.block
      BY <3>1, <3>2 DEF Pack
    <3>4. QED BY <2>2, <3>3 DEF Live, Runner
  <2>4. CASE UNCHANGED workspace
    <3>1. \A i \in 1..Len(pending) : Live(pack'[RunnerOf(pending[i])])
      BY <2>1 DEF LiveInv
    <3>2. QED BY <2>2, <2>3, <2>4, <3>1, LiveKept DEF LiveInv, RunnerOf
  <2>5. CASE stream = <<>> /\ need[stage] > workspace.size
    <3>1. stage \in tokens /\ need[stage] \in Nat /\ workspace.size \in Nat
      BY <2>2, <1>0 DEF PlaceInv, TypeInv
    <3>2. pending = <<>>
      BY <2>5, <3>1 DEF RoomInv
    <3>3. QED BY <2>2, <2>3, <2>5, <3>2 DEF LiveInv
  <2>6. QED BY <2>2, <2>4, <2>5, <1>0, WorkspaceType DEF TypeInv
<1>5. CASE Commit
  <2> DEFINE k == <<stage, layer, pass>>
  <2>1. /\ at = "commit" /\ at' # "commit" /\ pending' = Append(pending, k) /\ k \in RunnerTask
        /\ UNCHANGED <<pack, workspace, stream>>
    BY <1>5, <1>0 DEF Commit, StageDone, Executor!Submit, TypeInv, RunnerTask
  <2>2. Live(pack[RunnerOf(k)])
    BY <2>1 DEF LiveInv, RunnerOf
  <2> HIDE DEF k
  <2>3. \A i \in 1..Len(pending') : Live(pack[RunnerOf(pending'[i])])
    BY <2>1, <2>2, Added, <1>0 DEF LiveInv, TypeInv
  <2>4. QED BY <2>1, <2>3, LiveKept DEF LiveInv, RunnerOf
<1>6. CASE CommitBlocking
  <2>1. /\ at = "commit" /\ at' # "commit" /\ stream' = Append(stream, Launch(Runner))
        /\ UNCHANGED <<pack, workspace, pending>>
    BY <1>6 DEF CommitBlocking, Executor!RunInline
  <2>2. Runner \in Stage \X (0..Layers-1)
    BY <1>0 DEF TypeInv, Runner
  <2>3. LiveTask(Launch(Runner)) /\ Launch(Runner) \in StreamTask
    BY <2>1, <2>2, <1>0, PackType DEF LiveInv, LiveTask, Runner
  <2>4. \A i \in 1..Len(stream') : LiveTask(stream'[i])
    BY <2>1, <2>3, Added, <1>0 DEF LiveInv, TypeInv
  <2>5. QED BY <2>1, <2>4, LiveKept DEF LiveInv, RunnerOf
<1>7. CASE End
  <2>1. /\ stream' = stream \o CopyOut /\ at' = "head" /\ UNCHANGED <<pack, workspace, pending>>
    BY <1>7 DEF End, queueVars
  <2>2. CopyOut \in Seq(StreamTask) /\ \A i \in 1..Len(CopyOut) : LiveTask(CopyOut[i])
    BY CopiesType, CopiesStream, CopyLive, <1>0 DEF CopyOut, TypeInv
  <2>3. ASSUME NEW i \in 1..Len(stream')  PROVE LiveTask(stream'[i])
    <3>1. \A j \in 1..Len(stream) : LiveTask(stream[j])
      BY DEF LiveInv
    <3>2. stream \in Seq(StreamTask)
      BY <1>0 DEF TypeInv
    <3>3. \/ i \in 1..Len(stream) /\ stream'[i] = stream[i]
          \/ \E j \in 1..Len(CopyOut) : stream'[i] = CopyOut[j]
      BY <2>1, <2>2, <3>2, Joined
    <3>4. QED BY <2>2, <3>1, <3>3
  <2>4. QED BY <2>1, <2>3, LiveKept DEF LiveInv, RunnerOf
<1>8. CASE LmHead
  <2>1. PICK size \in Nat : /\ Workspace(size)
                            /\ stream' = Append(stream, [kind |-> "head", block |-> workspace'.block, size |-> size])
    BY <1>8, NeedAssumption DEF LmHead
  <2>2. /\ workspace' = workspace \/ (stream = <<>> /\ workspace' \in [block : Nat, size : Nat])
        /\ workspace' \in [block : Nat, size : Nat]
    BY <2>1, WorkspaceType, <1>0
  <2>3. PICK x : x = [kind |-> "head", block |-> workspace'.block, size |-> size]
    OBVIOUS
  <2>4. stream' = Append(stream, x) /\ x \in StreamTask /\ x.kind = "head" /\ x.block = workspace'.block
    BY <2>1, <2>2, <2>3 DEF StreamTask, HeadTask
  <2>5. ASSUME NEW i \in 1..Len(stream')  PROVE LiveTask(stream[i])'
    <3>1. stream'[i] = x \/ (i \in 1..Len(stream) /\ stream'[i] = stream[i])
      BY <2>4, Added, <1>0 DEF TypeInv
    <3>2. CASE stream'[i] = x
      BY <2>4, <3>2 DEF LiveTask, Live
    <3>3. CASE i \in 1..Len(stream) /\ stream'[i] = stream[i]
      <4>1. workspace' = workspace
        BY <2>2, <3>3
      <4>2. LiveTask(stream[i])
        BY <3>3 DEF LiveInv
      <4>3. QED BY <3>3, <4>1, <4>2 DEF LiveTask, Live
    <3>4. QED BY <3>1, <3>2, <3>3
  <2>6. pending' = <<>> /\ at' # "commit"
    BY <1>8, <1>0 DEF LmHead, queueVars, PlaceInv
  <2>7. QED BY <2>5, <2>6 DEF LiveInv
<1>9. CASE WorkerExecute
  <2> DEFINE k == Head(pending)
  <2>1. /\ pending # <<>> /\ pending' = Tail(pending) /\ stream' = Append(stream, Launch(<<k[1], k[2]>>))
        /\ UNCHANGED <<at, stage, layer, pack, workspace>>
    BY <1>9 DEF WorkerExecute, Executor!RunNext, opVars
  <2>2. k \in RunnerTask /\ k = pending[1] /\ 1 \in 1..Len(pending)
    BY <2>1, Removed, <1>0 DEF TypeInv
  <2>3. <<k[1], k[2]>> \in Stage \X (0..Layers-1) /\ Live(pack[<<k[1], k[2]>>])
    BY <2>2 DEF RunnerTask, LiveInv, RunnerOf
  <2> HIDE DEF k
  <2>4. LiveTask(Launch(<<k[1], k[2]>>)) /\ Launch(<<k[1], k[2]>>) \in StreamTask
    BY <2>3, <1>0, PackType DEF LiveTask
  <2>5. \A i \in 1..Len(stream') : LiveTask(stream'[i])
    BY <2>1, <2>4, Added, <1>0 DEF LiveInv, TypeInv
  <2>6. \A i \in 1..Len(pending') : Live(pack[RunnerOf(pending'[i])])
    <3>1. \A i \in 1..Len(pending') : i + 1 \in 1..Len(pending) /\ pending'[i] = pending[i + 1]
      BY <2>1, Removed, <1>0 DEF TypeInv
    <3>2. QED BY <3>1 DEF LiveInv
  <2>7. QED BY <2>1, <2>5, <2>6, LiveKept DEF LiveInv, RunnerOf
<1>10. CASE Device
  <2>1. stream # <<>> /\ stream' = Tail(stream) /\ UNCHANGED <<at, stage, layer, pack, workspace, pending>>
    BY <1>10 DEF Device, opVars, queueVars
  <2>2. \A i \in 1..Len(stream') : i + 1 \in 1..Len(stream) /\ stream'[i] = stream[i + 1]
    BY <2>1, Removed, <1>0 DEF TypeInv
  <2>3. \A i \in 1..Len(stream') : LiveTask(stream'[i])
    BY <2>2 DEF LiveInv
  <2>4. QED BY <2>1, <2>3, LiveKept DEF LiveInv, RunnerOf
<1>11. CASE UNCHANGED vars
  BY <1>11, LiveKept DEF vars, opVars, queueVars, LiveInv, RunnerOf
<1>12. QED BY <1>1, <1>2, <1>3, <1>4, <1>5, <1>6, <1>7, <1>8, <1>9, <1>10, <1>11 DEF Next

LEMMA LiveMeansLive == TypeInv /\ LiveInv => WorkspaceLive
<1> SUFFICES ASSUME TypeInv, LiveInv  PROVE WorkspaceLive
  OBVIOUS
<1>1. DOMAIN pending = 1..Len(pending) /\ DOMAIN stream = 1..Len(stream)
  BY DEF TypeInv
<1>2. \A i \in 1..Len(stream) : LiveTask(stream[i])
  BY DEF LiveInv
<1>3. QED BY <1>1, <1>2 DEF LiveInv, WorkspaceLive, LiveTask

(* get_workspace frees its block only when neither a queued nor a launched *)
(* execution refers to it, for any number of layers and passes and any     *)
(* sizes, if the decoder of a pass asks for no more than its encoder.      *)
THEOREM WorkspaceLiveCorrect ==
  ASSUME ~MidGrowth
  PROVE  Spec => []WorkspaceLive
<1>1. Init => RoomInv /\ LiveInv
  BY InitInv DEF IInv
<1>2. QueueInv /\ QueueInv' /\ RoomInv /\ LiveInv /\ [Next]_vars => (RoomInv /\ LiveInv)'
  BY RoomStep, LiveStep
<1>3. QueueInv /\ LiveInv => WorkspaceLive
  BY LiveMeansLive DEF QueueInv
<1>4. QED BY <1>1, <1>2, <1>3, QueueInvariant, PTL DEF Spec

-----------------------------------------------------------------------------
(***************************************************************************)
(* The queue of the results.  What NoneVanished says is inductive with the *)
(* types: a message moves from msgsnd to the queue or to the dropped ones, *)
(* and from the queue to the client.                                       *)
(***************************************************************************)
OutputMessage == Nat \X Nat \X {"more", "stop"}
Holds(q, m) == \E i \in 1..Len(q) : q[i] = m

OutputTypes ==
  /\ job \in Nat /\ step \in Nat /\ sending \in BOOLEAN
  /\ queue \in Seq(OutputMessage) /\ received \in Seq(OutputMessage)
  /\ dropped \subseteq OutputMessage

Known(m) == m \in dropped \/ Holds(received, m) \/ Holds(queue, m)
StepKnown(n) == \E m \in OutputMessage : Known(m) /\ m[1] = job /\ m[2] = n

OutputInv ==
  /\ OutputTypes
  /\ \A n \in 1..step : (n = step /\ sending) \/ StepKnown(n)

LEMMA HoldsAppend ==
  ASSUME NEW S, NEW q \in Seq(S), NEW x \in S, NEW m
  PROVE  Holds(Append(q, x), m) <=> Holds(q, m) \/ m = x
<1>1. /\ Len(q) \in Nat /\ Len(Append(q, x)) = Len(q) + 1 /\ Append(q, x)[Len(q) + 1] = x
      /\ \A i \in 1..Len(q) : Append(q, x)[i] = q[i]
  OBVIOUS
<1>2. \A i \in 1..Len(q) + 1 : i \in 1..Len(q) \/ i = Len(q) + 1
  BY <1>1
<1>3. Len(q) + 1 \in 1..Len(q) + 1 /\ \A i \in 1..Len(q) : i \in 1..Len(q) + 1
  BY <1>1
<1>4. QED BY <1>1, <1>2, <1>3 DEF Holds

LEMMA HoldsTail ==
  ASSUME NEW S, NEW q \in Seq(S), q # <<>>, NEW m
  PROVE  Holds(q, m) <=> Holds(Tail(q), m) \/ m = Head(q)
<1>1. /\ Len(q) \in Nat /\ Len(q) >= 1 /\ Len(Tail(q)) = Len(q) - 1 /\ Head(q) = q[1]
      /\ \A i \in 1..Len(q) - 1 : Tail(q)[i] = q[i + 1]
  OBVIOUS
<1>2. ASSUME NEW i \in 1..Len(q), i # 1  PROVE i - 1 \in 1..Len(q) - 1 /\ Tail(q)[i - 1] = q[i]
  <2>1. i - 1 \in 1..Len(q) - 1 /\ (i - 1) + 1 = i
    BY <1>1, <1>2
  <2>2. QED BY <1>1, <2>1
<1>3. 1 \in 1..Len(q) /\ \A i \in 1..Len(q) - 1 : i + 1 \in 1..Len(q)
  BY <1>1
<1>4. QED BY <1>1, <1>2, <1>3 DEF Holds

LEMMA HoldsJoined ==
  ASSUME NEW S, NEW p \in Seq(S), NEW q \in Seq(S), NEW m
  PROVE  Holds(p \o q, m) <=> Holds(p, m) \/ Holds(q, m)
<1>1. /\ Len(p) \in Nat /\ Len(q) \in Nat /\ Len(p \o q) = Len(p) + Len(q)
      /\ \A i \in 1..Len(p) : (p \o q)[i] = p[i]
  OBVIOUS
<1>2. \A i \in 1..Len(q) : i + Len(p) \in 1..Len(p \o q) /\ (p \o q)[i + Len(p)] = q[i]
  BY <1>1
<1>3. \A i \in 1..Len(p) : i \in 1..Len(p \o q)
  BY <1>1
<1>4. ASSUME NEW i \in 1..Len(p \o q), i \notin 1..Len(p)
      PROVE  i - Len(p) \in 1..Len(q) /\ (p \o q)[i] = q[i - Len(p)]
  BY <1>1, <1>4
<1>5. QED BY <1>1, <1>2, <1>3, <1>4 DEF Holds

LEMMA OutputMessageType ==
  ASSUME OutputTypes
  PROVE  Output!Message \in OutputMessage /\ Output!Message[1] = job /\ Output!Message[2] = step
BY DEF OutputTypes, OutputMessage, Output!Message

LEMMA OutputTypeStep ==
  ASSUME OutputTypes, Output!Next
  PROVE  OutputTypes'
<1>1. CASE Output!Save
  BY <1>1 DEF Output!Save, OutputTypes
<1>2. CASE Output!Send
  <2>1. queue' \in Seq(OutputMessage)
    BY <1>2, OutputMessageType, Added DEF Output!Send, OutputTypes
  <2>2. QED BY <1>2, <2>1 DEF Output!Send, OutputTypes
<1>3. CASE Output!SendInterrupted
  BY <1>3, OutputMessageType DEF Output!SendInterrupted, OutputTypes
<1>4. CASE Output!Restart
  <2>1. dropped' \subseteq OutputMessage
    BY <1>4, OutputMessageType DEF Output!Restart, OutputTypes
  <2>2. job' = job + 1 /\ step' = 0 /\ sending' = FALSE /\ UNCHANGED <<queue, received>>
    BY <1>4 DEF Output!Restart
  <2>3. job' \in Nat /\ step' \in Nat
    BY <2>2 DEF OutputTypes
  <2>4. sending' \in BOOLEAN
    BY <2>2
  <2>5. queue' \in Seq(OutputMessage) /\ received' \in Seq(OutputMessage)
    BY <2>2 DEF OutputTypes
  <2>6. QED BY <2>1, <2>3, <2>5, <2>4 DEF OutputTypes
<1>5. CASE Output!Receive
  <2>1. Head(queue) \in OutputMessage /\ queue' \in Seq(OutputMessage)
    BY <1>5, Removed DEF Output!Receive, OutputTypes
  <2>2. received' \in Seq(OutputMessage)
    BY <1>5, <2>1, Added DEF Output!Receive, OutputTypes
  <2>3. QED BY <1>5, <2>1, <2>2 DEF Output!Receive, OutputTypes
<1>6. CASE \/ \E wait \in BOOLEAN : Output!Get(wait)
           \/ Output!ReceiveNone \/ Output!ReceiveInterrupted
  BY <1>6 DEF Output!Get, Output!ReceiveNone, Output!ReceiveInterrupted, OutputTypes
<1>7. QED BY <1>1, <1>2, <1>3, <1>4, <1>5, <1>6 DEF Output!Next

(* A message that is known stays known; the step in msgsnd is known when   *)
(* the call is over.                                                       *)
LEMMA KnownStep ==
  ASSUME OutputTypes, Output!Next, NEW m \in OutputMessage
  PROVE  /\ Known(m) => Known(m)'
         /\ (Output!Send \/ Output!SendInterrupted) /\ m = Output!Message => Known(m)'
         /\ Output!Restart /\ sending /\ m = Output!Message => Known(m)'
<1>0. Output!Message \in OutputMessage
  BY OutputMessageType
<1>1. CASE Output!Send
  <2>1. queue' = Append(queue, Output!Message) /\ UNCHANGED <<received, dropped>>
    BY <1>1 DEF Output!Send
  <2>2. Holds(queue', m) <=> Holds(queue, m) \/ m = Output!Message
    BY <2>1, <1>0, HoldsAppend DEF OutputTypes
  <2>3. Known(m) \/ m = Output!Message => Known(m)'
    BY <2>1, <2>2 DEF Known, Holds
  <2>4. QED BY <2>3
<1>2. CASE Output!SendInterrupted \/ Output!Restart
  <2>1. UNCHANGED <<received, queue>> /\ dropped \subseteq dropped'
    BY <1>2 DEF Output!SendInterrupted, Output!Restart
  <2>2. ASSUME Output!SendInterrupted \/ sending  PROVE Output!Message \in dropped'
    BY <1>2, <2>2 DEF Output!SendInterrupted, Output!Restart
  <2>3. Output!Send => sending
    BY DEF Output!Send
  <2>4. Output!SendInterrupted \/ sending => (m = Output!Message => Known(m)')
    BY <2>2 DEF Known
  <2>5. Known(m) => Known(m)'
    BY <2>1 DEF Known, Holds
  <2>6. QED BY <2>3, <2>4, <2>5
<1>3. CASE Output!Receive
  <2>1. /\ queue # <<>> /\ received' = Append(received, Head(queue)) /\ queue' = Tail(queue)
        /\ UNCHANGED <<dropped, sending>>
    BY <1>3 DEF Output!Receive
  <2>2. Head(queue) \in OutputMessage
    BY <2>1, Removed DEF OutputTypes
  <2>3. Holds(received', m) <=> Holds(received, m) \/ m = Head(queue)
    BY <2>1, <2>2, HoldsAppend DEF OutputTypes
  <2>4. Holds(queue, m) <=> Holds(queue', m) \/ m = Head(queue)
    BY <2>1, HoldsTail DEF OutputTypes
  <2>5. Known(m) => Known(m)'
    BY <2>1, <2>3, <2>4 DEF Known, Holds
  <2>6. ~(Output!Send \/ Output!SendInterrupted \/ Output!Restart)
    BY <2>1, <1>3 DEF Output!Send, Output!SendInterrupted, Output!Restart, Output!Receive, OutputTypes
  <2>7. QED BY <2>5, <2>6
<1>4. CASE Output!Save \/ (\E wait \in BOOLEAN : Output!Get(wait))
           \/ Output!ReceiveNone \/ Output!ReceiveInterrupted
  <2>1. UNCHANGED <<received, queue, dropped, job>>
    BY <1>4 DEF Output!Save, Output!Get, Output!ReceiveNone, Output!ReceiveInterrupted
  <2>2. Known(m) => Known(m)'
    BY <2>1 DEF Known, Holds
  <2>3. CASE Output!Send \/ Output!SendInterrupted \/ Output!Restart
    BY <2>3, <1>1, <1>2
  <2>4. QED BY <2>2, <2>3
<1>5. QED BY <1>1, <1>2, <1>3, <1>4 DEF Output!Next

LEMMA OutputStep ==
  ASSUME OutputInv, Output!Next
  PROVE  OutputInv'
<1>1. OutputTypes /\ OutputTypes' /\ Output!Message \in OutputMessage
      /\ Output!Message[1] = job /\ Output!Message[2] = step
  BY OutputTypeStep, OutputMessageType DEF OutputInv
<1>2. ASSUME NEW n \in 1..step, StepKnown(n), job' = job  PROVE StepKnown(n)'
  <2>1. PICK m \in OutputMessage : Known(m) /\ m[1] = job /\ m[2] = n
    BY <1>2 DEF StepKnown
  <2>2. Known(m)'
    BY <1>1, <2>1, KnownStep
  <2>3. QED BY <1>2, <2>1, <2>2 DEF StepKnown
<1>3. CASE Output!Save
  <2>1. step' = step + 1 /\ job' = job /\ ~sending /\ sending' /\ step \in Nat
    BY <1>1, <1>3 DEF Output!Save, OutputTypes
  <2>2. ASSUME NEW n \in 1..step'  PROVE n = step' \/ StepKnown(n)'
    <3>1. n = step' \/ n \in 1..step
      BY <2>1
    <3>2. n \in 1..step => StepKnown(n)
      BY <2>1 DEF OutputInv
    <3>3. QED BY <2>1, <3>1, <3>2, <1>2
  <2>3. QED BY <1>1, <2>1, <2>2 DEF OutputInv
<1>4. CASE Output!Send \/ Output!SendInterrupted
  <2>1. UNCHANGED <<step, job>>
    BY <1>4 DEF Output!Send, Output!SendInterrupted
  <2>2. \A m \in OutputMessage : m = Output!Message => Known(m)'
    BY <1>1, <1>4, KnownStep
  <2>3. StepKnown(step)'
    <3>1. PICK m \in OutputMessage : m = Output!Message
      BY <1>1
    <3>2. QED BY <1>1, <2>1, <2>2, <3>1 DEF StepKnown
  <2>4. ASSUME NEW n \in 1..step'  PROVE StepKnown(n)'
    <3>1. CASE n = step
      BY <2>1, <2>3, <3>1
    <3>2. CASE n # step
      <4>1. StepKnown(n)
        BY <2>1, <3>2 DEF OutputInv
      <4>2. QED BY <1>2, <2>1, <4>1
    <3>3. QED BY <3>1, <3>2
  <2>5. QED BY <1>1, <2>4 DEF OutputInv
<1>5. CASE Output!Restart
  <2>1. step' = 0
    BY <1>5 DEF Output!Restart
  <2>2. QED BY <1>1, <2>1 DEF OutputInv
<1>6. CASE \/ \E wait \in BOOLEAN : Output!Get(wait)
           \/ Output!Receive \/ Output!ReceiveNone \/ Output!ReceiveInterrupted
  <2>1. UNCHANGED <<step, job, sending>>
    BY <1>6 DEF Output!Get, Output!Receive, Output!ReceiveNone, Output!ReceiveInterrupted
  <2>2. \A n \in 1..step : (n = step /\ sending) \/ StepKnown(n)
    BY DEF OutputInv
  <2>3. ASSUME NEW n \in 1..step'  PROVE (n = step' /\ sending') \/ StepKnown(n)'
    BY <1>2, <2>1, <2>2
  <2>4. QED BY <1>1, <2>3 DEF OutputInv
<1>7. QED BY <1>3, <1>4, <1>5, <1>6 DEF Output!Next

LEMMA OutputInvariant == PartSpec => []OutputInv
<1>1. PartInit => OutputInv
  <2> SUFFICES ASSUME PartInit  PROVE OutputInv
    OBVIOUS
  <2>1. job = 1 /\ step = 0 /\ sending = FALSE /\ queue = <<>> /\ received = <<>> /\ dropped = {}
    BY DEF PartInit, Output!Init
  <2>2. OutputTypes
    <3>1. queue \in Seq(OutputMessage) /\ received \in Seq(OutputMessage) /\ dropped \subseteq OutputMessage
      BY <2>1
    <3>2. job \in Nat /\ step \in Nat /\ sending \in BOOLEAN
      BY <2>1
    <3>3. QED BY <3>1, <3>2 DEF OutputTypes
  <2>3. QED BY <2>1, <2>2 DEF OutputInv
<1>2. OutputInv /\ [PartNext]_partVars => OutputInv'
  <2> SUFFICES ASSUME OutputInv, [PartNext]_partVars  PROVE OutputInv'
    OBVIOUS
  <2>1. CASE RunOutput
    BY <2>1, OutputStep DEF RunOutput
  <2>2. CASE ~RunOutput
    <3>1. UNCHANGED outputVars
      BY <2>2 DEF PartNext, RunLayers, RunGraph, RunCache, partVars
    <3>2. QED BY <3>1 DEF outputVars, OutputInv, OutputTypes, StepKnown, Known, Holds
  <2>3. QED BY <2>1, <2>2
<1>3. QED BY <1>1, <1>2, PTL DEF PartSpec

(* A step that save_output has done is with the client, in the queue or was*)
(* dropped by a signal or a kill, for any capacity of the queue and any    *)
(* number of steps, jobs and signals: a full queue alone loses nothing.    *)
THEOREM NoneVanishedCorrect == PartSpec => []NoneVanished
<1>1. OutputInv => NoneVanished
  <2> SUFFICES ASSUME OutputInv  PROVE NoneVanished
    OBVIOUS
  <2> DEFINE all == received \o queue
  <2>1. ASSUME NEW m \in OutputMessage, Known(m)
        PROVE  m \in dropped \cup {all[i] : i \in 1..Len(all)}
    <3>1. m \in dropped \/ Holds(all, m)
      BY <2>1, HoldsJoined DEF Known, OutputInv, OutputTypes
    <3> HIDE DEF all
    <3>2. QED BY <3>1 DEF Holds
  <2>2. ASSUME NEW n \in 1..step
        PROVE  (n = step /\ sending) \/
                 \E m \in dropped \cup {all[i] : i \in 1..Len(all)} : m[1] = job /\ m[2] = n
    <3> HIDE DEF all
    <3>1. CASE StepKnown(n)
      <4>1. PICK m \in OutputMessage : Known(m) /\ m[1] = job /\ m[2] = n
        BY <3>1 DEF StepKnown
      <4>2. QED BY <4>1, <2>1
    <3>2. QED BY <3>1 DEF OutputInv
  <2>3. QED BY <2>2 DEF NoneVanished, Output!NoneVanished
<1>2. QED BY <1>1, OutputInvariant, PTL

-----------------------------------------------------------------------------
(***************************************************************************)
(* What the op returns.  The work of a pass is what the stream holds and,  *)
(* after it, what the queued tasks will launch.  For each stage with tokens*)
(* it is a run of steps: 0 copies the tokens in, m computes layer m - 1,   *)
(* Layers + 1 copies the result out.  The steps before the run are done,   *)
(* and the buffer the next one reads holds the result of the last.         *)
(***************************************************************************)
StepRange == 0..Layers+1
Odd(k) == k % 2 = 1
Value == (Nat \X Int) \cup {Garbage}

WorkLen == Len(stream) + Len(pending)
Work == [i \in 1..WorkLen |->
           IF i <= Len(stream) THEN stream[i] ELSE Launch(RunnerOf(pending[i - Len(stream)]))]

CopyItem(kind, s, second) == [kind |-> kind, stage |-> s, second |-> second]
IsCopyIn(x, s) == x = CopyItem("in", s, FALSE)
IsCopyOut(x, s) == x = CopyItem("out", s, Odd(Layers))
IsLayer(x, s, k, p) ==
  /\ x.kind = "layer" /\ x.pack.layer = k
  /\ x.pack.in = [stage |-> s, second |-> Odd(k), pass |-> p]
  /\ x.pack.out = [stage |-> s, second |-> ~Odd(k), pass |-> p]

Is(x, s, m, p) ==
  \/ m = 0 /\ IsCopyIn(x, s)
  \/ m \in 1..Layers /\ IsLayer(x, s, m - 1, p)
  \/ m = Layers + 1 /\ IsCopyOut(x, s)

(* The first n items of w hold the steps d, ..., e - 1 of stage s in order.*)
Chain(w, n, s, d, e, p) ==
  /\ \A i \in 1..n : \A m \in StepRange : Is(w[i], s, m, p) => d <= m /\ m < e
  /\ \A i, j \in 1..n : \A m, l \in StepRange :
       i < j /\ Is(w[i], s, m, p) /\ Is(w[j], s, l, p) => m < l
  /\ \A m \in StepRange : d <= m /\ m < e => \E i \in 1..n : Is(w[i], s, m, p)

(* What the items after the first n, up to the o-th, add to stage s: no    *)
(* step, or step c.                                                        *)
AddNone(w, n, o, s, p) == \A j \in n+1..o : \A m \in StepRange : ~Is(w[j], s, m, p)
AddStep(w, n, o, s, c, p) ==
  /\ \E k \in n+1..o : Is(w[k], s, c, p)
  /\ \A j, k \in n+1..o : \A m, l \in StepRange : Is(w[j], s, m, p) /\ Is(w[k], s, l, p) => j = k
  /\ \A j \in n+1..o : \A m \in StepRange : Is(w[j], s, m, p) => m = c

(* The steps of a stage that the op has issued.                            *)
Committed(s) ==
  layer + (IF \/ at \in {"wait", "next"}
              \/ s = "encoder" /\ stage = "decoder"
              \/ at = "sync" /\ s = stage
             THEN 1 ELSE 0)
Issued(s) == IF at \in {"out", "head", "headsync"} THEN Layers + 2 ELSE Committed(s) + 1

Reached(s, d) ==
  /\ d \in 1..Layers+1 => buf[s][Odd(d - 1)] = <<pass, d - 1>>
  /\ d = Layers + 2 => out[s] = <<pass, Layers>>

DataTypes ==
  /\ buf \in [Stage -> [BOOLEAN -> Value]] /\ out \in [Stage -> Value]
  /\ flag = Odd(layer)
  /\ at = "wait" => layer = Layers - 1
  /\ at \in {"setup", "commit"} => Is(Launch(Runner), stage, layer + 1, pass)

ItemsInv ==
  \A i \in 1..WorkLen :
    Work[i].kind = "head" \/ \E s \in tokens, m \in StepRange : Is(Work[i], s, m, pass)

ProgressInv ==
  \A s \in tokens : \E d \in 0..Issued(s) :
    Chain(Work, WorkLen, s, d, Issued(s), pass) /\ Reached(s, d)

DataInv == DataTypes /\ ItemsInv /\ ProgressInv

LEMMA OddFacts ==
  /\ \A k \in Nat : Odd(k) \in BOOLEAN /\ (Odd(k + 1) <=> ~Odd(k))
  /\ ~Odd(0)
BY DEF Odd

LEMMA LayersFacts ==
  /\ Layers \in Nat /\ Layers >= 2 /\ StepRange \subseteq Nat
  /\ 0 \in StepRange /\ Layers + 1 \in StepRange
  /\ \A m : m \in StepRange <=> m \in Nat /\ m <= Layers + 1
BY LayersAssumption DEF StepRange

LEMMA IsKind ==
  ASSUME NEW x, NEW s, NEW p
  PROVE  /\ IsCopyIn(x, s) => x.kind = "in" /\ x.stage = s
         /\ IsCopyOut(x, s) => x.kind = "out" /\ x.stage = s
         /\ \A k : IsLayer(x, s, k, p) => x.kind = "layer" /\ x.pack.layer = k /\ x.pack.in.stage = s
BY DEF IsCopyIn, IsCopyOut, IsLayer, CopyItem

(* An item is one step of one stage.                                       *)
LEMMA IsOne ==
  ASSUME NEW x, NEW s, NEW t, NEW m \in StepRange, NEW l \in StepRange, NEW p,
         Is(x, s, m, p), Is(x, t, l, p)
  PROVE  s = t /\ m = l
<1>1. CASE x.kind = "in"
  BY <1>1, IsKind DEF Is
<1>2. CASE x.kind = "out"
  BY <1>2, IsKind DEF Is
<1>3. CASE x.kind = "layer"
  <2>1. x.pack.layer = m - 1 /\ x.pack.in.stage = s
    BY <1>3, IsKind DEF Is
  <2>2. x.pack.layer = l - 1 /\ x.pack.in.stage = t
    BY <1>3, IsKind DEF Is
  <2>3. m \in Nat /\ l \in Nat
    BY LayersFacts
  <2>4. QED BY <2>1, <2>2, <2>3
<1>4. QED BY <1>1, <1>2, <1>3, IsKind DEF Is

(* Items are added behind the run: none of the stage, or its next step.    *)
LEMMA ChainGrow ==
  ASSUME NEW n \in Nat, NEW o \in Nat, n <= o, NEW w, NEW v, NEW s, NEW p, NEW e \in Nat, NEW f \in Nat,
         NEW d \in 0..e, \A i \in 1..n : v[i] = w[i], Chain(w, n, s, d, e, p),
         (f = e /\ AddNone(v, n, o, s, p)) \/ (f = e + 1 /\ AddStep(v, n, o, s, e, p))
  PROVE  Chain(v, o, s, d, f, p)
<1>0. e <= f /\ d <= e /\ d \in Nat /\ \A m \in StepRange : m \in Nat
  BY LayersFacts
<1>1. \A i \in 1..o : i \in 1..n \/ i \in n+1..o
  OBVIOUS
<1>2. ASSUME NEW i \in 1..o, NEW m \in StepRange, Is(v[i], s, m, p)
      PROVE  d <= m /\ m < f /\ (i \in 1..n => m < e)
  <2>1. CASE i \in 1..n
    <3>1. d <= m /\ m < e
      BY <1>2, <2>1 DEF Chain
    <3>2. QED BY <1>0, <3>1
  <2>2. CASE i \in n+1..o
    <3>1. m = e /\ f = e + 1
      BY <1>2, <2>2 DEF AddNone, AddStep
    <3>2. QED BY <1>0, <3>1, <2>2
  <2>3. QED BY <1>1, <2>1, <2>2
<1>3. ASSUME NEW i \in 1..o, NEW j \in 1..o, NEW m \in StepRange, NEW l \in StepRange,
             i < j, Is(v[i], s, m, p), Is(v[j], s, l, p)
      PROVE  m < l
  <2>1. CASE j \in 1..n
    <3>1. i \in 1..n
      BY <1>3, <2>1
    <3>2. QED BY <1>3, <2>1, <3>1 DEF Chain
  <2>2. CASE j \in n+1..o
    <3>1. l = e /\ f = e + 1
      BY <1>3, <2>2 DEF AddNone, AddStep
    <3>2. i \in 1..n
      <4>1. i \in n+1..o => i = j
        BY <1>3, <2>2, <3>1 DEF AddStep
      <4>2. QED BY <4>1, <1>1, <1>3
    <3>3. QED BY <1>2, <1>3, <3>1, <3>2
  <2>3. QED BY <1>1, <2>1, <2>2
<1>4. ASSUME NEW m \in StepRange, d <= m, m < f  PROVE \E i \in 1..o : Is(v[i], s, m, p)
  <2>1. CASE m < e
    <3>1. PICK i \in 1..n : Is(w[i], s, m, p)
      BY <1>4, <2>1 DEF Chain
    <3>2. i \in 1..o
      OBVIOUS
    <3>3. QED BY <3>1, <3>2
  <2>2. CASE ~(m < e)
    <3>1. m = e /\ f = e + 1
      BY <1>0, <1>4, <2>2
    <3>2. PICK k \in n+1..o : Is(v[k], s, e, p)
      BY <3>1 DEF AddStep
    <3>3. k \in 1..o
      OBVIOUS
    <3>4. QED BY <3>1, <3>2, <3>3
  <2>3. QED BY <2>1, <2>2
<1>5. QED BY <1>2, <1>3, <1>4 DEF Chain

(* The first item leaves: it is the first step of the run, or of no step   *)
(* of the stage.                                                           *)
LEMMA ChainTail ==
  ASSUME NEW n \in Nat, 1 <= n, NEW w, NEW v, NEW s, NEW p, NEW e \in Nat, NEW d \in 0..e,
         \A i \in 1..n-1 : v[i] = w[i + 1], Chain(w, n, s, d, e, p)
  PROVE  /\ \A m \in StepRange : Is(w[1], s, m, p) =>
              m = d /\ d < e /\ Chain(v, n - 1, s, d + 1, e, p)
         /\ (\A m \in StepRange : ~Is(w[1], s, m, p)) => Chain(v, n - 1, s, d, e, p)
<1>0. d \in Nat /\ \A m \in StepRange : m \in Nat
  BY LayersFacts
<1>1. \A i \in 1..n-1 : i + 1 \in 1..n /\ 1 < i + 1
  OBVIOUS
<1>2. 1 \in 1..n /\ \A i \in 1..n : i = 1 \/ (1 < i /\ i - 1 \in 1..n-1 /\ v[i - 1] = w[i])
  <2>1. \A i \in 1..n : i = 1 \/ (1 < i /\ i - 1 \in 1..n-1 /\ (i - 1) + 1 = i)
    OBVIOUS
  <2>2. QED BY <2>1
<1>3. ASSUME NEW m \in StepRange, Is(w[1], s, m, p)
      PROVE  m = d /\ d < e /\ Chain(v, n - 1, s, d + 1, e, p)
  <2>1. d <= m /\ m < e
    BY <1>2, <1>3 DEF Chain
  <2>2. d \in StepRange
    BY <1>0, <2>1, LayersFacts
  <2>3. PICK i \in 1..n : Is(w[i], s, d, p)
    BY <1>0, <2>1, <2>2 DEF Chain
  <2>4. i = 1
    <3>1. 1 < i => m < d
      BY <1>2, <1>3, <2>2, <2>3 DEF Chain
    <3>2. QED BY <1>0, <1>2, <2>1, <3>1
  <2>5. m = d
    BY <1>3, <2>2, <2>3, <2>4, IsOne
  <2>6. \A j \in 1..n-1 : \A l \in StepRange : Is(v[j], s, l, p) => d < l /\ l < e
    <3>1. ASSUME NEW j \in 1..n-1, NEW l \in StepRange, Is(v[j], s, l, p)  PROVE d < l /\ l < e
      <4>1. j + 1 \in 1..n /\ 1 < j + 1 /\ Is(w[j + 1], s, l, p)
        BY <1>1, <3>1
      <4>2. QED BY <4>1, <1>2, <1>3, <2>5 DEF Chain
    <3>2. QED BY <3>1
  <2>7. \A j, k \in 1..n-1 : \A l, r \in StepRange :
          j < k /\ Is(v[j], s, l, p) /\ Is(v[k], s, r, p) => l < r
    <3>1. ASSUME NEW j \in 1..n-1, NEW k \in 1..n-1, NEW l \in StepRange, NEW r \in StepRange,
                 j < k, Is(v[j], s, l, p), Is(v[k], s, r, p)
          PROVE  l < r
      <4>1. /\ j + 1 \in 1..n /\ k + 1 \in 1..n /\ j + 1 < k + 1
            /\ Is(w[j + 1], s, l, p) /\ Is(w[k + 1], s, r, p)
        BY <1>1, <3>1
      <4>2. QED BY <4>1 DEF Chain
    <3>2. QED BY <3>1
  <2>8. \A l \in StepRange : d + 1 <= l /\ l < e => \E j \in 1..n-1 : Is(v[j], s, l, p)
    <3>1. ASSUME NEW l \in StepRange, d + 1 <= l, l < e  PROVE \E j \in 1..n-1 : Is(v[j], s, l, p)
      <4>1. d <= l /\ d # l
        BY <1>0, <3>1
      <4>2. PICK j \in 1..n : Is(w[j], s, l, p)
        BY <3>1, <4>1 DEF Chain
      <4>3. j # 1
        BY <4>1, <4>2, <1>3, <2>5, IsOne
      <4>4. QED BY <4>2, <4>3, <1>2
    <3>2. QED BY <3>1
  <2>9. \A l \in StepRange : d < l => d + 1 <= l
    BY <1>0
  <2>10. QED BY <2>1, <2>5, <2>6, <2>7, <2>8, <2>9 DEF Chain
<1>4. ASSUME \A m \in StepRange : ~Is(w[1], s, m, p)  PROVE Chain(v, n - 1, s, d, e, p)
  <2>1. \A j \in 1..n-1 : \A l \in StepRange : Is(v[j], s, l, p) => d <= l /\ l < e
    BY <1>1 DEF Chain
  <2>2. \A j, k \in 1..n-1 : \A l, r \in StepRange :
          j < k /\ Is(v[j], s, l, p) /\ Is(v[k], s, r, p) => l < r
    <3>1. ASSUME NEW j \in 1..n-1, NEW k \in 1..n-1, NEW l \in StepRange, NEW r \in StepRange,
                 j < k, Is(v[j], s, l, p), Is(v[k], s, r, p)
          PROVE  l < r
      <4>1. /\ j + 1 \in 1..n /\ k + 1 \in 1..n /\ j + 1 < k + 1
            /\ Is(w[j + 1], s, l, p) /\ Is(w[k + 1], s, r, p)
        BY <1>1, <3>1
      <4>2. QED BY <4>1 DEF Chain
    <3>2. QED BY <3>1
  <2>3. \A l \in StepRange : d <= l /\ l < e => \E j \in 1..n-1 : Is(v[j], s, l, p)
    <3>1. ASSUME NEW l \in StepRange, d <= l, l < e  PROVE \E j \in 1..n-1 : Is(v[j], s, l, p)
      <4>1. PICK j \in 1..n : Is(w[j], s, l, p)
        BY <3>1 DEF Chain
      <4>2. QED BY <4>1, <1>2, <1>4
    <3>2. QED BY <3>1
  <2>4. QED BY <2>1, <2>2, <2>3 DEF Chain
<1>5. QED BY <1>3, <1>4

-----------------------------------------------------------------------------
(* What each action does to the work.                                      *)
LEMMA WorkAt ==
  ASSUME TypeInv
  PROVE  /\ WorkLen \in Nat /\ Len(stream) \in Nat /\ Len(pending) \in Nat
         /\ WorkLen = Len(stream) + Len(pending)
         /\ \A i \in 1..Len(stream) : i \in 1..WorkLen /\ Work[i] = stream[i]
         /\ \A i \in 1..Len(pending) :
              Len(stream) + i \in 1..WorkLen /\ Work[Len(stream) + i] = Launch(RunnerOf(pending[i]))
         /\ \A i \in 1..WorkLen : i \in 1..Len(stream) \/ i - Len(stream) \in 1..Len(pending)
<1>1. Len(stream) \in Nat /\ Len(pending) \in Nat /\ WorkLen = Len(stream) + Len(pending)
  BY DEF TypeInv, WorkLen
<1>2. \A i \in 1..WorkLen : Work[i] =
        IF i <= Len(stream) THEN stream[i] ELSE Launch(RunnerOf(pending[i - Len(stream)]))
  BY DEF Work
<1>3. \A i \in 1..Len(stream) : i \in 1..WorkLen /\ i <= Len(stream)
  BY <1>1
<1>4. \A i \in 1..Len(pending) :
        /\ Len(stream) + i \in 1..WorkLen /\ ~(Len(stream) + i <= Len(stream))
        /\ Len(stream) + i - Len(stream) = i
  BY <1>1
<1>5. \A i \in 1..WorkLen : i \in 1..Len(stream) \/ i - Len(stream) \in 1..Len(pending)
  BY <1>1
<1>6. QED BY <1>1, <1>2, <1>3, <1>4, <1>5

LEMMA WorkAtNext ==
  ASSUME TypeInv'
  PROVE  /\ WorkLen' \in Nat /\ Len(stream') \in Nat /\ Len(pending') \in Nat
         /\ WorkLen' = Len(stream') + Len(pending')
         /\ \A i \in 1..Len(stream') : i \in 1..WorkLen' /\ Work'[i] = stream'[i]
         /\ \A i \in 1..Len(pending') :
              /\ Len(stream') + i \in 1..WorkLen'
              /\ Work'[Len(stream') + i] = [kind |-> "layer", pack |-> pack'[RunnerOf(pending'[i])]]
<1>1. Len(stream') \in Nat /\ Len(pending') \in Nat /\ WorkLen' = Len(stream') + Len(pending')
  BY DEF TypeInv, WorkLen
<1>2. \A i \in 1..WorkLen' : Work'[i] =
        IF i <= Len(stream') THEN stream'[i]
          ELSE [kind |-> "layer", pack |-> pack'[RunnerOf(pending'[i - Len(stream')])]]
  BY DEF Work, Launch, RunnerOf
<1>3. \A i \in 1..Len(stream') : i \in 1..WorkLen' /\ i <= Len(stream')
  BY <1>1
<1>4. \A i \in 1..Len(pending') :
        /\ Len(stream') + i \in 1..WorkLen' /\ ~(Len(stream') + i <= Len(stream'))
        /\ Len(stream') + i - Len(stream') = i
  BY <1>1
<1>5. \A i \in 1..Len(stream') : Work'[i] = stream'[i]
  BY <1>2, <1>3
<1>6. \A i \in 1..Len(pending') :
        Work'[Len(stream') + i] = [kind |-> "layer", pack |-> pack'[RunnerOf(pending'[i])]]
  BY <1>2, <1>4
<1>7. QED BY <1>1, <1>3, <1>4, <1>5, <1>6

(* Neither a binding nor a set-up changes what is queued.                  *)
LEMMA WorkSame ==
  ASSUME QueueInv, TypeInv', [Next]_vars, UNCHANGED <<pending, stream>>
  PROVE  WorkLen' = WorkLen /\ \A i \in 1..WorkLen : Work'[i] = Work[i]
<1>1. TypeInv
  BY DEF QueueInv
<1>2. \A i \in 1..Len(pending) :
        [kind |-> "layer", pack |-> pack'[RunnerOf(pending[i])]] = Launch(RunnerOf(pending[i]))
  BY <1>1, StablePack DEF Launch, TypeInv
<1>3. WorkLen' = WorkLen
  BY <1>1, WorkAt, WorkAtNext
<1>4. ASSUME NEW i \in 1..WorkLen  PROVE Work'[i] = Work[i]
  <2>1. CASE i \in 1..Len(stream)
    BY <2>1, <1>1, WorkAt, WorkAtNext
  <2>2. CASE i - Len(stream) \in 1..Len(pending)
    <3>1. PICK j \in 1..Len(pending) : j = i - Len(stream)
      BY <2>2
    <3>2. i = Len(stream) + j
      BY <3>1, <1>1, WorkAt
    <3>3. Work[i] = Launch(RunnerOf(pending[j])) /\
          Work'[i] = [kind |-> "layer", pack |-> pack'[RunnerOf(pending[j])]]
      BY <3>2, <1>1, WorkAt, WorkAtNext
    <3>4. QED BY <3>3, <1>2
  <2>3. QED BY <1>1, <2>1, <2>2, WorkAt
<1>5. QED BY <1>3, <1>4

(* The worker moves an item of the work from the queue to the stream.      *)
LEMMA WorkMoved ==
  ASSUME QueueInv, TypeInv', WorkerExecute
  PROVE  WorkLen' = WorkLen /\ \A i \in 1..WorkLen : Work'[i] = Work[i]
<1>1. TypeInv
  BY DEF QueueInv
<1>2. /\ pending # <<>> /\ pending' = Tail(pending) /\ pack' = pack
      /\ stream' = Append(stream, Launch(<<Head(pending)[1], Head(pending)[2]>>))
  BY DEF WorkerExecute, Executor!RunNext
<1>3. Launch(<<Head(pending)[1], Head(pending)[2]>>) = Launch(RunnerOf(pending[1]))
  BY <1>1, <1>2, Removed DEF RunnerOf, TypeInv
<1>4. /\ Len(pending') = Len(pending) - 1 /\ \A i \in 1..Len(pending') : pending'[i] = pending[i + 1]
      /\ Len(pending) >= 1
  BY <1>1, <1>2 DEF TypeInv
<1>5. /\ Len(stream') = Len(stream) + 1 /\ stream'[Len(stream) + 1] = Launch(RunnerOf(pending[1]))
      /\ \A i \in 1..Len(stream) : stream'[i] = stream[i]
  BY <1>1, <1>2, <1>3 DEF TypeInv
<1>6. WorkLen' = WorkLen
  BY <1>1, <1>4, <1>5, WorkAt, WorkAtNext
<1>7. ASSUME NEW i \in 1..WorkLen  PROVE Work'[i] = Work[i]
  <2>1. CASE i \in 1..Len(stream)
    <3>1. i \in 1..Len(stream')
      BY <2>1, <1>1, <1>5, WorkAt
    <3>2. Work'[i] = stream'[i] /\ Work[i] = stream[i]
      BY <2>1, <3>1, <1>1, WorkAt, WorkAtNext
    <3>3. QED BY <2>1, <3>2, <1>5
  <2>2. CASE i = Len(stream) + 1
    <3>1. 1 \in 1..Len(pending) /\ i \in 1..Len(stream')
      BY <2>2, <1>1, <1>4, <1>5, WorkAt
    <3>2. Work'[i] = stream'[i] /\ Work[i] = Launch(RunnerOf(pending[1]))
      BY <2>2, <3>1, <1>1, WorkAt, WorkAtNext
    <3>3. QED BY <2>2, <3>2, <1>5
  <2>3. CASE i - Len(stream) \in 1..Len(pending) /\ i # Len(stream) + 1
    <3>1. PICK j \in 1..Len(pending) : j = i - Len(stream)
      BY <2>3
    <3>2. i = Len(stream) + j /\ j - 1 \in 1..Len(pending') /\ i = Len(stream') + (j - 1) /\ (j - 1) + 1 = j
      BY <3>1, <2>3, <1>1, <1>4, <1>5, WorkAt
    <3>3. Work[i] = Launch(RunnerOf(pending[j])) /\
          Work'[i] = [kind |-> "layer", pack |-> pack'[RunnerOf(pending'[j - 1])]]
      BY <3>2, <1>1, WorkAt, WorkAtNext
    <3>4. pending'[j - 1] = pending[j]
      BY <3>2, <1>4
    <3>5. QED BY <3>3, <3>4, <1>2 DEF Launch
  <2>4. QED BY <1>1, <2>1, <2>2, <2>3, WorkAt
<1>8. QED BY <1>6, <1>7

(* A commit adds what the runner is bound to.                              *)
LEMMA WorkCommitted ==
  ASSUME QueueInv, TypeInv', Commit \/ CommitBlocking
  PROVE  /\ WorkLen' = WorkLen + 1 /\ Work'[WorkLen + 1] = Launch(Runner)
         /\ \A i \in 1..WorkLen : Work'[i] = Work[i]
<1>1. TypeInv
  BY DEF QueueInv
<1>2. CASE Commit
  <2>1. pending' = Append(pending, <<stage, layer, pass>>) /\ UNCHANGED <<stream, pack>>
    BY <1>2 DEF Commit, Executor!Submit
  <2>2. RunnerOf(<<stage, layer, pass>>) = Runner
    BY DEF RunnerOf, Runner
  <2>3. /\ Len(pending') = Len(pending) + 1 /\ pending'[Len(pending) + 1] = <<stage, layer, pass>>
        /\ \A i \in 1..Len(pending) : pending'[i] = pending[i]
    BY <1>1, <2>1 DEF TypeInv
  <2>4. WorkLen' = WorkLen + 1 /\ Len(pending) + 1 \in 1..Len(pending') /\
        WorkLen + 1 = Len(stream') + (Len(pending) + 1)
    BY <1>1, <2>1, <2>3, WorkAt, WorkAtNext
  <2>5. Work'[WorkLen + 1] = Launch(Runner)
    <3>1. Work'[WorkLen + 1] = [kind |-> "layer", pack |-> pack'[RunnerOf(pending'[Len(pending) + 1])]]
      BY <2>4, WorkAtNext
    <3>2. QED BY <3>1, <2>1, <2>2, <2>3 DEF Launch
  <2>6. ASSUME NEW i \in 1..WorkLen  PROVE Work'[i] = Work[i]
    <3>1. CASE i \in 1..Len(stream)
      BY <3>1, <2>1, <1>1, WorkAt, WorkAtNext
    <3>2. CASE i - Len(stream) \in 1..Len(pending)
      <4>1. PICK j \in 1..Len(pending) : j = i - Len(stream)
        BY <3>2
      <4>2. i = Len(stream) + j /\ j \in 1..Len(pending') /\ i = Len(stream') + j
        BY <4>1, <2>1, <2>3, <1>1, WorkAt
      <4>3. Work[i] = Launch(RunnerOf(pending[j])) /\
            Work'[i] = [kind |-> "layer", pack |-> pack'[RunnerOf(pending'[j])]]
        BY <4>2, <1>1, WorkAt, WorkAtNext
      <4>4. QED BY <4>3, <2>1, <2>3 DEF Launch
    <3>3. QED BY <1>1, <3>1, <3>2, WorkAt
  <2>7. QED BY <2>4, <2>5, <2>6
<1>3. CASE CommitBlocking
  <2>1. pending = <<>> /\ pending' = <<>> /\ stream' = Append(stream, Launch(Runner)) /\ pack' = pack
    BY <1>3 DEF CommitBlocking, Executor!RunInline
  <2>2. /\ Len(stream') = Len(stream) + 1 /\ stream'[Len(stream) + 1] = Launch(Runner)
        /\ \A i \in 1..Len(stream) : stream'[i] = stream[i]
    BY <1>1, <2>1 DEF TypeInv
  <2>3. Len(pending) = 0 /\ Len(pending') = 0
    BY <2>1
  <2>4. WorkLen = Len(stream) /\ WorkLen' = Len(stream') /\ WorkLen \in Nat
    BY <1>1, <2>3, WorkAt, WorkAtNext
  <2>5. QED BY <1>1, <2>2, <2>4, WorkAt, WorkAtNext
<1>4. QED BY <1>2, <1>3

(* With an empty queue the work is the stream.                             *)
LEMMA WorkStream ==
  ASSUME TypeInv, TypeInv', pending = <<>>, pending' = <<>>, NEW S, NEW q \in Seq(S), stream' = stream \o q
  PROVE  /\ WorkLen' = WorkLen + Len(q) /\ \A i \in 1..WorkLen : Work'[i] = Work[i]
         /\ \A i \in WorkLen+1..WorkLen' : i - WorkLen \in 1..Len(q) /\ Work'[i] = q[i - WorkLen]
         /\ \A i \in 1..Len(q) : WorkLen + i \in WorkLen+1..WorkLen' /\ Work'[WorkLen + i] = q[i]
<1>1. Len(pending) = 0 /\ Len(pending') = 0 /\ Len(q) \in Nat
  OBVIOUS
<1>2. stream \in Seq(StreamTask)
  BY DEF TypeInv
<1>3. /\ Len(stream') = Len(stream) + Len(q) /\ \A i \in 1..Len(stream) : stream'[i] = stream[i]
      /\ \A i \in 1..Len(q) : stream'[Len(stream) + i] = q[i]
  BY <1>1, <1>2
<1>4. WorkLen = Len(stream) /\ WorkLen' = Len(stream') /\ WorkLen \in Nat
  BY <1>1, WorkAt, WorkAtNext
<1>5. \A i \in 1..WorkLen : Work'[i] = Work[i]
  BY <1>1, <1>3, <1>4, WorkAt, WorkAtNext
<1>6. \A i \in 1..Len(q) : WorkLen + i \in WorkLen+1..WorkLen' /\ WorkLen + i \in 1..Len(stream')
  BY <1>1, <1>3, <1>4
<1>7. \A i \in 1..Len(q) : Work'[WorkLen + i] = q[i]
  BY <1>3, <1>4, <1>6, WorkAtNext
<1>8. \A i \in WorkLen+1..WorkLen' : i - WorkLen \in 1..Len(q) /\ i = WorkLen + (i - WorkLen)
  BY <1>1, <1>3, <1>4
<1>9. \A i \in WorkLen+1..WorkLen' : Work'[i] = q[i - WorkLen]
  BY <1>7, <1>8
<1>10. QED BY <1>3, <1>4, <1>5, <1>6, <1>7, <1>8, <1>9

(* The device takes the first item.                                        *)
LEMMA WorkDone ==
  ASSUME QueueInv, TypeInv', Device
  PROVE  /\ WorkLen >= 1 /\ WorkLen' = WorkLen - 1 /\ Work[1] = Head(stream)
         /\ \A i \in 1..WorkLen-1 : Work'[i] = Work[i + 1]
<1>1. TypeInv
  BY DEF QueueInv
<1>2. stream # <<>> /\ stream' = Tail(stream) /\ UNCHANGED <<pending, pack>>
  BY DEF Device, queueVars
<1>3. /\ Len(stream') = Len(stream) - 1 /\ \A i \in 1..Len(stream') : stream'[i] = stream[i + 1]
      /\ Len(stream) >= 1 /\ stream[1] = Head(stream)
  BY <1>1, <1>2 DEF TypeInv
<1>4. WorkLen' = WorkLen - 1 /\ WorkLen >= 1 /\ WorkLen \in Nat
  BY <1>1, <1>2, <1>3, WorkAt, WorkAtNext
<1>5. Work[1] = Head(stream)
  BY <1>1, <1>3, WorkAt
<1>6. ASSUME NEW i \in 1..WorkLen-1  PROVE Work'[i] = Work[i + 1]
  <2>1. CASE i \in 1..Len(stream')
    <3>1. i + 1 \in 1..Len(stream)
      BY <1>1, <1>3, <2>1, WorkAt
    <3>2. Work'[i] = stream'[i] /\ Work[i + 1] = stream[i + 1]
      BY <1>1, <2>1, <3>1, WorkAt, WorkAtNext
    <3>3. QED BY <1>3, <2>1, <3>2
  <2>2. CASE i \notin 1..Len(stream')
    <3>1. PICK j \in 1..Len(pending) : i = Len(stream') + j /\ i + 1 = Len(stream) + j
      <4>1. i - Len(stream') \in 1..Len(pending)
        BY <1>1, <1>3, <1>4, <2>2, WorkAt
      <4>2. i = Len(stream') + (i - Len(stream')) /\ i + 1 = Len(stream) + (i - Len(stream'))
        BY <1>1, <1>3, WorkAt
      <4>3. QED BY <4>1, <4>2
    <3>2. /\ Work[i + 1] = Launch(RunnerOf(pending[j]))
          /\ Work'[i] = [kind |-> "layer", pack |-> pack'[RunnerOf(pending'[j])]]
      BY <1>1, <1>2, <3>1, WorkAt, WorkAtNext
    <3>3. QED BY <1>2, <3>2 DEF Launch
  <2>3. QED BY <2>1, <2>2
<1>7. QED BY <1>4, <1>5, <1>6

-----------------------------------------------------------------------------
(* What each action does to the steps that are issued.                     *)
LEMMA IssuedType ==
  ASSUME TypeInv, NEW s \in Stage
  PROVE  Issued(s) \in Nat
<1>1. layer \in Nat /\ Layers \in Nat
  BY LayersFacts DEF TypeInv
<1>2. QED BY <1>1 DEF Issued, Committed

LEMMA IssuedSame ==
  ASSUME TypeInv, PlaceInv, NEW s \in tokens,
         \/ NextLayer \/ SkipStage \/ BlockingSync \/ Bind \/ Setup
         \/ WorkerExecute \/ Device \/ LmHead \/ HeadSync \/ UNCHANGED vars
  PROVE  Issued(s)' = Issued(s)
<1>0. layer \in Nat /\ s \in {"encoder", "decoder"} /\ stage \in {"encoder", "decoder"}
  BY LayersFacts DEF TypeInv, Stage
<1>1. CASE NextLayer
  <2>1. at = "next" /\ at' = "bind" /\ layer' = layer + 1 /\ stage' = "encoder"
    BY <1>1 DEF NextLayer
  <2>2. Committed(s) = layer + 1 /\ Committed(s)' = layer + 1 + 0
    BY <2>1 DEF Committed
  <2>3. QED BY <2>1, <2>2, <1>0 DEF Issued
<1>2. CASE SkipStage
  <2>1. at = "bind" /\ s # stage /\ layer' = layer
    BY <1>2 DEF SkipStage
  <2>2. \/ stage = "encoder" /\ stage' = "decoder" /\ at' = "bind" /\ s = "decoder"
        \/ stage = "decoder" /\ stage' = "decoder" /\ at' \in {"wait", "next"} /\ s = "encoder"
    BY <1>0, <1>2, <2>1 DEF SkipStage, StageDone
  <2>3. Committed(s)' = Committed(s)
    BY <2>1, <2>2 DEF Committed
  <2>4. QED BY <2>1, <2>2, <2>3 DEF Issued
<1>3. CASE BlockingSync
  <2>1. at = "sync" /\ layer' = layer
    BY <1>3 DEF BlockingSync
  <2>2. \/ stage = "encoder" /\ stage' = "decoder" /\ at' = "bind"
        \/ stage = "decoder" /\ stage' = "decoder" /\ at' \in {"wait", "next"}
    BY <1>0, <1>3 DEF BlockingSync, StageDone
  <2>3. Committed(s)' = Committed(s)
    BY <1>0, <2>1, <2>2 DEF Committed
  <2>4. QED BY <2>1, <2>2, <2>3 DEF Issued
<1>4. CASE Bind \/ Setup
  BY <1>4 DEF Bind, Setup, Issued, Committed
<1>5. CASE WorkerExecute \/ Device \/ UNCHANGED vars
  BY <1>5 DEF WorkerExecute, Device, vars, opVars, Issued, Committed
<1>6. CASE LmHead \/ HeadSync
  BY <1>6 DEF LmHead, HeadSync, Issued
<1>7. QED BY <1>1, <1>2, <1>3, <1>4, <1>5, <1>6

LEMMA IssuedCommit ==
  ASSUME TypeInv, PlaceInv, NEW s \in tokens, Commit \/ CommitBlocking
  PROVE  /\ s = stage => Issued(s) = layer + 1 /\ Issued(s)' = Issued(s) + 1
         /\ s # stage => Issued(s)' = Issued(s)
<1>0. layer \in Nat /\ s \in {"encoder", "decoder"} /\ stage \in {"encoder", "decoder"}
  <2>1. layer \in 0..Layers-1 /\ s \in Stage /\ stage \in Stage
    BY DEF TypeInv
  <2>2. QED BY <2>1 DEF Stage
<1>1. at = "commit" /\ layer' = layer
  BY DEF Commit, CommitBlocking
<1>2. s = stage => Committed(s) = layer + 0
  BY <1>0, <1>1 DEF Committed
<1>3. \/ at' = "sync" /\ stage' = stage
      \/ stage = "encoder" /\ stage' = "decoder" /\ at' = "bind"
      \/ stage = "decoder" /\ stage' = "decoder" /\ at' \in {"wait", "next"}
  BY <1>0 DEF Commit, CommitBlocking, StageDone
<1>4. s = stage => Committed(s)' = layer + 1
  BY <1>0, <1>1, <1>3 DEF Committed
<1>5. s # stage => Committed(s)' = Committed(s)
  BY <1>0, <1>1, <1>3 DEF Committed
<1>6. QED BY <1>0, <1>1, <1>2, <1>3, <1>4, <1>5 DEF Issued

LEMMA IssuedEnd ==
  ASSUME TypeInv, DataTypes, NEW s \in tokens, End
  PROVE  Issued(s) = Layers + 1 /\ Issued(s)' = Layers + 2
<1>1. at = "wait" /\ at' = "head" /\ layer = Layers - 1 /\ Layers \in Nat
  BY LayersFacts DEF End, DataTypes
<1>2. Committed(s) = Layers - 1 + 1
  BY <1>1 DEF Committed
<1>3. QED BY <1>1, <1>2 DEF Issued

-----------------------------------------------------------------------------
LEMMA Pair ==
  ASSUME NEW x, NEW y
  PROVE  LET q == <<x>> \o <<y>> IN Len(q) = 2 /\ q[1] = x /\ q[2] = y
<1>1. <<x>> \in Seq({x, y}) /\ <<y>> \in Seq({x, y})
  OBVIOUS
<1>2. Len(<<x>>) = 1 /\ Len(<<y>>) = 1 /\ <<x>>[1] = x /\ <<y>>[1] = y
  OBVIOUS
<1>3. QED BY <1>1, <1>2

(* The copies of a pass: one for each stage with tokens.                   *)
LEMMA CopiesFacts ==
  ASSUME NEW kind, NEW second, NEW active \in SUBSET Stage
  PROVE  /\ \A i \in 1..Len(Copies(kind, second, active)) :
              \E s \in active : Copies(kind, second, active)[i] = CopyItem(kind, s, second)
         /\ \A s \in active : \E i \in 1..Len(Copies(kind, second, active)) :
              Copies(kind, second, active)[i] = CopyItem(kind, s, second)
         /\ \A i, j \in 1..Len(Copies(kind, second, active)) :
              Copies(kind, second, active)[i] = Copies(kind, second, active)[j] => i = j
<1> DEFINE x == CopyItem(kind, "encoder", second)
           y == CopyItem(kind, "decoder", second)
           q == Copies(kind, second, active)
<1>1. x # y
  <2>1. x.stage = "encoder" /\ y.stage = "decoder"
    BY DEF CopyItem
  <2>2. QED BY <2>1
<1>2. active \subseteq {"encoder", "decoder"}
  BY DEF Stage
<1>3. q = (IF "encoder" \in active THEN <<x>> ELSE <<>>) \o (IF "decoder" \in active THEN <<y>> ELSE <<>>)
  BY DEF Copies, CopyItem
<1>4. CASE active = {"encoder", "decoder"}
  <2>1. q = <<x>> \o <<y>>
    BY <1>3, <1>4
  <2> HIDE DEF q
  <2>2. Len(q) = 2 /\ q[1] = x /\ q[2] = y
    BY <2>1, Pair
  <2>3. 1..Len(q) = {1, 2}
    BY <2>2
  <2>4. QED BY <1>1, <1>4, <2>2, <2>3 DEF q
<1>5. CASE active = {"encoder"}
  <2>1. q = <<x>>
    BY <1>3, <1>5
  <2> HIDE DEF q
  <2>2. 1..Len(q) = {1} /\ q[1] = x
    BY <2>1
  <2>3. QED BY <1>5, <2>2 DEF q
<1>6. CASE active = {"decoder"}
  <2>1. q = <<y>>
    BY <1>3, <1>6
  <2> HIDE DEF q
  <2>2. 1..Len(q) = {1} /\ q[1] = y
    BY <2>1
  <2>3. QED BY <1>6, <2>2 DEF q
<1>7. CASE active = {}
  <2>1. q = <<>>
    BY <1>3, <1>7
  <2> HIDE DEF q
  <2>2. 1..Len(q) = {}
    BY <2>1
  <2>3. QED BY <1>7, <2>2 DEF q
<1>8. active = {"encoder", "decoder"} \/ active = {"encoder"} \/ active = {"decoder"} \/ active = {}
  BY <1>2
<1>9. QED BY <1>4, <1>5, <1>6, <1>7, <1>8

(* A copy is the first or the last step of its stage.                      *)
LEMMA CopyIs ==
  ASSUME NEW s, NEW t, NEW m \in StepRange, NEW p
  PROVE  /\ Is(CopyItem("in", s, FALSE), t, m, p) <=> t = s /\ m = 0
         /\ Is(CopyItem("out", s, Odd(Layers)), t, m, p) <=> t = s /\ m = Layers + 1
<1>1. Is(CopyItem("in", s, FALSE), s, 0, p) /\ Is(CopyItem("out", s, Odd(Layers)), s, Layers + 1, p)
  BY DEF Is, IsCopyIn, IsCopyOut
<1>2. 0 \in StepRange /\ Layers + 1 \in StepRange
  BY LayersFacts
<1>3. QED BY <1>1, <1>2, IsOne

-----------------------------------------------------------------------------
(* The device does a step of a stage: it reads the buffer the step before  *)
(* wrote, and writes one of that stage only.                               *)
LEMMA ReachedKept ==
  ASSUME NEW s, NEW d, pass' = pass, buf'[s] = buf[s], out'[s] = out[s], Reached(s, d)
  PROVE  Reached(s, d)'
BY DEF Reached

LEMMA Written ==
  ASSUME DataTypes, NEW s \in Stage
  PROVE  /\ \A b \in BOOLEAN : \A x : buf' = [buf EXCEPT ![s][b] = x] =>
              buf'[s][b] = x /\ \A t \in Stage : t # s => buf'[t] = buf[t]
         /\ \A x : out' = [out EXCEPT ![s] = x] =>
              out'[s] = x /\ \A t \in Stage : t # s => out'[t] = out[t]
BY DEF DataTypes

LEMMA DeviceStep ==
  ASSUME TypeInv, LiveInv, DataTypes, Device, NEW s \in Stage, NEW m \in StepRange,
         Is(Head(stream), s, m, pass), Reached(s, m)
  PROVE  /\ Reached(s, m + 1)'
         /\ \A t \in Stage : t # s => buf'[t] = buf[t] /\ out'[t] = out[t]
<1> DEFINE x == Head(stream)
<1>0. pass' = pass /\ pass \in Nat /\ m \in Nat /\ Layers \in Nat /\ Layers >= 2
  BY LayersFacts DEF Device, opVars, TypeInv
<1>1. CASE m = 0 /\ IsCopyIn(x, s)
  <2>1. x.kind = "in" /\ x.stage = s /\ x.second = FALSE
    BY <1>1 DEF IsCopyIn, CopyItem
  <2>2. buf' = [buf EXCEPT ![s][FALSE] = <<pass, 0>>] /\ out' = out
    BY <2>1 DEF Device, DeviceIn, DeviceOut
  <2>3. buf'[s][FALSE] = <<pass, 0>> /\ \A t \in Stage : t # s => buf'[t] = buf[t]
    BY <2>2, Written
  <2>4. Odd(0) = FALSE
    BY DEF Odd
  <2>5. Reached(s, 1)'
    <3>1. 1 # Layers + 2 /\ 1 - 1 = 0
      BY <1>0
    <3>2. QED BY <1>0, <2>3, <2>4, <3>1 DEF Reached
  <2>6. QED BY <1>1, <2>2, <2>3, <2>5
<1>2. CASE m \in 1..Layers /\ IsLayer(x, s, m - 1, pass)
  <2> DEFINE p == x.pack
  <2>1. /\ x.kind = "layer" /\ p.layer = m - 1
        /\ p.in = [stage |-> s, second |-> Odd(m - 1), pass |-> pass]
        /\ p.out = [stage |-> s, second |-> ~Odd(m - 1), pass |-> pass]
    BY <1>2 DEF IsLayer
  <2>2. p.in.pass = pass /\ p.in.stage = s /\ p.in.second = Odd(m - 1) /\ p.out.stage = s
        /\ p.out.second = ~Odd(m - 1)
    BY <2>1
  <2>3. Live(p)
    <3>1. stream # <<>>
      BY DEF Device
    <3>2. LiveTask(x)
      BY <3>1, Removed DEF LiveInv, TypeInv
    <3>3. QED BY <2>1, <3>2 DEF LiveTask
  <2>4. buf[s][Odd(m - 1)] = <<pass, m - 1>>
    <3>1. m \in 1..Layers+1
      BY <1>0, <1>2
    <3>2. QED BY <3>1 DEF Reached
  <2>5. Results(p) = {<<pass, m>>}
    <3>1. p.layer + 1 = m
      BY <1>0, <2>1
    <3>2. QED BY <2>1, <2>2, <2>3, <2>4, <3>1 DEF Results
  <2>6. Odd(m - 1) \in BOOLEAN /\ Odd(m) = ~Odd(m - 1)
    <3>1. m - 1 \in Nat /\ (m - 1) + 1 = m
      BY <1>0, <1>2
    <3>2. Odd(m - 1) \in BOOLEAN /\ (Odd((m - 1) + 1) <=> ~Odd(m - 1))
      BY <3>1, OddFacts
    <3>3. (Odd(m) <=> ~Odd(m - 1)) /\ Odd(m) \in BOOLEAN
      BY <3>1, <3>2 DEF Odd
    <3>4. QED BY <3>2, <3>3
  <2>7. buf' = [buf EXCEPT ![s][~Odd(m - 1)] = <<pass, m>>] /\ out' = out
    <3>1. DeviceLayer(p)
      BY <2>1 DEF Device, DeviceIn, DeviceOut
    <3> HIDE DEF p
    <3>2. PICK y \in Results(p) : buf' = [buf EXCEPT ![p.out.stage][p.out.second] = y]
      BY <3>1 DEF DeviceLayer
    <3>3. y = <<pass, m>>
      BY <2>5
    <3>4. out' = out
      BY <3>1 DEF DeviceLayer
    <3>5. QED BY <2>2, <3>2, <3>3, <3>4
  <2>8. buf'[s][Odd(m)] = <<pass, m>> /\ \A t \in Stage : t # s => buf'[t] = buf[t]
    <3>1. Odd(m) \in BOOLEAN /\ buf' = [buf EXCEPT ![s][Odd(m)] = <<pass, m>>]
      BY <2>6, <2>7
    <3>2. PICK b \in BOOLEAN : b = Odd(m)
      BY <3>1
    <3>3. buf' = [buf EXCEPT ![s][b] = <<pass, m>>]
      BY <3>1, <3>2
    <3>4. buf'[s][b] = <<pass, m>> /\ \A t \in Stage : t # s => buf'[t] = buf[t]
      BY <3>2, <3>3 DEF DataTypes
    <3>5. QED BY <3>2, <3>4
  <2>9. Reached(s, m + 1)'
    <3>1. m + 1 # Layers + 2 /\ (m + 1) - 1 = m
      BY <1>0, <1>2
    <3>2. QED BY <1>0, <2>8, <3>1 DEF Reached
  <2>10. QED BY <2>7, <2>8, <2>9
<1>3. CASE m = Layers + 1 /\ IsCopyOut(x, s)
  <2>1. x.kind = "out" /\ x.stage = s /\ x.second = Odd(Layers)
    BY <1>3 DEF IsCopyOut, CopyItem
  <2>2. out' = [out EXCEPT ![s] = buf[s][Odd(Layers)]] /\ buf' = buf
    BY <2>1 DEF Device, DeviceIn, DeviceOut
  <2>3. m \in 1..Layers+1 /\ m - 1 = Layers
    BY <1>0, <1>3
  <2>4. buf[s][Odd(Layers)] = <<pass, Layers>>
    BY <2>3 DEF Reached
  <2>5. out'[s] = <<pass, Layers>> /\ \A t \in Stage : t # s => out'[t] = out[t]
    BY <2>2, <2>4, Written
  <2>6. Reached(s, m + 1)'
    <3>1. m + 1 \notin 1..Layers+1 /\ m + 1 = Layers + 2
      BY <1>0, <1>3
    <3>2. QED BY <1>0, <2>5, <3>1 DEF Reached
  <2>7. QED BY <2>2, <2>5, <2>6
<1>4. QED BY <1>1, <1>2, <1>3 DEF Is

-----------------------------------------------------------------------------
(* The buffers hold values, and the runner of the call is bound to them.   *)
LEMMA ValueStep ==
  ASSUME TypeInv, DataTypes, [Next]_vars
  PROVE  buf' \in [Stage -> [BOOLEAN -> Value]] /\ out' \in [Stage -> Value]
<1>0. buf \in [Stage -> [BOOLEAN -> Value]] /\ out \in [Stage -> Value] /\ pass \in Nat
  BY DEF DataTypes, TypeInv
<1>1. CASE Begin
  <2>1. Garbage \in Value
    BY DEF Value
  <2>2. QED BY <1>1, <2>1 DEF Begin
<1>2. CASE Device
  <2> DEFINE x == Head(stream)
  <2>1. x \in StreamTask
    BY <1>2, Removed DEF Device, TypeInv
  <2>2. CASE DeviceIn(x)
    <3>1. <<pass, 0>> \in Value
      BY <1>0 DEF Value
    <3>2. QED BY <1>0, <2>2, <3>1 DEF DeviceIn
  <2>3. CASE x.kind = "layer" /\ DeviceLayer(x.pack)
    <3>1. x.pack.layer \in Int
      BY <2>1, <2>3 DEF StreamTask, CopyTask, LayerTask, HeadTask, Pack
    <3>2. Results(x.pack) \subseteq Value
      BY <1>0, <3>1 DEF Results, Value
    <3> HIDE DEF x
    <3>3. PICK y \in Results(x.pack) : buf' = [buf EXCEPT ![x.pack.out.stage][x.pack.out.second] = y]
      BY <2>3 DEF DeviceLayer
    <3>4. y \in Value
      BY <3>2
    <3>5. QED BY <1>0, <2>3, <3>3, <3>4 DEF DeviceLayer
  <2>4. CASE DeviceOut(x)
    <3>1. x.stage \in Stage /\ x.second \in BOOLEAN
      BY <2>1, <2>4 DEF DeviceOut, StreamTask, CopyTask, LayerTask, HeadTask
    <3>2. QED BY <1>0, <2>4, <3>1 DEF DeviceOut
  <2>5. CASE UNCHANGED <<buf, out>>
    BY <1>0, <2>5
  <2>6. QED BY <1>2, <2>2, <2>3, <2>4, <2>5 DEF Device
<1>3. CASE ~(Begin \/ Device)
  BY <1>0, <1>3 DEF Next, vars, NextLayer, SkipStage, BlockingSync, Bind, Setup, Commit, CommitBlocking,
     End, LmHead, HeadSync, WorkerExecute
<1>4. QED BY <1>1, <1>2, <1>3

LEMMA FlagStep ==
  ASSUME TypeInv, DataTypes, [Next]_vars
  PROVE  flag' = Odd(layer')
<1>1. CASE Begin
  <2>1. Odd(0) = FALSE
    BY DEF Odd
  <2>2. QED BY <1>1, <2>1 DEF Begin
<1>2. CASE NextLayer
  <2>1. layer \in Nat /\ layer' = layer + 1 /\ flag' = ~flag /\ flag = Odd(layer)
    BY <1>2 DEF NextLayer, TypeInv, DataTypes
  <2>2. Odd(layer) \in BOOLEAN /\ (Odd(layer + 1) <=> ~Odd(layer))
    BY <2>1, OddFacts
  <2>3. Odd(layer + 1) = ~Odd(layer)
    BY <2>2 DEF Odd
  <2>4. QED BY <2>1, <2>3
<1>3. CASE ~(Begin \/ NextLayer)
  <2>1. UNCHANGED <<flag, layer>>
    BY <1>3 DEF Next, vars, opVars, SkipStage, BlockingSync, Bind, Setup, Commit, CommitBlocking,
       End, LmHead, HeadSync, WorkerExecute, Device
  <2>2. QED BY <2>1 DEF DataTypes
<1>4. QED BY <1>1, <1>2, <1>3

LEMMA BoundStep ==
  ASSUME TypeInv, DataTypes, [Next]_vars, at' \in {"setup", "commit"}
  PROVE  Is(Launch(Runner), stage, layer + 1, pass)'
<1>0. layer \in Nat /\ layer + 1 \in 1..Layers /\ (layer + 1) - 1 = layer
  BY LayersFacts DEF TypeInv
<1>1. Runner \in Stage \X (0..Layers-1) /\ pack[Runner] \in Pack
  BY DEF TypeInv, Runner
<1>2. CASE Bind
  <2>1. /\ UNCHANGED <<stage, layer, pass>> /\ Runner' = Runner
        /\ pack'[Runner] = [layer |-> layer, in |-> Buffer(stage, flag), out |-> Buffer(stage, ~flag),
                            block |-> 0, size |-> 0]
    BY <1>1, <1>2 DEF Bind, TypeInv, Runner
  <2>2. Launch(Runner)' = [kind |-> "layer", pack |-> pack'[Runner]]
    BY <2>1 DEF Launch
  <2>3. flag = Odd(layer)
    BY DEF DataTypes
  <2>4. IsLayer([kind |-> "layer", pack |-> pack'[Runner]], stage, layer, pass)
    BY <2>1, <2>3 DEF IsLayer, Buffer
  <2>5. Is([kind |-> "layer", pack |-> pack'[Runner]], stage, layer + 1, pass)
    BY <1>0, <2>4 DEF Is
  <2>6. QED BY <2>1, <2>2, <2>5 DEF Is, IsLayer, IsCopyIn, IsCopyOut
<1>3. CASE Setup
  <2>1. /\ UNCHANGED <<stage, layer, pass>> /\ Runner' = Runner /\ at = "setup"
        /\ pack' = [pack EXCEPT ![Runner].block = workspace'.block, ![Runner].size = need[stage]]
    BY <1>3 DEF Setup, Runner
  <2>2. pack'[Runner] = [pack[Runner] EXCEPT !.block = workspace'.block, !.size = need[stage]]
    BY <1>1, <2>1 DEF TypeInv
  <2>3. /\ pack'[Runner].layer = pack[Runner].layer /\ pack'[Runner].in = pack[Runner].in
        /\ pack'[Runner].out = pack[Runner].out
    BY <1>1, <2>2 DEF Pack
  <2>4. Is(Launch(Runner), stage, layer + 1, pass)
    BY <2>1 DEF DataTypes
  <2>5. IsLayer(Launch(Runner), stage, layer, pass)
    BY <1>0, <2>4 DEF Is, IsCopyIn, IsCopyOut, CopyItem, Launch
  <2>6. IsLayer([kind |-> "layer", pack |-> pack'[Runner]], stage, layer, pass)
    BY <2>3, <2>5 DEF IsLayer, Launch
  <2>7. Is([kind |-> "layer", pack |-> pack'[Runner]], stage, layer + 1, pass)
    BY <1>0, <2>6 DEF Is
  <2>8. Launch(Runner)' = [kind |-> "layer", pack |-> pack'[Runner]]
    BY <2>1 DEF Launch
  <2>9. QED BY <2>1, <2>7, <2>8 DEF Is, IsLayer, IsCopyIn, IsCopyOut
<1>4. CASE ~(Bind \/ Setup)
  <2>1. UNCHANGED <<at, stage, layer, pass, pack>>
    BY <1>4 DEF Next, vars, opVars, Begin, NextLayer, SkipStage, BlockingSync, StageDone, Commit,
       CommitBlocking, End, LmHead, HeadSync, WorkerExecute, Device
  <2>2. QED BY <2>1 DEF DataTypes, Is, IsLayer, IsCopyIn, IsCopyOut, Launch, Runner
<1>5. QED BY <1>2, <1>3, <1>4

LEMMA DataTypeStep ==
  ASSUME TypeInv, DataTypes, [Next]_vars
  PROVE  DataTypes'
<1>1. at' = "wait" => layer' = Layers - 1
  BY DEF DataTypes, Next, vars, opVars, Begin, NextLayer, SkipStage, BlockingSync, StageDone, Bind, Setup,
     Commit, CommitBlocking, End, LmHead, HeadSync, WorkerExecute, Device
<1>2. QED BY <1>1, ValueStep, FlagStep, BoundStep DEF DataTypes

-----------------------------------------------------------------------------
(* Items are added to the work, and nothing else changes.                  *)
NewSteps(s) ==
  \/ Issued(s)' = Issued(s) /\ AddNone(Work', WorkLen, WorkLen', s, pass)
  \/ Issued(s)' = Issued(s) + 1 /\ AddStep(Work', WorkLen, WorkLen', s, Issued(s), pass)

NewItems ==
  \A j \in WorkLen+1..WorkLen' :
    Work'[j].kind = "head" \/ \E s \in tokens, m \in StepRange : Is(Work'[j], s, m, pass)

LEMMA WorkGrows ==
  ASSUME TypeInv, TypeInv', ItemsInv, ProgressInv, UNCHANGED <<buf, out, pass, tokens>>,
         WorkLen <= WorkLen', \A i \in 1..WorkLen : Work'[i] = Work[i],
         NewItems, \A s \in tokens : NewSteps(s)
  PROVE  ItemsInv' /\ ProgressInv'
<1>0. WorkLen \in Nat /\ WorkLen' \in Nat /\ tokens \subseteq Stage
  BY WorkAt, WorkAtNext DEF TypeInv
<1>1. ASSUME NEW i \in 1..WorkLen'
      PROVE  Work'[i].kind = "head" \/ \E s \in tokens, m \in StepRange : Is(Work'[i], s, m, pass)
  <2>1. i \in 1..WorkLen \/ i \in WorkLen+1..WorkLen'
    BY <1>0
  <2>2. QED BY <2>1 DEF ItemsInv, NewItems
<1>2. ASSUME NEW s \in tokens
      PROVE  \E d \in 0..Issued(s)' : Chain(Work, WorkLen, s, d, Issued(s), pass)' /\ Reached(s, d)'
  <2>1. Issued(s) \in Nat /\ (Issued(s)' = Issued(s) \/ Issued(s)' = Issued(s) + 1)
    BY <1>0, IssuedType DEF NewSteps
  <2>2. PICK d \in 0..Issued(s) : Chain(Work, WorkLen, s, d, Issued(s), pass) /\ Reached(s, d)
    BY DEF ProgressInv
  <2>3. Issued(s) \in Nat /\ Issued(s)' \in Nat /\ d \in 0..Issued(s)'
    BY <1>0, <2>1, IssuedType
  <2>4. PICK n \in Nat, o \in Nat, e \in Nat, f \in Nat :
          n = WorkLen /\ o = WorkLen' /\ e = Issued(s) /\ f = Issued(s)'
    BY <1>0, <2>3
  <2>5. PICK w, v : w = Work /\ v = Work'
    OBVIOUS
  <2>6. (f = e /\ AddNone(v, n, o, s, pass)) \/ (f = e + 1 /\ AddStep(v, n, o, s, e, pass))
    BY <2>4, <2>5 DEF NewSteps
  <2>7. n <= o /\ (\A i \in 1..n : v[i] = w[i]) /\ d \in 0..e /\ Chain(w, n, s, d, e, pass)
    BY <2>2, <2>4, <2>5
  <2>8. Chain(v, o, s, d, f, pass)
    BY <2>6, <2>7, ChainGrow
  <2>9. Reached(s, d)'
    BY <2>2 DEF Reached
  <2>10. Chain(Work', WorkLen', s, d, Issued(s)', pass')
    BY <2>4, <2>5, <2>8
  <2>11. Chain(Work, WorkLen, s, d, Issued(s), pass)'
    BY <2>10 DEF Chain, Is, IsLayer, IsCopyIn, IsCopyOut
  <2>12. QED BY <2>3, <2>9, <2>11
<1>3. ItemsInv'
  BY <1>1 DEF ItemsInv, Is, IsLayer, IsCopyIn, IsCopyOut
<1>4. ProgressInv'
  BY <1>2 DEF ProgressInv
<1>5. QED BY <1>3, <1>4

LEMMA CopiesLength ==
  ASSUME NEW kind, NEW second, NEW active \in SUBSET Stage
  PROVE  Len(Copies(kind, second, active)) \in Nat
<1> DEFINE x == [kind |-> kind, stage |-> "encoder", second |-> second]
           y == [kind |-> kind, stage |-> "decoder", second |-> second]
<1>1. Copies(kind, second, active) =
        (IF "encoder" \in active THEN <<x>> ELSE <<>>) \o (IF "decoder" \in active THEN <<y>> ELSE <<>>)
  BY DEF Copies
<1>2. /\ (IF "encoder" \in active THEN <<x>> ELSE <<>>) \in Seq({x, y})
      /\ (IF "decoder" \in active THEN <<y>> ELSE <<>>) \in Seq({x, y})
  <2> HIDE DEF x, y
  <2>1. <<x>> \in Seq({x, y}) /\ <<y>> \in Seq({x, y}) /\ <<>> \in Seq({x, y})
    OBVIOUS
  <2>2. QED BY <2>1
<1> HIDE DEF x, y
<1>3. QED BY <1>1, <1>2, Joined

(* The copies that are added are one new step of each stage with tokens.   *)
CopyStep(kind) == IF kind = "in" THEN 0 ELSE Layers + 1
CopySide(kind) == IF kind = "in" THEN FALSE ELSE Odd(Layers)

LEMMA CopiesNew ==
  ASSUME NEW kind \in {"in", "out"}, NEW active \in SUBSET Stage, NEW n \in Nat, NEW o \in Nat, NEW v, NEW p,
         NEW q, q = Copies(kind, CopySide(kind), active), o = n + Len(q),
         \A i \in n+1..o : v[i] = q[i - n]
  PROVE  /\ \A j \in n+1..o : \E s \in active : Is(v[j], s, CopyStep(kind), p)
         /\ \A s \in active : AddStep(v, n, o, s, CopyStep(kind), p)
<1> DEFINE c == CopyStep(kind)
           y == CopySide(kind)
<1>0. c \in StepRange
  BY LayersFacts DEF CopyStep
<1>1. \A s, t : \A m \in StepRange : Is(CopyItem(kind, s, y), t, m, p) <=> t = s /\ m = c
  <2>1. CASE kind = "in"
    BY <2>1, CopyIs DEF CopyStep, CopySide
  <2>2. CASE kind = "out"
    BY <2>2, CopyIs DEF CopyStep, CopySide
  <2>3. QED BY <2>1, <2>2
<1>2. q = Copies(kind, y, active) /\ o = n + Len(q) /\ \A i \in n+1..o : v[i] = q[i - n]
  OBVIOUS
<1> HIDE DEF c, y
<1>3. /\ \A i \in 1..Len(q) : \E s \in active : q[i] = CopyItem(kind, s, y)
      /\ \A s \in active : \E i \in 1..Len(q) : q[i] = CopyItem(kind, s, y)
      /\ \A i, j \in 1..Len(q) : q[i] = q[j] => i = j
      /\ Len(q) \in Nat
  <2>1. /\ \A i \in 1..Len(Copies(kind, y, active)) :
             \E s \in active : Copies(kind, y, active)[i] = CopyItem(kind, s, y)
        /\ \A s \in active : \E i \in 1..Len(Copies(kind, y, active)) :
             Copies(kind, y, active)[i] = CopyItem(kind, s, y)
        /\ \A i, j \in 1..Len(Copies(kind, y, active)) :
             Copies(kind, y, active)[i] = Copies(kind, y, active)[j] => i = j
    BY CopiesFacts
  <2>2. Len(Copies(kind, y, active)) \in Nat
    BY CopiesLength
  <2>3. QED BY <1>2, <2>1, <2>2
<1>4. \A i \in n+1..o : i - n \in 1..Len(q)
  BY <1>2, <1>3
<1>5. \A j \in n+1..o : \E s \in active : v[j] = CopyItem(kind, s, y)
  BY <1>2, <1>3, <1>4
<1>6. ASSUME NEW s \in active, NEW j \in n+1..o, NEW m \in StepRange, Is(v[j], s, m, p)
      PROVE  m = c /\ v[j] = CopyItem(kind, s, y)
  BY <1>1, <1>5, <1>6
<1>7. ASSUME NEW s \in active  PROVE \E k \in n+1..o : Is(v[k], s, c, p)
  <2>1. PICK i \in 1..Len(q) : q[i] = CopyItem(kind, s, y)
    BY <1>3
  <2>2. n + i \in n+1..o /\ (n + i) - n = i
    BY <1>2, <1>3
  <2>3. v[n + i] = CopyItem(kind, s, y)
    <3>1. \A j \in n+1..o : \A k : j - n = k => v[j] = q[k]
      BY <1>2
    <3>2. v[n + i] = q[i]
      BY <2>2, <3>1
    <3>3. QED BY <2>1, <3>2
  <2>4. QED BY <1>0, <1>1, <2>2, <2>3
<1>8. ASSUME NEW s \in active, NEW j \in n+1..o, NEW k \in n+1..o, NEW m \in StepRange, NEW l \in StepRange,
             Is(v[j], s, m, p), Is(v[k], s, l, p)
      PROVE  j = k
  <2>1. v[j] = v[k]
    BY <1>6, <1>8
  <2>2. j - n \in 1..Len(q) /\ k - n \in 1..Len(q) /\ q[j - n] = q[k - n]
    BY <1>2, <1>4, <2>1
  <2>3. j - n = k - n
    BY <1>3, <2>2
  <2>4. QED BY <2>3
<1>9. \A s \in active : AddStep(v, n, o, s, c, p)
  BY <1>6, <1>7, <1>8 DEF AddStep
<1>10. \A j \in n+1..o : \E s \in active : Is(v[j], s, c, p)
  BY <1>0, <1>1, <1>5
<1>11. QED BY <1>9, <1>10 DEF c

LEMMA BeginStep ==
  ASSUME QueueInv, TypeInv', Begin
  PROVE  ItemsInv' /\ ProgressInv'
<1>1. PICK active \in SUBSET Stage : tokens' = active /\ stream' = Copies("in", FALSE, active)
  BY DEF Begin
<1>2. stream = <<>> /\ pending = <<>> /\ pending' = <<>> /\ at' = "bind" /\ layer' = 0 /\ stage' = "encoder"
  BY DEF Begin, queueVars, QueueInv, PlaceInv
<1>3. TypeInv
  BY DEF QueueInv
<1> DEFINE q == Copies("in", FALSE, active)
<1>4. q \in Seq(CopyTask)
  BY CopiesType
<1>5. stream' = <<>> \o q
  BY <1>1, <1>4
<1>6. /\ WorkLen = 0 /\ WorkLen' = WorkLen + Len(q) /\ WorkLen' \in Nat
      /\ \A i \in WorkLen+1..WorkLen' : Work'[i] = q[i - WorkLen]
  <2>1. Len(stream) = 0 /\ Len(pending) = 0
    BY <1>2
  <2>2. WorkLen = 0 /\ WorkLen' \in Nat
    BY <1>3, <2>1, WorkAt, WorkAtNext
  <2>3. stream' = stream \o q
    BY <1>2, <1>5
  <2> HIDE DEF q
  <2>4. QED BY <1>2, <1>3, <1>4, <2>2, <2>3, WorkStream
<1>7. PICK n \in Nat, o \in Nat : n = 0 /\ o = WorkLen' /\ n+1..o = 1..o
  <2>1. 0 + 1 = 1
    OBVIOUS
  <2>2. QED BY <1>6, <2>1
<1>8. PICK v, p, r : v = Work' /\ p = pass' /\ r = q
  OBVIOUS
<1>9. /\ \A j \in n+1..o : \E s \in active : Is(v[j], s, 0, p)
      /\ \A s \in active : AddStep(v, n, o, s, 0, p)
  <2>1. r = Copies("in", CopySide("in"), active) /\ o = n + Len(r) /\ \A i \in n+1..o : v[i] = r[i - n]
    BY <1>6, <1>7, <1>8 DEF CopySide
  <2>2. CopyStep("in") = 0
    BY DEF CopyStep
  <2>3. /\ \A j \in n+1..o : \E s \in active : Is(v[j], s, CopyStep("in"), p)
        /\ \A s \in active : AddStep(v, n, o, s, CopyStep("in"), p)
    BY <2>1, CopiesNew
  <2>4. QED BY <2>2, <2>3
<1>10. ASSUME NEW s \in active
       PROVE  \E d \in 0..Issued(s)' : Chain(Work, WorkLen, s, d, Issued(s), pass)' /\ Reached(s, d)'
  <2>1. Issued(s)' = 1
    <3>1. Committed(s)' = 0
      BY <1>2 DEF Committed
    <3>2. QED BY <1>2, <3>1 DEF Issued
  <2>2. Chain(v, n, s, 0, 0, p)
    BY <1>7, LayersFacts DEF Chain
  <2>3. Chain(v, o, s, 0, 1, p)
    <3>1. n <= o /\ 0 \in 0..0 /\ 0 \in Nat /\ 1 \in Nat /\ 1 = 0 + 1 /\ \A i \in 1..n : v[i] = v[i]
      BY <1>7
    <3>2. QED BY <1>7, <1>9, <2>2, <3>1, ChainGrow
  <2>4. Chain(Work', WorkLen', s, 0, Issued(s)', pass')
    BY <1>7, <1>8, <2>1, <2>3
  <2>5. Chain(Work, WorkLen, s, 0, Issued(s), pass)'
    BY <2>4 DEF Chain, Is, IsLayer, IsCopyIn, IsCopyOut
  <2>6. Reached(s, 0)'
    BY LayersFacts DEF Reached
  <2>7. QED BY <2>1, <2>5, <2>6
<1>11. ItemsInv'
  <2>1. \A i \in 1..WorkLen' : \E s \in tokens', m \in StepRange : Is(Work'[i], s, m, pass')
    BY <1>1, <1>7, <1>8, <1>9, LayersFacts
  <2>2. QED BY <2>1 DEF ItemsInv, Is, IsLayer, IsCopyIn, IsCopyOut
<1>12. ProgressInv'
  BY <1>1, <1>10 DEF ProgressInv
<1>13. QED BY <1>11, <1>12

LEMMA EndStep ==
  ASSUME QueueInv, TypeInv', DataInv, End
  PROVE  ItemsInv' /\ ProgressInv'
<1>1. /\ at = "wait" /\ pending = <<>> /\ pending' = <<>> /\ stream' = stream \o CopyOut
      /\ UNCHANGED <<buf, out, pass, tokens>>
  BY DEF End, queueVars
<1>2. TypeInv /\ DataTypes /\ ItemsInv /\ ProgressInv /\ tokens \in SUBSET Stage /\ Layers \in Nat
  BY LayersFacts DEF QueueInv, DataInv, TypeInv
<1>3. CopyOut = Copies("out", CopySide("out"), tokens) /\ CopyOut \in Seq(CopyTask)
  <2>1. (~flag) = Odd(Layers)
    <3>1. layer \in Nat /\ layer + 1 = Layers /\ flag = Odd(layer)
      BY <1>1, <1>2, LayersFacts DEF DataTypes
    <3>2. Odd(layer) \in BOOLEAN /\ (Odd(layer + 1) <=> ~Odd(layer))
      BY <3>1, OddFacts
    <3>3. Odd(Layers) = ~Odd(layer)
      BY <3>1, <3>2 DEF Odd
    <3>4. QED BY <3>1, <3>3
  <2>2. CopyOut = Copies("out", ~flag, tokens)
    BY DEF CopyOut
  <2>3. CopyOut \in Seq(CopyTask)
    BY <1>2, <2>2, CopiesType DEF TypeInv
  <2>4. CopySide("out") = Odd(Layers)
    BY DEF CopySide
  <2>5. QED BY <2>1, <2>2, <2>3, <2>4
<1>4. PICK q : q = CopyOut
  OBVIOUS
<1>5. /\ WorkLen' = WorkLen + Len(q) /\ \A i \in 1..WorkLen : Work'[i] = Work[i]
      /\ \A i \in WorkLen+1..WorkLen' : Work'[i] = q[i - WorkLen]
  BY <1>1, <1>2, <1>3, <1>4, WorkStream
<1>6. WorkLen \in Nat /\ WorkLen' \in Nat /\ WorkLen <= WorkLen'
  <2>1. WorkLen \in Nat /\ WorkLen' \in Nat /\ Len(q) \in Nat
    BY <1>2, <1>3, <1>4, WorkAt, WorkAtNext
  <2>2. QED BY <1>5, <2>1
<1>7. PICK n \in Nat, o \in Nat : n = WorkLen /\ o = WorkLen'
  BY <1>6
<1>8. PICK v : v = Work'
  OBVIOUS
<1>9. /\ \A j \in n+1..o : \E s \in tokens : Is(v[j], s, Layers + 1, pass)
      /\ \A s \in tokens : AddStep(v, n, o, s, Layers + 1, pass)
  <2>1. q = Copies("out", CopySide("out"), tokens) /\ o = n + Len(q) /\ \A i \in n+1..o : v[i] = q[i - n]
    BY <1>3, <1>4, <1>5, <1>7, <1>8
  <2>2. CopyStep("out") = Layers + 1
    BY DEF CopyStep
  <2>3. /\ \A j \in n+1..o : \E s \in tokens : Is(v[j], s, CopyStep("out"), pass)
        /\ \A s \in tokens : AddStep(v, n, o, s, CopyStep("out"), pass)
    BY <1>2, <2>1, CopiesNew
  <2>4. QED BY <2>2, <2>3
<1>10. NewItems
  BY <1>7, <1>8, <1>9, LayersFacts DEF NewItems
<1>11. ASSUME NEW s \in tokens  PROVE NewSteps(s)
  <2>1. Issued(s) = Layers + 1 /\ Issued(s)' = Layers + 2
    BY <1>2, IssuedEnd
  <2>2. Issued(s)' = Issued(s) + 1
    BY <1>2, <2>1
  <2>3. AddStep(Work', WorkLen, WorkLen', s, Issued(s), pass)
    BY <1>7, <1>8, <1>9, <2>1
  <2>4. QED BY <2>2, <2>3 DEF NewSteps
<1>12. QED BY <1>1, <1>2, <1>5, <1>6, <1>10, <1>11, WorkGrows

LEMMA LmHeadStep ==
  ASSUME QueueInv, TypeInv', DataInv, LmHead
  PROVE  ItemsInv' /\ ProgressInv'
<1>1. PICK size \in 0..MaxNeed :
        stream' = Append(stream, [kind |-> "head", block |-> workspace'.block, size |-> size])
  BY DEF LmHead
<1>2. PICK x : x = [kind |-> "head", block |-> workspace'.block, size |-> size]
  OBVIOUS
<1>3. pending = <<>> /\ pending' = <<>> /\ UNCHANGED <<buf, out, pass, tokens>>
  BY DEF LmHead, queueVars, QueueInv, PlaceInv
<1>4. TypeInv /\ ItemsInv /\ ProgressInv
  BY DEF QueueInv, DataInv
<1>5. PICK q : q = <<x>>
  OBVIOUS
<1>6. q \in Seq({x}) /\ Len(q) = 1 /\ q[1] = x /\ stream' = stream \o q
  BY <1>1, <1>2, <1>4, <1>5 DEF TypeInv
<1>7. /\ WorkLen' = WorkLen + 1 /\ \A i \in 1..WorkLen : Work'[i] = Work[i]
      /\ \A i \in WorkLen+1..WorkLen' : i - WorkLen \in 1..1 /\ Work'[i] = q[i - WorkLen]
  BY <1>3, <1>4, <1>6, WorkStream
<1>8. \A j \in WorkLen+1..WorkLen' : Work'[j].kind = "head"
  <2>1. \A i \in 1..1 : i = 1
    OBVIOUS
  <2>2. x.kind = "head"
    BY <1>2
  <2>3. QED BY <1>6, <1>7, <2>1, <2>2
<1>9. \A s \in tokens : NewSteps(s)
  <2>1. \A s \in tokens : Issued(s)' = Issued(s)
    BY <1>4, IssuedSame DEF QueueInv
  <2>2. \A y, s : \A m : y.kind = "head" => ~Is(y, s, m, pass)
    BY IsKind DEF Is
  <2>3. QED BY <1>8, <2>1, <2>2 DEF NewSteps, AddNone
<1>10. WorkLen <= WorkLen' /\ NewItems
  BY <1>4, <1>7, <1>8, WorkAt DEF NewItems
<1>11. QED BY <1>3, <1>4, <1>7, <1>9, <1>10, WorkGrows

LEMMA CommitStep ==
  ASSUME QueueInv, TypeInv', DataInv, Commit \/ CommitBlocking
  PROVE  ItemsInv' /\ ProgressInv'
<1>1. TypeInv /\ PlaceInv /\ DataTypes /\ ItemsInv /\ ProgressInv /\ stage \in tokens
  BY DEF QueueInv, DataInv, PlaceInv, Commit, CommitBlocking
<1>2. UNCHANGED <<buf, out, pass, tokens>>
  BY DEF Commit, CommitBlocking
<1>3. PICK x : x = Launch(Runner)
  OBVIOUS
<1>4. layer + 1 \in StepRange /\ Is(x, stage, layer + 1, pass)
  <2>1. layer + 1 \in StepRange
    <3>1. layer \in 0..Layers-1
      BY <1>1 DEF TypeInv
    <3>2. QED BY <3>1, LayersFacts
  <2>2. QED BY <1>1, <1>3, <2>1 DEF DataTypes, Commit, CommitBlocking
<1>5. /\ WorkLen' = WorkLen + 1 /\ Work'[WorkLen + 1] = x /\ \A i \in 1..WorkLen : Work'[i] = Work[i]
  BY <1>3, WorkCommitted
<1>6. WorkLen \in Nat /\ WorkLen <= WorkLen' /\ WorkLen + 1 \in WorkLen+1..WorkLen'
      /\ \A j \in WorkLen+1..WorkLen' : j = WorkLen + 1
  <2>1. WorkLen \in Nat
    BY <1>1, WorkAt
  <2>2. QED BY <1>5, <2>1
<1>7. NewItems
  BY <1>1, <1>4, <1>5, <1>6 DEF NewItems
<1>8. ASSUME NEW s \in tokens  PROVE NewSteps(s)
  <2>1. CASE s = stage
    <3>1. Issued(s)' = Issued(s) + 1 /\ Issued(s) = layer + 1
      BY <1>1, <2>1, IssuedCommit
    <3>2. \A m \in StepRange : Is(x, s, m, pass) => m = layer + 1
      BY <1>4, <2>1, IsOne
    <3>3. AddStep(Work', WorkLen, WorkLen', s, layer + 1, pass)
      BY <1>4, <1>5, <1>6, <2>1, <3>2 DEF AddStep
    <3>4. QED BY <3>1, <3>3 DEF NewSteps
  <2>2. CASE s # stage
    <3>1. Issued(s)' = Issued(s)
      BY <1>1, <2>2, IssuedCommit
    <3>2. \A m \in StepRange : ~Is(x, s, m, pass)
      BY <1>4, <2>2, IsOne
    <3>3. AddNone(Work', WorkLen, WorkLen', s, pass)
      BY <1>5, <1>6, <3>2 DEF AddNone
    <3>4. QED BY <3>1, <3>3 DEF NewSteps
  <2>3. QED BY <2>1, <2>2
<1>9. QED BY <1>1, <1>2, <1>5, <1>6, <1>7, <1>8, WorkGrows

LEMMA QuietStep ==
  ASSUME QueueInv, TypeInv', DataInv, [Next]_vars,
         \/ NextLayer \/ SkipStage \/ BlockingSync \/ Bind \/ Setup
         \/ WorkerExecute \/ HeadSync \/ UNCHANGED vars
  PROVE  ItemsInv' /\ ProgressInv'
<1>1. TypeInv /\ PlaceInv /\ ItemsInv /\ ProgressInv
  BY DEF QueueInv, DataInv
<1>2. UNCHANGED <<buf, out, pass, tokens>>
  BY DEF NextLayer, SkipStage, BlockingSync, Bind, Setup, WorkerExecute, opVars, HeadSync, vars
<1>3. WorkLen' = WorkLen /\ \A i \in 1..WorkLen : Work'[i] = Work[i]
  <2>1. CASE WorkerExecute
    BY <2>1, WorkMoved
  <2>2. CASE ~WorkerExecute
    <3>1. UNCHANGED <<pending, stream>>
      BY <2>2 DEF NextLayer, SkipStage, BlockingSync, Bind, Setup, HeadSync, vars, queueVars
    <3>2. QED BY <3>1, WorkSame
  <2>3. QED BY <2>1, <2>2
<1>4. \A s \in tokens : Issued(s)' = Issued(s)
  BY <1>1, IssuedSame
<1>5. NewItems /\ \A s \in tokens : NewSteps(s)
  <2>1. WorkLen+1..WorkLen' = {}
    BY <1>1, <1>3, WorkAt
  <2>2. QED BY <1>4, <2>1 DEF NewItems, NewSteps, AddNone
<1>6. WorkLen <= WorkLen'
  BY <1>1, <1>3, WorkAt
<1>7. QED BY <1>1, <1>2, <1>3, <1>5, <1>6, WorkGrows

LEMMA DoneStep ==
  ASSUME QueueInv, TypeInv', LiveInv, DataInv, Device
  PROVE  ItemsInv' /\ ProgressInv'
<1>1. TypeInv /\ PlaceInv /\ DataTypes /\ ItemsInv /\ ProgressInv /\ tokens \subseteq Stage
  BY DEF QueueInv, DataInv, TypeInv
<1>2. UNCHANGED <<pass, tokens>>
  BY DEF Device, opVars
<1>3. PICK n \in Nat : n = WorkLen /\ 1 <= n /\ WorkLen' = n - 1
  BY <1>1, WorkDone, WorkAt
<1>4. PICK w, v, x : w = Work /\ v = Work' /\ x = Head(stream)
  OBVIOUS
<1>5. w[1] = x /\ \A i \in 1..n-1 : v[i] = w[i + 1]
  BY <1>3, <1>4, WorkDone
<1>6. x.kind = "head" \/ \E s \in tokens, m \in StepRange : Is(x, s, m, pass)
  <2>1. 1 \in 1..WorkLen
    BY <1>3
  <2>2. QED BY <1>1, <1>4, <1>5, <2>1 DEF ItemsInv
<1>7. ItemsInv'
  <2>1. ASSUME NEW i \in 1..WorkLen'
        PROVE  Work'[i].kind = "head" \/ \E s \in tokens, m \in StepRange : Is(Work'[i], s, m, pass)
    <3>1. i + 1 \in 1..WorkLen /\ i \in 1..n-1
      BY <1>3
    <3>2. Work'[i] = Work[i + 1]
      BY <1>4, <1>5, <3>1
    <3>3. QED BY <1>1, <3>1, <3>2 DEF ItemsInv
  <2>2. QED BY <1>2, <2>1 DEF ItemsInv, Is, IsLayer, IsCopyIn, IsCopyOut
<1>8. ASSUME NEW s \in tokens
      PROVE  \E d \in 0..Issued(s)' : Chain(Work, WorkLen, s, d, Issued(s), pass)' /\ Reached(s, d)'
  <2>1. PICK d \in 0..Issued(s) : Chain(Work, WorkLen, s, d, Issued(s), pass) /\ Reached(s, d)
    BY <1>1 DEF ProgressInv
  <2>2. PICK e \in Nat : e = Issued(s) /\ e = Issued(s)'
    BY <1>1, IssuedType, IssuedSame
  <2>3. d \in 0..e /\ d \in Nat /\ Chain(w, n, s, d, e, pass)
    BY <1>3, <1>4, <2>1, <2>2
  <2>4. /\ \A m \in StepRange : Is(w[1], s, m, pass) =>
             m = d /\ d < e /\ Chain(v, n - 1, s, d + 1, e, pass)
        /\ (\A m \in StepRange : ~Is(w[1], s, m, pass)) => Chain(v, n - 1, s, d, e, pass)
    BY <1>3, <1>5, <2>2, <2>3, ChainTail
  <2>5. \A c : Chain(v, n - 1, s, c, e, pass) => Chain(Work, WorkLen, s, c, Issued(s), pass)'
    <3>1. ASSUME NEW c, Chain(v, n - 1, s, c, e, pass)
          PROVE  Chain(Work, WorkLen, s, c, Issued(s), pass)'
      <4>1. Chain(Work', WorkLen', s, c, Issued(s)', pass')
        BY <1>2, <1>3, <1>4, <2>2, <3>1
      <4>2. QED BY <4>1 DEF Chain, Is, IsLayer, IsCopyIn, IsCopyOut
    <3>2. QED BY <3>1
  <2>6. CASE \E m \in StepRange : Is(x, s, m, pass)
    <3>1. PICK m \in StepRange : Is(x, s, m, pass)
      BY <2>6
    <3>2. m = d /\ d < e /\ Chain(v, n - 1, s, d + 1, e, pass)
      BY <1>5, <2>4, <3>1
    <3>3. Reached(s, d + 1)'
      <4>1. Is(Head(stream), s, m, pass) /\ Reached(s, m) /\ s \in Stage
        BY <1>1, <1>4, <2>1, <3>1, <3>2
      <4>2. Reached(s, m + 1)'
        BY <1>1, <4>1, DeviceStep
      <4>3. QED BY <3>2, <4>2 DEF Reached
    <3>4. d + 1 \in 0..e
      BY <2>3, <3>2
    <3>5. QED BY <2>2, <2>5, <3>2, <3>3, <3>4
  <2>7. CASE ~\E m \in StepRange : Is(x, s, m, pass)
    <3>1. buf'[s] = buf[s] /\ out'[s] = out[s]
      <4>1. CASE x.kind = "head"
        <5>1. UNCHANGED <<buf, out>>
          BY <1>4, <4>1 DEF Device, DeviceIn, DeviceOut
        <5>2. QED BY <5>1
      <4>2. CASE \E t \in tokens, m \in StepRange : Is(x, t, m, pass)
        <5>1. PICK t \in tokens, m \in StepRange : Is(x, t, m, pass)
          BY <4>2
        <5>2. t # s /\ t \in Stage /\ s \in Stage
          BY <1>1, <2>7, <5>1
        <5>3. Reached(t, m)
          <6>1. PICK c \in 0..Issued(t) : Chain(Work, WorkLen, t, c, Issued(t), pass) /\ Reached(t, c)
            BY <1>1, <5>1 DEF ProgressInv
          <6>2. PICK f \in Nat : f = Issued(t)
            BY <5>2, <1>1, IssuedType
          <6>3. c \in 0..f /\ Chain(w, n, t, c, f, pass)
            BY <1>3, <1>4, <6>1, <6>2
          <6>4. \A l \in StepRange : Is(w[1], t, l, pass) =>
                  l = c /\ c < f /\ Chain(v, n - 1, t, c + 1, f, pass)
            BY <1>3, <1>5, <6>2, <6>3, ChainTail
          <6>5. m = c
            BY <1>5, <5>1, <6>4
          <6>6. QED BY <6>1, <6>5
        <5>4. QED BY <1>1, <1>4, <5>1, <5>2, <5>3, DeviceStep
      <4>3. QED BY <1>6, <4>1, <4>2
    <3>2. Reached(s, d)'
      BY <1>2, <2>1, <3>1, ReachedKept
    <3>3. Chain(v, n - 1, s, d, e, pass)
      BY <1>5, <2>4, <2>7
    <3>4. QED BY <2>2, <2>3, <2>5, <3>2, <3>3
  <2>8. QED BY <2>6, <2>7
<1>9. ProgressInv'
  BY <1>2, <1>8 DEF ProgressInv
<1>10. QED BY <1>7, <1>9

LEMMA DataStep ==
  ASSUME QueueInv, QueueInv', LiveInv, DataInv, [Next]_vars
  PROVE  DataInv'
<1>1. TypeInv' /\ TypeInv /\ DataTypes
  BY DEF QueueInv, DataInv
<1>2. DataTypes'
  BY <1>1, DataTypeStep
<1>3. ItemsInv' /\ ProgressInv'
  BY <1>1, BeginStep, EndStep, LmHeadStep, CommitStep, QuietStep, DoneStep DEF Next
<1>4. QED BY <1>2, <1>3 DEF DataInv

LEMMA DataInit == Init => DataInv
<1> SUFFICES ASSUME Init  PROVE DataInv
  OBVIOUS
<1>1. tokens = {} /\ at = "out" /\ flag = FALSE /\ layer = 0 /\ stream = <<>> /\ pending = <<>>
  BY DEF Init, Executor!Init
<1>2. buf \in [Stage -> [BOOLEAN -> Value]] /\ out \in [Stage -> Value]
  BY DEF Init, Value
<1>3. Odd(0) = FALSE
  BY DEF Odd
<1>4. DataTypes
  BY <1>1, <1>2, <1>3 DEF DataTypes
<1>5. WorkLen = 0
  BY <1>1 DEF WorkLen
<1>6. QED BY <1>1, <1>4, <1>5 DEF DataInv, ItemsInv, ProgressInv

(* The op returns, for each stage with tokens, what the last layer computed*)
(* in this pass: for any number of layers and passes, any batch of the two *)
(* stages, and any interleaving of the op, the worker and the device, if   *)
(* the decoder of a pass asks for no more workspace than its encoder.      *)
THEOREM OutputRightCorrect ==
  ASSUME ~MidGrowth
  PROVE  Spec => []OutputRight
<1>1. Init => RoomInv /\ LiveInv /\ DataInv
  BY InitInv, DataInit DEF IInv
<1>2. QueueInv /\ QueueInv' /\ RoomInv /\ LiveInv /\ DataInv /\ [Next]_vars =>
        (RoomInv /\ LiveInv /\ DataInv)'
  BY RoomStep, LiveStep, DataStep
<1>3. QueueInv /\ DataInv => OutputRight
  <2> SUFFICES ASSUME QueueInv, DataInv, at = "out", stream = <<>>, NEW s \in tokens
               PROVE  out[s] = <<pass, Layers>>
    BY DEF OutputRight
  <2>1. WorkLen = 0
    BY DEF QueueInv, PlaceInv, WorkLen
  <2>2. Issued(s) = Layers + 2
    BY DEF Issued
  <2>3. PICK d \in 0..Layers+2 : Chain(Work, 0, s, d, Layers + 2, pass) /\ Reached(s, d)
    BY <2>1, <2>2 DEF DataInv, ProgressInv
  <2>4. d = Layers + 2
    <3>1. d \in StepRange => ~(d < Layers + 2)
      <4>1. d \in StepRange => d <= d
        BY LayersFacts
      <4>2. QED BY <2>3, <4>1 DEF Chain
    <3>2. QED BY <2>3, <3>1, LayersFacts
  <2>5. QED BY <2>3, <2>4 DEF Reached
<1>4. QED BY <1>1, <1>2, <1>3, QueueInvariant, PTL DEF Spec

(* What is proved of the layers holds in the behaviours of the parts: they *)
(* are a part of their own.                                                *)
LEMMA PartIsLayers == PartSpec => Spec
<1>1. PartInit => Init
  BY DEF PartInit
<1>2. [PartNext]_partVars => [Next]_vars
  BY DEF PartNext, RunLayers, RunGraph, RunCache, RunOutput, partVars, vars, opVars, queueVars
<1>3. QED BY <1>1, <1>2, PTL DEF PartSpec, Spec

-----------------------------------------------------------------------------
(***************************************************************************)
(* The batch of a pass.  Every list that the op makes is a concatenation of*)
(* what each row of the batch gives, and the offset of a loop over the rows*)
(* is where the part of a row ends (FlattenPacked).  So row p of a stage is*)
(* the same token in the hidden states, the slots and the rotary positions *)
(* (EncoderRows, DecoderRows); a token has a slot that no other live token *)
(* has (PlaceOnce), because no block is twice in the tables (BlocksOwned). *)
(***************************************************************************)
(* Induction: a set with 0 that every n leaves with n + 1 has all of Nat;  *)
(* from the least number it would not have.                                *)
LEMMA Induction ==
  ASSUME NEW S, 0 \in S, \A n \in Nat : n \in S => n + 1 \in S
  PROVE  Nat \subseteq S
<1> DEFINE T == {n \in Nat : n \notin S}
<1> SUFFICES ASSUME T # {}  PROVE FALSE
  OBVIOUS
<1>1. PICK n \in T : \A m \in T : <<m, n>> \notin OpToRel(<, Nat)
  BY WFMin, NatLessThanWellFounded, Zenon
<1>2. \A m \in T : ~(m < n)
  BY <1>1, Zenon DEF OpToRel
<1>3. n \in Nat /\ n # 0
  OBVIOUS
<1>4. n - 1 \in Nat /\ n - 1 < n /\ (n - 1) + 1 = n
  BY <1>3
<1>5. n - 1 \in S
  BY <1>2, <1>4
<1>6. QED BY <1>4, <1>5

(* A loop over n rows that adds up what each row has to give.              *)
LEMMA Sums ==
  ASSUME NEW n \in Nat, NEW count \in [1..n -> Nat]
  PROVE  \E f \in [0..n -> Nat] : f[0] = 0 /\ \A i \in 1..n : f[i] = f[i - 1] + count[i]
<1> DEFINE Right(k, f) == f[0] = 0 /\ \A i \in 1..k : f[i] = f[i - 1] + count[i]
           Some(k) == \E f \in [0..k -> Nat] : Right(k, f)
           K == {k \in Nat : k <= n => Some(k)}
<1>1. 0 \in K
  <2>1. [i \in 0..0 |-> 0] \in [0..0 -> Nat] /\ Right(0, [i \in 0..0 |-> 0])
    OBVIOUS
  <2>2. QED BY <2>1
<1>2. ASSUME NEW k \in Nat, k \in K  PROVE k + 1 \in K
  <2>1. ASSUME k + 1 <= n  PROVE Some(k + 1)
    <3>1. k <= n
      BY <2>1
    <3>2. Some(k)
      <4> HIDE DEF Some
      <4>1. QED BY <1>2, <3>1
    <3>3. PICK f \in [0..k -> Nat] : Right(k, f)
      BY <3>2
    <3>4. k \in 0..k /\ k + 1 \in 1..n /\ f[k] \in Nat /\ f[k] + count[k + 1] \in Nat
      BY <2>1
    <3> DEFINE g == [i \in 0..k+1 |-> IF i <= k THEN f[i] ELSE f[k] + count[k + 1]]
    <3>5. g \in [0..k+1 -> Nat]
      BY <3>4
    <3>6. g[0] = 0
      BY <3>3
    <3>7. ASSUME NEW i \in 1..k+1  PROVE g[i] = g[i - 1] + count[i]
      <4>1. CASE i <= k
        <5>1. i \in 1..k /\ g[i] = f[i] /\ g[i - 1] = f[i - 1]
          BY <4>1
        <5>2. QED BY <5>1, <3>3
      <4>2. CASE i = k + 1
        <5>1. g[k + 1] = f[k] + count[k + 1] /\ g[k] = f[k] /\ i - 1 = k
          BY <4>2
        <5> HIDE DEF g
        <5>2. QED BY <5>1, <4>2
      <4>3. QED BY <4>1, <4>2
    <3>8. QED BY <3>5, <3>6, <3>7
  <2> HIDE DEF Some
  <2>2. QED BY <2>1
<1>3. Some(n)
  <2>1. n \in K
    <3> HIDE DEF K
    <3>1. QED BY <1>1, <1>2, Induction
  <2> HIDE DEF Some
  <2>2. QED BY <2>1
<1>4. QED BY <1>3

(* in_offset of a loop over the rows sums up what the rows add.            *)
LEMMA OffsetSums ==
  ASSUME NEW count \in [Paged!Row -> Nat]
  PROVE  LET end == Paged!Offset(count)
         IN  /\ end \in [0..Rows -> Nat] /\ end[0] = 0
             /\ \A i \in Paged!Row : end[i] = end[i - 1] + count[i]
<1> DEFINE Adds(g) == g = [i \in 0..Rows |-> IF i = 0 THEN 0 ELSE g[i - 1] + count[i]]
           end == Paged!Offset(count)
<1>1. Rows \in Nat /\ count \in [1..Rows -> Nat]
  BY BatchAssumption DEF Paged!Row
<1>2. PICK f \in [0..Rows -> Nat] : f[0] = 0 /\ \A i \in 1..Rows : f[i] = f[i - 1] + count[i]
  BY <1>1, Sums
<1>3. Adds(f)
  BY <1>1, <1>2
<1>4. Adds(end)
  <2>1. end = CHOOSE g : Adds(g)
    BY Zenon DEF Paged!Offset
  <2> HIDE DEF Adds, end
  <2>2. QED BY <1>3, <2>1
<1>5. /\ DOMAIN end = 0..Rows /\ end[0] = 0 /\ \A i \in 1..Rows : end[i] = end[i - 1] + count[i]
  <2> HIDE DEF end
  <2>1. QED BY <1>1, <1>4
<1>6. end = f
  <2> DEFINE T == {i \in Nat : i <= Rows => end[i] = f[i]}
  <2> HIDE DEF end
  <2>1. 0 \in T
    BY <1>2, <1>5
  <2>2. ASSUME NEW i \in Nat, i \in T  PROVE i + 1 \in T
    <3> SUFFICES ASSUME i + 1 <= Rows  PROVE end[i + 1] = f[i + 1]
      OBVIOUS
    <3>1. i + 1 \in 1..Rows /\ (i + 1) - 1 = i /\ end[i] = f[i]
      BY <1>1, <2>2
    <3>2. QED BY <3>1, <1>2, <1>5
  <2>3. Nat \subseteq T
    <3> HIDE DEF T
    <3>1. QED BY <2>1, <2>2, Induction
  <2>4. end = [i \in 0..Rows |-> end[i]]
    BY <1>4
  <2>5. \A i \in 0..Rows : end[i] = f[i]
    BY <2>3, <1>1
  <2>6. QED BY <2>4, <2>5
<1>7. QED BY <1>1, <1>2, <1>6 DEF Paged!Row

LEMMA Concatenation ==
  ASSUME NEW S, NEW a \in Seq(S), NEW b \in Seq(S)
  PROVE  /\ a \o b \in Seq(S) /\ Len(a \o b) = Len(a) + Len(b)
         /\ Len(a) \in Nat /\ Len(b) \in Nat
         /\ \A k \in 1..Len(a) : (a \o b)[k] = a[k]
         /\ \A k \in 1..Len(b) : (a \o b)[Len(a) + k] = b[k]
<1>1. ASSUME NEW k \in 1..Len(b)  PROVE (a \o b)[Len(a) + k] = b[k]
  <2>1. Len(a) + k \in 1..Len(a) + Len(b) /\ ~(Len(a) + k <= Len(a)) /\ (Len(a) + k) - Len(a) = k
    OBVIOUS
  <2>2. QED BY <2>1
<1>2. QED BY <1>1

(* The parts of a concatenation, how long each is and where it ends.       *)
Parts(parts, S, n, count) ==
  parts \in [1..n -> Seq(S)] /\ \A i \in 1..n : Len(parts[i]) = count[i]

Ends(end, n, count) ==
  /\ count \in [1..n -> Nat] /\ end \in [0..n -> Nat] /\ end[0] = 0
  /\ \A i \in 1..n : end[i] = end[i - 1] + count[i]

Covered(n, count, end) ==
  \A p \in 1..end[n] : \E i \in 1..n : \E k \in 1..count[i] : p = end[i - 1] + k

(* The concatenation has every part in its place, and nothing else.        *)
Packed(all, parts, S, n, count, end) ==
  /\ all \in Seq(S) /\ Len(all) = end[n]
  /\ \A i \in 1..n : \A k \in 1..count[i] :
       end[i - 1] + k \in 1..end[n] /\ all[end[i - 1] + k] = parts[i][k]
  /\ Covered(n, count, end)

(* Every place of a concatenation is in some part of it.                   *)
LEMMA EndsCover ==
  ASSUME NEW n \in Nat, NEW count, NEW end, Ends(end, n, count)
  PROVE  Covered(n, count, end)
<1> DEFINE Covers(j) == \A p \in 1..end[j] : \E i \in 1..j : \E k \in 1..count[i] : p = end[i - 1] + k
           K == {j \in Nat : j <= n => Covers(j)}
<1>1. /\ count \in [1..n -> Nat] /\ end \in [0..n -> Nat] /\ end[0] = 0
      /\ \A i \in 1..n : end[i] = end[i - 1] + count[i]
  BY DEF Ends
<1>2. 0 \in K
  BY <1>1
<1>3. ASSUME NEW j \in Nat, j \in K  PROVE j + 1 \in K
  <2> SUFFICES ASSUME j + 1 <= n, NEW p \in 1..end[j + 1]
               PROVE  \E i \in 1..j+1 : \E k \in 1..count[i] : p = end[i - 1] + k
    OBVIOUS
  <2>1. j + 1 \in 1..n /\ (j + 1) - 1 = j /\ j \in 0..n /\ end[j] \in Nat /\ count[j + 1] \in Nat
    BY <1>1
  <2>2. end[j + 1] = end[j] + count[j + 1]
    BY <1>1, <2>1
  <2>3. CASE p <= end[j]
    <3>1. PICK i \in 1..j : \E k \in 1..count[i] : p = end[i - 1] + k
      BY <1>3, <2>3, <2>1
    <3>2. i \in 1..j+1
      OBVIOUS
    <3>3. QED BY <3>1, <3>2
  <2>4. CASE p > end[j]
    <3>1. p - end[j] \in 1..count[j + 1] /\ p = end[(j + 1) - 1] + (p - end[j])
      BY <2>1, <2>2, <2>4
    <3>2. j + 1 \in 1..j+1
      OBVIOUS
    <3>3. QED BY <3>1, <3>2
  <2>5. QED BY <2>3, <2>4, <2>1
<1>4. n \in K
  <2> HIDE DEF K
  <2>1. QED BY <1>2, <1>3, Induction
<1>5. QED BY <1>4 DEF Covered

(* What FlattenSeq makes of any number of parts of any length.             *)
LEMMA FlattenPacked ==
  ASSUME NEW S, NEW n \in Nat, NEW parts, NEW count, NEW end,
         Parts(parts, S, n, count), Ends(end, n, count)
  PROVE  Packed(Paged!FlattenSeq(parts), parts, S, n, count, end)
<1>1. \A i \in 1..n : Len(parts[i]) = count[i]
  BY DEF Parts
<1>2. parts \in [1..n -> Seq(S)]
  BY DEF Parts
<1> USE <1>2
<1> DEFINE Joins(g) == g = [i \in 1..n |-> IF i = 1 THEN parts[i] ELSE g[i - 1] \o parts[i]]
           all == Paged!FlattenSeq(parts)
<1>3. parts \in Seq(Seq(S)) /\ Len(parts) = n
  BY <1>1
<1>4. \A i \in 1..n : parts[i] \in Seq(S) /\ Len(parts[i]) \in Nat
  BY <1>1
<1>5. /\ end \in [0..n -> Nat] /\ end[0] = 0
      /\ \A i \in 1..n : end[i] = end[i - 1] + Len(parts[i]) /\ i - 1 \in 0..n /\ i \in 0..n
  BY <1>1 DEF Ends
<1> DEFINE Fit == /\ all \in Seq(S) /\ Len(all) = end[n]
                  /\ \A i \in 1..n : \A k \in 1..Len(parts[i]) :
                       end[i - 1] + k \in 1..end[n] /\ all[end[i - 1] + k] = parts[i][k]
<1> SUFFICES Fit
  <2>1. Covered(n, count, end)
    BY EndsCover
  <2>2. QED BY <1>1, <2>1 DEF Packed
<1>6. CASE n = 0
  <2>1. all = <<>>
    BY <1>3, <1>6 DEF Paged!FlattenSeq
  <2>2. QED BY <1>5, <1>6, <2>1
<1>7. CASE n # 0
  <2>1. PICK f \in [0..n -> Seq(S)] : f[0] = <<>> /\ \A i \in 1..n : f[i] = f[i - 1] \o parts[i]
    <3> DEFINE Right(k, f) == f[0] = <<>> /\ \A i \in 1..k : f[i] = f[i - 1] \o parts[i]
               Some(k) == \E f \in [0..k -> Seq(S)] : Right(k, f)
               K == {k \in Nat : k <= n => Some(k)}
    <3>1. 0 \in K
      <4>1. [i \in 0..0 |-> <<>>] \in [0..0 -> Seq(S)] /\ Right(0, [i \in 0..0 |-> <<>>])
        OBVIOUS
      <4>2. QED BY <4>1
    <3>2. ASSUME NEW k \in Nat, k \in K  PROVE k + 1 \in K
      <4>1. ASSUME k + 1 <= n  PROVE Some(k + 1)
        <5>1. k <= n
          BY <4>1
        <5>2. Some(k)
          <6> HIDE DEF Some
          <6>1. QED BY <3>2, <5>1
        <5>3. PICK f \in [0..k -> Seq(S)] : Right(k, f)
          BY <5>2
        <5>4. k \in 0..k /\ k + 1 \in 1..n /\ f[k] \in Seq(S) /\ f[k] \o parts[k + 1] \in Seq(S)
          BY <4>1
        <5> DEFINE g == [i \in 0..k+1 |-> IF i <= k THEN f[i] ELSE f[k] \o parts[k + 1]]
        <5>5. g \in [0..k+1 -> Seq(S)]
          BY <5>4
        <5>6. g[0] = <<>>
          BY <5>3
        <5>7. ASSUME NEW i \in 1..k+1  PROVE g[i] = g[i - 1] \o parts[i]
          <6>1. CASE i <= k
            <7>1. i \in 1..k /\ g[i] = f[i] /\ g[i - 1] = f[i - 1]
              BY <6>1
            <7>2. QED BY <7>1, <5>3
          <6>2. CASE i = k + 1
            <7>1. g[k + 1] = f[k] \o parts[k + 1] /\ g[k] = f[k] /\ i - 1 = k
              BY <6>2
            <7>2. g[k + 1] = g[k] \o parts[k + 1]
              BY <7>1, Zenon
            <7> HIDE DEF g
            <7>3. g[i] = g[k + 1] /\ g[i - 1] = g[k] /\ parts[i] = parts[k + 1]
              BY <7>1, <6>2
            <7>4. QED BY <7>2, <7>3, Zenon
          <6>3. i <= k \/ i = k + 1
            OBVIOUS
          <6>4. QED BY <6>1, <6>2, <6>3, Zenon
        <5>8. QED BY <5>5, <5>6, <5>7
      <4> HIDE DEF Some
      <4>2. QED BY <4>1
    <3>3. Some(n)
      <4>1. n \in K
        <5> HIDE DEF K
        <5>1. QED BY <3>1, <3>2, Induction
      <4> HIDE DEF Some
      <4>2. QED BY <4>1
    <3>4. QED BY <3>3
  <2>2. \A i \in 1..n : f[i - 1] \in Seq(S) /\ f[i] = f[i - 1] \o parts[i]
    BY <2>1, <1>5
  <2>3. n \in 1..n /\ 1 \in 1..n
    BY <1>7
  <2>4. f[1] = parts[1]
    <3>1. PICK zero \in Nat : zero = 1 - 1 /\ zero = 0
      OBVIOUS
    <3>2. f[1] = f[zero] \o parts[1]
      BY <2>1, <2>3, <3>1, Zenon
    <3>3. f[1] = <<>> \o parts[1]
      BY <3>1, <3>2, <2>1, Zenon
    <3>4. QED BY <3>3, <2>3
  <2> DEFINE g == [i \in 1..n |-> f[i]]
  <2>5. Joins(g)
    <3>1. ASSUME NEW i \in 1..n, i # 1  PROVE i - 1 \in 1..n /\ g[i - 1] = f[i - 1]
      BY <3>1
    <3>2. \A i \in 1..n : f[i] = IF i = 1 THEN parts[i] ELSE g[i - 1] \o parts[i]
      BY <3>1, <2>2, <2>4
    <3>3. QED BY <3>2
  <2> DEFINE h == CHOOSE x : Joins(x)
  <2>6. Joins(h)
    <3> HIDE DEF Joins, g
    <3>1. QED BY <2>5
  <2>7. all = h[n]
    BY <1>3, <1>7 DEF Paged!FlattenSeq
  <2>8. h[1] = parts[1] /\ \A i \in 1..n : i # 1 => h[i] = h[i - 1] \o parts[i]
    BY <2>3, <2>6
  <2> HIDE DEF h, all, Joins
  <2> DEFINE Fits(j) == /\ h[j] \in Seq(S) /\ Len(h[j]) = end[j]
                        /\ \A i \in 1..j : \A k \in 1..Len(parts[i]) :
                             end[i - 1] + k \in 1..end[j] /\ h[j][end[i - 1] + k] = parts[i][k]
             K == {j \in Nat : j + 1 <= n => Fits(j + 1)}
  <2>9. Fits(1)
    <3>1. /\ h[1] = parts[1] /\ parts[1] \in Seq(S) /\ 1 - 1 = 0
          /\ end[1] = Len(parts[1]) /\ Len(parts[1]) \in Nat
      BY <2>8, <2>3, <1>4, <1>5
    <3>2. ASSUME NEW i \in 1..1, NEW k \in 1..Len(parts[i])
          PROVE  end[i - 1] + k \in 1..end[1] /\ h[1][end[i - 1] + k] = parts[i][k]
      <4>1. i = 1 /\ end[i - 1] = 0 /\ k \in 1..Len(parts[1]) /\ 0 + k = k
        BY <3>1, <1>5
      <4>2. end[i - 1] + k = k
        BY <4>1
      <4>3. QED BY <3>1, <4>1, <4>2
    <3>3. QED BY <3>1, <3>2
  <2>10. ASSUME NEW j \in 1..n, j # 1, Fits(j - 1)  PROVE Fits(j)
    <3>1. /\ h[j - 1] \in Seq(S) /\ parts[j] \in Seq(S) /\ h[j] = h[j - 1] \o parts[j]
          /\ Len(h[j - 1]) = end[j - 1] /\ end[j] = end[j - 1] + Len(parts[j])
      BY <2>10, <2>8, <1>5
    <3>2. PICK a \in Seq(S), b \in Seq(S) : a = h[j - 1] /\ b = parts[j]
      BY <3>1
    <3>3. /\ a \o b \in Seq(S) /\ Len(a \o b) = Len(a) + Len(b) /\ Len(a) \in Nat /\ Len(b) \in Nat
          /\ \A k \in 1..Len(a) : (a \o b)[k] = a[k]
          /\ \A k \in 1..Len(b) : (a \o b)[Len(a) + k] = b[k]
      BY Concatenation
    <3>4. h[j] = a \o b /\ end[j - 1] = Len(a) /\ end[j] = Len(a) + Len(b)
      BY <3>1, <3>2
    <3>5. ASSUME NEW i \in 1..j, NEW k \in 1..Len(parts[i])
          PROVE  end[i - 1] + k \in 1..end[j] /\ h[j][end[i - 1] + k] = parts[i][k]
      <4>1. CASE i = j
        <5>1. k \in 1..Len(b) /\ parts[i][k] = b[k] /\ end[i - 1] = Len(a)
          BY <3>2, <3>4, <3>5, <4>1
        <5>2. Len(a) + k \in 1..Len(a) + Len(b)
          BY <3>3, <5>1
        <5>3. h[j][end[i - 1] + k] = (a \o b)[Len(a) + k]
          BY <3>4, <5>1
        <5>4. QED BY <3>3, <3>4, <5>1, <5>2, <5>3
      <4>2. CASE i # j
        <5>1. i \in 1..(j - 1)
          BY <4>2
        <5>2. end[i - 1] + k \in 1..Len(a) /\ a[end[i - 1] + k] = parts[i][k]
          BY <2>10, <5>1, <3>2, <3>4
        <5>3. end[i - 1] + k \in 1..Len(a) + Len(b)
          BY <3>3, <5>2
        <5>4. h[j][end[i - 1] + k] = (a \o b)[end[i - 1] + k]
          BY <3>4
        <5>5. QED BY <3>3, <3>4, <5>2, <5>3, <5>4
      <4>3. QED BY <4>1, <4>2
    <3>6. QED BY <3>3, <3>4, <3>5
  <2>11. 0 \in K
    <3>1. Fits(0 + 1)
      BY <2>9
    <3> HIDE DEF Fits
    <3>2. QED BY <3>1
  <2>12. ASSUME NEW j \in Nat, j \in K  PROVE j + 1 \in K
    <3> SUFFICES ASSUME (j + 1) + 1 <= n  PROVE Fits((j + 1) + 1)
      OBVIOUS
    <3>1. Fits(((j + 1) + 1) - 1) /\ (j + 1) + 1 \in 1..n /\ (j + 1) + 1 # 1
      <4>1. Fits(j + 1) /\ ((j + 1) + 1) - 1 = j + 1
        BY <2>12
      <4> HIDE DEF Fits
      <4>2. QED BY <4>1
    <3> HIDE DEF Fits
    <3>2. QED BY <3>1, <2>10
  <2>13. n - 1 \in K
    <3>1. n - 1 \in Nat
      BY <1>7
    <3> HIDE DEF K
    <3>2. QED BY <3>1, <2>11, <2>12, Induction
  <2>14. Fits(n)
    <3>1. (n - 1) + 1 = n /\ n <= n
      OBVIOUS
    <3> HIDE DEF Fits
    <3>2. QED BY <3>1, <2>13
  <2>15. QED BY <2>7, <2>14, Zenon
<1>8. QED BY <1>6, <1>7

-----------------------------------------------------------------------------
(* The inductive invariant of the batch.                                   *)
PagedTypes ==
  /\ seq \in [Paged!Row -> Nat \cup {Nothing}] /\ begun \in Nat
  /\ encLen \in [Paged!Row -> 0..MaxLen] /\ decLen \in [Paged!Row -> 0..MaxLen]
  /\ table \in [Paged!Row -> Seq(Blocks)]
  /\ result = [i \in Paged!Row |-> result[i]]

(* A row is prefilled or decoded, never both, and only while it is taken;  *)
(* a row that is taken has its blocks.                                     *)
RowsLive ==
  \A i \in Paged!Row :
    /\ encLen[i] = 0 \/ decLen[i] = 0
    /\ seq[i] = Nothing => encLen[i] = 0 /\ decLen[i] = 0
    /\ seq[i] # Nothing => Len(table[i]) = RowBlocks

(* No block is twice in the tables.                                        *)
BlocksOwned ==
  \A i, j \in Paged!Row : \A a \in DOMAIN table[i], b \in DOMAIN table[j] :
    table[i][a] = table[j][b] => i = j /\ a = b

BatchTypes == PagedTypes /\ RowsLive
BatchInv == BatchTypes /\ BlocksOwned /\ BatchRight

-----------------------------------------------------------------------------
(* Division, for the block of a token and its place there.                 *)
LEMMA Divided ==
  ASSUME NEW n \in Nat, NEW d \in Nat \ {0}
  PROVE  \E q \in Nat, t \in 0..d - 1 : q = n \div d /\ t = n % d /\ n = q * d + t
<1>1. n \div d \in Int /\ n % d \in 0..d - 1
  OBVIOUS
<1>2. PICK q \in Int, t \in 0..d - 1 : q = n \div d /\ t = n % d
  BY <1>1
<1>3. d \in Nat /\ d > 0 /\ t \in Nat
  OBVIOUS
<1>4. n \div d >= 0
  BY <1>3, Z3
<1>5. q \in Nat
  BY <1>2, <1>4
<1>6. n = q * d + t
  BY <1>2, <1>3, <1>5, Z3
<1>7. QED BY <1>2, <1>5, <1>6

LEMMA DividedBelow ==
  ASSUME NEW n \in Nat, NEW d \in Nat \ {0}, NEW m \in Nat, n < m * d
  PROVE  n \div d < m
<1>1. PICK q \in Nat, t \in 0..d - 1 : q = n \div d /\ t = n % d /\ n = q * d + t
  BY Divided
<1>2. q * d < m * d
  BY <1>1
<1>3. QED BY <1>1, <1>2

LEMMA DividedOnce ==
  ASSUME NEW d \in Nat \ {0}, NEW a \in Nat, NEW b \in Nat, NEW r \in 0..d - 1, NEW s \in 0..d - 1,
         a * d + r = b * d + s
  PROVE  a = b /\ r = s
<1>1. ~(a < b)
  <2> SUFFICES ASSUME a < b  PROVE FALSE
    OBVIOUS
  <2>1. a * d + d <= b * d
    OBVIOUS
  <2>2. QED BY <2>1
<1>2. ~(b < a)
  <2> SUFFICES ASSUME b < a  PROVE FALSE
    OBVIOUS
  <2>1. b * d + d <= a * d
    OBVIOUS
  <2>2. QED BY <2>1
<1>3. a = b
  BY <1>1, <1>2
<1>4. QED BY <1>3

-----------------------------------------------------------------------------
TokenSet == (Nat \cup {Nothing}) \X Nat

Counts(count) == count \in [Paged!Row -> Nat]
Ones == [i \in Paged!Row |-> IF Paged!DecodeLen(i) > 0 THEN 1 ELSE 0]

LEMMA OffsetEnds ==
  ASSUME NEW count, Counts(count)
  PROVE  Ends(Paged!Offset(count), Rows, count) /\ Rows \in Nat
<1>1. count \in [1..Rows -> Nat] /\ count \in [Paged!Row -> Nat]
  BY DEF Counts, Paged!Row
<1>2. /\ Paged!Offset(count) \in [0..Rows -> Nat] /\ Paged!Offset(count)[0] = 0
      /\ \A i \in Paged!Row : Paged!Offset(count)[i] = Paged!Offset(count)[i - 1] + count[i]
  BY <1>1, OffsetSums, Zenon
<1>3. QED BY <1>1, <1>2, BatchAssumption DEF Ends, Paged!Row

LEMMA BatchCounts ==
  ASSUME BatchTypes
  PROVE  Counts(encLen) /\ Counts(Paged!Tokens) /\ Counts(Ones)
BY DEF BatchTypes, PagedTypes, Counts, Paged!Tokens, Ones, Paged!DecodeLen

(* The hidden states hold the tokens of row i behind those of the rows     *)
(* before it.                                                              *)
HiddenParts ==
  [i \in Paged!Row |->
    IF encLen[i] > 0 THEN [n \in 1..encLen[i] |-> Paged!Token(seq[i], n - 1)]
    ELSE IF decLen[i] > 0 THEN <<Paged!Token(seq[i], decLen[i])>> ELSE <<>>]

LEMMA HiddenPacked ==
  ASSUME BatchTypes
  PROVE  Packed(Paged!Hidden, HiddenParts, TokenSet, Rows, Paged!Tokens, Paged!Offset(Paged!Tokens))
<1>1. Ends(Paged!Offset(Paged!Tokens), Rows, Paged!Tokens) /\ Rows \in Nat
  BY BatchCounts, OffsetEnds
<1>2. Parts(HiddenParts, TokenSet, Rows, Paged!Tokens)
  <2>1. ASSUME NEW i \in Paged!Row
        PROVE  HiddenParts[i] \in Seq(TokenSet) /\ Len(HiddenParts[i]) = Paged!Tokens[i]
    <3>1. seq[i] \in Nat \cup {Nothing} /\ encLen[i] \in Nat /\ decLen[i] \in Nat
      BY DEF BatchTypes, PagedTypes
    <3>2. CASE encLen[i] > 0
      <4>1. HiddenParts[i] = [n \in 1..encLen[i] |-> <<seq[i], n - 1>>]
        BY <3>2 DEF HiddenParts, Paged!Token
      <4>2. \A n \in 1..encLen[i] : n - 1 \in Nat /\ <<seq[i], n - 1>> \in TokenSet
        BY <3>1 DEF TokenSet
      <4>3. Paged!Tokens[i] = encLen[i]
        BY <3>2 DEF Paged!Tokens
      <4>4. QED BY <3>1, <4>1, <4>2, <4>3
    <3>3. CASE ~(encLen[i] > 0) /\ decLen[i] > 0
      <4>1. HiddenParts[i] = <<<<seq[i], decLen[i]>>>>
        BY <3>3 DEF HiddenParts, Paged!Token
      <4>2. <<seq[i], decLen[i]>> \in TokenSet
        BY <3>1 DEF TokenSet
      <4>3. Paged!Tokens[i] = 1
        BY <3>1, <3>3 DEF Paged!Tokens, Paged!DecodeLen
      <4>4. QED BY <4>1, <4>2, <4>3
    <3>4. CASE ~(encLen[i] > 0) /\ ~(decLen[i] > 0)
      <4>1. HiddenParts[i] = <<>> /\ Paged!Tokens[i] = 0
        BY <3>1, <3>4 DEF HiddenParts, Paged!Tokens, Paged!DecodeLen
      <4>2. QED BY <4>1
    <3>5. QED BY <3>2, <3>3, <3>4
  <2>2. HiddenParts \in [Paged!Row -> Seq(TokenSet)]
    BY <2>1 DEF HiddenParts
  <2>3. QED BY <2>1, <2>2 DEF Parts, Paged!Row
<1>3. Paged!Hidden = Paged!FlattenSeq(HiddenParts)
  BY DEF Paged!Hidden, HiddenParts
<1>4. QED BY <1>1, <1>2, <1>3, FlattenPacked

HiddenEnd == Paged!Offset(Paged!Tokens)
EncoderEnd == Paged!Offset(encLen)
DecoderEnd == Paged!Offset(Ones)

InEncoderParts ==
  [i \in Paged!Row |->
    IF encLen[i] > 0 THEN SubSeq(Paged!Hidden, HiddenEnd[i - 1] + 1, HiddenEnd[i]) ELSE <<>>]
InDecoderParts ==
  [i \in Paged!Row |->
    IF encLen[i] = 0 /\ Paged!DecodeLen(i) > 0 THEN <<Paged!Hidden[HiddenEnd[i - 1] + 1]>> ELSE <<>>]

LEMMA HiddenRow ==
  ASSUME BatchTypes, NEW i \in Paged!Row
  PROVE  /\ HiddenEnd[i - 1] \in Nat /\ HiddenEnd[i] = HiddenEnd[i - 1] + Paged!Tokens[i]
         /\ Paged!Tokens[i] \in Nat
         /\ Paged!Hidden \in Seq(TokenSet) /\ HiddenEnd[i] <= Len(Paged!Hidden)
         /\ \A k \in 1..Paged!Tokens[i] : Paged!Hidden[HiddenEnd[i - 1] + k] = HiddenParts[i][k]
<1>1. Ends(HiddenEnd, Rows, Paged!Tokens) /\ Rows \in Nat
  BY BatchCounts, OffsetEnds DEF HiddenEnd
<1>2. Packed(Paged!Hidden, HiddenParts, TokenSet, Rows, Paged!Tokens, HiddenEnd)
  BY HiddenPacked DEF HiddenEnd
<1>3. i \in 1..Rows
  BY DEF Paged!Row
<1>4. /\ HiddenEnd[i - 1] \in Nat /\ HiddenEnd[i] = HiddenEnd[i - 1] + Paged!Tokens[i]
      /\ Paged!Tokens[i] \in Nat
  BY <1>1, <1>3 DEF Ends
<1>5. HiddenEnd[i] <= HiddenEnd[Rows]
  <2> DEFINE T == {j \in Nat : i + j <= Rows => HiddenEnd[i] <= HiddenEnd[i + j]}
  <2>1. 0 \in T
    BY <1>1, <1>3 DEF Ends
  <2>2. ASSUME NEW j \in Nat, j \in T  PROVE j + 1 \in T
    <3> SUFFICES ASSUME i + (j + 1) <= Rows  PROVE HiddenEnd[i] <= HiddenEnd[i + (j + 1)]
      OBVIOUS
    <3>1. i + (j + 1) \in 1..Rows /\ (i + (j + 1)) - 1 = i + j /\ i + j \in 0..Rows
      BY <1>1, <1>3
    <3>2. HiddenEnd[i + (j + 1)] = HiddenEnd[i + j] + Paged!Tokens[i + (j + 1)]
      BY <1>1, <3>1 DEF Ends
    <3>3. HiddenEnd[i + j] \in Nat /\ Paged!Tokens[i + (j + 1)] \in Nat /\ HiddenEnd[i] \in Nat
      BY <1>1, <1>3, <3>1 DEF Ends
    <3>4. QED BY <2>2, <3>1, <3>2, <3>3
  <2>3. Rows - i \in Nat
    BY <1>1, <1>3
  <2>4. Rows - i \in T
    <3> HIDE DEF T
    <3>1. QED BY <2>1, <2>2, <2>3, Induction
  <2>5. i + (Rows - i) = Rows
    BY <1>1, <1>3
  <2>6. i + (Rows - i) <= Rows
    BY <2>5, <1>1
  <2>7. HiddenEnd[i] <= HiddenEnd[i + (Rows - i)]
    BY <2>4, <2>6
  <2>8. QED BY <2>5, <2>7, Zenon
<1>6. QED BY <1>2, <1>3, <1>4, <1>5 DEF Packed

LEMMA InEncoderPacked ==
  ASSUME BatchTypes
  PROVE  Packed(Paged!InEncoder, InEncoderParts, TokenSet, Rows, encLen, EncoderEnd)
<1>1. Ends(EncoderEnd, Rows, encLen) /\ Rows \in Nat
  BY BatchCounts, OffsetEnds DEF EncoderEnd
<1>2. Parts(InEncoderParts, TokenSet, Rows, encLen)
  <2>1. ASSUME NEW i \in Paged!Row
        PROVE  InEncoderParts[i] \in Seq(TokenSet) /\ Len(InEncoderParts[i]) = encLen[i]
    <3>1. encLen[i] \in Nat
      BY DEF BatchTypes, PagedTypes
    <3>2. CASE encLen[i] > 0
      <4>1. InEncoderParts[i] = SubSeq(Paged!Hidden, HiddenEnd[i - 1] + 1, HiddenEnd[i])
        BY <3>2 DEF InEncoderParts
      <4>2. Paged!Tokens[i] = encLen[i]
        BY <3>2 DEF Paged!Tokens
      <4>3. /\ HiddenEnd[i - 1] \in Nat /\ HiddenEnd[i] = HiddenEnd[i - 1] + encLen[i]
            /\ Paged!Hidden \in Seq(TokenSet) /\ HiddenEnd[i] <= Len(Paged!Hidden)
        BY <4>2, HiddenRow
      <4>4. QED BY <3>1, <3>2, <4>1, <4>3
    <3>3. CASE ~(encLen[i] > 0)
      <4>1. InEncoderParts[i] = <<>> /\ encLen[i] = 0
        BY <3>1, <3>3 DEF InEncoderParts
      <4>2. QED BY <4>1
    <3>4. QED BY <3>2, <3>3
  <2>2. InEncoderParts \in [Paged!Row -> Seq(TokenSet)]
    BY <2>1 DEF InEncoderParts
  <2>3. QED BY <2>1, <2>2 DEF Parts, Paged!Row
<1>3. Paged!InEncoder = Paged!FlattenSeq(InEncoderParts)
  BY DEF Paged!InEncoder, InEncoderParts, HiddenEnd
<1>4. QED BY <1>1, <1>2, <1>3, FlattenPacked

LEMMA InEncoderRow ==
  ASSUME BatchTypes, NEW i \in Paged!Row, NEW n \in 1..encLen[i]
  PROVE  InEncoderParts[i][n] = Paged!Token(seq[i], n - 1)
<1>1. encLen[i] \in Nat /\ encLen[i] > 0
  BY DEF BatchTypes, PagedTypes
<1>2. InEncoderParts[i] = SubSeq(Paged!Hidden, HiddenEnd[i - 1] + 1, HiddenEnd[i])
  BY <1>1 DEF InEncoderParts
<1>3. Paged!Tokens[i] = encLen[i]
  BY <1>1 DEF Paged!Tokens
<1>4. /\ HiddenEnd[i - 1] \in Nat /\ HiddenEnd[i] = HiddenEnd[i - 1] + encLen[i]
      /\ Paged!Hidden \in Seq(TokenSet) /\ HiddenEnd[i] <= Len(Paged!Hidden)
      /\ Paged!Hidden[HiddenEnd[i - 1] + n] = HiddenParts[i][n]
  BY <1>3, HiddenRow
<1>5. SubSeq(Paged!Hidden, HiddenEnd[i - 1] + 1, HiddenEnd[i])[n] = Paged!Hidden[HiddenEnd[i - 1] + n]
  BY <1>1, <1>4
<1>6. HiddenParts[i][n] = Paged!Token(seq[i], n - 1)
  BY <1>1 DEF HiddenParts
<1>7. QED BY <1>2, <1>4, <1>5, <1>6

LEMMA InDecoderPacked ==
  ASSUME BatchTypes
  PROVE  Packed(Paged!InDecoder, InDecoderParts, TokenSet, Rows, Ones, DecoderEnd)
<1>1. Ends(DecoderEnd, Rows, Ones) /\ Rows \in Nat
  BY BatchCounts, OffsetEnds DEF DecoderEnd
<1>2. Parts(InDecoderParts, TokenSet, Rows, Ones)
  <2>1. ASSUME NEW i \in Paged!Row
        PROVE  InDecoderParts[i] \in Seq(TokenSet) /\ Len(InDecoderParts[i]) = Ones[i]
    <3>1. encLen[i] \in Nat /\ decLen[i] \in Nat /\ (encLen[i] = 0 \/ decLen[i] = 0)
      BY DEF BatchTypes, PagedTypes, RowsLive
    <3>2. CASE Paged!DecodeLen(i) > 0
      <4>1. encLen[i] = 0 /\ Ones[i] = 1 /\ Paged!Tokens[i] = 1
        BY <3>1, <3>2 DEF Ones, Paged!Tokens, Paged!DecodeLen
      <4>2. InDecoderParts[i] = <<Paged!Hidden[HiddenEnd[i - 1] + 1]>>
        BY <3>2, <4>1 DEF InDecoderParts
      <4>3. /\ HiddenEnd[i - 1] \in Nat /\ HiddenEnd[i] = HiddenEnd[i - 1] + 1
            /\ Paged!Hidden \in Seq(TokenSet) /\ HiddenEnd[i] <= Len(Paged!Hidden)
        BY <4>1, HiddenRow
      <4>4. Paged!Hidden[HiddenEnd[i - 1] + 1] \in TokenSet
        BY <4>3
      <4>5. QED BY <4>1, <4>2, <4>4
    <3>3. CASE ~(Paged!DecodeLen(i) > 0)
      <4>1. InDecoderParts[i] = <<>> /\ Ones[i] = 0
        BY <3>3 DEF InDecoderParts, Ones
      <4>2. QED BY <4>1
    <3>4. QED BY <3>2, <3>3
  <2>2. InDecoderParts \in [Paged!Row -> Seq(TokenSet)]
    BY <2>1 DEF InDecoderParts
  <2>3. QED BY <2>1, <2>2 DEF Parts, Paged!Row
<1>3. Paged!InDecoder = Paged!FlattenSeq(InDecoderParts)
  BY DEF Paged!InDecoder, InDecoderParts, HiddenEnd
<1>4. QED BY <1>1, <1>2, <1>3, FlattenPacked

LEMMA InDecoderRow ==
  ASSUME BatchTypes, NEW i \in Paged!Row, Paged!DecodeLen(i) > 0
  PROVE  InDecoderParts[i][1] = Paged!Token(seq[i], decLen[i])
<1>1. encLen[i] = 0 /\ decLen[i] > 0 /\ Paged!Tokens[i] = 1
  BY DEF BatchTypes, PagedTypes, RowsLive, Paged!Tokens, Paged!DecodeLen
<1>2. InDecoderParts[i] = <<Paged!Hidden[HiddenEnd[i - 1] + 1]>>
  BY <1>1 DEF InDecoderParts
<1>3. Paged!Hidden[HiddenEnd[i - 1] + 1] = HiddenParts[i][1]
  BY <1>1, HiddenRow
<1>4. HiddenParts[i] = <<Paged!Token(seq[i], decLen[i])>>
  BY <1>1 DEF HiddenParts
<1>5. QED BY <1>2, <1>3, <1>4

-----------------------------------------------------------------------------
(* The block and the place in it of token n of row i.                      *)
LEMMA BlockAt ==
  ASSUME BatchTypes, NEW i \in Paged!Row, seq[i] # Nothing, NEW n \in Nat, n < MaxLen
  PROVE  \E q \in Nat, t \in 0..BlockSize - 1 :
           /\ q = n \div BlockSize /\ t = n % BlockSize /\ n = q * BlockSize + t
           /\ q + 1 \in DOMAIN table[i] /\ table[i][q + 1] \in Blocks /\ table[i][q + 1] \in Nat
           /\ Paged!Place(i, n) = table[i][q + 1] * BlockSize + t
<1>1. /\ BlockSize \in Nat \ {0} /\ RowBlocks \in Nat /\ Blocks \subseteq Nat
      /\ MaxLen \in Nat /\ MaxLen <= BlockSize * RowBlocks
  BY BatchAssumption
<1>2. PICK q \in Nat, t \in 0..BlockSize - 1 :
        q = n \div BlockSize /\ t = n % BlockSize /\ n = q * BlockSize + t
  BY <1>1, Divided
<1>3. n < RowBlocks * BlockSize
  BY <1>1
<1>4. q < RowBlocks
  BY <1>1, <1>2, <1>3, DividedBelow
<1>5. table[i] \in Seq(Blocks) /\ Len(table[i]) = RowBlocks
  BY DEF BatchTypes, PagedTypes, RowsLive
<1>6. q + 1 \in DOMAIN table[i] /\ table[i][q + 1] \in Blocks /\ table[i][q + 1] \in Nat
  <2>1. q + 1 \in 1..RowBlocks
    BY <1>1, <1>2, <1>4
  <2>2. DOMAIN table[i] = 1..RowBlocks
    BY <1>5
  <2>3. table[i][q + 1] \in Blocks
    BY <1>5, <2>1
  <2>4. QED BY <1>1, <2>1, <2>2, <2>3, Zenon
<1>7. Paged!Place(i, n) = table[i][q + 1] * BlockSize + t
  <2>1. n \div BlockSize = q /\ n % BlockSize = t
    BY <1>2
  <2>2. QED BY <2>1 DEF Paged!Place
<1>8. QED BY <1>2, <1>6, <1>7

(* Each token has a slot of its own.                                       *)
LEMMA PlaceIsSlot ==
  ASSUME BatchTypes, NEW i \in Paged!Row, seq[i] # Nothing, NEW n \in Nat, n < MaxLen
  PROVE  Paged!Place(i, n) \in Paged!Slot
<1>1. PICK q \in Nat, t \in 0..BlockSize - 1 :
        table[i][q + 1] \in Blocks /\ Paged!Place(i, n) = table[i][q + 1] * BlockSize + t
  BY BlockAt
<1>2. PICK b \in Blocks : b = table[i][q + 1]
  BY <1>1, Zenon
<1>3. b * BlockSize + t \in Paged!Slot
  BY DEF Paged!Slot
<1>4. QED BY <1>1, <1>2, <1>3, Zenon

LEMMA PlaceOnce ==
  ASSUME BatchTypes, BlocksOwned,
         NEW i \in Paged!Row, seq[i] # Nothing, NEW n \in Nat, n < MaxLen,
         NEW j \in Paged!Row, seq[j] # Nothing, NEW m \in Nat, m < MaxLen,
         Paged!Place(i, n) = Paged!Place(j, m)
  PROVE  i = j /\ n = m
<1>1. PICK q \in Nat, t \in 0..BlockSize - 1 :
        /\ n = q * BlockSize + t
        /\ q + 1 \in DOMAIN table[i] /\ table[i][q + 1] \in Nat
        /\ Paged!Place(i, n) = table[i][q + 1] * BlockSize + t
  BY BlockAt
<1>2. PICK p \in Nat, u \in 0..BlockSize - 1 :
        /\ m = p * BlockSize + u
        /\ p + 1 \in DOMAIN table[j] /\ table[j][p + 1] \in Nat
        /\ Paged!Place(j, m) = table[j][p + 1] * BlockSize + u
  BY BlockAt
<1>3. PICK a \in Nat, b \in Nat : a = table[i][q + 1] /\ b = table[j][p + 1]
  BY <1>1, <1>2
<1>4. BlockSize \in Nat \ {0} /\ a * BlockSize + t = b * BlockSize + u
  BY <1>1, <1>2, <1>3, BatchAssumption
<1>5. a = b /\ t = u
  BY <1>4, DividedOnce
<1>6. i = j /\ q + 1 = p + 1
  <2>1. table[i][q + 1] = table[j][p + 1]
    BY <1>3, <1>5, Zenon
  <2>2. PICK x \in DOMAIN table[i], y \in DOMAIN table[j] :
          x = q + 1 /\ y = p + 1 /\ table[i][x] = table[j][y]
    BY <1>1, <1>2, <2>1, Zenon
  <2>3. i = j /\ x = y
    BY <2>2, Zenon DEF BlocksOwned
  <2>4. QED BY <2>2, <2>3, Zenon
<1>7. q = p
  BY <1>6
<1>8. QED BY <1>1, <1>2, <1>5, <1>6, <1>7

-----------------------------------------------------------------------------
LEMMA IntervalIs ==
  ASSUME NEW from \in Int, NEW count \in Nat
  PROVE  /\ Paged!Interval(from, count) \in Seq(Int) /\ Len(Paged!Interval(from, count)) = count
         /\ \A k \in 1..count : Paged!Interval(from, count)[k] = from + k - 1
BY DEF Paged!Interval

(* The slots of a prompt: its whole blocks, and the begun one.             *)
LEMMA SlotsRow ==
  ASSUME BatchTypes, NEW i \in Paged!Row, encLen[i] > 0
  PROVE  /\ Paged!SlotsOf(i) \in Seq(Int) /\ Len(Paged!SlotsOf(i)) = encLen[i]
         /\ \A n \in 0..encLen[i] - 1 : Paged!SlotsOf(i)[n + 1] = Paged!Place(i, n)
<1>1. /\ BlockSize \in Nat \ {0} /\ RowBlocks \in Nat /\ Blocks \subseteq Nat
      /\ MaxLen \in Nat /\ MaxLen <= BlockSize * RowBlocks
  BY BatchAssumption
<1>2. encLen[i] \in Nat /\ encLen[i] <= MaxLen /\ seq[i] # Nothing /\ table[i] \in Seq(Blocks)
  BY <1>1 DEF BatchTypes, PagedTypes, RowsLive
<1>3. PICK q \in Nat, t \in 0..BlockSize - 1 :
        q = encLen[i] \div BlockSize /\ t = encLen[i] % BlockSize /\ encLen[i] = q * BlockSize + t
  BY <1>1, <1>2, Divided
<1> DEFINE first(j) == table[i][j] * BlockSize
           parts == [j \in 1..q |-> Paged!Interval(first(j), BlockSize)]
           count == [j \in 1..q |-> BlockSize]
           end == [j \in 0..q |-> j * BlockSize]
           whole == Paged!FlattenSeq(parts)
           tail == IF t = 0 THEN <<>> ELSE Paged!Interval(first(q + 1), t)
<1>4. Paged!SlotsOf(i) = whole \o tail
  <2>1. encLen[i] \div BlockSize = q /\ encLen[i] % BlockSize = t
    BY <1>3
  <2>2. QED BY <2>1 DEF Paged!SlotsOf
(* The block of a token of the prompt.                                     *)
<1>5. ASSUME NEW j \in Nat, j * BlockSize < encLen[i]
      PROVE  table[i][j + 1] \in Nat /\ first(j + 1) \in Int
  <2>1. PICK n \in Nat : n = j * BlockSize
    BY <1>1
  <2>2. n < MaxLen
    BY <1>1, <1>2, <1>5, <2>1
  <2>3. PICK p \in Nat, u \in 0..BlockSize - 1 :
          n = p * BlockSize + u /\ table[i][p + 1] \in Nat
    BY <1>2, <2>2, BlockAt
  <2>4. 0 \in 0..BlockSize - 1 /\ j * BlockSize + 0 = p * BlockSize + u
    BY <1>1, <2>1, <2>3
  <2>5. j = p
    BY <1>1, <2>4, DividedOnce
  <2>6. PICK b \in Nat : b = table[i][j + 1]
    BY <2>3, <2>5
  <2>7. b * BlockSize \in Int
    BY <1>1
  <2>8. QED BY <2>6, <2>7
<1>6. Ends(end, q, count)
  <2>1. ASSUME NEW j \in 0..q  PROVE j * BlockSize \in Nat
    BY <1>1
  <2>2. ASSUME NEW j \in 1..q  PROVE j * BlockSize = (j - 1) * BlockSize + BlockSize
    BY <1>1
  <2>3. 0 * BlockSize = 0
    BY <1>1
  <2>4. end \in [0..q -> Nat] /\ count \in [1..q -> Nat] /\ end[0] = 0
    BY <2>1, <2>3, <1>1
  <2>5. ASSUME NEW j \in 1..q  PROVE end[j] = end[j - 1] + count[j]
    <3>1. end[j] = j * BlockSize /\ end[j - 1] = (j - 1) * BlockSize /\ count[j] = BlockSize
      OBVIOUS
    <3>2. QED BY <3>1, <2>2
  <2>6. QED BY <2>4, <2>5 DEF Ends
<1>7. Parts(parts, Int, q, count)
  <2>1. ASSUME NEW j \in 1..q
        PROVE  parts[j] \in Seq(Int) /\ Len(parts[j]) = count[j]
    <3>1. j - 1 \in Nat /\ (j - 1) + 1 = j
      OBVIOUS
    <3>2. (j - 1) * BlockSize < q * BlockSize
      BY <1>1
    <3>3. (j - 1) * BlockSize < encLen[i]
      <4>1. PICK a \in Int, b \in Int : a = (j - 1) * BlockSize /\ b = q * BlockSize
        BY <1>1, <3>1
      <4>2. a < b /\ encLen[i] = b + t
        BY <1>3, <3>2, <4>1
      <4>3. QED BY <4>1, <4>2
    <3>4. first(j) \in Int
      BY <1>5, <3>1, <3>3
    <3>5. parts[j] = Paged!Interval(first(j), BlockSize) /\ count[j] = BlockSize
      OBVIOUS
    <3>6. PICK from \in Int : from = first(j)
      BY <3>4
    <3>7. /\ Paged!Interval(from, BlockSize) \in Seq(Int)
          /\ Len(Paged!Interval(from, BlockSize)) = BlockSize
      BY <1>1, IntervalIs
    <3> HIDE DEF first, parts, count
    <3>8. QED BY <3>5, <3>6, <3>7
  <2>2. parts = [j \in 1..q |-> parts[j]]
    OBVIOUS
  <2> HIDE DEF parts, count
  <2>3. parts \in [1..q -> Seq(Int)]
    BY <2>1, <2>2
  <2>4. QED BY <2>1, <2>3 DEF Parts
<1>8. Packed(whole, parts, Int, q, count, end)
  <2> HIDE DEF parts, count, end
  <2>1. QED BY <1>6, <1>7, FlattenPacked
<1>9. PICK w \in Nat : w = q * BlockSize
  BY <1>1
<1>10. end[q] = w
  BY <1>9
<1>11. tail \in Seq(Int) /\ Len(tail) = t /\ (t > 0 => first(q + 1) \in Int)
  <2>1. CASE t = 0
    BY <2>1
  <2>2. CASE t # 0
    <3>1. first(q + 1) \in Int
      <4>1. q * BlockSize < encLen[i]
        BY <1>3, <1>9, <2>2
      <4>2. QED BY <1>5, <4>1
    <3> HIDE DEF first
    <3>2. QED BY <2>2, <3>1, IntervalIs
  <2>3. QED BY <2>1, <2>2
<1>12. whole \in Seq(Int) /\ Len(whole) = w
  <2> HIDE DEF whole, end
  <2>1. QED BY <1>8, <1>10 DEF Packed
<1>13. /\ whole \o tail \in Seq(Int) /\ Len(whole \o tail) = w + t
       /\ \A k \in 1..w : (whole \o tail)[k] = whole[k]
       /\ \A k \in 1..t : (whole \o tail)[w + k] = tail[k]
  <2> HIDE DEF whole, tail
  <2>1. PICK a \in Seq(Int), b \in Seq(Int) : a = whole /\ b = tail
    BY <1>11, <1>12
  <2>2. Len(a) = w /\ Len(b) = t
    BY <1>11, <1>12, <2>1
  <2>3. /\ a \o b \in Seq(Int) /\ Len(a \o b) = Len(a) + Len(b)
        /\ \A k \in 1..Len(a) : (a \o b)[k] = a[k]
        /\ \A k \in 1..Len(b) : (a \o b)[Len(a) + k] = b[k]
    BY Concatenation
  <2>4. QED BY <2>1, <2>2, <2>3
<1>14. ASSUME NEW n \in 0..encLen[i] - 1  PROVE (whole \o tail)[n + 1] = Paged!Place(i, n)
  <2>1. PICK p \in Nat, u \in 0..BlockSize - 1 :
          /\ n = p * BlockSize + u
          /\ table[i][p + 1] \in Nat
          /\ Paged!Place(i, n) = table[i][p + 1] * BlockSize + u
    <3>1. n \in Nat /\ n < MaxLen
      BY <1>1, <1>2
    <3>2. QED BY <1>2, <3>1, BlockAt
  <2>2. first(p + 1) \in Int /\ Paged!Place(i, n) = first(p + 1) + (u + 1) - 1
    <3>1. PICK b \in Nat : b = table[i][p + 1]
      BY <2>1
    <3>2. b * BlockSize \in Int
      BY <1>1
    <3>3. first(p + 1) \in Int /\ Paged!Place(i, n) = first(p + 1) + u
      BY <2>1, <3>1, <3>2
    <3> HIDE DEF first
    <3>4. QED BY <3>3
  <2>3. CASE p < q
    <3>1. p + 1 \in 1..q /\ (p + 1) - 1 = p /\ u + 1 \in 1..BlockSize
      BY <1>1, <2>3
    <3>2. end[(p + 1) - 1] = p * BlockSize /\ count[p + 1] = BlockSize
      BY <3>1
    <3>3. end[(p + 1) - 1] + (u + 1) \in 1..end[q] /\ whole[end[(p + 1) - 1] + (u + 1)] = parts[p + 1][u + 1]
      <4> HIDE DEF whole, parts, end, count
      <4>1. QED BY <1>8, <3>1, <3>2 DEF Packed
    <3>4. PICK e \in Nat : e = p * BlockSize
      BY <1>1
    <3>5. e + (u + 1) = n + 1 /\ end[(p + 1) - 1] = e
      BY <2>1, <3>2, <3>4
    <3>6. n + 1 \in 1..w /\ whole[n + 1] = parts[p + 1][u + 1]
      <4> HIDE DEF whole, parts, end, count
      <4>1. QED BY <3>3, <3>5, <1>10
    <3>7. parts[p + 1] = Paged!Interval(first(p + 1), BlockSize)
      BY <3>1
    <3> HIDE DEF whole, parts, end, count, tail, first
    <3>8. parts[p + 1][u + 1] = first(p + 1) + (u + 1) - 1
      BY <1>1, <2>2, <3>1, <3>7, IntervalIs
    <3>9. QED BY <1>13, <2>2, <3>6, <3>8
  <2>4. CASE p >= q
    <3>1. p = q
      <4> SUFFICES ASSUME q + 1 <= p  PROVE FALSE
        BY <2>4
      <4>1. (q + 1) * BlockSize <= p * BlockSize
        BY <1>1
      <4>2. q * BlockSize + BlockSize <= p * BlockSize
        BY <1>1, <4>1
      <4>3. QED BY <1>1, <1>3, <2>1, <4>2
    <3>2. n = w + u /\ encLen[i] = w + t
      BY <1>3, <1>9, <2>1, <3>1
    <3>3. u + 1 \in 1..t /\ w + (u + 1) = n + 1 /\ t # 0
      BY <3>2, <1>2
    <3>4. tail = Paged!Interval(first(p + 1), t)
      BY <3>1, <3>3
    <3> HIDE DEF whole, tail, first
    <3>5. PICK from \in Int : from = first(p + 1)
      BY <2>2
    <3>6. Paged!Interval(from, t)[u + 1] = from + (u + 1) - 1
      BY <3>3, IntervalIs
    <3>7. tail[u + 1] = first(p + 1) + (u + 1) - 1
      BY <3>4, <3>5, <3>6
    <3>8. (whole \o tail)[w + (u + 1)] = tail[u + 1]
      BY <1>13, <3>3
    <3>9. (whole \o tail)[n + 1] = tail[u + 1]
      BY <3>3, <3>8
    <3>10. QED BY <2>2, <3>7, <3>9
  <2>5. p < q \/ p >= q
    OBVIOUS
  <2>6. QED BY <2>3, <2>4, <2>5, Zenon
<1>15. encLen[i] = w + t
  BY <1>3, <1>9
<1> HIDE DEF whole, tail
<1>16. QED BY <1>4, <1>13, <1>14, <1>15

-----------------------------------------------------------------------------
SlotsEncoderParts == [i \in Paged!Row |-> IF encLen[i] > 0 THEN Paged!SlotsOf(i) ELSE <<>>]
RopeEncoderParts == [i \in Paged!Row |-> Paged!Interval(0, encLen[i])]
SlotsDecoderParts ==
  [i \in Paged!Row |->
    IF Paged!DecodeLen(i) = 0 THEN <<>>
    ELSE <<table[i][(Paged!DecodeLen(i) - 1) \div BlockSize + 1] * BlockSize
           + ((Paged!DecodeLen(i) - 1) % BlockSize)>>]
RopeDecoderParts ==
  [i \in Paged!Row |-> IF Paged!DecodeLen(i) > 0 THEN <<Paged!DecodeLen(i) - 1>> ELSE <<>>]

LEMMA SlotsEncoderPacked ==
  ASSUME BatchTypes
  PROVE  Packed(Paged!SlotsEncoder, SlotsEncoderParts, Int, Rows, encLen, EncoderEnd)
<1>1. Ends(EncoderEnd, Rows, encLen) /\ Rows \in Nat
  BY BatchCounts, OffsetEnds DEF EncoderEnd
<1>2. Parts(SlotsEncoderParts, Int, Rows, encLen)
  <2>1. ASSUME NEW i \in Paged!Row
        PROVE  SlotsEncoderParts[i] \in Seq(Int) /\ Len(SlotsEncoderParts[i]) = encLen[i]
    <3>1. encLen[i] \in Nat
      BY DEF BatchTypes, PagedTypes
    <3>2. CASE encLen[i] > 0
      <4>1. SlotsEncoderParts[i] = Paged!SlotsOf(i)
        BY <3>2 DEF SlotsEncoderParts
      <4>2. QED BY <3>2, <4>1, SlotsRow
    <3>3. CASE ~(encLen[i] > 0)
      <4>1. SlotsEncoderParts[i] = <<>> /\ encLen[i] = 0
        BY <3>1, <3>3 DEF SlotsEncoderParts
      <4>2. QED BY <4>1
    <3>4. QED BY <3>2, <3>3
  <2>2. SlotsEncoderParts \in [Paged!Row -> Seq(Int)]
    BY <2>1 DEF SlotsEncoderParts
  <2>3. QED BY <2>1, <2>2 DEF Parts, Paged!Row
<1>3. Paged!SlotsEncoder = Paged!FlattenSeq(SlotsEncoderParts)
  BY DEF Paged!SlotsEncoder, SlotsEncoderParts
<1>4. QED BY <1>1, <1>2, <1>3, FlattenPacked

LEMMA RopeEncoderPacked ==
  ASSUME BatchTypes
  PROVE  Packed(Paged!RopeEncoder, RopeEncoderParts, Int, Rows, encLen, EncoderEnd)
<1>1. Ends(EncoderEnd, Rows, encLen) /\ Rows \in Nat
  BY BatchCounts, OffsetEnds DEF EncoderEnd
<1>2. Parts(RopeEncoderParts, Int, Rows, encLen)
  <2>1. ASSUME NEW i \in Paged!Row
        PROVE  RopeEncoderParts[i] \in Seq(Int) /\ Len(RopeEncoderParts[i]) = encLen[i]
    <3>1. encLen[i] \in Nat /\ 0 \in Int
      BY DEF BatchTypes, PagedTypes
    <3>2. RopeEncoderParts[i] = Paged!Interval(0, encLen[i])
      BY DEF RopeEncoderParts
    <3>3. QED BY <3>1, <3>2, IntervalIs
  <2>2. RopeEncoderParts \in [Paged!Row -> Seq(Int)]
    BY <2>1 DEF RopeEncoderParts
  <2>3. QED BY <2>1, <2>2 DEF Parts, Paged!Row
<1>3. Paged!RopeEncoder = Paged!FlattenSeq(RopeEncoderParts)
  BY DEF Paged!RopeEncoder, RopeEncoderParts
<1>4. QED BY <1>1, <1>2, <1>3, FlattenPacked

(* A row of a stage: which token it is, where it goes in the cache and by  *)
(* what it is rotated.                                                     *)
EncoderRow(p, i, m) ==
  /\ Paged!InEncoder[p] = Paged!Token(seq[i], m)
  /\ Paged!SlotsEncoder[p] = Paged!Place(i, m)
  /\ Paged!RopeEncoder[p] = m
DecoderRow(p, i) ==
  /\ Paged!InDecoder[p] = Paged!Token(seq[i], decLen[i])
  /\ Paged!SlotsDecoder[p] = Paged!Place(i, decLen[i])
  /\ Paged!RopeDecoder[p] = decLen[i]

(* The rows of the prefill are the tokens of the prompts, each once; those *)
(* of the decoder the one token of every sequence that is decoded.         *)
LEMMA EncoderRows ==
  ASSUME BatchTypes
  PROVE  /\ Paged!InEncoder \in Seq(TokenSet)
         /\ \A i \in Paged!Row : \A m \in 0..encLen[i] - 1 :
              /\ EncoderEnd[i - 1] + (m + 1) \in DOMAIN Paged!InEncoder
              /\ EncoderRow(EncoderEnd[i - 1] + (m + 1), i, m)
         /\ \A p \in DOMAIN Paged!InEncoder : \E i \in Paged!Row : \E m \in 0..encLen[i] - 1 :
              EncoderRow(p, i, m)
<1>1. /\ Packed(Paged!InEncoder, InEncoderParts, TokenSet, Rows, encLen, EncoderEnd)
      /\ Packed(Paged!SlotsEncoder, SlotsEncoderParts, Int, Rows, encLen, EncoderEnd)
      /\ Packed(Paged!RopeEncoder, RopeEncoderParts, Int, Rows, encLen, EncoderEnd)
  BY InEncoderPacked, SlotsEncoderPacked, RopeEncoderPacked
<1>2. /\ Paged!InEncoder \in Seq(TokenSet) /\ DOMAIN Paged!InEncoder = 1..EncoderEnd[Rows]
      /\ Covered(Rows, encLen, EncoderEnd)
  <2>1. Paged!InEncoder \in Seq(TokenSet) /\ Len(Paged!InEncoder) = EncoderEnd[Rows]
    BY <1>1 DEF Packed
  <2>2. Covered(Rows, encLen, EncoderEnd)
    BY <1>1 DEF Packed
  <2>3. QED BY <2>1, <2>2
<1>3. ASSUME NEW i \in Paged!Row, NEW k \in 1..encLen[i]
      PROVE  /\ EncoderEnd[i - 1] + k \in DOMAIN Paged!InEncoder
             /\ EncoderRow(EncoderEnd[i - 1] + k, i, k - 1)
  <2>1. i \in 1..Rows
    BY DEF Paged!Row
  <2>2. /\ EncoderEnd[i - 1] + k \in 1..EncoderEnd[Rows]
        /\ Paged!InEncoder[EncoderEnd[i - 1] + k] = InEncoderParts[i][k]
        /\ Paged!SlotsEncoder[EncoderEnd[i - 1] + k] = SlotsEncoderParts[i][k]
        /\ Paged!RopeEncoder[EncoderEnd[i - 1] + k] = RopeEncoderParts[i][k]
    BY <1>1, <2>1, Zenon DEF Packed
  <2>3. encLen[i] \in Nat /\ encLen[i] > 0 /\ k - 1 \in 0..encLen[i] - 1 /\ (k - 1) + 1 = k
    BY DEF BatchTypes, PagedTypes
  <2>4. InEncoderParts[i][k] = Paged!Token(seq[i], k - 1)
    BY InEncoderRow
  <2>5. SlotsEncoderParts[i][k] = Paged!Place(i, k - 1)
    <3>1. SlotsEncoderParts[i] = Paged!SlotsOf(i)
      BY <2>3 DEF SlotsEncoderParts
    <3>2. Paged!SlotsOf(i)[(k - 1) + 1] = Paged!Place(i, k - 1)
      BY <2>3, SlotsRow
    <3>3. QED BY <2>3, <3>1, <3>2, Zenon
  <2>6. RopeEncoderParts[i][k] = k - 1
    <3>1. RopeEncoderParts[i] = Paged!Interval(0, encLen[i])
      BY DEF RopeEncoderParts
    <3>2. Paged!Interval(0, encLen[i])[k] = 0 + k - 1
      <4>1. PICK c \in Nat, z \in Int : c = encLen[i] /\ z = 0
        BY <2>3
      <4>2. Paged!Interval(z, c)[k] = z + k - 1
        BY <4>1, IntervalIs
      <4>3. QED BY <4>1, <4>2
    <3>3. QED BY <3>1, <3>2
  <2>7. QED BY <1>2, <2>2, <2>4, <2>5, <2>6, Zenon DEF EncoderRow
<1>4. ASSUME NEW i \in Paged!Row, NEW m \in 0..encLen[i] - 1
      PROVE  /\ EncoderEnd[i - 1] + (m + 1) \in DOMAIN Paged!InEncoder
             /\ EncoderRow(EncoderEnd[i - 1] + (m + 1), i, m)
  <2>1. encLen[i] \in Nat
    BY DEF BatchTypes, PagedTypes
  <2>2. m + 1 \in 1..encLen[i] /\ (m + 1) - 1 = m
    BY <2>1
  <2>3. PICK k \in 1..encLen[i] : k = m + 1 /\ k - 1 = m
    BY <2>2
  <2>4. QED BY <1>3, <2>3, Zenon
<1>5. ASSUME NEW p \in DOMAIN Paged!InEncoder
      PROVE  \E i \in Paged!Row : \E m \in 0..encLen[i] - 1 : EncoderRow(p, i, m)
  <2>1. PICK i \in Paged!Row : \E k \in 1..encLen[i] : p = EncoderEnd[i - 1] + k
    BY <1>2, Zenon DEF Covered, Paged!Row
  <2>2. PICK k \in 1..encLen[i] : p = EncoderEnd[i - 1] + k
    BY <2>1
  <2>3. k - 1 \in 0..encLen[i] - 1
    BY DEF BatchTypes, PagedTypes
  <2>4. QED BY <1>3, <2>2, <2>3, Zenon
<1>6. QED BY <1>2, <1>4, <1>5, Zenon

LEMMA SlotsDecoderPacked ==
  ASSUME BatchTypes, \A i \in Paged!Row : decLen[i] < MaxLen
  PROVE  /\ Packed(Paged!SlotsDecoder, SlotsDecoderParts, Int, Rows, Ones, DecoderEnd)
         /\ \A i \in Paged!Row : Paged!DecodeLen(i) > 0 =>
              SlotsDecoderParts[i][1] = Paged!Place(i, decLen[i])
<1>1. Ends(DecoderEnd, Rows, Ones) /\ Rows \in Nat
  BY BatchCounts, OffsetEnds DEF DecoderEnd
<1>2. ASSUME NEW i \in Paged!Row, Paged!DecodeLen(i) > 0
      PROVE  SlotsDecoderParts[i] = <<Paged!Place(i, decLen[i])>> /\ Paged!Place(i, decLen[i]) \in Int
  <2>1. decLen[i] \in Nat /\ Paged!DecodeLen(i) = decLen[i] + 1 /\ seq[i] # Nothing /\ decLen[i] < MaxLen
    BY <1>2 DEF BatchTypes, PagedTypes, RowsLive, Paged!DecodeLen
  <2>2. Paged!DecodeLen(i) - 1 = decLen[i] /\ Paged!DecodeLen(i) # 0
    BY <2>1
  <2>3. SlotsDecoderParts[i] = <<Paged!Place(i, decLen[i])>>
    BY <2>2 DEF SlotsDecoderParts, Paged!Place
  <2>4. PICK q \in Nat, t \in 0..BlockSize - 1 :
          /\ table[i][q + 1] \in Nat
          /\ Paged!Place(i, decLen[i]) = table[i][q + 1] * BlockSize + t
    BY <2>1, BlockAt
  <2>5. PICK b \in Nat : b = table[i][q + 1]
    BY <2>4
  <2>6. b * BlockSize + t \in Int
    BY BatchAssumption
  <2>7. QED BY <2>3, <2>4, <2>5, <2>6
<1>3. Parts(SlotsDecoderParts, Int, Rows, Ones)
  <2>1. ASSUME NEW i \in Paged!Row
        PROVE  SlotsDecoderParts[i] \in Seq(Int) /\ Len(SlotsDecoderParts[i]) = Ones[i]
    <3>1. CASE Paged!DecodeLen(i) > 0
      <4>1. Ones[i] = 1
        BY <3>1 DEF Ones
      <4>2. PICK x \in Int : x = Paged!Place(i, decLen[i])
        BY <1>2, <3>1
      <4>3. SlotsDecoderParts[i] = <<x>>
        BY <1>2, <3>1, <4>2
      <4>4. QED BY <4>1, <4>3
    <3>2. CASE ~(Paged!DecodeLen(i) > 0)
      <4>1. Paged!DecodeLen(i) = 0
        BY <3>2 DEF Paged!DecodeLen, BatchTypes, PagedTypes
      <4>2. SlotsDecoderParts[i] = <<>> /\ Ones[i] = 0
        BY <3>2, <4>1 DEF SlotsDecoderParts, Ones
      <4>3. QED BY <4>2
    <3>3. QED BY <3>1, <3>2
  <2>2. SlotsDecoderParts \in [Paged!Row -> Seq(Int)]
    BY <2>1 DEF SlotsDecoderParts
  <2>3. QED BY <2>1, <2>2 DEF Parts, Paged!Row
<1>4. Paged!SlotsDecoder = Paged!FlattenSeq(SlotsDecoderParts)
  BY DEF Paged!SlotsDecoder, SlotsDecoderParts
<1>5. \A i \in Paged!Row : Paged!DecodeLen(i) > 0 => SlotsDecoderParts[i][1] = Paged!Place(i, decLen[i])
  BY <1>2
<1>6. Packed(Paged!SlotsDecoder, SlotsDecoderParts, Int, Rows, Ones, DecoderEnd)
  BY <1>1, <1>3, <1>4, FlattenPacked
<1>7. QED BY <1>5, <1>6, Zenon

LEMMA RopeDecoderPacked ==
  ASSUME BatchTypes
  PROVE  Packed(Paged!RopeDecoder, RopeDecoderParts, Int, Rows, Ones, DecoderEnd)
<1>1. Ends(DecoderEnd, Rows, Ones) /\ Rows \in Nat
  BY BatchCounts, OffsetEnds DEF DecoderEnd
<1>2. Parts(RopeDecoderParts, Int, Rows, Ones)
  <2>1. ASSUME NEW i \in Paged!Row
        PROVE  RopeDecoderParts[i] \in Seq(Int) /\ Len(RopeDecoderParts[i]) = Ones[i]
    <3>1. Paged!DecodeLen(i) \in Nat
      BY DEF Paged!DecodeLen, BatchTypes, PagedTypes
    <3>2. QED BY <3>1 DEF RopeDecoderParts, Ones
  <2>2. RopeDecoderParts \in [Paged!Row -> Seq(Int)]
    BY <2>1 DEF RopeDecoderParts
  <2>3. QED BY <2>1, <2>2 DEF Parts, Paged!Row
<1>3. Paged!RopeDecoder = Paged!FlattenSeq(RopeDecoderParts)
  BY DEF Paged!RopeDecoder, RopeDecoderParts
<1>4. QED BY <1>1, <1>2, <1>3, FlattenPacked

LEMMA DecoderRows ==
  ASSUME BatchTypes, \A i \in Paged!Row : decLen[i] < MaxLen
  PROVE  /\ Paged!InDecoder \in Seq(TokenSet)
         /\ \A i \in Paged!Row : decLen[i] > 0 =>
              /\ DecoderEnd[i - 1] + 1 \in DOMAIN Paged!InDecoder
              /\ DecoderRow(DecoderEnd[i - 1] + 1, i)
         /\ \A p \in DOMAIN Paged!InDecoder : \E i \in Paged!Row : decLen[i] > 0 /\ DecoderRow(p, i)
<1>1. /\ Packed(Paged!InDecoder, InDecoderParts, TokenSet, Rows, Ones, DecoderEnd)
      /\ Packed(Paged!SlotsDecoder, SlotsDecoderParts, Int, Rows, Ones, DecoderEnd)
      /\ Packed(Paged!RopeDecoder, RopeDecoderParts, Int, Rows, Ones, DecoderEnd)
  BY InDecoderPacked, SlotsDecoderPacked, RopeDecoderPacked
<1>2. /\ Paged!InDecoder \in Seq(TokenSet) /\ DOMAIN Paged!InDecoder = 1..DecoderEnd[Rows]
      /\ Covered(Rows, Ones, DecoderEnd)
  <2>1. Paged!InDecoder \in Seq(TokenSet) /\ Len(Paged!InDecoder) = DecoderEnd[Rows]
    BY <1>1 DEF Packed
  <2>2. Covered(Rows, Ones, DecoderEnd)
    BY <1>1 DEF Packed
  <2>3. QED BY <2>1, <2>2
<1>3. ASSUME NEW i \in Paged!Row, decLen[i] > 0
      PROVE  /\ DecoderEnd[i - 1] + 1 \in DOMAIN Paged!InDecoder
             /\ DecoderRow(DecoderEnd[i - 1] + 1, i)
  <2>1. decLen[i] \in Nat /\ Paged!DecodeLen(i) = decLen[i] + 1
    BY <1>3 DEF BatchTypes, PagedTypes, Paged!DecodeLen
  <2>2. Paged!DecodeLen(i) > 0 /\ Paged!DecodeLen(i) - 1 = decLen[i] /\ Ones[i] = 1 /\ 1 \in 1..Ones[i]
    BY <2>1 DEF Ones
  <2>3. i \in 1..Rows
    BY DEF Paged!Row
  <2>4. /\ DecoderEnd[i - 1] + 1 \in 1..DecoderEnd[Rows]
        /\ Paged!InDecoder[DecoderEnd[i - 1] + 1] = InDecoderParts[i][1]
        /\ Paged!SlotsDecoder[DecoderEnd[i - 1] + 1] = SlotsDecoderParts[i][1]
        /\ Paged!RopeDecoder[DecoderEnd[i - 1] + 1] = RopeDecoderParts[i][1]
    BY <1>1, <2>2, <2>3, Zenon DEF Packed
  <2>5. InDecoderParts[i][1] = Paged!Token(seq[i], decLen[i])
    BY <2>2, InDecoderRow
  <2>6. SlotsDecoderParts[i][1] = Paged!Place(i, decLen[i])
    BY <2>2, SlotsDecoderPacked
  <2>7. RopeDecoderParts[i][1] = decLen[i]
    BY <2>2 DEF RopeDecoderParts
  <2>8. QED BY <1>2, <2>4, <2>5, <2>6, <2>7, Zenon DEF DecoderRow
<1>4. ASSUME NEW p \in DOMAIN Paged!InDecoder
      PROVE  \E i \in Paged!Row : decLen[i] > 0 /\ DecoderRow(p, i)
  <2>1. PICK i \in Paged!Row : \E k \in 1..Ones[i] : p = DecoderEnd[i - 1] + k
    BY <1>2, Zenon DEF Covered, Paged!Row
  <2>2. PICK k \in 1..Ones[i] : p = DecoderEnd[i - 1] + k
    BY <2>1
  <2>3. Ones[i] = 1 /\ decLen[i] > 0
    <3>1. decLen[i] \in Nat /\ Ones[i] = IF Paged!DecodeLen(i) > 0 THEN 1 ELSE 0
      BY DEF BatchTypes, PagedTypes, Ones
    <3>2. Paged!DecodeLen(i) > 0
      BY <3>1
    <3>3. QED BY <3>1, <3>2 DEF Paged!DecodeLen
  <2>4. k = 1
    BY <2>3
  <2>5. QED BY <1>3, <2>2, <2>3, <2>4, Zenon
<1>5. QED BY <1>2, <1>3, <1>4, Zenon

-----------------------------------------------------------------------------
(* What a slot holds after the rows are written, whatever their order.     *)
LEMMA WriteKeeps ==
  ASSUME NEW c, NEW slots, NEW rows, NEW s \in Paged!Slot,
         \A k \in DOMAIN rows : slots[k] # s
  PROVE  Paged!Write(c, slots, rows)[s] = c[s]
<1>1. {k \in DOMAIN rows : slots[k] = s} = {}
  OBVIOUS
<1>2. QED BY <1>1 DEF Paged!Write

LEMMA WritePuts ==
  ASSUME NEW c, NEW slots, NEW rows, NEW s \in Paged!Slot, NEW v,
         NEW k \in DOMAIN rows, slots[k] = s,
         \A j \in DOMAIN rows : slots[j] = s => rows[j] = v
  PROVE  Paged!Write(c, slots, rows)[s] = v
<1> DEFINE ks == {j \in DOMAIN rows : slots[j] = s}
           last == CHOOSE j \in ks : TRUE
<1>1. k \in ks
  OBVIOUS
<1>2. last \in ks /\ ks # {}
  BY <1>1
<1>3. rows[last] = v
  BY <1>2
<1>4. Paged!Write(c, slots, rows)[s] = IF ks = {} THEN c[s] ELSE rows[last]
  BY DEF Paged!Write
<1> HIDE DEF ks, last
<1>5. QED BY <1>2, <1>3, <1>4

-----------------------------------------------------------------------------
(* A pass.                                                                 *)
LEMMA PassFacts ==
  ASSUME BatchTypes, Paged!Pass, NEW i \in Paged!Row
  PROVE  /\ encLen[i] \in Nat /\ decLen[i] \in Nat /\ encLen[i] <= MaxLen /\ decLen[i] < MaxLen
         /\ encLen[i] = 0 \/ decLen[i] = 0
         /\ encLen[i] > 0 \/ decLen[i] > 0 => seq[i] # Nothing
         /\ encLen'[i] = 0
         /\ encLen[i] > 0 => decLen'[i] = encLen[i]
         /\ decLen[i] > 0 => decLen'[i] = decLen[i] + 1
         /\ encLen[i] = 0 /\ decLen[i] = 0 => decLen'[i] = 0
         /\ MaxLen \in Nat
BY BatchAssumption DEF BatchTypes, PagedTypes, RowsLive, Paged!Pass, Paged!DecodeLen

LEMMA PassCache ==
  ASSUME BatchInv, Paged!Pass
  PROVE  Paged!CacheIntact'
<1> DEFINE first == Paged!Write(cache, Paged!SlotsEncoder, Paged!InEncoder)
<1>1. /\ cache' = Paged!Write(first, Paged!SlotsDecoder, Paged!InDecoder)
      /\ seq' = seq /\ table' = table /\ \A i \in Paged!Row : decLen[i] < MaxLen
  BY DEF Paged!Pass
<1>2. BatchTypes /\ BlocksOwned /\ Paged!CacheIntact
  BY DEF BatchInv, BatchRight, Paged!BatchRight
<1>3. \A i, n : Paged!Place(i, n)' = Paged!Place(i, n)
  BY <1>1 DEF Paged!Place
<1> HIDE DEF first
<1> SUFFICES ASSUME NEW i \in Paged!Row, NEW n \in 0..decLen'[i] - 1
             PROVE  cache'[Paged!Place(i, n)] = Paged!Token(seq[i], n)
  <2>1. ASSUME NEW i \in Paged!Row, NEW n \in 0..decLen'[i] - 1,
               cache'[Paged!Place(i, n)] = Paged!Token(seq[i], n)
        PROVE  cache'[Paged!Place(i, n)'] = Paged!Token(seq'[i], n)
    BY <1>1, <1>3, <2>1, Zenon
  <2>2. QED BY <2>1, Zenon DEF Paged!CacheIntact, Paged!Token
<1> DEFINE s == Paged!Place(i, n)
<1>4. /\ n \in Nat /\ n < MaxLen /\ seq[i] # Nothing
      /\ (encLen[i] > 0 /\ n \in 0..encLen[i] - 1) \/ (decLen[i] > 0 /\ n \in 0..decLen[i])
  BY <1>2, PassFacts
<1>5. s \in Paged!Slot
  BY <1>2, <1>4, PlaceIsSlot
(* Who writes the slot.                                                    *)
<1>6. ASSUME NEW p \in DOMAIN Paged!InEncoder, Paged!SlotsEncoder[p] = s
      PROVE  encLen[i] > 0 /\ Paged!InEncoder[p] = Paged!Token(seq[i], n)
  <2>1. PICK j \in Paged!Row : \E m \in 0..encLen[j] - 1 : EncoderRow(p, j, m)
    BY <1>2, EncoderRows
  <2>2. PICK m \in 0..encLen[j] - 1 : EncoderRow(p, j, m)
    BY <2>1
  <2>3. Paged!Place(j, m) = Paged!Place(i, n) /\ Paged!InEncoder[p] = Paged!Token(seq[j], m)
    BY <1>6, <2>2 DEF EncoderRow
  <2>4. m \in Nat /\ m < MaxLen /\ seq[j] # Nothing /\ encLen[j] > 0
    BY <1>2, PassFacts
  <2>5. j = i /\ m = n
    BY <1>2, <1>4, <2>3, <2>4, PlaceOnce
  <2>6. QED BY <2>3, <2>4, <2>5
<1>7. ASSUME NEW p \in DOMAIN Paged!InDecoder, Paged!SlotsDecoder[p] = s
      PROVE  decLen[i] > 0 /\ n = decLen[i] /\ Paged!InDecoder[p] = Paged!Token(seq[i], n)
  <2>1. PICK j \in Paged!Row : decLen[j] > 0 /\ DecoderRow(p, j)
    BY <1>1, <1>2, DecoderRows
  <2>2. Paged!Place(j, decLen[j]) = Paged!Place(i, n) /\ Paged!InDecoder[p] = Paged!Token(seq[j], decLen[j])
    BY <1>7, <2>1 DEF DecoderRow
  <2>3. decLen[j] \in Nat /\ decLen[j] < MaxLen /\ seq[j] # Nothing
    BY <1>2, <2>1, PassFacts
  <2>4. j = i /\ decLen[j] = n
    BY <1>2, <1>4, <2>2, <2>3, PlaceOnce
  <2>5. QED BY <2>1, <2>2, <2>4
<1>8. ASSUME ~(decLen[i] > 0 /\ n = decLen[i])  PROVE cache'[s] = first[s]
  BY <1>1, <1>5, <1>7, <1>8, WriteKeeps
<1>9. CASE encLen[i] > 0
  <2>1. ~(decLen[i] > 0) /\ n \in 0..encLen[i] - 1
    BY <1>2, <1>4, <1>9, PassFacts
  <2>2. PICK p \in DOMAIN Paged!InEncoder : EncoderRow(p, i, n)
    BY <1>2, <2>1, EncoderRows
  <2>3. Paged!SlotsEncoder[p] = s
    BY <2>2 DEF EncoderRow
  <2>4. first[s] = Paged!Token(seq[i], n)
    BY <1>5, <1>6, <2>3, WritePuts DEF first
  <2>5. QED BY <1>8, <2>1, <2>4
<1>10. CASE decLen[i] > 0 /\ n = decLen[i]
  <2>1. PICK p \in DOMAIN Paged!InDecoder : DecoderRow(p, i)
    BY <1>1, <1>2, <1>10, DecoderRows
  <2>2. Paged!SlotsDecoder[p] = s
    BY <1>10, <2>1 DEF DecoderRow
  <2>3. QED BY <1>1, <1>5, <1>7, <2>2, WritePuts
<1>11. CASE ~(encLen[i] > 0) /\ ~(decLen[i] > 0 /\ n = decLen[i])
  <2>1. first[s] = cache[s]
    BY <1>5, <1>6, <1>11, WriteKeeps DEF first
  <2>2. n \in 0..decLen[i] - 1
    BY <1>2, <1>4, <1>11, PassFacts
  <2>3. cache[s] = Paged!Token(seq[i], n)
    BY <1>2, <2>2 DEF Paged!CacheIntact
  <2>4. QED BY <1>8, <1>11, <2>1, <2>3
<1>12. QED BY <1>9, <1>10, <1>11

LEMMA PassRotated ==
  ASSUME BatchInv, Paged!Pass
  PROVE  Paged!RotatedRight'
<1> DEFINE S == TokenSet \X Nat
           a == Paged!Rotate(Paged!InEncoder, Paged!RopeEncoder)
           b == Paged!Rotate(Paged!InDecoder, Paged!RopeDecoder)
           Right(x) == x[1][2] = x[2]
<1>1. BatchTypes /\ rotated' = a \o b /\ \A i \in Paged!Row : decLen[i] < MaxLen
  BY DEF BatchInv, Paged!Pass
<1>2. ASSUME NEW i \in Paged!Row, NEW m \in Nat
      PROVE  <<Paged!Token(seq[i], m), m>> \in S /\ Right(<<Paged!Token(seq[i], m), m>>)
  <2>1. seq[i] \in Nat \cup {Nothing}
    BY <1>1 DEF BatchTypes, PagedTypes
  <2>2. QED BY <2>1 DEF TokenSet, Paged!Token
<1>3. /\ Paged!InEncoder \in Seq(TokenSet) /\ Paged!InDecoder \in Seq(TokenSet)
  BY <1>1, EncoderRows, DecoderRows
<1>4. ASSUME NEW p \in DOMAIN Paged!InEncoder  PROVE a[p] \in S /\ Right(a[p])
  <2>1. PICK i \in Paged!Row : \E m \in 0..encLen[i] - 1 : EncoderRow(p, i, m)
    BY <1>1, EncoderRows
  <2>2. PICK m \in 0..encLen[i] - 1 : EncoderRow(p, i, m)
    BY <2>1
  <2>3. a[p] = <<Paged!Token(seq[i], m), m>>
    BY <2>2 DEF Paged!Rotate, EncoderRow
  <2>4. m \in Nat
    BY <1>1, PassFacts
  <2> HIDE DEF a, S, Right
  <2>5. QED BY <1>2, <2>3, <2>4
<1>5. ASSUME NEW p \in DOMAIN Paged!InDecoder  PROVE b[p] \in S /\ Right(b[p])
  <2>1. PICK i \in Paged!Row : DecoderRow(p, i)
    BY <1>1, DecoderRows
  <2>2. b[p] = <<Paged!Token(seq[i], decLen[i]), decLen[i]>>
    BY <2>1 DEF Paged!Rotate, DecoderRow
  <2>3. decLen[i] \in Nat
    BY <1>1, PassFacts
  <2> HIDE DEF b, S, Right
  <2>4. QED BY <1>2, <2>2, <2>3
<1>6. a \in Seq(S) /\ DOMAIN a = DOMAIN Paged!InEncoder
  <2>1. a = [p \in 1..Len(Paged!InEncoder) |-> a[p]] /\ DOMAIN Paged!InEncoder = 1..Len(Paged!InEncoder)
        /\ Len(Paged!InEncoder) \in Nat
    BY <1>3 DEF Paged!Rotate
  <2> HIDE DEF a, S, Right
  <2>2. QED BY <1>4, <2>1
<1>7. b \in Seq(S) /\ DOMAIN b = DOMAIN Paged!InDecoder
  <2>1. b = [p \in 1..Len(Paged!InDecoder) |-> b[p]] /\ DOMAIN Paged!InDecoder = 1..Len(Paged!InDecoder)
        /\ Len(Paged!InDecoder) \in Nat
    BY <1>3 DEF Paged!Rotate
  <2> HIDE DEF b, S, Right
  <2>2. QED BY <1>5, <2>1
<1> HIDE DEF a, b, S
<1>8. ASSUME NEW k \in DOMAIN (a \o b)  PROVE Right((a \o b)[k])
  <2>1. k \in 1..Len(a) + Len(b) /\ Len(a) \in Nat /\ Len(b) \in Nat
    BY <1>6, <1>7
  <2>2. CASE k <= Len(a)
    <3>1. k \in DOMAIN a /\ (a \o b)[k] = a[k]
      BY <1>6, <1>7, <2>1, <2>2
    <3> HIDE DEF Right
    <3>2. QED BY <1>4, <1>6, <3>1
  <2>3. CASE ~(k <= Len(a))
    <3>1. k - Len(a) \in DOMAIN b /\ (a \o b)[k] = b[k - Len(a)]
      BY <1>6, <1>7, <2>1, <2>3
    <3> HIDE DEF Right
    <3>2. QED BY <1>5, <1>7, <3>1
  <2>4. QED BY <2>2, <2>3
<1>9. QED BY <1>1, <1>8 DEF Paged!RotatedRight

LEMMA PassResult ==
  ASSUME BatchInv, Paged!Pass
  PROVE  Paged!ResultRight' /\ result' = [i \in Paged!Row |-> result'[i]]
<1> DEFINE enc == Paged!OutEncoder(Paged!InEncoder, [i \in Paged!Row |-> Nothing])
<1>1. /\ BatchTypes /\ result' = Paged!OutDecoder(Paged!InDecoder, enc)
      /\ \A i \in Paged!Row : decLen[i] < MaxLen
      /\ seq' = seq
  BY DEF BatchInv, Paged!Pass
<1>2. result' = [i \in Paged!Row |->
        IF Paged!DecodeLen(i) > 0 THEN Paged!InDecoder[DecoderEnd[i - 1] + 1] ELSE enc[i]]
  BY <1>1 DEF Paged!OutDecoder, DecoderEnd, Ones
<1>3. enc = [i \in Paged!Row |->
        IF encLen[i] > 0 THEN Paged!InEncoder[EncoderEnd[i]] ELSE Nothing]
  BY DEF Paged!OutEncoder, EncoderEnd
<1> HIDE DEF enc
<1>4. ASSUME NEW i \in Paged!Row, result'[i] # Nothing
      PROVE  result'[i] = Paged!Token(seq[i], decLen'[i] - 1)
  <2>1. CASE decLen[i] > 0
    <3>1. Paged!DecodeLen(i) > 0 /\ decLen'[i] - 1 = decLen[i]
      BY <1>1, <2>1, PassFacts DEF Paged!DecodeLen
    <3>2. Paged!InDecoder[DecoderEnd[i - 1] + 1] = Paged!Token(seq[i], decLen[i])
      BY <1>1, <2>1, DecoderRows DEF DecoderRow
    <3>3. QED BY <1>2, <3>1, <3>2
  <2>2. CASE encLen[i] > 0
    <3>1. ~(Paged!DecodeLen(i) > 0) /\ decLen'[i] = encLen[i] /\ encLen[i] \in Nat
      BY <1>1, <2>2, PassFacts DEF Paged!DecodeLen
    <3>2. PICK m \in 0..encLen[i] - 1 : m = encLen[i] - 1 /\ m + 1 = encLen[i]
      BY <2>2, <3>1
    <3>3. Paged!InEncoder[EncoderEnd[i - 1] + (m + 1)] = Paged!Token(seq[i], m)
      BY <1>1, EncoderRows DEF EncoderRow
    <3>4. EncoderEnd[i] = EncoderEnd[i - 1] + (m + 1)
      <4>1. Ends(EncoderEnd, Rows, encLen)
        BY <1>1, BatchCounts, OffsetEnds DEF EncoderEnd
      <4>2. QED BY <3>2, <4>1 DEF Ends, Paged!Row
    <3>5. result'[i] = Paged!InEncoder[EncoderEnd[i]]
      BY <1>2, <1>3, <2>2, <3>1
    <3>6. QED BY <3>1, <3>2, <3>3, <3>4, <3>5
  <2>3. CASE ~(decLen[i] > 0) /\ ~(encLen[i] > 0)
    <3>1. ~(Paged!DecodeLen(i) > 0)
      BY <2>3 DEF Paged!DecodeLen
    <3>2. result'[i] = Nothing
      BY <1>2, <1>3, <2>3, <3>1
    <3>3. QED BY <1>4, <3>2
  <2>4. QED BY <2>1, <2>2, <2>3
<1>5. result' = [i \in Paged!Row |-> result'[i]]
  BY <1>2
<1>6. QED BY <1>1, <1>4, <1>5 DEF Paged!ResultRight, Paged!Token

-----------------------------------------------------------------------------
LEMMA BatchInit ==
  ASSUME Paged!Init
  PROVE  BatchInv
<1>1. BatchTypes
  BY BatchAssumption DEF Paged!Init, BatchTypes, PagedTypes, RowsLive
<1>2. BlocksOwned
  BY DEF Paged!Init, BlocksOwned
<1>3. Paged!CacheIntact
  BY DEF Paged!Init, Paged!CacheIntact
<1>4. Paged!RotatedRight /\ Paged!ResultRight
  BY DEF Paged!Init, Paged!RotatedRight, Paged!ResultRight
<1>5. QED BY <1>1, <1>2, <1>3, <1>4 DEF BatchInv, BatchRight, Paged!BatchRight

LEMMA PassStep ==
  ASSUME BatchInv, Paged!Pass
  PROVE  BatchInv'
<1>1. BatchTypes /\ BlocksOwned
  BY DEF BatchInv
<1>2. UNCHANGED <<seq, table, begun>> /\ encLen' = [i \in Paged!Row |-> 0]
  BY DEF Paged!Pass
<1>3. decLen' = [i \in Paged!Row |-> decLen'[i]] /\ \A i \in Paged!Row : decLen'[i] \in 0..MaxLen
  <2>1. decLen' = [i \in Paged!Row |-> decLen'[i]]
    BY DEF Paged!Pass
  <2>2. QED BY <1>1, <2>1, PassFacts
<1>4. PagedTypes'
  <2>1. decLen' \in [Paged!Row -> 0..MaxLen] /\ encLen' \in [Paged!Row -> 0..MaxLen]
    BY <1>2, <1>3, BatchAssumption
  <2>2. result' = [i \in Paged!Row |-> result'[i]]
    BY PassResult
  <2>3. QED BY <1>1, <1>2, <2>1, <2>2 DEF BatchTypes, PagedTypes, Paged!Row
<1>5. RowsLive'
  <2> SUFFICES ASSUME NEW i \in Paged!Row
               PROVE  /\ encLen'[i] = 0 \/ decLen'[i] = 0
                      /\ seq'[i] = Nothing => encLen'[i] = 0 /\ decLen'[i] = 0
                      /\ seq'[i] # Nothing => Len(table'[i]) = RowBlocks
    BY DEF RowsLive, Paged!Row
  <2>1. QED BY <1>1, <1>2, PassFacts DEF BatchTypes, RowsLive
<1>6. BlocksOwned'
  BY <1>1, <1>2 DEF BlocksOwned, Paged!Row
<1>7. BatchRight'
  BY PassCache, PassRotated, PassResult DEF BatchRight, Paged!BatchRight
<1>8. QED BY <1>4, <1>5, <1>6, <1>7 DEF BatchInv, BatchTypes

(* A row that begins or ends: the others keep their blocks and tokens.     *)
LEMMA InsertStep ==
  ASSUME BatchInv, NEW i \in Paged!Row, Paged!Insert(i)
  PROVE  BatchInv'
<1>1. /\ BatchTypes /\ BlocksOwned /\ Paged!CacheIntact /\ Paged!RotatedRight /\ Paged!ResultRight
  BY DEF BatchInv, BatchRight, Paged!BatchRight
<1>2. PICK len \in 1..MaxLen - 1 : encLen' = [encLen EXCEPT ![i] = len]
  BY DEF Paged!Insert
<1>3. PICK own \in [1..RowBlocks -> Blocks \ Paged!Used] :
        Paged!IsInjective(own) /\ table' = [table EXCEPT ![i] = own]
  BY DEF Paged!Insert
<1>4. /\ seq[i] = Nothing /\ begun' = begun + 1 /\ seq' = [seq EXCEPT ![i] = begun + 1]
      /\ result' = [result EXCEPT ![i] = Nothing] /\ UNCHANGED <<decLen, cache, rotated>>
  BY DEF Paged!Insert
<1>5. /\ seq \in [Paged!Row -> Nat \cup {Nothing}] /\ begun \in Nat
      /\ encLen \in [Paged!Row -> 0..MaxLen] /\ decLen \in [Paged!Row -> 0..MaxLen]
      /\ table \in [Paged!Row -> Seq(Blocks)]
      /\ result = [j \in Paged!Row |-> result[j]]
  BY <1>1 DEF BatchTypes, PagedTypes
<1>6. decLen[i] = 0 /\ begun + 1 # Nothing /\ len \in 0..MaxLen /\ MaxLen \in Nat /\ RowBlocks \in Nat
  BY <1>1, <1>4, <1>5, BatchAssumption DEF BatchTypes, RowsLive
<1>7. own \in Seq(Blocks) /\ Len(own) = RowBlocks /\ DOMAIN own = 1..RowBlocks
  BY <1>3, <1>6
<1>8. PagedTypes'
  <2>1. /\ seq' \in [Paged!Row -> Nat \cup {Nothing}] /\ begun' \in Nat
        /\ encLen' \in [Paged!Row -> 0..MaxLen] /\ decLen' \in [Paged!Row -> 0..MaxLen]
    BY <1>2, <1>4, <1>5, <1>6
  <2>2. table' \in [Paged!Row -> Seq(Blocks)]
    BY <1>3, <1>5, <1>7
  <2>3. result' = [j \in Paged!Row |-> result'[j]]
    BY <1>4, <1>5
  <2>4. QED BY <2>1, <2>2, <2>3 DEF PagedTypes, Paged!Row
<1>9. RowsLive'
  <2> SUFFICES ASSUME NEW j \in Paged!Row
               PROVE  /\ encLen'[j] = 0 \/ decLen'[j] = 0
                      /\ seq'[j] = Nothing => encLen'[j] = 0 /\ decLen'[j] = 0
                      /\ seq'[j] # Nothing => Len(table'[j]) = RowBlocks
    BY DEF RowsLive, Paged!Row
  <2>1. CASE j = i
    BY <2>1, <1>2, <1>3, <1>4, <1>5, <1>6, <1>7
  <2>2. CASE j # i
    <3>1. encLen'[j] = encLen[j] /\ decLen'[j] = decLen[j] /\ seq'[j] = seq[j] /\ table'[j] = table[j]
      BY <2>2, <1>2, <1>3, <1>4, <1>5
    <3>2. QED BY <3>1, <1>1 DEF BatchTypes, RowsLive
  <2>3. QED BY <2>1, <2>2
<1>10. ASSUME NEW j \in Paged!Row, NEW a \in DOMAIN own, NEW b \in DOMAIN table[j]
       PROVE  own[a] # table[j][b]
  <2>1. table[j][b] \in Paged!ToSet(table[j])
    BY <1>5 DEF Paged!ToSet
  <2>2. table[j][b] \in Paged!Used
    BY <2>1 DEF Paged!Used
  <2>3. QED BY <2>2, <1>3, <1>7
<1>11. BlocksOwned'
  <2> SUFFICES ASSUME NEW j \in Paged!Row, NEW k \in Paged!Row,
                      NEW a \in DOMAIN table'[j], NEW b \in DOMAIN table'[k],
                      table'[j][a] = table'[k][b]
               PROVE  j = k /\ a = b
    BY DEF BlocksOwned, Paged!Row
  <2>1. table'[i] = own /\ \A r \in Paged!Row : r # i => table'[r] = table[r]
    BY <1>3, <1>5
  <2>2. CASE j = i /\ k = i
    BY <2>1, <2>2, <1>3 DEF Paged!IsInjective
  <2>3. CASE j = i /\ k # i
    <3>1. a \in DOMAIN own /\ b \in DOMAIN table[k] /\ own[a] = table[k][b]
      BY <2>1, <2>3, Zenon
    <3>2. QED BY <3>1, <1>10, Zenon
  <2>4. CASE j # i /\ k = i
    <3>1. a \in DOMAIN table[j] /\ b \in DOMAIN own /\ own[b] = table[j][a]
      BY <2>1, <2>4, Zenon
    <3>2. QED BY <3>1, <1>10, Zenon
  <2>5. CASE j # i /\ k # i
    BY <2>1, <2>5, <1>1 DEF BlocksOwned
  <2>6. QED BY <2>2, <2>3, <2>4, <2>5
<1>12. Paged!CacheIntact'
  <2> SUFFICES ASSUME NEW j \in Paged!Row, NEW n \in 0..decLen'[j] - 1
               PROVE  cache'[Paged!Place(j, n)'] = Paged!Token(seq'[j], n)
    BY DEF Paged!CacheIntact, Paged!Token, Paged!Row
  <2>1. j # i /\ n \in 0..decLen[j] - 1
    BY <1>4, <1>5, <1>6
  <2>2. table'[j] = table[j] /\ seq'[j] = seq[j] /\ cache' = cache
    BY <2>1, <1>3, <1>4, <1>5
  <2>3. Paged!Place(j, n)' = Paged!Place(j, n)
    BY <2>2 DEF Paged!Place
  <2>4. QED BY <2>1, <2>2, <2>3, <1>1 DEF Paged!CacheIntact
<1>13. Paged!RotatedRight'
  BY <1>1, <1>4 DEF Paged!RotatedRight
<1>14. Paged!ResultRight'
  <2> SUFFICES ASSUME NEW j \in Paged!Row, result'[j] # Nothing
               PROVE  result'[j] = Paged!Token(seq'[j], decLen'[j] - 1)
    BY DEF Paged!ResultRight, Paged!Token, Paged!Row
  <2>1. j # i
    BY <1>4, <1>5
  <2>2. result'[j] = result[j] /\ seq'[j] = seq[j] /\ decLen' = decLen
    BY <2>1, <1>4, <1>5
  <2>3. QED BY <2>2, <1>1 DEF Paged!ResultRight
<1>15. QED BY <1>8, <1>9, <1>11, <1>12, <1>13, <1>14
         DEF BatchInv, BatchTypes, BatchRight, Paged!BatchRight

LEMMA FinishStep ==
  ASSUME BatchInv, NEW i \in Paged!Row, Paged!Finish(i)
  PROVE  BatchInv'
<1>1. /\ BatchTypes /\ BlocksOwned /\ Paged!CacheIntact /\ Paged!RotatedRight /\ Paged!ResultRight
  BY DEF BatchInv, BatchRight, Paged!BatchRight
<1>2. /\ decLen[i] > 0 /\ seq' = [seq EXCEPT ![i] = Nothing] /\ decLen' = [decLen EXCEPT ![i] = 0]
      /\ table' = [table EXCEPT ![i] = <<>>] /\ result' = [result EXCEPT ![i] = Nothing]
      /\ UNCHANGED <<encLen, begun, cache, rotated>>
  BY DEF Paged!Finish
<1>3. /\ seq \in [Paged!Row -> Nat \cup {Nothing}] /\ begun \in Nat
      /\ encLen \in [Paged!Row -> 0..MaxLen] /\ decLen \in [Paged!Row -> 0..MaxLen]
      /\ table \in [Paged!Row -> Seq(Blocks)]
      /\ result = [j \in Paged!Row |-> result[j]] /\ MaxLen \in Nat
  BY <1>1, BatchAssumption DEF BatchTypes, PagedTypes
<1>4. encLen[i] = 0
  BY <1>1, <1>2, <1>3 DEF BatchTypes, RowsLive
<1>5. /\ seq'[i] = Nothing /\ decLen'[i] = 0 /\ table'[i] = <<>> /\ result'[i] = Nothing
      /\ encLen'[i] = 0 /\ cache' = cache
      /\ \A j \in Paged!Row : j # i =>
           /\ seq'[j] = seq[j] /\ decLen'[j] = decLen[j] /\ table'[j] = table[j]
           /\ result'[j] = result[j] /\ encLen'[j] = encLen[j]
  BY <1>2, <1>3, <1>4
<1>6. PagedTypes'
  <2>1. /\ seq' \in [Paged!Row -> Nat \cup {Nothing}] /\ begun' \in Nat
        /\ encLen' \in [Paged!Row -> 0..MaxLen] /\ decLen' \in [Paged!Row -> 0..MaxLen]
    BY <1>2, <1>3
  <2>2. table' \in [Paged!Row -> Seq(Blocks)]
    BY <1>2, <1>3
  <2>3. result' = [j \in Paged!Row |-> result'[j]]
    BY <1>2, <1>3
  <2>4. QED BY <2>1, <2>2, <2>3 DEF PagedTypes, Paged!Row
<1>7. RowsLive'
  <2> SUFFICES ASSUME NEW j \in Paged!Row
               PROVE  /\ encLen'[j] = 0 \/ decLen'[j] = 0
                      /\ seq'[j] = Nothing => encLen'[j] = 0 /\ decLen'[j] = 0
                      /\ seq'[j] # Nothing => Len(table'[j]) = RowBlocks
    BY DEF RowsLive, Paged!Row
  <2>1. CASE j = i
    BY <2>1, <1>5
  <2>2. CASE j # i
    BY <2>2, <1>1, <1>5 DEF BatchTypes, RowsLive
  <2>3. QED BY <2>1, <2>2
<1>8. BlocksOwned'
  <2> SUFFICES ASSUME NEW j \in Paged!Row, NEW k \in Paged!Row,
                      NEW a \in DOMAIN table'[j], NEW b \in DOMAIN table'[k],
                      table'[j][a] = table'[k][b]
               PROVE  j = k /\ a = b
    BY DEF BlocksOwned, Paged!Row
  <2>1. j # i /\ k # i
    BY <1>5
  <2>2. QED BY <2>1, <1>1, <1>5 DEF BlocksOwned
<1>9. Paged!CacheIntact'
  <2> SUFFICES ASSUME NEW j \in Paged!Row, NEW n \in 0..decLen'[j] - 1
               PROVE  cache'[Paged!Place(j, n)'] = Paged!Token(seq'[j], n)
    BY DEF Paged!CacheIntact, Paged!Token, Paged!Row
  <2>1. j # i
    BY <1>5
  <2>2. Paged!Place(j, n)' = Paged!Place(j, n) /\ n \in 0..decLen[j] - 1
    BY <2>1, <1>5 DEF Paged!Place
  <2>3. QED BY <2>1, <2>2, <1>1, <1>5 DEF Paged!CacheIntact
<1>10. Paged!RotatedRight'
  BY <1>1, <1>2 DEF Paged!RotatedRight
<1>11. Paged!ResultRight'
  <2> SUFFICES ASSUME NEW j \in Paged!Row, result'[j] # Nothing
               PROVE  result'[j] = Paged!Token(seq'[j], decLen'[j] - 1)
    BY DEF Paged!ResultRight, Paged!Token, Paged!Row
  <2>1. j # i
    BY <1>5
  <2>2. QED BY <2>1, <1>1, <1>5 DEF Paged!ResultRight
<1>12. QED BY <1>6, <1>7, <1>8, <1>9, <1>10, <1>11
         DEF BatchInv, BatchTypes, BatchRight, Paged!BatchRight

LEMMA BatchStutters ==
  ASSUME BatchInv, UNCHANGED cacheVars
  PROVE  BatchInv'
<1>1. UNCHANGED <<seq, encLen, decLen, table, begun, cache, rotated, result>>
  BY DEF cacheVars
<1>2. BatchTypes'
  BY <1>1 DEF BatchInv, BatchTypes, PagedTypes, RowsLive, Paged!Row
<1>3. BlocksOwned'
  BY <1>1 DEF BatchInv, BlocksOwned, Paged!Row
<1>4. Paged!CacheIntact'
  <2>1. \A i, n : Paged!Place(i, n)' = Paged!Place(i, n)
    BY <1>1 DEF Paged!Place
  <2>2. QED BY <1>1, <2>1
           DEF BatchInv, BatchRight, Paged!BatchRight, Paged!CacheIntact, Paged!Token, Paged!Row
<1>5. Paged!RotatedRight' /\ Paged!ResultRight'
  BY <1>1 DEF BatchInv, BatchRight, Paged!BatchRight, Paged!RotatedRight, Paged!ResultRight,
              Paged!Token, Paged!Row
<1>6. QED BY <1>2, <1>3, <1>4, <1>5 DEF BatchInv, BatchRight, Paged!BatchRight

(* Whatever sequences come, are prefilled and decoded together in one batch*)
(* and go, and whichever free blocks they are given: after every pass each *)
(* live token is in its place of the cache, each was rotated by its        *)
(* position, and each row of the result is of the last token of its        *)
(* sequence; for any number of rows, blocks, block sizes and lengths.      *)
THEOREM BatchRightCorrect == PartSpec => []BatchRight
<1>1. PartInit => BatchInv
  BY BatchInit DEF PartInit
<1>2. BatchInv /\ [PartNext]_partVars => BatchInv'
  <2> SUFFICES ASSUME BatchInv, [PartNext]_partVars  PROVE BatchInv'
    OBVIOUS
  <2>1. CASE RunCache
    BY <2>1, PassStep, InsertStep, FinishStep DEF RunCache, Paged!Next
  <2>2. CASE RunLayers \/ RunGraph \/ RunOutput \/ UNCHANGED partVars
    <3>1. UNCHANGED cacheVars
      BY <2>2 DEF RunLayers, RunGraph, RunOutput, partVars
    <3>2. QED BY <3>1, BatchStutters
  <2>3. QED BY <2>1, <2>2 DEF PartNext
<1>3. BatchInv => BatchRight
  BY DEF BatchInv
<1>4. QED BY <1>1, <1>2, <1>3, PTL DEF PartSpec
=============================================================================
