------------------------------ MODULE AtbGraph -------------------------------
(***************************************************************************)
(* The ATB graph of a fused decoder layer (atb_layers/*.cc) and the op that*)
(* feeds it (fused_blha_layer_op.cc).  The two agree on nothing but        *)
(* positions: the op binds its tensors one after another, the graph numbers*)
(* the tensors it expects, and every node and nested graph takes its inputs*)
(* by number, for every combination of bias, quantisation, alibi and stage.*)
(*                                                                         *)
(* A tensor is the term that was computed into it: <<"op", term, ...>>     *)
(* over the leaves <<"name">>.  An ATB operation is the term it builds of  *)
(* its inputs in the order its documentation gives them.                   *)
(***************************************************************************)
EXTENDS Naturals, Sequences

VARIABLES
  param,     \* FusedBlhaLayerParam, and the optional inputs the caller gives
  bound,     \* variant_pack_.inTensors: what the op has bound, in order
  tensors,   \* the tensors of the graph by their number
  node       \* nodes executed so far

vars == <<param, bound, tensors, node>>

(* bias, int8 and smooth also say that qkv_bias, qkv_deq_scale and         *)
(* out_linear_shift are given, and the next four that a tensor is; a shift *)
(* comes with its smooth tensor.  With int8 Begin takes the size of every  *)
(* scale, so all of them are given.                                        *)
Optional == {"bias", "int8", "smooth", "out_deq", "ffn1_deq", "ffn2_deq", "ffn2_shift"}
Param ==
  {p \in [Optional \cup {"alibi", "prefill"} -> BOOLEAN] :
     p.int8 => p.out_deq /\ p.ffn1_deq /\ p.ffn2_deq}

Leaf(name) == <<name>>
Undefined == Leaf("undefined")
Entry(name, present) == [name |-> name, present |-> present]
Present(entries) ==
  LET kept == SelectSeq(entries, LAMBDA e : e.present)
  IN  [i \in DOMAIN kept |-> kept[i].name]

-----------------------------------------------------------------------------
(***************************************************************************)
(* The op: what it binds, by the optional tensors its caller gave it.      *)
(***************************************************************************)
BindLayer(p) == <<
  Entry("hidden", TRUE), Entry("norm_weight", TRUE), Entry("qkv_weight", TRUE),
  Entry("qkv_bias", p.bias), Entry("qkv_deqscale", p.int8), Entry("qkv_deqoffset", p.int8),
  Entry("out_weight", TRUE), Entry("out_smooth", p.smooth), Entry("out_shift", p.smooth),
  Entry("out_deqscale", p.out_deq), Entry("out_deqoffset", p.out_deq),
  Entry("ffn_norm_weight", TRUE),
  Entry("ffn1_weight", TRUE), Entry("ffn1_deqscale", p.ffn1_deq), Entry("ffn1_deqoffset", p.ffn1_deq),
  Entry("ffn2_weight", TRUE), Entry("ffn2_smooth", p.ffn2_shift), Entry("ffn2_shift", p.ffn2_shift),
  Entry("ffn2_deqscale", p.ffn2_deq), Entry("ffn2_deqoffset", p.ffn2_deq),
  Entry("cos", ~p.alibi), Entry("sin", ~p.alibi)>>

BindPrefill(p) == BindLayer(p) \o <<
  Entry("mask", TRUE),
  Entry("cache_k", TRUE), Entry("cache_v", TRUE), Entry("slots", TRUE), Entry("seqlen", TRUE)>>

BindDecode(p) == BindLayer(p) \o <<
  Entry("mask", p.alibi),
  Entry("cache_k", TRUE), Entry("cache_v", TRUE), Entry("slots", TRUE), Entry("block_tables", TRUE),
  Entry("seqlen", TRUE), Entry("batch_status", TRUE)>>

Binds(p) == Present(IF p.prefill THEN BindPrefill(p) ELSE BindDecode(p))

-----------------------------------------------------------------------------
(***************************************************************************)
(* CreateFusedBlhaLayer: the numbers of the tensors.                       *)
(***************************************************************************)
Inputs(p) == Present(<<
  Entry("hidden", TRUE), Entry("norm_weight", TRUE), Entry("qkv_weight", TRUE),
  Entry("qkv_bias", p.bias), Entry("qkv_deqscale", p.int8), Entry("qkv_deqoffset", p.int8),
  Entry("out_weight", TRUE),
  Entry("out_smooth", p.int8 /\ p.smooth), Entry("out_shift", p.int8 /\ p.smooth),
  Entry("out_deqscale", p.int8), Entry("out_deqoffset", p.int8),
  Entry("ffn_norm_weight", TRUE),
  Entry("ffn1_weight", TRUE), Entry("ffn1_deqscale", p.int8), Entry("ffn1_deqoffset", p.int8),
  Entry("ffn2_weight", TRUE),
  Entry("ffn2_smooth", p.int8 /\ p.smooth), Entry("ffn2_shift", p.int8 /\ p.smooth),
  Entry("ffn2_deqscale", p.int8), Entry("ffn2_deqoffset", p.int8),
  Entry("cos", ~p.alibi), Entry("sin", ~p.alibi), Entry("mask", p.prefill \/ p.alibi),
  Entry("cache_k", TRUE), Entry("cache_v", TRUE), Entry("slots", TRUE),
  Entry("block_tables", ~p.prefill), Entry("seqlen", TRUE), Entry("batch_status", ~p.prefill)>>)

Internals(p) == <<"output", "norm_out", "qkv_out", "q", "k", "v">>
  \o (IF p.alibi THEN <<>> ELSE <<"emb_q", "emb_k">>)
  \o <<"attn_out", "linear_out", "linear_add_res", "ffn_norm_out", "ffn1_out", "ffn2_out">>

Numbers(p) == Inputs(p) \o Internals(p)

(* A name the layer does not have stands for another tensor.               *)
Alias(p, name) ==
  CASE name = "emb_q" /\ p.alibi -> "q"
    [] name = "emb_k" /\ p.alibi -> "k"
    [] name = "batch_status" /\ p.prefill -> "seqlen"
    [] OTHER -> name

Id(p, name) ==
  LET ids == {i \in DOMAIN Numbers(p) : Numbers(p)[i] = Alias(p, name)}
  IN  IF ids = {} THEN 1 ELSE CHOOSE i \in ids : TRUE

-----------------------------------------------------------------------------
(***************************************************************************)
(* The nested graphs.  x is what the node gives them, in order; l the      *)
(* parameters of a linear layer.                                           *)
(***************************************************************************)
At(x, i) == IF i \in DOMAIN x THEN x[i] ELSE Undefined
Op(name, args) == <<name>> \o args

SmoothQuant(smooth, x) ==
  IF smooth
    THEN Op("quant", <<Op("mul", <<Op("add", <<At(x, 1), At(x, 3)>>), At(x, 2)>>)>>)
    ELSE Op("quant", <<At(x, 1)>>)

(* A bug: without a bias the dequantisation tensors are looked for one     *)
(* place too late.                                                         *)
LinearQuantShifted(l, x) ==
  LET d == 4
      q == SmoothQuant(l.smooth, <<At(x, 1), At(x, d + 2), At(x, d + 3)>>)
      y == Op("linear_dequant", <<q, At(x, 2), At(x, d + 1), At(x, d)>>)
  IN  IF l.bias THEN Op("add", <<y, At(x, 3)>>) ELSE y

(* CreateLinearQuant with has_dequant_offset, as every layer sets it: after*)
(* input and weight come the bias, if there is one, the scale and offset   *)
(* of the dequantisation, and the tensors of the smooth quantisation.      *)
LinearQuant(l, x) ==
  LET d == IF l.bias THEN 4 ELSE 3
      q == SmoothQuant(l.smooth, <<At(x, 1), At(x, d + 2), At(x, d + 3)>>)
      y == Op("linear_dequant", <<q, At(x, 2), At(x, d + 1), At(x, d)>>)
  IN  IF l.bias THEN Op("add", <<y, At(x, 3)>>) ELSE y

Linear(l, x) == IF l.quant THEN LinearQuant(l, x) ELSE Op("linear", x)

(* CreateMixedGateUpAct as the layer uses it.                              *)
GateUp(int8, x) ==
  Op("swiglu", <<IF int8 THEN Linear([quant |-> TRUE, bias |-> FALSE, smooth |-> FALSE], x)
                         ELSE Op("linear", x)>>)

-----------------------------------------------------------------------------
(***************************************************************************)
(* The nodes of the graph: operation, inputs and outputs by name.          *)
(***************************************************************************)
Node(op, in, outs) == [op |-> op, in |-> in, outs |-> outs]
If(cond, names) == IF cond THEN names ELSE <<>>

SmoothInputs(p, x, weight, deqscale, deqoffset, smooth, shift) ==
  <<x, weight>> \o If(p.smooth \/ p.int8, <<deqscale, deqoffset>>) \o If(p.smooth, <<smooth, shift>>)

Nodes(p) == <<
  Node("rms", <<"hidden", "norm_weight">>, <<"norm_out">>),
  Node("qkv", <<"norm_out", "qkv_weight">> \o If(p.bias, <<"qkv_bias">>)
                \o If(p.int8, <<"qkv_deqscale", "qkv_deqoffset">>), <<"qkv_out">>),
  Node("split", <<"qkv_out">>, <<"q", "k", "v">>)>>
  \o If(~p.alibi, <<Node("rope", <<"q", "k", "cos", "sin", "seqlen">>, <<"emb_q", "emb_k">>)>>)
  \o <<
  Node("cache", <<"emb_k", "v", "cache_k", "cache_v", "slots">>, <<"cache_k", "cache_v">>),
  IF p.prefill
    THEN Node("attention", <<"emb_q", "emb_k", "v", "mask", "seqlen">>, <<"attn_out">>)
    ELSE Node("attention", <<"emb_q", "cache_k", "cache_v", "block_tables", "seqlen">>
                             \o If(p.alibi, <<"mask">>) \o <<"batch_status">>, <<"attn_out">>),
  Node("smooth", SmoothInputs(p, "attn_out", "out_weight", "out_deqscale", "out_deqoffset",
                              "out_smooth", "out_shift"), <<"linear_out">>),
  Node("add", <<"linear_out", "hidden">>, <<"linear_add_res">>),
  Node("rms", <<"linear_add_res", "ffn_norm_weight">>, <<"ffn_norm_out">>),
  Node("gate_up", <<"ffn_norm_out", "ffn1_weight">> \o If(p.int8, <<"ffn1_deqscale", "ffn1_deqoffset">>),
       <<"ffn1_out">>),
  Node("smooth", SmoothInputs(p, "ffn1_out", "ffn2_weight", "ffn2_deqscale", "ffn2_deqoffset",
                              "ffn2_smooth", "ffn2_shift"), <<"ffn2_out">>),
  Node("add", <<"ffn2_out", "linear_add_res">>, <<"output">>)>>

(* What a node writes to its outputs.                                      *)
Results(p, op, x) ==
  CASE op = "qkv" -> <<Linear([quant |-> p.int8, bias |-> p.bias, smooth |-> FALSE], x)>>
    [] op = "smooth" -> <<Linear([quant |-> p.int8, bias |-> FALSE, smooth |-> p.int8 /\ p.smooth], x)>>
    [] op = "gate_up" -> <<GateUp(p.int8, x)>>
    [] op = "split" -> <<Op("split_q", x), Op("split_k", x), Op("split_v", x)>>
    [] op = "rope" -> <<Op("rope", <<x[1], x[3], x[4]>>), Op("rope", <<x[2], x[3], x[4]>>)>>
    [] op = "cache" -> <<Op("write", <<x[3], x[1], x[5]>>), Op("write", <<x[4], x[2], x[5]>>)>>
    [] OTHER -> <<Op(op, x)>>

-----------------------------------------------------------------------------
Init ==
  /\ param \in Param
  /\ bound = <<>> /\ tensors = <<>> /\ node = 0

(* The runner's create or reset_variant_pack, the binds and Setup.         *)
BindAll ==
  /\ bound = <<>>
  /\ bound' = [i \in DOMAIN Binds(param) |-> Leaf(Binds(param)[i])]
  /\ tensors' = [i \in DOMAIN Numbers(param) |->
                   IF i <= Len(Inputs(param)) THEN At(bound', i) ELSE Undefined]
  /\ UNCHANGED <<param, node>>

(* Setup fails when a tensor is missing or one too many: the process exits.*)
Refused == Len(bound) # Len(Inputs(param))

(* Execute, one node after another.                                        *)
RunNode ==
  /\ bound # <<>> /\ ~Refused /\ node < Len(Nodes(param))
  /\ node' = node + 1
  /\ LET n == Nodes(param)[node + 1]
         x == [i \in DOMAIN n.in |-> tensors[Id(param, n.in[i])]]
         y == Results(param, n.op, x)
     IN  tensors' = [i \in DOMAIN tensors |->
           IF \E j \in DOMAIN n.outs : Id(param, n.outs[j]) = i
             THEN y[CHOOSE j \in DOMAIN n.outs : Id(param, n.outs[j]) = i]
             ELSE tensors[i]]
  /\ UNCHANGED <<param, bound>>

(* The runner is bound anew for the next pass.                             *)
NextPass ==
  /\ bound # <<>> /\ ~Refused /\ node = Len(Nodes(param))
  /\ bound' = <<>> /\ tensors' = <<>> /\ node' = 0
  /\ UNCHANGED param

Next == BindAll \/ RunNode \/ NextPass

Spec == Init /\ [][Next]_vars

-----------------------------------------------------------------------------
(***************************************************************************)
(* What a decoder layer is meant to compute.                               *)
(***************************************************************************)
L(name) == Leaf(name)

(* x times weight; with int8, x (shifted and smoothed first, if the model  *)
(* is smooth quantised) is quantised and the product scaled back.          *)
Times(p, x, smoothed, names, hasBias) ==
  LET x1 == IF smoothed THEN <<"mul", <<"add", x, L(names.shift)>>, L(names.smooth)>> ELSE x
      y == <<"linear_dequant", <<"quant", x1>>, L(names.weight), L(names.offset), L(names.scale)>>
  IN  IF p.int8 THEN IF hasBias THEN <<"add", y, L("qkv_bias")>> ELSE y
      ELSE IF hasBias THEN <<"linear", x, L(names.weight), L("qkv_bias")>> ELSE <<"linear", x, L(names.weight)>>

Names(w, s, o, sm, sh) == [weight |-> w, scale |-> s, offset |-> o, smooth |-> sm, shift |-> sh]
QkvNames == Names("qkv_weight", "qkv_deqscale", "qkv_deqoffset", "", "")
OutNames == Names("out_weight", "out_deqscale", "out_deqoffset", "out_smooth", "out_shift")
Ffn1Names == Names("ffn1_weight", "ffn1_deqscale", "ffn1_deqoffset", "", "")
Ffn2Names == Names("ffn2_weight", "ffn2_deqscale", "ffn2_deqoffset", "ffn2_smooth", "ffn2_shift")

Qkv(p) == Times(p, <<"rms", L("hidden"), L("norm_weight")>>, FALSE, QkvNames, p.bias)
Rope(p, x) == IF p.alibi THEN x ELSE <<"rope", x, L("cos"), L("sin")>>
K(p) == Rope(p, <<"split_k", Qkv(p)>>)
V(p) == <<"split_v", Qkv(p)>>
CacheK(p) == <<"write", L("cache_k"), K(p), L("slots")>>
CacheV(p) == <<"write", L("cache_v"), V(p), L("slots")>>

Attention(p) ==
  LET q == Rope(p, <<"split_q", Qkv(p)>>)
  IN  IF p.prefill
        THEN <<"attention", q, K(p), V(p), L("mask"), L("seqlen")>>
        ELSE <<"attention", q, CacheK(p), CacheV(p), L("block_tables"), L("seqlen")>>
               \o (IF p.alibi THEN <<L("mask")>> ELSE <<>>) \o <<L("batch_status")>>

Layer(p) ==
  LET attended == <<"add", Times(p, Attention(p), p.smooth, OutNames, FALSE), L("hidden")>>
      normed == <<"rms", attended, L("ffn_norm_weight")>>
      gated == <<"swiglu", Times(p, normed, FALSE, Ffn1Names, FALSE)>>
  IN  <<"add", Times(p, gated, p.smooth, Ffn2Names, FALSE), attended>>

(* The caller gives all of a kind or none, and smooths what it quantises.  *)
Consistent(p) ==
  /\ \A kind \in {"out_deq", "ffn1_deq", "ffn2_deq"} : p[kind] = p.int8
  /\ p.ffn2_shift = p.smooth
  /\ p.smooth => p.int8

(* Whatever the caller gives, in both stages: what does not belong together*)
(* is refused, as one tensor too many or too few; otherwise the positions  *)
(* of the binds, of the tensors and of the nested graphs fit together, so  *)
(* the graph computes a decoder layer and leaves the new keys and values   *)
(* in the cache.                                                           *)
LayerRight ==
  bound # <<>> =>
    /\ Refused <=> ~Consistent(param)
    /\ node = Len(Nodes(param)) =>
         /\ tensors[Id(param, "output")] = Layer(param)
         /\ tensors[Id(param, "cache_k")] = CacheK(param)
         /\ tensors[Id(param, "cache_v")] = CacheV(param)
=============================================================================
