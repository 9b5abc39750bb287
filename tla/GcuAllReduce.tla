---------------------------- MODULE GcuAllReduce -----------------------------
(***************************************************************************)
(* XcclAllReduce of the GCU plugin (runtime.cc): 64-bit data is cast into  *)
(* a buffer of half the width, reduced there, and cast back; other data is *)
(* reduced as it is.  The buffers are kept for ever in a map by type and   *)
(* size; the calls of all streams share them.                              *)
(*                                                                         *)
(* ECCL, the cast kernels and the streams are external; `theirs' is what   *)
(* the other ranks contribute.  Data is integers: an integer type wraps, a *)
(* float loses the last bit of what lies beyond its precision.             *)
(***************************************************************************)
EXTENDS Integers, Sequences, FiniteSets

CONSTANTS
  Streams,
  Types,       \* the data types of the calls, by their names in C_DataType
  Counts,      \* numbers of elements of a call
  Values,      \* the integers
  Width,       \* int32 is -Width..Width - 1, uint32 is 0..2 * Width - 1
  MaxPending   \* bound on the calls a stream has still to run

VARIABLES
  memory,    \* device_memorys: key -> what the buffer holds
  stream,    \* what each stream has still to run
  received   \* after a call's last task: the call and the result in its recv_buf

vars == <<memory, stream, received>>

(* CastRealDataType.                                                       *)
RealType(type) ==
  CASE type = "int64"   -> "int32"
    [] type = "uint64"  -> "uint32"
    [] type = "float64" -> "float32"
    [] OTHER            -> type

(* A bug: the cast saturates.                                              *)
NarrowSaturated(type, v) ==
  CASE type = "int32" /\ v >= Width -> Width - 1
    [] type = "int32" /\ v < -Width -> -Width
    [] OTHER -> v

(* What becomes of v in a type; of the 64-bit types every value is one.    *)
Narrow(type, v) ==
  CASE type = "int32"   -> ((v + Width) % (2 * Width)) - Width
    [] type = "uint32"  -> v % (2 * Width)
    [] type = "float32" -> IF v \in -Width..Width THEN v ELSE v - (v % 2)
    [] OTHER            -> v

Fits(type, v) == Narrow(type, v) = v

(* ConvertEcclReduceOp.                                                    *)
Reduce(op, a, b) ==
  CASE op = "sum"     -> a + b
    [] op = "product" -> a * b
    [] op = "max"     -> IF a > b THEN a ELSE b
    [] op = "min"     -> IF a < b THEN a ELSE b

Calls ==
  {call \in [type : Types, count : Counts, op : {"sum", "product", "max", "min"},
             mine : Values, theirs : Values] :
     \A v \in {call.mine, call.theirs} :
       Fits(call.type, v) /\ (call.type = "uint64" => v >= 0)}

Real(call) == RealType(call.type)
Key(call) == <<Real(call), call.count>>

Init ==
  /\ memory = <<>>
  /\ stream = [s \in Streams |-> <<>>]
  /\ received = <<>>

Task(step, call) == [step |-> step, call |-> call]

Pending(s) ==
  Cardinality({i \in 1..Len(stream[s]) : stream[s][i].step \in {"widen", "direct"}})

(* 64-bit data.                                                            *)
ThroughBuffer(s, call) ==
  /\ Real(call) # call.type
  /\ memory' = [k \in DOMAIN memory \cup {Key(call)} |->
                  IF k \in DOMAIN memory THEN memory[k] ELSE 0]
  /\ stream' = [stream EXCEPT ![s] =
                  @ \o <<Task("narrow", call), Task("reduce", call), Task("widen", call)>>]

Direct(s, call) ==
  /\ Real(call) = call.type
  /\ stream' = [stream EXCEPT ![s] = Append(@, Task("direct", call))]
  /\ UNCHANGED memory

XcclAllReduce(s, call) ==
  /\ Pending(s) < MaxPending
  /\ ThroughBuffer(s, call) \/ Direct(s, call)
  /\ received' = <<>>

Store(call, v) == memory' = [memory EXCEPT ![Key(call)] = v] /\ received' = <<>>
Return(call, v) == received' = <<call, v>> /\ UNCHANGED memory

(* ECCL computes in the type of its buffers.                               *)
AllReduced(call, a, b) == Narrow(Real(call), Reduce(call.op, a, b))

Run(s) ==
  /\ stream[s] # <<>>
  /\ stream' = [stream EXCEPT ![s] = Tail(@)]
  /\ LET call == Head(stream[s]).call
         step == Head(stream[s]).step
         Narrowed(v) == Narrow(Real(call), v)
         held == memory[Key(call)]
     IN  \/ step = "narrow" /\ Store(call, Narrowed(call.mine))
         \/ step = "reduce" /\ Store(call, AllReduced(call, held, Narrowed(call.theirs)))
         \/ step = "widen"  /\ Return(call, held)
         \/ step = "direct" /\ Return(call, AllReduced(call, call.mine, call.theirs))

Next == \E s \in Streams : Run(s) \/ \E call \in Calls : XcclAllReduce(s, call)

Spec == Init /\ [][Next]_vars

-----------------------------------------------------------------------------
Modular(type) == type \in {"int32", "uint32"}

(* XcclAllReduce: a sum or product of integers is right when it fits the   *)
(* narrow type, even if the terms do not; anything else when the terms and *)
(* the result do.                                                          *)
ReductionRight ==
  received # <<>> =>
    LET call  == received[1]
        right == Reduce(call.op, call.mine, call.theirs)
        TermsFit == Fits(Real(call), call.mine) /\ Fits(Real(call), call.theirs)
        Sound == TermsFit \/ (Modular(Real(call)) /\ call.op \in {"sum", "product"})
    IN  Fits(Real(call), right) /\ Sound => received[2] = right

=============================================================================
