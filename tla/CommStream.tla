----------------------------- MODULE CommStream ------------------------------
(***************************************************************************)
(* lastCommStream of the MLU and SDAA plugins (runtime.h) and the          *)
(* collectives that use it (runtime.cc): before a collective is put on     *)
(* another stream than the one before, the host waits for that stream, so  *)
(* that all ranks run their collectives in the order they issue them.      *)
(*                                                                         *)
(* The ranks run the same program: the collectives 1, 2, ... Each rank may *)
(* choose the stream of each, and puts kernels of its own on the streams.  *)
(* The device is external: a stream runs its tasks in order, streams run   *)
(* in any order, and the device of a rank runs one collective at a time,   *)
(* which ends when all ranks have started it.                              *)
(***************************************************************************)
EXTENDS Naturals, Sequences

CONSTANTS
  Ranks, Streams,
  Collectives,   \* bound on the collectives of the program
  Kernels,       \* bound on the other kernels of a rank
  None

ASSUME NoneAssumption == None \notin Streams
ASSUME CollectivesAssumption == Collectives \in Nat

VARIABLES
  pStream,     \* p_queue, p_stream
  call,        \* the stream of the collective a rank is issuing, or None
  issued,      \* collectives a rank has issued
  launched,    \* kernels a rank has launched
  queue,       \* what each stream of a rank has still to do; 0 is a kernel
  running,     \* the collective the device of a rank is running, or 0
  finished     \* the collectives that have run on a rank, the latest last

vars == <<pStream, call, issued, launched, queue, running, finished>>

Init ==
  /\ pStream = [r \in Ranks |-> None]
  /\ call = [r \in Ranks |-> None]
  /\ issued = [r \in Ranks |-> 0]
  /\ launched = [r \in Ranks |-> 0]
  /\ queue = [r \in Ranks |-> [s \in Streams |-> <<>>]]
  /\ running = [r \in Ranks |-> 0]
  /\ finished = [r \in Ranks |-> <<>>]

Put(r, s, task) == queue' = [queue EXCEPT ![r][s] = Append(@, task)]

LaunchKernel(r, s) ==
  /\ call[r] = None /\ launched[r] < Kernels
  /\ launched' = [launched EXCEPT ![r] = @ + 1]
  /\ Put(r, s, 0)
  /\ UNCHANGED <<pStream, call, issued, running, finished>>

(* XcclAllReduce and the others begin with Update.                         *)
Collective(r, s) ==
  /\ call[r] = None /\ issued[r] < Collectives
  /\ call' = [call EXCEPT ![r] = s]
  /\ UNCHANGED <<pStream, issued, launched, queue, running, finished>>

(* A bug: the stream is exchanged without a wait.                          *)
UpdateUnsynced(r) == pStream' = [pStream EXCEPT ![r] = call[r]]

(* cnrtQueueSync, sdaaStreamSynchronize of another previous stream.        *)
Update(r) ==
  /\ pStream[r] \notin {None, call[r]} => queue[r][pStream[r]] = <<>>
  /\ pStream' = [pStream EXCEPT ![r] = call[r]]

(* The collective goes to the stream that get() returns.                   *)
Issue(r) ==
  /\ call[r] # None
  /\ Update(r)
  /\ Put(r, pStream'[r], issued[r] + 1)
  /\ issued' = [issued EXCEPT ![r] = @ + 1]
  /\ call' = [call EXCEPT ![r] = None]
  /\ UNCHANGED <<launched, running, finished>>

(***************************************************************************)
(* The devices.                                                            *)
(***************************************************************************)
Pop(r, s) == queue' = [queue EXCEPT ![r][s] = Tail(@)]

RunKernel(r, s) ==
  /\ queue[r][s] # <<>> /\ Head(queue[r][s]) = 0
  /\ Pop(r, s)
  /\ UNCHANGED <<pStream, call, issued, launched, running, finished>>

Start(r, s) ==
  /\ running[r] = 0 /\ queue[r][s] # <<>> /\ Head(queue[r][s]) > 0
  /\ running' = [running EXCEPT ![r] = Head(queue[r][s])]
  /\ UNCHANGED <<pStream, call, issued, launched, queue, finished>>

Holds(r, s, c) == queue[r][s] # <<>> /\ Head(queue[r][s]) = c

Complete(c) ==
  /\ \A r \in Ranks : running[r] = c
  /\ queue' = [r \in Ranks |-> [s \in Streams |->
                 IF Holds(r, s, c) THEN Tail(queue[r][s]) ELSE queue[r][s]]]
  /\ running' = [r \in Ranks |-> 0]
  /\ finished' = [r \in Ranks |-> Append(finished[r], c)]
  /\ UNCHANGED <<pStream, call, issued, launched>>

Progress(r) == Issue(r) \/ \E s \in Streams : Collective(r, s) \/ RunKernel(r, s) \/ Start(r, s)
CompleteSome == \E c \in 1..Collectives : Complete(c)

Next ==
  \/ \E r \in Ranks : Progress(r) \/ \E s \in Streams : LaunchKernel(r, s)
  \/ CompleteSome

Spec == Init /\ [][Next]_vars

-----------------------------------------------------------------------------
(* A rank starts its collectives in the order of the program, whatever     *)
(* streams they were put on.                                               *)
ProgramOrder == \A r \in Ranks : running[r] > 0 => running[r] = Len(finished[r]) + 1

(* The collectives all complete: the waits of the hosts end.               *)
EveryCollectiveCompletes == <>(\A r \in Ranks : Len(finished[r]) = Collectives)
=============================================================================
