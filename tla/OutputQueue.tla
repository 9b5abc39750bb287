----------------------------- MODULE OutputQueue -----------------------------
(***************************************************************************)
(* The tokens of a serving job on their way to the client                  *)
(* (src/backends/npu/custom_op/llama_infer): save_output puts the tokens of*)
(* a step into a System V message queue, get_output takes them out in      *)
(* another process.                                                        *)
(*                                                                         *)
(* The queue is the system's: it outlives both processes, holds a few      *)
(* messages, and its calls end early with -1 when a signal arrives.  A job *)
(* may be killed at any point and started anew; its message carries the    *)
(* job and the step, of which the real one carries neither.                *)
(***************************************************************************)
EXTENDS Naturals, Sequences

CONSTANTS
  Capacity,     \* messages the queue holds
  Steps,        \* steps of a job
  MaxJob,       \* bound on the jobs ever started
  Signals       \* bound on the signals that interrupt a call

VARIABLES
  queue,        \* the message queue
  job,          \* jobs started so far
  step,         \* steps the job has done
  sending,      \* is save_output in msgsnd
  lost,         \* the messages msgsnd did not take
  receiving,    \* is get_output in msgrcv, and with which wait_flag
  received,     \* what get_output has returned; <<>> stands for -2
  signals

vars == <<queue, job, step, sending, lost, receiving, received, signals>>

Message == <<job, step, IF step < Steps THEN "more" ELSE "stop">>
NoMessage == <<>>

Init ==
  /\ queue = <<>> /\ job = 1 /\ step = 0 /\ sending = FALSE /\ lost = {}
  /\ receiving = "no" /\ received = <<>> /\ signals = 0

(***************************************************************************)
(* save_output.                                                            *)
(***************************************************************************)
Save ==
  /\ ~sending /\ step < Steps
  /\ step' = step + 1 /\ sending' = TRUE
  /\ UNCHANGED <<queue, job, lost, receiving, received, signals>>

(* A bug: msgsnd is called with IPC_NOWAIT, and a full queue is not tried  *)
(* again.                                                                  *)
SendTry ==
  /\ sending
  /\ queue' = IF Len(queue) < Capacity THEN Append(queue, Message) ELSE queue
  /\ sending' = FALSE
  /\ UNCHANGED <<job, step, lost, receiving, received, signals>>

(* msgsnd waits for room.                                                  *)
Send ==
  /\ sending /\ Len(queue) < Capacity
  /\ queue' = Append(queue, Message)
  /\ sending' = FALSE
  /\ UNCHANGED <<job, step, lost, receiving, received, signals>>

(* msgsnd returns -1: the message is dropped without a word.               *)
SendInterrupted ==
  /\ sending /\ signals < Signals
  /\ sending' = FALSE /\ signals' = signals + 1
  /\ lost' = lost \cup {Message}
  /\ UNCHANGED <<queue, job, step, receiving, received>>

(* The job is killed and started anew: the queue keeps its messages.       *)
Restart ==
  /\ job < MaxJob
  /\ job' = job + 1 /\ step' = 0 /\ sending' = FALSE
  /\ lost' = IF sending THEN lost \cup {Message} ELSE lost
  /\ UNCHANGED <<queue, receiving, received, signals>>

(***************************************************************************)
(* get_output.                                                             *)
(***************************************************************************)
Get(wait) ==
  /\ receiving = "no"
  /\ receiving' = IF wait THEN "wait" ELSE "nowait"
  /\ UNCHANGED <<queue, job, step, sending, lost, received, signals>>

Receive ==
  /\ receiving # "no" /\ queue # <<>>
  /\ received' = Append(received, Head(queue))
  /\ queue' = Tail(queue)
  /\ receiving' = "no"
  /\ UNCHANGED <<job, step, sending, lost, signals>>

(* IPC_NOWAIT: out_data[0] = -2.  The client asks again; what it has asked *)
(* in vain is not kept.                                                    *)
ReceiveNone ==
  /\ receiving = "nowait" /\ queue = <<>>
  /\ receiving' = "no"
  /\ UNCHANGED <<queue, job, step, sending, lost, received, signals>>

(* A call that waits may return -2, too.                                   *)
ReceiveInterrupted ==
  /\ receiving # "no" /\ signals < Signals
  /\ signals' = signals + 1
  /\ receiving' = "no"
  /\ UNCHANGED <<queue, job, step, sending, lost, received>>

Next ==
  \/ Save \/ Send \/ SendInterrupted \/ Restart
  \/ \E wait \in BOOLEAN : Get(wait)
  \/ Receive \/ ReceiveNone \/ ReceiveInterrupted

Spec == Init /\ [][Next]_vars

-----------------------------------------------------------------------------
(* A step that was saved is received, still in the queue, or was dropped by*)
(* an interrupted call or a kill: a full queue alone loses nothing.        *)
NoneVanished ==
  LET all == received \o queue
  IN  \A n \in 1..step : (n = step /\ sending) \/
        \E m \in lost \cup {all[i] : i \in 1..Len(all)} : m[1] = job /\ m[2] = n

=============================================================================
