---------------------------- MODULE TaskExecutor -----------------------------
(***************************************************************************)
(* What the TaskQueue of the ATB layers promises to the ops that commit    *)
(* tasks to it: a task is run once, in the order of the commits, by one    *)
(* worker; a task is lost only with the queue.  AtbTaskQueue implements    *)
(* it, and AtbLayers is built on it.                                       *)
(***************************************************************************)
EXTENDS Sequences

CONSTANTS Task

VARIABLES
  pending,   \* the tasks accepted and not yet run, in the order of their commits
  ran,       \* the tasks that have run, the latest last
  lost       \* the tasks destroyed with the queue

vars == <<pending, ran, lost>>

InSeq(task, q) == \E i \in DOMAIN q : q[i] = task
Fresh(task) == ~InSeq(task, pending) /\ ~InSeq(task, ran) /\ task \notin lost

Init == pending = <<>> /\ ran = <<>> /\ lost = {}

Submit(task) ==
  /\ Fresh(task)
  /\ pending' = Append(pending, task)
  /\ UNCHANGED <<ran, lost>>

(* A task that is run by its caller passes no other.                       *)
RunInline(task) ==
  /\ Fresh(task) /\ pending = <<>>
  /\ ran' = Append(ran, task)
  /\ UNCHANGED <<pending, lost>>

RunNext ==
  /\ pending # <<>>
  /\ ran' = Append(ran, Head(pending))
  /\ pending' = Tail(pending)
  /\ UNCHANGED lost

(* The queue is destroyed.                                                 *)
Abandon ==
  /\ lost' = {pending[i] : i \in DOMAIN pending}
  /\ pending' = <<>>
  /\ UNCHANGED ran

Next == RunNext \/ Abandon \/ \E task \in Task : Submit(task) \/ RunInline(task)

Spec == Init /\ [][Next]_vars
=============================================================================
