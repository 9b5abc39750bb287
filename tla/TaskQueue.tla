----------------------------- MODULE TaskQueue ------------------------------
(***************************************************************************)
(* A device stream: the queue of the tasks the driver has accepted and not *)
(* yet run.  The driver is external to the plugins; they rely only on the  *)
(* order within one stream, so a task is whatever the model that uses this *)
(* module puts into the queue.                                             *)
(***************************************************************************)
EXTENDS Naturals, Sequences

In(task, q) == \E i \in 1..Len(q) : q[i] = task

Once(task, q) == \A i, j \in 1..Len(q) : q[i] = task /\ q[j] = task => i = j

(* Every w in q is followed by an m.                                       *)
Before(w, m, q) ==
  \A i \in 1..Len(q) : q[i] = w => \E j \in (i+1)..Len(q) : q[j] = m
=============================================================================
