---------------------------- MODULE AtbTaskQueue ----------------------------
(***************************************************************************)
(* The TaskQueue of the NPU plugin's ATB layers                            *)
(* (src/backends/npu/custom_op/llama_infer/atb_ops/atb_layers/runner.cc):  *)
(* a worker thread that executes the tasks the others commit, and a Wait   *)
(* that commits a task of its own and blocks on its future.                *)
(*                                                                         *)
(* A step is what a thread does between two accesses to what it shares:    *)
(* mutex_, task_list_, is_running_ and the condition variable.             *)
(* is_running_ is a plain bool; it is read and written as if it were       *)
(* atomic.                                                                 *)
(***************************************************************************)
EXTENDS Naturals, Sequences, FiniteSets

CONSTANTS
  Threads,      \* threads that call Commit and Wait
  Stopper,      \* the thread that destroys the queue at last, or None
  Worker,       \* thread_
  MaxTasks,     \* bound on the tasks each thread commits
  None

ASSUME WorkerAssumption == Worker \notin Threads /\ None \notin Threads \cup {Worker}
ASSUME StopperAssumption == Stopper \in Threads \cup {None}
ASSUME MaxTasksAssumption == MaxTasks \in Nat

VARIABLES
  blockingRun,  \* FLAGS_npu_blocking_run, set once
  running,      \* is_running_
  mutex,        \* the thread that holds mutex_, or None
  taskList,     \* task_list_
  pc,
  waiting,      \* the task this thread is in Wait for, or None
  asked,        \* tasks each thread has made so far
  executed,     \* the tasks that have run, the latest last
  broken        \* the tasks destroyed with the queue, their promises broken

vars == <<blockingRun, running, mutex, taskList, pc, waiting, asked, executed, broken>>

TaskOf(t, n) == <<t, n>>
Task == Threads \X (1..MaxTasks)
Current(t) == TaskOf(t, asked[t])
Goto(t, label) == pc' = [pc EXCEPT ![t] = label]
Done(task) == \E k \in 1..Len(executed) : executed[k] = task

Init ==
  /\ blockingRun \in BOOLEAN
  /\ running = TRUE
  /\ mutex = None
  /\ taskList = <<>>
  /\ pc = [t \in Threads \cup {Worker} |-> IF t = Worker THEN "top" ELSE "out"]
  /\ waiting = [t \in Threads |-> None]
  /\ asked = [t \in Threads |-> 0]
  /\ executed = <<>> /\ broken = {}

(***************************************************************************)
(* The worker.                                                             *)
(***************************************************************************)
(* while (is_running_)                                                     *)
WorkerTop ==
  /\ pc[Worker] = "top"
  /\ Goto(Worker, IF running THEN "lock" ELSE "exit")
  /\ UNCHANGED <<blockingRun, running, mutex, taskList, waiting, asked, executed, broken>>

WorkerLock ==
  /\ pc[Worker] = "lock" /\ mutex = None
  /\ mutex' = Worker
  /\ Goto(Worker, "check")
  /\ UNCHANGED <<blockingRun, running, taskList, waiting, asked, executed, broken>>

(* The predicate of cond_.wait.                                            *)
WorkerCheck ==
  /\ pc[Worker] = "check"
  /\ Goto(Worker, IF ~running \/ taskList # <<>> THEN "drain" ELSE "block")
  /\ UNCHANGED <<blockingRun, running, mutex, taskList, waiting, asked, executed, broken>>

WorkerBlock ==
  /\ pc[Worker] = "block"
  /\ mutex' = None
  /\ Goto(Worker, "blocked")
  /\ UNCHANGED <<blockingRun, running, taskList, waiting, asked, executed, broken>>

(* A condition variable may also wake spuriously.                          *)
WorkerWake ==
  /\ pc[Worker] = "blocked"
  /\ Goto(Worker, "lock")
  /\ UNCHANGED <<blockingRun, running, mutex, taskList, waiting, asked, executed, broken>>

(* A bug: the newest task first.                                           *)
WorkerRunLast ==
  /\ pc[Worker] = "drain" /\ taskList # <<>>
  /\ executed' = Append(executed, taskList[Len(taskList)])
  /\ taskList' = SubSeq(taskList, 1, Len(taskList) - 1)
  /\ UNCHANGED <<blockingRun, running, mutex, pc, waiting, asked, broken>>

(* The task runs while the worker holds mutex_.                            *)
WorkerRun ==
  /\ pc[Worker] = "drain" /\ taskList # <<>>
  /\ executed' = Append(executed, Head(taskList))
  /\ taskList' = Tail(taskList)
  /\ UNCHANGED <<blockingRun, running, mutex, pc, waiting, asked, broken>>

WorkerUnlock ==
  /\ pc[Worker] = "drain" /\ taskList = <<>>
  /\ mutex' = None
  /\ Goto(Worker, "top")
  /\ UNCHANGED <<blockingRun, running, taskList, waiting, asked, executed, broken>>

(***************************************************************************)
(* Commit and Wait.                                                        *)
(***************************************************************************)
(* The destructor has run; what a call inside the queue would do is        *)
(* undefined, and the model has no step for it.                            *)
Destroyed == Stopper # None /\ pc[Stopper] = "stopped"

Call(t) ==
  /\ pc[t] = "out" /\ asked[t] < MaxTasks /\ ~Destroyed
  /\ asked' = [asked EXCEPT ![t] = @ + 1]
  /\ Goto(t, "commit")
  /\ UNCHANGED <<blockingRun, running, mutex, taskList, executed, broken>>

CallCommit(t) == Call(t) /\ UNCHANGED waiting

CallWait(t) == Call(t) /\ waiting' = [waiting EXCEPT ![t] = TaskOf(t, asked[t] + 1)]

Committed(t) == Goto(t, IF waiting[t] = None THEN "out" ELSE "future")

(* With FLAGS_npu_blocking_run the task runs here, without mutex_. A       *)
(* stopped queue does not take the task: Wait still owns the one it made.  *)
CommitRead(t) ==
  /\ pc[t] = "commit" /\ ~Destroyed
  /\ \/ /\ running /\ ~blockingRun
        /\ Goto(t, "push")
        /\ UNCHANGED executed
     \/ /\ running /\ blockingRun
        /\ executed' = Append(executed, Current(t))
        /\ Committed(t)
     \/ /\ ~running
        /\ Committed(t)
        /\ UNCHANGED executed
  /\ UNCHANGED <<blockingRun, running, mutex, taskList, waiting, asked, broken>>

(* A bug: the condition variable is not notified.                          *)
CommitSilent(t) ==
  /\ pc[t] = "notify" /\ ~Destroyed
  /\ Committed(t)
  /\ UNCHANGED <<blockingRun, running, mutex, taskList, waiting, asked, executed, broken>>

(* A bug: the task is put in front of the others.                          *)
CommitFront(t) ==
  /\ pc[t] = "push" /\ mutex = None /\ ~Destroyed
  /\ taskList' = <<Current(t)>> \o taskList
  /\ Goto(t, "notify")
  /\ UNCHANGED <<blockingRun, running, mutex, waiting, asked, executed, broken>>

(* lock, emplace_back, unlock.                                             *)
CommitPush(t) ==
  /\ pc[t] = "push" /\ mutex = None /\ ~Destroyed
  /\ taskList' = Append(taskList, Current(t))
  /\ Goto(t, "notify")
  /\ UNCHANGED <<blockingRun, running, mutex, waiting, asked, executed, broken>>

Woken == [pc EXCEPT ![Worker] = IF @ = "blocked" THEN "lock" ELSE @]

CommitNotify(t) ==
  /\ pc[t] = "notify" /\ ~Destroyed
  /\ pc' = [Woken EXCEPT ![t] = IF waiting[t] = None THEN "out" ELSE "future"]
  /\ UNCHANGED <<blockingRun, running, mutex, taskList, waiting, asked, executed, broken>>

(* future.get: the task has run, or was destroyed in the list and the      *)
(* promise with it (an exception). A task Commit did not take does neither.*)
WaitReturn(t) ==
  /\ pc[t] = "future"
  /\ Done(waiting[t]) \/ waiting[t] \in broken
  /\ waiting' = [waiting EXCEPT ![t] = None]
  /\ Goto(t, "out")
  /\ UNCHANGED <<blockingRun, running, mutex, taskList, asked, executed, broken>>

(***************************************************************************)
(* Stop, from the destructor.                                              *)
(***************************************************************************)
StopFlag ==
  /\ Stopper # None /\ pc[Stopper] = "out" /\ running
  /\ running' = FALSE
  /\ Goto(Stopper, "stopping")
  /\ UNCHANGED <<blockingRun, mutex, taskList, waiting, asked, executed, broken>>

StopNotify ==
  /\ Stopper # None /\ pc[Stopper] = "stopping"
  /\ pc' = [Woken EXCEPT ![Stopper] = "join"]
  /\ UNCHANGED <<blockingRun, running, mutex, taskList, waiting, asked, executed, broken>>

(* join, and the members are destroyed.                                    *)
StopJoin ==
  /\ Stopper # None /\ pc[Stopper] = "join" /\ pc[Worker] = "exit"
  /\ broken' = {taskList[k] : k \in 1..Len(taskList)}
  /\ taskList' = <<>>
  /\ Goto(Stopper, "stopped")
  /\ UNCHANGED <<blockingRun, running, mutex, waiting, asked, executed>>

WorkerStep ==
  WorkerTop \/ WorkerLock \/ WorkerCheck \/ WorkerBlock \/ WorkerRun \/ WorkerUnlock

InnerStep(t) ==
  CommitRead(t) \/ CommitPush(t) \/ CommitNotify(t) \/ WaitReturn(t)

StopStep == StopNotify \/ StopJoin

Next ==
  \/ WorkerStep \/ WorkerWake
  \/ \E t \in Threads : CallCommit(t) \/ CallWait(t) \/ InnerStep(t)
  \/ StopFlag \/ StopStep

Spec == Init /\ [][Next]_vars

(* Every thread keeps running, and gets mutex_ if it is free again and     *)
(* again; nothing wakes the worker but a notification.                     *)
FairSpec ==
  /\ Spec
  /\ SF_vars(WorkerStep)
  /\ \A t \in Threads : SF_vars(InnerStep(t))
  /\ WF_vars(StopStep)

-----------------------------------------------------------------------------
(* A task is run at most once, and the tasks of one thread run in the order*)
(* of its Commits: the layers of the model are executed one after another. *)
ProgramOrder ==
  \A j, k \in 1..Len(executed) :
    j < k /\ executed[j][1] = executed[k][1] => executed[j][2] < executed[k][2]

(* When Wait returns and the queue has not been stopped, all the thread    *)
(* committed before has run: the caller reads the results next.            *)
WaitSound ==
  [][\A t \in Threads : waiting[t] # None /\ waiting'[t] = None /\ running =>
       \A n \in 1..asked[t] : Done(TaskOf(t, n))]_vars

(* No deadlock between the worker, which sleeps on the condition variable, *)
(* and the threads that wait for their tasks: unless the queue is stopped, *)
(* Wait returns.                                                           *)
WaitReturns == \A t \in Threads : waiting[t] # None ~> waiting[t] = None \/ ~running

Executor == INSTANCE TaskExecutor WITH pending <- taskList, ran <- executed, lost <- broken

(* To its callers the queue is an executor that runs each task once and in *)
(* the order of the commits, whatever the two threads and the worker do    *)
(* between the lock, the condition variable and the end of the queue.      *)
ImplementsExecutor == Executor!Spec
=============================================================================
