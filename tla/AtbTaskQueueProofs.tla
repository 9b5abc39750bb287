------------------------- MODULE AtbTaskQueueProofs --------------------------
(***************************************************************************)
(* The TaskQueue of the ATB layers keeps each thread's order, its Wait     *)
(* returns only when all the caller committed has run, and it implements   *)
(* TaskExecutor, for any number of threads and tasks.                      *)
(*                                                                         *)
(* The inductive invariant: the list and what has run are ordered for each *)
(* thread, the list after what has run; a task that is being committed is  *)
(* newer than all of its thread; and while the queue is not stopped,       *)
(* nothing that was committed is missing from the two.                     *)
(***************************************************************************)
EXTENDS AtbTaskQueue, TLAPS

Committing == {"commit", "push"}
Labels == {"top", "lock", "check", "block", "blocked", "drain", "exit",
           "out", "commit", "push", "notify", "future", "stopping", "join", "stopped"}

TypeInv ==
  /\ blockingRun \in BOOLEAN /\ running \in BOOLEAN
  /\ taskList \in Seq(Task) /\ executed \in Seq(Task)
  /\ pc \in [Threads \cup {Worker} -> Labels]
  /\ asked \in [Threads -> 0..MaxTasks]
  /\ waiting \in [Threads -> Task \cup {None}]

Listed(x) == \E k \in 1..Len(taskList) : taskList[k] = x
Given(x) == Done(x) \/ Listed(x) \/ x \in broken

Precedes(x, y) == x[1] = y[1] => x[2] < y[2]
Ordered(q) == \A j, k \in 1..Len(q) : j < k => Precedes(q[j], q[k])

OrderInv ==
  /\ Ordered(executed) /\ Ordered(taskList)
  /\ \A j \in 1..Len(executed), k \in 1..Len(taskList) : Precedes(executed[j], taskList[k])

GivenInv ==
  \A t \in Threads, n \in 1..MaxTasks : Given(<<t, n>>) =>
    /\ n <= asked[t]
    /\ pc[t] \in Committing => n < asked[t]

NothingMissing ==
  running => /\ broken = {}
             /\ \A t \in Threads : \A n \in 1..asked[t] :
                  Done(<<t, n>>) \/ Listed(<<t, n>>) \/ (n = asked[t] /\ pc[t] \in Committing)

CallInv ==
  \A t \in Threads :
    /\ pc[t] \in {"commit", "push", "notify", "future"} => asked[t] > 0
    /\ waiting[t] # None =>
         waiting[t] = Current(t) /\ pc[t] \in {"commit", "push", "notify", "future"}
    /\ pc[t] \in {"push", "notify"} => ~blockingRun
    /\ pc[t] \in {"stopping", "join", "stopped"} => ~running

InlineInv == blockingRun => taskList = <<>>

IInv == TypeInv /\ OrderInv /\ GivenInv /\ NothingMissing /\ CallInv /\ InlineInv

-----------------------------------------------------------------------------
(* Tasks are put behind a list and taken from its front.                   *)
LEMMA Appended ==
  ASSUME NEW q \in Seq(Task), NEW x \in Task
  PROVE  /\ Append(q, x) \in Seq(Task) /\ Len(q) \in Nat /\ Len(Append(q, x)) = Len(q) + 1
         /\ Append(q, x)[Len(q) + 1] = x
         /\ \A i \in 1..Len(q) : Append(q, x)[i] = q[i]
BY DEF Task

LEMMA Taken ==
  ASSUME NEW q \in Seq(Task), q # <<>>
  PROVE  /\ Head(q) \in Task /\ Head(q) = q[1] /\ Len(q) \in Nat /\ Len(q) > 0
         /\ Tail(q) \in Seq(Task) /\ Len(Tail(q)) = Len(q) - 1
         /\ \A i \in 1..Len(q) - 1 : Tail(q)[i] = q[i + 1]
BY DEF Task

LEMMA OrderedAppend ==
  ASSUME NEW q \in Seq(Task), NEW x \in Task, Ordered(q), \A i \in 1..Len(q) : Precedes(q[i], x)
  PROVE  Ordered(Append(q, x))
<1> DEFINE p == Append(q, x)
<1>1. Len(q) \in Nat /\ Len(p) = Len(q) + 1 /\ p[Len(q) + 1] = x /\ \A i \in 1..Len(q) : p[i] = q[i]
  BY Appended
<1> HIDE DEF p
<1>2. ASSUME NEW j \in 1..Len(p), NEW k \in 1..Len(p), j < k  PROVE Precedes(p[j], p[k])
  <2>1. j \in 1..Len(q) /\ p[j] = q[j]
    BY <1>1, <1>2
  <2>2. CASE k \in 1..Len(q)
    BY <2>1, <2>2, <1>1, <1>2 DEF Ordered
  <2>3. CASE k = Len(q) + 1
    BY <2>1, <2>3, <1>1
  <2>4. QED BY <2>2, <2>3, <1>1
<1>3. QED BY <1>2 DEF Ordered, p

LEMMA OrderedTail ==
  ASSUME NEW q \in Seq(Task), Ordered(q), q # <<>>
  PROVE  Ordered(Tail(q)) /\ \A i \in 1..Len(Tail(q)) : Precedes(Head(q), Tail(q)[i])
<1> DEFINE p == Tail(q)
<1>1. Len(q) \in Nat /\ Len(p) = Len(q) - 1 /\ Head(q) = q[1] /\ \A i \in 1..Len(p) : p[i] = q[i + 1]
  BY Taken
<1> HIDE DEF p
<1>2. ASSUME NEW j \in 1..Len(p), NEW k \in 1..Len(p), j < k  PROVE Precedes(p[j], p[k])
  <2>1. p[j] = q[j + 1] /\ p[k] = q[k + 1] /\ j + 1 \in 1..Len(q) /\ k + 1 \in 1..Len(q) /\ j + 1 < k + 1
    BY <1>1, <1>2
  <2>2. QED BY <2>1 DEF Ordered
<1>3. ASSUME NEW i \in 1..Len(p)  PROVE Precedes(q[1], p[i])
  <2>1. p[i] = q[i + 1] /\ i + 1 \in 1..Len(q) /\ 1 \in 1..Len(q) /\ 1 < i + 1
    BY <1>1
  <2>2. QED BY <2>1 DEF Ordered
<1>4. QED BY <1>1, <1>2, <1>3 DEF Ordered, p

LEMMA InitInv == Init => IInv
<1> SUFFICES ASSUME Init  PROVE IInv
  OBVIOUS
<1>1. TypeInv
  BY WorkerAssumption, MaxTasksAssumption DEF Init, TypeInv, Labels
<1>2. OrderInv /\ GivenInv /\ NothingMissing /\ CallInv /\ InlineInv
  BY WorkerAssumption DEF Init, OrderInv, Ordered, GivenInv, Given, Done, Listed, NothingMissing,
     CallInv, InlineInv
<1>3. QED BY <1>1, <1>2 DEF IInv

(* A task of a thread that is being committed is new to the queue.         *)
LEMMA CurrentNew ==
  ASSUME IInv, NEW t \in Threads, pc[t] \in Committing
  PROVE  /\ Current(t) \in Task /\ Current(t) = <<t, asked[t]>> /\ asked[t] \in 1..MaxTasks
         /\ ~Given(Current(t))
         /\ \A i \in 1..Len(executed) : Precedes(executed[i], Current(t))
         /\ \A i \in 1..Len(taskList) : Precedes(taskList[i], Current(t))
<1>1. asked[t] \in 1..MaxTasks
  BY MaxTasksAssumption DEF IInv, TypeInv, CallInv, Committing
<1>2. Current(t) \in Task /\ Current(t) = <<t, asked[t]>>
  BY <1>1 DEF Current, TaskOf, Task
<1>3. ~Given(Current(t))
  BY <1>1, <1>2 DEF IInv, GivenInv
<1>4. ASSUME NEW x \in Task, Given(x)  PROVE Precedes(x, Current(t))
  <2>1. PICK u \in Threads, n \in 1..MaxTasks : x = <<u, n>>
    BY DEF Task
  <2>2. u = t => n < asked[t]
    BY <2>1, <1>4 DEF IInv, GivenInv
  <2>3. QED BY <2>1, <2>2, <1>2 DEF Precedes
<1>5. \A i \in 1..Len(executed) : executed[i] \in Task /\ Given(executed[i])
  BY DEF IInv, TypeInv, Given, Done
<1>6. \A i \in 1..Len(taskList) : taskList[i] \in Task /\ Given(taskList[i])
  BY DEF IInv, TypeInv, Given, Listed
<1>7. QED BY <1>1, <1>2, <1>3, <1>4, <1>5, <1>6

-----------------------------------------------------------------------------
(* The steps that neither give the queue a task nor take one from it.      *)
LEMMA QuietStep ==
  ASSUME IInv, UNCHANGED <<blockingRun, taskList, executed, broken, asked>>,
         pc' \in [Threads \cup {Worker} -> Labels],
         running' = running \/ running' = FALSE,
         waiting' \in [Threads -> Task \cup {None}],
         \A t \in Threads : \/ pc'[t] = pc[t]
                            \/ pc'[t] = "push" /\ pc[t] = "commit" /\ ~blockingRun
                            \/ pc'[t] \in {"out", "future"} /\ pc[t] \in {"notify", "future"}
                            \/ pc'[t] \in {"out", "future"} /\ pc[t] = "commit" /\ ~running
                            \/ pc'[t] \in {"stopping", "join", "stopped"} /\ ~running'
                                 /\ waiting'[t] = None,
         \A t \in Threads : \/ waiting'[t] = None
                            \/ waiting'[t] = waiting[t] /\ pc'[t] # "out"
  PROVE  IInv'
<1>1. TypeInv'
  BY DEF IInv, TypeInv
<1>2. OrderInv' /\ InlineInv'
  BY DEF IInv, OrderInv, Ordered, InlineInv
<1>3. \A x : /\ Done(x)' <=> Done(x)
             /\ Listed(x)' <=> Listed(x)
             /\ Given(x)' <=> Given(x)
  BY DEF Given, Done, Listed
<1>4. GivenInv'
  BY <1>3 DEF IInv, GivenInv, Committing
<1>5. NothingMissing'
  BY <1>3 DEF IInv, NothingMissing, Committing
<1>6. CallInv'
  BY DEF IInv, CallInv, Current, TaskOf
<1>7. QED BY <1>1, <1>2, <1>4, <1>5, <1>6 DEF IInv

(* CallCommit, CallWait.                                                   *)
LEMMA CallStep ==
  ASSUME IInv, NEW t \in Threads, CallCommit(t) \/ CallWait(t)
  PROVE  IInv'
<1>1. /\ pc[t] = "out" /\ asked[t] \in 0..MaxTasks /\ asked[t] < MaxTasks
      /\ asked' = [asked EXCEPT ![t] = @ + 1] /\ pc' = [pc EXCEPT ![t] = "commit"]
      /\ UNCHANGED <<blockingRun, running, taskList, executed, broken>>
  BY DEF IInv, TypeInv, CallCommit, CallWait, Call, Goto
<1>2. /\ asked'[t] = asked[t] + 1 /\ pc'[t] = "commit" /\ asked'[t] \in 1..MaxTasks
      /\ \A u \in Threads \ {t} : asked'[u] = asked[u] /\ pc'[u] = pc[u]
  BY <1>1, MaxTasksAssumption DEF IInv, TypeInv
<1>3. /\ waiting'[t] \in {None, <<t, asked'[t]>>}
      /\ \A u \in Threads \ {t} : waiting'[u] = waiting[u]
      /\ waiting' \in [Threads -> Task \cup {None}]
  <2>1. waiting[t] = None
    BY <1>1 DEF IInv, CallInv
  <2>2. <<t, asked'[t]>> \in Task
    BY <1>2 DEF Task
  <2>3. waiting' = waiting \/ waiting' = [waiting EXCEPT ![t] = <<t, asked'[t]>>]
    BY <1>2 DEF CallCommit, CallWait, TaskOf
  <2>4. QED BY <2>1, <2>2, <2>3 DEF IInv, TypeInv
<1>4. TypeInv'
  <2>1. asked' \in [Threads -> 0..MaxTasks]
    BY <1>1, <1>2, MaxTasksAssumption DEF IInv, TypeInv
  <2>2. pc' \in [Threads \cup {Worker} -> Labels]
    BY <1>1 DEF IInv, TypeInv, Labels
  <2>3. QED BY <1>1, <1>3, <2>1, <2>2 DEF IInv, TypeInv
<1>5. OrderInv' /\ InlineInv'
  BY <1>1 DEF IInv, OrderInv, Ordered, InlineInv
<1>6. \A x : /\ Done(x)' <=> Done(x)
             /\ Listed(x)' <=> Listed(x)
             /\ Given(x)' <=> Given(x)
  BY <1>1 DEF Given, Done, Listed
<1>7. GivenInv'
  <2> SUFFICES ASSUME NEW u \in Threads, NEW n \in 1..MaxTasks, Given(<<u, n>>)
               PROVE  n <= asked'[u] /\ (pc'[u] \in Committing => n < asked'[u])
    BY <1>6 DEF GivenInv
  <2>1. n <= asked[u] /\ (pc[u] \in Committing => n < asked[u])
    BY DEF IInv, GivenInv
  <2>2. CASE u = t
    BY <2>1, <2>2, <1>1, <1>2
  <2>3. CASE u # t
    BY <2>1, <2>3, <1>2
  <2>4. QED BY <2>2, <2>3
<1>8. NothingMissing'
  <2> SUFFICES ASSUME running, NEW u \in Threads, NEW n \in 1..asked'[u]
               PROVE  Done(<<u, n>>) \/ Listed(<<u, n>>) \/ (n = asked'[u] /\ pc'[u] \in Committing)
    BY <1>1, <1>6 DEF IInv, NothingMissing
  <2>1. CASE u = t /\ n = asked'[t]
    BY <2>1, <1>2 DEF Committing
  <2>2. CASE u = t /\ n # asked'[t]
    <3>1. n \in 1..asked[t] /\ pc[t] \notin Committing
      BY <2>2, <1>1, <1>2 DEF Committing
    <3>2. QED BY <3>1, <2>2 DEF IInv, NothingMissing
  <2>3. CASE u # t
    BY <2>3, <1>2 DEF IInv, NothingMissing
  <2>4. QED BY <2>1, <2>2, <2>3
<1>9. CallInv'
  BY <1>1, <1>2, <1>3, MaxTasksAssumption DEF IInv, TypeInv, CallInv, Current, TaskOf
<1>10. QED BY <1>4, <1>5, <1>7, <1>8, <1>9 DEF IInv

(* The worker runs the task at the front of the list.                      *)
LEMMA RunStep ==
  ASSUME IInv, WorkerRun
  PROVE  IInv'
<1> DEFINE h == Head(taskList)
<1>1. /\ taskList # <<>> /\ taskList \in Seq(Task) /\ executed \in Seq(Task) /\ h \in Task
      /\ executed' = Append(executed, h) /\ taskList' = Tail(taskList)
      /\ UNCHANGED <<blockingRun, running, pc, waiting, asked, broken>>
  BY Taken DEF IInv, TypeInv, WorkerRun
<1>2. /\ Len(executed) \in Nat /\ Len(executed') = Len(executed) + 1
      /\ executed'[Len(executed) + 1] = h /\ executed' \in Seq(Task)
      /\ \A i \in 1..Len(executed) : executed'[i] = executed[i]
  BY <1>1, Appended
<1>3. /\ h = taskList[1] /\ Len(taskList) \in Nat /\ Len(taskList) > 0 /\ taskList' \in Seq(Task)
      /\ Len(taskList') = Len(taskList) - 1
      /\ \A i \in 1..Len(taskList) - 1 : taskList'[i] = taskList[i + 1]
  BY <1>1, Taken
<1> HIDE DEF h
<1>4. TypeInv'
  BY <1>1, <1>2, <1>3 DEF IInv, TypeInv
<1>5. OrderInv'
  <2>1. Ordered(executed')
    BY <1>1, <1>3, OrderedAppend DEF IInv, OrderInv
  <2>2. Ordered(taskList') /\ \A i \in 1..Len(taskList') : Precedes(h, taskList'[i])
    BY <1>1, OrderedTail DEF IInv, OrderInv, h
  <2>3. ASSUME NEW j \in 1..Len(executed'), NEW k \in 1..Len(taskList')
        PROVE  Precedes(executed'[j], taskList'[k])
    <3>1. CASE j \in 1..Len(executed)
      <4>1. executed'[j] = executed[j] /\ taskList'[k] = taskList[k + 1] /\ k + 1 \in 1..Len(taskList)
        BY <3>1, <1>2, <1>3
      <4>2. QED BY <3>1, <4>1 DEF IInv, OrderInv
    <3>2. CASE j = Len(executed) + 1
      BY <3>2, <2>2, <1>2
    <3>3. QED BY <3>1, <3>2, <1>2
  <2>4. QED BY <2>1, <2>2, <2>3 DEF OrderInv
<1>6. ASSUME NEW x  PROVE /\ Done(x) => Done(x)'
                          /\ Listed(x) => Listed(x)' \/ Done(x)'
                          /\ Given(x)' => Given(x)
  <2>1. Done(x) => Done(x)'
    BY <1>2 DEF Done
  <2>2. ASSUME Listed(x)  PROVE Listed(x)' \/ Done(x)'
    <3>1. PICK k \in 1..Len(taskList) : taskList[k] = x
      BY <2>2 DEF Listed
    <3>2. CASE k = 1
      BY <3>1, <3>2, <1>2, <1>3 DEF Done
    <3>3. CASE k # 1
      <4>1. k - 1 \in 1..Len(taskList') /\ taskList'[k - 1] = x
        BY <3>1, <3>3, <1>3
      <4>2. QED BY <4>1 DEF Listed
    <3>4. QED BY <3>2, <3>3
  <2>3. Listed(h)
    BY <1>3 DEF Listed
  <2>4. Done(x)' => Done(x) \/ x = h
    BY <1>2 DEF Done
  <2>5. Listed(x)' => Listed(x)
    <3>1. ASSUME NEW k \in 1..Len(taskList'), taskList'[k] = x  PROVE Listed(x)
      <4>1. k + 1 \in 1..Len(taskList) /\ taskList[k + 1] = x
        BY <3>1, <1>3
      <4>2. QED BY <4>1 DEF Listed
    <3>2. QED BY <3>1 DEF Listed
  <2>6. QED BY <1>1, <2>1, <2>2, <2>3, <2>4, <2>5 DEF Given
<1>7. GivenInv' /\ NothingMissing'
  BY <1>1, <1>6 DEF IInv, GivenInv, NothingMissing
<1>8. CallInv' /\ InlineInv'
  BY <1>1 DEF IInv, CallInv, Current, TaskOf, InlineInv
<1>9. QED BY <1>4, <1>5, <1>7, <1>8 DEF IInv

(* Commit puts the task into the list.                                     *)
LEMMA PushStep ==
  ASSUME IInv, NEW t \in Threads, CommitPush(t)
  PROVE  IInv'
<1> DEFINE c == Current(t)
<1>1. /\ pc[t] = "push" /\ taskList' = Append(taskList, c)
      /\ pc' = [pc EXCEPT ![t] = "notify"] /\ taskList \in Seq(Task)
      /\ UNCHANGED <<blockingRun, running, waiting, asked, executed, broken>>
  BY DEF IInv, TypeInv, CommitPush, Goto
<1>2. /\ c \in Task /\ c = <<t, asked[t]>> /\ asked[t] \in 1..MaxTasks
      /\ \A i \in 1..Len(executed) : Precedes(executed[i], c)
      /\ \A i \in 1..Len(taskList) : Precedes(taskList[i], c)
  BY <1>1, CurrentNew DEF Committing
<1> HIDE DEF c
<1>3. /\ Len(taskList) \in Nat /\ Len(taskList') = Len(taskList) + 1 /\ taskList' \in Seq(Task)
      /\ taskList'[Len(taskList) + 1] = c
      /\ \A i \in 1..Len(taskList) : taskList'[i] = taskList[i]
  BY <1>1, <1>2, Appended
<1>4. pc'[t] = "notify" /\ \A u \in Threads \ {t} : pc'[u] = pc[u]
  BY <1>1 DEF IInv, TypeInv
<1>5. TypeInv'
  BY <1>1, <1>3 DEF IInv, TypeInv, Labels
<1>6. OrderInv'
  <2>1. Ordered(taskList')
    BY <1>1, <1>2, OrderedAppend DEF IInv, OrderInv
  <2>2. \A k \in 1..Len(taskList') : taskList'[k] = c \/ (k \in 1..Len(taskList) /\ taskList'[k] = taskList[k])
    BY <1>3
  <2>3. QED BY <2>1, <2>2, <1>1, <1>2 DEF IInv, OrderInv
<1>7. \A x : (Done(x)' <=> Done(x)) /\ (Listed(x)' <=> Listed(x) \/ x = c)
  BY <1>1, <1>3 DEF Done, Listed
<1>8. GivenInv'
  <2> SUFFICES ASSUME NEW u \in Threads, NEW n \in 1..MaxTasks, Given(<<u, n>>)'
               PROVE  n <= asked[u] /\ (pc'[u] \in Committing => n < asked[u])
    BY <1>1 DEF GivenInv
  <2>1. CASE <<u, n>> = c
    BY <2>1, <1>2, <1>4 DEF Committing
  <2>2. CASE Given(<<u, n>>)
    BY <2>2, <1>4 DEF IInv, GivenInv, Committing
  <2>3. QED BY <2>1, <2>2, <1>1, <1>7 DEF Given
<1>9. NothingMissing'
  <2> SUFFICES ASSUME running, NEW u \in Threads, NEW n \in 1..asked[u]
               PROVE  Done(<<u, n>>) \/ Listed(<<u, n>>) \/ <<u, n>> = c
                        \/ (n = asked[u] /\ pc'[u] \in Committing)
    BY <1>1, <1>7 DEF IInv, NothingMissing
  <2>1. Done(<<u, n>>) \/ Listed(<<u, n>>) \/ (n = asked[u] /\ pc[u] \in Committing)
    BY DEF IInv, NothingMissing
  <2>2. QED BY <2>1, <1>2, <1>4
<1>10. CallInv' /\ InlineInv'
  BY <1>1, <1>4 DEF IInv, CallInv, Current, TaskOf, InlineInv
<1>11. QED BY <1>5, <1>6, <1>8, <1>9, <1>10 DEF IInv

(* With FLAGS_npu_blocking_run Commit runs the task itself.                *)
LEMMA InlineStep ==
  ASSUME IInv, NEW t \in Threads, pc[t] = "commit", blockingRun,
         executed' = Append(executed, Current(t)), Committed(t),
         UNCHANGED <<blockingRun, running, mutex, taskList, waiting, asked, broken>>
  PROVE  IInv'
<1> DEFINE c == Current(t)
<1>1. /\ c \in Task /\ c = <<t, asked[t]>> /\ asked[t] \in 1..MaxTasks
      /\ \A i \in 1..Len(executed) : Precedes(executed[i], c)
      /\ executed \in Seq(Task) /\ taskList = <<>>
  BY CurrentNew DEF Committing, IInv, TypeInv, InlineInv
<1>2. executed' = Append(executed, c)
  OBVIOUS
<1> HIDE DEF c
<1>3. /\ Len(executed) \in Nat /\ Len(executed') = Len(executed) + 1 /\ executed' \in Seq(Task)
      /\ executed'[Len(executed) + 1] = c
      /\ \A i \in 1..Len(executed) : executed'[i] = executed[i]
  BY <1>1, <1>2, Appended
<1>4. /\ pc'[t] = (IF waiting[t] = None THEN "out" ELSE "future")
      /\ \A u \in Threads \ {t} : pc'[u] = pc[u]
      /\ pc' \in [Threads \cup {Worker} -> Labels]
  BY DEF IInv, TypeInv, Committed, Goto, Labels
<1>5. TypeInv'
  BY <1>3, <1>4 DEF IInv, TypeInv
<1>6. OrderInv'
  <2>1. Ordered(executed')
    BY <1>1, <1>2, OrderedAppend DEF IInv, OrderInv
  <2>2. Ordered(taskList') /\ Len(taskList') = 0
    BY <1>1 DEF Ordered
  <2>3. QED BY <2>1, <2>2 DEF OrderInv
<1>7. \A x : (Done(x)' <=> Done(x) \/ x = c) /\ (Listed(x)' <=> Listed(x))
  BY <1>3 DEF Done, Listed
<1>8. GivenInv'
  <2> SUFFICES ASSUME NEW u \in Threads, NEW n \in 1..MaxTasks, Given(<<u, n>>)'
               PROVE  n <= asked[u] /\ (pc'[u] \in Committing => n < asked[u])
    BY DEF GivenInv
  <2>1. CASE <<u, n>> = c
    BY <2>1, <1>1, <1>4 DEF Committing
  <2>2. CASE Given(<<u, n>>)
    BY <2>2, <1>4 DEF IInv, GivenInv, Committing
  <2>3. QED BY <2>1, <2>2, <1>7 DEF Given
<1>9. NothingMissing'
  <2> SUFFICES ASSUME running, NEW u \in Threads, NEW n \in 1..asked[u]
               PROVE  Done(<<u, n>>) \/ <<u, n>> = c \/ Listed(<<u, n>>)
                        \/ (n = asked[u] /\ pc'[u] \in Committing)
    BY <1>7 DEF IInv, NothingMissing
  <2>1. Done(<<u, n>>) \/ Listed(<<u, n>>) \/ (n = asked[u] /\ pc[u] \in Committing)
    BY DEF IInv, NothingMissing
  <2>2. QED BY <2>1, <1>1, <1>4
<1>10. CallInv' /\ InlineInv'
  BY <1>4 DEF IInv, CallInv, Current, TaskOf, InlineInv
<1>11. QED BY <1>5, <1>6, <1>8, <1>9, <1>10 DEF IInv

(* The queue is destroyed with the tasks in it.                            *)
LEMMA JoinStep ==
  ASSUME IInv, StopJoin
  PROVE  IInv'
<1>1. /\ Stopper \in Threads /\ pc[Stopper] = "join" /\ ~running
      /\ broken' = {taskList[k] : k \in 1..Len(taskList)} /\ taskList' = <<>>
      /\ pc' = [pc EXCEPT ![Stopper] = "stopped"]
      /\ UNCHANGED <<blockingRun, running, waiting, asked, executed>>
  BY StopperAssumption DEF IInv, CallInv, StopJoin, Goto
<1>2. pc'[Stopper] = "stopped" /\ \A u \in Threads \ {Stopper} : pc'[u] = pc[u]
  BY <1>1 DEF IInv, TypeInv
<1>3. TypeInv'
  BY <1>1 DEF IInv, TypeInv, Labels
<1>4. OrderInv' /\ InlineInv' /\ NothingMissing'
  BY <1>1 DEF IInv, OrderInv, Ordered, InlineInv, NothingMissing
<1>5. \A x : Given(x)' => Given(x)
  BY <1>1 DEF Given, Done, Listed
<1>6. GivenInv'
  BY <1>1, <1>2, <1>5 DEF IInv, GivenInv, Committing
<1>7. CallInv'
  BY <1>1, <1>2 DEF IInv, CallInv, Current, TaskOf
<1>8. QED BY <1>3, <1>4, <1>6, <1>7 DEF IInv

LEMMA NextInv == IInv /\ [Next]_vars => IInv'
<1> SUFFICES ASSUME IInv, [Next]_vars  PROVE IInv'
  OBVIOUS
<1>1. ASSUME WorkerTop \/ WorkerLock \/ WorkerCheck \/ WorkerBlock \/ WorkerUnlock \/ WorkerWake
      PROVE  IInv'
  <2>1. \A t \in Threads : t # Worker
    BY WorkerAssumption
  <2>2. /\ UNCHANGED <<blockingRun, running, taskList, waiting, asked, executed, broken>>
        /\ pc' \in [Threads \cup {Worker} -> Labels]
        /\ \A t \in Threads : pc'[t] = pc[t]
    BY <1>1, <2>1 DEF IInv, TypeInv, Labels, Goto, WorkerTop, WorkerLock, WorkerCheck, WorkerBlock,
       WorkerUnlock, WorkerWake
  <2>3. waiting' \in [Threads -> Task \cup {None}] /\ \A t \in Threads : waiting'[t] # None => pc'[t] # "out"
    BY <2>2 DEF IInv, TypeInv, CallInv
  <2>4. QED BY <2>2, <2>3, QuietStep
<1>2. CASE WorkerRun
  BY <1>2, RunStep
<1>3. ASSUME NEW t \in Threads, CallCommit(t) \/ CallWait(t)  PROVE IInv'
  BY <1>3, CallStep
<1>4. ASSUME NEW t \in Threads, CommitRead(t)  PROVE IInv'
  <2>1. CASE running /\ blockingRun
    BY <1>4, <2>1, InlineStep DEF CommitRead
  <2>2. CASE ~(running /\ blockingRun)
    <3>1. /\ pc[t] = "commit"
          /\ UNCHANGED <<blockingRun, running, taskList, waiting, asked, executed, broken>>
          /\ \/ ~blockingRun /\ pc' = [pc EXCEPT ![t] = "push"]
             \/ ~running /\ pc' = [pc EXCEPT ![t] = IF waiting[t] = None THEN "out" ELSE "future"]
      BY <1>4, <2>2 DEF CommitRead, Committed, Goto
    <3>2. waiting' \in [Threads -> Task \cup {None}] /\ \A u \in Threads : waiting'[u] # None => pc'[u] # "out"
      BY <3>1 DEF IInv, TypeInv, CallInv
    <3>3. pc' \in [Threads \cup {Worker} -> Labels]
      BY <3>1 DEF IInv, TypeInv, Labels
    <3>4. QED BY <3>1, <3>2, <3>3, QuietStep DEF IInv, TypeInv
  <2>3. QED BY <2>1, <2>2
<1>5. ASSUME NEW t \in Threads, CommitPush(t)  PROVE IInv'
  BY <1>5, PushStep
<1>6. ASSUME NEW t \in Threads, CommitNotify(t)  PROVE IInv'
  <2>1. /\ pc[t] = "notify" /\ t # Worker
        /\ UNCHANGED <<blockingRun, running, taskList, waiting, asked, executed, broken>>
        /\ pc' = [Woken EXCEPT ![t] = IF waiting[t] = None THEN "out" ELSE "future"]
    BY <1>6, WorkerAssumption DEF CommitNotify
  <2>2. Woken \in [Threads \cup {Worker} -> Labels] /\ \A u \in Threads : Woken[u] = pc[u]
    BY WorkerAssumption DEF IInv, TypeInv, Labels, Woken
  <2>3. /\ pc' \in [Threads \cup {Worker} -> Labels]
        /\ pc'[t] = (IF waiting[t] = None THEN "out" ELSE "future")
        /\ \A u \in Threads \ {t} : pc'[u] = pc[u]
    BY <2>1, <2>2 DEF Labels
  <2>4. waiting' \in [Threads -> Task \cup {None}] /\ \A u \in Threads : waiting'[u] # None => pc'[u] # "out"
    BY <2>1, <2>3 DEF IInv, TypeInv, CallInv
  <2>5. QED BY <2>1, <2>3, <2>4, QuietStep
<1>7. ASSUME NEW t \in Threads, WaitReturn(t)  PROVE IInv'
  <2>1. /\ pc[t] = "future"
        /\ UNCHANGED <<blockingRun, running, taskList, asked, executed, broken>>
        /\ pc' = [pc EXCEPT ![t] = "out"] /\ waiting' = [waiting EXCEPT ![t] = None]
    BY <1>7 DEF WaitReturn, Goto
  <2>2. /\ pc' \in [Threads \cup {Worker} -> Labels]
        /\ pc'[t] = "out" /\ \A u \in Threads \ {t} : pc'[u] = pc[u]
    BY <2>1 DEF IInv, TypeInv, Labels
  <2>3. /\ waiting' \in [Threads -> Task \cup {None}] /\ waiting'[t] = None
        /\ \A u \in Threads \ {t} : waiting'[u] = waiting[u] /\ (waiting[u] # None => pc[u] # "out")
    BY <2>1 DEF IInv, TypeInv, CallInv
  <2>4. QED BY <2>1, <2>2, <2>3, QuietStep
<1>8. CASE StopFlag \/ StopNotify
  <2>1. /\ Stopper \in Threads /\ Stopper # Worker /\ pc[Stopper] \in {"out", "stopping"} /\ ~running'
        /\ UNCHANGED <<blockingRun, taskList, waiting, asked, executed, broken>>
    BY <1>8, StopperAssumption, WorkerAssumption DEF IInv, CallInv, StopFlag, StopNotify
  <2>2. Woken \in [Threads \cup {Worker} -> Labels] /\ \A u \in Threads : Woken[u] = pc[u]
    BY WorkerAssumption DEF IInv, TypeInv, Labels, Woken
  <2>3. /\ pc' \in [Threads \cup {Worker} -> Labels] /\ pc'[Stopper] \in {"stopping", "join"}
        /\ \A u \in Threads \ {Stopper} : pc'[u] = pc[u]
    BY <1>8, <2>1, <2>2 DEF IInv, TypeInv, Labels, StopFlag, StopNotify, Goto
  <2>4. waiting[Stopper] = None
    BY <2>1 DEF IInv, CallInv
  <2>5. waiting' \in [Threads -> Task \cup {None}] /\ \A u \in Threads : waiting'[u] # None => pc'[u] # "out"
    BY <2>1, <2>3, <2>4 DEF IInv, TypeInv, CallInv
  <2>6. running' = FALSE
    BY <1>8, <2>1 DEF IInv, TypeInv, StopFlag, StopNotify
  <2>7. QED BY <2>1, <2>3, <2>4, <2>5, <2>6, QuietStep
<1>9. CASE StopJoin
  BY <1>9, JoinStep
<1>10. CASE UNCHANGED vars
  <2>1. \A u \in Threads : waiting[u] # None => pc[u] # "out"
    BY DEF IInv, CallInv
  <2>2. QED BY <1>10, <2>1, QuietStep DEF vars, IInv, TypeInv
<1>11. QED BY <1>1, <1>2, <1>3, <1>4, <1>5, <1>6, <1>7, <1>8, <1>9, <1>10
          DEF Next, WorkerStep, InnerStep, StopStep

-----------------------------------------------------------------------------
(* A task runs at most once and after all its thread committed before, for *)
(* any number of threads, whether the worker runs it or the caller does.   *)
THEOREM ProgramOrderCorrect == Spec => []ProgramOrder
<1>1. IInv => ProgramOrder
  BY DEF IInv, OrderInv, Ordered, Precedes, ProgramOrder
<1>2. QED BY <1>1, InitInv, NextInv, PTL DEF Spec

(* Wait returns only when all its thread committed has run: its own task   *)
(* is behind the others in the list, and the list is run from the front.   *)
LEMMA WaitStep ==
  ASSUME IInv, [Next]_vars, NEW t \in Threads, waiting[t] # None, waiting'[t] = None, running
  PROVE  \A n \in 1..asked[t] : Done(TaskOf(t, n))
<1>1. WaitReturn(t)
  BY DEF IInv, TypeInv, Next, vars, WorkerStep, WorkerTop, WorkerLock, WorkerCheck, WorkerBlock, WorkerWake,
     WorkerRun, WorkerUnlock, CallCommit, CallWait, Call, InnerStep, CommitRead, CommitPush,
     CommitNotify, WaitReturn, StopFlag, StopStep, StopNotify, StopJoin, CallInv
<1>2. /\ waiting[t] = <<t, asked[t]>> /\ pc[t] = "future" /\ broken = {}
      /\ asked[t] \in Nat /\ Done(<<t, asked[t]>>)
  <2>1. Done(waiting[t]) \/ waiting[t] \in broken
    BY <1>1 DEF WaitReturn
  <2>2. waiting[t] = <<t, asked[t]>> /\ pc[t] = "future" /\ broken = {}
    BY <1>1 DEF WaitReturn, IInv, CallInv, NothingMissing, Current, TaskOf
  <2>3. asked[t] \in Nat
    BY MaxTasksAssumption DEF IInv, TypeInv
  <2>4. Done(<<t, asked[t]>>)
    BY <2>1, <2>2
  <2>5. QED BY <2>2, <2>3, <2>4
<1>3. ASSUME NEW n \in 1..asked[t], Listed(<<t, n>>)  PROVE FALSE
  <2>1. PICK k \in 1..Len(taskList) : taskList[k] = <<t, n>>
    BY <1>3 DEF Listed
  <2>2. PICK j \in 1..Len(executed) : executed[j] = <<t, asked[t]>>
    BY <1>2 DEF Done
  <2>3. asked[t] < n
    BY <2>1, <2>2 DEF IInv, OrderInv, Precedes
  <2>4. QED BY <2>3, <1>2
<1>4. QED BY <1>2, <1>3 DEF IInv, NothingMissing, Committing, TaskOf

THEOREM WaitSoundCorrect == Spec => WaitSound
<1>1. IInv /\ [Next]_vars =>
        [\A t \in Threads : waiting[t] # None /\ waiting'[t] = None /\ running =>
           \A n \in 1..asked[t] : Done(TaskOf(t, n))]_vars
  BY WaitStep
<1>2. QED BY <1>1, InitInv, NextInv, PTL DEF Spec, WaitSound

-----------------------------------------------------------------------------
(* The queue, its worker and its threads, with the destructor, implement   *)
(* the executor of TaskExecutor: each step is one of its steps or none.    *)
LEMMA FreshTask ==
  ASSUME IInv, NEW x, ~Given(x)
  PROVE  Executor!Fresh(x)
<1>1. DOMAIN taskList = 1..Len(taskList) /\ DOMAIN executed = 1..Len(executed)
  BY DEF IInv, TypeInv
<1>2. QED BY <1>1 DEF Executor!Fresh, Executor!InSeq, Given, Done, Listed

LEMMA StepRefines == IInv /\ [Next]_vars => [Executor!Next]_<<taskList, executed, broken>>
<1> SUFFICES ASSUME IInv, [Next]_vars
             PROVE  Executor!Next \/ UNCHANGED <<taskList, executed, broken>>
  OBVIOUS
<1>1. CASE WorkerRun
  BY <1>1 DEF WorkerRun, Executor!Next, Executor!RunNext
<1>2. ASSUME NEW t \in Threads, CommitPush(t)  PROVE Executor!Next
  <2>1. Current(t) \in Task /\ ~Given(Current(t))
    BY <1>2, CurrentNew DEF CommitPush, Committing
  <2>2. Executor!Submit(Current(t))
    BY <1>2, <2>1, FreshTask DEF CommitPush, Executor!Submit
  <2>3. QED BY <2>1, <2>2 DEF Executor!Next
<1>3. ASSUME NEW t \in Threads, CommitRead(t)
      PROVE  Executor!Next \/ UNCHANGED <<taskList, executed, broken>>
  <2>1. CASE running /\ blockingRun
    <3>1. Current(t) \in Task /\ ~Given(Current(t))
      BY <1>3, CurrentNew DEF CommitRead, Committing
    <3>2. Executor!RunInline(Current(t))
      BY <1>3, <2>1, <3>1, FreshTask DEF CommitRead, Executor!RunInline, IInv, InlineInv
    <3>3. QED BY <3>1, <3>2 DEF Executor!Next
  <2>2. CASE ~(running /\ blockingRun)
    BY <1>3, <2>2 DEF CommitRead
  <2>3. QED BY <2>1, <2>2
<1>4. CASE StopJoin
  <2>1. DOMAIN taskList = 1..Len(taskList)
    BY DEF IInv, TypeInv
  <2>2. Executor!Abandon
    BY <1>4, <2>1 DEF StopJoin, Executor!Abandon
  <2>3. QED BY <2>2 DEF Executor!Next
<1>5. QED BY <1>1, <1>2, <1>3, <1>4
         DEF Next, vars, WorkerStep, WorkerTop, WorkerLock, WorkerCheck, WorkerBlock, WorkerWake,
             WorkerUnlock, CallCommit, CallWait, Call, InnerStep, CommitNotify, WaitReturn, StopFlag,
             StopStep, StopNotify

THEOREM ExecutorRefinement == Spec => ImplementsExecutor
<1>1. Init => Executor!Init
  BY DEF Init, Executor!Init
<1>2. QED BY <1>1, InitInv, NextInv, StepRefines, PTL DEF Spec, ImplementsExecutor, Executor!Spec, Executor!vars
=============================================================================
