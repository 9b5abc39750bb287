-------------------------- MODULE TaskQueueLemmas ---------------------------
(***************************************************************************)
(* What enqueuing a task and running the one at the head do to a stream.   *)
(***************************************************************************)
EXTENDS TaskQueue, TLAPS

(* A task is in a queue after an append iff it was there or is the new one:*)
(* aclrt calls add at the end of a stream.                                 *)
LEMMA InAppend ==
  ASSUME NEW S, NEW q \in Seq(S), NEW x \in S, NEW y
  PROVE  In(y, Append(q, x)) <=> In(y, q) \/ y = x
<1>1. /\ Len(Append(q, x)) = Len(q) + 1
      /\ \A i \in 1..Len(q) : Append(q, x)[i] = q[i]
      /\ Append(q, x)[Len(q) + 1] = x
      /\ Len(q) \in Nat
  OBVIOUS
<1> QED  BY <1>1 DEF In

(* Running the task at the head of a stream removes just that task.        *)
LEMMA InTail ==
  ASSUME NEW S, NEW q \in Seq(S), q # <<>>, NEW y
  PROVE  /\ In(y, Tail(q)) => In(y, q)
         /\ In(y, q) => In(y, Tail(q)) \/ y = Head(q)
         /\ In(Head(q), q)
<1>1. /\ Len(q) \in Nat \ {0}
      /\ Len(Tail(q)) = Len(q) - 1
      /\ \A i \in 1..(Len(q) - 1) : Tail(q)[i] = q[i+1]
      /\ Head(q) = q[1]
  OBVIOUS
<1>2. In(y, Tail(q)) => In(y, q)
  BY <1>1 DEF In
<1>3. ASSUME NEW i \in 1..Len(q), q[i] = y
      PROVE  In(y, Tail(q)) \/ y = Head(q)
  <2>1. CASE i = 1
    BY <1>1, <1>3, <2>1
  <2>2. CASE i # 1
    <3>1. i - 1 \in 1..Len(Tail(q)) /\ Tail(q)[i - 1] = y
      BY <1>1, <1>3, <2>2
    <3> QED  BY <3>1 DEF In
  <2> QED  BY <2>1, <2>2
<1> QED  BY <1>1, <1>2, <1>3 DEF In

(* A task appended to a queue that does not hold it is there once, and     *)
(* appending another task does not add one.                                *)
LEMMA OnceAppend ==
  ASSUME NEW S, NEW q \in Seq(S), NEW x \in S, NEW m,
         Once(m, q), m = x => ~In(m, q)
  PROVE  Once(m, Append(q, x))
<1>1. /\ Len(Append(q, x)) = Len(q) + 1
      /\ \A i \in 1..Len(q) : Append(q, x)[i] = q[i]
      /\ Append(q, x)[Len(q) + 1] = x
      /\ Len(q) \in Nat
  OBVIOUS
<1> QED  BY <1>1 DEF Once, In

(* A task that is in a queue once is gone when it has run.                 *)
LEMMA OnceTail ==
  ASSUME NEW S, NEW q \in Seq(S), q # <<>>, NEW m, Once(m, q)
  PROVE  /\ Once(m, Tail(q))
         /\ Head(q) = m => ~In(m, Tail(q))
<1>1. /\ Len(q) \in Nat \ {0}
      /\ Len(Tail(q)) = Len(q) - 1
      /\ \A i \in 1..(Len(q) - 1) : Tail(q)[i] = q[i+1]
      /\ Head(q) = q[1]
  OBVIOUS
<1>2. Once(m, Tail(q))
  <2> SUFFICES ASSUME NEW i \in 1..Len(Tail(q)), NEW j \in 1..Len(Tail(q)),
                      Tail(q)[i] = m, Tail(q)[j] = m
               PROVE  i = j
    BY DEF Once
  <2>1. i + 1 \in 1..Len(q) /\ j + 1 \in 1..Len(q) /\ q[i+1] = m /\ q[j+1] = m
    BY <1>1
  <2>2. i + 1 = j + 1
    BY <2>1 DEF Once
  <2> QED  BY <2>2, <1>1
<1>3. ASSUME Head(q) = m, In(m, Tail(q))  PROVE FALSE
  <2>1. PICK i \in 1..Len(Tail(q)) : Tail(q)[i] = m
    BY <1>3 DEF In
  <2>2. i + 1 \in 1..Len(q) /\ 1 \in 1..Len(q) /\ q[i+1] = m /\ q[1] = m /\ i + 1 # 1
    BY <1>1, <1>3, <2>1
  <2> QED  BY <2>2 DEF Once
<1> QED  BY <1>2, <1>3

(* A marker appended to a queue is behind every task that is there.        *)
LEMMA BeforeMark ==
  ASSUME NEW S, NEW q \in Seq(S), NEW m \in S, NEW w, w # m
  PROVE  Before(w, m, Append(q, m))
<1>1. /\ Len(Append(q, m)) = Len(q) + 1
      /\ \A i \in 1..Len(q) : Append(q, m)[i] = q[i]
      /\ Append(q, m)[Len(q) + 1] = m
      /\ Len(q) \in Nat
  OBVIOUS
<1> QED  BY <1>1 DEF Before

(* Appending another task keeps it so.                                     *)
LEMMA BeforeAppend ==
  ASSUME NEW S, NEW q \in Seq(S), NEW x \in S, NEW w, NEW m, Before(w, m, q), x # w
  PROVE  Before(w, m, Append(q, x))
<1>1. /\ Len(Append(q, x)) = Len(q) + 1
      /\ \A i \in 1..Len(q) : Append(q, x)[i] = q[i]
      /\ Append(q, x)[Len(q) + 1] = x
      /\ Len(q) \in Nat
  OBVIOUS
<1>2. SUFFICES ASSUME NEW i \in 1..Len(Append(q, x)), Append(q, x)[i] = w
               PROVE  \E j \in (i+1)..Len(Append(q, x)) : Append(q, x)[j] = m
  BY DEF Before
<1>3. i \in 1..Len(q) /\ q[i] = w
  BY <1>1, <1>2
<1>4. PICK j \in (i+1)..Len(q) : q[j] = m
  BY <1>3 DEF Before
<1> QED  BY <1>1, <1>3, <1>4

(* Running the head keeps it so, and a marker that runs has no such task   *)
(* left behind it.                                                         *)
LEMMA BeforeTail ==
  ASSUME NEW S, NEW q \in Seq(S), q # <<>>, NEW w, NEW m, w # m, Before(w, m, q)
  PROVE  /\ Before(w, m, Tail(q))
         /\ Once(m, q) /\ Head(q) = m => ~In(w, q)
<1>1. /\ Len(q) \in Nat \ {0}
      /\ Len(Tail(q)) = Len(q) - 1
      /\ \A i \in 1..(Len(q) - 1) : Tail(q)[i] = q[i+1]
      /\ Head(q) = q[1]
  OBVIOUS
<1>2. Before(w, m, Tail(q))
  <2> SUFFICES ASSUME NEW i \in 1..Len(Tail(q)), Tail(q)[i] = w
               PROVE  \E j \in (i+1)..Len(Tail(q)) : Tail(q)[j] = m
    BY DEF Before
  <2>1. i + 1 \in 1..Len(q) /\ q[i+1] = w
    BY <1>1
  <2>2. PICK j \in (i+2)..Len(q) : q[j] = m
    BY <2>1, <1>1 DEF Before
  <2>3. j - 1 \in (i+1)..Len(Tail(q)) /\ Tail(q)[j - 1] = m
    BY <1>1, <2>2
  <2> QED  BY <2>3
<1>3. ASSUME Once(m, q), Head(q) = m, NEW i \in 1..Len(q), q[i] = w
      PROVE  FALSE
  <2>1. PICK j \in (i+1)..Len(q) : q[j] = m
    BY <1>3 DEF Before
  <2>2. j # 1 /\ j \in 1..Len(q) /\ 1 \in 1..Len(q) /\ q[1] = m
    BY <1>1, <1>3, <2>1
  <2> QED  BY <1>3, <2>1, <2>2 DEF Once
<1> QED  BY <1>2, <1>3 DEF In
=============================================================================
