--------------------------- MODULE LosQueueProofs ---------------------------
(***************************************************************************)
(* Theorems about LosQueue and LosMail, for any number of tasks,           *)
(* priorities, queues, messages and mail blocks and any lengths: the       *)
(* counts agree with the tasks in flight, no queue is deleted under an     *)
(* operation, every queue implements the module MessageQueue; a mail block *)
(* is in one place, who waited for one was given one, and every pool       *)
(* implements the module Semaphore.                                        *)
(*                                                                         *)
(* The first section is about one ring of nodes; what task management does *)
(* to the tasks that wait comes from LosWaitProofs (Waits).                *)
(***************************************************************************)
EXTENDS LosMail, LosWaitProofs

RW == {"READ", "WRITE"}

\* The control blocks.
ControlBlock == [used : BOOLEAN, len : Nat, head : Nat, tail : Nat,
                 cell : Seq(Msg \cup {NoMsg}), cnt : [RW -> Nat]]

-----------------------------------------------------------------------------
(* One ring.                                                               *)

\* The position of the node i places behind the head.
Slot(cb, i) == IF cb.head + i < cb.len THEN cb.head + i ELSE cb.head + i - cb.len

\* The ring of cb holds n messages, from its head to its tail.
Ring(cb, n) ==
  /\ cb.len \in Nat \ {0} /\ cb.head < cb.len /\ cb.tail < cb.len
  /\ n \in 0..cb.len
  /\ cb.cell \in [1..cb.len -> Msg \cup {NoMsg}]
  /\ cb.tail = Slot(cb, n)

Messages(cb, n) == [i \in 1..n |-> cb.cell[Slot(cb, i - 1) + 1]]

\* The messages once op is done.
Applied(s, op) == IF op.rw = "READ" THEN Tail(s)
                  ELSE IF op.end = "HEAD" THEN <<op.msg>> \o s ELSE Append(s, op.msg)

\* How many there are then.
Count(n, op) == IF op.rw = "READ" THEN n - 1 ELSE n + 1

\* An operation that finds a message or a place.
Fits(cb, n, op) == IF op.rw = "READ" THEN n > 0 ELSE n < cb.len

\* The remainder by which LosQueue takes a position is the position behind the
\* wrap.
LEMMA WrapsOnce ==
  ASSUME NEW n \in Nat \ {0}, NEW x \in 0..(2 * n - 1)
  PROVE  x % n = IF x < n THEN x ELSE x - n
<1>1. CASE x < n
  BY <1>1, SMT
<1>2. CASE x >= n
  <2>1. (x - n) % n = x % n
    BY SMT
  <2> QED BY <1>2, <2>1, SMT
<1> QED BY <1>1, <1>2

\* The positions of n nodes in a row are different.
LEMMA SlotProperties ==
  ASSUME NEW cb \in ControlBlock, cb.len # 0, cb.head < cb.len
  PROVE  /\ \A i \in 0..cb.len : Slot(cb, i) \in 0..(cb.len - 1)
         /\ \A i, j \in 0..(cb.len - 1) : Slot(cb, i) = Slot(cb, j) => i = j
         /\ \A i \in 1..cb.len : cb.cell[((cb.head + i - 1) % cb.len) + 1]
                                   = cb.cell[Slot(cb, i - 1) + 1]
<1>1. cb.len \in Nat \ {0} /\ cb.head \in Nat
  BY DEF ControlBlock
<1>2. \A i \in 0..cb.len : Slot(cb, i) \in 0..(cb.len - 1)
  BY <1>1 DEF Slot
<1>3. \A i, j \in 0..(cb.len - 1) : Slot(cb, i) = Slot(cb, j) => i = j
  BY <1>1 DEF Slot
<1>4. \A i \in 1..cb.len : (cb.head + i - 1) % cb.len = Slot(cb, i - 1)
  <2>1. ASSUME NEW i \in 1..cb.len PROVE (cb.head + i - 1) % cb.len = Slot(cb, i - 1)
    <3>1. PICK n \in Nat \ {0} : n = cb.len
      BY <1>1
    <3>2. PICK x : x = cb.head + i - 1
      OBVIOUS
    <3>3. x \in 0..(2 * n - 1)
      BY <1>1, <3>1, <3>2
    <3>4. x % n = IF x < n THEN x ELSE x - n
      BY <3>3, WrapsOnce
    <3>5. Slot(cb, i - 1) = IF x < n THEN x ELSE x - n
      BY <1>1, <3>1, <3>2 DEF Slot
    <3> QED BY <3>1, <3>2, <3>4, <3>5
  <2> QED BY <2>1
<1> QED BY <1>2, <1>3, <1>4

\* The copying of a message keeps the ring, and changes the messages as it
\* should.
LEMMA RingOperates ==
  ASSUME NEW cb \in ControlBlock, NEW n, Ring(cb, n), NEW op \in Operation, Fits(cb, n, op)
  PROVE  LET done == OsQueueBufferOperate(cb, op) IN
         /\ done \in ControlBlock /\ done.cnt = cb.cnt /\ done.len = cb.len
         /\ done.used = cb.used /\ Ring(done, Count(n, op))
         /\ Messages(done, Count(n, op)) = Applied(Messages(cb, n), op)
<1> DEFINE done == OsQueueBufferOperate(cb, op)
           m == Count(n, op)
           S == Msg \cup {NoMsg}
           s == Messages(cb, n)
           len == cb.len
<1>1. /\ len \in Nat \ {0} /\ cb.head \in 0..(len - 1) /\ cb.tail \in 0..(len - 1)
      /\ n \in 0..len /\ cb.cell \in [1..len -> S] /\ cb.tail = Slot(cb, n)
      /\ cb.used \in BOOLEAN /\ cb.cnt \in [RW -> Nat]
  BY DEF Ring, ControlBlock
<1>2. /\ \A i \in 0..len : Slot(cb, i) \in 0..(len - 1)
      /\ \A i, j \in 0..(len - 1) : Slot(cb, i) = Slot(cb, j) => i = j
  BY <1>1, SlotProperties
<1>3. \A f \in [1..len -> S] : f \in Seq(S)
  BY <1>1
<1>4. s \in Seq(S) /\ Len(s) = n /\ \A i \in 1..n : s[i] = cb.cell[Slot(cb, i - 1) + 1]
  <2>1. \A i \in 1..n : cb.cell[Slot(cb, i - 1) + 1] \in S
    <3>1. ASSUME NEW i \in 1..n PROVE Slot(cb, i - 1) + 1 \in 1..len
      <4>1. i - 1 \in 0..len
        BY <1>1
      <4> QED BY <4>1, <1>1, <1>2
    <3> QED BY <3>1, <1>1
  <2> QED BY <2>1, <1>1 DEF Messages
<1>5. CASE op.rw = "READ"
  <2>1. done = [cb EXCEPT !.head = After(cb.head, len)] /\ m = n - 1 /\ n > 0
    BY <1>5 DEF OsQueueBufferOperate, Count, Fits
  <2>2. After(cb.head, len) \in 0..(len - 1)
    BY <1>1 DEF After
  <2>3. /\ done \in ControlBlock /\ done.cnt = cb.cnt /\ done.len = len /\ done.used = cb.used
        /\ done.head = After(cb.head, len) /\ done.tail = cb.tail /\ done.cell = cb.cell
    BY <1>1, <2>1, <2>2, SMTT(30) DEF ControlBlock
  <2> HIDE DEF done
  <2>4. \A i \in 1..n : Slot(done, i - 1) = Slot(cb, i)
    <3>1. ASSUME NEW i \in 1..n PROVE Slot(done, i - 1) = Slot(cb, i)
      <4>1. i \in Int /\ 1 <= i /\ i <= len /\ len \in Int /\ cb.head \in Int
        BY <1>1
      <4>2. CASE cb.head + 1 = len
        <5>1. done.head = 0 /\ done.len = len
          BY <4>2, <2>3 DEF After
        <5>2. 0 + (i - 1) < len /\ ~(cb.head + i < len) /\ cb.head + i - len = 0 + (i - 1)
          BY <4>1, <4>2
        <5> QED BY <5>1, <5>2 DEF Slot
      <4>3. CASE cb.head + 1 # len
        <5>1. done.head = cb.head + 1 /\ done.len = len
          BY <4>3, <2>3 DEF After
        <5>2. PICK a, b : a = done.head /\ b = cb.head
          OBVIOUS
        <5>3. a + (i - 1) = b + i /\ a + (i - 1) - len = b + i - len
          BY <4>1, <5>1, <5>2
        <5> QED BY <5>1, <5>2, <5>3 DEF Slot
      <4> QED BY <4>2, <4>3
    <3> QED BY <3>1
  <2>5. Ring(done, m)
    <3>1. Slot(done, m) = cb.tail
      BY <1>1, <2>1, <2>4
    <3> QED BY <1>1, <2>1, <2>2, <2>3, <3>1 DEF Ring
  <2>6. Messages(done, m) = Tail(s)
    <3> DEFINE c == Tail(s)
    <3>1. /\ c \in Seq(S) /\ Len(c) = n - 1 /\ \A i \in 1..(n - 1) : c[i] = s[i + 1]
      BY <1>1, <1>4, <2>1
    <3> HIDE DEF c
    <3>2. c = [i \in 1..(n - 1) |-> c[i]]
      BY <3>1
    <3>3. \A i \in 1..(n - 1) : c[i] = done.cell[Slot(done, i - 1) + 1]
      <4>1. ASSUME NEW i \in 1..(n - 1) PROVE c[i] = done.cell[Slot(done, i - 1) + 1]
        <5>1. i + 1 \in 1..n /\ i \in 1..n /\ i + 1 - 1 = i
          BY <1>1
        <5>2. s[i + 1] = cb.cell[Slot(cb, i) + 1]
          BY <5>1, <1>4
        <5> QED BY <3>1, <5>1, <5>2, <2>3, <2>4
      <4> QED BY <4>1
    <3> QED BY <2>1, <3>2, <3>3 DEF Messages, c
  <2> QED BY <1>5, <2>3, <2>5, <2>6 DEF Applied, done
<1>6. CASE op.rw # "READ" /\ op.end = "HEAD"
  <2> DEFINE h == Before(cb.head, len)
  <2>1. done = [cb EXCEPT !.head = h, !.cell[h + 1] = op.msg] /\ m = n + 1 /\ n < len
    BY <1>6 DEF OsQueueBufferOperate, Count, Fits
  <2>2. h \in 0..(len - 1) /\ op.msg \in S
    BY <1>1, <1>6 DEF Before, Operation
  <2>3. h = Slot(cb, len - 1)
    BY <1>1 DEF Before, Slot
  <2>4. /\ [cb.cell EXCEPT ![h + 1] = op.msg] \in [1..len -> S]
        /\ [cb.cell EXCEPT ![h + 1] = op.msg] \in Seq(S)
    BY <1>1, <1>3, <2>2
  <2>5. /\ done \in ControlBlock /\ done.cnt = cb.cnt /\ done.len = len /\ done.used = cb.used
        /\ done.head = h /\ done.tail = cb.tail /\ done.cell = [cb.cell EXCEPT ![h + 1] = op.msg]
    <3> DEFINE cell == [cb.cell EXCEPT ![h + 1] = op.msg]
    <3>1. done = [cb EXCEPT !.head = h, !.cell = cell]
      BY <2>1
    <3> HIDE DEF h, done, cell
    <3>2. cell \in Seq(S) /\ h \in Nat
      BY <1>1, <2>2, <2>4 DEF cell
    <3> QED BY <3>1, <3>2 DEF ControlBlock, cell
  <2>6. \A i \in 1..len : Slot(done, i) = Slot(cb, i - 1)
    BY <1>1, <2>5 DEF Slot, Before
  <2>7. Slot(done, 0) = h
    BY <1>1, <2>2, <2>5 DEF Slot
  <2> HIDE DEF done, h
  <2>8. Ring(done, m)
    <3>1. Slot(done, m) = cb.tail
      <4>1. n + 1 \in 1..len /\ n + 1 - 1 = n
        BY <1>1, <2>1
      <4> QED BY <4>1, <1>1, <2>1, <2>6
    <3> QED BY <1>1, <2>1, <2>2, <2>4, <2>5, <3>1 DEF Ring
  <2>9. Messages(done, m) = <<op.msg>> \o s
    <3> DEFINE c == <<op.msg>> \o s
    <3>1. /\ c \in Seq(S) /\ Len(c) = n + 1 /\ c[1] = op.msg
          /\ \A i \in 2..(n + 1) : c[i] = s[i - 1]
      BY <1>1, <1>4, <2>2
    <3> HIDE DEF c
    <3>2. c = [i \in 1..(n + 1) |-> c[i]]
      BY <3>1
    <3>3. \A i \in 1..(n + 1) : c[i] = done.cell[Slot(done, i - 1) + 1]
      <4>1. ASSUME NEW i \in 1..(n + 1), i = 1 PROVE c[i] = done.cell[Slot(done, i - 1) + 1]
        <5>1. Slot(done, i - 1) = h
          BY <4>1, <2>7
        <5> QED BY <4>1, <5>1, <3>1, <1>1, <2>2, <2>5
      <4>2. ASSUME NEW i \in 2..(n + 1) PROVE c[i] = done.cell[Slot(done, i - 1) + 1]
        <5>1. i - 1 \in 1..n /\ i - 1 \in 1..len /\ i - 2 \in 0..(len - 1) /\ i - 1 - 1 = i - 2
          BY <1>1, <2>1
        <5>2. c[i] = cb.cell[Slot(cb, i - 2) + 1]
          BY <5>1, <1>4, <3>1
        <5>3. Slot(done, i - 1) = Slot(cb, i - 2)
          BY <5>1, <2>6
        <5>4. i - 2 # len - 1 /\ len - 1 \in 0..(len - 1)
          BY <1>1, <2>1
        <5>5. Slot(cb, i - 2) # h /\ Slot(cb, i - 2) \in 0..(len - 1)
          BY <5>1, <5>4, <1>1, <1>2, <2>3
        <5>6. done.cell[Slot(cb, i - 2) + 1] = cb.cell[Slot(cb, i - 2) + 1]
          BY <5>5, <1>1, <2>2, <2>5
        <5> QED BY <5>2, <5>3, <5>6
      <4> QED BY <4>1, <4>2, <1>1
    <3> QED BY <2>1, <3>2, <3>3 DEF Messages, c
  <2> QED BY <1>6, <2>5, <2>8, <2>9 DEF Applied, done
<1>7. CASE op.rw # "READ" /\ op.end # "HEAD"
  <2> DEFINE t == cb.tail
             t1 == After(t, len)
  <2>1. done = [cb EXCEPT !.tail = t1, !.cell[t + 1] = op.msg] /\ m = n + 1 /\ n < len
    BY <1>7 DEF OsQueueBufferOperate, Count, Fits
  <2>2. t1 \in 0..(len - 1) /\ t \in 0..(len - 1) /\ op.msg \in S
    BY <1>1, <1>7 DEF After, Operation
  <2>3. t1 = Slot(cb, n + 1)
    BY <1>1, <2>1, SMTT(30) DEF After, Slot
  <2>4. /\ [cb.cell EXCEPT ![t + 1] = op.msg] \in [1..len -> S]
        /\ [cb.cell EXCEPT ![t + 1] = op.msg] \in Seq(S)
    <3> DEFINE cell == [cb.cell EXCEPT ![t + 1] = op.msg]
    <3>1. t + 1 \in 1..len /\ cb.cell \in [1..len -> S]
      BY <1>1, <2>2
    <3>2. cell \in [1..len -> S]
      BY <3>1, <2>2
    <3> HIDE DEF cell
    <3>3. cell \in Seq(S)
      BY <3>2, <1>3
    <3> QED BY <3>2, <3>3 DEF cell
  <2>5. /\ done \in ControlBlock /\ done.cnt = cb.cnt /\ done.len = len /\ done.used = cb.used
        /\ done.head = cb.head /\ done.tail = t1 /\ done.cell = [cb.cell EXCEPT ![t + 1] = op.msg]
    <3> DEFINE cell == [cb.cell EXCEPT ![t + 1] = op.msg]
    <3>1. done = [cb EXCEPT !.tail = t1, !.cell = cell]
      BY <2>1
    <3> HIDE DEF t1, done, cell
    <3>2. cell \in Seq(S) /\ t1 \in Nat
      BY <1>1, <2>2, <2>4 DEF cell
    <3> QED BY <3>1, <3>2 DEF ControlBlock, cell
  <2>6. \A i : Slot(done, i) = Slot(cb, i)
    BY <2>5 DEF Slot
  <2> HIDE DEF done, t1
  <2>7. Ring(done, m)
    BY <1>1, <2>1, <2>2, <2>3, <2>4, <2>5, <2>6 DEF Ring
  <2>8. Messages(done, m) = Append(s, op.msg)
    <3> DEFINE c == Append(s, op.msg)
    <3>1. /\ c \in Seq(S) /\ Len(c) = n + 1 /\ c[n + 1] = op.msg
          /\ \A i \in 1..n : c[i] = s[i]
      BY <1>1, <1>4, <2>2
    <3> HIDE DEF c
    <3>2. c = [i \in 1..(n + 1) |-> c[i]]
      BY <3>1
    <3>3. \A i \in 1..(n + 1) : c[i] = done.cell[Slot(done, i - 1) + 1]
      <4>1. c[n + 1] = done.cell[Slot(done, n) + 1]
        BY <1>1, <2>2, <2>5, <2>6, <3>1
      <4>2. ASSUME NEW i \in 1..n PROVE c[i] = done.cell[Slot(done, i - 1) + 1]
        <5>1. i - 1 \in 0..(len - 1) /\ n \in 0..(len - 1) /\ i - 1 # n
          BY <1>1, <2>1
        <5>2. Slot(cb, i - 1) # t /\ Slot(cb, i - 1) \in 0..(len - 1)
          BY <5>1, <1>1, <1>2
        <5>3. done.cell[Slot(cb, i - 1) + 1] = cb.cell[Slot(cb, i - 1) + 1]
          BY <5>2, <1>1, <2>2, <2>5
        <5> QED BY <5>3, <1>4, <2>6, <3>1
      <4>3. ASSUME NEW i \in 1..(n + 1), i = n + 1 PROVE c[i] = done.cell[Slot(done, i - 1) + 1]
        <5>1. i - 1 = n
          BY <4>3, <1>1
        <5> QED BY <4>1, <4>3, <5>1
      <4> QED BY <4>2, <4>3, <1>1
    <3> QED BY <2>1, <3>2, <3>3 DEF Messages, c
  <2> QED BY <1>7, <2>5, <2>7, <2>8 DEF Applied, done
<1> QED BY <1>5, <1>6, <1>7

\* What LosQueue's Content says of such a ring.
LEMMA RingContent ==
  ASSUME NEW cb \in ControlBlock, NEW n, Ring(cb, n)
  PROVE  /\ [i \in 1..n |-> cb.cell[((cb.head + i - 1) % cb.len) + 1]] = Messages(cb, n)
         /\ Messages(cb, n) \in Seq(Msg \cup {NoMsg}) /\ Len(Messages(cb, n)) = n
<1>1. /\ cb.len \in Nat \ {0} /\ cb.head < cb.len /\ cb.head \in Nat /\ n \in 0..cb.len
      /\ cb.cell \in [1..cb.len -> Msg \cup {NoMsg}]
  BY DEF Ring, ControlBlock
<1>2. /\ \A i \in 0..cb.len : Slot(cb, i) \in 0..(cb.len - 1)
      /\ \A i \in 1..cb.len : cb.cell[((cb.head + i - 1) % cb.len) + 1]
                                = cb.cell[Slot(cb, i - 1) + 1]
  BY <1>1, SlotProperties
<1>3. \A i \in 1..n : i \in 1..cb.len /\ Slot(cb, i - 1) + 1 \in 1..cb.len
  <2>1. ASSUME NEW i \in 1..n PROVE i \in 1..cb.len /\ i - 1 \in 0..cb.len
    BY <1>1
  <2> QED BY <2>1, <1>1, <1>2, SMTT(30)
<1>4. Messages(cb, n) \in Seq(Msg \cup {NoMsg}) /\ Len(Messages(cb, n)) = n
  <2>1. ASSUME NEW i \in 1..n PROVE cb.cell[Slot(cb, i - 1) + 1] \in Msg \cup {NoMsg}
    <3>1. Slot(cb, i - 1) + 1 \in 1..cb.len
      BY <1>3
    <3> QED BY <3>1, <1>1
  <2> QED BY <2>1, <1>1 DEF Messages
<1>5. \A i \in 1..n : cb.cell[((cb.head + i - 1) % cb.len) + 1] = cb.cell[Slot(cb, i - 1) + 1]
  <2> SUFFICES ASSUME NEW i \in 1..n
               PROVE  cb.cell[((cb.head + i - 1) % cb.len) + 1] = cb.cell[Slot(cb, i - 1) + 1]
    OBVIOUS
  <2>1. i \in 1..cb.len
    BY <1>3
  <2> QED BY <2>1, <1>2
<1> QED BY <1>4, <1>5 DEF Messages

-----------------------------------------------------------------------------
(* The invariant.                                                          *)

\* A task on a wait list is in an operation on that queue, of that kind.
Listing(k, f) ==
  \A t \in Task : \A o \in WaitObj :
    In(t, k.wait[o]) => f[t].queue \in Queue /\ o = List(f[t].queue, f[t].op.rw)

\* The messages of q that are counted or promised.
Held(q) == queue[q].cnt["READ"] + Cardinality(Served(q, "READ"))

\* A queue in use is a ring that holds as many messages as are counted or
\* promised, the counts and the promises add up to its length, and nobody waits
\* for what is counted; nobody is in an operation on another one.
QueueOK(q) ==
  /\ In(q, freeQueue) <=> ~queue[q].used
  /\ ~queue[q].used => \A rw \in RW : kern.wait[List(q, rw)] = <<>> /\ Served(q, rw) = {}
  /\ queue[q].used =>
       /\ queue[q].len \in QueueLen /\ Ring(queue[q], Held(q))
       /\ queue[q].cnt["READ"] + queue[q].cnt["WRITE"]
            + Cardinality(Served(q, "READ")) + Cardinality(Served(q, "WRITE")) = queue[q].len
       /\ \A rw \in RW : queue[q].cnt[rw] > 0 => kern.wait[List(q, rw)] = <<>>

\* Where a task is that is in an operation.
OperatingOK(f, p) ==
  /\ f \in [Task -> [queue : Queue \cup {"none"}, op : Operation]]
  /\ \A t \in Task : /\ f[t].queue = "none" => f[t] = NoOperation
                     /\ f[t].queue # "none" => p[t] \in {"block", "wait"}

QueueInv ==
  /\ queue \in [Queue -> ControlBlock]
  /\ freeQueue \in Seq(Queue) /\ Distinct(freeQueue)
  /\ OperatingOK(operating, pc) /\ Listing(kern, operating)
  /\ \A q \in Queue : QueueOK(q)

QueuesImplemented == \A q \in Queue : Abstract(q)!Next \/ UNCHANGED Abstract(q)!vars

NoneDeletedInFlight ==
  \A q \in Queue : queue[q].used /\ ~queue'[q].used =>
    \A t \in Task : operating[t].queue = q => Has(kern, t, "TIMEOUT")

\* What every step keeps and does.
QueueStepOK ==
  /\ TaskInv' /\ WaitInv' /\ QueueInv' /\ (Preempts => Preempts')
  /\ QueuesImplemented /\ NoneDeletedInFlight

-----------------------------------------------------------------------------
(* The steps of the abstract queue.                                        *)

\* The tasks in an operation on q that has not timed out are those on its wait
\* lists and those it has served.
LEMMA BusyTasks ==
  ASSUME NEW k, ListsOK(k), k.wait \in [WaitObj -> Seq(Task)],
         NEW f, f \in [Task -> [queue : Queue \cup {"none"}, op : Operation]], Listing(k, f),
         NEW q \in Queue
  PROVE  \A t \in Task :
           f[t].queue = q /\ ~Has(k, t, "TIMEOUT") <=>
             \/ \E rw \in RW : In(t, k.wait[List(q, rw)])
             \/ /\ f[t].queue = q /\ f[t].op.rw \in RW
                /\ k.status[t] \cap {"PEND", "TIMEOUT"} = {}
<1> SUFFICES ASSUME NEW t \in Task
             PROVE  f[t].queue = q /\ ~Has(k, t, "TIMEOUT") <=>
                      \/ \E rw \in RW : In(t, k.wait[List(q, rw)])
                      \/ /\ f[t].queue = q /\ f[t].op.rw \in RW
                         /\ k.status[t] \cap {"PEND", "TIMEOUT"} = {}
  OBVIOUS
<1>1. TaskOK(k, t) /\ f[t].op.rw \in RW
  BY TCBs DEF ListsOK, Operation, RW
<1>2. \A rw \in RW : List(q, rw) \in WaitObj
  BY QueueAssumption DEF List, RW
<1>3. \A rw \in RW : In(t, k.wait[List(q, rw)]) => f[t].queue = q /\ Has(k, t, "PEND")
  <2>1. ASSUME NEW rw \in RW, In(t, k.wait[List(q, rw)])
        PROVE  f[t].queue = q /\ Has(k, t, "PEND")
    <3>1. List(q, rw) = List(f[t].queue, f[t].op.rw) /\ Has(k, t, "PEND")
      BY <1>1, <1>2, <2>1 DEF TaskOK, Listing
    <3> QED BY <3>1 DEF List
  <2> QED BY <2>1
<1>4. Has(k, t, "PEND") /\ f[t].queue = q => \E rw \in RW : In(t, k.wait[List(q, rw)])
  <2>1. ASSUME Has(k, t, "PEND"), f[t].queue = q
        PROVE  \E rw \in RW : In(t, k.wait[List(q, rw)])
    <3>1. PICK o \in WaitObj : In(t, k.wait[o])
      BY <1>1, <2>1 DEF TaskOK
    <3>2. o = List(q, f[t].op.rw)
      BY <2>1, <3>1 DEF Listing
    <3> QED BY <1>1, <3>1, <3>2
  <2> QED BY <2>1
<1>5. Has(k, t, "PEND") => ~Has(k, t, "TIMEOUT")
  BY <1>1 DEF TaskOK
<1> QED BY <1>1, <1>3, <1>4, <1>5 DEF Has

\* The abstract queue as the invariant shows it.
LEMMA AbstractBusy ==
  ASSUME WaitInv, TaskInv, QueueInv, NEW q \in Queue
  PROVE  Abstract(q)!Busy = InFlight(q)
<1>1. /\ ListsOK(kern) /\ kern.wait \in [WaitObj -> Seq(Task)] /\ Listing(kern, operating)
      /\ operating \in [Task -> [queue : Queue \cup {"none"}, op : Operation]]
  BY KernelFields DEF WaitInv, TaskInv, Inv, KInv, QueueInv, OperatingOK
<1>2. \A t \in Task :
        operating[t].queue = q /\ ~Has(kern, t, "TIMEOUT") <=>
          \/ \E rw \in RW : In(t, kern.wait[List(q, rw)])
          \/ /\ operating[t].queue = q /\ operating[t].op.rw \in RW
             /\ kern.status[t] \cap {"PEND", "TIMEOUT"} = {}
  BY <1>1, BusyTasks
<1>3. \A rw \in RW : \A t : In(t, kern.wait[List(q, rw)]) => t \in Task
  <2>1. \A rw \in RW : List(q, rw) \in WaitObj
    BY QueueAssumption DEF List, RW
  <2> QED BY <1>1, <2>1 DEF In
<1>4. \A t : t \in Abstract(q)!Busy <=> \/ \E rw \in RW : In(t, kern.wait[List(q, rw)])
                                        \/ t \in Served(q, "READ") \cup Served(q, "WRITE")
  BY DEF Abstract!Busy, Abstract!Elements, In, RW
<1>5. \A t : t \in Served(q, "READ") \cup Served(q, "WRITE") <=>
               /\ t \in Task /\ operating[t].queue = q /\ operating[t].op.rw \in RW
               /\ kern.status[t] \cap {"PEND", "TIMEOUT"} = {}
  BY DEF Served, RW
<1>6. \A t : t \in Abstract(q)!Busy <=> t \in InFlight(q)
  BY <1>2, <1>3, <1>4, <1>5 DEF InFlight
<1> QED BY <1>6

\* And after a step.
LEMMA AbstractBusyAfter ==
  ASSUME NEW q \in Queue
  PROVE  (WaitInv /\ TaskInv /\ QueueInv)' => (Abstract(q)!Busy = InFlight(q))'
<1>1. WaitInv /\ TaskInv /\ QueueInv => Abstract(q)!Busy = InFlight(q)
  BY AbstractBusy
<1> QED BY <1>1, PTL

\* The messages, while the queue is used.
LEMMA AbstractMsgs ==
  ASSUME QueueInv, NEW q \in Queue, queue[q].used
  PROVE  /\ Content(q) = Messages(queue[q], Held(q))
         /\ Content(q) \in Seq(Msg \cup {NoMsg}) /\ Len(Content(q)) = Held(q) /\ Held(q) \in Nat
<1>1. queue[q] \in ControlBlock /\ Ring(queue[q], Held(q)) /\ Held(q) \in Nat
  BY DEF QueueInv, QueueOK, Ring, ControlBlock
<1>2. PICK cb, n : cb = queue[q] /\ n = Held(q)
  OBVIOUS
<1>3. Content(q) = [i \in 1..n |-> cb.cell[((cb.head + i - 1) % cb.len) + 1]]
  BY <1>2 DEF Content, Held
<1> QED BY <1>1, <1>2, <1>3, RingContent, SMTT(30)

\* And after a step.
LEMMA AbstractMsgsAfter ==
  ASSUME NEW q \in Queue
  PROVE  (QueueInv /\ queue[q].used)' =>
           (/\ Content(q) = Messages(queue[q], Held(q))
            /\ Content(q) \in Seq(Msg \cup {NoMsg}) /\ Len(Content(q)) = Held(q) /\ Held(q) \in Nat)'
<1>1. QueueInv /\ queue[q].used =>
        /\ Content(q) = Messages(queue[q], Held(q))
        /\ Content(q) \in Seq(Msg \cup {NoMsg}) /\ Len(Content(q)) = Held(q) /\ Held(q) \in Nat
  BY AbstractMsgs
<1> QED BY <1>1, PTL

\* The promises.
LEMMA AbstractPromised ==
  ASSUME QueueInv, NEW q \in Queue, NEW rw \in RW
  PROVE  Abstract(q)!Promised(rw) = Cardinality(Served(q, rw))
<1> DEFINE op == [t \in InFlight(q) |-> operating[t].op]
           served == Served(q, "READ") \cup Served(q, "WRITE")
<1>1. \A p : p \in served <=> /\ p \in Task /\ operating[p].queue = q
                              /\ operating[p].op.rw \in RW
                              /\ kern.status[p] \cap {"PEND", "TIMEOUT"} = {}
  BY DEF Served, RW
<1>2. \A p \in served : p \in InFlight(q) /\ op[p] = operating[p].op
  BY <1>1 DEF InFlight, Has
<1>3. {p \in served : op[p].rw = rw} = Served(q, rw)
  <2>1. \A p : p \in served /\ op[p].rw = rw <=> p \in Served(q, rw)
    BY <1>1, <1>2 DEF Served
  <2> QED BY <2>1
<1>4. Abstract(q)!Cardinality(Served(q, rw)) = Cardinality(Served(q, rw))
  <2>1. PICK S : S = Served(q, rw)
    OBVIOUS
  <2>2. Abstract(q)!Cardinality(S) = Cardinality(S)
    BY DEF Abstract!Cardinality, Cardinality
  <2> QED BY <2>1, <2>2
<1> QED BY <1>3, <1>4 DEF Abstract!Promised

\* q stays as it is, nobody is served, nobody returns.
SameQueue(q)  == queue'[q] = queue[q]
SameServed(q) == \A rw \in RW : Served(q, rw)' = Served(q, rw)
SameLists(q)  == \A rw \in RW : kern'.wait[List(q, rw)] = kern.wait[List(q, rw)]

\* Who is in an operation on q was in the same one before.
OpsStay(q) ==
  \A t \in Task : operating'[t].queue = q /\ ~Has(kern', t, "TIMEOUT") =>
    /\ operating[t].queue = q /\ ~Has(kern, t, "TIMEOUT")
    /\ operating'[t].op = operating[t].op

\* The invariants, assumed before and after a step.
Holds == TaskInv /\ WaitInv /\ QueueInv

LEMMA TasksAreFinite == IsFiniteSet(Task)
<1>1. N \in Int /\ 1 \in Int
  BY NAssumption
<1> QED BY <1>1, FS_Interval DEF Task

\* So the operations of those who are still in one stay what they are.
LEMMA OpsKept ==
  ASSUME Holds, Holds', NEW q \in Queue, OpsStay(q)
  PROVE  Abstract(q)!KeepOp
<1>1. Abstract(q)!Busy = InFlight(q)
  BY AbstractBusy DEF Holds
<1>2. (Abstract(q)!Busy)' = InFlight(q)'
  BY AbstractBusyAfter DEF Holds
<1>3. \A t : t \in InFlight(q)' => t \in InFlight(q) /\ operating'[t].op = operating[t].op
  BY DEF OpsStay, InFlight
<1>4. [t \in InFlight(q) |-> operating[t].op]' = [t \in InFlight(q)' |-> operating[t].op]
  BY <1>3
<1>5. \A t \in InFlight(q)' : [u \in InFlight(q) |-> operating[u].op][t] = operating[t].op
  BY <1>3
<1> QED BY <1>2, <1>4, <1>5 DEF Abstract!KeepOp, Abstract!Busy

\* A step that stutters for q.
LEMMA NothingHappens ==
  ASSUME NEW q \in Queue, SameQueue(q), SameServed(q), SameLists(q),
         \A t \in Task : /\ t \in InFlight(q)' <=> t \in InFlight(q)
                         /\ t \in InFlight(q) => operating'[t].op = operating[t].op
  PROVE  UNCHANGED Abstract(q)!vars
<1>1. Served(q, "READ")' = Served(q, "READ") /\ Served(q, "WRITE")' = Served(q, "WRITE")
  BY DEF SameServed, RW
<1>2. /\ kern'.wait[List(q, "READ")] = kern.wait[List(q, "READ")]
      /\ kern'.wait[List(q, "WRITE")] = kern.wait[List(q, "WRITE")]
  BY DEF SameLists, RW
<1>3. queue'[q] = queue[q] /\ Content(q)' = Content(q)
  BY <1>1 DEF SameQueue, Content
<1>4. InFlight(q)' = InFlight(q)
  BY DEF InFlight
<1>5. [t \in InFlight(q) |-> operating[t].op]' = [t \in InFlight(q) |-> operating[t].op]
  <2>1. \A t \in InFlight(q) : operating'[t].op = operating[t].op
    BY DEF InFlight
  <2> QED BY <1>4, <2>1
<1> QED BY <1>1, <1>2, <1>3, <1>5 DEF Abstract!vars

\* What does not concern q.
LEMMA OthersStand ==
  ASSUME NEW q \in Queue, SameQueue(q), SameLists(q),
         In(q, freeQueue') <=> In(q, freeQueue),
         \A t \in Task :
           \/ operating'[t] = operating[t] /\ kern'.status[t] = kern.status[t]
           \/ operating[t].queue # q /\ operating'[t].queue # q
  PROVE  UNCHANGED Abstract(q)!vars /\ (QueueOK(q) => QueueOK(q)')
<1>1. \A rw \in RW : Served(q, rw)' = Served(q, rw)
  BY DEF Served
<1>2. SameServed(q) /\ Served(q, "READ")' = Served(q, "READ") /\ Served(q, "WRITE")' = Served(q, "WRITE")
  BY <1>1 DEF SameServed, RW
<1>3. \A t \in Task : /\ t \in InFlight(q)' <=> t \in InFlight(q)
                      /\ t \in InFlight(q) => operating'[t].op = operating[t].op
  BY DEF InFlight, Has
<1>4. UNCHANGED Abstract(q)!vars
  BY <1>2, <1>3, NothingHappens
<1>5. queue'[q] = queue[q] /\ \A rw \in RW : kern'.wait[List(q, rw)] = kern.wait[List(q, rw)]
  BY DEF SameQueue, SameLists
<1>6. Held(q)' = Held(q)
  BY <1>2, <1>5 DEF Held
<1>7. QueueOK(q) => QueueOK(q)'
  BY <1>1, <1>2, <1>5, <1>6 DEF QueueOK
<1> QED BY <1>4, <1>7

\* A waiter times out or is deleted.
LEMMA WaiterLeaves ==
  ASSUME Holds, Holds', NEW q \in Queue, SameQueue(q), SameServed(q), OpsStay(q),
         NEW rw \in RW, NEW p \in Task, In(p, kern.wait[List(q, rw)]),
         p \notin Served(q, "READ") \cup Served(q, "WRITE"),
         kern'.wait[List(q, rw)] = Without(kern.wait[List(q, rw)], p),
         kern'.wait[List(q, Opposite(rw))] = kern.wait[List(q, Opposite(rw))]
  PROVE  Abstract(q)!Next
<1> DEFINE s == kern.wait[List(q, rw)]
           i == CHOOSE j \in DOMAIN s : s[j] = p
<1>1. i \in DOMAIN s /\ s[i] = p
  BY DEF In
<1>2. kern'.wait[List(q, rw)] = SubSeq(s, 1, i - 1) \o SubSeq(s, i + 1, Len(s))
  BY DEF Without, RemoveAt
<1> HIDE DEF i
<1>3. Served(q, "READ")' = Served(q, "READ") /\ Served(q, "WRITE")' = Served(q, "WRITE")
  BY DEF SameServed, RW
<1>4. queue'[q] = queue[q] /\ Content(q)' = Content(q)
  BY <1>3 DEF SameQueue, Content
<1>5. Abstract(q)!KeepOp
  BY OpsKept
<1>6. p \in Abstract(q)!Busy
  BY <1>1 DEF Abstract!Busy, Abstract!Elements, RW
<1>7. CASE rw = "READ"
  <2>1. kern'.wait[List(q, "WRITE")] = kern.wait[List(q, "WRITE")]
    BY <1>7 DEF Opposite
  <2>2. Abstract(q)!Leave(p)
    BY <1>1, <1>2, <1>3, <1>4, <1>5, <1>6, <1>7, <2>1 DEF Abstract!Leave, Abstract!WithoutAt
  <2> QED BY <2>2 DEF Abstract!Next
<1>8. CASE rw = "WRITE"
  <2>1. kern'.wait[List(q, "READ")] = kern.wait[List(q, "READ")]
    BY <1>8 DEF Opposite
  <2>2. Abstract(q)!Leave(p)
    BY <1>1, <1>2, <1>3, <1>4, <1>5, <1>6, <1>8, <2>1 DEF Abstract!Leave, Abstract!WithoutAt
  <2> QED BY <2>2 DEF Abstract!Next
<1> QED BY <1>7, <1>8 DEF RW

\* A task comes to wait.
LEMMA WaiterComes ==
  ASSUME Holds, Holds', NEW q \in Queue, SameQueue(q), SameServed(q), queue[q].used,
         NEW op \in Operation, queue[q].cnt[op.rw] = 0,
         NEW p \in Task, p \notin InFlight(q),
         kern'.wait[List(q, op.rw)] = Append(kern.wait[List(q, op.rw)], p),
         kern'.wait[List(q, Opposite(op.rw))] = kern.wait[List(q, Opposite(op.rw))],
         p \in InFlight(q)' /\ operating'[p].op = op,
         \A t \in Task \ {p} : /\ t \in InFlight(q)' <=> t \in InFlight(q)
                               /\ operating'[t].op = operating[t].op
  PROVE  Abstract(q)!Next
<1>1. Served(q, "READ")' = Served(q, "READ") /\ Served(q, "WRITE")' = Served(q, "WRITE")
  BY DEF SameServed, RW
<1>2. queue'[q] = queue[q] /\ Content(q)' = Content(q)
  BY <1>1 DEF SameQueue, Content
<1>3. /\ queue[q].len # 0 /\ Len(Content(q)) = Held(q) /\ Held(q) \in Nat
      /\ queue[q].cnt["READ"] \in Nat /\ queue[q].cnt["WRITE"] \in Nat /\ queue[q].len \in Nat
      /\ Cardinality(Served(q, "READ")) \in Nat /\ Cardinality(Served(q, "WRITE")) \in Nat
      /\ queue[q].cnt["READ"] + queue[q].cnt["WRITE"]
            + Cardinality(Served(q, "READ")) + Cardinality(Served(q, "WRITE")) = queue[q].len
  <2>1. \A rw \in RW : IsFiniteSet(Served(q, rw))
    BY TasksAreFinite, FS_Subset DEF Served
  <2>2. Cardinality(Served(q, "READ")) \in Nat /\ Cardinality(Served(q, "WRITE")) \in Nat
    BY <2>1, FS_CardinalityType DEF RW
  <2>3. Len(Content(q)) = Held(q) /\ Held(q) \in Nat
    BY AbstractMsgs DEF Holds
  <2>4. queue[q] \in ControlBlock /\ QueueOK(q)
    BY DEF Holds, QueueInv
  <2> QED BY <2>2, <2>3, <2>4, QueueLenAssumption DEF QueueOK, ControlBlock, RW
<1>4. op.rw \in RW /\ (op.rw # "READ" => op.rw = "WRITE")
  BY DEF Operation, RW
<1>5. ~Abstract(q)!Available(op)
  <2>1. /\ Abstract(q)!Promised("READ") = Cardinality(Served(q, "READ"))
        /\ Abstract(q)!Promised("WRITE") = Cardinality(Served(q, "WRITE"))
    BY AbstractPromised DEF Holds, RW
  <2>2. CASE op.rw = "READ"
    <3>1. Len(Content(q)) = Cardinality(Served(q, "READ"))
      BY <2>2, <1>3 DEF Held
    <3> QED BY <2>1, <2>2, <3>1, <1>3 DEF Abstract!Available
  <2>3. CASE op.rw = "WRITE"
    <3>1. Len(Content(q)) + Cardinality(Served(q, "WRITE")) = queue[q].len
      BY <2>3, <1>3 DEF Held
    <3> QED BY <2>1, <2>3, <3>1, <1>3 DEF Abstract!Available
  <2> QED BY <2>2, <2>3, <1>4
<1>6. Abstract(q)!Busy = InFlight(q)
  BY AbstractBusy DEF Holds
<1>7. [t \in InFlight(q) |-> operating[t].op]'
        = [t \in InFlight(q) \cup {p} |-> IF t = p THEN op
                                          ELSE [u \in InFlight(q) |-> operating[u].op][t]]
  <2>1. InFlight(q)' = InFlight(q) \cup {p}
    BY DEF InFlight
  <2>2. \A t \in InFlight(q) : t \in Task \ {p}
    BY DEF InFlight
  <2> QED BY <2>1, <2>2
<1>8. Abstract(q)!Wait(p, op)
  <2>1. CASE op.rw = "READ"
    <3>1. kern'.wait[List(q, "WRITE")] = kern.wait[List(q, "WRITE")]
      BY <2>1 DEF Opposite
    <3> QED BY <2>1, <3>1, <1>1, <1>2, <1>3, <1>5, <1>6, <1>7 DEF Abstract!Wait, Abstract!Busy
  <2>2. CASE op.rw = "WRITE"
    <3>1. kern'.wait[List(q, "READ")] = kern.wait[List(q, "READ")]
      BY <2>2 DEF Opposite
    <3> QED BY <2>2, <3>1, <1>1, <1>2, <1>3, <1>5, <1>6, <1>7 DEF Abstract!Wait, Abstract!Busy
  <2> QED BY <2>1, <2>2, <1>4
<1> QED BY <1>8 DEF Abstract!Next

\* The queue is created ...
LEMMA QueueCreated ==
  ASSUME Holds, Holds', NEW q \in Queue, ~queue[q].used, queue'[q].used, Held(q)' = 0,
         SameLists(q), SameServed(q),
         \A t \in Task : /\ t \in InFlight(q)' <=> t \in InFlight(q)
                         /\ t \in InFlight(q) => operating'[t].op = operating[t].op
  PROVE  Abstract(q)!Next
<1>1. Served(q, "READ")' = Served(q, "READ") /\ Served(q, "WRITE")' = Served(q, "WRITE")
  BY DEF SameServed, RW
<1>2. /\ kern'.wait[List(q, "READ")] = kern.wait[List(q, "READ")]
      /\ kern'.wait[List(q, "WRITE")] = kern.wait[List(q, "WRITE")]
  BY DEF SameLists, RW
<1>3. queue'[q].len \in QueueLen
  BY DEF Holds, QueueInv, QueueOK
<1>4. Content(q)' = <<>>
  <2>1. Content(q)' \in Seq(Msg \cup {NoMsg}) /\ Len(Content(q)') = Held(q)'
    BY AbstractMsgsAfter DEF Holds
  <2> QED BY <2>1
<1>5. [t \in InFlight(q) |-> operating[t].op]' = [t \in InFlight(q) |-> operating[t].op]
  <2>1. InFlight(q)' = InFlight(q) /\ \A t \in InFlight(q) : operating'[t].op = operating[t].op
    BY DEF InFlight
  <2> QED BY <2>1
<1>6. Abstract(q)!Create
  BY <1>1, <1>2, <1>3, <1>4, <1>5 DEF Abstract!Create
<1> QED BY <1>6 DEF Abstract!Next

\* ... and deleted.
LEMMA QueueDeleted ==
  ASSUME Holds, Holds', NEW q \in Queue, queue[q].used, ~queue'[q].used,
         SameLists(q), SameServed(q), InFlight(q) = {}, InFlight(q)' = {}
  PROVE  Abstract(q)!Next
<1>1. Served(q, "READ")' = Served(q, "READ") /\ Served(q, "WRITE")' = Served(q, "WRITE")
  BY DEF SameServed, RW
<1>2. /\ kern'.wait[List(q, "READ")] = kern.wait[List(q, "READ")]
      /\ kern'.wait[List(q, "WRITE")] = kern.wait[List(q, "WRITE")]
  BY DEF SameLists, RW
<1>3. queue[q].len # 0
  BY QueueLenAssumption DEF Holds, QueueInv, QueueOK
<1>4. Abstract(q)!Busy = {}
  BY AbstractBusy DEF Holds
<1>5. [t \in InFlight(q) |-> operating[t].op]' = [t \in InFlight(q) |-> operating[t].op]
  OBVIOUS
<1>6. Abstract(q)!Delete
  BY <1>1, <1>2, <1>3, <1>4, <1>5 DEF Abstract!Delete, Abstract!Busy
<1> QED BY <1>6 DEF Abstract!Next

\* Who is served, and who waits, once an operation op on q is done; gone is the
\* task that has done it after it had waited.
Hands(q, op, gone) ==
  LET opposite == Opposite(op.rw)
      list     == kern.wait[List(q, opposite)] IN
  /\ kern'.wait[List(q, op.rw)] = kern.wait[List(q, op.rw)]
  /\ kern'.wait[List(q, opposite)] = IF list = <<>> THEN <<>> ELSE Tail(list)
  /\ Served(q, op.rw)' = Served(q, op.rw) \ gone
  /\ Served(q, opposite)' = (Served(q, opposite) \ gone)
                              \cup (IF list = <<>> THEN {} ELSE {Head(list)})

\* A message is read or written, at once or after a wait.
LEMMA OperationDone ==
  ASSUME Holds, Holds', NEW q \in Queue, NEW op \in Operation, NEW gone, Hands(q, op, gone),
         queue[q].used, queue'[q].used, queue'[q].len = queue[q].len,
         Fits(queue[q], Held(q), op), Content(q)' = Applied(Content(q), op), OpsStay(q),
         \/ gone = {} /\ queue[q].cnt[op.rw] > 0
         \/ \E p \in Task : gone = {p} /\ p \in Served(q, op.rw) /\ operating[p].op = op
  PROVE  Abstract(q)!Next
<1> DEFINE rd == kern.wait[List(q, "READ")]
           wr == kern.wait[List(q, "WRITE")]
           R == Served(q, "READ")
           W == Served(q, "WRITE")
<1>1. op.rw \in RW /\ (op.rw # "READ" => op.rw = "WRITE")
  BY DEF Operation, RW
<1>2. /\ queue[q].len # 0 /\ Len(Content(q)) = Held(q) /\ Held(q) \in Nat
      /\ Content(q) \in Seq(Msg \cup {NoMsg})
      /\ queue[q].cnt["READ"] \in Nat /\ queue[q].cnt["WRITE"] \in Nat /\ queue[q].len \in Nat
      /\ Cardinality(R) \in Nat /\ Cardinality(W) \in Nat
      /\ queue[q].cnt["READ"] + queue[q].cnt["WRITE"] + Cardinality(R) + Cardinality(W) = queue[q].len
  <2>1. \A rw \in RW : IsFiniteSet(Served(q, rw))
    BY TasksAreFinite, FS_Subset DEF Served
  <2>2. Cardinality(R) \in Nat /\ Cardinality(W) \in Nat
    BY <2>1, FS_CardinalityType DEF RW
  <2>3. Len(Content(q)) = Held(q) /\ Held(q) \in Nat /\ Content(q) \in Seq(Msg \cup {NoMsg})
    BY AbstractMsgs DEF Holds
  <2>4. queue[q] \in ControlBlock /\ QueueOK(q)
    BY DEF Holds, QueueInv
  <2> QED BY <2>2, <2>3, <2>4, QueueLenAssumption DEF QueueOK, ControlBlock, RW
<1>3. Abstract(q)!KeepOp
  BY OpsKept
<1>4. Abstract(q)!Apply(op)
  <2>1. CASE op.rw = "READ"
    <3>1. Content(q) # <<>> /\ Content(q)' = Tail(Content(q))
      BY <2>1, <1>2 DEF Fits, Applied
    <3> QED BY <2>1, <3>1 DEF Abstract!Apply
  <2>2. CASE op.rw = "WRITE"
    <3>1. /\ Len(Content(q)) < queue[q].len
          /\ Content(q)' = IF op.end = "HEAD" THEN <<op.msg>> \o Content(q)
                                              ELSE Append(Content(q), op.msg)
      BY <2>2, <1>2 DEF Fits, Applied
    <3> QED BY <2>2, <3>1 DEF Abstract!Apply
  <2> QED BY <2>1, <2>2, <1>1
<1>5. Abstract(q)!ServeOpposite(op, (R \cup W) \ gone)
  <2>1. CASE op.rw = "READ"
    <3>1. Opposite(op.rw) = "WRITE"
      BY <2>1 DEF Opposite
    <3>2. /\ kern'.wait[List(q, "READ")] = rd
          /\ kern'.wait[List(q, "WRITE")] = IF wr = <<>> THEN <<>> ELSE Tail(wr)
          /\ R' \cup W' = ((R \cup W) \ gone) \cup (IF wr = <<>> THEN {} ELSE {Head(wr)})
      BY <2>1, <3>1 DEF Hands
    <3> QED BY <2>1, <3>2 DEF Abstract!ServeOpposite
  <2>2. CASE op.rw = "WRITE"
    <3>1. Opposite(op.rw) = "READ"
      BY <2>2 DEF Opposite
    <3>2. /\ kern'.wait[List(q, "WRITE")] = wr
          /\ kern'.wait[List(q, "READ")] = IF rd = <<>> THEN <<>> ELSE Tail(rd)
          /\ R' \cup W' = ((R \cup W) \ gone) \cup (IF rd = <<>> THEN {} ELSE {Head(rd)})
      BY <2>2, <3>1 DEF Hands
    <3> QED BY <2>2, <3>2 DEF Abstract!ServeOpposite
  <2> QED BY <2>1, <2>2, <1>1
<1>6. CASE gone = {} /\ queue[q].cnt[op.rw] > 0
  <2>1. Abstract(q)!Available(op)
    <3>1. Abstract(q)!Promised("READ") = Cardinality(R) /\ Abstract(q)!Promised("WRITE") = Cardinality(W)
      BY AbstractPromised DEF Holds, RW
    <3>2. CASE op.rw = "READ"
      <4>1. Cardinality(R) < Len(Content(q))
        BY <3>2, <1>2, <1>6 DEF Held
      <4> QED BY <3>1, <3>2, <4>1 DEF Abstract!Available
    <3>3. CASE op.rw = "WRITE"
      <4>1. PICK a, b, c, d : /\ a = queue[q].cnt["READ"] /\ b = queue[q].cnt["WRITE"]
                              /\ c = Cardinality(R) /\ d = Cardinality(W)
        OBVIOUS
      <4>2. PICK n, e : n = queue[q].len /\ e = Len(Content(q))
        OBVIOUS
      <4>3. /\ a \in Nat /\ b \in Nat /\ c \in Nat /\ d \in Nat /\ n \in Nat
            /\ e = a + c /\ a + b + c + d = n /\ b > 0
        BY <4>1, <4>2, <3>3, <1>2, <1>6 DEF Held
      <4>4. e + d < n
        BY <4>3
      <4>5. Len(Content(q)) + Cardinality(W) < queue[q].len
        BY <4>1, <4>2, <4>4
      <4> QED BY <3>1, <3>3, <4>5 DEF Abstract!Available
    <3> QED BY <3>2, <3>3, <1>1
  <2>2. (R \cup W) \ gone = R \cup W
    BY <1>6
  <2>3. Abstract(q)!Operate(op)
    BY <1>2, <1>3, <1>4, <1>5, <2>1, <2>2 DEF Abstract!Operate
  <2> QED BY <2>3 DEF Abstract!Next
<1>7. ASSUME NEW p \in Task, gone = {p}, p \in Served(q, op.rw), operating[p].op = op
      PROVE  Abstract(q)!Next
  <2>1. p \in R \cup W /\ p \in InFlight(q)
    BY <1>1, <1>7 DEF Served, InFlight, Has
  <2>2. [t \in InFlight(q) |-> operating[t].op][p] = op
    BY <1>7, <2>1
  <2>3. Abstract(q)!Return(p)
    BY <1>3, <1>4, <1>5, <1>7, <2>1, <2>2 DEF Abstract!Return
  <2> QED BY <2>3 DEF Abstract!Next
<1> QED BY <1>6, <1>7

-----------------------------------------------------------------------------
(* The initial states and the steps of task management.                    *)

\* The lists of the queues are wait lists.
LEMMA QueueLists ==
  ASSUME NEW q \in Queue
  PROVE  /\ \A rw \in RW : List(q, rw) \in WaitObj
         /\ \A kind \in {"READ", "WRITE", "MEM"} : List(q, kind) \in WaitObj
         /\ List(q, "READ") # List(q, "WRITE")
         /\ \A z \in Queue : \A k1, k2 : List(z, k1) = List(q, k2) => z = q /\ k1 = k2
BY QueueAssumption DEF List, RW

\* Every operation is a read or a write, and its opposite the other.
LEMMA Opposites ==
  ASSUME NEW op \in Operation
  PROVE  /\ op.rw \in RW /\ Opposite(op.rw) \in RW /\ Opposite(op.rw) # op.rw
         /\ RW = {op.rw, Opposite(op.rw)}
BY DEF Operation, RW, Opposite

\* The tasks served are finitely many.
LEMMA ServedFinite ==
  ASSUME NEW q, NEW rw
  PROVE  IsFiniteSet(Served(q, rw)) /\ Cardinality(Served(q, rw)) \in Nat
<1>1. IsFiniteSet(Served(q, rw))
  BY TasksAreFinite, FS_Subset DEF Served
<1> QED BY <1>1, FS_CardinalityType

\* At first no queue exists, and all of them are in the pool.
LEMMA QueueInitInv ==
  ASSUME TaskInit, QueueInit
  PROVE  QueueInv /\ \A q \in Queue : Abstract(q)!Init
<1> DEFINE none == [used |-> FALSE, len |-> 0, head |-> 0, tail |-> 0,
                    cell |-> <<>>, cnt |-> [rw \in {"READ", "WRITE"} |-> 0]]
<1>1. \A o \in WaitObj : kern.wait[o] = <<>>
  BY DEF TaskInit
<1>2. /\ queue = [q \in Queue |-> none] /\ operating = [t \in Task |-> NoOperation]
      /\ freeQueue \in [1..Cardinality(Queue) -> Queue] /\ Distinct(freeQueue)
  BY DEF QueueInit
<1>3. none \in ControlBlock /\ ~none.used
  BY DEF ControlBlock, RW
<1> HIDE DEF none
<1>4. freeQueue \in Seq(Queue) /\ \A q \in Queue : In(q, freeQueue)
  BY <1>2, QueueAssumption, PoolIsFull
<1>5. \A t : ~In(t, <<>>)
  BY DEF In
<1>6. /\ NoOperation \in [queue : Queue \cup {"none"}, op : Operation]
      /\ NoOperation.queue = "none" /\ NoOperation.queue \notin Queue
  BY NoQueueAssumption DEF NoOperation, Operation
<1>7. \A q \in Queue, rw \in RW : Served(q, rw) = {} /\ kern.wait[List(q, rw)] = <<>>
  BY <1>1, <1>2, <1>6, QueueLists DEF Served
<1>8. OperatingOK(operating, pc) /\ Listing(kern, operating)
  BY <1>1, <1>2, <1>5, <1>6 DEF OperatingOK, Listing
<1>9. QueueInv
  BY <1>2, <1>3, <1>4, <1>7, <1>8 DEF QueueInv, QueueOK
<1>10. ASSUME NEW q \in Queue PROVE Abstract(q)!Init
  <2>1. ~queue[q].used /\ InFlight(q) = {}
    BY <1>2, <1>3, <1>6 DEF InFlight
  <2>2. \A rw \in RW : Served(q, rw) = {} /\ kern.wait[List(q, rw)] = <<>>
    BY <1>7
  <2>3. [t \in InFlight(q) |-> operating[t].op] = <<>>
    BY <2>1
  <2> QED BY <2>1, <2>2, <2>3 DEF Abstract!Init, RW
<1> QED BY <1>9, <1>10

\* Task management keeps the operations under way, but for those of the task
\* that stops waiting.
LEMMA TaskStepKeepsListing ==
  ASSUME TaskInv, WaitInv, WaitInv', QueueInv, Waits(kern, pc, kern', pc'),
         operating' = [t \in Task |-> IF pc'[t] = "none" THEN NoOperation ELSE operating[t]]
  PROVE  OperatingOK(operating, pc)' /\ Listing(kern, operating)'
<1>1. kern.wait \in [WaitObj -> Seq(Task)]
  BY KernelFields DEF TaskInv, Inv, KInv
<1>2. PICK t \in Task \cup {NoTask} :
        kern'.wait = IF t = NoTask THEN kern.wait ELSE Unlink(kern.wait, t)
  BY DEF Waits
<1>3. \A o \in WaitObj : \A u : In(u, kern'.wait[o]) => In(u, kern.wait[o])
  <2>1. CASE t = NoTask
    BY <1>2, <2>1
  <2>2. CASE t # NoTask
    <3>1. \A o \in WaitObj : Distinct(kern.wait[o])
      BY DEF WaitInv, ListsOK
    <3>2. ListsWithout(kern.wait, t, kern'.wait)
      BY <1>1, <1>2, <2>2, <3>1, UnlinkProperties
    <3> QED BY <3>2 DEF ListsWithout, ListWithout
  <2> QED BY <2>1, <2>2
<1>4. Listing(kern, operating)'
  <2>1. ASSUME NEW u \in Task, NEW o \in WaitObj, In(u, kern'.wait[o])
        PROVE  operating'[u].queue \in Queue /\ o = List(operating'[u].queue, operating'[u].op.rw)
    <3>1. operating[u].queue \in Queue /\ o = List(operating[u].queue, operating[u].op.rw)
      BY <1>3, <2>1 DEF QueueInv, Listing
    <3>2. Has(kern', u, "PEND")
      BY <2>1, TCBs DEF WaitInv, ListsOK, TaskOK
    <3>3. pc'[u] # "none"
      BY <3>2 DEF WaitInv, Places
    <3> QED BY <3>1, <3>3
  <2> QED BY <2>1 DEF Listing
<1>5. NoOperation \in [queue : Queue \cup {"none"}, op : Operation] /\ NoOperation.queue = "none"
  BY DEF NoOperation, Operation
<1>6. operating \in [Task -> [queue : Queue \cup {"none"}, op : Operation]]
  BY DEF QueueInv, OperatingOK
<1>7. \A u \in Task : operating'[u] = IF pc'[u] = "none" THEN NoOperation ELSE operating[u]
  OBVIOUS
<1>8. operating' \in [Task -> [queue : Queue \cup {"none"}, op : Operation]]
  BY <1>5, <1>6
<1>9. ASSUME NEW u \in Task
      PROVE  /\ operating'[u].queue = "none" => operating'[u] = NoOperation
             /\ operating'[u].queue # "none" => pc'[u] \in {"block", "wait"}
  <2>1. CASE pc'[u] = "none"
    BY <2>1, <1>5, <1>7
  <2>2. CASE pc'[u] # "none"
    BY <2>2, <1>7 DEF QueueInv, OperatingOK, Waits
  <2> QED BY <2>1, <2>2
<1> QED BY <1>4, <1>8, <1>9 DEF OperatingOK

\* For queue q a step of task management is the departure of a waiter or
\* nothing at all.
LEMMA TaskStepIsAbstract ==
  ASSUME Holds, Holds', NEW q \in Queue, SameQueue(q), Waits(kern, pc, kern', pc'),
         \A rw \in RW : \A t \in Served(q, rw) : pc'[t] # "none",
         operating' = [t \in Task |-> IF pc'[t] = "none" THEN NoOperation ELSE operating[t]]
  PROVE  Abstract(q)!Next \/ UNCHANGED Abstract(q)!vars
<1>1. PICK t \in Task \cup {NoTask} :
        /\ \A u \in Task \ {t} : /\ Has(kern', u, "PEND") <=> Has(kern, u, "PEND")
                                 /\ Has(kern', u, "TIMEOUT") <=> Has(kern, u, "TIMEOUT")
                                 /\ pc'[u] = "none" => pc[u] = "none"
        /\ t = NoTask => kern'.wait = kern.wait
        /\ t # NoTask => /\ kern'.wait = Unlink(kern.wait, t) /\ ~Has(kern', t, "PEND")
                         /\ pc'[t] = "none" \/ (Has(kern, t, "PEND") /\ Has(kern', t, "TIMEOUT"))
  BY DEF Waits
<1>2. \A u \in Task : operating'[u] = IF pc'[u] = "none" THEN NoOperation ELSE operating[u]
  OBVIOUS
<1>3. NoOperation.queue = "none" /\ NoOperation.queue # q
  BY NoQueueAssumption DEF NoOperation
<1>4. \A u \in Task \ {t} : operating'[u] = operating[u]
  BY <1>1, <1>2, <1>3 DEF Holds, QueueInv, OperatingOK
<1>5. \A u \in Task \ {t} : /\ \A rw \in RW : u \in Served(q, rw)' <=> u \in Served(q, rw)
                            /\ u \in InFlight(q)' <=> u \in InFlight(q)
  BY <1>1, <1>4 DEF Served, InFlight, Has
<1>6. CASE t = NoTask
  <2>1. \A u \in Task : u \in Task \ {t}
    BY <1>6 DEF Task, NoTask
  <2>2. SameServed(q)
    BY <1>5, <2>1 DEF SameServed, Served
  <2>3. SameLists(q)
    BY <1>1, <1>6 DEF SameLists
  <2> QED BY <1>4, <1>5, <2>1, <2>2, <2>3, NothingHappens
<1>7. CASE t # NoTask
  <2>1. t \in Task /\ t \in TCB /\ TaskOK(kern, t) /\ kern.wait \in [WaitObj -> Seq(Task)]
    BY <1>1, <1>7, TCBs, KernelFields DEF Holds, TaskInv, Inv, KInv, WaitInv, ListsOK
  <2>2. \A rw \in RW : t \notin Served(q, rw)
    BY <1>1, <1>7 DEF Served, Has
  <2>3. pc'[t] # "none" => Has(kern', t, "TIMEOUT")
    BY <1>1, <1>7
  <2>4. t \notin InFlight(q)' /\ \A rw \in RW : t \notin Served(q, rw)'
    BY <1>2, <1>3, <2>3 DEF InFlight, Served, Has
  <2>5. SameServed(q)
    <3>1. \A rw \in RW : Served(q, rw)' = Served(q, rw)
      BY <1>5, <2>2, <2>4 DEF Served
    <3> QED BY <3>1 DEF SameServed
  <2>6. \A rw \in RW : kern'.wait[List(q, rw)] = Without(kern.wait[List(q, rw)], t)
    BY <1>1, <1>7, <2>1, QueueLists DEF Unlink
  <2>7. CASE \E rw \in RW : In(t, kern.wait[List(q, rw)])
    <3>1. PICK rw \in RW : In(t, kern.wait[List(q, rw)])
      BY <2>7
    <3>2. Opposite(rw) \in RW /\ Opposite(rw) # rw
      BY DEF RW, Opposite
    <3>3. List(q, rw) \in WaitObj /\ List(q, Opposite(rw)) \in WaitObj
          /\ List(q, rw) # List(q, Opposite(rw))
      BY <3>2, QueueLists DEF List
    <3>4. ~In(t, kern.wait[List(q, Opposite(rw))])
      BY <2>1, <3>1, <3>3 DEF TaskOK
    <3>5. kern'.wait[List(q, Opposite(rw))] = kern.wait[List(q, Opposite(rw))]
      BY <2>6, <3>2, <3>4, WithoutAbsent
    <3>6. OpsStay(q)
      <4>1. \A u \in Task : u \in InFlight(q)' => u \in InFlight(q) /\ operating'[u] = operating[u]
        BY <1>4, <1>5, <2>4
      <4> QED BY <4>1 DEF OpsStay, InFlight
    <3>7. t \notin Served(q, "READ") \cup Served(q, "WRITE")
      BY <2>2 DEF RW
    <3> QED BY <2>1, <2>5, <2>6, <3>1, <3>5, <3>6, <3>7, WaiterLeaves
  <2>8. CASE \A rw \in RW : ~In(t, kern.wait[List(q, rw)])
    <3>1. SameLists(q)
      BY <2>6, <2>8, WithoutAbsent DEF SameLists
    <3>2. t \notin InFlight(q)
      <4>1. Abstract(q)!Busy = InFlight(q)
        BY AbstractBusy DEF Holds
      <4>2. t \notin Abstract(q)!Busy
        BY <2>2, <2>8 DEF Abstract!Busy, Abstract!Elements, In, RW
      <4> QED BY <4>1, <4>2
    <3>3. \A u \in Task : /\ u \in InFlight(q)' <=> u \in InFlight(q)
                          /\ u \in InFlight(q) => operating'[u].op = operating[u].op
      BY <1>4, <1>5, <2>4, <3>2
    <3> QED BY <2>5, <3>1, <3>3, NothingHappens
  <2> QED BY <2>7, <2>8
<1> QED BY <1>6, <1>7

\* And it keeps what is said of q.
LEMMA TaskStepKeepsQueue ==
  ASSUME TaskInv, WaitInv, QueueInv, NEW q \in Queue, SameQueue(q), freeQueue' = freeQueue,
         Waits(kern, pc, kern', pc'),
         \A rw \in RW : \A t \in Served(q, rw) : pc'[t] # "none",
         operating' = [t \in Task |-> IF pc'[t] = "none" THEN NoOperation ELSE operating[t]]
  PROVE  QueueOK(q)'
<1>1. PICK t \in Task \cup {NoTask} :
        /\ \A u \in Task \ {t} : /\ Has(kern', u, "PEND") <=> Has(kern, u, "PEND")
                                 /\ Has(kern', u, "TIMEOUT") <=> Has(kern, u, "TIMEOUT")
                                 /\ pc'[u] = "none" => pc[u] = "none"
        /\ t = NoTask => kern'.wait = kern.wait
        /\ t # NoTask => /\ kern'.wait = Unlink(kern.wait, t) /\ ~Has(kern', t, "PEND")
                         /\ pc'[t] = "none" \/ (Has(kern, t, "PEND") /\ Has(kern', t, "TIMEOUT"))
  BY DEF Waits
<1>2. \A u \in Task : operating'[u] = IF pc'[u] = "none" THEN NoOperation ELSE operating[u]
  OBVIOUS
<1>3. NoOperation.queue = "none" /\ NoOperation.queue # q
  BY NoQueueAssumption DEF NoOperation
<1>4. \A u \in Task \ {t} : operating'[u] = operating[u]
  BY <1>1, <1>2, <1>3 DEF QueueInv, OperatingOK
<1>5. \A rw \in RW : Served(q, rw)' = Served(q, rw)
  <2>1. \A u \in Task \ {t} : \A rw \in RW : u \in Served(q, rw)' <=> u \in Served(q, rw)
    BY <1>1, <1>4 DEF Served, Has
  <2>2. t \in Task => \A rw \in RW : t \notin Served(q, rw) /\ t \notin Served(q, rw)'
    <3>1. t \in Task => t # NoTask
      BY DEF Task, NoTask
    <3> QED BY <1>1, <1>2, <1>3, <3>1 DEF Served, Has
  <2> QED BY <2>1, <2>2 DEF Served
<1>6. \A rw \in RW : kern.wait[List(q, rw)] = <<>> => kern'.wait[List(q, rw)] = <<>>
  <2>1. CASE t = NoTask
    BY <1>1, <2>1
  <2>2. CASE t # NoTask
    <3>1. kern.wait \in [WaitObj -> Seq(Task)]
      BY KernelFields DEF TaskInv, Inv, KInv
    <3>2. \A rw \in RW : kern'.wait[List(q, rw)] = Without(kern.wait[List(q, rw)], t)
      BY <1>1, <2>2, <3>1, QueueLists DEF Unlink
    <3>3. ~In(t, <<>>)
      BY DEF In
    <3> QED BY <3>2, <3>3, WithoutAbsent
  <2> QED BY <2>1, <2>2
<1>7. queue'[q] = queue[q]
  BY DEF SameQueue
<1>8. Held(q)' = Held(q) /\ Served(q, "READ")' = Served(q, "READ")
      /\ Served(q, "WRITE")' = Served(q, "WRITE")
  BY <1>5, <1>7 DEF Held, RW
<1>9. QueueOK(q)
  BY DEF QueueInv
<1> QED BY <1>5, <1>6, <1>7, <1>8, <1>9 DEF QueueOK

\* A step of task management.
LEMMA QueueTaskStepOK ==
  ASSUME TaskInv, WaitInv, QueueInv, QueueTaskStep
  PROVE  QueueStepOK
<1>1. /\ TaskNext /\ [TaskNext]_taskVars /\ queue' = queue /\ freeQueue' = freeQueue
      /\ \A q \in Queue, rw \in RW : \A t \in Served(q, rw) : pc'[t] # "none"
      /\ operating' = [t \in Task |-> IF pc'[t] = "none" THEN NoOperation ELSE operating[t]]
  BY DEF QueueTaskStep, RW
<1>2. TaskInv' /\ WaitInv' /\ (Preempts => Preempts') /\ Waits(kern, pc, kern', pc')
  BY <1>1, NextInv, NextStep DEF TaskStepOK
<1>3. \A q \in Queue : SameQueue(q)
  BY <1>1 DEF SameQueue
<1>4. QueueInv'
  <2>1. OperatingOK(operating, pc)' /\ Listing(kern, operating)'
    BY <1>1, <1>2, TaskStepKeepsListing
  <2>2. \A q \in Queue : QueueOK(q)'
    BY <1>1, <1>2, <1>3, TaskStepKeepsQueue
  <2> QED BY <1>1, <2>1, <2>2 DEF QueueInv
<1>5. Holds /\ Holds'
  BY <1>2, <1>4 DEF Holds
<1>6. ASSUME NEW q \in Queue PROVE Abstract(q)!Next \/ UNCHANGED Abstract(q)!vars
  BY <1>1, <1>2, <1>3, <1>5, TaskStepIsAbstract
<1>7. NoneDeletedInFlight
  BY <1>1 DEF NoneDeletedInFlight
<1> QED BY <1>2, <1>4, <1>6, <1>7 DEF QueueStepOK, QueuesImplemented

-----------------------------------------------------------------------------
(* The steps of the services.                                              *)

\* The ring of a queue that has just been created.
LEMMA NewRing ==
  ASSUME NEW len \in QueueLen
  PROVE  LET cb == [used |-> TRUE, len |-> len, head |-> 0, tail |-> 0,
                    cell |-> [i \in 1..len |-> NoMsg],
                    cnt  |-> [rw \in {"READ", "WRITE"} |-> IF rw = "READ" THEN 0 ELSE len]]
         IN  /\ cb \in ControlBlock /\ Ring(cb, 0) /\ cb.used /\ cb.len = len
             /\ cb.cnt["READ"] = 0 /\ cb.cnt["WRITE"] = len
<1> DEFINE cell == [i \in 1..len |-> NoMsg]
           cnt  == [rw \in {"READ", "WRITE"} |-> IF rw = "READ" THEN 0 ELSE len]
           cb   == [used |-> TRUE, len |-> len, head |-> 0, tail |-> 0, cell |-> cell, cnt |-> cnt]
<1>1. len \in Nat \ {0}
  BY QueueLenAssumption
<1>2. cell \in [1..len -> Msg \cup {NoMsg}] /\ cell \in Seq(Msg \cup {NoMsg})
  BY <1>1
<1>3. cnt \in [RW -> Nat] /\ cnt["READ"] = 0 /\ cnt["WRITE"] = len
  BY <1>1 DEF RW
<1> HIDE DEF cell, cnt
<1>4. cb \in ControlBlock
  BY <1>1, <1>2, <1>3 DEF ControlBlock
<1>5. Slot(cb, 0) = 0
  BY <1>1 DEF Slot
<1>6. Ring(cb, 0)
  BY <1>1, <1>2, <1>5 DEF Ring
<1> QED BY <1>3, <1>4, <1>6 DEF cell, cnt

\* LOS_QueueCreate.
LEMMA QueueCreateStep ==
  ASSUME TaskInv, WaitInv, QueueInv, NEW ctx \in Context, NEW len \in QueueLen, LOS_QueueCreate(ctx, len)
  PROVE  QueueStepOK
<1>1. PICK q \in Queue : q = Head(freeQueue)
  BY TailProperties DEF LOS_QueueCreate, QueueInv
<1>2. PICK cb : cb = [used |-> TRUE, len |-> len, head |-> 0, tail |-> 0,
                      cell |-> [i \in 1..len |-> NoMsg],
                      cnt  |-> [rw \in {"READ", "WRITE"} |-> IF rw = "READ" THEN 0 ELSE len]]
  OBVIOUS
<1>3. /\ freeQueue # <<>> /\ freeQueue' = Tail(freeQueue) /\ queue' = [queue EXCEPT ![q] = cb]
      /\ operating' = operating /\ UNCHANGED <<kern, pc, child, pendSV, tick>>
  BY <1>1, <1>2 DEF LOS_QueueCreate
<1>4. /\ cb \in ControlBlock /\ Ring(cb, 0) /\ cb.used /\ cb.len = len
      /\ cb.cnt["READ"] = 0 /\ cb.cnt["WRITE"] = len
  BY <1>2, NewRing
<1>5. /\ queue \in [Queue -> ControlBlock] /\ freeQueue \in Seq(Queue) /\ Distinct(freeQueue)
      /\ \A z \in Queue : QueueOK(z)
  BY DEF QueueInv
<1>6. /\ Tail(freeQueue) \in Seq(Queue) /\ In(q, freeQueue)
      /\ Distinct(Tail(freeQueue)) /\ ~In(q, Tail(freeQueue))
      /\ \A u \in Queue \ {q} : In(u, Tail(freeQueue)) <=> In(u, freeQueue)
  BY <1>1, <1>3, <1>5, TailProperties
<1>7. ~queue[q].used /\ \A rw \in RW : kern.wait[List(q, rw)] = <<>> /\ Served(q, rw) = {}
  BY <1>5, <1>6 DEF QueueOK
<1>8. queue'[q] = cb /\ \A z \in Queue \ {q} : SameQueue(z)
  BY <1>3, <1>5 DEF SameQueue
<1>9. \A z \in Queue : SameLists(z) /\ \A rw \in RW : Served(z, rw)' = Served(z, rw)
  BY <1>3 DEF SameLists, Served
<1>10. Held(q)' = 0 /\ Cardinality(Served(q, "READ")') = 0 /\ Cardinality(Served(q, "WRITE")') = 0
  <2>1. Served(q, "READ")' = {} /\ Served(q, "WRITE")' = {} /\ Cardinality({}) = 0
    BY <1>7, <1>9, FS_EmptySet DEF RW
  <2> QED BY <2>1, <1>4, <1>8 DEF Held
<1>11. QueueOK(q)'
  <2>1. queue'[q].cnt["READ"] + queue'[q].cnt["WRITE"]
            + Cardinality(Served(q, "READ")') + Cardinality(Served(q, "WRITE")') = queue'[q].len
    BY <1>4, <1>8, <1>10, QueueLenAssumption
  <2> QED BY <2>1, <1>3, <1>4, <1>6, <1>7, <1>8, <1>10 DEF QueueOK
<1>12. ASSUME NEW z \in Queue, z # q
       PROVE  UNCHANGED Abstract(z)!vars /\ QueueOK(z)'
  <2>1. SameQueue(z) /\ SameLists(z) /\ (In(z, freeQueue') <=> In(z, freeQueue))
    BY <1>3, <1>6, <1>8, <1>9, <1>12
  <2>2. \A t \in Task : operating'[t] = operating[t] /\ kern'.status[t] = kern.status[t]
    BY <1>3
  <2> QED BY <2>1, <2>2, <1>5, OthersStand
<1>13. TaskInv' /\ WaitInv' /\ (Preempts => Preempts')
  BY <1>3, TasksStand
<1>14. QueueInv'
  <2>1. OperatingOK(operating, pc)' /\ Listing(kern, operating)'
    BY <1>3 DEF QueueInv, OperatingOK, Listing
  <2>2. queue' \in [Queue -> ControlBlock]
    BY <1>3, <1>4, <1>5
  <2> QED BY <2>1, <2>2, <1>3, <1>6, <1>11, <1>12 DEF QueueInv
<1>15. Holds /\ Holds'
  BY <1>13, <1>14 DEF Holds
<1>16. Abstract(q)!Next
  <2>1. \A t \in Task : /\ t \in InFlight(q)' <=> t \in InFlight(q)
                        /\ t \in InFlight(q) => operating'[t].op = operating[t].op
    BY <1>3 DEF InFlight
  <2>2. SameServed(q) /\ SameLists(q)
    BY <1>9 DEF SameServed
  <2> QED BY <2>1, <2>2, <1>4, <1>7, <1>8, <1>10, <1>15, QueueCreated
<1>17. NoneDeletedInFlight
  BY <1>4, <1>8 DEF NoneDeletedInFlight, SameQueue
<1> QED BY <1>12, <1>13, <1>14, <1>16, <1>17 DEF QueueStepOK, QueuesImplemented

\* LOS_QueueDelete: the counts say that nobody is in flight.
LEMMA QueueDeleteStep ==
  ASSUME TaskInv, WaitInv, QueueInv, NEW ctx \in Context, NEW q \in Queue, LOS_QueueDelete(ctx, q)
  PROVE  QueueStepOK
<1>1. /\ queue[q].used /\ NobodyWaits(q)
      /\ queue[q].cnt["READ"] + queue[q].cnt["WRITE"] = queue[q].len
      /\ queue' = [queue EXCEPT ![q].used = FALSE, ![q].cell = <<>>]
      /\ freeQueue' = <<q>> \o freeQueue /\ operating' = operating
      /\ UNCHANGED <<kern, pc, child, pendSV, tick>>
  BY DEF LOS_QueueDelete
<1>2. /\ queue \in [Queue -> ControlBlock] /\ freeQueue \in Seq(Queue) /\ Distinct(freeQueue)
      /\ \A z \in Queue : QueueOK(z)
  BY DEF QueueInv
<1>3. \A rw \in RW : kern.wait[List(q, rw)] = <<>>
  BY <1>1 DEF NobodyWaits, RW
<1>4. \A rw \in RW : Served(q, rw) = {}
  <2>1. PICK a, b, c, d, n : /\ a = queue[q].cnt["READ"] /\ b = queue[q].cnt["WRITE"]
                             /\ c = Cardinality(Served(q, "READ"))
                             /\ d = Cardinality(Served(q, "WRITE")) /\ n = queue[q].len
    OBVIOUS
  <2>2. a \in Nat /\ b \in Nat /\ c \in Nat /\ d \in Nat /\ a + b = n /\ a + b + c + d = n
    BY <2>1, <1>1, <1>2, ServedFinite DEF QueueOK, ControlBlock, RW
  <2>3. c = 0 /\ d = 0
    BY <2>2
  <2>4. Served(q, "READ") = {} /\ Served(q, "WRITE") = {}
    BY <2>1, <2>3, ServedFinite, FS_EmptySet
  <2> QED BY <2>4 DEF RW
<1>5. InFlight(q) = {}
  <2>1. Abstract(q)!Busy = InFlight(q)
    BY AbstractBusy
  <2>2. \A t : ~In(t, <<>>)
    BY DEF In
  <2>3. Abstract(q)!Busy = {}
    BY <1>3, <1>4, <2>2 DEF Abstract!Busy, Abstract!Elements, In, RW
  <2> QED BY <2>1, <2>3
<1>6. queue'[q].used = FALSE /\ \A z \in Queue \ {q} : SameQueue(z)
  BY <1>1, <1>2 DEF SameQueue, ControlBlock
<1>7. queue' \in [Queue -> ControlBlock]
  <2>1. PICK cb : cb = queue[q]
    OBVIOUS
  <2>2. [cb EXCEPT !.used = FALSE, !.cell = <<>>] \in ControlBlock
    <3>1. PICK e : e = <<>>
      OBVIOUS
    <3>2. e \in Seq(Msg \cup {NoMsg}) /\ cb \in ControlBlock
      BY <2>1, <3>1, <1>2
    <3>3. [cb EXCEPT !.used = FALSE, !.cell = e] \in ControlBlock
      BY <3>2 DEF ControlBlock
    <3> QED BY <3>1, <3>3
  <2>3. queue' = [queue EXCEPT ![q] = [cb EXCEPT !.used = FALSE, !.cell = <<>>]]
    BY <2>1, <1>1, <1>2
  <2> QED BY <2>2, <2>3, <1>2
<1>8. /\ freeQueue' \in Seq(Queue) /\ Distinct(freeQueue')
      /\ \A u : In(u, freeQueue') <=> In(u, freeQueue) \/ u = q
  <2>1. ~In(q, freeQueue)
    BY <1>1, <1>2 DEF QueueOK
  <2> QED BY <2>1, <1>1, <1>2, EndsProperties
<1>9. \A z \in Queue : SameLists(z) /\ \A rw \in RW : Served(z, rw)' = Served(z, rw)
  BY <1>1 DEF SameLists, Served
<1>10. QueueOK(q)'
  BY <1>1, <1>3, <1>4, <1>6, <1>8, <1>9 DEF QueueOK
<1>11. ASSUME NEW z \in Queue, z # q
       PROVE  UNCHANGED Abstract(z)!vars /\ QueueOK(z)'
  <2>1. SameQueue(z) /\ SameLists(z) /\ (In(z, freeQueue') <=> In(z, freeQueue))
    BY <1>6, <1>8, <1>9, <1>11
  <2>2. \A t \in Task : operating'[t] = operating[t] /\ kern'.status[t] = kern.status[t]
    BY <1>1
  <2> QED BY <2>1, <2>2, <1>2, OthersStand
<1>12. TaskInv' /\ WaitInv' /\ (Preempts => Preempts')
  BY <1>1, TasksStand
<1>13. QueueInv'
  <2>1. OperatingOK(operating, pc)' /\ Listing(kern, operating)'
    BY <1>1 DEF QueueInv, OperatingOK, Listing
  <2> QED BY <2>1, <1>7, <1>8, <1>10, <1>11 DEF QueueInv
<1>14. Abstract(q)!Next
  <2>1. InFlight(q)' = {}
    BY <1>1, <1>5 DEF InFlight
  <2>2. SameServed(q) /\ SameLists(q) /\ Holds /\ Holds'
    BY <1>9, <1>12, <1>13 DEF SameServed, Holds
  <2> QED BY <2>1, <2>2, <1>1, <1>5, <1>6, QueueDeleted
<1>15. NoneDeletedInFlight
  <2>1. \A t \in Task : operating[t].queue = q => Has(kern, t, "TIMEOUT")
    BY <1>5 DEF InFlight
  <2> QED BY <2>1, <1>6 DEF NoneDeletedInFlight, SameQueue
<1> QED BY <1>11, <1>12, <1>13, <1>14, <1>15 DEF QueueStepOK, QueuesImplemented

\* OsQueueOperate with nothing at hand: the task comes to wait.
LEMMA QueueWaitStep ==
  ASSUME TaskInv, WaitInv, QueueInv, NEW q \in Queue, NEW op \in Operation,
         NEW timed \in BOOLEAN, QueueOperateWait(q, op, timed)
  PROVE  QueueStepOK
<1> DEFINE mine == List(q, op.rw)
<1>1. /\ Caller("task") /\ kern.lock = 0 /\ queue[q].used /\ queue[q].cnt[op.rw] = 0
      /\ kern' = OsSchedTaskWait(kern, mine, timed)
      /\ pc' = [pc EXCEPT ![kern.run] = "block"]
      /\ operating' = [operating EXCEPT ![kern.run] = [queue |-> q, op |-> op]]
      /\ queue' = queue /\ freeQueue' = freeQueue
      /\ child' = child /\ pendSV' = pendSV /\ tick' = tick
  BY DEF QueueOperateWait
<1>2. /\ mine \in WaitObj /\ List(q, Opposite(op.rw)) \in WaitObj
      /\ List(q, Opposite(op.rw)) # mine /\ op.rw \in RW /\ RW = {op.rw, Opposite(op.rw)}
  BY Opposites, QueueLists
<1>3. \A z \in Queue \ {q} : \A rw \in RW : List(z, rw) \in WaitObj \ {mine}
  BY <1>2, QueueLists
<1> HIDE DEF mine
<1>4. /\ TaskInv' /\ WaitInv' /\ Preempts'
      /\ kern'.wait = [kern.wait EXCEPT ![mine] = Append(@, kern.run)]
      /\ Has(kern', kern.run, "PEND") /\ ~Has(kern, kern.run, "PEND")
      /\ \A u \in TCB \ {kern.run} : kern'.status[u] = kern.status[u]
  <2>1. PICK k : k = kern
    OBVIOUS
  <2>2. Repriced(kern, k)
    BY <2>1, RepricedBy DEF TaskInv, Inv, WaitInv
  <2>3. kern' = OsSchedTaskWait(k, mine, timed)
    BY <1>1, <2>1
  <2> QED BY <1>1, <1>2, <2>2, <2>3, WaitStep, SMTT(30)
<1>5. PICK r \in Task : r = kern.run
  BY <1>1, CallerFacts DEF Context
<1>6. /\ pc \in [TCB -> PC] /\ pc[r] = "run" /\ r \in TCB
      /\ kern.wait \in [WaitObj -> Seq(Task)] /\ ListsOK(kern)
  BY <1>1, <1>5, TCBs, KernelFields DEF TaskInv, Inv, KInv, WaitInv, Caller, Running
<1>7. /\ operating[r].queue = "none"
      /\ operating \in [Task -> [queue : Queue \cup {"none"}, op : Operation]]
      /\ \A u \in Task : /\ operating[u].queue = "none" => operating[u] = NoOperation
                         /\ operating[u].queue # "none" => pc[u] \in {"block", "wait"}
  BY <1>6 DEF QueueInv, OperatingOK
<1> DEFINE new == [queue |-> q, op |-> op]
<1>8. /\ new \in [queue : Queue \cup {"none"}, op : Operation]
      /\ new.queue = q /\ new.op = op
  OBVIOUS
<1> HIDE DEF new
<1>9. /\ operating'[r] = new
      /\ operating' \in [Task -> [queue : Queue \cup {"none"}, op : Operation]]
      /\ \A u \in Task \ {r} : operating'[u] = operating[u]
  BY <1>1, <1>5, <1>7, <1>8 DEF new
<1>10. /\ kern'.wait[mine] = Append(kern.wait[mine], r)
       /\ \A o \in WaitObj \ {mine} : kern'.wait[o] = kern.wait[o]
       /\ \A u : In(u, kern'.wait[mine]) <=> In(u, kern.wait[mine]) \/ u = r
  <2> DEFINE s == kern.wait[mine]
  <2>1. s \in Seq(Task) /\ kern'.wait[mine] = Append(s, r)
    BY <1>2, <1>4, <1>5, <1>6
  <2>2. \A o \in WaitObj \ {mine} : kern'.wait[o] = kern.wait[o]
    BY <1>4, <1>6
  <2> HIDE DEF s
  <2>3. \A u : In(u, Append(s, r)) <=> In(u, s) \/ u = r
    BY <2>1, EndsProperties
  <2> QED BY <2>1, <2>2, <2>3 DEF s
<1>11. \A u \in Task \ {r} : kern'.status[u] = kern.status[u]
  BY <1>4, <1>5, TCBs
<1>12. q # "none" /\ \A z \in Queue : z # "none"
  BY NoQueueAssumption
<1>13. \A z \in Queue : \A rw \in RW : Served(z, rw)' = Served(z, rw)
  <2>1. \A z \in Queue : \A rw \in RW : r \notin Served(z, rw) /\ r \notin Served(z, rw)'
    BY <1>4, <1>5, <1>7, <1>12 DEF Served, Has
  <2>2. \A z \in Queue : \A rw \in RW : \A u \in Task \ {r} :
          u \in Served(z, rw)' <=> u \in Served(z, rw)
    BY <1>9, <1>11 DEF Served
  <2> QED BY <2>1, <2>2 DEF Served
<1>14. Listing(kern, operating)'
  <2>1. ASSUME NEW u \in Task, NEW o \in WaitObj, In(u, kern'.wait[o])
        PROVE  operating'[u].queue \in Queue /\ o = List(operating'[u].queue, operating'[u].op.rw)
    <3>1. \A v \in Task : \A w \in WaitObj : In(v, kern.wait[w]) =>
            operating[v].queue \in Queue /\ w = List(operating[v].queue, operating[v].op.rw)
      BY DEF QueueInv, Listing
    <3>2. CASE u = r
      <4>1. ~In(r, kern.wait[o])
        BY <3>1, <1>7, NoQueueAssumption
      <4>2. o = mine
        BY <2>1, <3>2, <4>1, <1>10
      <4> QED BY <3>2, <4>2, <1>8, <1>9 DEF mine
    <3>3. CASE u # r
      <4>1. In(u, kern.wait[o])
        BY <2>1, <3>3, <1>10
      <4> QED BY <3>1, <3>3, <4>1, <1>9
    <3> QED BY <3>2, <3>3
  <2> QED BY <2>1 DEF Listing
<1>15. OperatingOK(operating, pc)'
  <2>1. ASSUME NEW u \in Task
        PROVE  /\ operating'[u].queue = "none" => operating'[u] = NoOperation
               /\ operating'[u].queue # "none" => pc'[u] \in {"block", "wait"}
    <3>1. CASE u = r
      <4>1. pc'[r] = "block"
        BY <1>1, <1>5, <1>6
      <4> QED BY <3>1, <4>1, <1>8, <1>9, <1>12
    <3>2. CASE u # r
      <4>1. pc'[u] = pc[u]
        BY <3>2, <1>1, <1>5, <1>6, TCBs
      <4> QED BY <3>2, <4>1, <1>7, <1>9
    <3> QED BY <3>1, <3>2
  <2> QED BY <2>1, <1>9 DEF OperatingOK
<1>16. \A z \in Queue : QueueOK(z)
  BY DEF QueueInv
<1>17. QueueOK(q)'
  <2>1. Held(q)' = Held(q) /\ Served(q, "READ")' = Served(q, "READ")
        /\ Served(q, "WRITE")' = Served(q, "WRITE")
    BY <1>1, <1>13 DEF Held, RW
  <2>2. \A rw \in RW : queue[q].cnt[rw] > 0 => kern'.wait[List(q, rw)] = kern.wait[List(q, rw)]
    <3>1. ASSUME NEW rw \in RW, queue[q].cnt[rw] > 0
          PROVE  kern'.wait[List(q, rw)] = kern.wait[List(q, rw)]
      <4>1. rw # op.rw
        BY <3>1, <1>1
      <4>2. List(q, rw) \in WaitObj \ {mine}
        BY <4>1, <1>2
      <4> QED BY <4>2, <1>10
    <3> QED BY <3>1
  <2>3. QueueOK(q) /\ queue'[q] = queue[q] /\ freeQueue' = freeQueue /\ queue[q].used
    BY <1>1, <1>16
  <2> QED BY <2>1, <2>2, <2>3 DEF QueueOK
<1>18. ASSUME NEW z \in Queue, z # q
       PROVE  UNCHANGED Abstract(z)!vars /\ QueueOK(z)'
  <2>1. SameQueue(z) /\ SameLists(z) /\ (In(z, freeQueue') <=> In(z, freeQueue))
    BY <1>1, <1>3, <1>10, <1>18 DEF SameQueue, SameLists
  <2>2. \A t \in Task : \/ operating'[t] = operating[t] /\ kern'.status[t] = kern.status[t]
                        \/ operating[t].queue # z /\ operating'[t].queue # z
    BY <1>7, <1>8, <1>9, <1>11, <1>12, <1>18
  <2> QED BY <2>1, <2>2, <1>16, OthersStand
<1>19. QueueInv'
  BY <1>1, <1>14, <1>15, <1>17, <1>18 DEF QueueInv
<1>20. Abstract(q)!Next
  <2>1. SameQueue(q) /\ SameServed(q) /\ Holds /\ Holds'
    BY <1>1, <1>4, <1>13, <1>19 DEF SameQueue, SameServed, Holds
  <2>2. r \notin InFlight(q)
    BY <1>7, <1>12 DEF InFlight
  <2>3. ~Has(kern', r, "TIMEOUT")
    BY <1>4, <1>5, <1>6 DEF WaitInv, ListsOK, TaskOK
  <2>4. r \in InFlight(q)' /\ operating'[r].op = op
    BY <2>3, <1>8, <1>9 DEF InFlight
  <2>5. \A t \in Task \ {r} : /\ t \in InFlight(q)' <=> t \in InFlight(q)
                              /\ operating'[t].op = operating[t].op
    BY <1>9, <1>11 DEF InFlight, Has
  <2>6. /\ kern'.wait[List(q, op.rw)] = Append(kern.wait[List(q, op.rw)], r)
        /\ kern'.wait[List(q, Opposite(op.rw))] = kern.wait[List(q, Opposite(op.rw))]
    BY <1>2, <1>10 DEF mine
  <2> QED BY <1>1, <2>1, <2>2, <2>4, <2>5, <2>6, WaiterComes
<1>21. NoneDeletedInFlight
  BY <1>1 DEF NoneDeletedInFlight
<1> QED BY <1>4, <1>18, <1>19, <1>20, <1>21 DEF QueueStepOK, QueuesImplemented

\* The end of a wait whose time was over.
LEMMA QueueTimeoutStep ==
  ASSUME TaskInv, WaitInv, QueueInv, QueueTimeout
  PROVE  QueueStepOK
<1>1. /\ kern.run \in Task /\ Running("wait") /\ Has(kern, kern.run, "TIMEOUT")
      /\ kern' = Committed(kern, ClearFlag(kern, kern.run, {"TIMEOUT"}))
      /\ pc' = [pc EXCEPT ![kern.run] = "run"]
      /\ operating' = [operating EXCEPT ![kern.run] = NoOperation]
      /\ queue' = queue /\ freeQueue' = freeQueue
      /\ child' = child /\ pendSV' = pendSV /\ tick' = tick
  BY DEF QueueTimeout, Finish
<1>2. kern' = ClearFlag(kern, kern.run, {"TIMEOUT"})
  <2>1. kern \in Kernel /\ ~kern.halted
    BY <1>1 DEF TaskInv, Inv, KInv, Running
  <2>2. ClearFlag(kern, kern.run, {"TIMEOUT"}).halted = kern.halted
    BY <2>1 DEF ClearFlag, Kernel
  <2> QED BY <1>1, <2>1, <2>2 DEF Committed
<1>3. /\ TaskInv' /\ WaitInv' /\ (Preempts => Preempts')
      /\ kern'.wait = kern.wait /\ ~Has(kern, kern.run, "PEND")
      /\ \A u \in TCB \ {kern.run} : kern'.status[u] = kern.status[u]
  BY <1>1, <1>2, ReturnStep
<1>4. PICK r \in Task : r = kern.run
  BY <1>1
<1>5. /\ pc \in [TCB -> PC] /\ r \in TCB /\ ListsOK(kern)
      /\ operating \in [Task -> [queue : Queue \cup {"none"}, op : Operation]]
  BY TCBs DEF TaskInv, Inv, WaitInv, QueueInv, OperatingOK
<1>6. /\ NoOperation \in [queue : Queue \cup {"none"}, op : Operation]
      /\ NoOperation.queue = "none" /\ NoOperation.queue \notin Queue
  BY NoQueueAssumption DEF NoOperation, Operation
<1>7. /\ operating'[r] = NoOperation
      /\ operating' \in [Task -> [queue : Queue \cup {"none"}, op : Operation]]
      /\ \A u \in Task \ {r} : operating'[u] = operating[u]
  BY <1>1, <1>4, <1>5, <1>6
<1>8. \A o \in WaitObj : ~In(r, kern.wait[o])
  BY <1>3, <1>4, <1>5 DEF ListsOK, TaskOK
<1>9. \A u \in Task \ {r} : kern'.status[u] = kern.status[u]
  BY <1>3, <1>4, TCBs
<1>10. \A z \in Queue : \A rw \in RW : Served(z, rw)' = Served(z, rw)
  <2>1. \A z \in Queue : \A rw \in RW : r \notin Served(z, rw) /\ r \notin Served(z, rw)'
    BY <1>1, <1>4, <1>6, <1>7 DEF Served, Has
  <2>2. \A z \in Queue : \A rw \in RW : \A u \in Task \ {r} :
          u \in Served(z, rw)' <=> u \in Served(z, rw)
    BY <1>7, <1>9 DEF Served
  <2> QED BY <2>1, <2>2 DEF Served
<1>11. Listing(kern, operating)'
  BY <1>3, <1>7, <1>8 DEF QueueInv, Listing
<1>12. OperatingOK(operating, pc)'
  <2>1. ASSUME NEW u \in Task
        PROVE  /\ operating'[u].queue = "none" => operating'[u] = NoOperation
               /\ operating'[u].queue # "none" => pc'[u] \in {"block", "wait"}
    <3>1. CASE u = r
      BY <3>1, <1>6, <1>7
    <3>2. CASE u # r
      <4>1. pc'[u] = pc[u]
        BY <3>2, <1>1, <1>4, <1>5, TCBs
      <4> QED BY <3>2, <4>1, <1>7 DEF QueueInv, OperatingOK
    <3> QED BY <3>1, <3>2
  <2> QED BY <2>1, <1>7 DEF OperatingOK
<1>13. ASSUME NEW z \in Queue PROVE QueueOK(z)' /\ UNCHANGED Abstract(z)!vars
  <2>1. SameQueue(z) /\ SameLists(z) /\ SameServed(z)
    BY <1>1, <1>3, <1>10 DEF SameQueue, SameLists, SameServed
  <2>2. Held(z)' = Held(z) /\ Served(z, "READ")' = Served(z, "READ")
        /\ Served(z, "WRITE")' = Served(z, "WRITE")
    BY <1>1, <1>10 DEF Held, RW
  <2>3. QueueOK(z) /\ queue'[z] = queue[z]
    BY <1>1 DEF QueueInv
  <2>4. QueueOK(z)'
    BY <1>1, <1>3, <1>10, <2>2, <2>3 DEF QueueOK
  <2>5. r \notin InFlight(z) /\ r \notin InFlight(z)'
    BY <1>1, <1>4, <1>6, <1>7 DEF InFlight
  <2>6. \A t \in Task : /\ t \in InFlight(z)' <=> t \in InFlight(z)
                        /\ t \in InFlight(z) => operating'[t].op = operating[t].op
    BY <1>7, <1>9, <2>5 DEF InFlight, Has
  <2> QED BY <2>1, <2>4, <2>6, NothingHappens
<1>14. QueueInv'
  BY <1>1, <1>11, <1>12, <1>13 DEF QueueInv
<1>15. NoneDeletedInFlight
  BY <1>1 DEF NoneDeletedInFlight
<1> QED BY <1>3, <1>13, <1>14, <1>15 DEF QueueStepOK, QueuesImplemented

\* The first half of OsQueueOperate: op takes the message or the place it needs
\* from the counts, or, after a wait, from the promises; gone is the task that
\* has waited.
Goes(ctx, q, op, cb, gone) ==
  /\ Serves(ctx) /\ queue[q].used
  /\ \/ /\ Caller(ctx) /\ gone = {} /\ queue[q].cnt[op.rw] # 0
        /\ cb = [queue[q] EXCEPT !.cnt[op.rw] = @ - 1] /\ operating' = operating
     \/ /\ ctx = "task" /\ kern.run \in Task /\ gone = {kern.run}
        /\ kern.run \in Served(q, op.rw) /\ operating[kern.run].op = op
        /\ cb = queue[q] /\ operating' = [operating EXCEPT ![kern.run] = NoOperation]

\* One that was counted or promised is neither any more; the ring stands.
Taken(q, op, cb, gone) ==
  LET opposite == Opposite(op.rw) IN
  /\ cb \in ControlBlock /\ cb.used = queue[q].used /\ cb.len = queue[q].len
  /\ cb.head = queue[q].head /\ cb.tail = queue[q].tail /\ cb.cell = queue[q].cell
  /\ cb.cnt[op.rw] > 0 => queue[q].cnt[op.rw] > 0
  /\ cb.cnt[opposite] = queue[q].cnt[opposite]
  /\ cb.cnt[op.rw] + Cardinality(Served(q, op.rw) \ gone) + 1
       = queue[q].cnt[op.rw] + Cardinality(Served(q, op.rw))
  /\ gone \subseteq Served(q, op.rw) /\ Served(q, opposite) \ gone = Served(q, opposite)

\* What it means for the counts and for the ring.
LEMMA OperationTakes ==
  ASSUME QueueInv, NEW ctx, NEW q \in Queue, NEW op \in Operation, NEW cb, NEW gone,
         Goes(ctx, q, op, cb, gone)
  PROVE  Taken(q, op, cb, gone)
<1>1. /\ queue[q] \in ControlBlock /\ queue[q].cnt \in [RW -> Nat]
      /\ op.rw \in RW /\ Opposite(op.rw) \in RW /\ Opposite(op.rw) # op.rw
  BY Opposites DEF QueueInv, ControlBlock
<1>2. IsFiniteSet(Served(q, op.rw)) /\ Cardinality(Served(q, op.rw)) \in Nat
  BY ServedFinite
<1>3. CASE gone = {} /\ queue[q].cnt[op.rw] # 0 /\ cb = [queue[q] EXCEPT !.cnt[op.rw] = @ - 1]
  <2>1. PICK old : old = queue[q]
    OBVIOUS
  <2> DEFINE cnt == [old.cnt EXCEPT ![op.rw] = old.cnt[op.rw] - 1]
  <2>2. /\ old \in ControlBlock /\ cnt \in [RW -> Nat]
        /\ cnt[op.rw] = old.cnt[op.rw] - 1 /\ cnt[Opposite(op.rw)] = old.cnt[Opposite(op.rw)]
    BY <1>1, <1>3, <2>1
  <2>3. cb = [old EXCEPT !.cnt = cnt]
    BY <1>1, <1>3, <2>1 DEF ControlBlock
  <2> HIDE DEF cnt
  <2>4. /\ cb \in ControlBlock /\ cb.used = old.used /\ cb.len = old.len /\ cb.cnt = cnt
        /\ cb.head = old.head /\ cb.tail = old.tail /\ cb.cell = old.cell
    BY <2>2, <2>3 DEF ControlBlock
  <2>5. \A rw : Served(q, rw) \ gone = Served(q, rw)
    BY <1>3
  <2>6. /\ cb.cnt[op.rw] > 0 => old.cnt[op.rw] > 0
        /\ cb.cnt[op.rw] + Cardinality(Served(q, op.rw)) + 1
             = old.cnt[op.rw] + Cardinality(Served(q, op.rw))
    <3>1. PICK a, b, c : a = cb.cnt[op.rw] /\ b = old.cnt[op.rw] /\ c = Cardinality(Served(q, op.rw))
      OBVIOUS
    <3>2. b \in Nat /\ a = b - 1 /\ c \in Nat
      BY <1>1, <1>2, <2>1, <2>2, <2>4, <3>1
    <3>3. (a > 0 => b > 0) /\ a + c + 1 = b + c
      BY <3>2
    <3> QED BY <3>1, <3>3
  <2> QED BY <1>3, <2>1, <2>2, <2>4, <2>5, <2>6 DEF Taken
<1>4. CASE gone = {kern.run} /\ kern.run \in Served(q, op.rw) /\ cb = queue[q]
  <2>1. kern.run \notin Served(q, Opposite(op.rw))
    BY <1>1, <1>4 DEF Served
  <2>2. Cardinality(Served(q, op.rw) \ gone) = Cardinality(Served(q, op.rw)) - 1
    BY <1>2, <1>4, FS_RemoveElement
  <2>3. Served(q, Opposite(op.rw)) \ gone = Served(q, Opposite(op.rw))
    BY <1>4, <2>1
  <2>4. cb.cnt[op.rw] + Cardinality(Served(q, op.rw) \ gone) + 1
          = queue[q].cnt[op.rw] + Cardinality(Served(q, op.rw))
    <3>1. PICK a, c, d : /\ a = queue[q].cnt[op.rw] /\ c = Cardinality(Served(q, op.rw))
                         /\ d = Cardinality(Served(q, op.rw) \ gone)
      OBVIOUS
    <3>2. a \in Nat /\ c \in Nat /\ d = c - 1
      BY <1>1, <1>2, <2>2, <3>1
    <3>3. a + d + 1 = a + c
      BY <3>2
    <3> QED BY <1>4, <3>1, <3>3
  <2> QED BY <1>1, <1>4, <2>3, <2>4 DEF Taken
<1> QED BY <1>3, <1>4 DEF Goes

\* So the message or the place is there, and the ring is that of the queue.
LEMMA TakenFits ==
  ASSUME QueueInv, NEW q \in Queue, NEW op \in Operation, NEW cb, NEW gone,
         queue[q].used, Taken(q, op, cb, gone)
  PROVE  /\ Fits(queue[q], Held(q), op) /\ Fits(cb, Held(q), op)
         /\ Ring(cb, Held(q)) /\ Messages(cb, Held(q)) = Messages(queue[q], Held(q))
<1>1. /\ queue[q] \in ControlBlock /\ cb \in ControlBlock /\ Ring(queue[q], Held(q)) /\ QueueOK(q)
      /\ op.rw \in RW
  BY Opposites DEF QueueInv, QueueOK, Taken
<1>2. PICK a, b, c, d, n, e : /\ a = queue[q].cnt["READ"] /\ b = queue[q].cnt["WRITE"]
                              /\ c = Cardinality(Served(q, "READ"))
                              /\ d = Cardinality(Served(q, "WRITE")) /\ n = queue[q].len
                              /\ e = Cardinality(Served(q, op.rw) \ gone)
  OBVIOUS
<1>3. a \in Nat /\ b \in Nat /\ c \in Nat /\ d \in Nat /\ n \in Nat /\ a + b + c + d = n
  BY <1>1, <1>2, ServedFinite DEF QueueOK, ControlBlock, RW
<1>4. Held(q) = a + c
  BY <1>2 DEF Held
<1>5. e \in Nat
  <2>1. IsFiniteSet(Served(q, op.rw) \ gone)
    BY ServedFinite, FS_Subset
  <2> QED BY <2>1, <1>2, FS_CardinalityType
<1>6. PICK x : x = cb.cnt[op.rw] /\ x \in Nat
  BY <1>1 DEF ControlBlock
<1>7. CASE op.rw = "READ"
  <2>1. x + e + 1 = a + c
    BY <1>2, <1>6, <1>7 DEF Taken
  <2>2. a + c > 0
    BY <2>1, <1>3, <1>5, <1>6
  <2> QED BY <2>2, <1>1, <1>4, <1>7 DEF Fits, Taken, Ring, Slot, Messages
<1>8. CASE op.rw = "WRITE"
  <2>1. x + e + 1 = b + d
    BY <1>2, <1>6, <1>8 DEF Taken
  <2>2. a + c < n
    BY <2>1, <1>3, <1>5, <1>6
  <2> QED BY <2>2, <1>1, <1>2, <1>4, <1>8 DEF Fits, Taken, Ring, Slot, Messages
<1> QED BY <1>1, <1>7, <1>8 DEF RW

\* The second half: what it does to the tasks, whether it wakes one or not.
HandsOver(ctx, q, op) ==
  LET opposite == List(q, Opposite(op.rw))
      list     == kern.wait[opposite]
      first    == Head(list) IN
  /\ TaskInv' /\ WaitInv' /\ (Preempts => Preempts')
  /\ list \in Seq(Task) /\ opposite \in WaitObj
  /\ kern'.wait[opposite] = IF list = <<>> THEN <<>> ELSE Tail(list)
  /\ \A o \in WaitObj \ {opposite} : kern'.wait[o] = kern.wait[o]
  /\ \A u \in Task : \A o \in WaitObj : In(u, kern'.wait[o]) => In(u, kern.wait[o])
  /\ list = <<>> => kern' = kern
  /\ list # <<>> => /\ first \in Task /\ Has(kern, first, "PEND") /\ ~Has(kern, first, "TIMEOUT")
                    /\ operating[first].queue = q /\ operating[first].op.rw = Opposite(op.rw)
                    /\ kern'.status[first] \cap {"PEND", "TIMEOUT"} = {}
                    /\ \A u \in Task \ {first} : kern'.status[u] = kern.status[u]
  /\ \A u \in Task : Caller(ctx) \/ u # kern.run =>
       (pc'[u] \in {"block", "wait"} <=> pc[u] \in {"block", "wait"})

\* Nobody is woken.
LEMMA NobodyWoken ==
  ASSUME TaskInv, WaitInv, QueueInv, NEW ctx \in Context, NEW q \in Queue, NEW op \in Operation,
         Serves(ctx), Finish(ctx, kern, FALSE), child' = child, tick' = tick,
         kern.wait[List(q, Opposite(op.rw))] = <<>>
  PROVE  HandsOver(ctx, q, op)
<1>1. /\ TaskInv' /\ WaitInv' /\ (Preempts => Preempts') /\ kern' = kern
      /\ \A u \in Task : Caller(ctx) \/ u # kern.run =>
           (pc'[u] \in {"block", "wait"} <=> pc[u] \in {"block", "wait"})
  BY QuietFinish
<1>2. List(q, Opposite(op.rw)) \in WaitObj
  BY Opposites, QueueLists
<1> QED BY <1>1, <1>2 DEF HandsOver

\* The first waiter is.
LEMMA FirstWoken ==
  ASSUME TaskInv, WaitInv, QueueInv, NEW ctx \in Context, NEW q \in Queue, NEW op \in Operation,
         Serves(ctx), kern.wait[List(q, Opposite(op.rw))] # <<>>,
         Finish(ctx, OsSchedTaskWake(kern, Head(kern.wait[List(q, Opposite(op.rw))])), TRUE),
         child' = child, tick' = tick
  PROVE  HandsOver(ctx, q, op)
<1> DEFINE opposite == List(q, Opposite(op.rw))
<1>1. /\ opposite \in WaitObj /\ kern.wait \in [WaitObj -> Seq(Task)] /\ ListsOK(kern)
      /\ Distinct(kern.wait[opposite]) /\ kern.wait[opposite] # <<>>
      /\ \A kind : opposite = List(q, kind) => kind = Opposite(op.rw)
  BY Opposites, QueueLists, KernelFields DEF TaskInv, Inv, KInv, WaitInv, ListsOK, List
<1>2. \A z : \A kind : opposite = List(z, kind) => z = q /\ kind = Opposite(op.rw)
  BY DEF List
<1>3. Finish(ctx, OsSchedTaskWake(kern, Head(kern.wait[opposite])), TRUE)
  OBVIOUS
<1>4. HandsOver(ctx, q, op) <=>
        LET list  == kern.wait[opposite]
            first == Head(list) IN
        /\ TaskInv' /\ WaitInv' /\ (Preempts => Preempts')
        /\ list \in Seq(Task) /\ opposite \in WaitObj
        /\ kern'.wait[opposite] = IF list = <<>> THEN <<>> ELSE Tail(list)
        /\ \A o \in WaitObj \ {opposite} : kern'.wait[o] = kern.wait[o]
        /\ \A u \in Task : \A o \in WaitObj : In(u, kern'.wait[o]) => In(u, kern.wait[o])
        /\ list = <<>> => kern' = kern
        /\ list # <<>> => /\ first \in Task /\ Has(kern, first, "PEND")
                          /\ ~Has(kern, first, "TIMEOUT")
                          /\ operating[first].queue = q
                          /\ operating[first].op.rw = Opposite(op.rw)
                          /\ kern'.status[first] \cap {"PEND", "TIMEOUT"} = {}
                          /\ \A u \in Task \ {first} : kern'.status[u] = kern.status[u]
        /\ \A u \in Task : Caller(ctx) \/ u # kern.run =>
             (pc'[u] \in {"block", "wait"} <=> pc[u] \in {"block", "wait"})
  BY DEF HandsOver
<1> HIDE DEF opposite
<1>5. PICK t : t = Head(kern.wait[opposite])
  OBVIOUS
<1>6. /\ TaskInv' /\ WaitInv' /\ (Preempts => Preempts')
      /\ t \in Task /\ In(t, kern.wait[opposite])
      /\ Has(kern, t, "PEND") /\ ~Has(kern, t, "TIMEOUT")
      /\ kern'.status[t] \cap {"PEND", "TIMEOUT"} = {}
      /\ kern'.wait[opposite] = Tail(kern.wait[opposite])
      /\ \A o \in WaitObj \ {opposite} : kern'.wait[o] = kern.wait[o]
      /\ \A u \in Task : \A o \in WaitObj : In(u, kern'.wait[o]) => In(u, kern.wait[o])
      /\ \A u \in Task \ {t} : kern'.status[u] = kern.status[u]
      /\ \A u \in Task : Caller(ctx) \/ u # kern.run =>
           (pc'[u] \in {"block", "wait"} <=> pc[u] \in {"block", "wait"})
  BY <1>1, <1>3, <1>5, FirstWakes
<1>7. operating[t].queue = q /\ operating[t].op.rw = Opposite(op.rw)
  <2>1. opposite = List(operating[t].queue, operating[t].op.rw)
    BY <1>1, <1>6 DEF QueueInv, Listing
  <2> QED BY <2>1, <1>2
<1> QED BY <1>1, <1>4, <1>5, <1>6, <1>7

\* Who is served after it, and in which operations the tasks are.
LEMMA ServedAfter ==
  ASSUME QueueInv, NEW ctx, NEW q \in Queue, NEW op \in Operation, NEW cb, NEW gone,
         Goes(ctx, q, op, cb, gone), Taken(q, op, cb, gone), HandsOver(ctx, q, op)
  PROVE  /\ Hands(q, op, gone) /\ OpsStay(q)
         /\ \A u \in Task \ gone : operating'[u] = operating[u]
         /\ \A u \in gone : u \in Task /\ operating'[u] = NoOperation
         /\ \A z \in Queue \ {q} : \A t \in Task :
              \/ operating'[t] = operating[t] /\ kern'.status[t] = kern.status[t]
              \/ operating[t].queue # z /\ operating'[t].queue # z
<1> DEFINE opposite == Opposite(op.rw)
           list == kern.wait[List(q, opposite)]
           first == Head(list)
<1>1. /\ opposite \in RW /\ op.rw \in RW /\ opposite # op.rw
      /\ List(q, op.rw) \in WaitObj \ {List(q, opposite)}
  BY Opposites, QueueLists
<1>2. /\ NoOperation.queue = "none" /\ NoOperation.queue # q
      /\ \A z \in Queue : NoOperation.queue # z
  BY NoQueueAssumption DEF NoOperation
<1>3. operating \in [Task -> [queue : Queue \cup {"none"}, op : Operation]]
  BY DEF QueueInv, OperatingOK
<1>4. /\ \A u \in Task \ gone : operating'[u] = operating[u]
      /\ \A u \in gone : u \in Task /\ operating'[u] = NoOperation
  BY <1>3 DEF Goes
<1>5. \A u \in gone : /\ u \in Served(q, op.rw) /\ operating[u].queue = q
                      /\ kern.status[u] \cap {"PEND", "TIMEOUT"} = {}
  BY DEF Taken, Served
<1>6. /\ kern'.wait[List(q, opposite)] = IF list = <<>> THEN <<>> ELSE Tail(list)
      /\ kern'.wait[List(q, op.rw)] = kern.wait[List(q, op.rw)]
  BY <1>1 DEF HandsOver
<1>7. CASE list = <<>>
  <2>1. kern' = kern
    BY <1>7 DEF HandsOver
  <2>2. \A u \in Task \ gone : \A rw : u \in Served(q, rw)' <=> u \in Served(q, rw)
    BY <2>1, <1>4 DEF Served
  <2>3. \A u \in gone : \A rw : u \notin Served(q, rw)'
    BY <1>2, <1>4 DEF Served
  <2>4. \A rw : Served(q, rw)' = Served(q, rw) \ gone
    BY <2>2, <2>3 DEF Served
  <2>5. Hands(q, op, gone)
    BY <2>4, <1>6, <1>7 DEF Hands
  <2>6. OpsStay(q)
    BY <2>1, <1>2, <1>4 DEF OpsStay
  <2>7. \A z \in Queue \ {q} : \A t \in Task :
          \/ operating'[t] = operating[t] /\ kern'.status[t] = kern.status[t]
          \/ operating[t].queue # z /\ operating'[t].queue # z
    BY <2>1, <1>2, <1>4, <1>5
  <2> QED BY <2>5, <2>6, <2>7, <1>4
<1>8. CASE list # <<>>
  <2>1. /\ first \in Task /\ Has(kern, first, "PEND") /\ ~Has(kern, first, "TIMEOUT")
        /\ operating[first].queue = q /\ operating[first].op.rw = opposite
        /\ kern'.status[first] \cap {"PEND", "TIMEOUT"} = {}
        /\ \A u \in Task \ {first} : kern'.status[u] = kern.status[u]
    BY <1>8 DEF HandsOver
  <2>2. PICK t : t = first
    OBVIOUS
  <2> HIDE DEF first
  <2>3. t \in Task \ gone /\ t \notin Served(q, op.rw) /\ t \notin Served(q, opposite)
    BY <2>1, <2>2, <1>5 DEF Served, Has
  <2>4. \A u \in Task \ (gone \cup {t}) : \A rw : u \in Served(q, rw)' <=> u \in Served(q, rw)
    BY <2>1, <2>2, <1>4 DEF Served
  <2>5. \A u \in gone : \A rw : u \notin Served(q, rw)'
    BY <1>2, <1>4 DEF Served
  <2>6. t \in Served(q, opposite)' /\ t \notin Served(q, op.rw)'
    BY <2>1, <2>2, <2>3, <1>1, <1>4 DEF Served
  <2>7. Served(q, op.rw)' = Served(q, op.rw) \ gone
    BY <2>3, <2>4, <2>5, <2>6 DEF Served
  <2>8. Served(q, opposite)' = (Served(q, opposite) \ gone) \cup {t}
    <3>1. \A u : u \in Served(q, opposite)' => u \in (Served(q, opposite) \ gone) \cup {t}
      BY <2>4, <2>5 DEF Served
    <3>2. \A u : u \in (Served(q, opposite) \ gone) \cup {t} => u \in Served(q, opposite)'
      BY <2>3, <2>4, <2>6 DEF Served
    <3> QED BY <3>1, <3>2
  <2>9. Hands(q, op, gone)
    <3>1. /\ kern'.wait[List(q, opposite)] = Tail(list)
          /\ Head(list) = t
      BY <2>2, <1>6, <1>8 DEF first
    <3> QED BY <3>1, <2>7, <2>8, <1>6, <1>8, SMTT(30) DEF Hands
  <2>10. OpsStay(q)
    <3>1. ASSUME NEW u \in Task, operating'[u].queue = q, ~Has(kern', u, "TIMEOUT")
          PROVE  /\ operating[u].queue = q /\ ~Has(kern, u, "TIMEOUT")
                 /\ operating'[u].op = operating[u].op
      <4>1. u \notin gone /\ operating'[u] = operating[u]
        BY <3>1, <1>2, <1>4
      <4>2. CASE u = t
        BY <3>1, <4>1, <4>2, <2>1, <2>2
      <4>3. CASE u # t
        BY <3>1, <4>1, <4>3, <2>1, <2>2 DEF Has
      <4> QED BY <4>2, <4>3
    <3> QED BY <3>1 DEF OpsStay
  <2>11. ASSUME NEW z \in Queue \ {q}, NEW u \in Task
         PROVE  \/ operating'[u] = operating[u] /\ kern'.status[u] = kern.status[u]
                \/ operating[u].queue # z /\ operating'[u].queue # z
    <3>1. CASE u = t
      BY <3>1, <2>1, <2>2, <2>3, <1>4
    <3>2. CASE u \in gone
      BY <3>2, <1>2, <1>4, <1>5
    <3>3. CASE u # t /\ u \notin gone
      BY <3>3, <2>1, <2>2, <1>4
    <3> QED BY <3>1, <3>2, <3>3
  <2> QED BY <2>9, <2>10, <2>11, <1>4
<1> QED BY <1>7, <1>8

\* The counts and the ring after it: the opposite count goes up, unless a waiter
\* is served.
LEMMA CountsAfter ==
  ASSUME QueueInv, NEW ctx, NEW q \in Queue, NEW op \in Operation, NEW cb, NEW gone,
         queue[q].used, Taken(q, op, cb, gone), Hands(q, op, gone), HandsOver(ctx, q, op),
         queue'[q] = IF kern.wait[List(q, Opposite(op.rw))] # <<>>
                     THEN OsQueueBufferOperate(cb, op)
                     ELSE [OsQueueBufferOperate(cb, op) EXCEPT !.cnt[Opposite(op.rw)] = @ + 1]
  PROVE  /\ queue'[q] \in ControlBlock /\ queue'[q].used /\ queue'[q].len = queue[q].len
         /\ Held(q)' = Count(Held(q), op) /\ Ring(queue'[q], Held(q)')
         /\ Messages(queue'[q], Held(q)') = Applied(Messages(queue[q], Held(q)), op)
         /\ queue'[q].cnt["READ"] + queue'[q].cnt["WRITE"]
              + Cardinality(Served(q, "READ")') + Cardinality(Served(q, "WRITE")') = queue'[q].len
         /\ \A rw \in RW : queue'[q].cnt[rw] > 0 => kern'.wait[List(q, rw)] = <<>>
<1> DEFINE opposite == Opposite(op.rw)
           list == kern.wait[List(q, opposite)]
<1>1. /\ opposite \in RW /\ op.rw \in RW /\ opposite # op.rw /\ RW = {op.rw, opposite}
      /\ op.rw = "READ" => opposite = "WRITE"
      /\ op.rw # "READ" => op.rw = "WRITE" /\ opposite = "READ"
  BY Opposites DEF Opposite, RW
<1>2. PICK n : n = Held(q)
  OBVIOUS
<1>3. PICK new : new = queue'[q]
  OBVIOUS
<1>4. PICK done : done = OsQueueBufferOperate(cb, op)
  OBVIOUS
<1>5. /\ Fits(cb, n, op) /\ Ring(cb, n) /\ Messages(cb, n) = Messages(queue[q], n)
      /\ cb \in ControlBlock /\ cb.len = queue[q].len /\ cb.used = queue[q].used
  BY <1>2, TakenFits DEF Taken
<1>6. /\ done \in ControlBlock /\ done.cnt = cb.cnt /\ done.len = queue[q].len /\ done.used
      /\ Ring(done, Count(n, op))
      /\ Messages(done, Count(n, op)) = Applied(Messages(queue[q], n), op)
  <2>1. /\ done \in ControlBlock /\ done.cnt = cb.cnt /\ done.len = cb.len
        /\ done.used = cb.used /\ Ring(done, Count(n, op))
        /\ Messages(done, Count(n, op)) = Applied(Messages(cb, n), op)
    BY ONLY <1>4, <1>5, op \in Operation, RingOperates
  <2>2. cb.used
    BY <1>5
  <2> QED BY <2>1, <2>2, <1>5
<1>7. /\ new \in ControlBlock /\ new.used /\ new.len = done.len /\ new.head = done.head
      /\ new.tail = done.tail /\ new.cell = done.cell
      /\ new.cnt[op.rw] = cb.cnt[op.rw]
      /\ new.cnt[opposite] = cb.cnt[opposite] + (IF list # <<>> THEN 0 ELSE 1)
  <2>1. done.cnt \in [RW -> Nat] /\ cb.cnt[opposite] \in Nat
    BY <1>1, <1>5, <1>6 DEF ControlBlock
  <2>2. CASE list # <<>>
    BY <2>1, <2>2, <1>3, <1>4, <1>6
  <2>3. CASE list = <<>>
    <3> DEFINE cnt == [done.cnt EXCEPT ![opposite] = done.cnt[opposite] + 1]
    <3>1. cnt \in [RW -> Nat] /\ cnt[op.rw] = cb.cnt[op.rw] /\ cnt[opposite] = cb.cnt[opposite] + 1
      BY <2>1, <1>1, <1>6
    <3>2. new = [done EXCEPT !.cnt = cnt]
      BY <2>3, <1>1, <1>3, <1>4, <1>6 DEF ControlBlock
    <3> HIDE DEF cnt, opposite
    <3> QED BY <2>3, <3>1, <3>2, <1>6 DEF ControlBlock
  <2> QED BY <2>2, <2>3
<1> HIDE DEF opposite, list
<1>8. /\ Served(q, op.rw)' = Served(q, op.rw) \ gone
      /\ Served(q, opposite)' = Served(q, opposite) \cup (IF list = <<>> THEN {} ELSE {Head(list)})
      /\ list # <<>> => Head(list) \notin Served(q, opposite)
  <2>1. Served(q, opposite) \ gone = Served(q, opposite)
    BY DEF Taken, opposite
  <2>2. list # <<>> => Has(kern, Head(list), "PEND")
    BY DEF HandsOver, list, opposite
  <2> QED BY <2>1, <2>2 DEF Hands, Served, Has, list, opposite
<1>9. PICK a, b, s, v, x, y, s1, v1 :
        /\ a = queue[q].cnt[op.rw] /\ b = queue[q].cnt[opposite]
        /\ s = Cardinality(Served(q, op.rw)) /\ v = Cardinality(Served(q, opposite))
        /\ x = new.cnt[op.rw] /\ y = new.cnt[opposite]
        /\ s1 = Cardinality(Served(q, op.rw)') /\ v1 = Cardinality(Served(q, opposite)')
  OBVIOUS
<1>10. /\ a \in Nat /\ b \in Nat /\ s \in Nat /\ v \in Nat /\ x \in Nat /\ y \in Nat
       /\ s1 \in Nat /\ v1 \in Nat
  <2>1. queue[q] \in ControlBlock
    BY DEF QueueInv
  <2>2. IsFiniteSet(Served(q, op.rw)) /\ IsFiniteSet(Served(q, opposite))
    BY ServedFinite
  <2>3. IsFiniteSet(Served(q, op.rw)') /\ IsFiniteSet(Served(q, opposite)')
    <3>1. IsFiniteSet(Served(q, op.rw) \ gone)
      BY <2>2, FS_Subset
    <3>2. IsFiniteSet(Served(q, opposite) \cup {Head(list)})
      BY <2>2, FS_AddElement
    <3> QED BY <2>2, <3>1, <3>2, <1>8
  <2> QED BY <2>1, <2>2, <2>3, <1>1, <1>7, <1>9, FS_CardinalityType DEF ControlBlock
<1>11. x + s1 + 1 = a + s /\ (x > 0 => a > 0)
  BY <1>7, <1>8, <1>9 DEF Taken
<1>12. y + v1 = b + v + 1 /\ (list # <<>> => y = b)
  <2>1. cb.cnt[opposite] = b
    BY <1>9 DEF Taken, opposite
  <2>2. CASE list = <<>>
    <3>1. y = b + 1 /\ v1 = v
      BY <2>1, <2>2, <1>7, <1>8, <1>9
    <3> QED BY <2>2, <3>1, <1>10
  <2>3. CASE list # <<>>
    <3>1. y = b + 0
      BY <2>1, <2>3, <1>7, <1>9
    <3>2. v1 = v + 1
      BY <2>3, <1>8, <1>9, ServedFinite, FS_AddElement
    <3> QED BY <2>3, <3>1, <3>2, <1>10
  <2> QED BY <2>2, <2>3
<1>13. a + b + s + v = queue[q].len /\ queue[q].len \in Nat
  <2>1. PICK r, w, c, d, m : /\ r = queue[q].cnt["READ"] /\ w = queue[q].cnt["WRITE"]
                             /\ c = Cardinality(Served(q, "READ"))
                             /\ d = Cardinality(Served(q, "WRITE")) /\ m = queue[q].len
    OBVIOUS
  <2>2. r + w + c + d = m /\ m \in Nat
    BY <2>1 DEF QueueInv, QueueOK, ControlBlock
  <2>3. (r = a /\ w = b /\ c = s /\ d = v) \/ (r = b /\ w = a /\ c = v /\ d = s)
    BY <2>1, <1>1, <1>9
  <2> QED BY <2>1, <2>2, <2>3, <1>10
<1>14. new.cnt["READ"] + new.cnt["WRITE"]
         + Cardinality(Served(q, "READ")') + Cardinality(Served(q, "WRITE")') = new.len
  <2>1. PICK m : m = new.len
    OBVIOUS
  <2>2. m = a + b + s + v
    BY <2>1, <1>6, <1>7, <1>13
  <2>3. x + y + s1 + v1 = m /\ y + x + v1 + s1 = m
    BY ONLY <2>2, <1>10, <1>11, <1>12
  <2>4. /\ op.rw = "READ" => new.cnt["READ"] = x /\ new.cnt["WRITE"] = y
        /\ op.rw # "READ" => new.cnt["READ"] = y /\ new.cnt["WRITE"] = x
    BY <1>1, <1>9
  <2>5. /\ op.rw = "READ" => /\ Cardinality(Served(q, "READ")') = s1
                             /\ Cardinality(Served(q, "WRITE")') = v1
        /\ op.rw # "READ" => /\ Cardinality(Served(q, "READ")') = v1
                             /\ Cardinality(Served(q, "WRITE")') = s1
    BY <1>1, <1>9
  <2> QED BY <2>1, <2>3, <2>4, <2>5
<1>15. Held(q)' = Count(n, op)
  <2>1. Held(q)' = new.cnt["READ"] + Cardinality(Served(q, "READ")')
    BY <1>3 DEF Held
  <2>2. CASE op.rw = "READ"
    <3>1. Held(q)' = x + s1 /\ n = a + s
      BY <2>1, <2>2, <1>2, <1>9 DEF Held
    <3>2. PICK h : h = Held(q)'
      OBVIOUS
    <3>3. h = n - 1
      BY ONLY <3>1, <3>2, <1>10, <1>11
    <3> QED BY <3>2, <3>3, <2>2 DEF Count
  <2>3. CASE op.rw # "READ"
    <3>1. Held(q)' = y + v1 /\ n = b + v
      BY <2>1, <2>3, <1>1, <1>2, <1>9 DEF Held
    <3> QED BY <3>1, <2>3, <1>12 DEF Count
  <2> QED BY <2>2, <2>3
<1>16. Ring(new, Count(n, op)) /\ Messages(new, Count(n, op)) = Applied(Messages(queue[q], n), op)
  BY <1>6, <1>7 DEF Ring, Messages, Slot
<1>17. \A rw \in RW : new.cnt[rw] > 0 => kern'.wait[List(q, rw)] = <<>>
  <2>1. \A rw \in RW : queue[q].cnt[rw] > 0 => kern.wait[List(q, rw)] = <<>>
    BY DEF QueueInv, QueueOK
  <2>2. new.cnt[op.rw] > 0 => kern'.wait[List(q, op.rw)] = <<>>
    BY <2>1, <1>1, <1>9, <1>11 DEF Hands
  <2>3. new.cnt[opposite] > 0 => kern'.wait[List(q, opposite)] = <<>>
    <3>1. CASE list = <<>>
      BY <3>1 DEF Hands, list, opposite
    <3>2. CASE list # <<>>
      BY <3>2, <2>1, <1>1, <1>9, <1>12 DEF list
    <3> QED BY <3>1, <3>2
  <2> QED BY <2>2, <2>3, <1>1
<1> QED BY <1>2, <1>3, <1>6, <1>7, <1>14, <1>15, <1>16, <1>17

\* OsQueueOperate that finds a message or a place, at once or after a wait.
LEMMA QueueOperateStep ==
  ASSUME TaskInv, WaitInv, QueueInv, NEW ctx \in Context, NEW q \in Queue, NEW op \in Operation,
         NEW cb, NEW gone, Goes(ctx, q, op, cb, gone), QueueComplete(ctx, q, cb, op),
         freeQueue' = freeQueue, child' = child, tick' = tick
  PROVE  QueueStepOK
<1> DEFINE opposite == List(q, Opposite(op.rw))
           done == OsQueueBufferOperate(cb, op)
<1>1. queue[q].used /\ Serves(ctx) /\ Taken(q, op, cb, gone)
  BY OperationTakes DEF Goes
<1>2. /\ queue \in [Queue -> ControlBlock] /\ freeQueue \in Seq(Queue) /\ Distinct(freeQueue)
      /\ \A z \in Queue : QueueOK(z)
  BY DEF QueueInv
<1>3. /\ HandsOver(ctx, q, op)
      /\ queue' = [queue EXCEPT ![q] = IF kern.wait[opposite] # <<>> THEN done
                                       ELSE [done EXCEPT !.cnt[Opposite(op.rw)] = @ + 1]]
  <2>1. CASE kern.wait[opposite] # <<>>
    BY <2>1, <1>1, FirstWoken DEF QueueComplete
  <2>2. CASE kern.wait[opposite] = <<>>
    BY <2>2, <1>1, NobodyWoken DEF QueueComplete
  <2> QED BY <2>1, <2>2
<1>4. /\ queue'[q] = IF kern.wait[opposite] # <<>> THEN done
                     ELSE [done EXCEPT !.cnt[Opposite(op.rw)] = @ + 1]
      /\ \A z \in Queue \ {q} : SameQueue(z)
  BY <1>2, <1>3 DEF SameQueue
<1>5. /\ Hands(q, op, gone) /\ OpsStay(q)
      /\ \A u \in Task \ gone : operating'[u] = operating[u]
      /\ \A u \in gone : u \in Task /\ operating'[u] = NoOperation
      /\ \A z \in Queue \ {q} : \A t \in Task :
           \/ operating'[t] = operating[t] /\ kern'.status[t] = kern.status[t]
           \/ operating[t].queue # z /\ operating'[t].queue # z
  BY <1>1, <1>3, ServedAfter
<1>6. /\ queue'[q] \in ControlBlock /\ queue'[q].used /\ queue'[q].len = queue[q].len
      /\ Held(q)' = Count(Held(q), op) /\ Ring(queue'[q], Held(q)')
      /\ Messages(queue'[q], Held(q)') = Applied(Messages(queue[q], Held(q)), op)
      /\ queue'[q].cnt["READ"] + queue'[q].cnt["WRITE"]
           + Cardinality(Served(q, "READ")') + Cardinality(Served(q, "WRITE")') = queue'[q].len
      /\ \A rw \in RW : queue'[q].cnt[rw] > 0 => kern'.wait[List(q, rw)] = <<>>
  BY <1>1, <1>3, <1>4, <1>5, CountsAfter
<1> HIDE DEF done
<1>7. queue' \in [Queue -> ControlBlock]
  <2>1. PICK new : new = queue'[q]
    OBVIOUS
  <2>2. queue' = [queue EXCEPT ![q] = new]
    BY <2>1, <1>2, <1>3, <1>4
  <2> QED BY <2>1, <2>2, <1>2, <1>6
<1>8. TaskInv' /\ WaitInv' /\ (Preempts => Preempts')
  BY <1>3 DEF HandsOver
<1>9. QueueOK(q)'
  BY <1>1, <1>2, <1>6 DEF QueueOK
<1>10. ASSUME NEW z \in Queue, z # q
       PROVE  UNCHANGED Abstract(z)!vars /\ QueueOK(z)'
  <2>1. SameLists(z)
    <3>1. \A rw \in RW : List(z, rw) \in WaitObj \ {opposite}
      BY <1>10, QueueLists
    <3> QED BY <3>1, <1>3 DEF HandsOver, SameLists
  <2> QED BY <2>1, <1>2, <1>4, <1>5, <1>10, OthersStand
<1>11. /\ NoOperation \in [queue : Queue \cup {"none"}, op : Operation]
       /\ NoOperation.queue = "none" /\ NoOperation.queue \notin Queue
  BY NoQueueAssumption DEF NoOperation, Operation
<1>12. operating' \in [Task -> [queue : Queue \cup {"none"}, op : Operation]]
  <2>1. operating \in [Task -> [queue : Queue \cup {"none"}, op : Operation]]
    BY DEF QueueInv, OperatingOK
  <2>2. operating' = operating \/ (kern.run \in Task /\ operating' = [operating EXCEPT ![kern.run] = NoOperation])
    BY DEF Goes
  <2> QED BY <2>1, <2>2, <1>11
<1>13. Listing(kern, operating)'
  <2>1. ASSUME NEW u \in Task, NEW o \in WaitObj, In(u, kern'.wait[o])
        PROVE  operating'[u].queue \in Queue /\ o = List(operating'[u].queue, operating'[u].op.rw)
    <3>1. In(u, kern.wait[o])
      BY <2>1, <1>3 DEF HandsOver
    <3>2. Has(kern, u, "PEND")
      BY <3>1, TCBs DEF WaitInv, ListsOK, TaskOK
    <3>3. u \notin gone
      BY <3>2, <1>1 DEF Taken, Served, Has
    <3> QED BY <3>1, <3>3, <1>5 DEF QueueInv, Listing
  <2> QED BY <2>1 DEF Listing
<1>14. OperatingOK(operating, pc)'
  <2>1. ASSUME NEW u \in Task
        PROVE  /\ operating'[u].queue = "none" => operating'[u] = NoOperation
               /\ operating'[u].queue # "none" => pc'[u] \in {"block", "wait"}
    <3>1. CASE u \in gone
      BY <3>1, <1>5, <1>11
    <3>2. CASE u \notin gone
      <4>1. operating'[u] = operating[u]
        BY <3>2, <1>5
      <4>2. operating[u].queue # "none" => pc[u] \in {"block", "wait"}
        BY DEF QueueInv, OperatingOK
      <4>3. Caller(ctx) \/ u # kern.run
        BY <3>2 DEF Goes
      <4>4. pc'[u] \in {"block", "wait"} <=> pc[u] \in {"block", "wait"}
        BY <4>3, <1>3 DEF HandsOver
      <4> QED BY <4>1, <4>2, <4>4 DEF QueueInv, OperatingOK
    <3> QED BY <3>1, <3>2
  <2> QED BY <2>1, <1>12 DEF OperatingOK
<1>15. QueueInv'
  BY <1>2, <1>7, <1>9, <1>10, <1>13, <1>14 DEF QueueInv
<1>16. Holds /\ Holds'
  BY <1>8, <1>15 DEF Holds
<1>17. Abstract(q)!Next
  <2>1. Content(q) = Messages(queue[q], Held(q))
    BY <1>1, AbstractMsgs
  <2>2. Content(q)' = Messages(queue'[q], Held(q)')
    BY <1>6, <1>15, AbstractMsgsAfter
  <2>3. Content(q)' = Applied(Content(q), op)
    BY <2>1, <2>2, <1>6
  <2>4. Fits(queue[q], Held(q), op)
    BY <1>1, TakenFits
  <2>5. \/ gone = {} /\ queue[q].cnt[op.rw] > 0
        \/ \E p \in Task : gone = {p} /\ p \in Served(q, op.rw) /\ operating[p].op = op
    <3>1. queue[q].cnt[op.rw] \in Nat
      BY <1>2, Opposites DEF ControlBlock
    <3> QED BY <3>1 DEF Goes
  <2> QED BY <2>3, <2>4, <2>5, <1>1, <1>5, <1>6, <1>16, OperationDone
<1>18. NoneDeletedInFlight
  BY <1>4, <1>6 DEF NoneDeletedInFlight, SameQueue
<1> QED BY <1>8, <1>10, <1>15, <1>17, <1>18 DEF QueueStepOK, QueuesImplemented

\* OsQueueOperate of a caller that finds a message or a place.
LEMMA QueueAtOnceStep ==
  ASSUME TaskInv, WaitInv, QueueInv, NEW ctx \in Context, NEW q \in Queue, NEW op \in Operation,
         OsQueueOperate(ctx, q, op)
  PROVE  QueueStepOK
<1>1. PICK cb : cb = [queue[q] EXCEPT !.cnt[op.rw] = @ - 1]
  OBVIOUS
<1>2. /\ Goes(ctx, q, op, cb, {}) /\ QueueComplete(ctx, q, cb, op)
      /\ freeQueue' = freeQueue /\ child' = child /\ tick' = tick
  BY <1>1 DEF OsQueueOperate, Goes, Serves
<1> QED BY <1>2, QueueOperateStep

\* And of a task that has waited for it.
LEMMA QueueReturnStep ==
  ASSUME TaskInv, WaitInv, QueueInv, QueueOperateReturn
  PROVE  QueueStepOK
<1>1. PICK r \in Task : r = kern.run
  BY DEF QueueOperateReturn
<1>2. PICK mine : mine = operating[r]
  OBVIOUS
<1>3. /\ Running("wait") /\ mine # NoOperation /\ ~Has(kern, r, "TIMEOUT")
      /\ QueueComplete("task", mine.queue, queue[mine.queue], mine.op)
      /\ operating' = [operating EXCEPT ![r] = NoOperation]
      /\ freeQueue' = freeQueue /\ child' = child /\ tick' = tick
  BY <1>1, <1>2 DEF QueueOperateReturn
<1>4. mine \in [queue : Queue \cup {"none"}, op : Operation] /\ mine.queue # "none"
  BY <1>2, <1>3 DEF QueueInv, OperatingOK
<1>5. PICK q \in Queue : q = mine.queue
  BY <1>4
<1>6. PICK op \in Operation : op = mine.op
  BY <1>4
<1>7. "task" \in Context
  BY DEF Context
<1>8. Serves("task")
  BY <1>1, <1>3 DEF Serves
<1>9. r \in Served(q, op.rw)
  <2>1. kern.status[r] \cap (Blocked \cup {"READY"}) = {}
    BY <1>1, <1>7, <1>8, ServesFacts DEF Able
  <2> QED BY <2>1, <1>2, <1>3, <1>5, <1>6 DEF Served, Blocked, Has
<1>10. queue[q].used
  <2>1. QueueOK(q)
    BY DEF QueueInv
  <2> QED BY <2>1, <1>6, <1>9, Opposites DEF QueueOK
<1>11. PICK cb : cb = queue[q]
  OBVIOUS
<1>12. Goes("task", q, op, cb, {r}) /\ QueueComplete("task", q, cb, op)
  BY <1>1, <1>2, <1>3, <1>5, <1>6, <1>8, <1>9, <1>10, <1>11 DEF Goes
<1> QED BY <1>3, <1>7, <1>12, QueueOperateStep

-----------------------------------------------------------------------------
(* The specification.                                                      *)

\* Every step keeps the invariants and is a step of the abstract queues.
LEMMA QueueNextStep ==
  ASSUME TaskInv, WaitInv, QueueInv, [QueueNext]_queueAll
  PROVE  QueueStepOK
<1>1. CASE UNCHANGED queueAll
  <2>1. /\ UNCHANGED <<kern, pc, child, pendSV, tick>>
        /\ UNCHANGED <<queue, freeQueue, operating>>
    BY <1>1 DEF queueAll
  <2>2. ASSUME NEW q \in Queue PROVE UNCHANGED Abstract(q)!vars /\ (QueueOK(q) => QueueOK(q)')
    <3>1. SameQueue(q) /\ SameLists(q) /\ freeQueue' = freeQueue
      BY <2>1 DEF SameQueue, SameLists
    <3>2. \A t \in Task : operating'[t] = operating[t] /\ kern'.status[t] = kern.status[t]
      BY <2>1
    <3> QED BY <3>1, <3>2, OthersStand
  <2>3. OperatingOK(operating, pc)' /\ Listing(kern, operating)'
    BY <2>1 DEF QueueInv, OperatingOK, Listing
  <2>4. QueueInv'
    BY <2>1, <2>2, <2>3 DEF QueueInv
  <2>5. NoneDeletedInFlight
    BY <2>1 DEF NoneDeletedInFlight
  <2> QED BY <2>1, <2>2, <2>4, <2>5, TasksStand DEF QueueStepOK, QueuesImplemented
<1>2. CASE QueueTaskStep
  BY <1>2, QueueTaskStepOK
<1>3. ASSUME NEW ctx \in Context, NEW len \in QueueLen, LOS_QueueCreate(ctx, len) PROVE QueueStepOK
  BY <1>3, QueueCreateStep
<1>4. ASSUME NEW ctx \in Context, NEW q \in Queue, LOS_QueueDelete(ctx, q) PROVE QueueStepOK
  BY <1>4, QueueDeleteStep
<1>5. ASSUME NEW q \in Queue, NEW op \in Operation, NEW ctx \in Context, OsQueueOperate(ctx, q, op)
      PROVE  QueueStepOK
  BY <1>5, QueueAtOnceStep
<1>6. ASSUME NEW q \in Queue, NEW op \in Operation, NEW timed \in BOOLEAN,
             QueueOperateWait(q, op, timed)
      PROVE  QueueStepOK
  BY <1>6, QueueWaitStep
<1>7. CASE QueueTimeout
  BY <1>7, QueueTimeoutStep
<1>8. CASE QueueOperateReturn
  BY <1>8, QueueReturnStep
<1> QED BY <1>1, <1>2, <1>3, <1>4, <1>5, <1>6, <1>7, <1>8 DEF QueueNext, QueueService

\* The invariants hold, and every step is what it should be.
LEMMA QueuesHold ==
  /\ QueueSpec => [](TaskInv /\ WaitInv /\ Preempts /\ QueueInv)
  /\ QueueSpec => [][QueueStepOK]_queueAll
<1>1. TaskInit /\ QueueInit => TaskInv /\ WaitInv /\ Preempts /\ QueueInv
  BY InitInv, InitWaits, QueueInitInv
<1>2. TaskInv /\ WaitInv /\ QueueInv /\ [QueueNext]_queueAll => QueueStepOK
  BY QueueNextStep
<1>3. QueueStepOK /\ Preempts => (TaskInv /\ WaitInv /\ Preempts /\ QueueInv)'
  BY DEF QueueStepOK
<1> QED BY <1>1, <1>2, <1>3, PTL DEF QueueSpec

\* The counts of a queue and the tasks that were woken for it and have not run
\* yet add up to its length: whoever finds a count that is not zero finds a
\* message or a place (los_queue.c:293 and 316-329).
THEOREM QueueCountsAlwaysAgree == QueueSpec => []CountsAgree
<1>1. QueueInv => CountsAgree
  BY DEF QueueInv, QueueOK, CountsAgree
<1> QED BY <1>1, QueuesHold, PTL

\* LOS_QueueDelete refuses while a task that was woken has not finished its
\* operation: the sum it tests is enough (los_queue.c:598-599).
THEOREM QueueNeverDeletedInFlight == QueueSpec => NotDeletedInFlight
<1>1. [QueueStepOK]_queueAll
        => [\A q \in Queue : queue[q].used /\ ~queue'[q].used =>
              \A t \in Task : operating[t].queue = q => Has(kern, t, "TIMEOUT")]_queueAll
  BY DEF QueueStepOK, NoneDeletedInFlight
<1> QED BY <1>1, QueuesHold, PTL DEF NotDeletedInFlight

\* A task is on a wait list exactly when its status says PEND, on one list and
\* once, whatever reads, writes, timeouts and suspensions come together
\* (OsQueueOperate).
THEOREM QueueWaitListsAgree == QueueSpec => []WaitListsAgree
<1>1. WaitInv => WaitListsAgree
  BY TCBs DEF WaitInv, ListsOK, TaskOK, WaitListsAgree
<1> QED BY <1>1, QueuesHold, PTL

\* The TIMEOUT flag a queue operation looks at after its wait is its own
\* (los_queue.c:310-313).
THEOREM QueueNoStaleTimeout == QueueSpec => []NoStaleTimeout
<1>1. WaitInv => NoStaleTimeout
  BY DEF WaitInv, Places, NoStaleTimeout
<1> QED BY <1>1, QueuesHold, PTL

\* Reads and writes reschedule when they wake a task of a higher priority, also
\* those that a task completes after a wait: with queues the task with the
\* highest priority runs (OsQueueOperate).
THEOREM QueueHighestRuns == QueueSpec => []HighestRuns
<1>1. Preempts => HighestRuns
  BY DEF Preempts, HighestReady, HighestRuns
<1> QED BY <1>1, QueuesHold, PTL

\* Every queue of the kernel behaves as the module MessageQueue promises:
\* messages leave in the order of the queue, a task waits only while all
\* messages or places are spoken for, and who waits first is served first
\* (los_queue.c as a whole).
THEOREM QueuesAreImplemented == QueueSpec => ImplementsMessageQueue
<1>1. TaskInit /\ QueueInit => \A q \in Queue : Abstract(q)!Init
  BY QueueInitInv
<1>2. [QueueStepOK]_queueAll
        => [\A q \in Queue : Abstract(q)!Next \/ UNCHANGED Abstract(q)!vars]_queueAll
  BY DEF QueueStepOK, QueuesImplemented
<1> QED BY <1>1, <1>2, QueuesHold, PTL DEF QueueSpec, ImplementsMessageQueue

(***************************************************************************)
(* MAIL BLOCKS                                                             *)
(***************************************************************************)

\* Where the tasks that allocate are, and what they were given: the block of a
\* task is in no pool and given to nobody else, and who was woken, and only
\* who was woken, has one.
MailInv ==
  /\ mailFree \in [Queue -> SUBSET Mail] /\ msg \in [Task -> Mail \cup {NoMail}]
  /\ allocating \in [Task -> Queue \cup {NoQueue}]
  /\ \A t \in Task :
       /\ allocating[t] # NoQueue => operating[t] = NoOperation /\ pc[t] \in {"block", "wait"}
       /\ \A o \in WaitObj : In(t, kern.wait[o]) =>
            \/ allocating[t] # NoQueue /\ o = List(allocating[t], "MEM")
            \/ allocating[t] = NoQueue /\ \A q \in Queue : o # List(q, "MEM")
       /\ msg[t] # NoMail <=> \E q \in Queue : t \in Given(q)
       /\ \A q \in Queue : t \in Given(q) =>
            /\ msg[t] \notin mailFree[q]
            /\ \A u \in Given(q) : msg[u] = msg[t] => u = t

\* The part of the queues that matters here: which are in use, and that a task
\* in an operation waits in it.
QueuesStand ==
  /\ DOMAIN queue = Queue /\ OperatingOK(operating, pc)
  /\ freeQueue \in Seq(Queue) /\ Distinct(freeQueue)
  /\ \A q \in Queue : /\ {"used", "len", "head", "tail", "cell", "cnt"} \subseteq DOMAIN queue[q]
                      /\ In(q, freeQueue) <=> ~queue[q].used

PoolsImplemented == \A q \in Queue : Pool(q)!Next \/ UNCHANGED Pool(q)!vars

\* What every step keeps and does.
MailStepOK ==
  /\ TaskInv' /\ WaitInv' /\ (Preempts => Preempts') /\ QueuesStand' /\ MailInv'
  /\ PoolsImplemented

-----------------------------------------------------------------------------
(* The steps of the abstract pool.                                         *)

MemList(q) == kern.wait[List(q, "MEM")]

SameUse(q)  == queue'[q].used <=> queue[q].used
SameFree(q) == mailFree'[q] = mailFree[q]
SameMem(q)  == kern'.wait[List(q, "MEM")] = MemList(q) /\ Given(q)' = Given(q)

\* A pool has blocks, and a part of them is free.
LEMMA PoolCounts ==
  ASSUME MailInv, NEW q \in Queue
  PROVE  /\ Cardinality(Mail) \in Nat /\ Cardinality(Mail) > 0
         /\ Cardinality(mailFree[q]) \in 0..Cardinality(Mail)
         /\ \A b \in mailFree[q] : /\ Cardinality(mailFree[q]) > 0
                                   /\ Cardinality(mailFree[q] \ {b}) = Cardinality(mailFree[q]) - 1
         /\ \A b \in Mail \ mailFree[q] :
              /\ Cardinality(mailFree[q]) < Cardinality(Mail)
              /\ Cardinality(mailFree[q] \cup {b}) = Cardinality(mailFree[q]) + 1
<1> DEFINE F == mailFree[q]
<1>1. IsFiniteSet(Mail) /\ Mail # {} /\ F \subseteq Mail
  BY MailAssumption DEF MailInv
<1>2. Cardinality(Mail) \in Nat /\ Cardinality(Mail) # 0
  BY <1>1, FS_CardinalityType, FS_EmptySet
<1>3. IsFiniteSet(F) /\ Cardinality(F) \in Nat /\ Cardinality(F) <= Cardinality(Mail)
  BY <1>1, FS_Subset, FS_CardinalityType
<1>4. ASSUME NEW b \in F
      PROVE  Cardinality(F) > 0 /\ Cardinality(F \ {b}) = Cardinality(F) - 1
  <2>1. Cardinality(F \ {b}) = Cardinality(F) - 1
    BY <1>3, <1>4, FS_RemoveElement
  <2>2. Cardinality(F) # 0
    BY <1>3, <1>4, FS_EmptySet
  <2> QED BY <1>3, <2>1, <2>2
<1>5. ASSUME NEW b \in Mail \ F
      PROVE  /\ Cardinality(F) < Cardinality(Mail)
             /\ Cardinality(F \cup {b}) = Cardinality(F) + 1
  <2>1. Cardinality(F \cup {b}) = Cardinality(F) + 1
    BY <1>3, <1>5, FS_AddElement
  <2>2. F \cup {b} \subseteq Mail
    BY <1>1, <1>5
  <2>3. Cardinality(F \cup {b}) <= Cardinality(Mail)
    BY <1>1, <2>2, FS_Subset
  <2> QED BY <1>2, <1>3, <2>1, <2>3
<1> QED BY <1>2, <1>3, <1>4, <1>5

\* Nothing changes for the pool of q.
LEMMA PoolStands ==
  ASSUME NEW q \in Queue, SameUse(q), SameFree(q), SameMem(q)
  PROVE  UNCHANGED Pool(q)!vars
BY DEF SameUse, SameFree, SameMem, MemList, Pool!vars

\* A block is taken from it, ...
LEMMA BlockTaken ==
  ASSUME MailInv, NEW q \in Queue, SameUse(q), SameMem(q), queue[q].used,
         NEW b \in mailFree[q], mailFree'[q] = mailFree[q] \ {b}
  PROVE  Pool(q)!Next
<1>1. Cardinality(mailFree'[q]) = Cardinality(mailFree[q]) - 1 /\ Cardinality(mailFree[q]) > 0
  BY PoolCounts
<1>2. Pool(q)!Take
  BY <1>1 DEF SameUse, SameMem, MemList, Pool!Take
<1> QED BY <1>2 DEF Pool!Next

\* comes back while nobody waits, ...
LEMMA BlockReturned ==
  ASSUME MailInv, NEW q \in Queue, SameUse(q), SameMem(q), queue[q].used, MemList(q) = <<>>,
         NEW b \in Mail \ mailFree[q], mailFree'[q] = mailFree[q] \cup {b}
  PROVE  Pool(q)!Next
<1>1. /\ Cardinality(mailFree'[q]) = Cardinality(mailFree[q]) + 1
      /\ Cardinality(mailFree[q]) < Cardinality(Mail) /\ Cardinality(Mail) # 0
  BY PoolCounts
<1>2. Pool(q)!Post
  BY <1>1 DEF SameUse, SameMem, MemList, Pool!Post
<1> QED BY <1>2 DEF Pool!Next

\* or is given to the first waiter.
LEMMA BlockGiven ==
  ASSUME MailInv, NEW q \in Queue, SameUse(q), SameFree(q), queue[q].used, MemList(q) # <<>>,
         kern'.wait[List(q, "MEM")] = Tail(MemList(q)),
         Given(q)' = Given(q) \cup {Head(MemList(q))}
  PROVE  Pool(q)!Next
<1>1. Cardinality(Mail) # 0
  BY PoolCounts
<1>2. Pool(q)!Post
  BY <1>1 DEF SameUse, SameFree, MemList, Pool!Post
<1> QED BY <1>2 DEF Pool!Next

\* A task comes to wait for one, ...
LEMMA AllocatorComes ==
  ASSUME MailInv, NEW q \in Queue, SameUse(q), SameFree(q), queue[q].used, mailFree[q] = {},
         NEW t \in Task, ~In(t, MemList(q)), t \notin Given(q),
         kern'.wait[List(q, "MEM")] = Append(MemList(q), t), Given(q)' = Given(q)
  PROVE  Pool(q)!Next
<1>1. Cardinality(Mail) # 0 /\ Cardinality(mailFree[q]) = 0
  BY PoolCounts, FS_EmptySet
<1>2. Pool(q)!Wait(t)
  BY <1>1 DEF SameUse, SameFree, MemList, In, Pool!Wait, Pool!Elements
<1> QED BY <1>2 DEF Pool!Next

\* gives up or is deleted, ...
LEMMA AllocatorLeaves ==
  ASSUME NEW q \in Queue, SameUse(q), SameFree(q), NEW t \in Task, In(t, MemList(q)),
         kern'.wait[List(q, "MEM")] = Without(MemList(q), t), Given(q)' = Given(q)
  PROVE  Pool(q)!Next
<1> DEFINE i == CHOOSE j \in DOMAIN MemList(q) : MemList(q)[j] = t
<1>1. i \in DOMAIN MemList(q) /\ MemList(q)[i] = t
  BY DEF In
<1>2. kern'.wait[List(q, "MEM")] = RemoveAt(MemList(q), i)
  BY DEF Without
<1> HIDE DEF i
<1>3. Pool(q)!Leave(t)
  BY <1>1, <1>2 DEF SameUse, SameFree, MemList, Pool!Leave, RemoveAt, Pool!WithoutAt
<1> QED BY <1>3 DEF Pool!Next

\* or returns with the block it was given.
LEMMA AllocatorReturns ==
  ASSUME NEW q \in Queue, SameUse(q), SameFree(q), NEW t \in Task, t \in Given(q),
         kern'.wait[List(q, "MEM")] = MemList(q), Given(q)' = Given(q) \ {t}
  PROVE  Pool(q)!Next
<1>1. Pool(q)!Return(t)
  BY DEF SameUse, SameFree, MemList, Pool!Return
<1> QED BY <1>1 DEF Pool!Next

\* The queue is created, with its pool as it is, ...
LEMMA PoolCreated ==
  ASSUME MailInv, NEW q \in Queue, ~queue[q].used, queue'[q].used, SameFree(q), SameMem(q)
  PROVE  Pool(q)!Next
<1>1. Cardinality(mailFree[q]) \in 0..Cardinality(Mail)
  BY PoolCounts
<1>2. Pool(q)!Create
  BY <1>1 DEF SameFree, SameMem, MemList, Pool!Create
<1> QED BY <1>2 DEF Pool!Next

\* and deleted.
LEMMA PoolDeleted ==
  ASSUME MailInv, NEW q \in Queue, queue[q].used, ~queue'[q].used, SameFree(q), SameMem(q),
         MemList(q) = <<>>
  PROVE  Pool(q)!Next
<1>1. Cardinality(Mail) # 0
  BY PoolCounts
<1>2. Pool(q)!Delete
  BY <1>1 DEF SameFree, SameMem, MemList, Pool!Delete
<1> QED BY <1>2 DEF Pool!Next

-----------------------------------------------------------------------------
(* What the services of queues do to mail blocks: nothing.                 *)

\* The tasks that allocate, and the lists they wait on, stay as they are.
Undisturbed ==
  /\ UNCHANGED mailVars
  /\ \A t \in Task : allocating[t] # NoQueue =>
       /\ operating'[t] = operating[t] /\ pc'[t] \in {"block", "wait"}
       /\ kern'.status[t] \cap {"PEND", "TIMEOUT"} = kern.status[t] \cap {"PEND", "TIMEOUT"}
       /\ \A o \in WaitObj : In(t, kern'.wait[o]) => In(t, kern.wait[o])
  /\ \A q \in Queue : kern'.wait[List(q, "MEM")] = MemList(q)

\* No queue's memList is another list.
LEMMA MemLists ==
  ASSUME NEW q \in Queue
  PROVE  /\ List(q, "MEM") \in WaitObj
         /\ \A z \in Queue : \A kind : List(z, kind) = List(q, "MEM") => z = q /\ kind = "MEM"
BY QueueAssumption DEF List

LEMMA UndisturbedKeeps ==
  ASSUME MailInv, Undisturbed
  PROVE  MailInv' /\ \A q \in Queue : SameFree(q) /\ SameMem(q)
<1>1. mailFree' = mailFree /\ msg' = msg /\ allocating' = allocating
  BY DEF Undisturbed, mailVars
<1>2. \A q \in Queue : q # NoQueue
  BY NoQueueAssumption DEF NoQueue
<1>3. ASSUME NEW q \in Queue PROVE Given(q)' = Given(q)
  <2>1. \A t \in Task : allocating[t] = q =>
          (kern'.status[t] \cap {"PEND", "TIMEOUT"} = {}
            <=> kern.status[t] \cap {"PEND", "TIMEOUT"} = {})
    BY <1>2 DEF Undisturbed
  <2> QED BY <1>1, <2>1 DEF Given
<1>4. ASSUME NEW t \in Task
      PROVE  /\ allocating[t] # NoQueue => operating'[t] = NoOperation /\ pc'[t] \in {"block", "wait"}
             /\ \A o \in WaitObj : In(t, kern'.wait[o]) =>
                  \/ allocating[t] # NoQueue /\ o = List(allocating[t], "MEM")
                  \/ allocating[t] = NoQueue /\ \A q \in Queue : o # List(q, "MEM")
  <2>1. CASE allocating[t] # NoQueue
    BY <2>1 DEF Undisturbed, MailInv
  <2>2. CASE allocating[t] = NoQueue
    <3>1. \A q \in Queue : ~In(t, MemList(q))
      BY <2>2, MemLists DEF MailInv, MemList
    <3> QED BY <2>2, <3>1 DEF Undisturbed
  <2> QED BY <2>1, <2>2
<1>5. MailInv'
  BY <1>1, <1>3, <1>4 DEF MailInv
<1> QED BY <1>1, <1>3, <1>5 DEF SameFree, SameMem, Undisturbed

\* A step that changes no queue and leaves the operations where they are.
LEMMA QueuesKept ==
  ASSUME QueuesStand, UNCHANGED <<queue, freeQueue, operating>>,
         \A t \in Task : pc[t] \in {"block", "wait"} => pc'[t] \in {"block", "wait"}
  PROVE  QueuesStand'
BY DEF QueuesStand, OperatingOK

\* What a service of queues does to them, and to mail blocks.
QueueServed ==
  /\ TaskInv' /\ WaitInv' /\ (Preempts => Preempts') /\ QueuesStand' /\ Undisturbed
  /\ \A q \in Queue : queue[q].used /\ ~queue'[q].used => MemList(q) = <<>>

\* When it leaves the tasks alone.
LEMMA TasksUndisturbed ==
  ASSUME MailInv, UNCHANGED mailVars, UNCHANGED <<kern, pc, operating>>
  PROVE  Undisturbed
BY DEF MailInv, Undisturbed, MemList

LEMMA MailQueueCreate ==
  ASSUME TaskInv, WaitInv, QueuesStand, MailInv, NEW ctx \in Context, NEW len \in QueueLen, LOS_QueueCreate(ctx, len),
         UNCHANGED mailVars
  PROVE  QueueServed
<1>1. /\ freeQueue # <<>> /\ freeQueue' = Tail(freeQueue)
      /\ UNCHANGED <<operating, kern, pc, child, pendSV, tick>>
  BY DEF LOS_QueueCreate
<1>2. PICK q \in Queue : q = Head(freeQueue)
  BY <1>1, TailProperties DEF QueuesStand
<1> DEFINE new == [used |-> TRUE, len |-> len, head |-> 0, tail |-> 0,
                   cell |-> [i \in 1..len |-> NoMsg],
                   cnt  |-> [rw \in {"READ", "WRITE"} |-> IF rw = "READ" THEN 0 ELSE len]]
<1>3. queue' = [queue EXCEPT ![q] = new]
  BY <1>2 DEF LOS_QueueCreate
<1>4. new.used /\ {"used", "len", "head", "tail", "cell", "cnt"} \subseteq DOMAIN new
  OBVIOUS
<1> HIDE DEF new
<1>5. /\ DOMAIN queue' = Queue /\ queue'[q] = new /\ \A z \in Queue \ {q} : queue'[z] = queue[z]
  BY <1>3 DEF QueuesStand
<1>6. /\ freeQueue' \in Seq(Queue) /\ Distinct(freeQueue') /\ ~In(q, freeQueue')
      /\ \A z \in Queue \ {q} : In(z, freeQueue') <=> In(z, freeQueue)
  BY <1>1, <1>2, TailProperties DEF QueuesStand
<1>7. OperatingOK(operating, pc)'
  BY <1>1 DEF QueuesStand, OperatingOK
<1>8. QueuesStand'
  BY <1>4, <1>5, <1>6, <1>7 DEF QueuesStand
<1>9. \A z \in Queue : queue[z].used /\ ~queue'[z].used => MemList(z) = <<>>
  BY <1>4, <1>5
<1> QED BY <1>1, <1>8, <1>9, TasksStand, TasksUndisturbed DEF QueueServed

LEMMA MailQueueDelete ==
  ASSUME TaskInv, WaitInv, QueuesStand, MailInv, NEW ctx \in Context, NEW q \in Queue, LOS_QueueDelete(ctx, q),
         UNCHANGED mailVars
  PROVE  QueueServed
<1>1. /\ queue[q].used /\ MemList(q) = <<>> /\ freeQueue' = <<q>> \o freeQueue
      /\ queue' = [queue EXCEPT ![q].used = FALSE, ![q].cell = <<>>]
      /\ UNCHANGED <<operating, kern, pc, child, pendSV, tick>>
  BY DEF LOS_QueueDelete, NobodyWaits, MemList
<1>2. /\ freeQueue' \in Seq(Queue) /\ Distinct(freeQueue')
      /\ \A z : In(z, freeQueue') <=> In(z, freeQueue) \/ z = q
  BY <1>1, EndsProperties DEF QueuesStand
<1>3. PICK new : new = [queue[q] EXCEPT !.used = FALSE, !.cell = <<>>]
  OBVIOUS
<1>4. ~new.used /\ {"used", "len", "head", "tail", "cell", "cnt"} \subseteq DOMAIN new
  BY <1>3 DEF QueuesStand
<1>5. queue' = [queue EXCEPT ![q] = new]
  BY <1>1, <1>3 DEF QueuesStand
<1>6. /\ DOMAIN queue' = Queue /\ queue'[q] = new /\ \A z \in Queue \ {q} : queue'[z] = queue[z]
  BY <1>5 DEF QueuesStand
<1>7. OperatingOK(operating, pc)'
  BY <1>1 DEF QueuesStand, OperatingOK
<1>8. QueuesStand'
  BY <1>2, <1>4, <1>6, <1>7 DEF QueuesStand
<1>9. \A z \in Queue : queue[z].used /\ ~queue'[z].used => MemList(z) = <<>>
  BY <1>1, <1>6
<1> QED BY <1>1, <1>8, <1>9, TasksStand, TasksUndisturbed DEF QueueServed

\* The second half of OsQueueOperate, for a caller and for a task that waited;
\* gone is the task whose operation ends.
LEMMA MailQueueComplete ==
  ASSUME TaskInv, WaitInv, QueuesStand, MailInv, NEW ctx \in Context, Serves(ctx),
         NEW q \in Queue, NEW op \in Operation, NEW cb,
         cb = queue[q] \/ cb = [queue[q] EXCEPT !.cnt[op.rw] = @ - 1],
         QueueComplete(ctx, q, cb, op),
         \/ Caller(ctx) /\ operating' = operating
         \/ /\ kern.run \in Task /\ operating[kern.run] # NoOperation
            /\ operating' = [operating EXCEPT ![kern.run] = NoOperation],
         freeQueue' = freeQueue, child' = child, tick' = tick, UNCHANGED mailVars
  PROVE  QueueServed
<1> DEFINE opposite == List(q, Opposite(op.rw))
           done == OsQueueBufferOperate(cb, op)
           Fields == {"used", "len", "head", "tail", "cell", "cnt"}
<1>1. opposite \in WaitObj /\ \A z \in Queue : List(z, "MEM") \in WaitObj \ {opposite}
  BY Opposites, QueueLists, MemLists DEF RW
<1>2. /\ \A u \in Task : \A o \in WaitObj : In(u, kern'.wait[o]) => In(u, kern.wait[o])
      /\ \A o \in WaitObj \ {opposite} : kern'.wait[o] = kern.wait[o]
      /\ \A u \in Task : allocating[u] # NoQueue => kern'.status[u] = kern.status[u]
      /\ TaskInv' /\ WaitInv' /\ (Preempts => Preempts')
      /\ \A u \in Task : Caller(ctx) \/ u # kern.run =>
           (pc'[u] \in {"block", "wait"} <=> pc[u] \in {"block", "wait"})
  <2>1. CASE kern.wait[opposite] = <<>>
    <3>1. Finish(ctx, kern, FALSE)
      BY <2>1 DEF QueueComplete
    <3> QED BY <3>1, QuietFinish
  <2>2. CASE kern.wait[opposite] # <<>>
    <3>1. Finish(ctx, OsSchedTaskWake(kern, Head(kern.wait[opposite])), TRUE)
      BY <2>2 DEF QueueComplete
    <3> HIDE DEF opposite
    <3>2. PICK t \in Task :
            /\ In(t, kern.wait[opposite])
            /\ \A u \in Task : \A o \in WaitObj : In(u, kern'.wait[o]) => In(u, kern.wait[o])
            /\ \A o \in WaitObj \ {opposite} : kern'.wait[o] = kern.wait[o]
            /\ \A u \in Task \ {t} : kern'.status[u] = kern.status[u]
            /\ TaskInv' /\ WaitInv' /\ (Preempts => Preempts')
            /\ \A u \in Task : Caller(ctx) \/ u # kern.run =>
                 (pc'[u] \in {"block", "wait"} <=> pc[u] \in {"block", "wait"})
      <4>1. PICK t : t = Head(kern.wait[opposite])
        OBVIOUS
      <4>2. /\ TaskInv' /\ WaitInv' /\ (Preempts => Preempts')
            /\ t \in Task /\ In(t, kern.wait[opposite])
            /\ \A o \in WaitObj \ {opposite} : kern'.wait[o] = kern.wait[o]
            /\ \A u \in Task : \A o \in WaitObj : In(u, kern'.wait[o]) => In(u, kern.wait[o])
            /\ \A u \in Task \ {t} : kern'.status[u] = kern.status[u]
            /\ \A u \in Task : Caller(ctx) \/ u # kern.run =>
                 (pc'[u] \in {"block", "wait"} <=> pc[u] \in {"block", "wait"})
        BY <4>1, <1>1, <2>2, <3>1, FirstWakes
      <4> QED BY <4>2
    <3>3. allocating[t] = NoQueue
      <4>1. allocating[t] # NoQueue => allocating[t] \in Queue
        BY DEF MailInv
      <4> QED BY <1>1, <3>2, <4>1 DEF MailInv
    <3> QED BY <3>2, <3>3
  <2> QED BY <2>1, <2>2
<1>3. \A u \in Task : allocating[u] # NoQueue =>
        /\ operating[u] = NoOperation /\ pc[u] \in {"block", "wait"}
        /\ (Caller(ctx) /\ operating' = operating) \/ u # kern.run
  BY DEF MailInv
<1>4. Undisturbed
  <2>1. \A u \in Task : allocating[u] # NoQueue => /\ operating'[u] = operating[u]
                                                   /\ pc'[u] \in {"block", "wait"}
    <3>1. DOMAIN operating = Task
      BY DEF QueuesStand, OperatingOK
    <3> QED BY <1>2, <1>3, <3>1
  <2>2. \A z \in Queue : kern'.wait[List(z, "MEM")] = MemList(z)
    BY <1>1, <1>2 DEF MemList
  <2> QED BY <1>2, <2>1, <2>2 DEF Undisturbed
<1>5. cb.used = queue[q].used /\ Fields \subseteq DOMAIN cb
  BY DEF QueuesStand
<1>6. done.used = queue[q].used /\ Fields \subseteq DOMAIN done
  BY <1>5 DEF OsQueueBufferOperate
<1> HIDE DEF done
<1>7. PICK new : /\ new.used = queue[q].used /\ Fields \subseteq DOMAIN new
                 /\ queue' = [queue EXCEPT ![q] = new]
  <2>1. CASE kern.wait[opposite] # <<>>
    BY <1>6, <2>1 DEF QueueComplete, done
  <2>2. CASE kern.wait[opposite] = <<>>
    <3>1. PICK new : new = [done EXCEPT !.cnt[Opposite(op.rw)] = @ + 1]
      OBVIOUS
    <3>2. new.used = queue[q].used /\ Fields \subseteq DOMAIN new
      BY <1>6, <3>1
    <3>3. queue' = [queue EXCEPT ![q] = new]
      BY <2>2, <3>1 DEF QueueComplete, done
    <3> QED BY <3>2, <3>3
  <2> QED BY <2>1, <2>2
<1>8. DOMAIN queue' = Queue /\ queue'[q] = new /\ \A z \in Queue \ {q} : queue'[z] = queue[z]
  BY <1>7 DEF QueuesStand
<1>9. OperatingOK(operating, pc)'
  <2>1. /\ NoOperation \in [queue : Queue \cup {"none"}, op : Operation]
        /\ NoOperation.queue = "none"
    BY DEF NoOperation, Operation
  <2>2. operating \in [Task -> [queue : Queue \cup {"none"}, op : Operation]]
    BY DEF QueuesStand, OperatingOK
  <2>3. CASE Caller(ctx) /\ operating' = operating
    BY <1>2, <2>3 DEF QueuesStand, OperatingOK
  <2>4. CASE kern.run \in Task /\ operating' = [operating EXCEPT ![kern.run] = NoOperation]
    <3>1. operating' \in [Task -> [queue : Queue \cup {"none"}, op : Operation]]
      BY <2>1, <2>2, <2>4
    <3>2. \A u \in Task : operating'[u] = IF u = kern.run THEN NoOperation ELSE operating[u]
      BY <2>2, <2>4
    <3> QED BY <1>2, <2>1, <3>1, <3>2 DEF QueuesStand, OperatingOK
  <2> QED BY <2>3, <2>4
<1>10. QueuesStand'
  BY <1>7, <1>8, <1>9 DEF QueuesStand
<1>11. \A z \in Queue : queue[z].used /\ ~queue'[z].used => MemList(z) = <<>>
  BY <1>7, <1>8
<1> QED BY <1>2, <1>4, <1>10, <1>11 DEF QueueServed

LEMMA MailQueueAtOnce ==
  ASSUME TaskInv, WaitInv, QueuesStand, MailInv, NEW ctx \in Context, NEW q \in Queue,
         NEW op \in Operation, OsQueueOperate(ctx, q, op), UNCHANGED mailVars
  PROVE  QueueServed
<1>1. PICK cb : cb = [queue[q] EXCEPT !.cnt[op.rw] = @ - 1]
  OBVIOUS
<1>2. /\ Caller(ctx) /\ QueueComplete(ctx, q, cb, op) /\ operating' = operating
      /\ freeQueue' = freeQueue /\ child' = child /\ tick' = tick
  BY <1>1 DEF OsQueueOperate
<1> QED BY <1>1, <1>2, MailQueueComplete DEF Serves

LEMMA MailQueueReturn ==
  ASSUME TaskInv, WaitInv, QueuesStand, MailInv, QueueOperateReturn, UNCHANGED mailVars
  PROVE  QueueServed
<1>1. PICK r \in Task : r = kern.run
  BY DEF QueueOperateReturn
<1>2. PICK mine : mine = operating[r]
  OBVIOUS
<1>3. /\ Running("wait") /\ mine # NoOperation /\ ~Has(kern, r, "TIMEOUT")
      /\ QueueComplete("task", mine.queue, queue[mine.queue], mine.op)
      /\ operating' = [operating EXCEPT ![r] = NoOperation]
      /\ freeQueue' = freeQueue /\ child' = child /\ tick' = tick
  BY <1>1, <1>2 DEF QueueOperateReturn
<1>4. mine.queue \in Queue /\ mine.op \in Operation
  BY <1>2, <1>3 DEF QueuesStand, OperatingOK
<1>5. PICK q \in Queue, op \in Operation : q = mine.queue /\ op = mine.op
  BY <1>4
<1>6. "task" \in Context /\ Serves("task")
  BY <1>1, <1>3 DEF Serves, Context
<1>7. QueueComplete("task", q, queue[q], op)
  BY <1>1, <1>2, <1>3, <1>5
<1> QED BY <1>1, <1>2, <1>3, <1>6, <1>7, MailQueueComplete

LEMMA MailQueueWait ==
  ASSUME TaskInv, WaitInv, QueuesStand, MailInv, NEW q \in Queue, NEW op \in Operation,
         NEW timed \in BOOLEAN, QueueOperateWait(q, op, timed), UNCHANGED mailVars
  PROVE  QueueServed
<1> DEFINE mine == List(q, op.rw)
           new  == [queue |-> q, op |-> op]
<1>1. mine \in WaitObj /\ \A z \in Queue : List(z, "MEM") \in WaitObj \ {mine}
  BY Opposites, QueueLists, MemLists DEF RW
<1>2. /\ Caller("task") /\ kern.lock = 0 /\ queue' = queue /\ freeQueue' = freeQueue
      /\ kern' = OsSchedTaskWait(kern, mine, timed) /\ pc' = [pc EXCEPT ![kern.run] = "block"]
      /\ operating' = [operating EXCEPT ![kern.run] = new]
      /\ child' = child /\ pendSV' = pendSV /\ tick' = tick
  BY DEF QueueOperateWait
<1> HIDE DEF mine
<1>3. PICK r \in Task : r = kern.run
  BY <1>2, CallerFacts DEF Context
<1>4. /\ TaskInv' /\ WaitInv' /\ Preempts' /\ pc[r] = "run" /\ pc'[r] = "block"
      /\ \A o \in WaitObj \ {mine} : kern'.wait[o] = kern.wait[o]
      /\ \A u \in Task : \A o \in WaitObj : In(u, kern'.wait[o]) =>
           In(u, kern.wait[o]) \/ (u = r /\ o = mine)
      /\ \A u \in Task \ {r} : kern'.status[u] = kern.status[u] /\ pc'[u] = pc[u]
  BY <1>1, <1>2, <1>3, CallerWaits
<1>5. new \in [queue : Queue \cup {"none"}, op : Operation] /\ new.queue \in Queue
  OBVIOUS
<1>6. operating \in [Task -> [queue : Queue \cup {"none"}, op : Operation]]
  BY DEF QueuesStand, OperatingOK
<1> HIDE DEF new
<1>7. /\ operating' \in [Task -> [queue : Queue \cup {"none"}, op : Operation]]
      /\ \A u \in Task : operating'[u] = IF u = r THEN new ELSE operating[u]
  BY <1>2, <1>3, <1>5, <1>6
<1>8. OperatingOK(operating, pc)'
  BY <1>4, <1>5, <1>7, NoQueueAssumption DEF QueuesStand, OperatingOK
<1>9. QueuesStand'
  BY <1>2, <1>8 DEF QueuesStand
<1>10. \A u \in Task : allocating[u] # NoQueue => u # r /\ pc[u] \in {"block", "wait"}
  BY <1>4 DEF MailInv
<1>11. Undisturbed
  <2>1. \A z \in Queue : kern'.wait[List(z, "MEM")] = MemList(z)
    BY <1>1, <1>4 DEF MemList
  <2> QED BY <1>4, <1>7, <1>10, <2>1 DEF Undisturbed
<1> QED BY <1>2, <1>4, <1>9, <1>11 DEF QueueServed

LEMMA MailQueueTimeout ==
  ASSUME TaskInv, WaitInv, QueuesStand, MailInv, QueueTimeout, UNCHANGED mailVars
  PROVE  QueueServed
<1>1. /\ Running("wait") /\ operating[kern.run] # NoOperation /\ Has(kern, kern.run, "TIMEOUT")
      /\ Finish("task", ClearFlag(kern, kern.run, {"TIMEOUT"}), FALSE)
      /\ operating' = [operating EXCEPT ![kern.run] = NoOperation]
      /\ UNCHANGED <<queue, freeQueue, child, tick>>
  BY DEF QueueTimeout
<1>2. PICK r \in Task : r = kern.run
  BY DEF QueueTimeout
<1>3. /\ TaskInv' /\ WaitInv' /\ (Preempts => Preempts') /\ kern'.wait = kern.wait /\ pc'[r] = "run"
      /\ \A u \in Task \ {r} : kern'.status[u] = kern.status[u] /\ pc'[u] = pc[u]
  BY <1>1, <1>2, TimedOutReturns
<1>4. /\ NoOperation \in [queue : Queue \cup {"none"}, op : Operation]
      /\ NoOperation.queue = "none"
  BY DEF NoOperation, Operation
<1>5. operating \in [Task -> [queue : Queue \cup {"none"}, op : Operation]]
  BY DEF QueuesStand, OperatingOK
<1>6. /\ operating' \in [Task -> [queue : Queue \cup {"none"}, op : Operation]]
      /\ \A u \in Task : operating'[u] = IF u = r THEN NoOperation ELSE operating[u]
  BY <1>1, <1>2, <1>4, <1>5
<1>7. OperatingOK(operating, pc)'
  BY <1>3, <1>4, <1>6 DEF QueuesStand, OperatingOK
<1>8. QueuesStand'
  BY <1>1, <1>7 DEF QueuesStand
<1>9. \A u \in Task : allocating[u] # NoQueue => u # r /\ pc[u] \in {"block", "wait"}
  BY <1>1, <1>2 DEF MailInv
<1>10. Undisturbed
  BY <1>3, <1>6, <1>9 DEF Undisturbed, MemList
<1> QED BY <1>1, <1>3, <1>8, <1>10 DEF QueueServed

\* The pools see the creation and the deletion of their queues.
LEMMA MailQueueStep ==
  ASSUME MailInv, QueueServed
  PROVE  MailStepOK
<1>1. MailInv' /\ \A q \in Queue : SameFree(q) /\ SameMem(q)
  BY UndisturbedKeeps DEF QueueServed
<1>2. ASSUME NEW q \in Queue PROVE Pool(q)!Next \/ UNCHANGED Pool(q)!vars
  <2>1. CASE queue[q].used /\ ~queue'[q].used
    BY <2>1, <1>1, <1>2, PoolDeleted DEF QueueServed
  <2>2. CASE ~queue[q].used /\ queue'[q].used
    BY <2>2, <1>1, <1>2, PoolCreated
  <2>3. CASE SameUse(q)
    BY <2>3, <1>1, <1>2, PoolStands
  <2> QED BY <2>1, <2>2, <2>3 DEF SameUse
<1> QED BY <1>1, <1>2 DEF QueueServed, MailStepOK, PoolsImplemented

LEMMA MailQueueServiceStep ==
  ASSUME TaskInv, WaitInv, QueuesStand, MailInv, QueueService, UNCHANGED mailVars
  PROVE  MailStepOK
<1> SUFFICES QueueServed
  BY MailQueueStep
<1>1. ASSUME NEW ctx \in Context, NEW len \in QueueLen, LOS_QueueCreate(ctx, len) PROVE QueueServed
  BY <1>1, MailQueueCreate
<1>2. ASSUME NEW ctx \in Context, NEW q \in Queue, LOS_QueueDelete(ctx, q) PROVE QueueServed
  BY <1>2, MailQueueDelete
<1>3. ASSUME NEW q \in Queue, NEW op \in Operation, NEW ctx \in Context, OsQueueOperate(ctx, q, op)
      PROVE  QueueServed
  BY <1>3, MailQueueAtOnce
<1>4. ASSUME NEW q \in Queue, NEW op \in Operation, NEW timed \in BOOLEAN,
             QueueOperateWait(q, op, timed)
      PROVE  QueueServed
  BY <1>4, MailQueueWait
<1>5. CASE QueueTimeout
  BY <1>5, MailQueueTimeout
<1>6. CASE QueueOperateReturn
  BY <1>6, MailQueueReturn
<1> QED BY <1>1, <1>2, <1>3, <1>4, <1>5, <1>6 DEF QueueService

-----------------------------------------------------------------------------
(* Task management.                                                        *)

\* It lets a task leave the list it waits on, and nobody else.
LEMMA MailTaskStepOK ==
  ASSUME TaskInv, WaitInv, QueuesStand, MailInv, MailTaskStep
  PROVE  MailStepOK
<1>1. /\ TaskNext /\ [TaskNext]_taskVars /\ queue' = queue /\ freeQueue' = freeQueue
      /\ operating' = [t \in Task |-> IF pc'[t] = "none" THEN NoOperation ELSE operating[t]]
      /\ \A t \in Task : msg[t] # NoMail => pc'[t] # "none"
      /\ allocating' = [t \in Task |-> IF pc'[t] = "none" THEN NoQueue ELSE allocating[t]]
      /\ mailFree' = mailFree /\ msg' = msg
  BY DEF MailTaskStep, QueueTaskStep
<1>2. TaskInv' /\ WaitInv' /\ (Preempts => Preempts') /\ Waits(kern, pc, kern', pc')
  BY <1>1, NextInv, NextStep DEF TaskStepOK
<1>3. PICK t \in Task \cup {NoTask} :
        /\ \A u \in Task \ {t} : /\ Has(kern', u, "PEND") <=> Has(kern, u, "PEND")
                                 /\ Has(kern', u, "TIMEOUT") <=> Has(kern, u, "TIMEOUT")
                                 /\ pc'[u] = "none" => pc[u] = "none"
        /\ t = NoTask => kern'.wait = kern.wait
        /\ t # NoTask => /\ kern'.wait = Unlink(kern.wait, t) /\ ~Has(kern', t, "PEND")
                         /\ pc'[t] = "none" \/ (Has(kern, t, "PEND") /\ Has(kern', t, "TIMEOUT"))
  BY <1>2 DEF Waits
<1>4. /\ \A u \in Task : allocating'[u] = IF pc'[u] = "none" THEN NoQueue ELSE allocating[u]
      /\ \A u \in Task : operating'[u] = IF pc'[u] = "none" THEN NoOperation ELSE operating[u]
      /\ \A q \in Queue : q # NoQueue
      /\ NoTask \notin Task
  BY <1>1, NoQueueAssumption DEF NoQueue, NoTask, Task
<1>5. ASSUME NEW q \in Queue PROVE Given(q)' = Given(q)
  <2>1. \A u \in Task \ {t} : u \in Given(q)' <=> u \in Given(q)
    <3>1. \A u \in Task \ {t} : allocating'[u] = allocating[u]
      BY <1>3, <1>4 DEF MailInv
    <3> QED BY <1>3, <3>1 DEF Given, Has
  <2>2. t \in Task => t \notin Given(q)'
    BY <1>3, <1>4 DEF Given, Has
  <2>3. t \in Task => t \notin Given(q)
    <3>1. t \in Task /\ t \in Given(q) => msg[t] # NoMail
      BY DEF MailInv
    <3> QED BY <1>1, <1>3, <1>4, <3>1 DEF Given, Has
  <2> QED BY <2>1, <2>2, <2>3 DEF Given
<1>6. kern.wait \in [WaitObj -> Seq(Task)] /\ ListsOK(kern)
  BY KernelFields DEF TaskInv, Inv, KInv, WaitInv
<1>7. \A o \in WaitObj : \A u : In(u, kern'.wait[o]) => In(u, kern.wait[o])
  <2>1. CASE t = NoTask
    BY <1>3, <2>1
  <2>2. CASE t # NoTask
    <3>1. \A o \in WaitObj : Distinct(kern.wait[o])
      BY <1>6 DEF ListsOK
    <3>2. ListsWithout(kern.wait, t, kern'.wait)
      BY <1>3, <1>6, <2>2, <3>1, UnlinkProperties
    <3> QED BY <3>2 DEF ListsWithout, ListWithout
  <2> QED BY <2>1, <2>2
<1>8. ASSUME NEW u \in Task
      PROVE  /\ allocating'[u] # NoQueue => /\ operating'[u] = NoOperation
                                            /\ pc'[u] \in {"block", "wait"}
             /\ \A o \in WaitObj : In(u, kern'.wait[o]) =>
                  \/ allocating'[u] # NoQueue /\ o = List(allocating'[u], "MEM")
                  \/ allocating'[u] = NoQueue /\ \A q \in Queue : o # List(q, "MEM")
  <2>1. allocating'[u] # NoQueue => /\ operating'[u] = NoOperation
                                    /\ pc'[u] \in {"block", "wait"}
    <3>1. pc[u] \in {"block", "wait"} => pc'[u] \in {"block", "wait", "none"}
      BY <1>2 DEF Waits
    <3> QED BY <1>4, <3>1 DEF MailInv
  <2>2. ASSUME NEW o \in WaitObj, In(u, kern'.wait[o])
        PROVE  In(u, kern.wait[o]) /\ allocating'[u] = allocating[u]
    <3>1. Has(kern', u, "PEND")
      BY <1>2, <2>2, TCBs DEF WaitInv, ListsOK, TaskOK
    <3>2. pc'[u] # "none"
      BY <1>2, <3>1 DEF WaitInv, Places
    <3> QED BY <1>4, <1>7, <2>2, <3>2
  <2> QED BY <2>1, <2>2 DEF MailInv
<1>9. allocating' \in [Task -> Queue \cup {NoQueue}]
  BY <1>1 DEF MailInv
<1>10. MailInv'
  BY <1>1, <1>5, <1>8, <1>9 DEF MailInv
<1>11. QueuesStand'
  <2>1. /\ NoOperation \in [queue : Queue \cup {"none"}, op : Operation]
        /\ NoOperation.queue = "none"
    BY DEF NoOperation, Operation
  <2>2. operating' \in [Task -> [queue : Queue \cup {"none"}, op : Operation]]
    BY <1>1, <2>1 DEF QueuesStand, OperatingOK
  <2>3. \A u \in Task : pc[u] \in {"block", "wait"} => pc'[u] \in {"block", "wait", "none"}
    BY <1>2 DEF Waits
  <2>4. OperatingOK(operating, pc)'
    BY <1>4, <2>1, <2>2, <2>3 DEF QueuesStand, OperatingOK
  <2> QED BY <1>1, <2>4 DEF QueuesStand
<1>12. ASSUME NEW q \in Queue PROVE Pool(q)!Next \/ UNCHANGED Pool(q)!vars
  <2>1. SameUse(q) /\ SameFree(q) /\ Given(q)' = Given(q)
    BY <1>1, <1>5 DEF SameUse, SameFree
  <2>2. CASE t = NoTask
    BY <1>3, <2>1, <2>2, PoolStands DEF SameMem, MemList
  <2>3. CASE t # NoTask
    <3>1. t \in Task /\ kern'.wait[List(q, "MEM")] = Without(MemList(q), t)
      BY <1>3, <1>6, <2>3, MemLists DEF Unlink, MemList
    <3>2. CASE In(t, MemList(q))
      BY <2>1, <3>1, <3>2, AllocatorLeaves
    <3>3. CASE ~In(t, MemList(q))
      <4>1. SameMem(q)
        BY <2>1, <3>1, <3>3, WithoutAbsent DEF SameMem
      <4> QED BY <2>1, <4>1, PoolStands
    <3> QED BY <3>2, <3>3
  <2> QED BY <2>2, <2>3
<1> QED BY <1>2, <1>10, <1>11, <1>12 DEF MailStepOK, PoolsImplemented

-----------------------------------------------------------------------------
(* The services of mail blocks.                                            *)

\* A service that neither changes a queue nor lets a task come to a list.
LEMMA PlacesKept ==
  ASSUME MailInv, allocating' = allocating, operating' = operating,
         \A u \in Task : pc[u] \in {"block", "wait"} => pc'[u] \in {"block", "wait"},
         \A u \in Task : \A o \in WaitObj : In(u, kern'.wait[o]) => In(u, kern.wait[o])
  PROVE  \A u \in Task :
           /\ allocating'[u] # NoQueue => /\ operating'[u] = NoOperation
                                          /\ pc'[u] \in {"block", "wait"}
           /\ \A o \in WaitObj : In(u, kern'.wait[o]) =>
                \/ allocating'[u] # NoQueue /\ o = List(allocating'[u], "MEM")
                \/ allocating'[u] = NoQueue /\ \A q \in Queue : o # List(q, "MEM")
BY DEF MailInv

\* A block leaves the pool, or comes back while nobody waits.
LEMMA MailPoolStep ==
  ASSUME TaskInv, WaitInv, QueuesStand, MailInv, NEW ctx \in Context, NEW q \in Queue,
         \/ MailAllocTake(ctx, q)
         \/ \E b \in Mail : MailFreeOnly(ctx, q, b)
  PROVE  MailStepOK
<1>1. /\ UNCHANGED <<kern, pc, child, pendSV, tick>>
      /\ UNCHANGED <<queue, freeQueue, operating, msg, allocating>>
  BY DEF MailAllocTake, MailFreeOnly, queueVars
<1>2. PICK b \in Mail :
        \/ queue[q].used /\ b \in mailFree[q] /\ mailFree' = [mailFree EXCEPT ![q] = @ \ {b}]
        \/ /\ b \in InUse(q)
           /\ queue[q].used => MemList(q) = <<>>
           /\ mailFree' = [mailFree EXCEPT ![q] = @ \cup {b}]
  BY DEF MailAllocTake, MailFreeOnly, MailInv, MemList
<1>3. /\ mailFree \in [Queue -> SUBSET Mail] /\ mailFree' \in [Queue -> SUBSET Mail]
      /\ \/ mailFree'[q] = mailFree[q] \ {b}
         \/ b \in InUse(q) /\ mailFree'[q] = mailFree[q] \cup {b}
      /\ \A z \in Queue \ {q} : mailFree'[z] = mailFree[z]
  BY <1>2 DEF MailInv
<1>4. \A z \in Queue : Given(z)' = Given(z) /\ SameUse(z) /\ SameMem(z)
  BY <1>1 DEF Given, SameUse, SameMem, MemList
<1>5. \A z \in Queue : \A t \in Given(z) : msg[t] \notin mailFree'[z]
  <2>1. SUFFICES ASSUME NEW t \in Given(q) PROVE msg[t] \notin mailFree'[q]
    BY <1>3 DEF MailInv, Given
  <2>2. b \in InUse(q) => b # msg[t]
    BY DEF InUse, Given
  <2>3. t \in Task /\ msg[t] \notin mailFree[q]
    BY DEF MailInv, Given
  <2> QED BY <1>2, <1>3, <2>2, <2>3
<1>6. MailInv'
  <2>1. \A u \in Task :
           /\ allocating'[u] # NoQueue => /\ operating'[u] = NoOperation
                                          /\ pc'[u] \in {"block", "wait"}
           /\ \A o \in WaitObj : In(u, kern'.wait[o]) =>
                \/ allocating'[u] # NoQueue /\ o = List(allocating'[u], "MEM")
                \/ allocating'[u] = NoQueue /\ \A z \in Queue : o # List(z, "MEM")
    BY <1>1, PlacesKept
  <2> QED BY <1>1, <1>3, <1>4, <1>5, <2>1 DEF MailInv
<1>7. QueuesStand'
  BY <1>1, QueuesKept
<1>8. Pool(q)!Next \/ UNCHANGED Pool(q)!vars
  <2>1. CASE queue[q].used /\ b \in mailFree[q] /\ mailFree' = [mailFree EXCEPT ![q] = @ \ {b}]
    <3>1. mailFree'[q] = mailFree[q] \ {b}
      BY <1>3, <2>1
    <3> QED BY <1>4, <2>1, <3>1, BlockTaken
  <2>2. CASE /\ b \in InUse(q)
             /\ queue[q].used => MemList(q) = <<>>
             /\ mailFree' = [mailFree EXCEPT ![q] = @ \cup {b}]
    <3>1. mailFree'[q] = mailFree[q] \cup {b} /\ b \in Mail \ mailFree[q]
      BY <1>3, <2>2 DEF InUse
    <3>2. CASE queue[q].used
      BY <1>4, <2>2, <3>1, <3>2, BlockReturned
    <3>3. CASE ~queue[q].used
      BY <1>4, <3>3 DEF SameUse, SameMem, MemList, Pool!vars
    <3> QED BY <3>2, <3>3
  <2> QED BY <1>2, <2>1, <2>2
<1>9. \A z \in Queue \ {q} : UNCHANGED Pool(z)!vars
  BY <1>3, <1>4, PoolStands DEF SameFree
<1> QED BY <1>1, <1>6, <1>7, <1>8, <1>9, TasksStand DEF MailStepOK, PoolsImplemented

\* A block is given to the first task that waits for one.
LEMMA MailGiveStep ==
  ASSUME TaskInv, WaitInv, QueuesStand, MailInv, NEW ctx \in Context, NEW q \in Queue,
         NEW b \in Mail, MailFreeWake(ctx, q, b)
  PROVE  MailStepOK
<1> DEFINE mem == List(q, "MEM")
<1>1. /\ Caller(ctx) /\ queue[q].used /\ kern.wait[mem] # <<>> /\ b \in InUse(q)
      /\ msg' = [msg EXCEPT ![Head(kern.wait[mem])] = b]
      /\ Finish(ctx, OsSchedTaskWake(kern, Head(kern.wait[mem])), TRUE)
      /\ UNCHANGED <<mailFree, allocating>> /\ UNCHANGED <<queue, freeQueue, operating>>
      /\ child' = child /\ tick' = tick
  BY DEF MailFreeWake, queueVars
<1>2. mem \in WaitObj /\ Serves(ctx) /\ \A z \in Queue \ {q} : List(z, "MEM") \in WaitObj \ {mem}
  BY <1>1, MemLists DEF Serves
<1>3. MemList(q) = kern.wait[mem]
  BY DEF MemList
<1> HIDE DEF mem
<1>4. PICK t : t = Head(kern.wait[mem])
  OBVIOUS
<1>5. /\ TaskInv' /\ WaitInv' /\ (Preempts => Preempts')
      /\ t \in Task /\ In(t, kern.wait[mem]) /\ Has(kern, t, "PEND")
      /\ kern'.status[t] \cap {"PEND", "TIMEOUT"} = {}
      /\ kern'.wait[mem] = Tail(kern.wait[mem])
      /\ \A o \in WaitObj \ {mem} : kern'.wait[o] = kern.wait[o]
      /\ \A u \in Task : \A o \in WaitObj : In(u, kern'.wait[o]) => In(u, kern.wait[o])
      /\ \A u \in Task \ {t} : kern'.status[u] = kern.status[u]
      /\ \A u \in Task : pc[u] \in {"block", "wait"} => pc'[u] \in {"block", "wait"}
  <2>1. PICK s : s = kern.wait[mem]
    OBVIOUS
  <2>2. /\ TaskInv' /\ WaitInv' /\ (Preempts => Preempts')
        /\ t \in Task /\ In(t, s) /\ Has(kern, t, "PEND")
        /\ kern'.status[t] \cap {"PEND", "TIMEOUT"} = {}
    BY <1>1, <1>2, <1>4, <2>1, FirstWakes
  <2>3. /\ kern'.wait[mem] = Tail(s)
        /\ \A o \in WaitObj \ {mem} : kern'.wait[o] = kern.wait[o]
        /\ \A u \in Task : \A o \in WaitObj : In(u, kern'.wait[o]) => In(u, kern.wait[o])
    BY <1>1, <1>2, <1>4, <2>1, FirstWakes
  <2>4. \A u \in Task \ {t} : kern'.status[u] = kern.status[u]
    BY <1>1, <1>2, <1>4, <2>1, FirstWakes
  <2>5. \A u \in Task : Caller(ctx) \/ u # kern.run =>
          (pc'[u] \in {"block", "wait"} <=> pc[u] \in {"block", "wait"})
    BY <1>1, <1>2, FirstWakes
  <2>6. \A u \in Task : pc[u] \in {"block", "wait"} => pc'[u] \in {"block", "wait"}
    BY ONLY <1>1, <2>5
  <2> QED BY <2>1, <2>2, <2>3, <2>4, <2>6
<1>6. allocating[t] = q
  BY <1>2, <1>5, MemLists DEF MailInv, mem
<1>7. /\ \A z \in Queue : t \notin Given(z)
      /\ Given(q)' = Given(q) \cup {t} /\ \A z \in Queue \ {q} : Given(z)' = Given(z)
  BY <1>1, <1>5, <1>6 DEF Given, Has
<1>8. /\ msg'[t] = b /\ msg' \in [Task -> Mail \cup {NoMail}] /\ b # NoMail
      /\ \A u \in Task \ {t} : msg'[u] = msg[u]
  BY <1>1, <1>4, <1>5, NoMailAssumption DEF MailInv
<1>9. b \notin mailFree[q] /\ \A u \in Given(q) : msg[u] # b
  BY <1>1 DEF InUse, Given
<1>10. QueuesStand'
  BY <1>1, <1>5, QueuesKept
<1>11. ASSUME NEW u \in Task
       PROVE  /\ msg'[u] # NoMail <=> \E z \in Queue : u \in Given(z)'
              /\ \A z \in Queue : u \in Given(z)' =>
                   /\ msg'[u] \notin mailFree'[z]
                   /\ \A v \in Given(z)' : msg'[v] = msg'[u] => v = u
  <2>1. \A z \in Queue : \A v : v \in Given(z) => v \in Task \ {t}
    BY <1>7 DEF Given
  <2>2. CASE u = t
    BY <2>1, <2>2, <1>1, <1>7, <1>8, <1>9
  <2>3. CASE u # t
    <3>1. msg'[u] # NoMail <=> \E z \in Queue : u \in Given(z)'
      BY <2>3, <1>7, <1>8 DEF MailInv
    <3>2. ASSUME NEW z \in Queue, u \in Given(z)'
          PROVE  /\ msg'[u] \notin mailFree'[z]
                 /\ \A v \in Given(z)' : msg'[v] = msg'[u] => v = u
      <4>1. u \in Given(z) /\ msg'[u] = msg[u]
        BY <2>3, <3>2, <1>7, <1>8
      <4>2. /\ msg[u] \notin mailFree[z]
            /\ \A v \in Given(z) : msg[v] = msg[u] => v = u
        BY <4>1 DEF MailInv
      <4>3. \A v \in Given(z) : msg'[v] = msg[v]
        BY <2>1, <1>8
      <4>4. z = q => msg[u] # b
        BY <1>9, <4>1
      <4> QED BY <4>1, <4>2, <4>3, <4>4, <1>1, <1>7, <1>8
    <3> QED BY <3>1, <3>2
  <2> QED BY <2>2, <2>3
<1>12. MailInv'
  <2>1. \A u \in Task :
           /\ allocating'[u] # NoQueue => /\ operating'[u] = NoOperation
                                          /\ pc'[u] \in {"block", "wait"}
           /\ \A o \in WaitObj : In(u, kern'.wait[o]) =>
                \/ allocating'[u] # NoQueue /\ o = List(allocating'[u], "MEM")
                \/ allocating'[u] = NoQueue /\ \A z \in Queue : o # List(z, "MEM")
    BY <1>1, <1>5, PlacesKept
  <2> QED BY <1>1, <1>8, <1>11, <2>1 DEF MailInv
<1>13. \A z \in Queue : SameUse(z) /\ SameFree(z)
  BY <1>1 DEF SameUse, SameFree
<1>14. Pool(q)!Next
  <2>1. kern'.wait[List(q, "MEM")] = Tail(MemList(q)) /\ MemList(q) # <<>>
        /\ Given(q)' = Given(q) \cup {Head(MemList(q))}
    BY <1>1, <1>3, <1>4, <1>5, <1>7 DEF mem
  <2> QED BY <1>1, <1>13, <2>1, BlockGiven
<1>15. \A z \in Queue \ {q} : UNCHANGED Pool(z)!vars
  <2>1. \A z \in Queue \ {q} : SameMem(z)
    BY <1>2, <1>5, <1>7 DEF SameMem, MemList
  <2> QED BY <1>13, <2>1, PoolStands
<1> QED BY <1>5, <1>10, <1>12, <1>14, <1>15 DEF MailStepOK, PoolsImplemented

\* A task begins to wait for a block.
LEMMA MailWaitStep ==
  ASSUME TaskInv, WaitInv, QueuesStand, MailInv, kern.lock = 0, NEW q \in Queue,
         NEW timed \in BOOLEAN, MailAllocWait(q, timed)
  PROVE  MailStepOK
<1> DEFINE mem == List(q, "MEM")
<1>1. /\ Caller("task") /\ queue[q].used /\ mailFree[q] = {}
      /\ kern' = OsSchedTaskWait(kern, mem, timed) /\ pc' = [pc EXCEPT ![kern.run] = "block"]
      /\ allocating' = [allocating EXCEPT ![kern.run] = q]
      /\ UNCHANGED <<mailFree, msg>> /\ UNCHANGED <<queue, freeQueue, operating>>
      /\ child' = child /\ pendSV' = pendSV /\ tick' = tick
  BY DEF MailAllocWait, queueVars
<1>2. mem \in WaitObj /\ \A z \in Queue \ {q} : List(z, "MEM") \in WaitObj \ {mem}
  BY MemLists
<1>3. MemList(q) = kern.wait[mem]
  BY DEF MemList
<1> HIDE DEF mem
<1>4. PICK r \in Task : r = kern.run
  BY <1>1, CallerFacts DEF Context
<1>5. /\ TaskInv' /\ WaitInv' /\ Preempts' /\ pc[r] = "run" /\ pc'[r] = "block"
      /\ Has(kern', r, "PEND") /\ kern'.wait[mem] = Append(kern.wait[mem], r)
      /\ \A o \in WaitObj \ {mem} : kern'.wait[o] = kern.wait[o]
      /\ \A o \in WaitObj : ~In(r, kern.wait[o])
      /\ \A u \in Task : \A o \in WaitObj : In(u, kern'.wait[o]) =>
           In(u, kern.wait[o]) \/ (u = r /\ o = mem)
      /\ \A u \in Task \ {r} : kern'.status[u] = kern.status[u] /\ pc'[u] = pc[u]
  BY <1>1, <1>2, <1>4, CallerWaits
<1>6. /\ allocating[r] = NoQueue /\ operating[r] = NoOperation /\ q # NoQueue
      /\ allocating \in [Task -> Queue \cup {NoQueue}]
  BY <1>5, NoQueueAssumption DEF MailInv, QueuesStand, OperatingOK, NoQueue
<1>7. /\ allocating' \in [Task -> Queue \cup {NoQueue}]
      /\ allocating'[r] = q /\ \A u \in Task \ {r} : allocating'[u] = allocating[u]
  BY <1>1, <1>4, <1>6
<1>8. \A z \in Queue : Given(z)' = Given(z) /\ r \notin Given(z)
  <2>1. \A z \in Queue : r \notin Given(z) /\ r \notin Given(z)'
    BY <1>5, <1>6, NoQueueAssumption DEF Given, Has, NoQueue
  <2>2. \A z \in Queue : \A u \in Task \ {r} : u \in Given(z)' <=> u \in Given(z)
    BY <1>5, <1>7 DEF Given
  <2> QED BY <2>1, <2>2 DEF Given
<1>9. QueuesStand'
  BY <1>1, <1>5, QueuesKept
<1>10. ASSUME NEW u \in Task
       PROVE  /\ allocating'[u] # NoQueue => /\ operating'[u] = NoOperation
                                             /\ pc'[u] \in {"block", "wait"}
              /\ \A o \in WaitObj : In(u, kern'.wait[o]) =>
                   \/ allocating'[u] # NoQueue /\ o = List(allocating'[u], "MEM")
                   \/ allocating'[u] = NoQueue /\ \A z \in Queue : o # List(z, "MEM")
  <2>1. CASE u = r
    BY <2>1, <1>1, <1>5, <1>6, <1>7 DEF mem
  <2>2. CASE u # r
    BY <2>2, <1>1, <1>5, <1>7 DEF MailInv
  <2> QED BY <2>1, <2>2
<1>11. MailInv'
  BY <1>1, <1>7, <1>8, <1>10 DEF MailInv
<1>12. \A z \in Queue : SameUse(z) /\ SameFree(z)
  BY <1>1 DEF SameUse, SameFree
<1>13. Pool(q)!Next
  <2>1. kern'.wait[List(q, "MEM")] = Append(MemList(q), r) /\ ~In(r, MemList(q))
    BY <1>2, <1>3, <1>5 DEF mem
  <2> QED BY <1>1, <1>8, <1>12, <2>1, AllocatorComes
<1>14. \A z \in Queue \ {q} : UNCHANGED Pool(z)!vars
  <2>1. \A z \in Queue \ {q} : SameMem(z)
    BY <1>2, <1>5, <1>8 DEF SameMem, MemList
  <2> QED BY <1>12, <2>1, PoolStands
<1> QED BY <1>5, <1>9, <1>11, <1>13, <1>14 DEF MailStepOK, PoolsImplemented

\* The end of OsQueueMailAlloc without a block.
LEMMA MailTimeoutStep ==
  ASSUME TaskInv, WaitInv, QueuesStand, MailInv, MailAllocTimeout
  PROVE  MailStepOK
<1>1. /\ Running("wait") /\ allocating[kern.run] # NoQueue /\ Has(kern, kern.run, "TIMEOUT")
      /\ Finish("task", ClearFlag(kern, kern.run, {"TIMEOUT"}), FALSE)
      /\ allocating' = [allocating EXCEPT ![kern.run] = NoQueue]
      /\ UNCHANGED <<mailFree, msg>> /\ UNCHANGED <<queue, freeQueue, operating>>
      /\ child' = child /\ tick' = tick
  BY DEF MailAllocTimeout, queueVars
<1>2. PICK r \in Task : r = kern.run
  BY DEF MailAllocTimeout
<1>3. /\ TaskInv' /\ WaitInv' /\ (Preempts => Preempts') /\ kern'.wait = kern.wait
      /\ pc'[r] = "run" /\ \A o \in WaitObj : ~In(r, kern.wait[o])
      /\ \A u \in Task \ {r} : kern'.status[u] = kern.status[u] /\ pc'[u] = pc[u]
  BY <1>1, <1>2, TimedOutReturns
<1>4. /\ allocating \in [Task -> Queue \cup {NoQueue}] /\ operating[r] = NoOperation
      /\ \A z \in Queue : z # NoQueue
  BY <1>1, <1>2, NoQueueAssumption DEF MailInv, NoQueue
<1>5. /\ allocating' \in [Task -> Queue \cup {NoQueue}]
      /\ allocating'[r] = NoQueue /\ \A u \in Task \ {r} : allocating'[u] = allocating[u]
  BY <1>1, <1>2, <1>4
<1>6. \A z \in Queue : Given(z)' = Given(z)
  <2>1. \A z \in Queue : r \notin Given(z) /\ r \notin Given(z)'
    BY <1>1, <1>2, <1>4, <1>5 DEF Given, Has
  <2>2. \A z \in Queue : \A u \in Task \ {r} : u \in Given(z)' <=> u \in Given(z)
    BY <1>3, <1>5 DEF Given
  <2> QED BY <2>1, <2>2 DEF Given
<1>7. QueuesStand'
  <2>1. OperatingOK(operating, pc)'
    BY <1>1, <1>3, <1>4 DEF QueuesStand, OperatingOK, NoOperation
  <2> QED BY <1>1, <2>1 DEF QueuesStand
<1>8. ASSUME NEW u \in Task
      PROVE  /\ allocating'[u] # NoQueue => /\ operating'[u] = NoOperation
                                            /\ pc'[u] \in {"block", "wait"}
             /\ \A o \in WaitObj : In(u, kern'.wait[o]) =>
                  \/ allocating'[u] # NoQueue /\ o = List(allocating'[u], "MEM")
                  \/ allocating'[u] = NoQueue /\ \A z \in Queue : o # List(z, "MEM")
  <2>1. CASE u = r
    BY <2>1, <1>3, <1>5
  <2>2. CASE u # r
    BY <2>2, <1>1, <1>3, <1>5 DEF MailInv
  <2> QED BY <2>1, <2>2
<1>9. MailInv'
  BY <1>1, <1>5, <1>6, <1>8 DEF MailInv
<1>10. \A z \in Queue : UNCHANGED Pool(z)!vars
  <2>1. \A z \in Queue : SameUse(z) /\ SameFree(z) /\ SameMem(z)
    BY <1>1, <1>3, <1>6 DEF SameUse, SameFree, SameMem, MemList
  <2> QED BY <2>1, PoolStands
<1> QED BY <1>3, <1>7, <1>9, <1>10 DEF MailStepOK, PoolsImplemented

\* A task that waited in OsQueueMailAlloc and was not timed out has a block.
LEMMA ReturnsGranted ==
  ASSUME TaskInv, WaitInv, MailInv, MailAllocReturn
  PROVE  /\ \E q \in Queue : allocating[kern.run] = q /\ kern.run \in Given(q)
         /\ msg[kern.run] # NoMail
<1>1. /\ kern.run \in Task /\ Running("wait") /\ allocating[kern.run] # NoQueue
      /\ ~Has(kern, kern.run, "TIMEOUT")
  BY DEF MailAllocReturn
<1>2. "task" \in Context /\ Serves("task")
  BY <1>1 DEF Serves, Context
<1>3. kern.status[kern.run] \cap {"PEND", "TIMEOUT"} = {}
  <2>1. kern.status[kern.run] \cap (Blocked \cup {"READY"}) = {}
    BY <1>2, ServesFacts DEF Able
  <2> QED BY <2>1, <1>1 DEF Blocked, Has
<1>4. \E q \in Queue : allocating[kern.run] = q /\ kern.run \in Given(q)
  BY <1>1, <1>3 DEF MailInv, Given
<1> QED BY <1>1, <1>4 DEF MailInv

\* The end of OsQueueMailAlloc with it.
LEMMA MailReturnStep ==
  ASSUME TaskInv, WaitInv, QueuesStand, MailInv, MailAllocReturn
  PROVE  MailStepOK
<1>1. /\ Running("wait") /\ ~Has(kern, kern.run, "TIMEOUT")
      /\ pc' = [pc EXCEPT ![kern.run] = "run"] /\ msg' = [msg EXCEPT ![kern.run] = NoMail]
      /\ allocating' = [allocating EXCEPT ![kern.run] = NoQueue]
      /\ mailFree' = mailFree /\ UNCHANGED <<queue, freeQueue, operating>>
      /\ kern' = kern /\ child' = child /\ pendSV' = pendSV /\ tick' = tick
  BY DEF MailAllocReturn, queueVars
<1>2. PICK r \in Task : r = kern.run
  BY DEF MailAllocReturn
<1>3. PICK q \in Queue : allocating[r] = q /\ r \in Given(q)
  BY <1>2, ReturnsGranted
<1>4. "task" \in Context /\ Serves("task") /\ Finish("task", kern, FALSE)
  <2>1. "task" \in Context /\ Serves("task")
    BY <1>1, <1>2 DEF Serves, Context
  <2>2. ~kern.halted
    BY <1>1 DEF Running
  <2>3. Committed(kern, kern) = kern
    BY <2>2 DEF Committed
  <2> QED BY <1>1, <2>1, <2>3 DEF Finish
<1>5. TaskInv' /\ WaitInv' /\ (Preempts => Preempts')
  BY <1>1, <1>4, QuietFinish
<1>6. /\ allocating \in [Task -> Queue \cup {NoQueue}] /\ operating[r] = NoOperation
      /\ msg \in [Task -> Mail \cup {NoMail}] /\ pc \in [TCB -> PC] /\ Task \subseteq TCB
      /\ \A z \in Queue : z # NoQueue
  BY <1>3, TCBs, NoQueueAssumption DEF MailInv, NoQueue, TaskInv, Inv
<1>7. /\ allocating' \in [Task -> Queue \cup {NoQueue}] /\ msg' \in [Task -> Mail \cup {NoMail}]
      /\ allocating'[r] = NoQueue /\ msg'[r] = NoMail
      /\ \A u \in Task \ {r} : /\ allocating'[u] = allocating[u] /\ msg'[u] = msg[u]
                               /\ pc'[u] = pc[u]
  BY <1>1, <1>2, <1>6
<1>8. \A z \in Queue : Given(z)' = Given(z) \ {r}
  BY <1>1, <1>6, <1>7 DEF Given
<1>9. \A o \in WaitObj : ~In(r, kern.wait[o])
  BY <1>3, TCBs DEF WaitInv, ListsOK, TaskOK, Given, Has
<1>10. QueuesStand'
  <2>1. OperatingOK(operating, pc)'
    BY <1>1, <1>6, <1>7 DEF QueuesStand, OperatingOK, NoOperation
  <2> QED BY <1>1, <2>1 DEF QueuesStand
<1>11. ASSUME NEW u \in Task
       PROVE  /\ allocating'[u] # NoQueue => /\ operating'[u] = NoOperation
                                             /\ pc'[u] \in {"block", "wait"}
              /\ \A o \in WaitObj : In(u, kern'.wait[o]) =>
                   \/ allocating'[u] # NoQueue /\ o = List(allocating'[u], "MEM")
                   \/ allocating'[u] = NoQueue /\ \A z \in Queue : o # List(z, "MEM")
              /\ msg'[u] # NoMail <=> \E z \in Queue : u \in Given(z)'
              /\ \A z \in Queue : u \in Given(z)' =>
                   /\ msg'[u] \notin mailFree'[z]
                   /\ \A v \in Given(z)' : msg'[v] = msg'[u] => v = u
  <2>1. CASE u = r
    BY <2>1, <1>1, <1>7, <1>8, <1>9
  <2>2. CASE u # r
    <3>1. \A z \in Queue : \A v \in Given(z) : v \in Task
      BY DEF Given
    <3> QED BY <2>2, <3>1, <1>1, <1>7, <1>8 DEF MailInv
  <2> QED BY <2>1, <2>2
<1>12. MailInv'
  BY <1>1, <1>7, <1>11 DEF MailInv
<1>13. \A z \in Queue : SameUse(z) /\ SameFree(z) /\ kern'.wait[List(z, "MEM")] = MemList(z)
  BY <1>1 DEF SameUse, SameFree, MemList
<1>14. Pool(q)!Next
  BY <1>3, <1>8, <1>13, AllocatorReturns
<1>15. \A z \in Queue \ {q} : UNCHANGED Pool(z)!vars
  <2>1. \A z \in Queue \ {q} : SameMem(z)
    BY <1>3, <1>8, <1>13 DEF SameMem, Given
  <2> QED BY <1>13, <2>1, PoolStands
<1> QED BY <1>5, <1>10, <1>12, <1>14, <1>15 DEF MailStepOK, PoolsImplemented

-----------------------------------------------------------------------------
(* The specification.                                                      *)

LEMMA MailInitInv ==
  ASSUME TaskInit, QueueInit, MailInit
  PROVE  QueuesStand /\ MailInv /\ \A q \in Queue : Pool(q)!Init
<1>1. QueuesStand
  <2>1. QueueInv
    BY QueueInitInv
  <2>2. OperatingOK(operating, pc) /\ freeQueue \in Seq(Queue) /\ Distinct(freeQueue)
        /\ queue \in [Queue -> ControlBlock] /\ \A q \in Queue : QueueOK(q)
    BY <2>1 DEF QueueInv
  <2>3. \A q \in Queue : In(q, freeQueue) <=> ~queue[q].used
    BY <2>2 DEF QueueOK
  <2>4. \A q \in Queue : {"used", "len", "head", "tail", "cell", "cnt"} \subseteq DOMAIN queue[q]
    BY <2>2 DEF ControlBlock
  <2> QED BY <2>2, <2>3, <2>4 DEF QueuesStand
<1>2. /\ mailFree = [q \in Queue |-> Mail] /\ msg = [t \in Task |-> NoMail]
      /\ allocating = [t \in Task |-> NoQueue] /\ \A o \in WaitObj : kern.wait[o] = <<>>
      /\ \A q \in Queue : q # NoQueue /\ ~queue[q].used
  BY NoQueueAssumption DEF MailInit, TaskInit, QueueInit, NoQueue
<1>3. /\ \A q \in Queue : Given(q) = {} /\ MemList(q) = <<>>
      /\ \A o \in WaitObj : \A t : ~In(t, kern.wait[o])
  BY <1>2, MemLists DEF Given, MemList, In
<1>4. MailInv
  BY <1>2, <1>3 DEF MailInv
<1>5. \A q \in Queue : Pool(q)!Init
  BY <1>2, <1>3 DEF Pool!Init, MemList
<1> QED BY <1>1, <1>4, <1>5

\* Every step keeps the invariants and is a step of the abstract pools.
LEMMA MailNextStep ==
  ASSUME TaskInv, WaitInv, QueuesStand, MailInv, [MailNext]_mailAll
  PROVE  MailStepOK
<1>1. CASE UNCHANGED mailAll
  <2>1. /\ UNCHANGED <<kern, pc, child, pendSV, tick>>
        /\ UNCHANGED <<queue, freeQueue, operating>> /\ UNCHANGED <<mailFree, msg, allocating>>
    BY <1>1 DEF mailAll
  <2>2. QueuesStand'
    BY <2>1, QueuesKept
  <2>3. QueueServed
    <3>1. Undisturbed
      BY <2>1, TasksUndisturbed DEF mailVars
    <3> QED BY <2>1, <2>2, <3>1, TasksStand DEF QueueServed
  <2> QED BY <2>3, MailQueueStep
<1>2. CASE MailTaskStep
  BY <1>2, MailTaskStepOK
<1>3. CASE QueueService /\ UNCHANGED mailVars
  BY <1>3, MailQueueServiceStep
<1>4. CASE MailAtOnce
  <2>1. ASSUME NEW ctx \in Context, NEW q \in Queue,
               \/ MailAllocTake(ctx, q)
               \/ \E b \in Mail : MailFreeOnly(ctx, q, b)
        PROVE  MailStepOK
    BY <2>1, MailPoolStep
  <2>2. ASSUME NEW ctx \in Context, NEW q \in Queue, NEW b \in Mail, MailFreeWake(ctx, q, b)
        PROVE  MailStepOK
    BY <2>2, MailGiveStep
  <2> QED BY <1>4, <2>1, <2>2, MailTimeoutStep, MailReturnStep DEF MailAtOnce
<1>5. CASE kern.lock = 0 /\ MailWaits
  BY <1>5, MailWaitStep DEF MailWaits
<1> QED BY <1>1, <1>2, <1>3, <1>4, <1>5 DEF MailNext

\* The invariants hold, and every step is what it should be.
LEMMA MailsHold ==
  /\ MailSpec => [](TaskInv /\ WaitInv /\ Preempts /\ MailInv)
  /\ MailSpec => [][MailStepOK]_mailAll
<1>1. TaskInit /\ QueueInit /\ MailInit => TaskInv /\ WaitInv /\ Preempts /\ QueuesStand /\ MailInv
  BY InitInv, InitWaits, MailInitInv
<1>2. TaskInv /\ WaitInv /\ QueuesStand /\ MailInv /\ [MailNext]_mailAll => MailStepOK
  BY MailNextStep
<1>3. MailStepOK /\ Preempts => (TaskInv /\ WaitInv /\ Preempts /\ QueuesStand /\ MailInv)'
  BY DEF MailStepOK
<1> QED BY <1>1, <1>2, <1>3, PTL DEF MailSpec

\* A mail block is in one place: in its pool, with one task that was woken for
\* it, or with the application (OsQueueMailAlloc, OsQueueMailFree).
THEOREM MailAlwaysInOnePlace == MailSpec => []MailInOnePlace
<1>1. MailInv => MailInOnePlace
  <2>1. SUFFICES ASSUME MailInv, NEW t \in Task, msg[t] # NoMail
                 PROVE  /\ allocating[t] # NoQueue
                        /\ msg[t] \notin mailFree[allocating[t]]
                        /\ \A u \in Task : msg[u] = msg[t] /\ allocating[u] = allocating[t] => u = t
    BY DEF MailInOnePlace
  <2>2. PICK q \in Queue : t \in Given(q)
    BY <2>1 DEF MailInv
  <2>3. allocating[t] = q /\ q # NoQueue
    BY <2>2, NoQueueAssumption DEF Given, NoQueue
  <2>4. ASSUME NEW u \in Task, msg[u] = msg[t], allocating[u] = allocating[t] PROVE u \in Given(q)
    BY <2>1, <2>3, <2>4 DEF MailInv, Given
  <2> QED BY <2>1, <2>2, <2>3, <2>4 DEF MailInv
<1> QED BY <1>1, MailsHold, PTL

\* The pool of every queue hands out its blocks as a semaphore its units: to the
\* waiters in the order in which they came, whatever task management and the
\* queue itself do meanwhile (OsQueueMailAlloc, OsQueueMailFree).
THEOREM PoolsAreImplemented == MailSpec => PoolImplementsSemaphore
<1>1. TaskInit /\ QueueInit /\ MailInit => \A q \in Queue : Pool(q)!Init
  BY MailInitInv
<1>2. [MailStepOK]_mailAll
        => [\A q \in Queue : Pool(q)!Next \/ UNCHANGED Pool(q)!vars]_mailAll
  BY DEF MailStepOK, PoolsImplemented
<1> QED BY <1>1, <1>2, MailsHold, PTL DEF MailSpec, PoolImplementsSemaphore

\* A task that waited for a block and was not timed out was given one, as the
\* comment in OsQueueMailAlloc says, if it did not come to wait under the task
\* lock (los_queue.c:488-494).
THEOREM MailIsGranted == MailSpec => MailGranted
<1>1. TaskInv /\ WaitInv /\ Preempts /\ MailInv
        => [MailAllocReturn => msg[kern.run] # NoMail]_mailAll
  BY ReturnsGranted
<1> QED BY <1>1, MailsHold, PTL DEF MailGranted
=============================================================================
