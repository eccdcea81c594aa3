---------------------------- MODULE LosWaitProofs ----------------------------
(***************************************************************************)
(* Theorems about LosTask, for any number of TCBs, priorities and wait     *)
(* lists: the sort link, the wait lists and the status flags agree, and    *)
(* the task with the highest priority runs.                                *)
(*                                                                         *)
(* With TaskInv (LosTaskProofs) two more invariants are inductive: WaitInv *)
(* says of every TCB which lists its flags put it in, where in a service   *)
(* its task is, and that a task which blocked while it ran is about to     *)
(* leave the CPU.  Preempts says when a ready task may have a higher       *)
(* priority than the one that runs.  The relation Waits says how task      *)
(* management may disturb the waiters of an object, and the last section   *)
(* what the waiting and waking services do, for the proofs about objects.  *)
(***************************************************************************)
EXTENDS LosTaskProofs, FiniteSetTheorems

-----------------------------------------------------------------------------
(* Lists.                                                                  *)

\* An entry put anywhere into a list that does not hold it.
LEMMA InsertAtProperties ==
  ASSUME NEW S, NEW s \in Seq(S), NEW i \in 1..(Len(s) + 1), NEW e \in S,
         Distinct(s), ~In(e, s)
  PROVE  /\ Distinct(InsertAt(s, i, e))
         /\ \A u : In(u, InsertAt(s, i, e)) <=> In(u, s) \/ u = e
<1> DEFINE a == SubSeq(s, 1, i - 1)
           b == SubSeq(s, i, Len(s))
<1>1. Len(s) \in Nat /\ i \in Int /\ DOMAIN s = 1..Len(s)
  BY LenProperties
<1>2. \A j \in 1..Len(s) : s[j] \in S
  BY ElementOfSeq
<1>3. /\ a \in Seq(S) /\ Len(a) = i - 1
      /\ \A j \in 1..(i - 1) : a[j] = s[j]
  <2>1. \A j \in 1..(i - 1) : s[j] \in S
    BY <1>1, <1>2
  <2> QED BY <2>1, <1>1, SubSeqProperties
<1>4. /\ b \in Seq(S) /\ Len(b) = Len(s) - i + 1
      /\ \A j \in 1..(Len(s) - i + 1) : b[j] = s[i + j - 1]
  <2>1. \A j \in i..Len(s) : s[j] \in S
    BY <1>1, <1>2
  <2>2. /\ b \in Seq(S)
        /\ Len(b) = IF i <= Len(s) THEN Len(s) - i + 1 ELSE 0
        /\ \A j \in 1..(Len(s) - i + 1) : b[j] = s[i + j - 1]
    BY <2>1, <1>1, SubSeqProperties
  <2> QED BY <2>2, <1>1
<1>5. DOMAIN a = 1..(i - 1) /\ DOMAIN b = 1..(Len(s) - i + 1)
  BY <1>3, <1>4, LenProperties
<1>6. InsertAt(s, i, e) = (a \o <<e>>) \o b
  BY DEF InsertAt
<1> HIDE DEF a, b
<1>7. ASSUME NEW u PROVE In(u, s) <=> In(u, a) \/ In(u, b)
  <2>1. In(u, a) => In(u, s)
    BY <1>1, <1>3, <1>5 DEF In
  <2>2. In(u, b) => In(u, s)
    <3>1. \A j \in 1..(Len(s) - i + 1) : i + j - 1 \in 1..Len(s) /\ b[j] = s[i + j - 1]
      BY <1>1, <1>4
    <3> QED BY <3>1, <1>1, <1>5 DEF In
  <2>3. In(u, s) => In(u, a) \/ In(u, b)
    <3>1. ASSUME NEW j \in 1..Len(s), s[j] = u PROVE In(u, a) \/ In(u, b)
      <4>1. CASE j < i
        <5>1. j \in 1..(i - 1)
          BY <4>1, <1>1
        <5> QED BY <5>1, <3>1, <1>3, <1>5 DEF In
      <4>2. CASE ~(j < i)
        <5>1. j - i + 1 \in 1..(Len(s) - i + 1) /\ i + (j - i + 1) - 1 = j
          BY <4>2, <1>1
        <5>2. b[j - i + 1] = u
          BY <5>1, <3>1, <1>4
        <5> QED BY <5>1, <5>2, <1>5 DEF In
      <4> QED BY <4>1, <4>2
    <3> QED BY <3>1, <1>1 DEF In
  <2> QED BY <2>1, <2>2, <2>3
<1>8. Distinct(a) /\ Distinct(b)
  <2>1. Distinct(a)
    <3>1. \A j \in 1..(i - 1) : j \in 1..Len(s)
      BY <1>1
    <3> QED BY <3>1, <1>1, <1>3, <1>5 DEF Distinct
  <2>2. Distinct(b)
    <3>1. ASSUME NEW j \in 1..(Len(s) - i + 1), NEW l \in 1..(Len(s) - i + 1), b[j] = b[l]
          PROVE  j = l
      <4>1. /\ i + j - 1 \in 1..Len(s) /\ i + l - 1 \in 1..Len(s)
            /\ s[i + j - 1] = s[i + l - 1]
        BY <3>1, <1>1, <1>4
      <4>2. i + j - 1 = i + l - 1
        BY <4>1, <1>1 DEF Distinct
      <4> QED BY <4>2, <1>1
    <3> QED BY <3>1, <1>5 DEF Distinct
  <2> QED BY <2>1, <2>2
<1>9. ASSUME NEW u PROVE ~(In(u, a) /\ In(u, b))
  <2>1. ASSUME NEW j \in 1..(i - 1), NEW l \in 1..(Len(s) - i + 1), a[j] = b[l]
        PROVE  FALSE
    <3>1. /\ j \in 1..Len(s) /\ i + l - 1 \in 1..Len(s) /\ s[j] = s[i + l - 1]
      BY <2>1, <1>1, <1>3, <1>4
    <3>2. j = i + l - 1
      BY <3>1, <1>1 DEF Distinct
    <3> QED BY <3>2, <1>1
  <2> QED BY <2>1, <1>5 DEF In
<1>10. /\ a \o <<e>> \in Seq(S) /\ Distinct(a \o <<e>>)
       /\ \A u : In(u, a \o <<e>>) <=> In(u, a) \/ u = e
  <2>1. Append(a, e) = a \o <<e>>
    BY <1>3, AppendIsConcat
  <2>2. ~In(e, a)
    BY <1>7
  <2>3. /\ Append(a, e) \in Seq(S) /\ Distinct(Append(a, e))
        /\ \A u : In(u, Append(a, e)) <=> In(u, a) \/ u = e
    BY <2>2, <1>3, <1>8, EndsProperties
  <2> QED BY ONLY <2>1, <2>3
<1> DEFINE c == a \o <<e>>
<1>11. \A u \in S : ~(In(u, c) /\ In(u, b))
  BY <1>7, <1>9, <1>10
<1> HIDE DEF c
<1>12. c \in Seq(S) /\ Distinct(c)
  BY <1>10 DEF c
<1>13. Distinct(c \o b) /\ \A u : In(u, c \o b) <=> In(u, c) \/ In(u, b)
  BY <1>4, <1>8, <1>11, <1>12, ConcatIn
<1>14. InsertAt(s, i, e) = c \o b
  BY <1>6 DEF c
<1>15. \A u : In(u, c) <=> In(u, a) \/ u = e
  BY <1>10 DEF c
<1> QED BY <1>7, <1>13, <1>14, <1>15

\* Taking the first node off a list that holds each node once is taking its
\* entry out.
LEMMA WithoutHead ==
  ASSUME NEW S, NEW q \in Seq(S), q # <<>>, Distinct(q)
  PROVE  Without(q, Head(q)) = Tail(q)
<1> DEFINE i == CHOOSE j \in DOMAIN q : q[j] = Head(q)
<1>1. DOMAIN q = 1..Len(q) /\ Len(q) \in Nat /\ Len(q) > 0
  BY LenProperties, EmptySeq
<1>2. Head(q) = q[1] /\ 1 \in DOMAIN q
  BY <1>1
<1>3. i \in DOMAIN q /\ q[i] = Head(q)
  BY <1>2
<1>4. i = 1
  BY <1>2, <1>3 DEF Distinct
<1>5. Without(q, Head(q)) = RemoveAt(q, i)
  BY <1>2 DEF Without, In
<1>6. RemoveAt(q, 1) = SubSeq(q, 1, 0) \o SubSeq(q, 2, Len(q))
  BY DEF RemoveAt
<1>7. SubSeq(q, 1, 0) = <<>>
  OBVIOUS
<1>8. SubSeq(q, 2, Len(q)) = Tail(q)
  BY <1>1
<1>9. Tail(q) \in Seq(S)
  BY TailProperties
<1>10. <<>> \o Tail(q) = Tail(q)
  BY <1>9
<1> QED BY <1>4, <1>5, <1>6, <1>7, <1>8, <1>10

\* A list that holds each element of a finite set once at most, and is as long
\* as the set is large, holds every one of them.
LEMMA PoolIsFull ==
  ASSUME NEW S, IsFiniteSet(S), NEW q \in [1..Cardinality(S) -> S], Distinct(q)
  PROVE  q \in Seq(S) /\ \A s \in S : In(s, q)
<1> DEFINE n == Cardinality(S)
<1>1. n \in Nat
  BY FS_CardinalityType
<1>2. Cardinality(1..n) = n
  BY <1>1, FS_Interval
<1> HIDE DEF n
<1>3. DOMAIN q = 1..n
  BY DEF n
<1>4. q \in Injection(1..n, S)
  BY <1>3 DEF Distinct, Injection, IsInjective, n
<1>5. q \in Surjection(1..n, S)
  BY <1>1, <1>2, <1>4, FS_Injection DEF n
<1>6. \A s \in S : In(s, q)
  BY <1>3, <1>5 DEF Surjection, In
<1>7. q \in Seq(S)
  BY <1>1 DEF n
<1> QED BY <1>6, <1>7

\* List s is the list without t, and w is the lists without t.
ListWithout(list, t, s) ==
  /\ s \in Seq(Task) /\ Distinct(s)
  /\ \A u : In(u, s) <=> In(u, list) /\ u # t

ListsWithout(lists, t, w) ==
  /\ w \in [WaitObj -> Seq(Task)]
  /\ \A o \in WaitObj : ListWithout(lists[o], t, w[o])

\* A TCB's node is deleted from whatever list holds it.
LEMMA UnlinkProperties ==
  ASSUME NEW lists \in [WaitObj -> Seq(Task)], NEW t,
         \A o \in WaitObj : Distinct(lists[o])
  PROVE  ListsWithout(lists, t, Unlink(lists, t))
<1>1. \A o \in WaitObj : Unlink(lists, t)[o] = Without(lists[o], t)
  BY DEF Unlink
<1>2. \A o \in WaitObj : /\ Without(lists[o], t) \in Seq(Task)
                         /\ Distinct(Without(lists[o], t))
                         /\ \A u : In(u, Without(lists[o], t)) <=> In(u, lists[o]) /\ u # t
  BY WithoutProperties
<1> QED BY <1>1, <1>2, UnlinkType DEF ListsWithout, ListWithout

-----------------------------------------------------------------------------
(* Kernel states.                                                          *)

\* What a TCB's flags say about the CPU and about the lists it is in.
TaskOK(k, t) ==
  /\ Has(k, t, "RUNNING") <=> t = k.run
  /\ Has(k, t, "READY") => k.status[t] \cap (Blocked \cup {"UNUSED"}) = {}
  /\ Has(k, t, "PEND_TIME") => Has(k, t, "PEND")
  /\ Has(k, t, "PEND") => ~Has(k, t, "DELAY") /\ ~Has(k, t, "TIMEOUT")
  /\ t \in Task =>
       /\ In(t, k.sorted) <=> (Has(k, t, "DELAY") \/ Has(k, t, "PEND_TIME")) /\ t # k.run
       /\ Has(k, t, "PEND") <=> \E o \in WaitObj : In(t, k.wait[o])
       /\ \A o1, o2 \in WaitObj : In(t, k.wait[o1]) /\ In(t, k.wait[o2]) => o1 = o2

\* The sort link, the wait lists and the flags of all TCBs agree.
ListsOK(k) ==
  /\ Distinct(k.sorted) /\ \A o \in WaitObj : Distinct(k.wait[o])
  /\ \A t \in TCB : TaskOK(k, t)

\* The waits of two kernel states are the same.
SameWaits(k, l) == l.sorted = k.sorted /\ l.wait = k.wait

\* One TCB changes; for the others the lists and the CPU are what they were.
LEMMA OneChanges ==
  ASSUME NEW k, ListsOK(k), NEW t \in TCB, NEW l, l.run = k.run,
         Distinct(l.sorted), \A o \in WaitObj : Distinct(l.wait[o]),
         \A u \in TCB \ {t} : /\ l.status[u] = k.status[u]
                              /\ In(u, l.sorted) <=> In(u, k.sorted)
                              /\ \A o \in WaitObj : In(u, l.wait[o]) <=> In(u, k.wait[o]),
         TaskOK(l, t)
  PROVE  ListsOK(l)
<1>1. ASSUME NEW u \in TCB, u # t PROVE TaskOK(l, u)
  BY <1>1 DEF ListsOK, TaskOK, Has
<1> QED BY <1>1 DEF ListsOK

\* The same where the lists do not change at all.
LEMMA OneStatusChanges ==
  ASSUME NEW k, ListsOK(k), NEW t \in TCB, NEW l, l.run = k.run, SameWaits(k, l),
         \A u \in TCB \ {t} : l.status[u] = k.status[u],
         TaskOK(l, t)
  PROVE  ListsOK(l)
BY OneChanges DEF SameWaits, ListsOK

\* Neither the lists nor the flags change.
LEMMA NothingChanges ==
  ASSUME NEW k, ListsOK(k), NEW l, l.run = k.run, SameWaits(k, l), l.status = k.status
  PROVE  ListsOK(l)
BY DEF SameWaits, ListsOK, TaskOK, Has

\* A record update that the provers leave as it is.
Enqueued(k, t, p, q) == [k EXCEPT !.bitmap = @ \cup {p}, !.slice[t] = TRUE, !.ready[p] = q]

\* A task that is READY already fails the assertion; any other gets READY and
\* loses the flags of a block, and no wait changes.
LEMMA EnQueueEffect ==
  ASSUME NEW k \in Kernel, NEW t \in Task \cup {Idle}
  PROVE  LET l == OsSchedTaskEnQueue(k, t) IN
         /\ Has(k, t, "READY") => l.halted
         /\ SameWaits(k, l) /\ l.run = k.run /\ l.lock = k.lock
         /\ l.recycle = k.recycle /\ l.priority = k.priority
         /\ ~Has(k, t, "READY") =>
              /\ l.halted = k.halted
              /\ \A u \in TCB : l.status[u] =
                   IF u = t
                   THEN (k.status[u] \ {"PEND", "SUSPEND", "DELAY", "PEND_TIME"}) \cup {"READY"}
                   ELSE k.status[u]
<1> DEFINE flags == (k.status[t] \ {"PEND", "SUSPEND", "DELAY", "PEND_TIME"}) \cup {"READY"}
           m == WithStatus(k, t, flags)
           p == k.priority[t]
           q == IF k.slice[t] THEN <<t>> \o k.ready[p] ELSE Append(k.ready[p], t)
           l == OsSchedTaskEnQueue(k, t)
<1>1. t \in TCB /\ flags \in SUBSET Flag
  BY TCBs, KernelFields DEF Flag
<1>2. CASE Has(k, t, "READY")
  <2>1. l = [k EXCEPT !.halted = TRUE]
    BY <1>2 DEF OsSchedTaskEnQueue
  <2> HIDE DEF l
  <2> QED BY <2>1, <1>2 DEF Kernel, SameWaits, l
<1>3. CASE ~Has(k, t, "READY")
  <2>1. l = IF t = Idle THEN m ELSE Enqueued(m, t, p, q)
    <3>1. CASE t = Idle
      BY <3>1, <1>3 DEF OsSchedTaskEnQueue, WithStatus
    <3>2. CASE t # Idle
      <4>1. /\ m = [k EXCEPT !.status[t] = flags] /\ m.ready[p] = k.ready[p]
        BY DEF WithStatus, Kernel
      <4> QED BY <4>1, <3>2, <1>3 DEF OsSchedTaskEnQueue, Enqueued
    <3> QED BY <3>1, <3>2
  <2> HIDE DEF flags, p, q, l
  <2>2. /\ m \in Kernel
        /\ \A u \in TCB : m.status[u] = IF u = t THEN flags ELSE k.status[u]
        /\ m.run = k.run /\ m.lock = k.lock /\ m.recycle = k.recycle
        /\ m.priority = k.priority /\ m.halted = k.halted
        /\ m.sorted = k.sorted /\ m.wait = k.wait
    BY <1>1, StatusUpdate DEF WithStatus
  <2> HIDE DEF m
  <2> DEFINE e == Enqueued(m, t, p, q)
  <2>3. /\ e.status = m.status /\ e.run = m.run /\ e.lock = m.lock
        /\ e.recycle = m.recycle /\ e.priority = m.priority /\ e.halted = m.halted
        /\ e.sorted = m.sorted /\ e.wait = m.wait
    BY <2>2 DEF Enqueued, Kernel
  <2> HIDE DEF e
  <2>4. /\ l.status = m.status /\ l.run = m.run /\ l.lock = m.lock
        /\ l.recycle = m.recycle /\ l.priority = m.priority /\ l.halted = m.halted
        /\ l.sorted = m.sorted /\ l.wait = m.wait
    BY <2>1, <2>3 DEF e
  <2> QED BY <2>2, <2>4, <1>3 DEF SameWaits, l, flags
<1> QED BY <1>2, <1>3

\* A task that waits for nothing goes into its ready queue.
LEMMA EnQueueLists ==
  ASSUME NEW k \in Kernel, ListsOK(k), NEW t \in Task \cup {Idle},
         k.status[t] \cap {"PEND", "PEND_TIME", "DELAY", "UNUSED"} = {}
  PROVE  LET l == OsSchedTaskEnQueue(k, t) IN (Has(k, t, "READY") /\ l.halted) \/ ListsOK(l)
<1> DEFINE l == OsSchedTaskEnQueue(k, t)
<1>1. CASE Has(k, t, "READY")
  BY <1>1, EnQueueEffect
<1>2. CASE ~Has(k, t, "READY")
  <2>1. /\ SameWaits(k, l) /\ l.run = k.run
        /\ \A u \in TCB : l.status[u] =
             IF u = t
             THEN (k.status[u] \ {"PEND", "SUSPEND", "DELAY", "PEND_TIME"}) \cup {"READY"}
             ELSE k.status[u]
    BY <1>2, EnQueueEffect
  <2> HIDE DEF l
  <2>2. t \in TCB /\ TaskOK(k, t)
    BY TCBs DEF ListsOK
  <2>3. /\ l.status[t] = (k.status[t] \ {"PEND", "SUSPEND", "DELAY", "PEND_TIME"}) \cup {"READY"}
        /\ \A u \in TCB \ {t} : l.status[u] = k.status[u]
    BY <2>1, <2>2
  <2>4. TaskOK(l, t)
    BY <2>1, <2>2, <2>3 DEF TaskOK, SameWaits, Has, Blocked
  <2>5. ListsOK(l)
    BY <2>1, <2>2, <2>3, <2>4, OneStatusChanges
  <2> QED BY <2>5 DEF l
<1> QED BY <1>1, <1>2

\* A task leaves its ready queue.
LEMMA DeQueueEffect ==
  ASSUME NEW k, KInv(k), NEW t \in Task \cup {Idle}
  PROVE  LET l == OsSchedTaskDeQueue(k, t) IN
         /\ SameWaits(k, l) /\ l.run = k.run /\ l.lock = k.lock
         /\ l.recycle = k.recycle /\ l.priority = k.priority /\ l.halted = k.halted
         /\ \A u \in TCB : l.status[u] = IF u = t THEN k.status[u] \ {"READY"} ELSE k.status[u]
<1> DEFINE l == OsSchedTaskDeQueue(k, t)
<1>1. k \in Kernel /\ t \in TCB
  BY TCBs DEF KInv
<1>2. l.halted = k.halted
  <2> DEFINE d == OsSchedPriQueueDelete(k, t)
  <2>1. d.halted = k.halted /\ d.status = k.status
    BY <1>1 DEF OsSchedPriQueueDelete, Kernel
  <2>2. \A j : ClearFlag(j, t, {"READY"}) = [j EXCEPT !.status[t] = @ \ {"READY"}]
    BY DEF ClearFlag
  <2> QED BY <1>1, <2>1, <2>2 DEF OsSchedTaskDeQueue, ClearFlag, OsSchedPriQueueDelete, Kernel
<1>3. /\ KInv(l) /\ Keeps(k, l) /\ l.status = [k.status EXCEPT ![t] = @ \ {"READY"}]
      /\ l.priority = k.priority /\ l.sorted = k.sorted /\ l.wait = k.wait
  BY DeQueuePreserves
<1> HIDE DEF l
<1>4. \A u \in TCB : l.status[u] = IF u = t THEN k.status[u] \ {"READY"} ELSE k.status[u]
  BY <1>1, <1>3, KernelFields
<1> QED BY <1>2, <1>3, <1>4 DEF Keeps, SameWaits, l

\* So the lists agree after it.
LEMMA DeQueueLists ==
  ASSUME NEW k, KInv(k), ListsOK(k), NEW t \in Task \cup {Idle}
  PROVE  ListsOK(OsSchedTaskDeQueue(k, t))
<1> DEFINE l == OsSchedTaskDeQueue(k, t)
<1>1. /\ SameWaits(k, l) /\ l.run = k.run
      /\ \A u \in TCB : l.status[u] = IF u = t THEN k.status[u] \ {"READY"} ELSE k.status[u]
  BY DeQueueEffect
<1> HIDE DEF l
<1>2. t \in TCB /\ TaskOK(k, t)
  BY TCBs DEF ListsOK
<1>3. l.status[t] = k.status[t] \ {"READY"} /\ \A u \in TCB \ {t} : l.status[u] = k.status[u]
  BY <1>1, <1>2
<1>4. TaskOK(l, t)
  BY <1>1, <1>2, <1>3 DEF TaskOK, SameWaits, Has
<1> QED BY <1>1, <1>2, <1>3, <1>4, OneStatusChanges DEF l

\* A new priority moves a READY task to another queue and changes no flag.
LEMMA ModifyEffect ==
  ASSUME NEW k, KInv(k), ListsOK(k), NEW t \in Task, NEW p \in Prio, ~Has(k, t, "UNUSED")
  PROVE  LET l == OsSchedModifyTaskSchedParam(k, t, p) IN
         /\ ListsOK(l) /\ SameWaits(k, l) /\ l.run = k.run /\ l.lock = k.lock
         /\ l.recycle = k.recycle /\ l.halted = k.halted
         /\ l.priority = [k.priority EXCEPT ![t] = p]
         /\ \A u \in TCB : l.status[u] = k.status[u]
<1> DEFINE l == OsSchedModifyTaskSchedParam(k, t, p)
<1>1. k \in Kernel /\ t \in TCB /\ TaskOK(k, t)
  BY TCBs DEF KInv, ListsOK
<1>2. /\ SameWaits(k, l) /\ l.run = k.run /\ l.lock = k.lock
      /\ l.recycle = k.recycle /\ l.halted = k.halted
      /\ l.priority = [k.priority EXCEPT ![t] = p]
      /\ \A u \in TCB : l.status[u] = k.status[u]
  <2>1. CASE ~Has(k, t, "READY")
    <3>1. l = [k EXCEPT !.priority[t] = p]
      BY <2>1 DEF OsSchedModifyTaskSchedParam
    <3> HIDE DEF l
    <3> QED BY <3>1, <1>1 DEF Kernel, SameWaits
  <2>2. CASE Has(k, t, "READY")
    <3> DEFINE d == OsSchedTaskDeQueue(k, t)
               m == [d EXCEPT !.priority[t] = p]
    <3>1. /\ SameWaits(k, d) /\ d.run = k.run /\ d.lock = k.lock /\ d.recycle = k.recycle
          /\ d.priority = k.priority /\ d.halted = k.halted
          /\ \A u \in TCB : d.status[u] = IF u = t THEN k.status[u] \ {"READY"} ELSE k.status[u]
      BY DeQueueEffect
    <3>2. KInv(d)
      BY DeQueuePreserves
    <3>3. l = OsSchedTaskEnQueue(m, t)
      BY <2>2 DEF OsSchedModifyTaskSchedParam
    <3> HIDE DEF d, l
    <3>4. m \in Kernel
      BY <3>2 DEF KInv, Kernel
    <3>5. /\ m.sorted = d.sorted /\ m.wait = d.wait /\ m.run = d.run /\ m.lock = d.lock
          /\ m.recycle = d.recycle /\ m.halted = d.halted /\ m.status = d.status
          /\ m.priority = [d.priority EXCEPT ![t] = p]
      BY <3>2 DEF KInv, Kernel
    <3> HIDE DEF m
    <3>6. ~Has(m, t, "READY")
      BY <3>1, <3>5, <1>1 DEF Has
    <3>7. /\ SameWaits(m, l) /\ l.run = m.run /\ l.lock = m.lock
          /\ l.recycle = m.recycle /\ l.priority = m.priority /\ l.halted = m.halted
          /\ \A u \in TCB : l.status[u] =
               IF u = t
               THEN (m.status[u] \ {"PEND", "SUSPEND", "DELAY", "PEND_TIME"}) \cup {"READY"}
               ELSE m.status[u]
      <4>1. t \in Task \cup {Idle}
        OBVIOUS
      <4> QED BY ONLY <4>1, <3>3, <3>4, <3>6, EnQueueEffect
    <3>8. ((k.status[t] \ {"READY"}) \ {"PEND", "SUSPEND", "DELAY", "PEND_TIME"}) \cup {"READY"}
            = k.status[t]
      BY <2>2, <1>1 DEF TaskOK, Has, Blocked
    <3>9. ASSUME NEW u \in TCB PROVE l.status[u] = k.status[u]
      <4>1. CASE u = t
        <5>1. l.status[t] = (m.status[t] \ {"PEND", "SUSPEND", "DELAY", "PEND_TIME"}) \cup {"READY"}
          BY <3>7, <1>1
        <5>2. m.status[t] = k.status[t] \ {"READY"}
          BY <3>1, <3>5, <1>1
        <5> QED BY <4>1, <5>1, <5>2, <3>8
      <4>2. CASE u # t
        BY <4>2, <3>1, <3>5, <3>7, ZenonT(40)
      <4> QED BY <4>1, <4>2
    <3> QED BY <3>1, <3>5, <3>7, <3>9 DEF SameWaits
  <2> QED BY <2>1, <2>2
<1> HIDE DEF l
<1>3. ListsOK(l)
  BY <1>2 DEF ListsOK, TaskOK, SameWaits, Has
<1> QED BY <1>2, <1>3 DEF l

\* One TCB's flags, the wait lists and the sort link change.
WithWaits(k, t, flags, w, s) == [k EXCEPT !.status[t] = flags, !.wait = w, !.sorted = s]

\* Kernel state l is that update of k.
WaitsBecome(k, l, t, flags, w, s) ==
  /\ l \in Kernel /\ l.wait = w /\ l.sorted = s
  /\ l.status = [k.status EXCEPT ![t] = flags]
  /\ \A u \in TCB : l.status[u] = IF u = t THEN flags ELSE k.status[u]
  /\ l.ready = k.ready /\ l.bitmap = k.bitmap /\ l.priority = k.priority
  /\ l.free = k.free /\ l.recycle = k.recycle
  /\ l.run = k.run /\ l.lock = k.lock /\ l.halted = k.halted

\* It is the update it is meant to be.
LEMMA WaitsUpdated ==
  ASSUME NEW k \in Kernel, NEW t \in TCB, NEW flags \in SUBSET Flag,
         NEW w \in [WaitObj -> Seq(Task)], NEW s \in Seq(Task)
  PROVE  WaitsBecome(k, WithWaits(k, t, flags, w, s), t, flags, w, s)
BY DEF WaitsBecome, WithWaits, Kernel

\* What the end of t's block makes of the kernel: t is off its lists, the wait
\* lists are w now, and t has the flag TIMEOUT if the time ended the block.
Released(k, l, t, w, timeout) ==
  /\ KInv(l) /\ Keeps(k, l) /\ ListsOK(l)
  /\ l.wait = w /\ l.priority = k.priority /\ l.halted = k.halted
  /\ \A u \in TCB \ {t} : l.status[u] = k.status[u]
  /\ ~Has(l, t, "PEND") /\ (Has(l, t, "TIMEOUT") <=> Has(k, t, "TIMEOUT") \/ timeout)
  /\ (Has(l, t, "SUSPEND") <=> Has(k, t, "SUSPEND"))
  /\ (Has(l, t, "READY") <=> ~Has(k, t, "SUSPEND"))

\* The end of a block: the task leaves its lists, and unless it is suspended
\* it becomes READY.
LEMMA UnblockEffect ==
  ASSUME NEW k, KInv(k), ListsOK(k), NEW t \in Task, NEW out \in SUBSET {"TIMEOUT"},
         NEW w, ListsWithout(k.wait, t, w), NEW s, ListWithout(k.sorted, t, s),
         Has(k, t, "PEND") \/ Has(k, t, "DELAY"),
         NEW l,
         LET flags == (k.status[t] \ {"PEND", "PEND_TIME", "DELAY"}) \cup out
             timed == WithWaits(k, t, flags, w, s)
         IN  l = IF Has(k, t, "SUSPEND") THEN timed ELSE OsSchedTaskEnQueue(timed, t)
  PROVE  Released(k, l, t, w, out # {})
<1> USE DEF Released
<1> DEFINE flags == (k.status[t] \ {"PEND", "PEND_TIME", "DELAY"}) \cup out
           timed == WithWaits(k, t, flags, w, s)
<1>1. k \in Kernel /\ t \in TCB /\ TaskOK(k, t) /\ t # Idle
  BY TCBs DEF KInv, ListsOK
<1>2. ~Has(k, t, "READY") /\ ~Has(k, t, "UNUSED")
  BY <1>1 DEF TaskOK, Has, Blocked, KInv, StatusOK
<1>3. flags \in SUBSET Flag
  BY <1>1, KernelFields DEF Flag
<1>4. /\ \A f \in {"READY", "UNUSED", "RUNNING", "SUSPEND"} : f \in flags <=> Has(k, t, f)
      /\ \A f \in {"PEND", "PEND_TIME", "DELAY"} : f \notin flags
      /\ "TIMEOUT" \in flags <=> Has(k, t, "TIMEOUT") \/ out # {}
  BY DEF Has
<1>5. l = IF Has(k, t, "SUSPEND") THEN timed ELSE OsSchedTaskEnQueue(timed, t)
  OBVIOUS
<1> USE DEF ListWithout, ListsWithout
<1> HIDE DEF flags
<1>6. /\ timed \in Kernel /\ timed.wait = w /\ timed.sorted = s
      /\ timed.status = [k.status EXCEPT ![t] = flags]
      /\ \A u \in TCB : timed.status[u] = IF u = t THEN flags ELSE k.status[u]
      /\ timed.ready = k.ready /\ timed.bitmap = k.bitmap /\ timed.priority = k.priority
      /\ timed.free = k.free /\ timed.recycle = k.recycle
      /\ timed.run = k.run /\ timed.lock = k.lock /\ timed.halted = k.halted
  <2>1. WaitsBecome(k, timed, t, flags, w, s)
    BY <1>1, <1>3, WaitsUpdated
  <2> HIDE DEF timed
  <2> QED BY <2>1 DEF WaitsBecome
<1> HIDE DEF timed
<1>7. timed.status[t] = flags /\ \A u \in TCB \ {t} : timed.status[u] = k.status[u]
  BY <1>1, <1>6
<1>8. KInv(timed) /\ Keeps(k, timed)
  BY <1>1, <1>2, <1>3, <1>4, <1>6, FlagChange
<1>9. TaskOK(timed, t)
  <2>1. /\ ~In(t, timed.sorted) /\ \A o \in WaitObj : ~In(t, timed.wait[o])
    BY <1>6
  <2>2. Has(timed, t, "RUNNING") <=> t = timed.run
    BY <1>1, <1>4, <1>6, <1>7 DEF TaskOK, Has
  <2>3. ~Has(timed, t, "READY") /\ \A f \in {"PEND", "PEND_TIME", "DELAY"} : ~Has(timed, t, f)
    BY <1>2, <1>4, <1>7 DEF Has
  <2> QED BY <2>1, <2>2, <2>3 DEF TaskOK
<1>10. ListsOK(timed)
  <2>1. \A u \in TCB \ {t} : /\ In(u, timed.sorted) <=> In(u, k.sorted)
                             /\ \A o \in WaitObj : In(u, timed.wait[o]) <=> In(u, k.wait[o])
    BY <1>6
  <2> QED BY <2>1, <1>1, <1>6, <1>7, <1>9, OneChanges
<1>11. CASE Has(k, t, "SUSPEND")
  <2>1. l = timed
    BY <1>5, <1>11
  <2> QED BY <2>1, <1>2, <1>4, <1>6, <1>7, <1>8, <1>10, <1>11 DEF Has
<1>12. CASE ~Has(k, t, "SUSPEND")
  <2>1. l = OsSchedTaskEnQueue(timed, t)
    BY <1>5, <1>12
  <2>2. ~Has(timed, t, "READY") /\ ~Has(timed, t, "UNUSED")
    BY <1>2, <1>4, <1>7 DEF Has
  <2>3. t \in Task \cup {Idle}
    OBVIOUS
  <2>4. KInv(l) /\ Keeps(timed, l)
    BY ONLY <2>1, <2>2, <2>3, <1>8, EnQueuePreserves
  <2>5. /\ SameWaits(timed, l) /\ l.priority = timed.priority /\ l.halted = timed.halted
        /\ \A u \in TCB : l.status[u] =
             IF u = t
             THEN (timed.status[u] \ {"PEND", "SUSPEND", "DELAY", "PEND_TIME"}) \cup {"READY"}
             ELSE timed.status[u]
    <3>1. timed \in Kernel
      BY <1>6
    <3> QED BY ONLY <3>1, <2>1, <2>2, <2>3, EnQueueEffect
  <2>6. timed.status[t] \cap {"PEND", "PEND_TIME", "DELAY", "UNUSED"} = {}
    BY <1>2, <1>4, <1>7 DEF Has
  <2>7. (Has(timed, t, "READY") /\ l.halted) \/ ListsOK(l)
    BY ONLY <2>1, <2>3, <2>6, <1>6, <1>10, EnQueueLists
  <2>8. l.status[t] = (flags \ {"PEND", "SUSPEND", "DELAY", "PEND_TIME"}) \cup {"READY"}
    BY <2>5, <1>1, <1>7
  <2>9. /\ ~Has(l, t, "PEND") /\ Has(l, t, "READY") /\ ~Has(l, t, "SUSPEND")
        /\ (Has(l, t, "TIMEOUT") <=> Has(k, t, "TIMEOUT") \/ out # {})
    BY <2>8, <1>4 DEF Has
  <2>10. Keeps(k, l)
    BY <2>4, <1>8, KeepsTransitive
  <2>11. \A u \in TCB \ {t} : l.status[u] = k.status[u]
    BY <2>5, <1>7
  <2>12. ListsOK(l)
    BY <2>2, <2>7
  <2> QED BY <2>4, <2>5, <2>9, <2>10, <2>11, <2>12, <1>6, <1>12 DEF SameWaits
<1> QED BY <1>11, <1>12

\* A list that does not hold the task is not changed by its removal.
LEMMA WithoutAbsent ==
  ASSUME NEW s, NEW t, ~In(t, s)
  PROVE  Without(s, t) = s
BY DEF Without

\* The same for all the wait lists.
LEMMA UnlinkAbsent ==
  ASSUME NEW lists \in [WaitObj -> Seq(Task)], NEW t, \A o \in WaitObj : ~In(t, lists[o])
  PROVE  Unlink(lists, t) = lists
<1>1. \A o \in WaitObj : Unlink(lists, t)[o] = lists[o]
  BY WithoutAbsent DEF Unlink
<1>2. Unlink(lists, t) = [o \in WaitObj |-> Without(lists[o], t)]
  BY DEF Unlink
<1> QED BY <1>1, <1>2

\* A pending task is woken (OsSchedTaskWake).
LEMMA WakeEffect ==
  ASSUME NEW k, KInv(k), ListsOK(k), NEW t \in Task, Has(k, t, "PEND")
  PROVE  Released(k, OsSchedTaskWake(k, t), t, Unlink(k.wait, t), FALSE)
<1> DEFINE w == Unlink(k.wait, t)
           s == Without(k.sorted, t)
           flags == (k.status[t] \ {"PEND", "PEND_TIME", "DELAY"}) \cup {}
           timed == WithWaits(k, t, flags, w, s)
           l == OsSchedTaskWake(k, t)
<1>1. k \in Kernel /\ t \in TCB /\ TaskOK(k, t)
  BY TCBs DEF KInv, ListsOK
<1>2. k.wait \in [WaitObj -> Seq(Task)] /\ k.sorted \in Seq(Task) /\ k.status \in [TCB -> SUBSET Flag]
  BY <1>1, KernelFields
<1>3. Distinct(k.sorted) /\ \A o \in WaitObj : Distinct(k.wait[o])
  BY DEF ListsOK
<1>4. ListsWithout(k.wait, t, w)
  BY <1>2, <1>3, UnlinkProperties
<1>5. ListWithout(k.sorted, t, s)
  BY <1>2, <1>3, WithoutProperties DEF ListWithout
<1>6. ~Has(k, t, "PEND_TIME") => s = k.sorted
  BY <1>1, WithoutAbsent DEF TaskOK
<1>7. l = IF Has(k, t, "SUSPEND") THEN timed ELSE OsSchedTaskEnQueue(timed, t)
  <2> DEFINE cleared == WithStatus(k, t, k.status[t] \ {"PEND"})
             off  == [cleared EXCEPT !.wait = Unlink(@, t)]
             less == ClearFlag(OsDeleteSortLink(off, t), t, {"PEND_TIME"})
  <2>1. off = WithWaits(k, t, k.status[t] \ {"PEND"}, w, k.sorted)
    BY <1>1, <1>2 DEF WithStatus, WithWaits, Kernel
  <2>2. l = LET timed_1 == IF Has(k, t, "PEND_TIME") THEN less ELSE off
            IN  IF Has(k, t, "SUSPEND") THEN timed_1 ELSE OsSchedTaskEnQueue(timed_1, t)
    BY DEF OsSchedTaskWake, ClearFlag, WithStatus
  <2>3. CASE Has(k, t, "PEND_TIME")
    <3>1. flags = (k.status[t] \ {"PEND"}) \ {"PEND_TIME"}
      BY <1>1 DEF TaskOK, Has
    <3>2. less = WithWaits(k, t, (k.status[t] \ {"PEND"}) \ {"PEND_TIME"}, w, s)
      <4> HIDE DEF off, w
      <4> QED BY <2>1, <1>1, <1>2 DEF ClearFlag, OsDeleteSortLink, WithWaits, Kernel
    <3> QED BY <3>1, <3>2, <2>2, <2>3
  <2>4. CASE ~Has(k, t, "PEND_TIME")
    <3>1. flags = k.status[t] \ {"PEND"}
      BY <2>4, <1>1 DEF TaskOK, Has
    <3>2. off = timed
      BY <2>1, <2>4, <3>1, <1>6
    <3> QED BY <3>2, <2>2, <2>4
  <2> QED BY <2>3, <2>4
<1>8. {} \in SUBSET {"TIMEOUT"} /\ (Has(k, t, "PEND") \/ Has(k, t, "DELAY"))
  OBVIOUS
<1> HIDE DEF w, s, l
<1>9. Released(k, l, t, w, {} # {})
  BY ONLY KInv(k), ListsOK(k), t \in Task, <1>4, <1>5, <1>7, <1>8, UnblockEffect
<1> QED BY <1>9 DEF Released, w, l

\* The first entry of the sort link is due: its task's delay or wait is over.
LEMMA ExpireEffect ==
  ASSUME NEW k, KInv(k), ListsOK(k), k.sorted # <<>>
  PROVE  LET t == Head(k.sorted) IN
         /\ t \in Task /\ t # k.run /\ In(t, k.sorted) /\ (Has(k, t, "PEND") \/ Has(k, t, "DELAY"))
         /\ Released(k, OsSchedWakePendTimeTask(k), t, Unlink(k.wait, t), Has(k, t, "PEND"))
<1> DEFINE t == Head(k.sorted)
           s == Tail(k.sorted)
           w == Unlink(k.wait, t)
           out == IF Has(k, t, "PEND") THEN {"TIMEOUT"} ELSE {}
           flags == (k.status[t] \ {"PEND", "PEND_TIME", "DELAY"}) \cup out
           timed == WithWaits(k, t, flags, w, s)
           l == OsSchedWakePendTimeTask(k)
<1>1. k \in Kernel
  BY DEF KInv
<1>2. k.wait \in [WaitObj -> Seq(Task)] /\ k.sorted \in Seq(Task) /\ k.status \in [TCB -> SUBSET Flag]
  BY <1>1, KernelFields
<1>3. Distinct(k.sorted) /\ \A o \in WaitObj : Distinct(k.wait[o])
  BY DEF ListsOK
<1>4. t \in Task /\ In(t, k.sorted) /\ ListWithout(k.sorted, t, s)
  BY <1>2, <1>3, TailProperties DEF ListWithout
<1>5. t \in TCB /\ TaskOK(k, t)
  BY <1>4, TCBs DEF ListsOK
<1>6. t # k.run /\ (Has(k, t, "PEND") \/ Has(k, t, "DELAY"))
  BY <1>4, <1>5 DEF TaskOK
<1>7. ListsWithout(k.wait, t, w)
  <2> HIDE DEF t
  <2> QED BY <1>2, <1>3, UnlinkProperties
<1>8. ~Has(k, t, "PEND") => w = k.wait
  <2>1. ~Has(k, t, "PEND") => \A o \in WaitObj : ~In(t, k.wait[o])
    BY <1>4, <1>5 DEF TaskOK
  <2> QED BY <2>1, <1>2, UnlinkAbsent
<1> HIDE DEF w
<1>9. l = IF Has(k, t, "SUSPEND") THEN timed ELSE OsSchedTaskEnQueue(timed, t)
  <2> DEFINE off == [k EXCEPT !.sorted = Tail(@)]
             ins == [off EXCEPT !.status[t] = (@ \ {"PEND", "PEND_TIME", "DELAY"}) \cup out,
                                !.wait = IF Has(k, t, "PEND") THEN Unlink(@, t) ELSE @]
  <2>1. l = IF Has(k, t, "SUSPEND") THEN ins ELSE OsSchedTaskEnQueue(ins, t)
    BY <1>6 DEF OsSchedWakePendTimeTask
  <2> HIDE DEF l, t
  <2>2. off.wait = k.wait /\ off.status = k.status
    BY <1>1 DEF Kernel
  <2>3. (IF Has(k, t, "PEND") THEN Unlink(k.wait, t) ELSE k.wait) = w
    BY <1>8 DEF w
  <2>4. ins = [off EXCEPT !.status[t] = flags, !.wait = w]
    BY <2>2, <2>3
  <2>5. ins = timed
    <3> HIDE DEF w, flags
    <3> QED BY <2>4, <1>1 DEF WithWaits, Kernel
  <2> QED BY <2>1, <2>5
<1>10. out \in SUBSET {"TIMEOUT"} /\ (out # {} <=> Has(k, t, "PEND"))
  OBVIOUS
<1> HIDE DEF t, s, l, out
<1>11. Released(k, l, t, w, out # {})
  BY ONLY KInv(k), ListsOK(k), <1>4, <1>6, <1>7, <1>9, <1>10, UnblockEffect
<1>12. Released(k, l, t, w, Has(k, t, "PEND"))
  BY <1>10, <1>11 DEF Released
<1> QED BY <1>4, <1>6, <1>12 DEF w, l, t

\* Deletion takes a task off its lists and out of its ready queue
\* (OsSchedTaskExit).
LEMMA ExitEffect ==
  ASSUME NEW k, KInv(k), ListsOK(k), NEW t \in Task
  PROVE  LET l == OsSchedTaskExit(k, t) IN
         /\ l.wait = Unlink(k.wait, t) /\ l.sorted = Without(k.sorted, t)
         /\ l.priority = k.priority /\ l.halted = k.halted
         /\ \A u \in TCB \ {t} : l.status[u] = k.status[u]
<1> DEFINE l == OsSchedTaskExit(k, t)
           timed == Has(k, t, "DELAY") \/ Has(k, t, "PEND_TIME")
<1>1. k \in Kernel /\ t \in TCB /\ TaskOK(k, t) /\ t \in Task \cup {Idle}
  BY TCBs DEF KInv, ListsOK
<1>2. k.wait \in [WaitObj -> Seq(Task)] /\ k.status \in [TCB -> SUBSET Flag]
  BY <1>1, KernelFields
<1>3. ~Has(k, t, "PEND") => Unlink(k.wait, t) = k.wait
  BY <1>1, <1>2, UnlinkAbsent DEF TaskOK
<1>4. ~timed => Without(k.sorted, t) = k.sorted
  BY <1>1, WithoutAbsent DEF TaskOK
<1>5. PICK off : /\ off.wait = Unlink(k.wait, t) /\ off.sorted = k.sorted
                 /\ off.priority = k.priority /\ off.halted = k.halted
                 /\ \A u \in TCB \ {t} : off.status[u] = k.status[u]
                 /\ off \in Kernel
                 /\ l = IF timed THEN ClearFlag(OsDeleteSortLink(off, t), t, {"DELAY", "PEND_TIME"})
                                 ELSE off
  <2> DEFINE off == IF Has(k, t, "READY") THEN OsSchedTaskDeQueue(k, t)
                    ELSE IF Has(k, t, "PEND")
                    THEN ClearFlag([k EXCEPT !.wait = Unlink(@, t)], t, {"PEND"})
                    ELSE k
  <2>1. l = IF timed THEN ClearFlag(OsDeleteSortLink(off, t), t, {"DELAY", "PEND_TIME"})
                     ELSE off
    BY DEF OsSchedTaskExit
  <2> HIDE DEF l
  <2>2. /\ off.wait = Unlink(k.wait, t) /\ off.sorted = k.sorted
        /\ off.priority = k.priority /\ off.halted = k.halted
        /\ \A u \in TCB \ {t} : off.status[u] = k.status[u]
        /\ off \in Kernel
    <3>1. CASE Has(k, t, "READY")
      <4>1. off = OsSchedTaskDeQueue(k, t)
        BY <3>1
      <4>2. ~Has(k, t, "PEND")
        BY <3>1, <1>1 DEF TaskOK, Has, Blocked
      <4> HIDE DEF off
      <4>3. KInv(off)
        BY <4>1, <1>1, DeQueuePreserves
      <4>4. /\ SameWaits(k, off) /\ off.priority = k.priority /\ off.halted = k.halted
            /\ \A u \in TCB : off.status[u] = IF u = t THEN k.status[u] \ {"READY"} ELSE k.status[u]
        BY ONLY <4>1, KInv(k), t \in Task \cup {Idle}, DeQueueEffect, <1>1
      <4> QED BY <4>2, <4>3, <4>4, <1>3 DEF SameWaits, KInv
    <3>2. CASE ~Has(k, t, "READY") /\ Has(k, t, "PEND")
      <4> DEFINE m == [k EXCEPT !.wait = Unlink(@, t)]
                 f == m.status[t] \ {"PEND"}
      <4>1. off = [m EXCEPT !.status[t] = f]
        BY <3>2 DEF ClearFlag
      <4>2. m \in Kernel /\ m.status = k.status
        BY <1>1, <1>2, UnlinkType DEF Kernel
      <4>3. /\ m.wait = Unlink(k.wait, t) /\ m.sorted = k.sorted
            /\ m.priority = k.priority /\ m.halted = k.halted
        BY <1>1 DEF Kernel
      <4> HIDE DEF m, off
      <4>4. f \in SUBSET Flag
        BY <1>1, <1>2, <4>2
      <4> HIDE DEF f
      <4>5. /\ off \in Kernel
            /\ \A u \in TCB : off.status[u] = IF u = t THEN f ELSE m.status[u]
            /\ off.priority = m.priority /\ off.sorted = m.sorted /\ off.wait = m.wait
            /\ off.halted = m.halted
        BY <1>1, <4>1, <4>2, <4>4, StatusUpdate, SMTT(40)
      <4> QED BY <4>2, <4>3, <4>5
    <3>3. CASE ~Has(k, t, "READY") /\ ~Has(k, t, "PEND")
      BY <3>3, <1>1, <1>3
    <3> QED BY <3>1, <3>2, <3>3
  <2> HIDE DEF off
  <2> QED BY <2>1, <2>2
<1> HIDE DEF l
<1>6. CASE timed
  <2> DEFINE m == [off EXCEPT !.sorted = Without(@, t)]
             f == m.status[t] \ {"DELAY", "PEND_TIME"}
  <2>1. l = [m EXCEPT !.status[t] = f]
    BY <1>5, <1>6 DEF ClearFlag, OsDeleteSortLink
  <2>2. Without(off.sorted, t) \in Seq(Task)
    BY <1>5, KernelFields, WithoutProperties
  <2>3. /\ m \in Kernel /\ m.status = off.status /\ m.sorted = Without(off.sorted, t)
        /\ m.wait = off.wait /\ m.priority = off.priority /\ m.halted = off.halted
    BY <1>5, <2>2 DEF Kernel
  <2> HIDE DEF m
  <2>4. f \in SUBSET Flag
    BY <1>1, <2>3, KernelFields
  <2> HIDE DEF f
  <2>5. /\ \A u \in TCB : l.status[u] = IF u = t THEN f ELSE m.status[u]
        /\ l.priority = m.priority /\ l.sorted = m.sorted /\ l.wait = m.wait
        /\ l.halted = m.halted
    BY <1>1, <2>1, <2>3, <2>4, StatusUpdate
  <2> QED BY <2>3, <2>5, <1>5 DEF l
<1>7. CASE ~timed
  BY <1>4, <1>5, <1>7 DEF l
<1> QED BY <1>6, <1>7

\* The priority of the task the bitmap leads to is the highest.
LEMMA TopTaskIsHighest ==
  ASSUME NEW k, KInv(k), NEW t \in Task, Has(k, t, "READY")
  PROVE  /\ OsGetTopTask(k) \in Task /\ Has(k, OsGetTopTask(k), "READY")
         /\ k.priority[OsGetTopTask(k)] <= k.priority[t]
<1>1. /\ k.bitmap \in SUBSET Nat /\ k.ready \in [Prio -> Seq(Task)]
      /\ k.priority[t] \in Prio /\ k.bitmap \subseteq Prio
  BY PrioAssumption, KernelFields DEF KInv
<1>2. k.priority[t] \in k.bitmap
  <2>1. In(t, k.ready[k.priority[t]])
    BY <1>1 DEF KInv, ReadyOK
  <2>2. k.ready[k.priority[t]] # <<>>
    BY <2>1 DEF In
  <2> QED BY <1>1, <2>2 DEF KInv, ReadyOK
<1> DEFINE p == CHOOSE q \in k.bitmap : \A r \in k.bitmap : q <= r
<1>3. p \in k.bitmap /\ p \in Prio /\ \A r \in k.bitmap : p <= r
  BY <1>1, <1>2, HighestPriority
<1>4. OsGetTopTask(k) = Head(k.ready[p])
  BY <1>2 DEF OsGetTopTask
<1> HIDE DEF p
<1>5. k.ready[p] \in Seq(Task) /\ k.ready[p] # <<>>
  BY <1>1, <1>3 DEF KInv, ReadyOK
<1>6. Head(k.ready[p]) \in Task /\ In(Head(k.ready[p]), k.ready[p])
  BY <1>5, TailProperties
<1>7. Has(k, Head(k.ready[p]), "READY") /\ k.priority[Head(k.ready[p])] = p
  BY <1>3, <1>6 DEF KInv, ReadyOK
<1> QED BY <1>2, <1>3, <1>4, <1>6, <1>7

\* Kernel state l is k after the task that leaves the CPU has gone to the sort
\* link, to its ready queue or nowhere.
HasLeft(k, l) ==
  /\ l.run = k.run /\ l.lock = k.lock /\ l.recycle = k.recycle
  /\ l.wait = k.wait /\ l.priority = k.priority
  /\ Distinct(l.sorted)
  /\ \A u \in TCB \ {k.run} : l.status[u] = k.status[u]
  /\ \A f \in Flag \ {"READY"} : Has(l, k.run, f) <=> Has(k, k.run, f)
  /\ Has(l, k.run, "READY") => l.status[k.run] \cap (Blocked \cup {"UNUSED"}) = {}
  /\ \A u \in Task : In(u, l.sorted) <=> Has(l, u, "DELAY") \/ Has(l, u, "PEND_TIME")

\* The first part of OsSchedTaskSwitch does that, or fails an assertion.
LEMMA LeaveCPUEffect ==
  ASSUME NEW k, KInv(k), ListsOK(k), NEW pos \in 1..(Len(k.sorted) + 1)
  PROVE  LET l == LeaveCPU(k, pos) IN l.halted \/ HasLeft(k, l)
<1> DEFINE t == k.run
           l == LeaveCPU(k, pos)
<1>1. k \in Kernel /\ t \in TCB /\ TaskOK(k, t) /\ k.sorted \in Seq(Task) /\ Distinct(k.sorted)
  BY KernelFields DEF KInv, ListsOK
<1>2. /\ \A u \in Task \ {t} : In(u, k.sorted) <=> Has(k, u, "DELAY") \/ Has(k, u, "PEND_TIME")
      /\ t \in Task => ~In(t, k.sorted)
  BY TCBs DEF ListsOK, TaskOK
<1>3. CASE Has(k, t, "PEND_TIME") \/ Has(k, t, "DELAY")
  <2>1. t \in Task
    BY <1>1, <1>3, TCBs DEF KInv, StatusOK, Has
  <2> DEFINE s == InsertAt(k.sorted, pos, t)
  <2>2. l = [k EXCEPT !.sorted = s]
    BY <1>3 DEF LeaveCPU, OsAdd2SortLink
  <2> HIDE DEF t
  <2>3. Distinct(s) /\ \A u : In(u, s) <=> In(u, k.sorted) \/ u = t
    BY <1>1, <1>2, <2>1, InsertAtProperties
  <2> HIDE DEF s, l
  <2>4. /\ l.run = k.run /\ l.lock = k.lock /\ l.recycle = k.recycle
        /\ l.wait = k.wait /\ l.priority = k.priority /\ l.status = k.status
        /\ l.sorted = s
    BY <1>1, <2>2 DEF Kernel
  <2>5. HasLeft(k, l)
    BY <1>1, <1>2, <1>3, <2>3, <2>4 DEF HasLeft, Has, TaskOK, t
  <2> QED BY <2>5 DEF l
<1>4. CASE /\ ~(Has(k, t, "PEND_TIME") \/ Has(k, t, "DELAY"))
           /\ k.status[t] \cap {"PEND", "SUSPEND", "UNUSED"} = {}
  <2>1. t # Dead
    BY <1>4 DEF KInv, StatusOK, Has
  <2>2. t \in Task \cup {Idle}
    BY <1>1, <2>1, TCBs
  <2>3. l = OsSchedTaskEnQueue(k, t)
    BY <1>4 DEF LeaveCPU
  <2> HIDE DEF t, l
  <2>4. CASE Has(k, t, "READY")
    BY ONLY <2>2, <2>3, <2>4, <1>1, EnQueueEffect DEF l
  <2>5. CASE ~Has(k, t, "READY")
    <3>1. /\ SameWaits(k, l) /\ l.run = k.run /\ l.lock = k.lock
          /\ l.recycle = k.recycle /\ l.priority = k.priority
          /\ \A u \in TCB : l.status[u] =
               IF u = t
               THEN (k.status[u] \ {"PEND", "SUSPEND", "DELAY", "PEND_TIME"}) \cup {"READY"}
               ELSE k.status[u]
      BY ONLY <2>2, <2>3, <2>5, <1>1, EnQueueEffect, ZenonT(40)
    <3>2. k.status[t] \cap {"PEND", "SUSPEND", "DELAY", "PEND_TIME", "UNUSED"} = {}
      BY <1>4 DEF Has
    <3>3. /\ l.status[t] = k.status[t] \cup {"READY"}
          /\ \A u \in TCB \ {t} : l.status[u] = k.status[u]
      BY <3>1, <3>2, <1>1
    <3>4. /\ \A f \in Flag \ {"READY"} : Has(l, t, f) <=> Has(k, t, f)
          /\ l.status[t] \cap (Blocked \cup {"UNUSED"}) = {}
      BY <3>2, <3>3 DEF Has, Blocked
    <3>5. \A u \in Task : In(u, l.sorted) <=> Has(l, u, "DELAY") \/ Has(l, u, "PEND_TIME")
      BY <1>2, <1>4, <3>1, <3>3, <3>4, TCBs DEF SameWaits, Has, Flag
    <3>6. HasLeft(k, l)
      BY <1>1, <3>1, <3>3, <3>4, <3>5 DEF HasLeft, SameWaits, t
    <3> QED BY <3>6 DEF l
  <2> QED BY <2>4, <2>5
<1>5. CASE /\ ~(Has(k, t, "PEND_TIME") \/ Has(k, t, "DELAY"))
           /\ k.status[t] \cap {"PEND", "SUSPEND", "UNUSED"} # {}
  <2>1. l = k
    BY <1>5 DEF LeaveCPU
  <2> HIDE DEF l
  <2>2. HasLeft(k, l)
    BY <2>1, <1>1, <1>2, <1>5 DEF HasLeft, TaskOK
  <2> QED BY <2>2 DEF l
<1> QED BY <1>3, <1>4, <1>5

\* The same kernel state but for the slice that has run.
LEMMA TimeSliceEffect ==
  ASSUME NEW k, KInv(k), ListsOK(k), NEW spent \in BOOLEAN
  PROVE  LET l == OsTimeSliceUpdate(k, spent) IN
         /\ ListsOK(l) /\ SameWaits(k, l) /\ l.status = k.status /\ l.priority = k.priority
         /\ l.run = k.run /\ l.lock = k.lock /\ l.recycle = k.recycle /\ l.halted = k.halted
<1> DEFINE l == OsTimeSliceUpdate(k, spent)
<1>1. /\ SameWaits(k, l) /\ l.status = k.status /\ l.priority = k.priority
      /\ l.run = k.run /\ l.lock = k.lock /\ l.recycle = k.recycle /\ l.halted = k.halted
  <2>1. k \in Kernel
    BY DEF KInv
  <2>2. CASE k.run \in Task
    <3> DEFINE m == [k EXCEPT !.slice[k.run] = @ /\ ~spent]
    <3>1. l = m
      BY <2>2 DEF OsTimeSliceUpdate
    <3> HIDE DEF l
    <3> QED BY <3>1, <2>1 DEF Kernel, SameWaits
  <2>3. CASE k.run \notin Task
    BY <2>3 DEF OsTimeSliceUpdate, SameWaits
  <2> QED BY <2>2, <2>3
<1> HIDE DEF l
<1>2. ListsOK(l)
  BY <1>1, NothingChanges
<1> QED BY <1>1, <1>2 DEF l

\* The flags a context switch leaves alone.
Lasting == {"PEND", "PEND_TIME", "DELAY", "SUSPEND", "TIMEOUT"}

\* What a context switch makes of the kernel: the lists agree, and the task
\* that runs now is able to and has the highest priority.
Switched(k, l) ==
  /\ ListsOK(l) /\ l.wait = k.wait /\ l.priority = k.priority
  /\ l.lock = k.lock /\ l.recycle = k.recycle
  /\ \A u \in TCB : \A f \in Lasting : Has(l, u, f) <=> Has(k, u, f)
  /\ \A u \in TCB \ {k.run, l.run} : l.status[u] = k.status[u]
  /\ l.run # Dead /\ l.status[l.run] \cap (Blocked \cup {"READY"}) = {}
  /\ \A t \in Task : Has(l, t, "READY") =>
       l.run \in Task /\ l.priority[l.run] <= l.priority[t]

\* The swap itself, of any kernel state, as the provers leave it.
Swapped(k, old, new) ==
  [SetFlag(ClearFlag(k, old, {"RUNNING"}), new, {"RUNNING"}) EXCEPT !.run = new]

SwapBecomes(k, l, old, new) ==
  /\ l.run = new /\ SameWaits(k, l) /\ l.priority = k.priority
  /\ l.lock = k.lock /\ l.recycle = k.recycle /\ l.halted = k.halted
  /\ \A u \in TCB : l.status[u] =
       IF u = new THEN k.status[u] \cup {"RUNNING"}
       ELSE IF u = old THEN k.status[u] \ {"RUNNING"} ELSE k.status[u]

\* What the swap does, field by field.
LEMMA SwapEffect ==
  ASSUME NEW k \in Kernel, NEW old \in TCB, NEW new \in TCB
  PROVE  SwapBecomes(k, Swapped(k, old, new), old, new)
<1> DEFINE f == k.status[old] \ {"RUNNING"}
           a == ClearFlag(k, old, {"RUNNING"})
           g == a.status[new] \cup {"RUNNING"}
           b == SetFlag(a, new, {"RUNNING"})
           l == Swapped(k, old, new)
<1>1. f \in SUBSET Flag
  BY KernelFields
<1>2. a = [k EXCEPT !.status[old] = f]
  BY DEF ClearFlag
<1> HIDE DEF f, a
<1>3. /\ a \in Kernel /\ a.priority = k.priority /\ a.lock = k.lock
      /\ a.recycle = k.recycle /\ a.halted = k.halted
      /\ a.sorted = k.sorted /\ a.wait = k.wait
      /\ \A u \in TCB : a.status[u] = IF u = old THEN f ELSE k.status[u]
  BY <1>1, <1>2, StatusUpdate
<1>4. g \in SUBSET Flag
  BY <1>3, KernelFields DEF Flag
<1>5. b = [a EXCEPT !.status[new] = g]
  BY DEF SetFlag
<1> HIDE DEF g, b
<1>6. /\ b \in Kernel /\ b.priority = a.priority /\ b.lock = a.lock
      /\ b.recycle = a.recycle /\ b.halted = a.halted
      /\ b.sorted = a.sorted /\ b.wait = a.wait
      /\ \A u \in TCB : b.status[u] = IF u = new THEN g ELSE a.status[u]
  BY <1>3, <1>4, <1>5, StatusUpdate
<1>7. l = [b EXCEPT !.run = new]
  BY DEF Swapped, a, b
<1> HIDE DEF l
<1>8. /\ l.run = new /\ l.sorted = b.sorted /\ l.wait = b.wait
      /\ l.priority = b.priority /\ l.lock = b.lock
      /\ l.recycle = b.recycle /\ l.halted = b.halted /\ l.status = b.status
  BY <1>6, <1>7 DEF Kernel
<1>9. ASSUME NEW u \in TCB
      PROVE  l.status[u] = IF u = new THEN k.status[u] \cup {"RUNNING"}
                           ELSE IF u = old THEN k.status[u] \ {"RUNNING"} ELSE k.status[u]
  <2>1. a.status[u] = IF u = old THEN k.status[u] \ {"RUNNING"} ELSE k.status[u]
    BY <1>3 DEF f
  <2>2. l.status[u] = IF u = new THEN a.status[u] \cup {"RUNNING"} ELSE a.status[u]
    BY <1>6, <1>8 DEF g
  <2> QED BY <2>1, <2>2
<1> QED BY <1>3, <1>6, <1>8, <1>9 DEF SwapBecomes, SameWaits, l

\* OsSchedTaskSwitch from a state in which the lists agree.
LEMMA SwitchEffect ==
  ASSUME NEW k, KInv(k), ListsOK(k), k.run \in Task => ~Has(k, k.run, "UNUSED"),
         NEW spent \in BOOLEAN, NEW pos \in 1..(Len(k.sorted) + 1)
  PROVE  LET l == OsSchedTaskSwitch(k, spent, pos) IN l.halted \/ Switched(k, l)
<1> DEFINE sl   == OsTimeSliceUpdate(k, spent)
           old  == k.run
           left == LeaveCPU(sl, pos)
           new  == OsGetTopTask(left)
           swap == Swapped(left, old, new)
           l    == OsSchedTaskDeQueue(swap, new)
<1>1. KInv(sl) /\ Keeps(k, sl) /\ sl.sorted = k.sorted /\ sl.status = k.status
  BY TimeSlicePreserves
<1>2. /\ ListsOK(sl) /\ SameWaits(k, sl) /\ sl.priority = k.priority
      /\ sl.run = k.run /\ sl.lock = k.lock /\ sl.recycle = k.recycle
  BY TimeSliceEffect
<1>3. OsSchedTaskSwitch(k, spent, pos) = l
  BY DEF OsSchedTaskSwitch, Swapped
<1>4. old \in TCB /\ TaskOK(k, old)
  BY KernelFields DEF KInv, ListsOK
<1>5. KInv(left) /\ (left.halted \/ HasLeft(sl, left))
  <2> HIDE DEF sl
  <2>1. sl.run \in Task => ~Has(sl, sl.run, "UNUSED")
    BY <1>1 DEF Keeps, Has
  <2>2. KInv(left) /\ Keeps(sl, left)
    BY <1>1, <2>1, LeaveCPUPreserves
  <2>3. pos \in 1..(Len(sl.sorted) + 1)
    BY <1>1
  <2>4. left.halted \/ HasLeft(sl, left)
    BY <1>1, <1>2, <2>3, LeaveCPUEffect
  <2> QED BY <2>2, <2>4
<1> HIDE DEF left, sl
<1>6. new = Idle \/ (new \in Task /\ Has(left, new, "READY"))
  BY <1>5, TopTaskIsReady
<1>7. new \in Task \cup {Idle} /\ new \in TCB /\ new # Dead /\ ~Has(left, new, "UNUSED")
  BY <1>5, <1>6, TCBs DEF KInv, StatusOK, Has
<1>8. \A t \in Task : Has(left, t, "READY") =>
        new \in Task /\ left.priority[new] <= left.priority[t]
  BY <1>5, TopTaskIsHighest
<1> HIDE DEF new, old
<1>9. KInv(swap)
  BY <1>4, <1>5, <1>7, SwapPreserves DEF Swapped
<1>10. /\ swap.run = new /\ SameWaits(left, swap) /\ swap.priority = left.priority
       /\ swap.lock = left.lock /\ swap.recycle = left.recycle /\ swap.halted = left.halted
       /\ \A u \in TCB : swap.status[u] =
            IF u = new THEN left.status[u] \cup {"RUNNING"}
            ELSE IF u = old THEN left.status[u] \ {"RUNNING"} ELSE left.status[u]
  <2>1. left \in Kernel
    BY <1>5 DEF KInv
  <2>2. SwapBecomes(left, swap, old, new)
    BY ONLY <2>1, <1>4, <1>7, SwapEffect
  <2> HIDE DEF swap
  <2> QED BY <2>2 DEF SwapBecomes
<1> HIDE DEF swap
<1>11. /\ SameWaits(swap, l) /\ l.run = swap.run /\ l.lock = swap.lock
       /\ l.recycle = swap.recycle /\ l.priority = swap.priority /\ l.halted = swap.halted
       /\ \A u \in TCB : l.status[u] = IF u = new THEN swap.status[u] \ {"READY"} ELSE swap.status[u]
  BY ONLY <1>7, <1>9, DeQueueEffect
<1> HIDE DEF l
<1>12. CASE HasLeft(sl, left)
  <2>1. /\ left.run = old /\ left.lock = k.lock /\ left.recycle = k.recycle
        /\ left.wait = k.wait /\ left.priority = k.priority
        /\ Distinct(left.sorted)
        /\ \A u \in TCB \ {old} : left.status[u] = k.status[u]
        /\ \A f \in Flag \ {"READY"} : Has(left, old, f) <=> Has(k, old, f)
        /\ Has(left, old, "READY") => left.status[old] \cap (Blocked \cup {"UNUSED"}) = {}
        /\ \A u \in Task : In(u, left.sorted) <=> Has(left, u, "DELAY") \/ Has(left, u, "PEND_TIME")
    BY <1>1, <1>2, <1>12 DEF HasLeft, SameWaits, Has, old
  <2>2. /\ l.wait = k.wait /\ l.sorted = left.sorted /\ l.priority = k.priority
        /\ l.lock = k.lock /\ l.recycle = k.recycle /\ l.run = new
    BY <1>10, <1>11, <2>1 DEF SameWaits
  <2>3. \A u \in TCB : l.status[u] =
          IF u = new THEN (left.status[u] \cup {"RUNNING"}) \ {"READY"}
          ELSE IF u = old THEN left.status[u] \ {"RUNNING"} ELSE left.status[u]
    BY <1>10, <1>11
  <2>4. /\ \A u \in TCB : \A f \in Flag \ {"READY", "RUNNING"} : Has(left, u, f) <=> Has(k, u, f)
        /\ \A u \in TCB : Has(left, u, "RUNNING") => u = old
    <3>1. ASSUME NEW u \in TCB, NEW f \in Flag \ {"READY"}
          PROVE  Has(left, u, f) <=> Has(k, u, f)
      BY <2>1 DEF Has
    <3>2. \A u \in TCB : Has(k, u, "RUNNING") => u = old
      BY DEF ListsOK, TaskOK, old
    <3>3. "RUNNING" \in Flag \ {"READY"}
      BY DEF Flag
    <3> QED BY <3>1, <3>2, <3>3
  <2>5. \A u \in TCB : \A f \in Flag \ {"READY", "RUNNING"} : Has(l, u, f) <=> Has(k, u, f)
    <3>1. ASSUME NEW u \in TCB, NEW f \in Flag \ {"READY", "RUNNING"}
          PROVE  Has(l, u, f) <=> Has(left, u, f)
      BY <2>3 DEF Has
    <3> QED BY <3>1, <2>4
  <2>6. \A u \in TCB : Has(l, u, "RUNNING") <=> u = new
    BY <2>3, <2>4 DEF Has
  <2>7. \A u \in TCB : Has(l, u, "READY") <=> Has(left, u, "READY") /\ u # new
    BY <2>3 DEF Has
  <2>8. \A u \in TCB : Has(left, u, "READY") =>
          \A f \in Blocked \cup {"UNUSED"} : ~Has(left, u, f)
    <3>1. ASSUME NEW u \in TCB, u # old, Has(left, u, "READY"),
                 NEW f \in Blocked \cup {"UNUSED"}
          PROVE  ~Has(left, u, f)
      BY <3>1, <2>1 DEF ListsOK, TaskOK, Has
    <3>2. Has(left, old, "READY") => \A f \in Blocked \cup {"UNUSED"} : ~Has(left, old, f)
      BY <2>1 DEF Has
    <3> QED BY <3>1, <3>2
  <2>9. \A f \in Blocked \cup {"UNUSED"} : f \in Flag \ {"READY", "RUNNING"}
    BY DEF Blocked, Flag
  <2>10. \A f \in Blocked \cup {"READY"} : ~Has(l, new, f)
    <3>1. ~Has(l, new, "READY")
      BY <1>7, <2>7
    <3>2. \A f \in Blocked : ~Has(left, new, f)
      <4>1. left.status[Idle] \subseteq {"READY", "RUNNING"}
        BY <1>5 DEF KInv, StatusOK
      <4>2. CASE new = Idle
        BY <4>1, <4>2 DEF Has, Blocked
      <4>3. CASE new \in Task /\ Has(left, new, "READY")
        BY <4>3, <2>8, <1>7
      <4> QED BY <4>2, <4>3, <1>6
    <3>3. \A f \in Blocked : ~Has(l, new, f)
      BY <3>2, <2>4, <2>5, <2>9, <1>7
    <3> QED BY <3>1, <3>3
  <2>11. \A t \in TCB : TaskOK(l, t)
    <3> SUFFICES ASSUME NEW t \in TCB PROVE TaskOK(l, t)
      OBVIOUS
    <3>1. \A f \in {"PEND", "PEND_TIME", "DELAY", "TIMEOUT", "SUSPEND", "UNUSED"} :
            (Has(l, t, f) <=> Has(k, t, f)) /\ (Has(left, t, f) <=> Has(k, t, f))
      BY <2>4, <2>5 DEF Flag
    <3>2. TaskOK(k, t)
      BY DEF ListsOK
    <3>3. Has(l, t, "READY") => l.status[t] \cap (Blocked \cup {"UNUSED"}) = {}
      <4>1. Has(l, t, "READY") => \A f \in Blocked \cup {"UNUSED"} : ~Has(l, t, f)
        BY <2>4, <2>5, <2>7, <2>8, <2>9
      <4> QED BY <4>1 DEF Has
    <3>4. /\ Has(l, t, "PEND_TIME") => Has(l, t, "PEND")
          /\ Has(l, t, "PEND") => ~Has(l, t, "DELAY") /\ ~Has(l, t, "TIMEOUT")
      BY <3>1, <3>2 DEF TaskOK
    <3>5. t \in Task => (In(t, l.sorted) <=> (Has(l, t, "DELAY") \/ Has(l, t, "PEND_TIME")) /\ t # l.run)
      <4>1. t = new => ~Has(l, t, "DELAY") /\ ~Has(l, t, "PEND_TIME")
        BY <2>10, <3>4 DEF Blocked
      <4> QED BY <2>1, <2>2, <3>1, <4>1
    <3>6. t \in Task =>
            /\ Has(l, t, "PEND") <=> \E o \in WaitObj : In(t, l.wait[o])
            /\ \A o1, o2 \in WaitObj : In(t, l.wait[o1]) /\ In(t, l.wait[o2]) => o1 = o2
      BY <2>2, <3>1, <3>2 DEF TaskOK
    <3> QED BY <2>2, <2>6, <3>3, <3>4, <3>5, <3>6 DEF TaskOK
  <2>12. ListsOK(l)
    BY <2>1, <2>2, <2>11 DEF ListsOK
  <2>13. \A u \in TCB : \A f \in Lasting : Has(l, u, f) <=> Has(k, u, f)
    BY <2>5 DEF Lasting, Flag
  <2>14. \A t \in Task : Has(l, t, "READY") =>
           l.run \in Task /\ l.priority[l.run] <= l.priority[t]
    BY <1>8, <2>1, <2>2, <2>7, TCBs
  <2>15. l.status[l.run] \cap (Blocked \cup {"READY"}) = {}
    BY <2>2, <2>10 DEF Has
  <2>16. \A u \in TCB \ {k.run, l.run} : l.status[u] = k.status[u]
    BY <2>1, <2>2, <2>3 DEF old
  <2>17. Switched(k, l)
    BY <1>7, <2>2, <2>12, <2>13, <2>14, <2>15, <2>16 DEF Switched
  <2> QED BY <1>3, <2>17
<1>13. CASE left.halted
  BY <1>3, <1>10, <1>11, <1>13
<1> QED BY <1>5, <1>12, <1>13

-----------------------------------------------------------------------------
(* The invariant.                                                          *)

\* The task that runs is able to.
Able(k) == k.status[k.run] \cap (Blocked \cup {"READY"}) = {}

\* A running task that has blocked, or is ready as well, is about to leave the
\* CPU: the tasks are not locked, and the switch is pending or LOS_Schedule
\* comes next.
Leaving(k, p, s) ==
  ~k.halted /\ ~Able(k) => k.lock = 0 /\ (s \/ p[k.run] \in {"sched", "block"})

\* A new task that is not announced is suspended and nothing else, and who
\* waits, or has timed out, is in a service that waits.
Places(k, p, c) ==
  \A t \in Task :
    /\ p[t] = "enq" => k.status[c[t]] = {"SUSPEND"}
    /\ Has(k, t, "PEND") \/ Has(k, t, "TIMEOUT") => p[t] \in {"block", "wait"}

\* The inductive invariant of the waits, to be used with TaskInv.
WaitInv ==
  /\ ListsOK(kern) /\ Leaving(kern, pc, pendSV) /\ Places(kern, pc, child)
  /\ pendSV => kern.lock = 0
  /\ kern.run = Dead => kern.recycle # <<>>

\* No task in the ready queues has a higher priority than the task that runs.
HighestReady(k) ==
  \A t \in Task : Has(k, t, "READY") => k.run \in Task /\ k.priority[k.run] <= k.priority[t]

\* The same with the moments at which a task with a higher priority may be
\* ready: a switch is pending or will be when the service or the tick handler
\* that runs ends, or the tasks are locked.
Preempts ==
  (/\ ~kern.halted /\ ~pendSV /\ tick # "scanSched" /\ kern.lock = 0
   /\ pc[kern.run] \notin {"sched", "block"})
    => HighestReady(kern)

-----------------------------------------------------------------------------
(* What a step of task management does.                                    *)

\* One task at most stops waiting: its time is over, or it is deleted.
Waits(k, p, l, q) ==
  /\ \A u \in Task : /\ p[u] \in {"block", "wait"} => q[u] \in {"block", "wait", "none"}
                     /\ q[u] \in {"block", "wait"} => p[u] \in {"block", "wait"}
  /\ \E t \in Task \cup {NoTask} :
       /\ \A u \in Task \ {t} : /\ Has(l, u, "PEND") <=> Has(k, u, "PEND")
                                /\ Has(l, u, "TIMEOUT") <=> Has(k, u, "TIMEOUT")
                                /\ q[u] = "none" => p[u] = "none"
       /\ t = NoTask => l.wait = k.wait
       /\ t # NoTask => /\ l.wait = Unlink(k.wait, t) /\ ~Has(l, t, "PEND")
                        /\ q[t] = "none" \/ (Has(k, t, "PEND") /\ Has(l, t, "TIMEOUT"))

\* What every step of task management keeps; the last two conjuncts are those
\* of LosTask's NoSwitchUnderLock and SuspensionHolds.
TaskStepOK ==
  /\ WaitInv' /\ (Preempts => Preempts') /\ Waits(kern, pc, kern', pc')
  /\ kern.lock > 0 /\ kern'.lock > 0 => kern'.run = kern.run
  /\ \A t \in Task :
       Has(kern, t, "SUSPEND") /\ "SUSPEND" \notin kern'.status[t]
         => \/ \E ctx \in Context : LOS_TaskResume(ctx, t)
            \/ kern.run \in Task /\ child[kern.run] = t /\ LOS_TaskCreate
            \/ kern'.status[t] = {"UNUSED"}

\* Kernel state l is k after the part of a service that is under LOS_IntLock:
\* the task that runs and the lists agree, nobody begins to wait.
MovesOn(k, l, p, c) ==
  /\ ListsOK(l) /\ l.run = k.run /\ l.recycle = k.recycle
  /\ \A u \in Task : p[u] = "enq" => l.status[c[u]] = {"SUSPEND"}
  /\ \A u \in Task : Has(l, u, "PEND") \/ Has(l, u, "TIMEOUT")
                       => Has(k, u, "PEND") \/ Has(k, u, "TIMEOUT")

\* A task that blocks itself, or makes itself ready, reschedules, and does so
\* only while the tasks are not locked.
Yields(k, l, resched) == Able(l) \/ (l.lock = 0 /\ (resched \/ ~Able(k)))

\* A kernel that has failed an assertion and is otherwise as it was.
LEMMA HaltedFields ==
  ASSUME NEW k \in Kernel
  PROVE  LET h == [k EXCEPT !.halted = TRUE] IN
         /\ h.halted /\ SameWaits(k, h) /\ h.status = k.status /\ h.run = k.run
         /\ h.lock = k.lock /\ h.recycle = k.recycle /\ h.priority = k.priority
BY DEF Kernel, SameWaits

\* A service called by a task that runs or by an interrupt.
LEMMA CallerFacts ==
  ASSUME TaskInv, WaitInv, NEW ctx \in Context, Caller(ctx)
  PROVE  /\ kern \in Kernel /\ kern.run \in TCB /\ ~kern.halted /\ tick = "out"
         /\ ctx = "task" => /\ kern.run \in Task /\ pc[kern.run] = "run" /\ pendSV = FALSE
                            /\ Able(kern) /\ ~Has(kern, kern.run, "TIMEOUT")
         /\ ctx # "task" => ctx = "isr"
<1>1. kern \in Kernel /\ kern.run \in TCB /\ pendSV \in BOOLEAN
  BY KernelFields DEF TaskInv, Inv, KInv
<1>2. ~kern.halted /\ tick = "out"
  BY DEF Caller, Running, Context
<1>3. CASE ctx = "task"
  <2>1. kern.run \in Task /\ pc[kern.run] = "run" /\ pendSV = FALSE
    BY <1>1, <1>3 DEF Caller, Running
  <2>2. Able(kern)
    BY <1>2, <2>1 DEF WaitInv, Leaving
  <2>3. ~Has(kern, kern.run, "TIMEOUT")
    BY <2>1 DEF WaitInv, Places
  <2> QED BY <1>1, <1>2, <1>3, <2>1, <2>2, <2>3
<1>4. CASE ctx # "task"
  BY <1>1, <1>2, <1>4 DEF Context
<1> QED BY <1>3, <1>4

\* A task or an interrupt calls a service, or a task that waited in one runs
\* again without a timeout and goes on with it.
Serves(ctx) ==
  Caller(ctx) \/ (ctx = "task" /\ kern.run \in Task /\ Running("wait")
                   /\ ~Has(kern, kern.run, "TIMEOUT"))

\* Where it is.
LEMMA ServesFacts ==
  ASSUME TaskInv, WaitInv, NEW ctx \in Context, Serves(ctx)
  PROVE  /\ kern \in Kernel /\ kern.run \in TCB /\ ~kern.halted /\ tick = "out"
         /\ ctx = "task" => /\ kern.run \in Task /\ pc[kern.run] \in {"run", "wait"}
                            /\ pendSV = FALSE /\ pc[kern.run] \in Placid
                            /\ Able(kern) /\ ~Has(kern, kern.run, "TIMEOUT")
         /\ ctx # "task" => ctx = "isr"
<1>1. "run" \in Placid /\ "wait" \in Placid
  BY DEF Placid, PC
<1>2. CASE Caller(ctx)
  BY <1>1, <1>2, CallerFacts
<1>3. CASE ~Caller(ctx)
  <2>1. /\ ctx = "task" /\ kern.run \in Task /\ Running("wait")
        /\ ~Has(kern, kern.run, "TIMEOUT")
    BY <1>3 DEF Serves
  <2>2. kern \in Kernel /\ kern.run \in TCB /\ pendSV \in BOOLEAN
    BY KernelFields DEF TaskInv, Inv, KInv
  <2>3. ~kern.halted /\ tick = "out" /\ pc[kern.run] = "wait" /\ pendSV = FALSE
    BY <2>1, <2>2 DEF Running
  <2>4. Able(kern)
    BY <2>3 DEF WaitInv, Leaving
  <2> QED BY <1>1, <2>1, <2>2, <2>3, <2>4
<1> QED BY <1>2, <1>3

\* A service that ends in Finish keeps the invariant.
LEMMA FinishKeeps ==
  ASSUME TaskInv, WaitInv, NEW ctx \in Context, Serves(ctx), NEW l, NEW resched \in BOOLEAN,
         Finish(ctx, l, resched), child' = child, ctx = "isr" => l.lock = kern.lock,
         l.halted \/ (MovesOn(kern, l, pc, child) /\ Yields(kern, l, resched))
  PROVE  WaitInv'
<1>1. /\ kern \in Kernel /\ kern.run \in TCB /\ ~kern.halted
      /\ ctx = "task" => /\ kern.run \in Task /\ pc[kern.run] \in {"run", "wait"}
                         /\ pendSV = FALSE /\ Able(kern) /\ ~Has(kern, kern.run, "TIMEOUT")
      /\ ctx # "task" => ctx = "isr"
  BY ServesFacts
<1>2. pc \in [TCB -> PC] /\ kern' = Committed(kern, l)
  BY DEF TaskInv, Inv, Finish
<1>3. \A u \in Task :
        /\ pc'[u] = "enq" => pc[u] = "enq"
        /\ Has(kern, u, "PEND") \/ Has(kern, u, "TIMEOUT") => pc'[u] \in {"block", "wait"}
  <2>1. CASE ctx = "task"
    <3>1. pc' = [pc EXCEPT ![kern.run] = IF resched THEN "sched" ELSE "run"]
      BY <2>1 DEF Finish
    <3>2. ~Has(kern, kern.run, "PEND") /\ ~Has(kern, kern.run, "TIMEOUT")
      BY <2>1, <1>1 DEF Able, Blocked, Has
    <3>3. \A u \in Task \ {kern.run} : pc'[u] = pc[u]
      BY <3>1, <1>2, TCBs
    <3>4. pc'[kern.run] \in {"run", "sched"}
      BY <3>1, <1>1, <1>2
    <3> QED BY <3>2, <3>3, <3>4 DEF WaitInv, Places
  <2>2. CASE ctx # "task"
    BY <2>2 DEF Finish, WaitInv, Places
  <2> QED BY <2>1, <2>2
<1>4. CASE l.halted
  <2> DEFINE h == [kern EXCEPT !.halted = TRUE]
  <2>1. kern' = h
    BY <1>2, <1>4 DEF Committed
  <2>2. /\ h.halted /\ SameWaits(kern, h) /\ h.status = kern.status /\ h.run = kern.run
        /\ h.lock = kern.lock /\ h.recycle = kern.recycle
    BY <1>1, HaltedFields
  <2> HIDE DEF h
  <2>3. ListsOK(h)
    BY <2>2, NothingChanges DEF WaitInv
  <2>4. Leaving(h, pc', pendSV')
    BY <2>2 DEF Leaving
  <2>5. Places(h, pc', child)
    BY <2>2, <1>3 DEF WaitInv, Places, Has
  <2>6. pendSV' => h.lock = 0
    <3>1. CASE ctx = "task"
      BY <3>1, <2>2 DEF Finish, WaitInv
    <3>2. CASE ctx # "task"
      BY <3>2, <2>2, <1>1 DEF Finish, WaitInv
    <3> QED BY <3>1, <3>2
  <2> QED BY <2>1, <2>2, <2>3, <2>4, <2>5, <2>6 DEF WaitInv
<1>5. CASE ~l.halted
  <2>1. kern' = l
    BY <1>2, <1>5 DEF Committed
  <2>2. MovesOn(kern, l, pc, child) /\ Yields(kern, l, resched)
    BY <1>5
  <2>3. Leaving(l, pc', pendSV') /\ (pendSV' => l.lock = 0)
    <3>1. CASE ctx = "task"
      <4>1. pc' = [pc EXCEPT ![kern.run] = IF resched THEN "sched" ELSE "run"] /\ pendSV' = pendSV
        BY <3>1 DEF Finish
      <4> QED BY <4>1, <3>1, <1>1, <1>2, <2>2 DEF Leaving, Yields, MovesOn
    <3>2. CASE ctx # "task"
      <4>1. pc' = pc /\ pendSV' = (pendSV \/ (resched /\ l.lock = 0))
        BY <3>2 DEF Finish
      <4> QED BY <4>1, <3>2, <1>1, <2>2 DEF Leaving, Yields, MovesOn, WaitInv
    <3> QED BY <3>1, <3>2
  <2>4. Places(l, pc', child)
    BY <2>2, <1>3 DEF MovesOn, WaitInv, Places
  <2> QED BY <2>1, <2>2, <2>3, <2>4 DEF MovesOn, WaitInv
<1> QED BY <1>4, <1>5

\* The waits are what they were.
LEMMA NoWaitsChange ==
  ASSUME NEW k, NEW p, NEW l, NEW q, l.wait = k.wait,
         \A u \in Task : /\ Has(l, u, "PEND") <=> Has(k, u, "PEND")
                         /\ Has(l, u, "TIMEOUT") <=> Has(k, u, "TIMEOUT")
                         /\ q[u] = "none" => p[u] = "none"
                         /\ q[u] \in {"block", "wait"} <=> p[u] \in {"block", "wait"}
  PROVE  Waits(k, p, l, q)
<1>1. NoTask \in Task \cup {NoTask} /\ NoTask \notin Task
  BY DEF NoTask, Task
<1> QED BY <1>1 DEF Waits

\* A service of task management that changes no wait.
LEMMA FinishStep ==
  ASSUME TaskInv, WaitInv, NEW ctx \in Context, Caller(ctx), NEW l, NEW resched \in BOOLEAN,
         Finish(ctx, l, resched), child' = child, tick' = tick, ctx = "isr" => l.lock = kern.lock,
         l.halted \/
         (/\ MovesOn(kern, l, pc, child) /\ Yields(kern, l, resched)
          /\ l.wait = kern.wait
          /\ \A u \in Task : /\ Has(l, u, "PEND") <=> Has(kern, u, "PEND")
                             /\ Has(l, u, "TIMEOUT") <=> Has(kern, u, "TIMEOUT")
                             /\ Has(kern, u, "SUSPEND") => \/ Has(l, u, "SUSPEND")
                                                           \/ LOS_TaskResume(ctx, u)
          /\ resched \/ l.lock # 0 \/ (l.lock = kern.lock /\ (HighestReady(kern) => HighestReady(l))))
  PROVE  TaskStepOK
<1>1. WaitInv'
  BY FinishKeeps DEF Serves
<1>2. /\ kern \in Kernel /\ kern.run \in TCB /\ ~kern.halted /\ tick = "out"
      /\ ctx = "task" => /\ kern.run \in Task /\ pc[kern.run] = "run" /\ pendSV = FALSE
      /\ ctx # "task" => ctx = "isr"
  BY CallerFacts
<1>3. pc \in [TCB -> PC] /\ kern' = Committed(kern, l)
  BY DEF TaskInv, Inv, Finish
<1>4. \A u \in Task : /\ pc'[u] = "none" => pc[u] = "none"
                      /\ pc'[u] \in {"block", "wait"} <=> pc[u] \in {"block", "wait"}
  <2>1. CASE ctx = "task"
    <3>1. pc' = [pc EXCEPT ![kern.run] = IF resched THEN "sched" ELSE "run"]
      BY <2>1 DEF Finish
    <3> QED BY <3>1, <2>1, <1>2, <1>3, TCBs
  <2>2. CASE ctx # "task"
    BY <2>2 DEF Finish
  <2> QED BY <2>1, <2>2
<1>5. CASE l.halted
  <2> DEFINE h == [kern EXCEPT !.halted = TRUE]
  <2>1. kern' = h
    BY <1>3, <1>5 DEF Committed
  <2>2. /\ h.halted /\ SameWaits(kern, h) /\ h.status = kern.status /\ h.run = kern.run
    BY <1>2, HaltedFields
  <2> HIDE DEF h
  <2>3. Preempts'
    BY <2>1, <2>2 DEF Preempts
  <2>4. Waits(kern, pc, h, pc')
    BY <1>4, <2>2, NoWaitsChange DEF SameWaits, Has
  <2> QED BY <1>1, <2>1, <2>2, <2>3, <2>4 DEF TaskStepOK, Has
<1>6. CASE ~l.halted
  <2>1. kern' = l
    BY <1>3, <1>6 DEF Committed
  <2>2. /\ MovesOn(kern, l, pc, child) /\ l.wait = kern.wait
        /\ \A u \in Task : /\ Has(l, u, "PEND") <=> Has(kern, u, "PEND")
                           /\ Has(l, u, "TIMEOUT") <=> Has(kern, u, "TIMEOUT")
                           /\ Has(kern, u, "SUSPEND") => \/ Has(l, u, "SUSPEND")
                                                         \/ LOS_TaskResume(ctx, u)
        /\ resched \/ l.lock # 0 \/ (l.lock = kern.lock /\ (HighestReady(kern) => HighestReady(l)))
    BY <1>6
  <2>3. Preempts => Preempts'
    <3>1. CASE ctx = "task"
      <4>1. /\ pc' = [pc EXCEPT ![kern.run] = IF resched THEN "sched" ELSE "run"]
            /\ pendSV' = pendSV
        BY <3>1 DEF Finish
      <4>2. l.run = kern.run /\ pc'[kern.run] = IF resched THEN "sched" ELSE "run"
        BY <4>1, <1>3, <1>2, <2>2 DEF MovesOn
      <4> QED BY <4>1, <4>2, <3>1, <1>2, <2>1, <2>2 DEF Preempts
    <3>2. CASE ctx # "task"
      <4>1. pc' = pc /\ pendSV' = (pendSV \/ (resched /\ l.lock = 0)) /\ l.run = kern.run
        BY <3>2, <2>2 DEF Finish, MovesOn
      <4> QED BY <4>1, <1>2, <2>1, <2>2 DEF Preempts
    <3> QED BY <3>1, <3>2
  <2>4. Waits(kern, pc, l, pc')
    BY <1>4, <2>2, NoWaitsChange
  <2> QED BY <1>1, <2>1, <2>2, <2>3, <2>4 DEF TaskStepOK, Has, MovesOn
<1> QED BY <1>5, <1>6

-----------------------------------------------------------------------------
(* The services that change no wait.                                       *)

\* Kernel state l is k with other flags of t.
FlagsBecome(k, l, t, flags) ==
  /\ l \in Kernel /\ SameWaits(k, l) /\ l.run = k.run /\ l.lock = k.lock
  /\ l.recycle = k.recycle /\ l.priority = k.priority /\ l.halted = k.halted
  /\ l.status[t] = flags /\ \A u \in TCB \ {t} : l.status[u] = k.status[u]

\* It is the update it is meant to be.
LEMMA FlagsEffect ==
  ASSUME NEW k \in Kernel, NEW t \in TCB, NEW flags \in SUBSET Flag
  PROVE  FlagsBecome(k, WithStatus(k, t, flags), t, flags)
BY StatusUpdate DEF FlagsBecome, WithStatus, SameWaits

\* SetFlag and ClearFlag are such changes.
LEMMA SetFlagEffect ==
  ASSUME NEW k \in Kernel, NEW t \in TCB, NEW flags \in SUBSET Flag
  PROVE  FlagsBecome(k, SetFlag(k, t, flags), t, k.status[t] \cup flags)
<1>1. k.status[t] \cup flags \in SUBSET Flag
  BY KernelFields
<1> QED BY <1>1, FlagsEffect DEF SetFlag, WithStatus

\* And for a flag that is cleared.
LEMMA ClearFlagEffect ==
  ASSUME NEW k \in Kernel, NEW t \in TCB, NEW flags \in SUBSET Flag
  PROVE  FlagsBecome(k, ClearFlag(k, t, flags), t, k.status[t] \ flags)
<1>1. k.status[t] \ flags \in SUBSET Flag
  BY KernelFields
<1> QED BY <1>1, FlagsEffect DEF ClearFlag, WithStatus

\* A running task that is blocked already is not locked.
LEMMA NotAble ==
  ASSUME WaitInv, ~kern.halted, ~Able(kern)
  PROVE  kern.lock = 0
BY DEF WaitInv, Leaving

\* A task that is not announced keeps its flags if t keeps out of its way.
LEMMA AnnouncedOnly ==
  ASSUME TaskInv, NEW t \in Task, Exists(t), NEW u \in Task, pc[u] = "enq"
  PROVE  child[u] \in TCB \ {t}
BY TCBs DEF Exists, Unannounced, TaskInv, Inv, Life, NoTask

\* LOS_TaskSuspend, of the running task or another.
LEMMA SuspendStep ==
  ASSUME TaskInv, WaitInv, NEW ctx \in Context, NEW t \in Task, LOS_TaskSuspend(ctx, t)
  PROVE  TaskStepOK
<1> DEFINE off == OsSchedTaskDeQueue(kern, t)
           l   == SetFlag(off, t, {"SUSPEND"})
           need == t = kern.run
<1>1. /\ Caller(ctx) /\ Exists(t) /\ ~(Has(kern, t, "RUNNING") /\ kern.lock # 0)
      /\ Finish(ctx, l, need) /\ child' = child /\ tick' = tick
  BY DEF LOS_TaskSuspend
<1>2. /\ KInv(kern) /\ RunsOK(kern) /\ ListsOK(kern) /\ t \in TCB /\ t \in Task \cup {Idle}
      /\ ~Has(kern, t, "UNUSED") /\ kern.run \in TCB
  BY <1>1, TCBs, KernelFields DEF TaskInv, Inv, WaitInv, Exists, KInv
<1>3. /\ SameWaits(kern, off) /\ off.run = kern.run /\ off.lock = kern.lock
      /\ off.recycle = kern.recycle /\ off.priority = kern.priority
      /\ \A u \in TCB : off.status[u] = IF u = t THEN kern.status[u] \ {"READY"} ELSE kern.status[u]
  BY <1>2, DeQueueEffect
<1>4. off \in Kernel /\ ListsOK(off)
  BY <1>2, DeQueuePreserves, DeQueueLists DEF KInv
<1> HIDE DEF off
<1>5. FlagsBecome(off, l, t, off.status[t] \cup {"SUSPEND"})
  BY <1>2, <1>4, SetFlagEffect DEF Flag
<1> HIDE DEF l
<1>6. /\ l.wait = kern.wait /\ l.sorted = kern.sorted /\ l.run = kern.run /\ l.lock = kern.lock
      /\ l.recycle = kern.recycle /\ l.priority = kern.priority
      /\ l.status[t] = (kern.status[t] \ {"READY"}) \cup {"SUSPEND"}
      /\ \A u \in TCB \ {t} : l.status[u] = kern.status[u]
  BY <1>2, <1>3, <1>5 DEF FlagsBecome, SameWaits
<1>7. ListsOK(l)
  <2>1. TaskOK(kern, t)
    BY <1>2 DEF ListsOK
  <2>2. TaskOK(l, t)
    BY <2>1, <1>6 DEF TaskOK, Has
  <2> QED BY <2>2, <1>2, <1>6, OneStatusChanges DEF SameWaits
<1>8. MovesOn(kern, l, pc, child)
  <2>1. \A u \in Task : pc[u] = "enq" => l.status[child[u]] = {"SUSPEND"}
    BY <1>1, <1>6, AnnouncedOnly DEF WaitInv, Places
  <2>2. \A u \in Task : Has(l, u, "PEND") \/ Has(l, u, "TIMEOUT")
                          => Has(kern, u, "PEND") \/ Has(kern, u, "TIMEOUT")
    BY <1>6, TCBs DEF Has
  <2> QED BY <1>6, <1>7, <2>1, <2>2 DEF MovesOn
<1>9. Yields(kern, l, need)
  <2>1. CASE t = kern.run
    BY <2>1, <1>1, <1>2, <1>6 DEF Yields, RunsOK
  <2>2. CASE t # kern.run
    <3>1. Able(l) <=> Able(kern)
      BY <2>2, <1>2, <1>6 DEF Able
    <3>2. ~kern.halted
      BY <1>1, CallerFacts
    <3> QED BY <3>1, <3>2, <1>6, NotAble DEF Yields
  <2> QED BY <2>1, <2>2
<1>10. /\ \A u \in Task : /\ Has(l, u, "PEND") <=> Has(kern, u, "PEND")
                          /\ Has(l, u, "TIMEOUT") <=> Has(kern, u, "TIMEOUT")
                          /\ Has(kern, u, "SUSPEND") => Has(l, u, "SUSPEND")
       /\ \A u \in Task : Has(l, u, "READY") => Has(kern, u, "READY")
  BY <1>6, TCBs DEF Has
<1>11. HighestReady(kern) => HighestReady(l)
  BY <1>6, <1>10 DEF HighestReady
<1>12. need \in BOOLEAN
  OBVIOUS
<1> HIDE DEF need
<1> QED BY <1>1, <1>6, <1>8, <1>9, <1>10, <1>11, <1>12, FinishStep

\* LOS_TaskResume.
LEMMA ResumeStep ==
  ASSUME TaskInv, WaitInv, NEW ctx \in Context, NEW t \in Task, LOS_TaskResume(ctx, t)
  PROVE  TaskStepOK
<1> DEFINE m == ClearFlag(kern, t, {"SUSPEND"})
           isReady == m.status[t] \cap Blocked = {}
           l == IF isReady THEN OsSchedTaskEnQueue(m, t) ELSE m
<1>1. /\ Caller(ctx) /\ Exists(t) /\ Has(kern, t, "SUSPEND")
      /\ Finish(ctx, l, isReady) /\ child' = child /\ tick' = tick
  BY DEF LOS_TaskResume
<1>2. /\ KInv(kern) /\ RunsOK(kern) /\ ListsOK(kern) /\ t \in TCB /\ t \in Task \cup {Idle}
      /\ ~Has(kern, t, "UNUSED") /\ kern.run \in TCB /\ kern \in Kernel /\ TaskOK(kern, t)
  BY <1>1, TCBs, KernelFields DEF TaskInv, Inv, WaitInv, Exists, KInv, ListsOK
<1>3. FlagsBecome(kern, m, t, kern.status[t] \ {"SUSPEND"})
  BY <1>2, ClearFlagEffect DEF Flag
<1> HIDE DEF m
<1>4. /\ m \in Kernel /\ m.wait = kern.wait /\ m.sorted = kern.sorted /\ m.run = kern.run
      /\ m.lock = kern.lock /\ m.recycle = kern.recycle /\ m.priority = kern.priority
      /\ m.status[t] = kern.status[t] \ {"SUSPEND"}
      /\ \A u \in TCB \ {t} : m.status[u] = kern.status[u]
  BY <1>3 DEF FlagsBecome, SameWaits
<1>5. ~Has(kern, t, "READY")
  BY <1>1, <1>2 DEF TaskOK, Has, Blocked
<1>6. ListsOK(m)
  <2>1. TaskOK(m, t)
    BY <1>2, <1>4, <1>5 DEF TaskOK, Has
  <2> QED BY <2>1, <1>2, <1>4, OneStatusChanges DEF SameWaits
<1>7. /\ l.wait = kern.wait /\ l.run = kern.run /\ l.lock = kern.lock
      /\ l.recycle = kern.recycle /\ l.priority = kern.priority /\ ListsOK(l)
      /\ \A u \in TCB \ {t} : l.status[u] = kern.status[u]
      /\ \A f \in {"PEND", "TIMEOUT"} : Has(l, t, f) <=> Has(kern, t, f)
      /\ ~isReady => ~Has(l, t, "READY")
  <2>1. CASE isReady
    <3> DEFINE e == OsSchedTaskEnQueue(m, t)
    <3>1. ~Has(m, t, "READY") /\ ~Has(m, t, "UNUSED") /\ ~Has(m, t, "PEND") /\ ~Has(m, t, "DELAY")
      BY <2>1, <1>2, <1>4, <1>5 DEF Has, Blocked
    <3>2. ~Has(m, t, "PEND_TIME")
      BY <3>1, <1>4, <1>6, <1>2 DEF ListsOK, TaskOK
    <3>3. /\ SameWaits(m, e) /\ e.run = m.run /\ e.lock = m.lock
          /\ e.recycle = m.recycle /\ e.priority = m.priority
          /\ \A u \in TCB : e.status[u] =
               IF u = t
               THEN (m.status[u] \ {"PEND", "SUSPEND", "DELAY", "PEND_TIME"}) \cup {"READY"}
               ELSE m.status[u]
      BY <1>2, <1>4, <3>1, EnQueueEffect
    <3>4. m.status[t] \cap {"PEND", "PEND_TIME", "DELAY", "UNUSED"} = {}
      BY <3>1, <3>2 DEF Has
    <3>5. ListsOK(e)
      BY <1>2, <1>4, <1>6, <3>1, <3>4, EnQueueLists
    <3> HIDE DEF e
    <3>6. l = e
      BY <2>1 DEF e
    <3>7. \A u \in TCB \ {t} : e.status[u] = kern.status[u]
      BY <3>3, <1>4
    <3>8. e.status[t] = (m.status[t] \ {"PEND", "SUSPEND", "DELAY", "PEND_TIME"}) \cup {"READY"}
      BY <3>3, <1>2
    <3>9. \A f \in {"PEND", "TIMEOUT"} : Has(e, t, f) <=> Has(kern, t, f)
      BY <3>1, <3>8, <1>4 DEF Has
    <3> HIDE DEF l, isReady
    <3> QED BY <2>1, <3>3, <3>5, <3>6, <3>7, <3>9, <1>4 DEF SameWaits
  <2>2. CASE ~isReady
    BY <2>2, <1>4, <1>5, <1>6 DEF Has
  <2> QED BY <2>1, <2>2
<1>8. isReady \in BOOLEAN
  OBVIOUS
<1> HIDE DEF l, isReady
<1>9. MovesOn(kern, l, pc, child)
  <2>1. \A u \in Task : pc[u] = "enq" => l.status[child[u]] = {"SUSPEND"}
    BY <1>1, <1>7, AnnouncedOnly DEF WaitInv, Places
  <2>2. \A u \in Task : Has(l, u, "PEND") \/ Has(l, u, "TIMEOUT")
                          => Has(kern, u, "PEND") \/ Has(kern, u, "TIMEOUT")
    BY <1>7, TCBs DEF Has
  <2> QED BY <1>7, <2>1, <2>2 DEF MovesOn
<1>10. Yields(kern, l, isReady)
  <2>1. ~kern.halted
    BY <1>1, CallerFacts
  <2>2. CASE t = kern.run
    <3>1. ~Able(kern)
      BY <2>2, <1>1 DEF Able, Has, Blocked
    <3> QED BY <3>1, <2>1, <1>7, NotAble DEF Yields
  <2>3. CASE t # kern.run
    <3>1. Able(l) <=> Able(kern)
      BY <2>3, <1>2, <1>7 DEF Able
    <3> QED BY <3>1, <2>1, <1>7, NotAble DEF Yields
  <2> QED BY <2>2, <2>3
<1>11. \A u \in Task : /\ Has(l, u, "PEND") <=> Has(kern, u, "PEND")
                       /\ Has(l, u, "TIMEOUT") <=> Has(kern, u, "TIMEOUT")
                       /\ Has(kern, u, "SUSPEND") => Has(l, u, "SUSPEND") \/ LOS_TaskResume(ctx, u)
  BY <1>7, TCBs DEF Has
<1>12. ~isReady => (HighestReady(kern) => HighestReady(l))
  <2>1. ~isReady => \A u \in Task : Has(l, u, "READY") => Has(kern, u, "READY")
    BY <1>7, TCBs DEF Has
  <2> QED BY <2>1, <1>7 DEF HighestReady
<1> QED BY <1>1, <1>7, <1>8, <1>9, <1>10, <1>11, <1>12, FinishStep

\* LOS_TaskPriSet.
LEMMA PriSetStep ==
  ASSUME TaskInv, WaitInv, NEW t \in Task, NEW p \in Prio, LOS_TaskPriSet(t, p)
  PROVE  TaskStepOK
<1> DEFINE l == OsSchedModifyTaskSchedParam(kern, t, p)
           need == ModifyNeedsSchedule(kern, t)
<1>1. /\ "task" \in Context /\ Caller("task") /\ Exists(t)
      /\ Finish("task", l, need) /\ child' = child /\ tick' = tick
  BY DEF LOS_TaskPriSet, Context
<1>2. /\ KInv(kern) /\ ListsOK(kern) /\ t \in TCB /\ ~Has(kern, t, "UNUSED")
      /\ kern.run \in TCB /\ kern.priority \in [Task -> Prio]
  BY <1>1, TCBs, KernelFields DEF TaskInv, Inv, WaitInv, Exists, KInv
<1>3. /\ ListsOK(l) /\ l.wait = kern.wait /\ l.run = kern.run /\ l.lock = kern.lock
      /\ l.recycle = kern.recycle /\ l.priority = [kern.priority EXCEPT ![t] = p]
      /\ \A u \in TCB : l.status[u] = kern.status[u]
  BY <1>2, ModifyEffect DEF SameWaits
<1>4. need \in BOOLEAN /\ (need <=> Has(kern, t, "READY") \/ Has(kern, t, "RUNNING"))
  BY DEF ModifyNeedsSchedule
<1>5. /\ ~kern.halted /\ Able(kern)
  BY <1>1, CallerFacts
<1> HIDE DEF l, need
<1>6. \A u \in TCB : \A f : Has(l, u, f) <=> Has(kern, u, f)
  BY <1>3 DEF Has
<1>7. \A u \in Task : pc[u] = "enq" => l.status[child[u]] = {"SUSPEND"}
  BY <1>1, <1>3, AnnouncedOnly DEF WaitInv, Places
<1>8. MovesOn(kern, l, pc, child)
  BY <1>3, <1>6, <1>7, TCBs DEF MovesOn
<1>9. Yields(kern, l, need)
  BY <1>2, <1>3, <1>5 DEF Yields, Able
<1>10. ~need => (HighestReady(kern) => HighestReady(l))
  <2>1. CASE ~need
    <3>1. ~Has(kern, t, "READY") /\ t # kern.run
      BY <2>1, <1>2, <1>4 DEF ListsOK, TaskOK
    <3>2. \A u \in Task : u # t => l.priority[u] = kern.priority[u]
      BY <1>2, <1>3
    <3> QED BY <3>1, <3>2, <1>3, <1>6, TCBs DEF HighestReady
  <2> QED BY <2>1
<1>11. \A u \in Task : /\ Has(l, u, "PEND") <=> Has(kern, u, "PEND")
                       /\ Has(l, u, "TIMEOUT") <=> Has(kern, u, "TIMEOUT")
                       /\ Has(kern, u, "SUSPEND") => Has(l, u, "SUSPEND")
  BY <1>6, TCBs
<1> QED BY <1>1, <1>3, <1>4, <1>8, <1>9, <1>10, <1>11, FinishStep

\* LOS_TaskDelay.
LEMMA DelayStep ==
  ASSUME TaskInv, WaitInv, LOS_TaskDelay
  PROVE  TaskStepOK
<1> DEFINE r == kern.run
           l == SetFlag(kern, r, {"DELAY"})
<1>1. /\ "task" \in Context /\ Caller("task") /\ kern.lock = 0
      /\ Finish("task", l, TRUE) /\ child' = child /\ tick' = tick
  BY DEF LOS_TaskDelay, OsSchedDelay, Context
<1>2. /\ kern \in Kernel /\ r \in Task /\ r \in TCB /\ pc[r] = "run" /\ Able(kern)
      /\ ListsOK(kern) /\ RunsOK(kern)
  BY <1>1, CallerFacts DEF WaitInv, TaskInv, Inv
<1>3. FlagsBecome(kern, l, r, kern.status[r] \cup {"DELAY"})
  BY <1>2, SetFlagEffect DEF Flag
<1> HIDE DEF l
<1>4. /\ SameWaits(kern, l) /\ l.wait = kern.wait /\ l.run = kern.run /\ l.lock = kern.lock
      /\ l.recycle = kern.recycle /\ l.status[r] = kern.status[r] \cup {"DELAY"}
      /\ \A u \in TCB \ {r} : l.status[u] = kern.status[u]
  BY <1>3 DEF FlagsBecome, SameWaits
<1>5. ListsOK(l)
  <2>1. TaskOK(kern, r)
    BY <1>2 DEF ListsOK
  <2>2. TaskOK(l, r)
    BY <2>1, <1>2, <1>4 DEF TaskOK, Has, Able, Blocked, SameWaits
  <2> QED BY <2>2, <1>2, <1>4, OneStatusChanges
<1>6. \A u \in Task : pc[u] = "enq" => child[u] \in TCB \ {r}
  <2>1. kern.status[r] # {"SUSPEND"}
    BY <1>2 DEF RunsOK, Has
  <2> QED BY <2>1, TCBs DEF TaskInv, Inv, Life, NoTask, WaitInv, Places
<1>7. \A u \in Task : pc[u] = "enq" => l.status[child[u]] = {"SUSPEND"}
  BY <1>4, <1>6 DEF WaitInv, Places
<1>8. \A u \in Task : /\ Has(l, u, "PEND") <=> Has(kern, u, "PEND")
                      /\ Has(l, u, "TIMEOUT") <=> Has(kern, u, "TIMEOUT")
                      /\ Has(kern, u, "SUSPEND") => Has(l, u, "SUSPEND")
  BY <1>4, TCBs DEF Has
<1>9. MovesOn(kern, l, pc, child)
  BY <1>4, <1>5, <1>7, <1>8 DEF MovesOn
<1>10. Yields(kern, l, TRUE)
  BY <1>1, <1>4 DEF Yields
<1> QED BY <1>1, <1>4, <1>8, <1>9, <1>10, FinishStep

\* A step that changes neither flags nor lists.
LEMMA QuietStep ==
  ASSUME TaskInv, WaitInv, Caller("task"), NEW l, NEW resched \in BOOLEAN,
         Finish("task", l, resched), child' = child, tick' = tick,
         SameWaits(kern, l), l.status = kern.status, l.priority = kern.priority,
         l.run = kern.run, l.recycle = kern.recycle,
         resched \/ l.lock # 0
  PROVE  TaskStepOK
<1>1. "task" \in Context /\ ~kern.halted /\ Able(kern)
  BY CallerFacts DEF Context
<1>2. ListsOK(l)
  BY NothingChanges DEF WaitInv
<1>3. MovesOn(kern, l, pc, child)
  BY <1>2 DEF MovesOn, WaitInv, Places, Has
<1>4. Yields(kern, l, resched)
  BY <1>1 DEF Yields, Able
<1>5. \A u \in Task : /\ Has(l, u, "PEND") <=> Has(kern, u, "PEND")
                      /\ Has(l, u, "TIMEOUT") <=> Has(kern, u, "TIMEOUT")
                      /\ Has(kern, u, "SUSPEND") => Has(l, u, "SUSPEND")
  BY DEF Has
<1> QED BY <1>1, <1>3, <1>4, <1>5, FinishStep DEF SameWaits

\* LOS_TaskYield.
LEMMA YieldStep ==
  ASSUME TaskInv, WaitInv, LOS_TaskYield
  PROVE  TaskStepOK
<1> DEFINE l == [kern EXCEPT !.slice[kern.run] = FALSE]
<1>1. /\ Caller("task") /\ Finish("task", l, TRUE) /\ child' = child /\ tick' = tick
  BY DEF LOS_TaskYield
<1>2. kern \in Kernel
  BY DEF TaskInv, Inv, KInv
<1>3. /\ SameWaits(kern, l) /\ l.status = kern.status /\ l.priority = kern.priority
      /\ l.run = kern.run /\ l.recycle = kern.recycle
  BY <1>2 DEF Kernel, SameWaits
<1> HIDE DEF l
<1> QED BY <1>1, <1>3, QuietStep

\* LOS_TaskLock and LOS_TaskUnlock: another number of locks, and the outermost
\* LOS_TaskUnlock reschedules.
LEMMA LockStep ==
  ASSUME TaskInv, WaitInv, LOS_TaskLock \/ LOS_TaskUnlock
  PROVE  TaskStepOK
<1>1. kern \in Kernel /\ kern.lock \in Nat
  BY KernelFields DEF TaskInv, Inv, KInv
<1>2. PICK n \in Nat, resched \in BOOLEAN :
        /\ Caller("task") /\ Finish("task", [kern EXCEPT !.lock = n], resched)
        /\ child' = child /\ tick' = tick /\ (resched \/ n # 0)
  <2>1. CASE LOS_TaskLock
    <3>1. kern.lock + 1 \in Nat /\ kern.lock + 1 # 0
      BY <1>1
    <3> QED BY <2>1, <3>1 DEF LOS_TaskLock
  <2>2. CASE LOS_TaskUnlock
    <3>1. kern.lock - 1 \in Nat /\ (kern.lock = 1 \/ kern.lock - 1 # 0)
      BY <1>1, <2>2 DEF LOS_TaskUnlock
    <3>2. (kern.lock = 1) \in BOOLEAN
      OBVIOUS
    <3> QED BY <2>2, <3>1, <3>2 DEF LOS_TaskUnlock
  <2> QED BY <2>1, <2>2
<1> DEFINE l == [kern EXCEPT !.lock = n]
<1>3. /\ SameWaits(kern, l) /\ l.status = kern.status /\ l.priority = kern.priority
      /\ l.run = kern.run /\ l.recycle = kern.recycle /\ l.lock = n
  BY <1>1 DEF Kernel, SameWaits
<1>4. Finish("task", l, resched)
  BY <1>2
<1> HIDE DEF l
<1> QED BY <1>2, <1>3, <1>4, QuietStep

-----------------------------------------------------------------------------
(* Birth and death.                                                        *)

\* A step that moves TCBs between the pools and the creators only.
LEMMA PoolStep ==
  ASSUME WaitInv, SameWaits(kern, kern'), kern'.status = kern.status,
         kern'.priority = kern.priority, kern'.run = kern.run, kern'.lock = kern.lock,
         kern'.halted = kern.halted, kern.run # Dead, pendSV' = pendSV, tick' = tick,
         pc'[kern.run] \in {"sched", "block"} <=> pc[kern.run] \in {"sched", "block"},
         \A u \in Task : /\ pc'[u] = "enq" => pc[u] = "enq" /\ child'[u] = child[u]
                         /\ pc'[u] = "none" => pc[u] = "none"
                         /\ pc'[u] \in {"block", "wait"} <=> pc[u] \in {"block", "wait"}
  PROVE  TaskStepOK
<1>1. ListsOK(kern')
  BY NothingChanges DEF WaitInv
<1>2. Leaving(kern', pc', pendSV')
  BY DEF WaitInv, Leaving, Able
<1>3. Places(kern', pc', child')
  BY DEF WaitInv, Places, Has
<1>4. WaitInv'
  BY <1>1, <1>2, <1>3 DEF WaitInv
<1>5. Preempts => Preempts'
  BY DEF Preempts, HighestReady, Has
<1>6. Waits(kern, pc, kern', pc')
  BY NoWaitsChange DEF SameWaits, Has
<1> QED BY <1>4, <1>5, <1>6 DEF TaskStepOK, Has

\* The steps that move TCBs between the pools and a creator.
LEMMA PoolsStep ==
  ASSUME TaskInv, WaitInv,
         TaskCreateTake \/ TaskCreateUnavailable \/ TaskCreateNoMemory \/ OsIdleTask
  PROVE  TaskStepOK
<1> DEFINE r == kern.run
<1>1. kern \in Kernel /\ pc \in [TCB -> PC] /\ child \in [Task -> Task \cup {NoTask}]
  BY DEF TaskInv, Inv, KInv
<1>2. r \in Task \cup {Idle} /\ r \in TCB /\ r # Dead
  BY TCBs DEF TaskCreateTake, TaskCreateUnavailable, TaskCreateNoMemory, OsIdleTask
<1>3. /\ SameWaits(kern, kern') /\ kern'.status = kern.status
      /\ kern'.priority = kern.priority /\ kern'.run = kern.run /\ kern'.lock = kern.lock
      /\ kern'.halted = kern.halted /\ pendSV' = pendSV /\ tick' = tick
  <2>1. \A f, g : LET l == [kern EXCEPT !.free = f, !.recycle = g] IN
          /\ SameWaits(kern, l) /\ l.status = kern.status
          /\ l.priority = kern.priority /\ l.run = kern.run /\ l.lock = kern.lock
          /\ l.halted = kern.halted
    BY <1>1 DEF Kernel, SameWaits
  <2>2. PICK f, g : kern' = [kern EXCEPT !.free = f, !.recycle = g]
    <3> DEFINE k == OsRecyleFinishedTask(kern)
               all == Reverse(kern.recycle) \o kern.free
    <3>1. k = [kern EXCEPT !.free = all, !.recycle = <<>>]
      BY <1>1 DEF OsRecyleFinishedTask, Kernel
    <3>2. [k EXCEPT !.free = Tail(@)] = [kern EXCEPT !.free = Tail(all), !.recycle = <<>>]
      BY <1>1, <3>1 DEF Kernel
    <3>3. [kern EXCEPT !.free = <<child[r]>> \o @]
            = [kern EXCEPT !.free = <<child[r]>> \o kern.free, !.recycle = kern.recycle]
      BY <1>1 DEF Kernel
    <3> HIDE DEF all
    <3>4. kern' \in {k, [k EXCEPT !.free = Tail(@)], [kern EXCEPT !.free = <<child[r]>> \o @]}
      BY DEF TaskCreateTake, TaskCreateUnavailable, TaskCreateNoMemory, OsIdleTask
    <3> HIDE DEF k
    <3>5. CASE kern' = k
      BY <3>1, <3>5
    <3>6. CASE kern' = [k EXCEPT !.free = Tail(@)]
      BY <3>2, <3>6
    <3>7. CASE kern' = [kern EXCEPT !.free = <<child[r]>> \o @]
      BY <3>3, <3>7
    <3> QED BY <3>4, <3>5, <3>6, <3>7
  <2>3. pendSV' = pendSV /\ tick' = tick
    BY DEF TaskCreateTake, TaskCreateUnavailable, TaskCreateNoMemory, OsIdleTask
  <2> QED BY <2>1, <2>2, <2>3
<1>4. \/ pc' = pc /\ child' = child
      \/ /\ pc[r] \in {"run", "alloc"}
         /\ \A u \in Task : u # r => child'[u] = child[u]
         /\ pc' = [pc EXCEPT ![r] = "run"] \/ pc' = [pc EXCEPT ![r] = "alloc"]
  <2>1. CASE TaskCreateTake
    <3> DEFINE t == Head(OsRecyleFinishedTask(kern).free)
    <3>1. /\ pc[r] = "run" /\ child' = [child EXCEPT ![r] = t]
          /\ pc' = [pc EXCEPT ![r] = "alloc"]
      BY <2>1 DEF TaskCreateTake, Running
    <3> HIDE DEF t
    <3> QED BY <3>1, <1>1
  <2>2. CASE TaskCreateNoMemory
    <3>1. /\ pc[r] = "alloc" /\ child' = [child EXCEPT ![r] = NoTask]
          /\ pc' = [pc EXCEPT ![r] = "run"]
      BY <2>2 DEF TaskCreateNoMemory, Running
    <3> QED BY <3>1, <1>1
  <2>3. CASE TaskCreateUnavailable \/ OsIdleTask
    BY <2>3 DEF TaskCreateUnavailable, OsIdleTask
  <2> QED BY <2>1, <2>2, <2>3
<1> DEFINE Calm ==
      /\ pc'[r] \in {"sched", "block"} <=> pc[r] \in {"sched", "block"}
      /\ \A u \in Task : /\ pc'[u] = "enq" => pc[u] = "enq" /\ child'[u] = child[u]
                         /\ pc'[u] = "none" => pc[u] = "none"
                         /\ pc'[u] \in {"block", "wait"} <=> pc[u] \in {"block", "wait"}
<1>5. Calm
  <2>1. CASE pc' = pc /\ child' = child
    BY <2>1
  <2>2. ASSUME pc[r] \in {"run", "alloc"}, \A u \in Task : u # r => child'[u] = child[u],
               pc' = [pc EXCEPT ![r] = "run"] \/ pc' = [pc EXCEPT ![r] = "alloc"]
        PROVE  Calm
    <3>1. pc'[r] \in {"run", "alloc"}
      BY <1>1, <1>2, <2>2
    <3>2. \A u \in TCB : u # r => pc'[u] = pc[u]
      BY <1>1, <2>2
    <3> QED BY <2>2, <3>1, <3>2, TCBs
  <2> QED BY <1>4, <2>1, <2>2
<1> QED BY <1>2, <1>3, <1>5, PoolStep

\* LOS_TaskCreateOnly and its part in LOS_TaskCreate: a TCB of the pool becomes
\* a suspended task.
LEMMA BirthStep ==
  ASSUME TaskInv, WaitInv, LOS_TaskCreateOnly \/ TaskCreateInit
  PROVE  TaskStepOK
<1> DEFINE r == kern.run
           t == child[r]
<1>1. /\ r \in Task /\ pc[r] = "alloc" /\ ~kern.halted
      /\ pendSV' = pendSV /\ tick' = tick
      /\ \E p \in Prio : kern' = OsNewTaskInit(kern, t, p)
      /\ \/ pc' = [pc EXCEPT ![r] = "run", ![t] = "run"] /\ child' = [child EXCEPT ![r] = NoTask]
         \/ pc' = [pc EXCEPT ![r] = "enq", ![t] = "run"] /\ child' = child
  BY DEF LOS_TaskCreateOnly, TaskCreateInit, Running
<1>2. PICK p \in Prio : kern' = OsNewTaskInit(kern, t, p)
  BY <1>1
<1>3. /\ kern \in Kernel /\ pc \in [TCB -> PC] /\ child \in [Task -> Task \cup {NoTask}]
      /\ KInv(kern) /\ RunsOK(kern) /\ Life(kern, pc, child) /\ ListsOK(kern)
  BY DEF TaskInv, Inv, KInv, WaitInv
<1>4. t \in Task /\ Has(kern, t, "UNUSED") /\ kern.status[t] = {"UNUSED"}
  BY <1>1, <1>3 DEF Life, KInv, StatusOK
<1>5. r # t /\ r \in TCB /\ t \in TCB
  BY <1>1, <1>3, <1>4, TCBs DEF RunsOK
<1> HIDE DEF t, r
<1>6. /\ kern'.status = [kern.status EXCEPT ![t] = {"SUSPEND"}]
      /\ kern'.priority = [kern.priority EXCEPT ![t] = p]
      /\ SameWaits(kern, kern') /\ kern'.run = kern.run /\ kern'.lock = kern.lock
      /\ kern'.recycle = kern.recycle /\ kern'.halted = kern.halted
  BY <1>2, <1>3 DEF OsNewTaskInit, Kernel, SameWaits
<1>7. /\ kern'.status[t] = {"SUSPEND"} /\ \A u \in TCB \ {t} : kern'.status[u] = kern.status[u]
      /\ \A u \in Task \ {t} : kern'.priority[u] = kern.priority[u]
  BY <1>3, <1>5, <1>6, KernelFields
<1>8. ListsOK(kern')
  <2>1. TaskOK(kern, t)
    BY <1>3, <1>5 DEF ListsOK
  <2>2. TaskOK(kern', t)
    BY <2>1, <1>4, <1>5, <1>6, <1>7 DEF TaskOK, Has, SameWaits, r
  <2> QED BY <2>2, <1>3, <1>5, <1>6, <1>7, OneStatusChanges
<1>9. /\ pc'[t] = "run" /\ pc'[r] \in {"run", "enq"}
      /\ \A u \in Task \ {t, r} : pc'[u] = pc[u] /\ child'[u] = child[u]
      /\ pc'[r] = "enq" => child'[r] = t
  BY <1>1, <1>3, <1>5, TCBs DEF t
<1>10. \A u \in Task \ {r} : pc[u] = "enq" => child[u] # t /\ child[u] \in TCB
  BY <1>1, <1>3, TCBs DEF Life, t, NoTask
<1>11. pc[t] = "none"
  BY <1>3, <1>4 DEF Life
<1>12. \A u \in Task : /\ Has(kern', u, "PEND") <=> Has(kern, u, "PEND")
                       /\ Has(kern', u, "TIMEOUT") <=> Has(kern, u, "TIMEOUT")
                       /\ Has(kern', u, "READY") <=> Has(kern, u, "READY")
                       /\ Has(kern, u, "SUSPEND") => Has(kern', u, "SUSPEND")
  BY <1>4, <1>7, TCBs DEF Has
<1>13. Places(kern', pc', child')
  <2>1. \A u \in Task : pc'[u] = "enq" => kern'.status[child'[u]] = {"SUSPEND"}
    BY <1>7, <1>9, <1>10 DEF WaitInv, Places
  <2>2. \A u \in Task : Has(kern', u, "PEND") \/ Has(kern', u, "TIMEOUT")
                          => pc'[u] \in {"block", "wait"}
    <3>1. pc[r] \notin {"block", "wait"} /\ pc[t] \notin {"block", "wait"}
      BY <1>1, <1>11 DEF r
    <3> QED BY <3>1, <1>9, <1>12 DEF WaitInv, Places
  <2> QED BY <2>1, <2>2 DEF Places
<1>14. Able(kern') <=> Able(kern)
  BY <1>5, <1>6, <1>7 DEF Able, r
<1>15. Leaving(kern', pc', pendSV')
  BY <1>1, <1>6, <1>14 DEF Leaving, WaitInv, r
<1>16. WaitInv'
  <2>1. kern.run # Dead
    BY <1>1, TCBs DEF r
  <2> QED BY <2>1, <1>1, <1>6, <1>8, <1>13, <1>15 DEF WaitInv
<1>17. Preempts => Preempts'
  <2>1. HighestReady(kern) => HighestReady(kern')
    <3>1. ~Has(kern, t, "READY")
      BY <1>4 DEF Has
    <3> QED BY <3>1, <1>1, <1>5, <1>6, <1>7, <1>12 DEF HighestReady, r
  <2>2. pc[kern.run] \notin {"sched", "block"}
    BY <1>1 DEF r
  <2> QED BY <2>1, <2>2, <1>1, <1>6 DEF Preempts
<1>18. Waits(kern, pc, kern', pc')
  <2>1. \A u \in Task : /\ pc'[u] = "none" => pc[u] = "none"
                        /\ pc'[u] \in {"block", "wait"} <=> pc[u] \in {"block", "wait"}
    BY <1>1, <1>9, <1>11 DEF r
  <2> QED BY <2>1, <1>6, <1>12, NoWaitsChange DEF SameWaits
<1> QED BY <1>6, <1>12, <1>16, <1>17, <1>18 DEF TaskStepOK, Has

\* LOS_TaskCreate announces the new task.
LEMMA AnnounceStep ==
  ASSUME TaskInv, WaitInv, LOS_TaskCreate
  PROVE  TaskStepOK
<1> DEFINE r == kern.run
           t == child[r]
           l == OsSchedTaskEnQueue(kern, t)
<1>1. /\ r \in Task /\ pc[r] = "enq" /\ ~kern.halted /\ ~pendSV /\ kern' = Committed(kern, l)
      /\ pc' = [pc EXCEPT ![r] = "sched"] /\ child' = [child EXCEPT ![r] = NoTask]
      /\ pendSV' = pendSV /\ tick' = tick
  BY DEF LOS_TaskCreate, Running, Finish
<1>2. /\ kern \in Kernel /\ pc \in [TCB -> PC] /\ child \in [Task -> Task \cup {NoTask}]
      /\ RunsOK(kern) /\ Life(kern, pc, child) /\ ListsOK(kern)
  BY DEF TaskInv, Inv, KInv, WaitInv
<1>3. t \in Task /\ kern.status[t] = {"SUSPEND"}
  BY <1>1, <1>2 DEF Life, WaitInv, Places
<1>4. r # t /\ r \in TCB /\ t \in TCB /\ t \in Task \cup {Idle}
  BY <1>1, <1>2, <1>3, TCBs DEF RunsOK, Has
<1>5. Able(kern)
  BY <1>1 DEF WaitInv, Leaving
<1> HIDE DEF t
<1>6. ~Has(kern, t, "READY") /\ kern.status[t] \cap {"PEND", "PEND_TIME", "DELAY", "UNUSED"} = {}
  BY <1>3 DEF Has
<1>7. /\ SameWaits(kern, l) /\ l.run = kern.run /\ l.lock = kern.lock
      /\ l.recycle = kern.recycle /\ l.halted = kern.halted
      /\ \A u \in TCB : l.status[u] =
           IF u = t THEN (kern.status[u] \ {"PEND", "SUSPEND", "DELAY", "PEND_TIME"}) \cup {"READY"}
           ELSE kern.status[u]
  BY <1>2, <1>4, <1>6, EnQueueEffect
<1>8. ListsOK(l)
  BY <1>2, <1>4, <1>6, EnQueueLists
<1> HIDE DEF l
<1>9. kern' = l
  BY <1>1, <1>7 DEF Committed
<1>10. /\ l.status[t] = {"READY"} /\ \A u \in TCB \ {t} : l.status[u] = kern.status[u]
  BY <1>3, <1>4, <1>7
<1>11. /\ pc'[r] = "sched" /\ \A u \in Task \ {r} : pc'[u] = pc[u] /\ child'[u] = child[u]
  BY <1>1, <1>2, <1>4, TCBs
<1>12. \A u \in Task \ {r} : pc[u] = "enq" => child[u] # t /\ child[u] \in TCB
  BY <1>1, <1>2, TCBs DEF Life, t, NoTask
<1>13. \A u \in Task : /\ Has(l, u, "PEND") <=> Has(kern, u, "PEND")
                       /\ Has(l, u, "TIMEOUT") <=> Has(kern, u, "TIMEOUT")
                       /\ u # t /\ Has(kern, u, "SUSPEND") => Has(l, u, "SUSPEND")
  BY <1>3, <1>10, TCBs DEF Has
<1>14. Places(l, pc', child')
  <2>1. \A u \in Task : pc'[u] = "enq" => l.status[child'[u]] = {"SUSPEND"}
    BY <1>10, <1>11, <1>12 DEF WaitInv, Places
  <2>2. \A u \in Task : Has(l, u, "PEND") \/ Has(l, u, "TIMEOUT") => pc'[u] \in {"block", "wait"}
    <3>1. pc[r] \notin {"block", "wait"}
      BY <1>1
    <3> QED BY <3>1, <1>11, <1>13 DEF WaitInv, Places
  <2> QED BY <2>1, <2>2 DEF Places
<1>15. Able(l)
  BY <1>4, <1>5, <1>7, <1>10 DEF Able
<1>16. WaitInv'
  <2>1. kern.run # Dead
    BY <1>1, TCBs
  <2> QED BY <2>1, <1>1, <1>7, <1>8, <1>9, <1>14, <1>15 DEF WaitInv, Leaving
<1>17. Preempts'
  BY <1>7, <1>9, <1>11 DEF Preempts
<1>18. Waits(kern, pc, l, pc')
  <2>1. \A u \in Task : /\ pc'[u] = "none" => pc[u] = "none"
                        /\ pc'[u] \in {"block", "wait"} <=> pc[u] \in {"block", "wait"}
    BY <1>1, <1>11
  <2> QED BY <2>1, <1>7, <1>13, NoWaitsChange DEF SameWaits
<1>19. child[kern.run] = t /\ kern.run \in Task
  BY <1>1 DEF t
<1> HIDE DEF r
<1> QED BY <1>7, <1>9, <1>13, <1>16, <1>17, <1>18, <1>19 DEF TaskStepOK, Has

\* What LOS_TaskDelete leaves of a task: it is off every list.
LEMMA ErasedEffect ==
  ASSUME NEW k, KInv(k), ListsOK(k), NEW t \in Task, ~Has(k, t, "UNUSED")
  PROVE  LET l == Erased(k, t) IN
         /\ l.wait = Unlink(k.wait, t) /\ l.priority = k.priority /\ l.halted = k.halted
         /\ l.status[t] = {"UNUSED"} /\ \A u \in TCB \ {t} : l.status[u] = k.status[u]
         /\ ListsWithout(k.wait, t, l.wait) /\ ListWithout(k.sorted, t, l.sorted)
<1> DEFINE m == OsSchedTaskExit(k, t)
           l == Erased(k, t)
           f == {"UNUSED"}
<1>1. /\ m.wait = Unlink(k.wait, t) /\ m.sorted = Without(k.sorted, t)
      /\ m.priority = k.priority /\ m.halted = k.halted
      /\ \A u \in TCB \ {t} : m.status[u] = k.status[u]
  BY ExitEffect
<1>2. m \in Kernel /\ t \in TCB /\ f \in SUBSET Flag
  BY ExitPreserves, TCBs DEF KInv, Flag
<1>3. l = [m EXCEPT !.status[t] = f]
  BY DEF Erased
<1>4. f = {"UNUSED"}
  OBVIOUS
<1> HIDE DEF l, m, f
<1>5. /\ l.wait = m.wait /\ l.sorted = m.sorted /\ l.priority = m.priority /\ l.halted = m.halted
      /\ \A u \in TCB : l.status[u] = IF u = t THEN f ELSE m.status[u]
  BY <1>2, <1>3, StatusUpdate
<1>6. k.wait \in [WaitObj -> Seq(Task)] /\ k.sorted \in Seq(Task)
  BY KernelFields DEF KInv
<1>7. ListsWithout(k.wait, t, Unlink(k.wait, t))
  BY <1>6, UnlinkProperties DEF ListsOK
<1>8. ListWithout(k.sorted, t, Without(k.sorted, t))
  BY <1>6, WithoutProperties DEF ListsOK, ListWithout
<1>9. l.status[t] = {"UNUSED"} /\ \A u \in TCB \ {t} : l.status[u] = k.status[u]
  BY <1>1, <1>2, <1>4, <1>5
<1> QED BY <1>1, <1>5, <1>7, <1>8, <1>9 DEF l

\* A task that is deleted stops waiting, whoever runs after that.
LEMMA DeathStep ==
  ASSUME TaskInv, WaitInv, NEW t \in Task, Exists(t), ~kern.halted,
         kern'.wait = Unlink(kern.wait, t), ListsWithout(kern.wait, t, kern'.wait),
         ListWithout(kern.sorted, t, kern'.sorted),
         kern'.status[t] = {"UNUSED"},
         \A u \in Task \ {t} : kern'.status[u] = kern.status[u],
         \A u \in TCB : TaskOK(kern', u),
         pc' = [pc EXCEPT ![t] = "none"] \/ pc' = [pc EXCEPT ![t] = "none", ![Dead] = "sched"],
         child' = [child EXCEPT ![t] = NoTask],
         Leaving(kern', pc', pendSV'), pendSV' => kern'.lock = 0,
         kern'.run = Dead => kern'.recycle # <<>>,
         kern.lock > 0 /\ kern'.lock > 0 => kern'.run = kern.run,
         Preempts => Preempts'
  PROVE  TaskStepOK
<1>1. ListsOK(kern')
  BY DEF ListsOK, ListsWithout, ListWithout
<1>2. /\ pc \in [TCB -> PC] /\ child \in [Task -> Task \cup {NoTask}]
      /\ Life(kern, pc, child) /\ t \in TCB
  BY TCBs DEF TaskInv, Inv
<1>3. /\ pc'[t] = "none" /\ \A u \in Task \ {t} : pc'[u] = pc[u] /\ child'[u] = child[u]
  BY <1>2, TCBs
<1>4. \A u \in Task \ {t} : pc[u] = "enq" => child[u] \in Task \ {t}
  BY <1>2 DEF Life, Exists, Unannounced
<1>5. ~Has(kern', t, "PEND") /\ ~Has(kern', t, "TIMEOUT")
  BY DEF Has
<1>6. Places(kern', pc', child')
  <2>1. \A u \in Task : pc'[u] = "enq" => kern'.status[child'[u]] = {"SUSPEND"}
    BY <1>3, <1>4 DEF WaitInv, Places
  <2>2. \A u \in Task : Has(kern', u, "PEND") \/ Has(kern', u, "TIMEOUT")
                          => pc'[u] \in {"block", "wait"}
    BY <1>3, <1>5 DEF WaitInv, Places, Has
  <2> QED BY <2>1, <2>2 DEF Places
<1>7. WaitInv'
  BY <1>1, <1>6 DEF WaitInv
<1>8. Waits(kern, pc, kern', pc')
  <2>1. t # NoTask /\ t \in Task \cup {NoTask}
    BY DEF NoTask, Task
  <2>2. \A u \in Task : /\ pc[u] \in {"block", "wait"} => pc'[u] \in {"block", "wait", "none"}
                        /\ pc'[u] \in {"block", "wait"} => pc[u] \in {"block", "wait"}
    BY <1>3
  <2>3. \A u \in Task \ {t} : /\ Has(kern', u, "PEND") <=> Has(kern, u, "PEND")
                              /\ Has(kern', u, "TIMEOUT") <=> Has(kern, u, "TIMEOUT")
                              /\ pc'[u] = "none" => pc[u] = "none"
    BY <1>3 DEF Has
  <2> QED BY <2>1, <2>2, <2>3, <1>3, <1>5 DEF Waits
<1>9. \A u \in Task : Has(kern, u, "SUSPEND") /\ "SUSPEND" \notin kern'.status[u]
                        => kern'.status[u] = {"UNUSED"}
  BY DEF Has
<1> QED BY <1>7, <1>8, <1>9 DEF TaskStepOK

\* LOS_TaskDelete of a task that does not run.
LEMMA DeleteOtherStep ==
  ASSUME TaskInv, WaitInv, NEW ctx \in Context, NEW t \in Task, TaskDeleteOther(ctx, t)
  PROVE  TaskStepOK
<1> DEFINE e == Erased(kern, t)
           f == <<t>> \o e.free
           l == [e EXCEPT !.free = f]
<1>1. /\ Caller(ctx) /\ Exists(t) /\ ~Has(kern, t, "RUNNING")
      /\ kern' = [e EXCEPT !.free = <<t>> \o @] /\ pc' = [pc EXCEPT ![t] = "none"]
      /\ child' = [child EXCEPT ![t] = NoTask] /\ pendSV' = pendSV /\ tick' = tick
  BY DEF TaskDeleteOther
<1>2. /\ KInv(kern) /\ RunsOK(kern) /\ ListsOK(kern) /\ t \in TCB /\ kern.run \in TCB
      /\ ~Has(kern, t, "UNUSED") /\ ~kern.halted /\ pc \in [TCB -> PC]
  BY <1>1, TCBs, CallerFacts DEF TaskInv, Inv, WaitInv, Exists
<1>3. /\ e.wait = Unlink(kern.wait, t) /\ e.priority = kern.priority /\ e.halted = kern.halted
      /\ e.status[t] = {"UNUSED"} /\ \A u \in TCB \ {t} : e.status[u] = kern.status[u]
      /\ ListsWithout(kern.wait, t, e.wait) /\ ListWithout(kern.sorted, t, e.sorted)
  BY <1>2, ErasedEffect
<1>4. /\ e \in Kernel /\ e.run = kern.run /\ e.lock = kern.lock /\ e.recycle = kern.recycle
  BY <1>2, ErasedPreserves DEF KInv
<1>5. kern' = l
  BY <1>1
<1> HIDE DEF e, f
<1>6. /\ l.wait = e.wait /\ l.sorted = e.sorted /\ l.priority = e.priority /\ l.halted = e.halted
      /\ l.status = e.status /\ l.run = e.run /\ l.lock = e.lock /\ l.recycle = e.recycle
  BY <1>4 DEF Kernel
<1> HIDE DEF l
<1>7. kern.run # t
  BY <1>1, <1>2 DEF RunsOK
<1>8. \A u \in TCB : TaskOK(l, u)
  <2>1. TaskOK(kern, t)
    BY <1>2 DEF ListsOK
  <2>2. TaskOK(l, t)
    <3>1. l.status[t] = {"UNUSED"} /\ t # l.run
      BY <1>3, <1>4, <1>6, <1>7
    <3>2. ~In(t, l.sorted) /\ \A o \in WaitObj : ~In(t, l.wait[o])
      BY <1>3, <1>6 DEF ListsWithout, ListWithout
    <3> QED BY <3>1, <3>2 DEF TaskOK, Has
  <2>3. Distinct(l.sorted) /\ \A o \in WaitObj : Distinct(l.wait[o])
    BY <1>3, <1>6 DEF ListsWithout, ListWithout
  <2>4. \A u \in TCB \ {t} : /\ l.status[u] = kern.status[u]
                             /\ In(u, l.sorted) <=> In(u, kern.sorted)
                             /\ \A o \in WaitObj : In(u, l.wait[o]) <=> In(u, kern.wait[o])
    BY <1>3, <1>6 DEF ListsWithout, ListWithout
  <2>5. ListsOK(l)
    BY ONLY <1>2, <1>4, <1>6, <2>2, <2>3, <2>4, OneChanges
  <2> QED BY <2>5 DEF ListsOK
<1>9. /\ pc'[kern.run] = pc[kern.run]
      /\ Able(l) <=> Able(kern)
  BY <1>1, <1>2, <1>3, <1>4, <1>6, <1>7 DEF Able
<1>10. Leaving(l, pc', pendSV')
  BY <1>1, <1>3, <1>4, <1>6, <1>9 DEF Leaving, WaitInv
<1>11. Preempts => Preempts'
  <2>1. \A u \in Task : Has(l, u, "READY") => Has(kern, u, "READY")
    BY <1>3, <1>6, TCBs DEF Has
  <2>2. HighestReady(kern) => HighestReady(l)
    BY <2>1, <1>3, <1>4, <1>6 DEF HighestReady
  <2> QED BY <2>2, <1>1, <1>3, <1>4, <1>5, <1>6, <1>9 DEF Preempts
<1>12. /\ pendSV' => l.lock = 0
       /\ l.run = Dead => l.recycle # <<>>
  BY <1>1, <1>4, <1>6 DEF WaitInv
<1>13. \A u \in Task \ {t} : l.status[u] = kern.status[u]
  BY <1>3, <1>6, TCBs
<1> QED BY <1>1, <1>2, <1>3, <1>4, <1>5, <1>6, <1>8, <1>10, <1>11, <1>12, <1>13, DeathStep

\* The running task deletes itself, or an interrupt deletes it.
LEMMA RunningDeleteStep ==
  ASSUME TaskInv, WaitInv, NEW ctx \in Context, NEW t \in Task, OsRunningTaskDelete(ctx, t)
  PROVE  TaskStepOK
<1> DEFINE e == Erased(kern, t)
           r == Append(e.recycle, t)
           s == [e.status EXCEPT ![Dead] = {"UNUSED", "RUNNING"}]
           l == [e EXCEPT !.recycle = r, !.run = Dead, !.lock = 0, !.status = s]
<1>1. /\ Caller(ctx) /\ Exists(t) /\ Has(kern, t, "RUNNING")
      /\ kern' = [e EXCEPT !.recycle = Append(@, t), !.run = Dead, !.lock = 0,
                           !.status[Dead] = {"UNUSED", "RUNNING"}]
      /\ pc' = [pc EXCEPT ![t] = "none", ![Dead] = "sched"]
      /\ child' = [child EXCEPT ![t] = NoTask] /\ pendSV' = (pendSV \/ ctx = "isr") /\ tick' = tick
  BY DEF OsRunningTaskDelete
<1>2. /\ KInv(kern) /\ RunsOK(kern) /\ ListsOK(kern) /\ t \in TCB /\ kern.run \in TCB
      /\ ~Has(kern, t, "UNUSED") /\ ~kern.halted /\ pc \in [TCB -> PC] /\ Dead \in TCB /\ t # Dead
  BY <1>1, TCBs, CallerFacts DEF TaskInv, Inv, WaitInv, Exists
<1>3. /\ e.wait = Unlink(kern.wait, t) /\ e.priority = kern.priority /\ e.halted = kern.halted
      /\ e.status[t] = {"UNUSED"} /\ \A u \in TCB \ {t} : e.status[u] = kern.status[u]
      /\ ListsWithout(kern.wait, t, e.wait) /\ ListWithout(kern.sorted, t, e.sorted)
  BY <1>2, ErasedEffect
<1>4. e \in Kernel /\ e.recycle = kern.recycle /\ e.recycle \in Seq(Task) /\ e.status \in [TCB -> SUBSET Flag]
  BY <1>2, ErasedPreserves, KernelFields DEF KInv
<1>5. kern' = l
  BY <1>1, <1>4
<1> HIDE DEF e
<1>6. r # <<>>
  BY <1>4
<1>7. s[Dead] = {"UNUSED", "RUNNING"} /\ \A u \in TCB \ {Dead} : s[u] = e.status[u]
  BY <1>2, <1>4
<1> HIDE DEF r, s
<1>8. /\ l.wait = e.wait /\ l.sorted = e.sorted /\ l.status = s /\ l.run = Dead
      /\ l.lock = 0 /\ l.recycle = r
  BY <1>4 DEF Kernel
<1> HIDE DEF l
<1>9. /\ l.status[t] = {"UNUSED"} /\ l.status[Dead] = {"UNUSED", "RUNNING"}
      /\ \A u \in TCB \ {t, Dead} : l.status[u] = kern.status[u]
  BY <1>2, <1>3, <1>7, <1>8
<1>10. t = kern.run
  BY <1>1, <1>2 DEF ListsOK, TaskOK
<1>11. \A u \in TCB : TaskOK(l, u)
  <2>1. TaskOK(l, t)
    BY <1>2, <1>3, <1>8, <1>9 DEF TaskOK, Has, ListsWithout, ListWithout
  <2>2. TaskOK(l, Dead)
    BY <1>8, <1>9, TCBs DEF TaskOK, Has
  <2>3. ASSUME NEW u \in TCB \ {t, Dead} PROVE TaskOK(l, u)
    <3>1. TaskOK(kern, u) /\ l.status[u] = kern.status[u] /\ u # t /\ u # l.run /\ u # kern.run
      BY <1>2, <1>8, <1>9, <1>10 DEF ListsOK
    <3>2. /\ In(u, l.sorted) <=> In(u, kern.sorted)
          /\ \A o \in WaitObj : In(u, l.wait[o]) <=> In(u, kern.wait[o])
      BY <3>1, <1>3, <1>8 DEF ListsWithout, ListWithout
    <3> QED BY <3>1, <3>2 DEF TaskOK, Has
  <2> QED BY <2>1, <2>2, <2>3
<1>12. pc'[Dead] = "sched"
  BY <1>1, <1>2
<1>13. Leaving(l, pc', pendSV') /\ Preempts'
  BY <1>5, <1>8, <1>12 DEF Leaving, Preempts
<1>14. \A u \in Task \ {t} : l.status[u] = kern.status[u]
  BY <1>9, TCBs
<1>15. /\ kern'.wait = Unlink(kern.wait, t) /\ ListsWithout(kern.wait, t, kern'.wait)
       /\ ListWithout(kern.sorted, t, kern'.sorted) /\ kern'.status[t] = {"UNUSED"}
       /\ \A u \in Task \ {t} : kern'.status[u] = kern.status[u]
       /\ \A u \in TCB : TaskOK(kern', u)
       /\ Leaving(kern', pc', pendSV')
       /\ kern'.lock = 0 /\ ~(kern'.lock > 0) /\ kern'.recycle # <<>>
  <2>1. l.lock = 0 /\ ~(l.lock > 0) /\ l.recycle # <<>>
    BY <1>6, <1>8
  <2> QED BY <1>3, <1>5, <1>8, <1>9, <1>11, <1>13, <1>14, <2>1
<1> QED BY <1>1, <1>2, <1>13, <1>15, DeathStep

-----------------------------------------------------------------------------
(* The switch and the tick.                                                *)

\* LOS_Schedule at the end of a service.
LEMMA ScheduleStep ==
  ASSUME TaskInv, WaitInv, LOS_Schedule
  PROVE  TaskStepOK
<1> DEFINE r == kern.run
<1>1. /\ ~kern.halted /\ pc[r] \in {"sched", "block"} /\ kern' = kern /\ child' = child
      /\ tick' = tick /\ pendSV' = (kern.lock = 0)
      /\ \/ pc[r] = "sched" /\ pc' = [pc EXCEPT ![r] = "run"]
         \/ pc[r] = "block" /\ pc' = [pc EXCEPT ![r] = "wait"]
  BY DEF LOS_Schedule, Running
<1>2. kern \in Kernel /\ r \in TCB /\ pc \in [TCB -> PC]
  BY KernelFields DEF TaskInv, Inv, KInv
<1>3. \A u \in Task : /\ pc'[u] = "enq" => pc[u] = "enq"
                      /\ pc'[u] = "none" => pc[u] = "none"
                      /\ pc'[u] \in {"block", "wait"} <=> pc[u] \in {"block", "wait"}
  BY <1>1, <1>2, TCBs
<1>4. WaitInv'
  BY <1>1, <1>3 DEF WaitInv, Leaving, Places
<1>5. Preempts'
  BY <1>1 DEF Preempts
<1>6. Waits(kern, pc, kern, pc')
  BY <1>3, NoWaitsChange
<1> QED BY <1>1, <1>4, <1>5, <1>6 DEF TaskStepOK, Has

\* The context switch.
LEMMA PendSVStep ==
  ASSUME TaskInv, WaitInv, HalPendSV
  PROVE  TaskStepOK
<1>1. PICK spent \in BOOLEAN, pos \in 1..(Len(kern.sorted) + 1) :
        kern' = Committed(kern, OsSchedTaskSwitch(kern, spent, pos))
  BY DEF HalPendSV
<1> DEFINE l == OsSchedTaskSwitch(kern, spent, pos)
<1>2. /\ pendSV /\ tick = "out" /\ ~kern.halted /\ pendSV' = FALSE
      /\ pc' = pc /\ child' = child /\ tick' = tick /\ kern.lock = 0
  BY DEF HalPendSV, WaitInv
<1>3. /\ KInv(kern) /\ RunsOK(kern) /\ ListsOK(kern) /\ kern \in Kernel
      /\ Life(kern, pc, child) /\ child \in [Task -> Task \cup {NoTask}]
  BY DEF TaskInv, Inv, KInv, WaitInv
<1>4. l.halted \/ Switched(kern, l)
  BY <1>3, SwitchEffect DEF RunsOK
<1>5. kern' = Committed(kern, l)
  BY <1>1
<1> HIDE DEF l
<1>6. CASE l.halted
  <2> DEFINE h == [kern EXCEPT !.halted = TRUE]
  <2>1. kern' = h
    BY <1>5, <1>6 DEF Committed
  <2>2. /\ h.halted /\ SameWaits(kern, h) /\ h.status = kern.status /\ h.run = kern.run
        /\ h.lock = kern.lock /\ h.recycle = kern.recycle
    BY <1>3, HaltedFields
  <2> HIDE DEF h
  <2>3. ListsOK(h)
    BY <1>3, <2>2, NothingChanges
  <2>4. WaitInv'
    BY <1>2, <2>1, <2>2, <2>3 DEF WaitInv, Leaving, Places, Has
  <2>5. Preempts'
    BY <2>1, <2>2 DEF Preempts
  <2>6. Waits(kern, pc, h, pc)
    BY <2>2, NoWaitsChange DEF SameWaits, Has
  <2> QED BY <1>2, <2>1, <2>2, <2>4, <2>5, <2>6 DEF TaskStepOK, Has
<1>7. CASE ~l.halted /\ Switched(kern, l)
  <2>1. kern' = l
    BY <1>5, <1>7 DEF Committed
  <2>2. /\ ListsOK(l) /\ l.wait = kern.wait /\ l.lock = kern.lock /\ l.recycle = kern.recycle
        /\ \A u \in TCB : \A f \in Lasting : Has(l, u, f) <=> Has(kern, u, f)
        /\ \A u \in TCB \ {kern.run, l.run} : l.status[u] = kern.status[u]
        /\ l.run # Dead /\ l.status[l.run] \cap (Blocked \cup {"READY"}) = {}
        /\ HighestReady(l)
    BY <1>7 DEF Switched, HighestReady
  <2>3. \A u \in Task : /\ Has(l, u, "PEND") <=> Has(kern, u, "PEND")
                        /\ Has(l, u, "TIMEOUT") <=> Has(kern, u, "TIMEOUT")
                        /\ Has(l, u, "SUSPEND") <=> Has(kern, u, "SUSPEND")
    BY <2>2, TCBs DEF Lasting
  <2>4. Places(l, pc, child)
    <3>1. ASSUME NEW u \in Task, pc[u] = "enq" PROVE l.status[child[u]] = {"SUSPEND"}
      <4>1. child[u] \in Task /\ kern.status[child[u]] = {"SUSPEND"}
        BY <1>3, <3>1 DEF Life, WaitInv, Places
      <4>2. child[u] # kern.run
        BY <1>3, <4>1 DEF RunsOK, Has
      <4>3. Has(l, child[u], "SUSPEND")
        BY <2>3, <4>1 DEF Has
      <4>4. child[u] # l.run
        BY <2>2, <4>3 DEF Has, Blocked
      <4> QED BY <2>2, <4>1, <4>2, <4>4, TCBs
    <3> QED BY <2>3, <3>1 DEF WaitInv, Places
  <2>5. WaitInv'
    BY <1>2, <2>1, <2>2, <2>4 DEF WaitInv, Leaving, Able
  <2>6. Preempts'
    BY <2>1, <2>2 DEF Preempts
  <2>7. Waits(kern, pc, l, pc)
    BY <2>2, <2>3, NoWaitsChange
  <2>8. ~(kern.lock > 0)
    BY <1>2
  <2> QED BY <1>2, <2>1, <2>3, <2>5, <2>6, <2>7, <2>8 DEF TaskStepOK, Has
<1> QED BY <1>4, <1>6, <1>7

\* A step of the tick handler that wakes nobody.
LEMMA QuietTick ==
  ASSUME TaskInv, WaitInv, ListsOK(kern'), SameWaits(kern, kern'), kern'.status = kern.status,
         kern'.priority = kern.priority, kern'.run = kern.run, kern'.lock = kern.lock,
         kern'.recycle = kern.recycle, kern'.halted = kern.halted, pc' = pc, child' = child,
         \/ pendSV' = pendSV /\ (tick' # "scanSched" => tick # "scanSched" \/ kern.lock # 0)
         \/ pendSV' = TRUE /\ kern.lock = 0
  PROVE  TaskStepOK
<1>1. WaitInv'
  BY DEF WaitInv, Leaving, Able, Places, Has
<1>2. Preempts => Preempts'
  BY DEF Preempts, HighestReady, Has
<1>3. Waits(kern, pc, kern', pc)
  BY NoWaitsChange DEF SameWaits, Has
<1> QED BY <1>1, <1>2, <1>3 DEF TaskStepOK, Has

\* The slice is charged.
LEMMA ChargeEffect ==
  ASSUME TaskInv, WaitInv, kern' = kern \/ TickCharge(kern)
  PROVE  /\ ListsOK(kern') /\ SameWaits(kern, kern') /\ kern'.status = kern.status
         /\ kern'.priority = kern.priority /\ kern'.run = kern.run /\ kern'.lock = kern.lock
         /\ kern'.recycle = kern.recycle /\ kern'.halted = kern.halted
<1>1. CASE kern' = kern
  BY <1>1 DEF WaitInv, SameWaits
<1>2. CASE TickCharge(kern)
  <2>1. PICK spent \in BOOLEAN : kern' = OsTimeSliceUpdate(kern, spent)
    BY <1>2 DEF TickCharge
  <2>2. KInv(kern) /\ ListsOK(kern)
    BY DEF TaskInv, Inv, WaitInv
  <2> QED BY <2>1, <2>2, TimeSliceEffect
<1> QED BY <1>1, <1>2

\* A delay or a wait is over.
LEMMA ExpireStep ==
  ASSUME TaskInv, WaitInv, TickExpire
  PROVE  TaskStepOK
<1> DEFINE t == Head(kern.sorted)
           l == OsSchedWakePendTimeTask(kern)
           w == Unlink(kern.wait, t)
<1>1. /\ tick # "out" /\ ~kern.halted /\ kern.sorted # <<>> /\ kern' = Committed(kern, l)
      /\ tick' = (IF WakePendTimeSchedules(kern) THEN "scanSched" ELSE tick)
      /\ pc' = pc /\ child' = child /\ pendSV' = pendSV
  BY DEF TickExpire
<1>2. /\ KInv(kern) /\ RunsOK(kern) /\ ListsOK(kern) /\ kern.run \in TCB
      /\ Life(kern, pc, child) /\ child \in [Task -> Task \cup {NoTask}]
  BY KernelFields DEF TaskInv, Inv, WaitInv, KInv
<1>3. /\ t \in Task /\ t # kern.run /\ (Has(kern, t, "PEND") \/ Has(kern, t, "DELAY"))
      /\ Released(kern, l, t, w, Has(kern, t, "PEND"))
  BY <1>1, <1>2, ExpireEffect
<1>4. WakePendTimeSchedules(kern) <=> ~Has(kern, t, "SUSPEND")
  BY <1>3 DEF WakePendTimeSchedules
<1> HIDE DEF t, l, w
<1>5. /\ ListsOK(l) /\ l.wait = w /\ l.priority = kern.priority /\ l.halted = kern.halted
      /\ l.run = kern.run /\ l.lock = kern.lock /\ l.recycle = kern.recycle
      /\ \A u \in TCB \ {t} : l.status[u] = kern.status[u]
      /\ ~Has(l, t, "PEND")
      /\ (Has(l, t, "TIMEOUT") <=> Has(kern, t, "TIMEOUT") \/ Has(kern, t, "PEND"))
      /\ (Has(l, t, "SUSPEND") <=> Has(kern, t, "SUSPEND"))
      /\ (Has(l, t, "READY") <=> ~Has(kern, t, "SUSPEND"))
  BY <1>3 DEF Released, Keeps
<1>6. kern' = l
  BY <1>1, <1>5 DEF Committed
<1>7. Able(l) <=> Able(kern)
  BY <1>2, <1>3, <1>5 DEF Able
<1>8. \A u \in Task \ {t} : /\ Has(l, u, "PEND") <=> Has(kern, u, "PEND")
                            /\ Has(l, u, "TIMEOUT") <=> Has(kern, u, "TIMEOUT")
                            /\ Has(l, u, "SUSPEND") <=> Has(kern, u, "SUSPEND")
                            /\ Has(l, u, "READY") <=> Has(kern, u, "READY")
  BY <1>5, TCBs DEF Has
<1>9. Places(l, pc, child)
  <2>1. ASSUME NEW u \in Task, pc[u] = "enq" PROVE l.status[child[u]] = {"SUSPEND"}
    <3>1. child[u] \in Task /\ kern.status[child[u]] = {"SUSPEND"}
      BY <1>2, <2>1 DEF Life, WaitInv, Places
    <3>2. child[u] # t
      BY <1>3, <3>1 DEF Has
    <3> QED BY <1>5, <3>1, <3>2, TCBs
  <2>2. ASSUME NEW u \in Task, Has(l, u, "PEND") \/ Has(l, u, "TIMEOUT")
        PROVE  pc[u] \in {"block", "wait"}
    <3>1. Has(kern, u, "PEND") \/ Has(kern, u, "TIMEOUT")
      BY <1>5, <1>8, <2>2
    <3> QED BY <3>1 DEF WaitInv, Places
  <2> QED BY <2>1, <2>2 DEF Places
<1>10. WaitInv'
  BY <1>1, <1>5, <1>6, <1>7, <1>9 DEF WaitInv, Leaving
<1>11. Preempts => Preempts'
  <2>1. CASE Has(kern, t, "SUSPEND")
    <3>1. HighestReady(kern) => HighestReady(l)
      BY <2>1, <1>5, <1>8 DEF HighestReady
    <3> QED BY <3>1, <2>1, <1>1, <1>4, <1>5, <1>6 DEF Preempts
  <2>2. CASE ~Has(kern, t, "SUSPEND")
    BY <2>2, <1>1, <1>4 DEF Preempts
  <2> QED BY <2>1, <2>2
<1>12. Waits(kern, pc, l, pc)
  <2>1. NoTask \in Task \cup {NoTask} /\ NoTask \notin Task
    BY DEF NoTask, Task
  <2>2. CASE Has(kern, t, "PEND")
    <3>1. Has(l, t, "TIMEOUT") /\ ~Has(l, t, "PEND") /\ l.wait = Unlink(kern.wait, t)
      BY <2>2, <1>5 DEF w
    <3> QED BY <2>1, <2>2, <3>1, <1>3, <1>8 DEF Waits
  <2>3. CASE ~Has(kern, t, "PEND")
    <3>1. \A o \in WaitObj : ~In(t, kern.wait[o])
      BY <2>3, <1>2, <1>3, TCBs DEF ListsOK, TaskOK
    <3>2. kern.wait \in [WaitObj -> Seq(Task)]
      BY <1>2, KernelFields DEF KInv
    <3>3. w = kern.wait
      BY <3>1, <3>2, UnlinkAbsent DEF w
    <3>4. \A u \in Task : /\ Has(l, u, "PEND") <=> Has(kern, u, "PEND")
                          /\ Has(l, u, "TIMEOUT") <=> Has(kern, u, "TIMEOUT")
      BY <2>3, <1>5, <1>8
    <3> QED BY <3>3, <3>4, <1>5, NoWaitsChange
  <2> QED BY <2>2, <2>3
<1>13. \A u \in Task : Has(kern, u, "SUSPEND") => Has(l, u, "SUSPEND")
  BY <1>5, <1>8
<1> QED BY <1>1, <1>5, <1>6, <1>10, <1>11, <1>12, <1>13 DEF TaskStepOK, Has

\* The tick handler.
LEMMA TickStep ==
  ASSUME TaskInv, WaitInv, TickSliceEnd \/ TickEnter \/ TickExpire \/ TickExit
  PROVE  TaskStepOK
<1>1. CASE TickSliceEnd
  BY <1>1, ChargeEffect, QuietTick DEF TickSliceEnd
<1>2. CASE TickEnter
  BY <1>2, ChargeEffect, QuietTick DEF TickEnter
<1>3. CASE TickExpire
  BY <1>3, ExpireStep
<1>4. CASE TickExit
  BY <1>4, ChargeEffect, QuietTick DEF TickExit
<1> QED BY <1>1, <1>2, <1>3, <1>4

-----------------------------------------------------------------------------
(* The specification.                                                      *)

\* The invariant holds at the start of the kernel.
LEMMA InitWaits ==
  ASSUME TaskInit
  PROVE  WaitInv /\ Preempts
<1> DEFINE st == [t \in TCB |-> CASE t = Idle      -> {"READY"}
                                  [] t = 1         -> {"RUNNING"}
                                  [] t \in 2..Boot -> {"SUSPEND"}
                                  [] OTHER         -> {"UNUSED"}]
<1>1. PICK p \in [Task -> Prio] :
        kern = [status |-> st, priority |-> p, slice |-> [t \in Task |-> t = 1],
                ready |-> [q \in Prio |-> <<>>], bitmap |-> {}, sorted |-> <<>>,
                wait |-> [o \in WaitObj |-> <<>>],
                free |-> [i \in 1..(N - Boot) |-> Boot + i], recycle |-> <<>>,
                run |-> 1, lock |-> 0, halted |-> FALSE]
  BY DEF TaskInit
<1>2. /\ 1 \in Task /\ 1 \in TCB /\ 1 # Idle /\ 1 # Dead
      /\ \A t \in 2..Boot : t # Idle /\ t # Dead
  BY NAssumption, BootAssumption DEF Task, TCB, Idle, Dead
<1>3. /\ kern.run = 1 /\ kern.sorted = <<>> /\ kern.lock = 0
      /\ \A o \in WaitObj : kern.wait[o] = <<>>
      /\ \A t \in TCB : /\ kern.status[t] \in {{"READY"}, {"RUNNING"}, {"SUSPEND"}, {"UNUSED"}}
                        /\ kern.status[t] = {"RUNNING"} <=> t = 1
                        /\ t \in Task => kern.status[t] # {"READY"}
  <2>1. /\ \A t \in TCB : t = Idle => st[t] = {"READY"}
        /\ \A t \in TCB : t = 1 => st[t] = {"RUNNING"}
        /\ \A t \in TCB : t \in 2..Boot => st[t] = {"SUSPEND"}
        /\ \A t \in TCB : t # Idle /\ t # 1 /\ t \notin 2..Boot => st[t] = {"UNUSED"}
    BY DEF Idle
  <2> HIDE DEF st
  <2>2. kern.status = st
    BY <1>1
  <2>3. 1 \notin 2..Boot /\ Idle \notin 2..Boot
    BY DEF Idle
  <2>4. \A t \in TCB : /\ st[t] \in {{"READY"}, {"RUNNING"}, {"SUSPEND"}, {"UNUSED"}}
                       /\ st[t] = {"RUNNING"} <=> t = 1
                       /\ t \in Task => st[t] # {"READY"}
    BY <2>1, <2>3, <1>2, TCBs
  <2>5. kern.run = 1 /\ kern.sorted = <<>> /\ kern.lock = 0
        /\ \A o \in WaitObj : kern.wait[o] = <<>>
    BY <1>1
  <2> QED BY <2>2, <2>4, <2>5
<1>4. \A t : ~In(t, <<>>)
  BY DEF In
<1>5. Distinct(<<>>)
  BY DEF Distinct
<1>6. ASSUME NEW t \in TCB PROVE TaskOK(kern, t)
  BY <1>3, <1>4 DEF TaskOK, Has, Blocked
<1>7. ListsOK(kern)
  BY <1>3, <1>5, <1>6 DEF ListsOK
<1>8. pc = [t \in TCB |-> IF t \in 0..Boot THEN "run" ELSE "none"] /\ pendSV = FALSE
  BY DEF TaskInit
<1>9. Places(kern, pc, child)
  BY <1>3, <1>8, TCBs DEF Places, Has
<1>10. Leaving(kern, pc, pendSV)
  BY <1>2, <1>3 DEF Leaving, Able, Blocked
<1>11. HighestReady(kern)
  BY <1>3, TCBs DEF HighestReady, Has
<1> QED BY <1>2, <1>3, <1>7, <1>8, <1>9, <1>10, <1>11 DEF WaitInv, Preempts

\* Every step of task management.
LEMMA NextStep ==
  ASSUME TaskInv, WaitInv, [TaskNext]_taskVars
  PROVE  TaskStepOK
<1>1. CASE UNCHANGED taskVars
  <2>1. kern' = kern /\ pc' = pc /\ child' = child /\ pendSV' = pendSV /\ tick' = tick
    BY <1>1 DEF taskVars
  <2> QED BY <2>1, ChargeEffect, QuietTick
<1>2. CASE TaskCreateTake \/ TaskCreateUnavailable \/ TaskCreateNoMemory \/ OsIdleTask
  BY <1>2, PoolsStep
<1>3. CASE LOS_TaskCreateOnly \/ TaskCreateInit
  BY <1>3, BirthStep
<1>4. CASE LOS_TaskCreate
  BY <1>4, AnnounceStep
<1>5. ASSUME NEW ctx \in Context, NEW t \in Task, TaskDeleteOther(ctx, t)
      PROVE  TaskStepOK
  BY <1>5, DeleteOtherStep
<1>6. ASSUME NEW ctx \in Context, NEW t \in Task, OsRunningTaskDelete(ctx, t)
      PROVE  TaskStepOK
  BY <1>6, RunningDeleteStep
<1>7. ASSUME NEW ctx \in Context, NEW t \in Task, LOS_TaskSuspend(ctx, t)
      PROVE  TaskStepOK
  BY <1>7, SuspendStep
<1>8. ASSUME NEW ctx \in Context, NEW t \in Task, LOS_TaskResume(ctx, t)
      PROVE  TaskStepOK
  BY <1>8, ResumeStep
<1>9. ASSUME NEW t \in Task, NEW p \in Prio, LOS_TaskPriSet(t, p)
      PROVE  TaskStepOK
  BY <1>9, PriSetStep
<1>10. CASE LOS_TaskDelay
  BY <1>10, DelayStep
<1>11. CASE LOS_TaskYield
  BY <1>11, YieldStep
<1>12. CASE LOS_TaskLock \/ LOS_TaskUnlock
  BY <1>12, LockStep
<1>13. CASE LOS_Schedule
  BY <1>13, ScheduleStep
<1>14. CASE HalPendSV
  BY <1>14, PendSVStep
<1>15. CASE AssertSpins
  BY <1>15, <1>1 DEF AssertSpins
<1>16. CASE TickSliceEnd \/ TickEnter \/ TickExpire \/ TickExit
  BY <1>16, TickStep
<1> QED BY <1>1, <1>2, <1>3, <1>4, <1>5, <1>6, <1>7, <1>8, <1>9, <1>10, <1>11, <1>12,
           <1>13, <1>14, <1>15, <1>16 DEF TaskNext, TaskService, TaskSystem

\* The waits agree, and the step relation keeps what it must.
LEMMA WaitsHold ==
  /\ TaskSpec => [](TaskInv /\ WaitInv /\ Preempts)
  /\ TaskSpec => [][TaskStepOK]_taskVars
<1>1. TaskInit => TaskInv /\ WaitInv /\ Preempts
  BY InitInv, InitWaits
<1>2. TaskInv /\ WaitInv /\ Preempts /\ [TaskNext]_taskVars => TaskStepOK /\ TaskInv'
  BY NextStep, NextInv
<1>3. TaskStepOK /\ TaskInv' /\ Preempts => (TaskInv /\ WaitInv /\ Preempts)'
  BY DEF TaskStepOK
<1> QED BY <1>1, <1>2, <1>3, PTL DEF TaskSpec

\* The sort link holds the tasks that wait for a time and have left the CPU,
\* each once, whoever wakes, resumes, suspends or deletes them
\* (OsDeleteSortLink's callers).
THEOREM SortLinkAlwaysAgrees == TaskSpec => []SortLinkAgrees
<1>1. WaitInv => SortLinkAgrees
  BY TCBs DEF WaitInv, ListsOK, TaskOK, SortLinkAgrees
<1> QED BY <1>1, WaitsHold, PTL

\* One task runs, a ready task is not blocked, a timed wait is a wait, and a
\* TCB of the pool is nothing else (los_task.h's status flags).
THEOREM StatusesAlwaysAgree == TaskSpec => []StatusesAgree
<1>1. ASSUME TaskInv, WaitInv PROVE StatusesAgree
  <2>1. ASSUME NEW t \in TCB
        PROVE  /\ Has(kern, t, "RUNNING") <=> t = kern.run
               /\ Has(kern, t, "READY") => kern.status[t] \cap (Blocked \cup {"UNUSED"}) = {}
               /\ Has(kern, t, "PEND_TIME") => Has(kern, t, "PEND")
    BY <1>1 DEF WaitInv, ListsOK, TaskOK
  <2>2. ASSUME NEW t \in TCB, Has(kern, t, "UNUSED")
        PROVE  kern.status[t] \subseteq {"UNUSED", "RUNNING"}
    <3>1. KInv(kern)
      BY <1>1 DEF TaskInv, Inv
    <3>2. t # Idle
      BY <2>2, <3>1 DEF KInv, StatusOK, Has
    <3>3. CASE t = Dead
      BY <3>1, <3>3 DEF KInv, StatusOK
    <3>4. CASE t \in Task
      BY <2>2, <3>1, <3>4 DEF KInv, StatusOK
    <3> QED BY <3>2, <3>3, <3>4, TCBs
  <2> QED BY <2>1, <2>2 DEF StatusesAgree
<1> QED BY <1>1, WaitsHold, PTL

\* Preemption by priority: every service that readies a task or changes a
\* priority reschedules, and the tick handler too (LOS_Schedule, HalPendSV).
THEOREM HighestAlwaysRuns == TaskSpec => []HighestRuns
<1>1. Preempts => HighestRuns
  BY DEF Preempts, HighestReady, HighestRuns
<1> QED BY <1>1, WaitsHold, PTL

\* The stack of a task that deleted itself is not freed before the switch
\* (OsRunningTaskDelete, OsRecyleFinishedTask).
THEOREM FinishedStackAlwaysKept == TaskSpec => []FinishedStackKept
<1>1. WaitInv => FinishedStackKept
  BY DEF WaitInv, FinishedStackKept
<1> QED BY <1>1, WaitsHold, PTL

\* While the tasks are locked no other task gets the CPU (LOS_TaskLock), not
\* even when the running task is suspended or deleted by an interrupt.
THEOREM LockHoldsCPU == TaskSpec => NoSwitchUnderLock
<1>1. [TaskStepOK]_taskVars => [kern.lock > 0 /\ kern'.lock > 0 => kern'.run = kern.run]_taskVars
  BY DEF TaskStepOK
<1> QED BY <1>1, WaitsHold, PTL DEF NoSwitchUnderLock

\* A post, a timeout or an expired delay never ends a suspension
\* (OsSchedTaskWake, OsSchedWakePendTimeTask).
THEOREM SuspensionAlwaysHolds == TaskSpec => SuspensionHolds
<1>1. [TaskStepOK]_taskVars =>
        [\A t \in Task :
           Has(kern, t, "SUSPEND") /\ "SUSPEND" \notin kern'.status[t]
             => \/ \E ctx \in Context : LOS_TaskResume(ctx, t)
                \/ kern.run \in Task /\ child[kern.run] = t /\ LOS_TaskCreate
                \/ kern'.status[t] = {"UNUSED"}]_taskVars
  BY DEF TaskStepOK
<1> QED BY <1>1, WaitsHold, PTL DEF SuspensionHolds

-----------------------------------------------------------------------------
(* What the services that wait and wake do, for the modules of the IPC     *)
(* objects.                                                                *)

\* Task management stands still.
LEMMA TasksStand ==
  ASSUME TaskInv, WaitInv, UNCHANGED <<kern, pc, child, pendSV, tick>>
  PROVE  TaskInv' /\ WaitInv' /\ (Preempts => Preempts')
BY DEF TaskInv, WaitInv, Preempts

\* Kernel state l is k where at most priorities, and with them the ready
\* queues, are others.
Repriced(k, l) ==
  /\ KInv(l) /\ Keeps(k, l) /\ ListsOK(l) /\ SameWaits(k, l)
  /\ l.halted = k.halted /\ l.recycle = k.recycle
  /\ \A u \in TCB : l.status[u] = k.status[u]

\* OsSchedModifyTaskSchedParam is such a change.
LEMMA RepricedBy ==
  ASSUME NEW k, KInv(k), ListsOK(k)
  PROVE  /\ Repriced(k, k)
         /\ \A t \in Task, p \in Prio :
              ~Has(k, t, "UNUSED") => Repriced(k, OsSchedModifyTaskSchedParam(k, t, p))
<1>1. Repriced(k, k)
  BY DEF Repriced, SameWaits, Keeps
<1>2. ASSUME NEW t \in Task, NEW p \in Prio, ~Has(k, t, "UNUSED")
      PROVE  Repriced(k, OsSchedModifyTaskSchedParam(k, t, p))
  <2> DEFINE l == OsSchedModifyTaskSchedParam(k, t, p)
  <2>1. KInv(l) /\ Keeps(k, l)
    BY <1>2, ModifyPreserves
  <2>2. /\ ListsOK(l) /\ SameWaits(k, l) /\ l.run = k.run /\ l.lock = k.lock
        /\ l.recycle = k.recycle /\ l.halted = k.halted
        /\ l.priority = [k.priority EXCEPT ![t] = p]
        /\ \A u \in TCB : l.status[u] = k.status[u]
    BY <1>2, ModifyEffect
  <2> HIDE DEF l
  <2> QED BY <2>1, <2>2 DEF Repriced, l
<1> QED BY <1>1, <1>2

\* The task of k that runs puts itself on the wait list of obj.
LEMMA WaitEffect ==
  ASSUME NEW k, KInv(k), ListsOK(k), RunsOK(k), k.run \in Task, Able(k), ~Has(k, k.run, "TIMEOUT"),
         NEW obj \in WaitObj, NEW timed \in BOOLEAN
  PROVE  LET l == OsSchedTaskWait(k, obj, timed) IN
         /\ KInv(l) /\ Keeps(k, l) /\ ListsOK(l)
         /\ l.wait = [k.wait EXCEPT ![obj] = Append(@, k.run)]
         /\ l.priority = k.priority /\ l.halted = k.halted
         /\ Has(l, k.run, "PEND") /\ ~Has(k, k.run, "PEND")
         /\ \A u \in TCB \ {k.run} : l.status[u] = k.status[u]
<1> DEFINE r == k.run
           flags == k.status[r] \cup ({"PEND"} \cup (IF timed THEN {"PEND_TIME"} ELSE {}))
           w == [k.wait EXCEPT ![obj] = Append(@, r)]
           l == WithWaits(k, r, flags, w, k.sorted)
<1>1. /\ KInv(k) /\ RunsOK(k) /\ ListsOK(k) /\ k \in Kernel
      /\ r \in Task /\ r \in TCB /\ Able(k) /\ ~Has(k, r, "TIMEOUT")
  BY TCBs DEF KInv
<1>2. /\ k.wait \in [WaitObj -> Seq(Task)] /\ k.sorted \in Seq(Task)
      /\ flags \in SUBSET Flag
  BY <1>1, KernelFields DEF Flag
<1>3. TaskOK(k, r) /\ \A o \in WaitObj : Distinct(k.wait[o])
  BY <1>1 DEF ListsOK
<1>4. ~Has(k, r, "PEND") /\ ~Has(k, r, "DELAY") /\ ~Has(k, r, "READY") /\ ~Has(k, r, "UNUSED")
  BY <1>1 DEF Able, Blocked, Has, RunsOK
<1>5. \A o \in WaitObj : ~In(r, k.wait[o])
  BY <1>1, <1>3, <1>4 DEF TaskOK
<1>6. /\ w \in [WaitObj -> Seq(Task)] /\ w[obj] = Append(k.wait[obj], r)
      /\ \A o \in WaitObj \ {obj} : w[o] = k.wait[o]
  <2>1. Append(k.wait[obj], r) \in Seq(Task)
    BY <1>1, <1>2, EndsProperties
  <2> QED BY <2>1, <1>2
<1>7. /\ Distinct(w[obj]) /\ \A u : In(u, w[obj]) <=> In(u, k.wait[obj]) \/ u = r
  <2> DEFINE q == k.wait[obj]
  <2>1. q \in Seq(Task) /\ Distinct(q) /\ ~In(r, q) /\ w[obj] = Append(q, r)
    BY <1>2, <1>3, <1>5, <1>6
  <2> HIDE DEF q, r, w
  <2>2. /\ Distinct(Append(q, r)) /\ \A u : In(u, Append(q, r)) <=> In(u, q) \/ u = r
    BY <1>1, <2>1, EndsProperties
  <2> QED BY <2>1, <2>2 DEF q
<1>8. OsSchedTaskWait(k, obj, timed) = l
  <2>1. OsSchedTaskWait(k, obj, timed) = [[k EXCEPT !.status[r] = flags] EXCEPT !.wait[obj] = Append(@, r)]
    BY DEF OsSchedTaskWait, SetFlag
  <2> QED BY <2>1, <1>1, <1>2 DEF WithWaits, Kernel
<1>9. /\ \A f \in {"READY", "UNUSED", "RUNNING", "DELAY", "TIMEOUT", "SUSPEND"} : f \in flags <=> Has(k, r, f)
      /\ "PEND" \in flags /\ ("PEND_TIME" \in flags => "PEND" \in flags)
  BY DEF Has
<1> HIDE DEF flags, w
<1>10. WaitsBecome(k, l, r, flags, w, k.sorted)
  BY <1>1, <1>2, <1>6, WaitsUpdated
<1> HIDE DEF l
<1>11. /\ l \in Kernel /\ l.wait = w /\ l.sorted = k.sorted
       /\ l.status = [k.status EXCEPT ![r] = flags]
       /\ l.status[r] = flags /\ \A u \in TCB \ {r} : l.status[u] = k.status[u]
       /\ l.ready = k.ready /\ l.bitmap = k.bitmap /\ l.priority = k.priority
       /\ l.free = k.free /\ l.recycle = k.recycle
       /\ l.run = k.run /\ l.lock = k.lock /\ l.halted = k.halted
  BY <1>1, <1>10 DEF WaitsBecome
<1>12. ListsOK(l)
  <2>1. TaskOK(l, r)
    <3>1. \A o \in WaitObj : In(r, l.wait[o]) <=> o = obj
      BY <1>5, <1>6, <1>7, <1>11
    <3>2. /\ ~Has(l, r, "READY") /\ Has(l, r, "PEND") /\ ~Has(l, r, "DELAY") /\ ~Has(l, r, "TIMEOUT")
          /\ Has(l, r, "RUNNING") <=> Has(k, r, "RUNNING")
      BY <1>1, <1>4, <1>9, <1>11 DEF Has
    <3>3. r = l.run /\ r = k.run
      BY <1>11
    <3>4. ~In(r, l.sorted)
      BY <1>1, <1>3, <1>11 DEF TaskOK
    <3> HIDE DEF r
    <3> QED BY <3>1, <3>2, <3>3, <3>4, <1>3 DEF TaskOK
  <2>2. \A u \in TCB \ {r} : /\ In(u, l.sorted) <=> In(u, k.sorted)
                             /\ \A o \in WaitObj : In(u, l.wait[o]) <=> In(u, k.wait[o])
    BY <1>6, <1>7, <1>11
  <2>3. Distinct(l.sorted) /\ \A o \in WaitObj : Distinct(l.wait[o])
    BY <1>1, <1>3, <1>6, <1>7, <1>11 DEF ListsOK
  <2> HIDE DEF r
  <2> QED BY <1>1, <1>11, <2>1, <2>2, <2>3, OneChanges
<1>13. KInv(l) /\ Keeps(k, l)
  <2>1. \A f \in {"READY", "UNUSED", "RUNNING"} : f \in flags <=> Has(k, r, f)
    BY <1>9
  <2> HIDE DEF r
  <2> QED BY <2>1, <1>1, <1>2, <1>4, <1>11, FlagChange
<1>14. Has(l, r, "PEND")
  BY <1>9, <1>11 DEF Has
<1> QED BY <1>4, <1>8, <1>11, <1>12, <1>13, <1>14 DEF w

\* The running task puts itself on the wait list of obj, in the kernel as it
\* is or after other priorities were given.
LEMMA WaitStep ==
  ASSUME TaskInv, WaitInv, Caller("task"), kern.lock = 0,
         NEW k, Repriced(kern, k), NEW obj \in WaitObj, NEW timed \in BOOLEAN,
         kern' = OsSchedTaskWait(k, obj, timed), pc' = [pc EXCEPT ![kern.run] = "block"],
         child' = child, pendSV' = pendSV, tick' = tick
  PROVE  /\ TaskInv' /\ WaitInv' /\ Preempts'
         /\ kern'.wait = [kern.wait EXCEPT ![obj] = Append(@, kern.run)]
         /\ kern'.priority = k.priority /\ kern'.run = kern.run
         /\ Has(kern', kern.run, "PEND") /\ ~Has(kern, kern.run, "PEND")
         /\ \A u \in TCB \ {kern.run} : kern'.status[u] = kern.status[u]
<1> DEFINE r == kern.run
           l == OsSchedTaskWait(k, obj, timed)
<1>1. /\ KInv(kern) /\ RunsOK(kern) /\ ListsOK(kern) /\ kern \in Kernel
      /\ r \in Task /\ r \in TCB /\ pc[r] = "run" /\ ~kern.halted
      /\ Able(kern) /\ ~Has(kern, r, "TIMEOUT") /\ pc \in [TCB -> PC]
      /\ Life(kern, pc, child) /\ child \in [Task -> Task \cup {NoTask}]
      /\ Inv(kern, pc, child)
  BY CallerFacts DEF TaskInv, Inv, KInv, WaitInv, Context
<1>2. /\ KInv(k) /\ Keeps(kern, k) /\ ListsOK(k) /\ k.wait = kern.wait /\ k.run = r
      /\ k.lock = kern.lock /\ k.recycle = kern.recycle /\ k.halted = kern.halted
      /\ \A u \in TCB : k.status[u] = kern.status[u]
  BY DEF Repriced, SameWaits, Keeps
<1>3. k.run \in Task /\ RunsOK(k) /\ Able(k) /\ ~Has(k, k.run, "TIMEOUT")
  BY <1>1, <1>2 DEF RunsOK, Able, Has
<1>4. /\ KInv(l) /\ Keeps(k, l) /\ ListsOK(l)
      /\ l.wait = [k.wait EXCEPT ![obj] = Append(@, k.run)]
      /\ l.priority = k.priority /\ l.halted = k.halted
      /\ Has(l, k.run, "PEND") /\ ~Has(k, k.run, "PEND")
      /\ \A u \in TCB \ {k.run} : l.status[u] = k.status[u]
  <2>1. KInv(k) /\ ListsOK(k)
    BY <1>2
  <2> QED BY ONLY <2>1, <1>3, obj \in WaitObj, timed \in BOOLEAN, WaitEffect
<1> HIDE DEF l, r
<1>5. /\ Keeps(kern, l) /\ l.wait = [kern.wait EXCEPT ![obj] = Append(@, r)]
      /\ l.run = r /\ l.lock = 0 /\ l.recycle = kern.recycle /\ ~l.halted
      /\ Has(l, r, "PEND") /\ ~Has(kern, r, "PEND")
      /\ \A u \in TCB \ {r} : l.status[u] = kern.status[u]
  BY <1>1, <1>2, <1>4, KeepsTransitive DEF Keeps, Has
<1>6. kern' = l /\ pc' = [pc EXCEPT ![r] = "block"]
  BY DEF l, r
<1>7. TaskInv'
  <2>1. Inv(l, pc, child)
    BY <1>1, <1>4, <1>5, KeepsFrame, FrameLife
  <2>2. "run" \in Placid /\ "block" \in Placid
    BY DEF Placid, PC
  <2>3. Inv(l, [pc EXCEPT ![r] = "block"], child)
    BY <1>1, <2>1, <2>2, PlaceLife
  <2> QED BY <1>6, <2>3 DEF TaskInv
<1>8. pc'[r] = "block" /\ \A u \in Task \ {r} : pc'[u] = pc[u]
  BY <1>1, <1>6, TCBs
<1>9. Places(l, pc', child)
  <2>1. ASSUME NEW u \in Task, pc'[u] = "enq" PROVE l.status[child[u]] = {"SUSPEND"}
    <3>1. pc[u] = "enq"
      BY <1>8, <2>1
    <3>2. child[u] \in TCB /\ kern.status[child[u]] = {"SUSPEND"}
      BY <1>1, <3>1, TCBs DEF Life, WaitInv, Places
    <3>3. child[u] # r
      BY <1>1, <3>2 DEF RunsOK, Has, r
    <3> QED BY <1>5, <3>2, <3>3
  <2>2. ASSUME NEW u \in Task, Has(l, u, "PEND") \/ Has(l, u, "TIMEOUT")
        PROVE  pc'[u] \in {"block", "wait"}
    BY <1>5, <1>8, <2>2, TCBs DEF WaitInv, Places, Has
  <2> QED BY <2>1, <2>2 DEF Places
<1>10. WaitInv' /\ Preempts'
  BY <1>1, <1>4, <1>5, <1>6, <1>8, <1>9, TCBs DEF WaitInv, Leaving, Preempts
<1> QED BY <1>4, <1>5, <1>6, <1>7, <1>10 DEF r

\* The task that waited runs again, looks at TIMEOUT and goes on.
LEMMA ReturnStep ==
  ASSUME TaskInv, WaitInv, kern.run \in Task, Running("wait"),
         kern' = ClearFlag(kern, kern.run, {"TIMEOUT"}), pc' = [pc EXCEPT ![kern.run] = "run"],
         child' = child, pendSV' = pendSV, tick' = tick
  PROVE  /\ TaskInv' /\ WaitInv' /\ (Preempts => Preempts')
         /\ kern'.wait = kern.wait /\ kern'.priority = kern.priority /\ kern'.run = kern.run
         /\ ~Has(kern, kern.run, "PEND")
         /\ kern'.status[kern.run] = kern.status[kern.run] \ {"TIMEOUT"}
         /\ \A u \in TCB \ {kern.run} : kern'.status[u] = kern.status[u]
<1> DEFINE r == kern.run
           l == ClearFlag(kern, r, {"TIMEOUT"})
           f == kern.status[r] \ {"TIMEOUT"}
<1>1. /\ KInv(kern) /\ RunsOK(kern) /\ ListsOK(kern) /\ kern \in Kernel
      /\ r \in Task /\ r \in TCB /\ pc[r] = "wait" /\ ~kern.halted /\ ~pendSV
      /\ pc \in [TCB -> PC]
      /\ Life(kern, pc, child) /\ child \in [Task -> Task \cup {NoTask}]
      /\ Inv(kern, pc, child)
  BY TCBs DEF TaskInv, Inv, KInv, WaitInv, Running
<1>2. Able(kern)
  BY <1>1 DEF WaitInv, Leaving
<1>3. ~Has(kern, r, "PEND") /\ ~Has(kern, r, "READY") /\ ~Has(kern, r, "UNUSED")
  BY <1>1, <1>2 DEF Able, Blocked, Has, RunsOK
<1>4. kern' = WithStatus(kern, r, f)
  BY DEF ClearFlag, WithStatus
<1>5. f \in SUBSET Flag /\ \A g \in Flag \ {"TIMEOUT"} : g \in f <=> Has(kern, r, g)
  BY <1>1, KernelFields DEF Has
<1>6. "TIMEOUT" \notin f /\ f \subseteq kern.status[r]
  OBVIOUS
<1>7. \A g \in {"READY", "UNUSED", "RUNNING"} : g \in f <=> Has(kern, r, g)
  BY DEF Has
<1> HIDE DEF f
<1>8. /\ kern' \in Kernel /\ kern'.status = [kern.status EXCEPT ![r] = f]
      /\ kern'.ready = kern.ready /\ kern'.bitmap = kern.bitmap /\ kern'.free = kern.free
      /\ SameWaits(kern, kern') /\ kern'.run = kern.run /\ kern'.lock = kern.lock
      /\ kern'.recycle = kern.recycle /\ kern'.priority = kern.priority /\ kern'.halted = kern.halted
      /\ kern'.status[r] = f /\ \A u \in TCB \ {r} : kern'.status[u] = kern.status[u]
  <2>1. FlagsBecome(kern, kern', r, f)
    BY <1>1, <1>4, <1>5, FlagsEffect
  <2>2. /\ kern'.status = [kern.status EXCEPT ![r] = f]
        /\ kern'.ready = kern.ready /\ kern'.bitmap = kern.bitmap /\ kern'.free = kern.free
    BY <1>1, <1>4, <1>5, StatusUpdated
  <2> QED BY <2>1, <2>2 DEF FlagsBecome
<1>9. ListsOK(kern')
  <2>1. TaskOK(kern, r)
    BY <1>1 DEF ListsOK
  <2>2. TaskOK(kern', r)
    <3>1. \A g \in Flag \ {"TIMEOUT"} : Has(kern', r, g) <=> Has(kern, r, g)
      BY <1>5, <1>8 DEF Has
    <3>2. /\ Has(kern', r, "RUNNING") <=> Has(kern, r, "RUNNING")
          /\ Has(kern', r, "PEND") <=> Has(kern, r, "PEND")
          /\ Has(kern', r, "PEND_TIME") <=> Has(kern, r, "PEND_TIME")
          /\ Has(kern', r, "DELAY") <=> Has(kern, r, "DELAY")
          /\ ~Has(kern', r, "READY")
      BY <3>1, <1>3 DEF Flag
    <3>3. kern'.sorted = kern.sorted /\ kern'.wait = kern.wait
      BY <1>8 DEF SameWaits
    <3> QED BY <3>2, <3>3, <2>1, <1>3, <1>8 DEF TaskOK
  <2> HIDE DEF r
  <2> QED BY <1>1, <1>8, <2>2, OneStatusChanges
<1>10. TaskInv'
  <2>1. KInv(kern') /\ Keeps(kern, kern')
    BY <1>1, <1>3, <1>5, <1>7, <1>8, FlagChange DEF SameWaits
  <2>2. Inv(kern', pc, child)
    BY <1>1, <2>1, KeepsFrame, FrameLife
  <2>3. "run" \in Placid /\ "wait" \in Placid
    BY DEF Placid, PC
  <2>4. Inv(kern', [pc EXCEPT ![r] = "run"], child)
    BY <1>1, <2>2, <2>3, PlaceLife
  <2> QED BY <2>4 DEF TaskInv
<1>11. pc'[r] = "run" /\ \A u \in Task \ {r} : pc'[u] = pc[u]
  BY <1>1, TCBs
<1>12. Places(kern', pc', child)
  <2>1. ASSUME NEW u \in Task, pc'[u] = "enq" PROVE kern'.status[child[u]] = {"SUSPEND"}
    <3>1. pc[u] = "enq"
      BY <1>11, <2>1
    <3>2. child[u] \in TCB /\ kern.status[child[u]] = {"SUSPEND"}
      BY <1>1, <3>1, TCBs DEF Life, WaitInv, Places
    <3>3. child[u] # r
      BY <1>1, <3>2 DEF RunsOK, Has
    <3> QED BY <1>8, <3>2, <3>3
  <2>2. ASSUME NEW u \in Task, Has(kern', u, "PEND") \/ Has(kern', u, "TIMEOUT")
        PROVE  pc'[u] \in {"block", "wait"}
    <3>1. CASE u = r
      BY <3>1, <2>2, <1>3, <1>6, <1>8 DEF Has
    <3>2. CASE u # r
      BY <3>2, <2>2, <1>8, <1>11, TCBs DEF WaitInv, Places, Has
    <3> QED BY <3>1, <3>2
  <2> QED BY <2>1, <2>2 DEF Places
<1>13. Able(kern')
  BY <1>2, <1>6, <1>8 DEF Able
<1>14. WaitInv'
  BY <1>1, <1>8, <1>9, <1>12, <1>13 DEF WaitInv, Leaving
<1>15. Preempts => Preempts'
  <2>1. \A u \in Task : Has(kern', u, "READY") => Has(kern, u, "READY")
    BY <1>6, <1>8, TCBs DEF Has
  <2>2. pc[kern.run] \notin {"sched", "block"}
    BY <1>1
  <2> QED BY <2>1, <2>2, <1>8 DEF Preempts, HighestReady
<1> QED BY <1>3, <1>8, <1>10, <1>14, <1>15 DEF SameWaits, f

\* A service gives other priorities and changes nothing else.
LEMMA RepriceStep ==
  ASSUME TaskInv, WaitInv, NEW ctx \in Context, Serves(ctx), NEW k, Repriced(kern, k),
         NEW resched \in BOOLEAN, Finish(ctx, k, resched), child' = child, tick' = tick
  PROVE  TaskInv' /\ WaitInv' /\ kern' = k
<1>1. /\ KInv(kern) /\ RunsOK(kern) /\ kern.run \in TCB /\ ~kern.halted
  BY ServesFacts DEF TaskInv, Inv
<1>2. /\ KInv(k) /\ Keeps(kern, k) /\ ListsOK(k) /\ k.run = kern.run /\ k.lock = kern.lock
      /\ k.recycle = kern.recycle /\ k.halted = kern.halted
      /\ \A u \in TCB : k.status[u] = kern.status[u]
  BY DEF Repriced, Keeps
<1>3. kern' = k
  BY <1>1, <1>2 DEF Finish, Committed
<1>4. TaskInv'
  <2>1. Frame(kern, k)
    BY <1>1, <1>2, KeepsFrame
  <2> QED BY <2>1, ServesFacts, FinishPreserves
<1>5. MovesOn(kern, k, pc, child)
  <2>1. ASSUME NEW u \in Task, pc[u] = "enq" PROVE k.status[child[u]] = {"SUSPEND"}
    <3>1. child[u] \in Task /\ kern.status[child[u]] = {"SUSPEND"}
      BY <2>1 DEF TaskInv, Inv, Life, WaitInv, Places
    <3> QED BY <3>1, <1>2, TCBs
  <2> QED BY <2>1, <1>2, TCBs DEF MovesOn, Has
<1>6. Yields(kern, k, resched)
  <2>1. CASE ~Able(kern)
    BY <2>1, <1>1, <1>2, NotAble DEF Yields
  <2>2. CASE Able(kern)
    BY <2>2, <1>1, <1>2 DEF Yields, Able
  <2> QED BY <2>1, <2>2
<1>7. WaitInv'
  BY <1>2, <1>5, <1>6, FinishKeeps
<1> QED BY <1>3, <1>4, <1>7

\* A service that changes nothing of the kernel and wakes nobody.
LEMMA QuietFinish ==
  ASSUME TaskInv, WaitInv, NEW ctx \in Context, Serves(ctx), Finish(ctx, kern, FALSE),
         child' = child, tick' = tick
  PROVE  /\ TaskInv' /\ WaitInv' /\ (Preempts => Preempts') /\ kern' = kern
         /\ \A u \in Task : pc'[u] = "none" <=> pc[u] = "none"
         /\ \A u \in Task : Caller(ctx) \/ u # kern.run =>
              (pc'[u] \in {"block", "wait"} <=> pc[u] \in {"block", "wait"})
<1>1. PICK k : k = kern
  OBVIOUS
<1>2. Repriced(kern, k)
  BY <1>1, RepricedBy DEF TaskInv, Inv, WaitInv
<1>3. Finish(ctx, k, FALSE)
  BY <1>1
<1>4. TaskInv' /\ WaitInv' /\ kern' = kern
  BY <1>1, <1>2, <1>3, RepriceStep
<1>5. /\ kern.run \in TCB /\ pc \in [TCB -> PC] /\ pendSV \in BOOLEAN
      /\ ctx = "task" => kern.run \in Task /\ pc[kern.run] \in {"run", "wait"}
      /\ ctx = "task" /\ Caller(ctx) => pc[kern.run] = "run"
  BY ServesFacts, CallerFacts DEF TaskInv, Inv
<1>6. /\ ctx = "task" => pc' = [pc EXCEPT ![kern.run] = "run"]
      /\ ctx # "task" => pc' = pc
      /\ pendSV' = pendSV
  BY <1>5 DEF Finish
<1>7. Preempts => Preempts'
  BY <1>4, <1>5, <1>6 DEF Preempts
<1>8. /\ \A u \in Task : pc'[u] = "none" <=> pc[u] = "none"
      /\ \A u \in Task : Caller(ctx) \/ u # kern.run =>
           (pc'[u] \in {"block", "wait"} <=> pc[u] \in {"block", "wait"})
  BY <1>5, <1>6, TCBs
<1> QED BY <1>4, <1>7, <1>8

\* A post wakes a task that waits, in the kernel as it is or after other
\* priorities were given.
LEMMA WakeStep ==
  ASSUME TaskInv, WaitInv, NEW ctx \in Context, Serves(ctx),
         NEW k, Repriced(kern, k), NEW t \in Task, Has(kern, t, "PEND"),
         Finish(ctx, OsSchedTaskWake(k, t), TRUE), child' = child, tick' = tick
  PROVE  /\ TaskInv' /\ WaitInv' /\ Preempts'
         /\ kern'.wait = Unlink(kern.wait, t) /\ kern'.priority = k.priority /\ kern'.run = kern.run
         /\ ~Has(kern', t, "PEND") /\ (Has(kern', t, "TIMEOUT") <=> Has(kern, t, "TIMEOUT"))
         /\ \A u \in TCB \ {t} : kern'.status[u] = kern.status[u]
         /\ \A u \in Task : pc'[u] = "none" <=> pc[u] = "none"
         /\ \A u \in Task : Caller(ctx) \/ u # kern.run =>
              (pc'[u] \in {"block", "wait"} <=> pc[u] \in {"block", "wait"})
<1> DEFINE l == OsSchedTaskWake(k, t)
           w == Unlink(kern.wait, t)
<1>1. /\ KInv(kern) /\ RunsOK(kern) /\ ListsOK(kern) /\ kern \in Kernel /\ kern.run \in TCB
      /\ ~kern.halted /\ tick = "out" /\ pc \in [TCB -> PC]
      /\ Life(kern, pc, child) /\ child \in [Task -> Task \cup {NoTask}]
      /\ ctx = "task" => kern.run \in Task /\ pc[kern.run] \in {"run", "wait"}
      /\ ctx = "task" /\ Caller(ctx) => pc[kern.run] = "run"
  BY ServesFacts, CallerFacts DEF TaskInv, Inv, KInv, WaitInv
<1>2. Released(k, l, t, w, FALSE)
  <2>1. KInv(k) /\ ListsOK(k) /\ k.wait = kern.wait /\ Has(k, t, "PEND")
    BY TCBs DEF Repriced, SameWaits, Has
  <2> QED BY <2>1, WakeEffect
<1>3. kern' = Committed(kern, l) /\ Finish(ctx, l, TRUE)
  BY DEF Finish
<1> HIDE DEF l, w
<1>4. /\ ListsOK(l) /\ l.halted = kern.halted /\ KInv(l) /\ Keeps(kern, l)
      /\ l.run = kern.run /\ l.lock = kern.lock /\ l.recycle = kern.recycle
      /\ l.wait = w /\ l.priority = k.priority
      /\ \A u \in TCB \ {t} : l.status[u] = kern.status[u]
      /\ ~Has(l, t, "PEND") /\ (Has(l, t, "TIMEOUT") <=> Has(kern, t, "TIMEOUT"))
  <2>1. /\ Keeps(kern, k) /\ k.halted = kern.halted /\ k.recycle = kern.recycle
        /\ \A u \in TCB : k.status[u] = kern.status[u]
    BY DEF Repriced
  <2>2. Keeps(kern, l)
    BY <2>1, <1>2, KeepsTransitive DEF Released
  <2> QED BY <2>1, <2>2, <1>2, TCBs DEF Released, Keeps, Has
<1>5. kern' = l
  BY <1>1, <1>3, <1>4 DEF Committed
<1>6. TaskInv'
  <2>1. Frame(kern, l)
    BY <1>1, <1>4, KeepsFrame
  <2> QED BY <1>3, <2>1, ServesFacts, FinishPreserves
<1>7. MovesOn(kern, l, pc, child)
  <2>1. ASSUME NEW u \in Task, pc[u] = "enq" PROVE l.status[child[u]] = {"SUSPEND"}
    <3>1. child[u] \in Task /\ kern.status[child[u]] = {"SUSPEND"}
      BY <1>1, <2>1 DEF Life, WaitInv, Places
    <3>2. child[u] # t
      BY <3>1 DEF Has
    <3> QED BY <1>4, <3>1, <3>2, TCBs
  <2>2. \A u \in Task : Has(l, u, "PEND") \/ Has(l, u, "TIMEOUT")
                          => Has(kern, u, "PEND") \/ Has(kern, u, "TIMEOUT")
    BY <1>4, TCBs DEF Has
  <2> QED BY <1>4, <2>1, <2>2 DEF MovesOn
<1>8. Yields(kern, l, TRUE)
  <2>1. CASE ~Able(kern)
    BY <2>1, <1>1, <1>4, NotAble DEF Yields
  <2>2. CASE Able(kern)
    <3>1. t # kern.run
      BY <2>2 DEF Able, Has, Blocked
    <3>2. Able(l)
      BY <2>2, <3>1, <1>1, <1>4 DEF Able
    <3> QED BY <3>2 DEF Yields
  <2> QED BY <2>1, <2>2
<1>9. WaitInv'
  BY <1>3, <1>4, <1>7, <1>8, FinishKeeps
<1>10. /\ ctx = "task" => pc' = [pc EXCEPT ![kern.run] = "sched"]
       /\ ctx # "task" => pc' = pc /\ pendSV' = (pendSV \/ l.lock = 0)
  BY <1>3 DEF Finish
<1>11. Preempts'
  <2>1. CASE ctx = "task"
    <3>1. pc'[l.run] = "sched"
      BY <2>1, <1>1, <1>4, <1>10
    <3> QED BY <3>1, <1>5 DEF Preempts
  <2>2. CASE ctx # "task"
    BY <2>2, <1>5, <1>10 DEF Preempts
  <2> QED BY <2>1, <2>2
<1>12. /\ \A u \in Task : pc'[u] = "none" <=> pc[u] = "none"
       /\ \A u \in Task : Caller(ctx) \/ u # kern.run =>
            (pc'[u] \in {"block", "wait"} <=> pc[u] \in {"block", "wait"})
  BY <1>1, <1>10, TCBs
<1> QED BY <1>4, <1>5, <1>6, <1>9, <1>11, <1>12 DEF w

\* A service wakes the first waiter of a list.
LEMMA FirstWakes ==
  ASSUME TaskInv, WaitInv, NEW ctx \in Context, Serves(ctx),
         NEW obj \in WaitObj, kern.wait[obj] # <<>>,
         Finish(ctx, OsSchedTaskWake(kern, Head(kern.wait[obj])), TRUE),
         child' = child, tick' = tick
  PROVE  LET t == Head(kern.wait[obj]) IN
         /\ TaskInv' /\ WaitInv' /\ (Preempts => Preempts')
         /\ t \in Task /\ In(t, kern.wait[obj]) /\ Has(kern, t, "PEND") /\ ~Has(kern, t, "TIMEOUT")
         /\ kern'.status[t] \cap {"PEND", "TIMEOUT"} = {}
         /\ \A o \in WaitObj : In(t, kern.wait[o]) => o = obj
         /\ kern'.wait[obj] = Tail(kern.wait[obj])
         /\ \A o \in WaitObj \ {obj} : kern'.wait[o] = kern.wait[o]
         /\ \A u \in Task : \A o \in WaitObj : In(u, kern'.wait[o]) => In(u, kern.wait[o]) /\ u # t
         /\ \A u \in Task \ {t} : kern'.status[u] = kern.status[u]
         /\ \A u \in Task : Caller(ctx) \/ u # kern.run =>
              (pc'[u] \in {"block", "wait"} <=> pc[u] \in {"block", "wait"})
<1>1. /\ kern.wait \in [WaitObj -> Seq(Task)] /\ ListsOK(kern)
      /\ Distinct(kern.wait[obj]) /\ kern.wait[obj] # <<>>
  BY KernelFields DEF TaskInv, Inv, KInv, WaitInv, ListsOK
<1>2. PICK t \in Task : t = Head(kern.wait[obj])
  BY <1>1, TailProperties
<1>3. /\ In(t, kern.wait[obj]) /\ Has(kern, t, "PEND") /\ ~Has(kern, t, "TIMEOUT")
      /\ \A o \in WaitObj : In(t, kern.wait[o]) => o = obj
  <2>1. In(t, kern.wait[obj])
    BY <1>1, <1>2, TailProperties
  <2>2. TaskOK(kern, t)
    BY <1>1, TCBs DEF ListsOK
  <2> QED BY <2>1, <2>2 DEF TaskOK
<1>4. /\ TaskInv' /\ WaitInv' /\ Preempts'
      /\ kern'.wait = Unlink(kern.wait, t)
      /\ ~Has(kern', t, "PEND") /\ ~Has(kern', t, "TIMEOUT")
      /\ \A u \in TCB \ {t} : kern'.status[u] = kern.status[u]
      /\ \A u \in Task : Caller(ctx) \/ u # kern.run =>
           (pc'[u] \in {"block", "wait"} <=> pc[u] \in {"block", "wait"})
  <2>1. PICK k : k = kern
    OBVIOUS
  <2>2. Repriced(kern, k)
    BY <2>1, RepricedBy DEF TaskInv, Inv, WaitInv
  <2>3. Finish(ctx, OsSchedTaskWake(k, t), TRUE)
    BY <1>2, <2>1
  <2> QED BY <2>2, <2>3, <1>3, WakeStep
<1>5. \A u \in Task \ {t} : kern'.status[u] = kern.status[u]
  BY <1>4, TCBs
<1>6. /\ kern'.wait[obj] = Tail(kern.wait[obj])
      /\ \A o \in WaitObj \ {obj} : kern'.wait[o] = kern.wait[o]
      /\ \A u \in Task : \A o \in WaitObj : In(u, kern'.wait[o]) => In(u, kern.wait[o]) /\ u # t
  <2>1. \A o \in WaitObj : kern'.wait[o] = Without(kern.wait[o], t)
    BY <1>1, <1>4 DEF Unlink
  <2>2. kern'.wait[obj] = Tail(kern.wait[obj])
    BY <2>1, <1>1, <1>2, WithoutHead
  <2>3. \A o \in WaitObj \ {obj} : kern'.wait[o] = kern.wait[o]
    BY <2>1, <1>3, WithoutAbsent
  <2>4. \A u : In(u, Tail(kern.wait[obj])) => In(u, kern.wait[obj]) /\ u # t
    BY <1>1, <1>2, TailProperties
  <2> QED BY <2>2, <2>3, <2>4, <1>3
<1>7. kern'.status[t] \cap {"PEND", "TIMEOUT"} = {}
  BY <1>4 DEF Has
<1> QED BY <1>2, <1>3, <1>4, <1>5, <1>6, <1>7

\* A service lets the calling task wait.
LEMMA CallerWaits ==
  ASSUME TaskInv, WaitInv, Caller("task"), kern.lock = 0,
         NEW obj \in WaitObj, NEW timed \in BOOLEAN,
         kern' = OsSchedTaskWait(kern, obj, timed), pc' = [pc EXCEPT ![kern.run] = "block"],
         child' = child, pendSV' = pendSV, tick' = tick
  PROVE  /\ TaskInv' /\ WaitInv' /\ Preempts'
         /\ kern.run \in Task /\ pc[kern.run] = "run" /\ pc'[kern.run] = "block"
         /\ Has(kern', kern.run, "PEND")
         /\ kern'.wait[obj] = Append(kern.wait[obj], kern.run)
         /\ \A o \in WaitObj \ {obj} : kern'.wait[o] = kern.wait[o]
         /\ \A o \in WaitObj : ~In(kern.run, kern.wait[o])
         /\ \A u \in Task : \A o \in WaitObj : In(u, kern'.wait[o]) =>
              In(u, kern.wait[o]) \/ (u = kern.run /\ o = obj)
         /\ \A u \in Task \ {kern.run} : kern'.status[u] = kern.status[u] /\ pc'[u] = pc[u]
<1>1. /\ TaskInv' /\ WaitInv' /\ Preempts'
      /\ kern'.wait = [kern.wait EXCEPT ![obj] = Append(@, kern.run)]
      /\ Has(kern', kern.run, "PEND") /\ ~Has(kern, kern.run, "PEND")
      /\ \A u \in TCB \ {kern.run} : kern'.status[u] = kern.status[u]
  <2>1. PICK k : k = kern
    OBVIOUS
  <2>2. Repriced(kern, k)
    BY <2>1, RepricedBy DEF TaskInv, Inv, WaitInv
  <2>3. kern' = OsSchedTaskWait(k, obj, timed)
    BY <2>1
  <2>4. /\ Caller("task") /\ kern.lock = 0 /\ pc' = [pc EXCEPT ![kern.run] = "block"]
        /\ child' = child /\ pendSV' = pendSV /\ tick' = tick
    OBVIOUS
  <2> QED BY <2>2, <2>3, <2>4, WaitStep, SMTT(30)
<1>2. PICK r \in Task : r = kern.run
  BY CallerFacts DEF Context
<1>3. /\ pc \in [TCB -> PC] /\ pc[r] = "run" /\ r \in TCB
      /\ kern.wait \in [WaitObj -> Seq(Task)] /\ ListsOK(kern)
  BY <1>2, TCBs, KernelFields DEF TaskInv, Inv, KInv, WaitInv, Caller, Running
<1>4. \A o \in WaitObj : ~In(r, kern.wait[o])
  BY <1>1, <1>2, <1>3 DEF ListsOK, TaskOK
<1>5. /\ kern'.wait[obj] = Append(kern.wait[obj], r)
      /\ \A o \in WaitObj \ {obj} : kern'.wait[o] = kern.wait[o]
      /\ \A u : In(u, kern'.wait[obj]) <=> In(u, kern.wait[obj]) \/ u = r
  <2> DEFINE q == kern.wait[obj]
  <2>1. q \in Seq(Task) /\ kern'.wait[obj] = Append(q, r)
    BY <1>1, <1>2, <1>3
  <2>2. \A o \in WaitObj \ {obj} : kern'.wait[o] = kern.wait[o]
    BY <1>1, <1>3
  <2> HIDE DEF q
  <2>3. \A u : In(u, Append(q, r)) <=> In(u, q) \/ u = r
    <3>1. q \in Seq(Task) /\ r \in Task
      BY <2>1
    <3> QED BY ONLY <3>1, EndsProperties
  <2> QED BY <2>1, <2>2, <2>3 DEF q
<1>6. \A u \in Task \ {r} : kern'.status[u] = kern.status[u] /\ pc'[u] = pc[u]
  BY <1>1, <1>2, <1>3, TCBs
<1>7. pc'[r] = "block"
  BY <1>2, <1>3
<1> QED BY <1>1, <1>2, <1>3, <1>4, <1>5, <1>6, <1>7

\* The end of a wait whose time was over.
LEMMA TimedOutReturns ==
  ASSUME TaskInv, WaitInv, kern.run \in Task, Running("wait"), Has(kern, kern.run, "TIMEOUT"),
         Finish("task", ClearFlag(kern, kern.run, {"TIMEOUT"}), FALSE), child' = child, tick' = tick
  PROVE  /\ TaskInv' /\ WaitInv' /\ (Preempts => Preempts')
         /\ kern'.wait = kern.wait /\ pc'[kern.run] = "run"
         /\ \A o \in WaitObj : ~In(kern.run, kern.wait[o])
         /\ \A u \in Task \ {kern.run} : kern'.status[u] = kern.status[u] /\ pc'[u] = pc[u]
<1>1. /\ kern' = Committed(kern, ClearFlag(kern, kern.run, {"TIMEOUT"}))
      /\ pc' = [pc EXCEPT ![kern.run] = "run"] /\ pendSV' = pendSV
  BY DEF Finish
<1>2. kern' = ClearFlag(kern, kern.run, {"TIMEOUT"})
  <2>1. kern \in Kernel /\ ~kern.halted
    BY DEF TaskInv, Inv, KInv, Running
  <2>2. ClearFlag(kern, kern.run, {"TIMEOUT"}).halted = kern.halted
    BY <2>1 DEF ClearFlag, Kernel
  <2> QED BY <1>1, <2>1, <2>2 DEF Committed
<1>3. /\ TaskInv' /\ WaitInv' /\ (Preempts => Preempts')
      /\ kern'.wait = kern.wait /\ ~Has(kern, kern.run, "PEND")
      /\ \A u \in TCB \ {kern.run} : kern'.status[u] = kern.status[u]
  BY <1>1, <1>2, ReturnStep
<1>4. PICK r \in Task : r = kern.run
  OBVIOUS
<1>5. pc \in [TCB -> PC] /\ r \in TCB /\ ListsOK(kern)
  BY TCBs DEF TaskInv, Inv, WaitInv
<1>6. \A o \in WaitObj : ~In(r, kern.wait[o])
  BY <1>3, <1>4, <1>5 DEF ListsOK, TaskOK
<1>7. \A u \in Task \ {r} : kern'.status[u] = kern.status[u] /\ pc'[u] = pc[u]
  BY <1>1, <1>3, <1>4, <1>5, TCBs
<1> QED BY <1>1, <1>3, <1>4, <1>5, <1>6, <1>7
=============================================================================
