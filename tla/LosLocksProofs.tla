--------------------------- MODULE LosLocksProofs ---------------------------
(***************************************************************************)
(* Theorems about LosSem and LosMux, for any number of tasks, priorities,  *)
(* semaphores and mutexes: the wait lists and the TIMEOUT flags agree with *)
(* the calls under way, the unused lists hold what is not in use, every    *)
(* semaphore implements the module Semaphore and every mutex the module    *)
(* Mutex, and the priority lent to the owner of a mutex is kept and taken  *)
(* back.                                                                   *)
(*                                                                         *)
(* What task management does to the waiters comes from LosWaitProofs       *)
(* (Waits): in every one of its steps one task at most stops waiting,      *)
(* because its time is over or because it is deleted.                      *)
(***************************************************************************)
EXTENDS LosSem, LosMux, LosWaitProofs

(***************************************************************************)
(* SEMAPHORES                                                              *)
(***************************************************************************)

\* The types, which semaphores are in use, how many units they have, and which
\* tasks are in which LOS_SemPend.
SemInv ==
  /\ semUsed \in [Sem -> BOOLEAN] /\ semCount \in [Sem -> Nat] /\ maxSemCount \in [Sem -> Nat]
  /\ unusedSem \in Seq(Sem) /\ semPended \in [Task -> Sem \cup {NoSem}]
  /\ Distinct(unusedSem)
  /\ \A s \in Sem :
       /\ In(s, unusedSem) <=> ~semUsed[s]
       /\ ~semUsed[s] => kern.wait[s] = <<>>
       /\ semUsed[s] => maxSemCount[s] \in MaxCount /\ semCount[s] <= maxSemCount[s]
       /\ semUsed[s] /\ semCount[s] > 0 => kern.wait[s] = <<>>
  /\ \A t \in Task :
       /\ \A o \in WaitObj : In(t, kern.wait[o]) => o \in Sem /\ semPended[t] = o
       /\ semPended[t] # NoSem => pc[t] \in {"block", "wait"}

SemsImplemented == \A s \in Sem : UNCHANGED AbstractSem(s)!vars \/ AbstractSem(s)!Next

\* What every step keeps and does.
SemStepOK ==
  TaskInv' /\ WaitInv' /\ SemInv' /\ (Preempts => Preempts') /\ SemsImplemented

-----------------------------------------------------------------------------
(* The steps of the abstract semaphore.                                    *)

\* Semaphore s itself stays as it is.
SameSem(s) ==
  semUsed'[s] = semUsed[s] /\ semCount'[s] = semCount[s] /\ maxSemCount'[s] = maxSemCount[s]

\* A step that stutters for s.
LEMMA SemNothingHappens ==
  ASSUME NEW s \in Sem, SameSem(s), kern'.wait[s] = kern.wait[s], SemServed(s)' = SemServed(s)
  PROVE  UNCHANGED AbstractSem(s)!vars
BY DEF SameSem, AbstractSem!vars

\* A task that was handed a unit returns, or is deleted.
LEMMA WaiterReturns ==
  ASSUME NEW s \in Sem, SameSem(s), kern'.wait[s] = kern.wait[s],
         NEW p \in Task, p \in SemServed(s), SemServed(s)' = SemServed(s) \ {p}
  PROVE  AbstractSem(s)!Next
<1>1. AbstractSem(s)!Return(p)
  BY DEF SameSem, AbstractSem!Return
<1> QED BY <1>1 DEF AbstractSem!Next

\* A waiter times out or is deleted.
LEMMA SemWaiterLeaves ==
  ASSUME NEW s \in Sem, SameSem(s), NEW p \in Task, In(p, kern.wait[s]),
         kern'.wait[s] = Without(kern.wait[s], p), SemServed(s)' = SemServed(s)
  PROVE  AbstractSem(s)!Next
<1> DEFINE i == CHOOSE j \in DOMAIN kern.wait[s] : kern.wait[s][j] = p
<1>1. i \in DOMAIN kern.wait[s] /\ kern.wait[s][i] = p
  BY DEF In
<1>2. kern'.wait[s] = RemoveAt(kern.wait[s], i)
  BY DEF Without
<1> HIDE DEF i
<1>3. AbstractSem(s)!Leave(p)
  BY <1>1, <1>2 DEF SameSem, AbstractSem!Leave, RemoveAt, AbstractSem!WithoutAt
<1> QED BY <1>3 DEF AbstractSem!Next

\* A task comes to wait.
LEMMA SemWaiterCame ==
  ASSUME NEW s \in Sem, SameSem(s), semUsed[s], maxSemCount[s] # 0, semCount[s] = 0,
         NEW p \in Task, ~In(p, kern.wait[s]), p \notin SemServed(s),
         kern'.wait[s] = Append(kern.wait[s], p), SemServed(s)' = SemServed(s)
  PROVE  AbstractSem(s)!Next
<1>1. AbstractSem(s)!Wait(p)
  BY DEF SameSem, In, AbstractSem!Wait, AbstractSem!Elements
<1> QED BY <1>1 DEF AbstractSem!Next

\* A post with a waiter.
LEMMA UnitHandedOver ==
  ASSUME NEW s \in Sem, SameSem(s), semUsed[s], maxSemCount[s] # 0, kern.wait[s] # <<>>,
         kern'.wait[s] = Tail(kern.wait[s]),
         SemServed(s)' = SemServed(s) \cup {Head(kern.wait[s])}
  PROVE  AbstractSem(s)!Next
<1>1. AbstractSem(s)!Post
  BY DEF SameSem, AbstractSem!Post
<1> QED BY <1>1 DEF AbstractSem!Next

\* A post without.
LEMMA UnitCounted ==
  ASSUME NEW s \in Sem, semUsed[s], semUsed'[s], maxSemCount'[s] = maxSemCount[s],
         maxSemCount[s] # 0, semCount[s] < maxSemCount[s], semCount'[s] = semCount[s] + 1,
         kern.wait[s] = <<>>, kern'.wait[s] = <<>>, SemServed(s)' = SemServed(s)
  PROVE  AbstractSem(s)!Next
<1>1. AbstractSem(s)!Post
  BY DEF AbstractSem!Post
<1> QED BY <1>1 DEF AbstractSem!Next

\* A unit is taken.
LEMMA UnitTaken ==
  ASSUME NEW s \in Sem, semUsed[s], semUsed'[s], maxSemCount'[s] = maxSemCount[s],
         semCount[s] > 0, semCount'[s] = semCount[s] - 1,
         kern'.wait[s] = kern.wait[s], SemServed(s)' = SemServed(s)
  PROVE  AbstractSem(s)!Next
<1>1. AbstractSem(s)!Take
  BY DEF AbstractSem!Take
<1> QED BY <1>1 DEF AbstractSem!Next

\* The semaphore is created ...
LEMMA SemCreated ==
  ASSUME NEW s \in Sem, ~semUsed[s], semUsed'[s], maxSemCount'[s] \in MaxCount,
         semCount'[s] \in 0..maxSemCount'[s],
         kern'.wait[s] = kern.wait[s], SemServed(s)' = SemServed(s)
  PROVE  AbstractSem(s)!Next
<1>1. AbstractSem(s)!Create
  BY DEF AbstractSem!Create
<1> QED BY <1>1 DEF AbstractSem!Next

\* ... and deleted.
LEMMA SemDeleted ==
  ASSUME NEW s \in Sem, semUsed[s], ~semUsed'[s], maxSemCount[s] # 0, kern.wait[s] = <<>>,
         kern'.wait[s] = <<>>, SemServed(s)' = SemServed(s)
  PROVE  AbstractSem(s)!Next
<1>1. AbstractSem(s)!Delete
  BY DEF AbstractSem!Delete
<1> QED BY <1>1 DEF AbstractSem!Next

-----------------------------------------------------------------------------
(* The initial states and the steps of task management.                    *)

\* At first every semaphore is deleted and in the pool.
LEMMA SemInitInv ==
  ASSUME TaskInit, SemInit
  PROVE  SemInv /\ \A s \in Sem : AbstractSem(s)!Init
<1>1. \A o \in WaitObj : kern.wait[o] = <<>>
  BY DEF TaskInit
<1>2. /\ semUsed = [s \in Sem |-> FALSE] /\ semCount = [s \in Sem |-> 0]
      /\ maxSemCount = [s \in Sem |-> 0] /\ semPended = [t \in Task |-> NoSem]
      /\ unusedSem \in [1..Cardinality(Sem) -> Sem] /\ Distinct(unusedSem)
  BY DEF SemInit
<1>3. unusedSem \in Seq(Sem) /\ \A s \in Sem : In(s, unusedSem)
  BY <1>2, SemAssumption, PoolIsFull
<1>4. \A t : ~In(t, <<>>)
  BY DEF In
<1>5. SemInv
  BY <1>1, <1>2, <1>3, <1>4, SemAssumption DEF SemInv
<1>6. ASSUME NEW s \in Sem PROVE AbstractSem(s)!Init
  <2>1. kern.wait[s] = <<>> /\ ~semUsed[s]
    BY <1>1, <1>2, SemAssumption
  <2>2. SemServed(s) = {}
    BY <1>2, NoSemAssumption DEF SemServed
  <2> QED BY <2>1, <2>2 DEF AbstractSem!Init
<1> QED BY <1>5, <1>6

\* A task leaves the waiters of s or the tasks s has served; nobody comes.
LEMMA SemTaskStepIsAbstract ==
  ASSUME TaskInv, WaitInv, WaitInv', SemInv, NEW s \in Sem, SameSem(s),
         Waits(kern, pc, kern', pc'),
         semPended' = [t \in Task |-> IF pc'[t] = "none" THEN NoSem ELSE semPended[t]]
  PROVE  AbstractSem(s)!Next \/ UNCHANGED AbstractSem(s)!vars
<1>1. PICK t \in Task \cup {NoTask} :
        /\ \A u \in Task \ {t} : /\ Has(kern', u, "PEND") <=> Has(kern, u, "PEND")
                                 /\ Has(kern', u, "TIMEOUT") <=> Has(kern, u, "TIMEOUT")
                                 /\ pc'[u] = "none" => pc[u] = "none"
        /\ t = NoTask => kern'.wait = kern.wait
        /\ t # NoTask => /\ kern'.wait = Unlink(kern.wait, t) /\ ~Has(kern', t, "PEND")
                         /\ pc'[t] = "none" \/ (Has(kern, t, "PEND") /\ Has(kern', t, "TIMEOUT"))
  BY DEF Waits
<1>2. s \in WaitObj /\ kern.wait \in [WaitObj -> Seq(Task)] /\ ListsOK(kern)
  BY SemAssumption, KernelFields DEF TaskInv, Inv, KInv, WaitInv
<1>3. \A u \in Task \ {t} : semPended'[u] = semPended[u]
  BY <1>1 DEF SemInv
<1>4. \A u \in Task \ {t} : u \in SemServed(s)' <=> u \in SemServed(s)
  BY <1>1, <1>3 DEF SemServed, Has
<1>5. CASE t = NoTask
  <2>1. SemServed(s)' = SemServed(s)
    BY <1>4, <1>5 DEF SemServed, Task, NoTask
  <2> QED BY <1>1, <1>5, <2>1, SemNothingHappens
<1>6. CASE t # NoTask
  <2>1. t \in Task /\ kern'.wait[s] = Without(kern.wait[s], t) /\ TaskOK(kern, t)
    BY <1>1, <1>2, <1>6, TCBs DEF Unlink, ListsOK
  <2>2. t \notin SemServed(s)'
    BY <1>1, <1>6, <2>1, NoSemAssumption DEF SemServed, Has
  <2>3. SemServed(s)' = SemServed(s) \ {t}
    BY <1>4, <2>2 DEF SemServed
  <2>4. CASE In(t, kern.wait[s])
    <3>1. t \notin SemServed(s)
      BY <1>2, <2>1, <2>4 DEF TaskOK, SemServed, Has
    <3>2. SemServed(s)' = SemServed(s)
      BY <2>3, <3>1
    <3> QED BY <2>1, <2>4, <3>2, SemWaiterLeaves
  <2>5. CASE ~In(t, kern.wait[s])
    <3>1. kern'.wait[s] = kern.wait[s]
      BY <2>1, <2>5, WithoutAbsent
    <3>2. CASE t \in SemServed(s)
      BY <2>1, <2>3, <3>1, <3>2, WaiterReturns
    <3>3. CASE t \notin SemServed(s)
      <4>1. SemServed(s)' = SemServed(s)
        BY <2>3, <3>3
      <4> QED BY <3>1, <4>1, SemNothingHappens
    <3> QED BY <3>2, <3>3
  <2> QED BY <2>4, <2>5
<1> QED BY <1>5, <1>6

\* Task management keeps the invariant of the semaphores.
LEMMA TaskStepKeepsSemInv ==
  ASSUME TaskInv, WaitInv, WaitInv', SemInv, Waits(kern, pc, kern', pc'),
         semPended' = [t \in Task |-> IF pc'[t] = "none" THEN NoSem ELSE semPended[t]],
         UNCHANGED <<semUsed, semCount, maxSemCount, unusedSem>>
  PROVE  SemInv'
<1>1. kern.wait \in [WaitObj -> Seq(Task)]
  BY KernelFields DEF TaskInv, Inv, KInv
<1>2. PICK t \in Task \cup {NoTask} :
        kern'.wait = IF t = NoTask THEN kern.wait ELSE Unlink(kern.wait, t)
  BY DEF Waits
<1>3. /\ \A o \in WaitObj : kern.wait[o] = <<>> => kern'.wait[o] = <<>>
      /\ \A o \in WaitObj : \A u \in Task : In(u, kern'.wait[o]) => In(u, kern.wait[o])
  <2>1. CASE t = NoTask
    BY <1>2, <2>1
  <2>2. CASE t # NoTask
    <3>1. \A o \in WaitObj : kern'.wait[o] = Without(kern.wait[o], t)
      BY <1>1, <1>2, <2>2 DEF Unlink
    <3>2. \A o \in WaitObj : kern.wait[o] = <<>> => ~In(t, kern.wait[o])
      BY DEF In
    <3>3. \A o \in WaitObj : \A u : In(u, kern'.wait[o]) => In(u, kern.wait[o])
      <4>1. SUFFICES ASSUME NEW o \in WaitObj PROVE \A u : In(u, kern'.wait[o]) => In(u, kern.wait[o])
        OBVIOUS
      <4>2. CASE In(t, kern.wait[o])
        <5>1. Distinct(kern.wait[o])
          BY DEF WaitInv, ListsOK
        <5> QED BY <1>1, <3>1, <5>1, WithoutProperties
      <4>3. CASE ~In(t, kern.wait[o])
        BY <3>1, <4>3, WithoutAbsent
      <4> QED BY <4>2, <4>3
    <3> QED BY <3>1, <3>2, <3>3, WithoutAbsent
  <2> QED BY <2>1, <2>2
<1>4. ASSUME NEW u \in Task, NEW o \in WaitObj, In(u, kern'.wait[o])
      PROVE  o \in Sem /\ semPended'[u] = o
  <2>1. o \in Sem /\ semPended[u] = o
    BY <1>3, <1>4 DEF SemInv
  <2>2. Has(kern', u, "PEND")
    BY <1>4, TCBs DEF WaitInv, ListsOK, TaskOK
  <2>3. pc'[u] # "none"
    BY <2>2 DEF WaitInv, Places
  <2> QED BY <2>1, <2>3
<1>5. ASSUME NEW u \in Task, semPended'[u] # NoSem PROVE pc'[u] \in {"block", "wait"}
  <2>1. pc'[u] # "none" /\ semPended[u] # NoSem
    BY <1>5
  <2> QED BY <2>1 DEF SemInv, Waits
<1>6. semPended' \in [Task -> Sem \cup {NoSem}]
  BY DEF SemInv
<1> QED BY <1>3, <1>4, <1>5, <1>6, SemAssumption DEF SemInv

\* A step of task management.
LEMMA SemTaskStepOK ==
  ASSUME TaskInv, WaitInv, SemInv, SemTaskStep
  PROVE  SemStepOK
<1>1. TaskNext /\ [TaskNext]_taskVars /\ UNCHANGED <<semUsed, semCount, maxSemCount, unusedSem>>
      /\ semPended' = [t \in Task |-> IF pc'[t] = "none" THEN NoSem ELSE semPended[t]]
  BY DEF SemTaskStep
<1>2. TaskInv' /\ WaitInv' /\ (Preempts => Preempts') /\ Waits(kern, pc, kern', pc')
  BY <1>1, NextInv, NextStep DEF TaskStepOK
<1>3. SemInv'
  BY <1>1, <1>2, TaskStepKeepsSemInv
<1>4. ASSUME NEW s \in Sem PROVE AbstractSem(s)!Next \/ UNCHANGED AbstractSem(s)!vars
  <2>1. SameSem(s)
    BY <1>1 DEF SameSem
  <2> QED BY <1>1, <1>2, <2>1, SemTaskStepIsAbstract
<1> QED BY <1>2, <1>3, <1>4 DEF SemStepOK, SemsImplemented

-----------------------------------------------------------------------------
(* The steps of the services.                                              *)

\* What a service does to other semaphores than its own.
LEMMA OthersStand ==
  ASSUME NEW s \in Sem, NEW z \in Sem, z # s, SameSem(z), kern'.wait[z] = kern.wait[z],
         NEW t, semPended[t] \notin {z}, semPended'[t] \notin {z},
         \A u \in Task \ {t} : /\ semPended'[u] = semPended[u]
                               /\ kern'.status[u] = kern.status[u]
  PROVE  UNCHANGED AbstractSem(z)!vars
<1>1. SemServed(z)' = SemServed(z)
  BY DEF SemServed
<1> QED BY <1>1, SemNothingHappens

\* OsSemCreate.
LEMMA SemCreateStep ==
  ASSUME TaskInv, WaitInv, SemInv, NEW ctx \in Context, NEW max \in MaxCount,
         NEW count \in 0..max, OsSemCreate(ctx, count, max)
  PROVE  SemStepOK
<1>0. PICK s \in Sem : s = Head(unusedSem)
  BY TailProperties DEF OsSemCreate, SemInv
<1>1. /\ unusedSem' = Tail(unusedSem) /\ unusedSem # <<>>
      /\ semUsed' = [semUsed EXCEPT ![s] = TRUE]
      /\ semCount' = [semCount EXCEPT ![s] = count]
      /\ maxSemCount' = [maxSemCount EXCEPT ![s] = max]
      /\ semPended' = semPended /\ UNCHANGED <<kern, pc, child, pendSV, tick>>
      /\ max \in Nat \ {0} /\ count \in Nat /\ count <= max
  BY <1>0, MaxCountAssumption DEF OsSemCreate
<1>2. /\ unusedSem \in Seq(Sem) /\ Distinct(unusedSem)
      /\ semUsed \in [Sem -> BOOLEAN] /\ semCount \in [Sem -> Nat] /\ maxSemCount \in [Sem -> Nat]
  BY DEF SemInv
<1>3. /\ s \in Sem /\ Tail(unusedSem) \in Seq(Sem) /\ In(s, unusedSem)
      /\ Distinct(Tail(unusedSem)) /\ ~In(s, Tail(unusedSem))
      /\ \A u \in Sem \ {s} : In(u, Tail(unusedSem)) <=> In(u, unusedSem)
  BY <1>0, <1>1, <1>2, TailProperties
<1>4. ~semUsed[s] /\ kern.wait[s] = <<>>
  BY <1>3 DEF SemInv
<1>5. /\ semUsed'[s] /\ semCount'[s] = count /\ maxSemCount'[s] = max
      /\ \A z \in Sem \ {s} : SameSem(z)
  BY <1>1, <1>2, <1>3 DEF SameSem
<1>6. /\ semUsed' \in [Sem -> BOOLEAN] /\ semCount' \in [Sem -> Nat]
      /\ maxSemCount' \in [Sem -> Nat]
  BY <1>1, <1>2
<1>7. SemInv'
  <2>1. ASSUME NEW z \in Sem
        PROVE  /\ In(z, unusedSem') <=> ~semUsed'[z]
               /\ ~semUsed'[z] => kern'.wait[z] = <<>>
               /\ semUsed'[z] => maxSemCount'[z] \in MaxCount /\ semCount'[z] <= maxSemCount'[z]
               /\ semUsed'[z] /\ semCount'[z] > 0 => kern'.wait[z] = <<>>
    <3>1. CASE z = s
      BY <3>1, <1>1, <1>3, <1>4, <1>5
    <3>2. CASE z # s
      BY <3>2, <1>1, <1>3, <1>5 DEF SemInv, SameSem
    <3> QED BY <3>1, <3>2
  <2> QED BY <2>1, <1>1, <1>3, <1>6 DEF SemInv
<1>8. \A z \in Sem : SemServed(z)' = SemServed(z)
  BY <1>1 DEF SemServed
<1>9. AbstractSem(s)!Next
  BY <1>1, <1>3, <1>4, <1>5, <1>8, SemCreated
<1>10. \A z \in Sem \ {s} : UNCHANGED AbstractSem(z)!vars
  BY <1>1, <1>5, <1>8, SemNothingHappens
<1> QED BY <1>1, <1>7, <1>9, <1>10, TasksStand DEF SemStepOK, SemsImplemented

\* LOS_SemDelete.
LEMMA SemDeleteStep ==
  ASSUME TaskInv, WaitInv, SemInv, NEW ctx \in Context, NEW s \in Sem, LOS_SemDelete(ctx, s)
  PROVE  SemStepOK
<1>1. /\ semUsed[s] /\ kern.wait[s] = <<>> /\ unusedSem' = <<s>> \o unusedSem
      /\ semUsed' = [semUsed EXCEPT ![s] = FALSE]
      /\ UNCHANGED <<semCount, maxSemCount, semPended>>
      /\ UNCHANGED <<kern, pc, child, pendSV, tick>>
  BY DEF LOS_SemDelete
<1>2. /\ unusedSem \in Seq(Sem) /\ Distinct(unusedSem) /\ ~In(s, unusedSem)
      /\ semUsed \in [Sem -> BOOLEAN]
  BY <1>1 DEF SemInv
<1>3. /\ unusedSem' \in Seq(Sem) /\ Distinct(unusedSem')
      /\ \A z : In(z, unusedSem') <=> In(z, unusedSem) \/ z = s
  BY <1>1, <1>2, EndsProperties
<1>4. /\ ~semUsed'[s] /\ semUsed' \in [Sem -> BOOLEAN]
      /\ \A z \in Sem \ {s} : SameSem(z)
  BY <1>1, <1>2 DEF SameSem
<1>5. SemInv'
  <2>1. ASSUME NEW z \in Sem
        PROVE  /\ In(z, unusedSem') <=> ~semUsed'[z]
               /\ ~semUsed'[z] => kern'.wait[z] = <<>>
               /\ semUsed'[z] => maxSemCount'[z] \in MaxCount /\ semCount'[z] <= maxSemCount'[z]
               /\ semUsed'[z] /\ semCount'[z] > 0 => kern'.wait[z] = <<>>
    BY <1>1, <1>3, <1>4 DEF SemInv, SameSem
  <2> QED BY <2>1, <1>1, <1>3, <1>4 DEF SemInv
<1>6. \A z \in Sem : SemServed(z)' = SemServed(z)
  BY <1>1 DEF SemServed
<1>7. maxSemCount[s] # 0
  BY <1>1, MaxCountAssumption DEF SemInv
<1>8. AbstractSem(s)!Next
  BY <1>1, <1>4, <1>6, <1>7, SemDeleted
<1>9. \A z \in Sem \ {s} : UNCHANGED AbstractSem(z)!vars
  BY <1>1, <1>4, <1>6, SemNothingHappens
<1> QED BY <1>1, <1>5, <1>8, <1>9, TasksStand DEF SemStepOK, SemsImplemented

\* A unit is taken or counted.
LEMMA SemCountStep ==
  ASSUME TaskInv, WaitInv, SemInv, NEW s \in Sem,
         SemPendTake(s) \/ \E ctx \in Context : SemPostCount(ctx, s)
  PROVE  SemStepOK
<1>1. /\ semUsed[s] /\ kern.wait[s] = <<>>
      /\ \/ semCount[s] > 0 /\ semCount' = [semCount EXCEPT ![s] = @ - 1]
         \/ semCount[s] # maxSemCount[s] /\ semCount' = [semCount EXCEPT ![s] = @ + 1]
      /\ UNCHANGED <<semUsed, maxSemCount, unusedSem, semPended>>
      /\ UNCHANGED <<kern, pc, child, pendSV, tick>>
  BY DEF SemPendTake, SemPostCount, OsSemValidCheck, SemInv
<1>2. /\ semCount \in [Sem -> Nat] /\ maxSemCount \in [Sem -> Nat]
      /\ semCount[s] <= maxSemCount[s] /\ maxSemCount[s] \in MaxCount
  BY <1>1 DEF SemInv
<1>3. /\ semCount' \in [Sem -> Nat] /\ semCount'[s] <= maxSemCount[s]
      /\ \A z \in Sem \ {s} : SameSem(z)
  BY <1>1, <1>2 DEF SameSem
<1>4. SemInv'
  <2>1. ASSUME NEW z \in Sem
        PROVE  /\ In(z, unusedSem') <=> ~semUsed'[z]
               /\ ~semUsed'[z] => kern'.wait[z] = <<>>
               /\ semUsed'[z] => maxSemCount'[z] \in MaxCount /\ semCount'[z] <= maxSemCount'[z]
               /\ semUsed'[z] /\ semCount'[z] > 0 => kern'.wait[z] = <<>>
    BY <1>1, <1>2, <1>3 DEF SemInv, SameSem
  <2> QED BY <2>1, <1>1, <1>3 DEF SemInv
<1>5. \A z \in Sem : SemServed(z)' = SemServed(z)
  BY <1>1 DEF SemServed
<1>6. AbstractSem(s)!Next
  <2>1. CASE semCount[s] > 0 /\ semCount' = [semCount EXCEPT ![s] = @ - 1]
    BY <2>1, <1>1, <1>2, <1>5, UnitTaken
  <2>2. CASE semCount[s] # maxSemCount[s] /\ semCount' = [semCount EXCEPT ![s] = @ + 1]
    BY <2>2, <1>1, <1>2, <1>5, MaxCountAssumption, UnitCounted
  <2> QED BY <2>1, <2>2, <1>1
<1>7. \A z \in Sem \ {s} : UNCHANGED AbstractSem(z)!vars
  BY <1>1, <1>3, <1>5, SemNothingHappens
<1> QED BY <1>1, <1>4, <1>6, <1>7, TasksStand DEF SemStepOK, SemsImplemented

\* LOS_SemPend without a unit.
LEMMA SemWaitStep ==
  ASSUME TaskInv, WaitInv, SemInv, NEW s \in Sem, NEW timed \in BOOLEAN, SemPendWait(s, timed)
  PROVE  SemStepOK
<1>1. /\ Caller("task") /\ semUsed[s] /\ kern.lock = 0 /\ semCount[s] = 0
      /\ kern' = OsSchedTaskWait(kern, s, timed)
      /\ pc' = [pc EXCEPT ![kern.run] = "block"]
      /\ semPended' = [semPended EXCEPT ![kern.run] = s]
      /\ UNCHANGED <<semUsed, semCount, maxSemCount, unusedSem>>
      /\ child' = child /\ pendSV' = pendSV /\ tick' = tick
  BY DEF SemPendWait, OsSemValidCheck
<1>2. s \in WaitObj
  BY SemAssumption
<1>3. /\ TaskInv' /\ WaitInv' /\ Preempts'
      /\ kern'.wait = [kern.wait EXCEPT ![s] = Append(@, kern.run)]
      /\ Has(kern', kern.run, "PEND") /\ ~Has(kern, kern.run, "PEND")
      /\ \A u \in TCB \ {kern.run} : kern'.status[u] = kern.status[u]
  <2>1. PICK k : k = kern
    OBVIOUS
  <2>2. Repriced(kern, k)
    BY <2>1, RepricedBy DEF TaskInv, Inv, WaitInv
  <2>3. kern' = OsSchedTaskWait(k, s, timed)
    BY <1>1, <2>1
  <2> QED BY <1>1, <1>2, <2>2, <2>3, WaitStep, SMTT(30)
<1>4. PICK r \in Task : r = kern.run
  BY <1>1, CallerFacts DEF Context
<1>5. /\ pc \in [TCB -> PC] /\ pc[r] = "run" /\ r \in TCB
      /\ kern.wait \in [WaitObj -> Seq(Task)] /\ ListsOK(kern)
  BY <1>1, <1>4, TCBs, KernelFields DEF TaskInv, Inv, KInv, WaitInv, Caller, Running
<1>6. semPended[r] = NoSem /\ semPended \in [Task -> Sem \cup {NoSem}]
  BY <1>5 DEF SemInv
<1>7. /\ semPended'[r] = s /\ semPended' \in [Task -> Sem \cup {NoSem}]
      /\ \A u \in Task \ {r} : semPended'[u] = semPended[u]
  BY <1>1, <1>4, <1>6
<1>8. /\ kern'.wait[s] = Append(kern.wait[s], r)
      /\ \A o \in WaitObj \ {s} : kern'.wait[o] = kern.wait[o]
      /\ \A u : In(u, kern'.wait[s]) <=> In(u, kern.wait[s]) \/ u = r
  <2> DEFINE q == kern.wait[s]
  <2>1. q \in Seq(Task) /\ kern'.wait[s] = Append(q, r)
    BY <1>2, <1>3, <1>4, <1>5
  <2>2. \A o \in WaitObj \ {s} : kern'.wait[o] = kern.wait[o]
    BY <1>3, <1>5
  <2> HIDE DEF q
  <2>3. \A u : In(u, Append(q, r)) <=> In(u, q) \/ u = r
    BY <2>1, EndsProperties
  <2> QED BY <2>1, <2>2, <2>3 DEF q
<1>9. \A o \in WaitObj : ~In(r, kern.wait[o])
  BY <1>6, NoSemAssumption DEF SemInv
<1>10. SemInv'
  <2>1. ASSUME NEW u \in Task, NEW o \in WaitObj, In(u, kern'.wait[o])
        PROVE  o \in Sem /\ semPended'[u] = o
    <3>1. CASE u = r
      BY <2>1, <3>1, <1>7, <1>8, <1>9
    <3>2. CASE u # r
      BY <2>1, <3>2, <1>7, <1>8 DEF SemInv
    <3> QED BY <3>1, <3>2
  <2>2. ASSUME NEW u \in Task, semPended'[u] # NoSem PROVE pc'[u] \in {"block", "wait"}
    BY <2>2, <1>1, <1>4, <1>5, <1>7, TCBs DEF SemInv
  <2>3. \A z \in Sem : /\ z # s => kern'.wait[z] = kern.wait[z]
                       /\ semUsed'[z] = semUsed[z] /\ semCount'[z] = semCount[z]
                       /\ maxSemCount'[z] = maxSemCount[z]
    BY <1>1, <1>8, SemAssumption
  <2>4. ASSUME NEW z \in Sem
        PROVE  /\ In(z, unusedSem') <=> ~semUsed'[z]
               /\ ~semUsed'[z] => kern'.wait[z] = <<>>
               /\ semUsed'[z] => maxSemCount'[z] \in MaxCount /\ semCount'[z] <= maxSemCount'[z]
               /\ semUsed'[z] /\ semCount'[z] > 0 => kern'.wait[z] = <<>>
    <3>1. CASE z = s
      <4>1. semUsed'[s] /\ semCount'[s] = 0 /\ maxSemCount'[s] = maxSemCount[s]
        BY <1>1
      <4> QED BY <3>1, <4>1, <1>1 DEF SemInv
    <3>2. CASE z # s
      BY <2>3, <3>2, <1>1 DEF SemInv
    <3> QED BY <3>1, <3>2
  <2> QED BY <1>1, <1>7, <2>1, <2>2, <2>4 DEF SemInv
<1>11. \A z \in Sem : SameSem(z)
  BY <1>1 DEF SameSem
<1>12. AbstractSem(s)!Next
  <2>1. r \notin SemServed(s) /\ r \notin SemServed(s)'
    BY <1>3, <1>4, <1>6, NoSemAssumption DEF SemServed, Has
  <2>2. SemServed(s)' = SemServed(s)
    BY <1>3, <1>4, <1>7, <2>1, TCBs DEF SemServed
  <2>3. maxSemCount[s] # 0
    BY <1>1, MaxCountAssumption DEF SemInv
  <2> QED BY <1>1, <1>2, <1>8, <1>9, <1>11, <2>1, <2>2, <2>3, SemWaiterCame
<1>13. ASSUME NEW z \in Sem, z # s PROVE UNCHANGED AbstractSem(z)!vars
  <2>1. kern'.wait[z] = kern.wait[z]
    BY <1>8, <1>13, SemAssumption
  <2>2. semPended[r] \notin {z} /\ semPended'[r] \notin {z}
    BY <1>6, <1>7, <1>13, NoSemAssumption
  <2>3. \A u \in Task \ {r} : /\ semPended'[u] = semPended[u]
                              /\ kern'.status[u] = kern.status[u]
    BY <1>3, <1>4, <1>7, TCBs
  <2> QED BY <2>1, <2>2, <2>3, <1>11, <1>13, OthersStand
<1> QED BY <1>3, <1>10, <1>12, <1>13 DEF SemStepOK, SemsImplemented

\* The end of that LOS_SemPend.
LEMMA SemReturnStep ==
  ASSUME TaskInv, WaitInv, SemInv, SemPendReturn
  PROVE  SemStepOK
<1>1. /\ kern.run \in Task /\ Running("wait") /\ semPended[kern.run] # NoSem
      /\ kern' = ClearFlag(kern, kern.run, {"TIMEOUT"}) /\ pc' = [pc EXCEPT ![kern.run] = "run"]
      /\ semPended' = [semPended EXCEPT ![kern.run] = NoSem]
      /\ UNCHANGED <<semUsed, semCount, maxSemCount, unusedSem>>
      /\ child' = child /\ pendSV' = pendSV /\ tick' = tick
  BY DEF SemPendReturn
<1>2. /\ TaskInv' /\ WaitInv' /\ (Preempts => Preempts')
      /\ kern'.wait = kern.wait /\ ~Has(kern, kern.run, "PEND")
      /\ \A u \in TCB \ {kern.run} : kern'.status[u] = kern.status[u]
  BY <1>1, ReturnStep
<1>3. PICK r \in Task : r = kern.run
  BY <1>1
<1>4. /\ pc \in [TCB -> PC] /\ r \in TCB /\ ListsOK(kern)
      /\ semPended \in [Task -> Sem \cup {NoSem}]
  BY TCBs DEF TaskInv, Inv, WaitInv, SemInv
<1>5. PICK s \in Sem : s = semPended[r]
  BY <1>1, <1>3, <1>4
<1>6. /\ semPended'[r] = NoSem /\ semPended' \in [Task -> Sem \cup {NoSem}]
      /\ \A u \in Task \ {r} : semPended'[u] = semPended[u]
  BY <1>1, <1>3, <1>4
<1>7. \A o \in WaitObj : ~In(r, kern.wait[o])
  BY <1>2, <1>3, <1>4 DEF ListsOK, TaskOK
<1>8. SemInv'
  <2>1. ASSUME NEW u \in Task, NEW o \in WaitObj, In(u, kern'.wait[o])
        PROVE  o \in Sem /\ semPended'[u] = o
    <3>1. u # r
      BY <2>1, <1>2, <1>7
    <3> QED BY <2>1, <3>1, <1>2, <1>6 DEF SemInv
  <2>2. ASSUME NEW u \in Task, semPended'[u] # NoSem PROVE pc'[u] \in {"block", "wait"}
    BY <2>2, <1>1, <1>3, <1>4, <1>6, TCBs DEF SemInv
  <2> QED BY <1>1, <1>2, <1>6, <2>1, <2>2 DEF SemInv
<1>9. \A z \in Sem : SameSem(z) /\ kern'.wait[z] = kern.wait[z]
  BY <1>1, <1>2 DEF SameSem
<1>10. \A u \in Task \ {r} : /\ semPended'[u] = semPended[u]
                             /\ kern'.status[u] = kern.status[u]
  BY <1>2, <1>3, <1>6, TCBs
<1>11. AbstractSem(s)!Next \/ UNCHANGED AbstractSem(s)!vars
  <2>1. SemServed(s)' = SemServed(s) \ {r}
    BY <1>6, <1>10, NoSemAssumption DEF SemServed
  <2>2. CASE r \in SemServed(s)
    BY <2>1, <2>2, <1>9, WaiterReturns
  <2>3. CASE r \notin SemServed(s)
    <3>1. SemServed(s)' = SemServed(s)
      BY <2>1, <2>3
    <3> QED BY <3>1, <1>9, SemNothingHappens
  <2> QED BY <2>2, <2>3
<1>12. ASSUME NEW z \in Sem, z # s PROVE UNCHANGED AbstractSem(z)!vars
  <2>1. semPended[r] \notin {z} /\ semPended'[r] \notin {z}
    BY <1>5, <1>6, <1>12, NoSemAssumption
  <2> QED BY <2>1, <1>9, <1>10, <1>12, OthersStand
<1> QED BY <1>2, <1>8, <1>11, <1>12 DEF SemStepOK, SemsImplemented

\* LOS_SemPost with a waiter.
LEMMA SemWakeStep ==
  ASSUME TaskInv, WaitInv, SemInv, NEW ctx \in Context, NEW s \in Sem, SemPostWake(ctx, s)
  PROVE  SemStepOK
<1>1. /\ Caller(ctx) /\ semUsed[s] /\ semCount[s] # maxSemCount[s] /\ kern.wait[s] # <<>>
      /\ Finish(ctx, OsSchedTaskWake(kern, Head(kern.wait[s])), TRUE)
      /\ child' = child /\ tick' = tick
      /\ UNCHANGED <<semUsed, semCount, maxSemCount, unusedSem, semPended>>
  BY DEF SemPostWake, semVars
<1>2. /\ s \in WaitObj /\ kern.wait \in [WaitObj -> Seq(Task)] /\ ListsOK(kern)
      /\ Distinct(kern.wait[s])
  BY SemAssumption, KernelFields DEF TaskInv, Inv, KInv, WaitInv, ListsOK
<1>3. PICK t \in Task : t = Head(kern.wait[s])
  BY <1>1, <1>2, TailProperties
<1>4. /\ In(t, kern.wait[s])
      /\ \A o \in WaitObj : In(t, kern.wait[o]) => o = s
      /\ Has(kern, t, "PEND") /\ ~Has(kern, t, "TIMEOUT") /\ semPended[t] = s
  <2>1. In(t, kern.wait[s])
    BY <1>1, <1>2, <1>3, TailProperties
  <2>2. TaskOK(kern, t)
    BY <1>2, TCBs DEF ListsOK
  <2> QED BY <2>1, <2>2, <1>2 DEF TaskOK, SemInv
<1>5. /\ TaskInv' /\ WaitInv' /\ Preempts'
      /\ kern'.wait = Unlink(kern.wait, t)
      /\ ~Has(kern', t, "PEND") /\ ~Has(kern', t, "TIMEOUT")
      /\ \A u \in TCB \ {t} : kern'.status[u] = kern.status[u]
      /\ \A u \in Task : pc'[u] \in {"block", "wait"} <=> pc[u] \in {"block", "wait"}
  <2>1. PICK k : k = kern
    OBVIOUS
  <2>2. Repriced(kern, k)
    BY <2>1, RepricedBy DEF TaskInv, Inv, WaitInv
  <2>3. Finish(ctx, OsSchedTaskWake(k, t), TRUE)
    BY <1>1, <1>3, <2>1
  <2> QED BY <2>2, <2>3, <1>1, <1>4, WakeStep DEF Serves
<1>6. \A u \in Task \ {t} : kern'.status[u] = kern.status[u]
  BY <1>5, TCBs
<1>7. /\ kern'.wait[s] = Tail(kern.wait[s])
      /\ \A o \in WaitObj \ {s} : kern'.wait[o] = kern.wait[o]
      /\ \A u \in Task : \A o \in WaitObj : In(u, kern'.wait[o]) => In(u, kern.wait[o])
  <2>1. \A o \in WaitObj : kern'.wait[o] = Without(kern.wait[o], t)
    BY <1>2, <1>5 DEF Unlink
  <2>2. kern'.wait[s] = Tail(kern.wait[s])
    BY <2>1, <1>1, <1>2, <1>3, WithoutHead
  <2>3. \A o \in WaitObj \ {s} : kern'.wait[o] = kern.wait[o]
    BY <2>1, <1>4, WithoutAbsent
  <2>4. \A u : In(u, Tail(kern.wait[s])) => In(u, kern.wait[s])
    BY <1>1, <1>2, TailProperties
  <2> QED BY <2>2, <2>3, <2>4
<1>8. SemInv'
  <2>1. ASSUME NEW z \in Sem
        PROVE  /\ In(z, unusedSem') <=> ~semUsed'[z]
               /\ ~semUsed'[z] => kern'.wait[z] = <<>>
               /\ semUsed'[z] => maxSemCount'[z] \in MaxCount /\ semCount'[z] <= maxSemCount'[z]
               /\ semUsed'[z] /\ semCount'[z] > 0 => kern'.wait[z] = <<>>
    <3>1. CASE z = s
      BY <3>1, <1>1 DEF SemInv
    <3>2. CASE z # s
      <4>1. kern'.wait[z] = kern.wait[z]
        BY <3>2, <1>7, SemAssumption
      <4> QED BY <4>1, <1>1 DEF SemInv
    <3> QED BY <3>1, <3>2
  <2>2. ASSUME NEW u \in Task, NEW o \in WaitObj, In(u, kern'.wait[o])
        PROVE  o \in Sem /\ semPended'[u] = o
    BY <2>2, <1>1, <1>7 DEF SemInv
  <2>3. ASSUME NEW u \in Task, semPended'[u] # NoSem PROVE pc'[u] \in {"block", "wait"}
    BY <2>3, <1>1, <1>5 DEF SemInv
  <2> QED BY <2>1, <2>2, <2>3, <1>1 DEF SemInv
<1>9. \A z \in Sem : SameSem(z)
  BY <1>1 DEF SameSem
<1>10. AbstractSem(s)!Next
  <2>1. SemServed(s)' = SemServed(s) \cup {t}
    <3>1. t \in SemServed(s)'
      BY <1>1, <1>4, <1>5 DEF SemServed, Has
    <3>2. \A u \in Task \ {t} : u \in SemServed(s)' <=> u \in SemServed(s)
      BY <1>1, <1>6 DEF SemServed
    <3> QED BY <3>1, <3>2 DEF SemServed
  <2>2. maxSemCount[s] # 0
    BY <1>1, MaxCountAssumption DEF SemInv
  <2> QED BY <1>1, <1>3, <1>7, <1>9, <2>1, <2>2, UnitHandedOver
<1>11. ASSUME NEW z \in Sem, z # s PROVE UNCHANGED AbstractSem(z)!vars
  <2>1. semPended[t] \notin {z} /\ semPended'[t] \notin {z}
    BY <1>1, <1>4, <1>11
  <2>2. kern'.wait[z] = kern.wait[z]
    BY <1>7, <1>11, SemAssumption
  <2> QED BY <2>1, <2>2, <1>1, <1>6, <1>9, <1>11, OthersStand
<1> QED BY <1>5, <1>8, <1>10, <1>11 DEF SemStepOK, SemsImplemented

-----------------------------------------------------------------------------
(* The specification.                                                      *)

\* Every step keeps the invariants and is a step of the abstract semaphores.
LEMMA SemNextStep ==
  ASSUME TaskInv, WaitInv, SemInv, [SemNext]_semAll
  PROVE  SemStepOK
<1>1. CASE UNCHANGED semAll
  <2>1. /\ UNCHANGED <<kern, pc, child, pendSV, tick>>
        /\ UNCHANGED <<semUsed, semCount, maxSemCount, unusedSem, semPended>>
    BY <1>1 DEF semAll
  <2>2. SemInv'
    BY <2>1 DEF SemInv
  <2>3. \A s \in Sem : UNCHANGED AbstractSem(s)!vars
    <3>1. \A s \in Sem : SemServed(s)' = SemServed(s) /\ SameSem(s)
      BY <2>1 DEF SemServed, SameSem
    <3> QED BY <2>1, <3>1, SemNothingHappens
  <2> QED BY <2>1, <2>2, <2>3, TasksStand DEF SemStepOK, SemsImplemented
<1>2. CASE SemTaskStep
  BY <1>2, SemTaskStepOK
<1>3. ASSUME NEW ctx \in Context, NEW max \in MaxCount, NEW count \in 0..max,
             OsSemCreate(ctx, count, max)
      PROVE  SemStepOK
  BY <1>3, SemCreateStep
<1>4. ASSUME NEW ctx \in Context, NEW s \in Sem, LOS_SemDelete(ctx, s)
      PROVE  SemStepOK
  BY <1>4, SemDeleteStep
<1>5. ASSUME NEW ctx \in Context, NEW s \in Sem, SemPostWake(ctx, s)
      PROVE  SemStepOK
  BY <1>5, SemWakeStep
<1>6. ASSUME NEW s \in Sem, SemPendTake(s) \/ \E ctx \in Context : SemPostCount(ctx, s)
      PROVE  SemStepOK
  BY <1>6, SemCountStep
<1>7. ASSUME NEW s \in Sem, NEW timed \in BOOLEAN, SemPendWait(s, timed)
      PROVE  SemStepOK
  BY <1>7, SemWaitStep
<1>8. CASE SemPendReturn
  BY <1>8, SemReturnStep
<1> QED BY <1>1, <1>2, <1>3, <1>4, <1>5, <1>6, <1>7, <1>8 DEF SemNext, SemService

\* The invariants hold, and every step is what it should be.
LEMMA SemsHold ==
  /\ SemSpec => [](TaskInv /\ WaitInv /\ Preempts /\ SemInv)
  /\ SemSpec => [][SemStepOK]_semAll
<1>1. TaskInit /\ SemInit => TaskInv /\ WaitInv /\ Preempts /\ SemInv
  BY InitInv, InitWaits, SemInitInv
<1>2. TaskInv /\ WaitInv /\ SemInv /\ [SemNext]_semAll => SemStepOK
  BY SemNextStep
<1>3. SemStepOK /\ Preempts => (TaskInv /\ WaitInv /\ Preempts /\ SemInv)'
  BY DEF SemStepOK
<1> QED BY <1>1, <1>2, <1>3, PTL DEF SemSpec

\* A task is on a wait list exactly when its status says PEND, on one list and
\* once, whatever posts, timeouts, deletions and suspensions come together
\* (OsSchedTaskWait, OsSchedTaskWake, OsSchedWakePendTimeTask).
THEOREM SemWaitListsAgree == SemSpec => []WaitListsAgree
<1>1. WaitInv => WaitListsAgree
  BY TCBs DEF WaitInv, ListsOK, TaskOK, WaitListsAgree
<1> QED BY <1>1, SemsHold, PTL

\* The TIMEOUT flag a LOS_SemPend looks at is its own (los_sem.c).
THEOREM SemNoStaleTimeout == SemSpec => []NoStaleTimeout
<1>1. WaitInv => NoStaleTimeout
  BY DEF WaitInv, Places, NoStaleTimeout
<1> QED BY <1>1, SemsHold, PTL

\* Posts too reschedule when they wake a task of a higher priority: with
\* semaphores the task with the highest priority runs (LOS_SemPost).
THEOREM SemHighestRuns == SemSpec => []HighestRuns
<1>1. Preempts => HighestRuns
  BY DEF Preempts, HighestReady, HighestRuns
<1> QED BY <1>1, SemsHold, PTL

\* g_unusedSemList holds exactly the semaphores not in use, each once, and no
\* task waits for one of them (OsSemCreate, LOS_SemDelete).
THEOREM SemPoolAlwaysAgrees == SemSpec => []SemPoolAgrees
<1>1. SemInv => SemPoolAgrees
  BY DEF SemInv, SemPoolAgrees
<1> QED BY <1>1, SemsHold, PTL

\* Every semaphore of the kernel behaves as the module Semaphore promises:
\* units go to the waiters in the order in which they came, and a waiter waits
\* only while there is none (los_sem.c as a whole).
THEOREM SemaphoresImplemented == SemSpec => ImplementsSemaphore
<1>1. TaskInit /\ SemInit => \A s \in Sem : AbstractSem(s)!Init
  BY SemInitInv
<1>2. [SemStepOK]_semAll
        => [\A s \in Sem : UNCHANGED AbstractSem(s)!vars \/ AbstractSem(s)!Next]_semAll
  BY DEF SemStepOK, SemsImplemented
<1> QED BY <1>1, <1>2, SemsHold, PTL DEF SemSpec, ImplementsSemaphore

(***************************************************************************)
(* MUTEXES                                                                 *)
(*                                                                         *)
(* A mutex is handed over before its new owner runs.  MuxInv therefore     *)
(* says that who has been served, and has not looked at TIMEOUT yet, is    *)
(* the owner.                                                              *)
(***************************************************************************)

\* Of a mutex: the pool, and who owns it.
MuxOK(m) ==
  /\ In(m, unusedMux) <=> ~muxUsed[m]
  /\ ~muxUsed[m] => muxCount[m] = 0
  /\ muxCount[m] = 0 => kern.wait[m] = <<>>
  /\ muxCount[m] > 0 => /\ muxOwner[m] \in Task /\ pc[muxOwner[m]] # "none"
                        /\ muxPriority[m] \in Prio
  /\ \A t \in MuxServed(m) : muxCount[m] > 0 /\ muxOwner[m] = t

\* Of a task: in which LOS_MuxPend it waits.
PendOK(t) ==
  /\ \A o \in WaitObj : In(t, kern.wait[o]) => o \in Mux /\ muxPended[t] = o
  /\ muxPended[t] # NoMux => pc[t] \in {"block", "wait"}

MuxTypeOK ==
  /\ muxUsed \in [Mux -> BOOLEAN] /\ muxCount \in [Mux -> Nat]
  /\ muxOwner \in [Mux -> Task \cup {NoTask}] /\ muxPriority \in [Mux -> Prio \cup {0}]
  /\ unusedMux \in Seq(Mux) /\ muxPended \in [Task -> Mux \cup {NoMux}]

MuxInv == /\ MuxTypeOK /\ Distinct(unusedMux)
          /\ \A m \in Mux : MuxOK(m)
          /\ \A t \in Task : PendOK(t)

MuxesImplemented == \A m \in Mux : UNCHANGED AbstractMux(m)!vars \/ AbstractMux(m)!Next

\* What every step keeps and does.
MuxStepOK == TaskInv' /\ WaitInv' /\ MuxInv' /\ MuxesImplemented

-----------------------------------------------------------------------------
(* The steps of the abstract mutex.                                        *)

\* Mutex m itself stays as it is.
SameMux(m) ==
  muxUsed'[m] = muxUsed[m] /\ muxCount'[m] = muxCount[m] /\ muxOwner'[m] = muxOwner[m]

\* A step that stutters for m.
LEMMA MuxNothingHappens ==
  ASSUME NEW m \in Mux, SameMux(m), kern'.wait[m] = kern.wait[m], MuxServed(m)' = MuxServed(m)
  PROVE  UNCHANGED AbstractMux(m)!vars
BY DEF SameMux, AbstractMux!vars

\* A task that was handed the mutex returns.
LEMMA OwnerReturns ==
  ASSUME NEW m \in Mux, SameMux(m), kern'.wait[m] = kern.wait[m],
         NEW p \in Task, p \in MuxServed(m), MuxServed(m)' = MuxServed(m) \ {p},
         muxCount[m] > 0, muxOwner[m] = p
  PROVE  AbstractMux(m)!Next
<1>1. AbstractMux(m)!Return(p)
  BY DEF SameMux, AbstractMux!Return
<1> QED BY <1>1 DEF AbstractMux!Next

\* A waiter times out or is deleted.
LEMMA MuxWaiterLeaves ==
  ASSUME NEW m \in Mux, SameMux(m), NEW p \in Task, In(p, kern.wait[m]),
         kern'.wait[m] = Without(kern.wait[m], p), MuxServed(m)' = MuxServed(m)
  PROVE  AbstractMux(m)!Next
<1> DEFINE i == CHOOSE j \in DOMAIN kern.wait[m] : kern.wait[m][j] = p
<1>1. i \in DOMAIN kern.wait[m] /\ kern.wait[m][i] = p
  BY DEF In
<1>2. kern'.wait[m] = RemoveAt(kern.wait[m], i)
  BY DEF Without
<1> HIDE DEF i
<1>3. AbstractMux(m)!Leave(p)
  BY <1>1, <1>2 DEF SameMux, AbstractMux!Leave, RemoveAt, AbstractMux!WithoutAt
<1> QED BY <1>3 DEF AbstractMux!Next

\* A task comes to wait.
LEMMA MuxWaiterCame ==
  ASSUME NEW m \in Mux, SameMux(m), muxUsed[m], muxCount[m] > 0,
         NEW p \in Task, muxOwner[m] \notin {NoTask, p},
         ~In(p, kern.wait[m]), p \notin MuxServed(m),
         kern'.wait[m] = Append(kern.wait[m], p), MuxServed(m)' = MuxServed(m)
  PROVE  AbstractMux(m)!Next
<1>1. AbstractMux(m)!Wait(p)
  BY DEF SameMux, In, AbstractMux!Wait, AbstractMux!Elements
<1> QED BY <1>1 DEF AbstractMux!Next

\* The running task locks an open mutex or its own once more.
LEMMA Locked ==
  ASSUME NEW m \in Mux, muxUsed[m], muxUsed'[m], muxCount[m] \in Nat,
         NEW p \in Task, ~In(p, kern.wait[m]), p \notin MuxServed(m),
         muxCount'[m] = muxCount[m] + 1, muxOwner'[m] = p,
         muxCount[m] = 0 \/ muxOwner[m] = p,
         kern'.wait[m] = kern.wait[m], MuxServed(m)' = MuxServed(m)
  PROVE  AbstractMux(m)!Next
<1>1. NoTask \notin Task
  BY DEF NoTask, Task
<1>2. AbstractMux(m)!Lock(p)
  BY <1>1 DEF In, AbstractMux!Lock, AbstractMux!Elements
<1> QED BY <1>2 DEF AbstractMux!Next

\* The owner unlocks, and it or nobody owns the mutex then.
LEMMA Unlocked ==
  ASSUME NEW m \in Mux, muxUsed[m], muxUsed'[m], muxCount[m] \in Nat \ {0},
         NEW p \in Task, p \notin MuxServed(m), muxOwner[m] = p, muxOwner'[m] = p,
         muxCount'[m] = muxCount[m] - 1, muxCount[m] = 1 => kern.wait[m] = <<>>,
         kern'.wait[m] = kern.wait[m], MuxServed(m)' = MuxServed(m)
  PROVE  AbstractMux(m)!Next
<1>1. AbstractMux(m)!Unlock(p)
  BY DEF AbstractMux!Unlock
<1> QED BY <1>1 DEF AbstractMux!Next

\* The owner hands the mutex over.
LEMMA HandedOver ==
  ASSUME NEW m \in Mux, muxUsed[m], muxUsed'[m], muxCount[m] = 1, muxCount'[m] = 1,
         NEW p \in Task, p \notin MuxServed(m), muxOwner[m] = p, kern.wait[m] # <<>>,
         muxOwner'[m] = Head(kern.wait[m]), kern'.wait[m] = Tail(kern.wait[m]),
         MuxServed(m)' = MuxServed(m) \cup {Head(kern.wait[m])}
  PROVE  AbstractMux(m)!Next
<1>1. AbstractMux(m)!Unlock(p)
  BY DEF AbstractMux!Unlock
<1> QED BY <1>1 DEF AbstractMux!Next

\* The mutex is created or deleted.
LEMMA Existence ==
  ASSUME NEW m \in Mux, (muxUsed[m] /\ muxUsed'[m] = FALSE) \/ (~muxUsed[m] /\ muxUsed'[m] = TRUE),
         muxCount[m] = 0, muxCount'[m] = 0,
         kern.wait[m] = <<>>, kern'.wait[m] = <<>>, MuxServed(m)' = MuxServed(m)
  PROVE  AbstractMux(m)!Next
<1>1. CASE muxUsed[m] /\ muxUsed'[m] = FALSE
  <2>1. AbstractMux(m)!Delete
    BY <1>1 DEF AbstractMux!Delete
  <2> QED BY <2>1 DEF AbstractMux!Next
<1>2. CASE ~muxUsed[m] /\ muxUsed'[m] = TRUE
  <2>1. AbstractMux(m)!Create
    BY <1>2 DEF AbstractMux!Create
  <2> QED BY <2>1 DEF AbstractMux!Next
<1> QED BY <1>1, <1>2

-----------------------------------------------------------------------------
(* What a step leaves alone.                                               *)

\* A mutex that a step leaves alone.
LEMMA MuxStays ==
  ASSUME NEW m \in Mux, MuxOK(m), SameMux(m), muxPriority'[m] = muxPriority[m],
         kern'.wait[m] = kern.wait[m], MuxServed(m)' = MuxServed(m),
         In(m, unusedMux') <=> In(m, unusedMux),
         \A u \in Task : u = muxOwner[m] /\ muxCount[m] > 0 /\ pc[u] # "none" => pc'[u] # "none"
  PROVE  MuxOK(m)' /\ UNCHANGED AbstractMux(m)!vars
<1>1. MuxOK(m)'
  BY DEF MuxOK, SameMux
<1> QED BY <1>1, MuxNothingHappens

\* The task whose code runs is in no LOS_MuxPend.
LEMMA CallerFree ==
  ASSUME TaskInv, WaitInv, MuxInv, Caller("task")
  PROVE  /\ kern.run \in Task /\ pc[kern.run] = "run" /\ muxPended[kern.run] = NoMux
         /\ \A o \in WaitObj : ~In(kern.run, kern.wait[o])
         /\ \A m \in Mux : kern.run \notin MuxServed(m)
<1>1. kern.run \in Task /\ pc[kern.run] = "run"
  BY CallerFacts DEF Context
<1>2. muxPended[kern.run] = NoMux
  BY <1>1 DEF MuxInv, PendOK
<1>3. \A o \in WaitObj : ~In(kern.run, kern.wait[o])
  BY <1>1, <1>2, NoMuxAssumption DEF MuxInv, PendOK
<1> QED BY <1>1, <1>2, <1>3, NoMuxAssumption DEF MuxServed

\* Nobody has been served by a mutex that is open.
LEMMA OpenServesNobody ==
  ASSUME NEW m \in Mux, MuxOK(m), muxCount[m] = 0
  PROVE  MuxServed(m) = {}
BY DEF MuxOK

\* A service touches one mutex only, and no task.
LEMMA OneMuxStep ==
  ASSUME TaskInv, WaitInv, MuxInv, UNCHANGED taskVars, muxPended' = muxPended,
         NEW m \in Mux, MuxTypeOK', Distinct(unusedMux)', MuxOK(m)',
         \A z \in Mux \ {m} : SameMux(z) /\ muxPriority'[z] = muxPriority[z]
                              /\ (In(z, unusedMux') <=> In(z, unusedMux)),
         AbstractMux(m)!Next
  PROVE  MuxStepOK
<1>1. kern' = kern /\ pc' = pc /\ child' = child /\ pendSV' = pendSV /\ tick' = tick
  BY DEF taskVars
<1>2. \A z \in Mux : MuxServed(z)' = MuxServed(z)
  BY <1>1 DEF MuxServed
<1>3. ASSUME NEW z \in Mux, z # m PROVE MuxOK(z)' /\ UNCHANGED AbstractMux(z)!vars
  BY <1>1, <1>2, <1>3, MuxStays DEF MuxInv
<1>4. \A t \in Task : PendOK(t)'
  BY <1>1 DEF MuxInv, PendOK
<1>5. MuxInv'
  BY <1>3, <1>4 DEF MuxInv
<1>6. TaskInv' /\ WaitInv'
  BY <1>1, TasksStand
<1> QED BY <1>3, <1>5, <1>6 DEF MuxStepOK, MuxesImplemented

-----------------------------------------------------------------------------
(* The services that leave the tasks alone.                                *)

\* LOS_MuxCreate.
LEMMA MuxCreateStep ==
  ASSUME TaskInv, WaitInv, MuxInv, LOS_MuxCreate
  PROVE  MuxStepOK
<1>1. PICK m \in Mux : m = Head(unusedMux)
  BY TailProperties DEF LOS_MuxCreate, MuxInv, MuxTypeOK
<1>2. /\ unusedMux # <<>> /\ unusedMux' = Tail(unusedMux)
      /\ muxUsed' = [muxUsed EXCEPT ![m] = TRUE]
      /\ muxCount' = [muxCount EXCEPT ![m] = 0]
      /\ muxOwner' = [muxOwner EXCEPT ![m] = NoTask]
      /\ muxPriority' = [muxPriority EXCEPT ![m] = 0]
      /\ muxPended' = muxPended /\ UNCHANGED taskVars
  BY <1>1 DEF LOS_MuxCreate
<1>3. MuxTypeOK /\ Distinct(unusedMux) /\ MuxOK(m)
  BY DEF MuxInv
<1>4. /\ Tail(unusedMux) \in Seq(Mux) /\ In(m, unusedMux)
      /\ Distinct(Tail(unusedMux)) /\ ~In(m, Tail(unusedMux))
      /\ \A z \in Mux \ {m} : In(z, Tail(unusedMux)) <=> In(z, unusedMux)
  BY <1>1, <1>2, <1>3, TailProperties DEF MuxTypeOK
<1>5. ~muxUsed[m] /\ muxCount[m] = 0 /\ kern.wait[m] = <<>> /\ MuxServed(m) = {}
  BY <1>3, <1>4, OpenServesNobody DEF MuxOK
<1>6. /\ MuxTypeOK' /\ muxUsed'[m] = TRUE /\ muxCount'[m] = 0
      /\ \A z \in Mux \ {m} : SameMux(z) /\ muxPriority'[z] = muxPriority[z]
  BY <1>2, <1>3, <1>4 DEF MuxTypeOK, SameMux
<1>7. MuxServed(m)' = {} /\ kern'.wait[m] = <<>>
  BY <1>2, <1>5 DEF taskVars, MuxServed
<1>8. MuxOK(m)'
  BY <1>2, <1>4, <1>6, <1>7 DEF MuxOK
<1>9. AbstractMux(m)!Next
  BY <1>5, <1>6, <1>7, Existence
<1> QED BY <1>2, <1>4, <1>6, <1>8, <1>9, OneMuxStep

\* LOS_MuxDelete.
LEMMA MuxDeleteStep ==
  ASSUME TaskInv, WaitInv, MuxInv, NEW m \in Mux, LOS_MuxDelete(m)
  PROVE  MuxStepOK
<1>1. /\ muxUsed[m] /\ kern.wait[m] = <<>> /\ muxCount[m] = 0
      /\ unusedMux' = <<m>> \o unusedMux
      /\ muxUsed' = [muxUsed EXCEPT ![m] = FALSE]
      /\ UNCHANGED <<muxCount, muxOwner, muxPriority>>
      /\ muxPended' = muxPended /\ UNCHANGED taskVars
  BY DEF LOS_MuxDelete
<1>2. MuxTypeOK /\ Distinct(unusedMux) /\ MuxOK(m) /\ ~In(m, unusedMux)
  BY <1>1 DEF MuxInv, MuxOK
<1>3. /\ unusedMux' \in Seq(Mux) /\ Distinct(unusedMux')
      /\ \A z : In(z, unusedMux') <=> In(z, unusedMux) \/ z = m
  BY <1>1, <1>2, EndsProperties DEF MuxTypeOK
<1>4. /\ MuxTypeOK' /\ muxUsed'[m] = FALSE /\ muxCount'[m] = 0
      /\ \A z \in Mux \ {m} : SameMux(z) /\ muxPriority'[z] = muxPriority[z]
  BY <1>1, <1>2, <1>3 DEF MuxTypeOK, SameMux
<1>5. MuxServed(m) = {} /\ MuxServed(m)' = {} /\ kern'.wait[m] = <<>>
  BY <1>1, <1>2, OpenServesNobody DEF taskVars, MuxServed
<1>6. MuxOK(m)'
  BY <1>1, <1>3, <1>4, <1>5 DEF MuxOK
<1>7. AbstractMux(m)!Next
  BY <1>1, <1>4, <1>5, Existence
<1> QED BY <1>1, <1>3, <1>4, <1>6, <1>7, OneMuxStep

\* The running task locks an open mutex, or its own once more.
LEMMA MuxLockStep ==
  ASSUME TaskInv, WaitInv, MuxInv, NEW m \in Mux, MuxPendOpen(m) \/ MuxPendAgain(m)
  PROVE  MuxStepOK
<1>1. /\ Caller("task") /\ muxUsed[m] /\ muxUsed' = muxUsed
      /\ unusedMux' = unusedMux /\ muxPended' = muxPended /\ UNCHANGED taskVars
  BY DEF MuxPendOpen, MuxPendAgain, OsMuxValidCheck
<1>2. PICK r \in Task : r = kern.run
  BY <1>1, CallerFree
<1>3. /\ pc[r] = "run" /\ r \notin MuxServed(m) /\ ~In(r, kern.wait[m])
      /\ kern.priority[r] \in Prio
  BY <1>1, <1>2, CallerFree, KernelFields, MuxAssumption DEF TaskInv, Inv, KInv
<1>4. MuxTypeOK /\ MuxOK(m) /\ Distinct(unusedMux)
  BY DEF MuxInv
<1>5. /\ muxCount' = [muxCount EXCEPT ![m] = muxCount[m] + 1]
      /\ \/ /\ muxCount[m] = 0
            /\ muxOwner' = [muxOwner EXCEPT ![m] = r]
            /\ muxPriority' = [muxPriority EXCEPT ![m] = kern.priority[r]]
         \/ /\ muxCount[m] > 0 /\ muxOwner[m] = r
            /\ muxOwner' = muxOwner /\ muxPriority' = muxPriority
  BY <1>2, <1>4 DEF MuxPendOpen, MuxPendAgain, MuxTypeOK
<1>6. /\ MuxTypeOK' /\ muxCount'[m] = muxCount[m] + 1 /\ muxOwner'[m] = r
      /\ muxPriority'[m] \in Prio /\ muxCount[m] \in Nat
      /\ muxCount[m] = 0 \/ muxOwner[m] = r
      /\ \A z \in Mux \ {m} : SameMux(z) /\ muxPriority'[z] = muxPriority[z]
  <2>1. /\ muxCount' \in [Mux -> Nat] /\ muxCount'[m] = muxCount[m] + 1 /\ muxCount[m] \in Nat
        /\ \A z \in Mux \ {m} : muxCount'[z] = muxCount[z]
    BY <1>4, <1>5 DEF MuxTypeOK
  <2>2. /\ muxOwner' \in [Mux -> Task \cup {NoTask}] /\ muxPriority' \in [Mux -> Prio \cup {0}]
        /\ muxOwner'[m] = r /\ muxPriority'[m] \in Prio
        /\ muxCount[m] = 0 \/ muxOwner[m] = r
        /\ \A z \in Mux \ {m} : muxOwner'[z] = muxOwner[z] /\ muxPriority'[z] = muxPriority[z]
    <3>1. CASE /\ muxCount[m] = 0 /\ muxOwner' = [muxOwner EXCEPT ![m] = r]
               /\ muxPriority' = [muxPriority EXCEPT ![m] = kern.priority[r]]
      BY <3>1, <1>3, <1>4 DEF MuxTypeOK
    <3>2. CASE /\ muxCount[m] > 0 /\ muxOwner[m] = r
               /\ muxOwner' = muxOwner /\ muxPriority' = muxPriority
      BY <3>2, <1>4 DEF MuxTypeOK, MuxOK
    <3> QED BY <3>1, <3>2, <1>5
  <2> QED BY <2>1, <2>2, <1>1, <1>4 DEF MuxTypeOK, SameMux
<1>7. MuxServed(m)' = MuxServed(m) /\ kern'.wait[m] = kern.wait[m] /\ pc' = pc
  BY <1>1 DEF taskVars, MuxServed
<1>8. MuxOK(m)'
  <2>1. \A t \in MuxServed(m) : muxOwner'[m] = t
    BY <1>4, <1>6 DEF MuxOK
  <2> QED BY <2>1, <1>1, <1>3, <1>4, <1>6, <1>7 DEF MuxOK
<1>9. AbstractMux(m)!Next
  BY <1>1, <1>3, <1>6, <1>7, Locked
<1> QED BY <1>1, <1>4, <1>6, <1>8, <1>9, OneMuxStep

\* A post that leaves the mutex locked.
LEMMA MuxNestedStep ==
  ASSUME TaskInv, WaitInv, MuxInv, NEW m \in Mux, MuxPostNested(m)
  PROVE  MuxStepOK
<1>1. /\ Caller("task") /\ muxUsed[m] /\ muxCount[m] > 1
      /\ muxCount' = [muxCount EXCEPT ![m] = @ - 1]
      /\ UNCHANGED <<muxUsed, muxOwner, muxPriority, unusedMux>>
      /\ muxPended' = muxPended /\ UNCHANGED taskVars
  BY DEF MuxPostNested, MayPost
<1>2. PICK r \in Task : r = kern.run
  BY <1>1, CallerFree
<1>3. r \notin MuxServed(m) /\ muxOwner[m] = r
  BY <1>1, <1>2, CallerFree DEF MuxPostNested, MayPost
<1>4. MuxTypeOK /\ MuxOK(m) /\ Distinct(unusedMux)
  BY DEF MuxInv
<1>5. /\ MuxTypeOK' /\ muxCount'[m] = muxCount[m] - 1 /\ muxCount[m] \in Nat \ {0}
      /\ muxCount'[m] > 0
      /\ \A z \in Mux \ {m} : SameMux(z) /\ muxPriority'[z] = muxPriority[z]
  BY <1>1, <1>4 DEF MuxTypeOK, SameMux
<1>6. MuxServed(m)' = MuxServed(m) /\ kern'.wait[m] = kern.wait[m] /\ pc' = pc
  BY <1>1 DEF taskVars, MuxServed
<1>7. MuxOK(m)'
  BY <1>1, <1>4, <1>5, <1>6 DEF MuxOK
<1>8. AbstractMux(m)!Next
  BY <1>1, <1>3, <1>5, <1>6, Unlocked
<1> QED BY <1>1, <1>4, <1>5, <1>7, <1>8, OneMuxStep

-----------------------------------------------------------------------------
(* The services that block and wake.                                       *)

\* A task other than the ones of mutex z changes.
LEMMA OtherServed ==
  ASSUME NEW z \in Mux, NEW t, muxPended[t] # z, muxPended'[t] # z,
         \A u \in Task \ {t} : /\ muxPended'[u] = muxPended[u]
                               /\ kern'.status[u] = kern.status[u]
  PROVE  MuxServed(z)' = MuxServed(z)
BY DEF MuxServed

\* LOS_MuxPend of a mutex another task owns.
LEMMA MuxWaitStep ==
  ASSUME TaskInv, WaitInv, MuxInv, NEW m \in Mux, NEW timed \in BOOLEAN, MuxPendWait(m, timed)
  PROVE  MuxStepOK
<1>1. /\ Caller("task") /\ muxUsed[m] /\ kern.lock = 0
      /\ muxCount[m] > 0 /\ muxOwner[m] # kern.run
      /\ pc' = [pc EXCEPT ![kern.run] = "block"]
      /\ muxPended' = [muxPended EXCEPT ![kern.run] = m]
      /\ UNCHANGED <<muxUsed, muxCount, muxOwner, muxPriority, unusedMux>>
      /\ child' = child /\ pendSV' = pendSV /\ tick' = tick
  BY DEF MuxPendWait, OsMuxValidCheck
<1>2. m \in WaitObj
  BY MuxAssumption
<1>3. PICK r \in Task : r = kern.run
  BY <1>1, CallerFree
<1>4. /\ pc[r] = "run" /\ muxPended[r] = NoMux /\ r \notin MuxServed(m)
      /\ \A o \in WaitObj : ~In(r, kern.wait[o])
  BY <1>1, <1>3, CallerFree
<1>5. /\ MuxTypeOK /\ MuxOK(m) /\ Distinct(unusedMux)
      /\ KInv(kern) /\ ListsOK(kern) /\ Life(kern, pc, child) /\ kern.priority \in [Task -> Prio]
      /\ kern.wait \in [WaitObj -> Seq(Task)] /\ pc \in [TCB -> PC] /\ r \in TCB /\ ~kern.halted
  BY <1>1, TCBs, KernelFields DEF MuxInv, TaskInv, Inv, KInv, WaitInv, Caller, Running
<1>6. PICK k : /\ Repriced(kern, k)
               /\ kern' = Committed(kern, OsSchedTaskWait(k, m, timed))
  <2>1. PICK k : k = IF kern.priority[muxOwner[m]] > kern.priority[kern.run]
                     THEN OsSchedModifyTaskSchedParam(kern, muxOwner[m], kern.priority[kern.run])
                     ELSE kern
    OBVIOUS
  <2>2. muxOwner[m] \in Task /\ ~Has(kern, muxOwner[m], "UNUSED")
    BY <1>1, <1>5 DEF MuxOK, Life
  <2>3. kern.priority[kern.run] \in Prio
    BY <1>3, <1>5
  <2>4. Repriced(kern, k)
    BY <2>1, <2>2, <2>3, <1>5, RepricedBy
  <2> QED BY <2>1, <2>4 DEF MuxPendWait
<1>7. kern' = OsSchedTaskWait(k, m, timed)
  <2>1. k \in Kernel /\ ~k.halted
    BY <1>5, <1>6 DEF Repriced, KInv
  <2>2. OsSchedTaskWait(k, m, timed).halted = k.halted
    BY <2>1 DEF OsSchedTaskWait, SetFlag, Kernel
  <2> QED BY <1>6, <2>1, <2>2 DEF Committed
<1>8. /\ TaskInv' /\ WaitInv' /\ Preempts'
      /\ kern'.wait = [kern.wait EXCEPT ![m] = Append(@, kern.run)]
      /\ kern'.priority = k.priority /\ kern'.run = kern.run
      /\ Has(kern', kern.run, "PEND") /\ ~Has(kern, kern.run, "PEND")
      /\ \A u \in TCB \ {kern.run} : kern'.status[u] = kern.status[u]
  <2>1. Caller("task") /\ kern.lock = 0 /\ Repriced(kern, k) /\ pc' = [pc EXCEPT ![kern.run] = "block"]
        /\ child' = child /\ pendSV' = pendSV /\ tick' = tick
    BY <1>1, <1>6
  <2> QED BY <2>1, <1>2, <1>7, WaitStep
<1>9. /\ muxPended'[r] = m /\ muxPended' \in [Task -> Mux \cup {NoMux}]
      /\ \A u \in Task \ {r} : muxPended'[u] = muxPended[u]
  BY <1>1, <1>3, <1>5 DEF MuxTypeOK
<1>10. /\ kern'.wait[m] = Append(kern.wait[m], r)
       /\ \A o \in WaitObj \ {m} : kern'.wait[o] = kern.wait[o]
       /\ \A u : In(u, kern'.wait[m]) <=> In(u, kern.wait[m]) \/ u = r
  <2> DEFINE q == kern.wait[m]
  <2>1. q \in Seq(Task) /\ kern'.wait[m] = Append(q, r)
    BY <1>2, <1>3, <1>5, <1>8
  <2>2. \A o \in WaitObj \ {m} : kern'.wait[o] = kern.wait[o]
    BY <1>5, <1>8
  <2> HIDE DEF q
  <2>3. \A u : In(u, Append(q, r)) <=> In(u, q) \/ u = r
    BY <2>1, EndsProperties
  <2> QED BY <2>1, <2>2, <2>3 DEF q
<1>11. \A u \in Task \ {r} : /\ muxPended'[u] = muxPended[u] /\ pc'[u] = pc[u]
                             /\ kern'.status[u] = kern.status[u]
  BY <1>1, <1>3, <1>5, <1>8, <1>9, TCBs
<1>12. /\ Has(kern', r, "PEND") /\ ~Has(kern, r, "PEND") /\ pc'[r] = "block"
  BY <1>1, <1>3, <1>5, <1>8
<1>13. MuxServed(m)' = MuxServed(m)
  <2>1. r \notin MuxServed(m)'
    BY <1>12 DEF MuxServed, Has
  <2> QED BY <2>1, <1>4, <1>11 DEF MuxServed
<1>14. \A z \in Mux : SameMux(z) /\ muxPriority'[z] = muxPriority[z]
  BY <1>1 DEF SameMux
<1>15. MuxOK(m)'
  BY <1>1, <1>3, <1>5, <1>11, <1>13 DEF MuxOK
<1>16. AbstractMux(m)!Next
  <2>1. muxOwner[m] \in Task /\ NoTask \notin Task
    BY <1>1, <1>5 DEF MuxOK, NoTask, Task
  <2> QED BY <2>1, <1>1, <1>2, <1>3, <1>4, <1>10, <1>13, <1>14, MuxWaiterCame
<1>17. ASSUME NEW z \in Mux, z # m PROVE MuxOK(z)' /\ UNCHANGED AbstractMux(z)!vars
  <2>1. kern'.wait[z] = kern.wait[z]
    BY <1>10, <1>17, MuxAssumption
  <2>2. MuxServed(z)' = MuxServed(z)
    BY <1>4, <1>9, <1>11, <1>17, NoMuxAssumption, OtherServed
  <2>3. \A u \in Task : pc[u] # "none" => pc'[u] # "none"
    BY <1>11, <1>12
  <2> QED BY <2>1, <2>2, <2>3, <1>1, <1>14, MuxStays DEF MuxInv
<1>18. ASSUME NEW t \in Task PROVE PendOK(t)'
  <2>1. CASE t = r
    BY <2>1, <1>4, <1>9, <1>10, <1>12 DEF PendOK
  <2>2. CASE t # r
    <3>1. \A o \in WaitObj : In(t, kern'.wait[o]) => In(t, kern.wait[o])
      BY <2>2, <1>10
    <3> QED BY <2>2, <3>1, <1>11 DEF MuxInv, PendOK
  <2> QED BY <2>1, <2>2
<1>19. MuxInv'
  <2>1. MuxTypeOK'
    BY <1>1, <1>5, <1>9 DEF MuxTypeOK
  <2> QED BY <2>1, <1>1, <1>5, <1>15, <1>17, <1>18 DEF MuxInv
<1> QED BY <1>8, <1>16, <1>17, <1>19 DEF MuxStepOK, MuxesImplemented

\* The end of that LOS_MuxPend.
LEMMA MuxReturnStep ==
  ASSUME TaskInv, WaitInv, MuxInv, MuxPendReturn
  PROVE  MuxStepOK
<1>1. /\ kern.run \in Task /\ Running("wait") /\ muxPended[kern.run] # NoMux
      /\ kern' = ClearFlag(kern, kern.run, {"TIMEOUT"}) /\ pc' = [pc EXCEPT ![kern.run] = "run"]
      /\ muxPended' = [muxPended EXCEPT ![kern.run] = NoMux]
      /\ UNCHANGED <<muxUsed, muxCount, muxOwner, muxPriority, unusedMux>>
      /\ child' = child /\ pendSV' = pendSV /\ tick' = tick
  BY DEF MuxPendReturn
<1>2. /\ TaskInv' /\ WaitInv' /\ kern'.wait = kern.wait /\ ~Has(kern, kern.run, "PEND")
      /\ \A u \in TCB \ {kern.run} : kern'.status[u] = kern.status[u]
  BY <1>1, ReturnStep
<1>3. PICK r \in Task : r = kern.run
  BY <1>1
<1>4. /\ pc \in [TCB -> PC] /\ r \in TCB /\ ListsOK(kern) /\ MuxTypeOK /\ Distinct(unusedMux)
  BY TCBs DEF TaskInv, Inv, WaitInv, MuxInv
<1>5. PICK m \in Mux : m = muxPended[r]
  BY <1>1, <1>3, <1>4 DEF MuxTypeOK
<1>6. /\ muxPended'[r] = NoMux /\ muxPended' \in [Task -> Mux \cup {NoMux}] /\ pc'[r] = "run"
      /\ \A u \in Task \ {r} : /\ muxPended'[u] = muxPended[u] /\ pc'[u] = pc[u]
                               /\ kern'.status[u] = kern.status[u]
  BY <1>1, <1>2, <1>3, <1>4, TCBs DEF MuxTypeOK
<1>7. \A o \in WaitObj : ~In(r, kern.wait[o])
  BY <1>2, <1>3, <1>4 DEF ListsOK, TaskOK
<1>8. ASSUME NEW t \in Task PROVE PendOK(t)'
  <2>1. CASE t = r
    BY <2>1, <1>2, <1>6, <1>7 DEF PendOK
  <2>2. CASE t # r
    BY <2>2, <1>2, <1>6 DEF MuxInv, PendOK
  <2> QED BY <2>1, <2>2
<1>9. \A z \in Mux : SameMux(z) /\ muxPriority'[z] = muxPriority[z] /\ kern'.wait[z] = kern.wait[z]
  BY <1>1, <1>2 DEF SameMux
<1>10. \A u \in Task : pc[u] # "none" => pc'[u] # "none"
  BY <1>6
<1>11. MuxServed(m)' = MuxServed(m) \ {r} /\ MuxOK(m)
  BY <1>6, NoMuxAssumption DEF MuxServed, MuxInv
<1>12. MuxOK(m)' /\ (AbstractMux(m)!Next \/ UNCHANGED AbstractMux(m)!vars)
  <2>1. CASE r \in MuxServed(m)
    <3>1. muxCount[m] > 0 /\ muxOwner[m] = r
      BY <2>1, <1>11 DEF MuxOK
    <3>2. AbstractMux(m)!Next
      BY <2>1, <3>1, <1>9, <1>11, OwnerReturns
    <3>3. MuxOK(m)'
      BY <1>1, <1>9, <1>10, <1>11 DEF MuxOK, SameMux
    <3> QED BY <3>2, <3>3
  <2>2. CASE r \notin MuxServed(m)
    <3>1. MuxServed(m)' = MuxServed(m)
      BY <2>2, <1>11
    <3> QED BY <3>1, <1>1, <1>9, <1>10, <1>11, MuxStays
  <2> QED BY <2>1, <2>2
<1>13. ASSUME NEW z \in Mux, z # m PROVE MuxOK(z)' /\ UNCHANGED AbstractMux(z)!vars
  <2>1. MuxServed(z)' = MuxServed(z)
    BY <1>5, <1>6, <1>13, NoMuxAssumption, OtherServed
  <2> QED BY <2>1, <1>1, <1>9, <1>10, MuxStays DEF MuxInv
<1>14. MuxInv'
  <2>1. MuxTypeOK'
    BY <1>1, <1>4, <1>6 DEF MuxTypeOK
  <2> QED BY <2>1, <1>1, <1>4, <1>8, <1>12, <1>13 DEF MuxInv
<1> QED BY <1>2, <1>12, <1>13, <1>14 DEF MuxStepOK, MuxesImplemented

\* The priority the owner gets back.
LEMMA RestoredRepriced ==
  ASSUME TaskInv, WaitInv, MuxInv, NEW m \in Mux, muxCount[m] > 0
  PROVE  Repriced(kern, PriorityRestored(m))
<1>1. KInv(kern) /\ ListsOK(kern) /\ Life(kern, pc, child) /\ MuxOK(m)
  BY DEF TaskInv, Inv, WaitInv, MuxInv
<1>2. muxOwner[m] \in Task /\ ~Has(kern, muxOwner[m], "UNUSED") /\ muxPriority[m] \in Prio
  BY <1>1 DEF MuxOK, Life
<1> QED BY <1>1, <1>2, RepricedBy DEF PriorityRestored

\* The last post without a waiter.
LEMMA MuxOpenStep ==
  ASSUME TaskInv, WaitInv, MuxInv, NEW m \in Mux, MuxPostOpen(m)
  PROVE  MuxStepOK
<1>1. /\ Caller("task") /\ muxUsed[m] /\ muxCount[m] = 1 /\ muxOwner[m] = kern.run
      /\ kern.wait[m] = <<>> /\ muxCount' = [muxCount EXCEPT ![m] = 0]
      /\ Finish("task", PriorityRestored(m), FALSE)
      /\ UNCHANGED <<muxUsed, muxOwner, muxPriority, unusedMux>> /\ muxPended' = muxPended
      /\ child' = child /\ tick' = tick /\ "task" \in Context
  BY DEF MuxPostOpen, MayPost, Context
<1>2. PICK k : k = PriorityRestored(m)
  OBVIOUS
<1>3. Repriced(kern, k) /\ Finish("task", k, FALSE)
  <2>1. Repriced(kern, k)
    BY <1>1, <1>2, RestoredRepriced
  <2>2. Finish("task", k, FALSE)
    BY <1>1, <1>2 DEF Finish
  <2> QED BY <2>1, <2>2
<1>4. TaskInv' /\ WaitInv' /\ kern' = k
  BY <1>1, <1>3, RepriceStep DEF Serves
<1>5. kern'.wait = kern.wait /\ \A u \in TCB : kern'.status[u] = kern.status[u]
  BY <1>3, <1>4 DEF Repriced, SameWaits
<1>6. PICK r \in Task : r = kern.run
  BY <1>1, CallerFree
<1>7. pc[r] = "run" /\ r \notin MuxServed(m) /\ pc \in [TCB -> PC]
  BY <1>1, <1>6, CallerFree DEF TaskInv, Inv
<1>8. pc' = [pc EXCEPT ![r] = "run"]
  BY <1>1, <1>6 DEF Finish
<1>9. \A u \in Task : pc'[u] = pc[u]
  BY <1>7, <1>8, TCBs
<1>10. \A z \in Mux : MuxServed(z)' = MuxServed(z) /\ kern'.wait[z] = kern.wait[z]
  BY <1>1, <1>5, TCBs DEF MuxServed
<1>11. MuxTypeOK /\ Distinct(unusedMux) /\ MuxOK(m)
  BY DEF MuxInv
<1>12. /\ MuxTypeOK' /\ muxCount'[m] = 0
       /\ \A z \in Mux \ {m} : SameMux(z) /\ muxPriority'[z] = muxPriority[z]
  BY <1>1, <1>11 DEF MuxTypeOK, SameMux
<1>13. MuxServed(m) = {}
  <2>1. \A t \in MuxServed(m) : t = r
    BY <1>1, <1>6, <1>11 DEF MuxOK
  <2> QED BY <2>1, <1>7
<1>14. MuxOK(m)'
  BY <1>1, <1>10, <1>11, <1>12, <1>13 DEF MuxOK
<1>15. AbstractMux(m)!Next
  BY <1>1, <1>6, <1>7, <1>10, <1>12, Unlocked
<1>16. ASSUME NEW z \in Mux, z # m PROVE MuxOK(z)' /\ UNCHANGED AbstractMux(z)!vars
  BY <1>1, <1>9, <1>10, <1>12, <1>16, MuxStays DEF MuxInv
<1>17. \A t \in Task : PendOK(t)'
  BY <1>1, <1>5, <1>9 DEF MuxInv, PendOK
<1>18. MuxInv'
  BY <1>1, <1>11, <1>12, <1>14, <1>16, <1>17 DEF MuxInv
<1> QED BY <1>4, <1>15, <1>16, <1>18 DEF MuxStepOK, MuxesImplemented

\* The last post with a waiter: the first one owns the mutex now.
LEMMA MuxHandOverStep ==
  ASSUME TaskInv, WaitInv, MuxInv, NEW m \in Mux, MuxPostHandOver(m)
  PROVE  MuxStepOK
<1>1. /\ Caller("task") /\ muxUsed[m] /\ muxCount[m] = 1 /\ muxOwner[m] = kern.run
      /\ kern.wait[m] # <<>>
      /\ muxOwner' = [muxOwner EXCEPT ![m] = Head(kern.wait[m])]
      /\ muxPriority' = [muxPriority EXCEPT ![m] = kern.priority[Head(kern.wait[m])]]
      /\ Finish("task", OsSchedTaskWake(PriorityRestored(m), Head(kern.wait[m])), TRUE)
      /\ UNCHANGED <<muxUsed, muxCount, unusedMux>> /\ muxPended' = muxPended
      /\ child' = child /\ tick' = tick /\ "task" \in Context
  BY DEF MuxPostHandOver, MayPost, Context
<1>2. /\ m \in WaitObj /\ kern.wait \in [WaitObj -> Seq(Task)] /\ ListsOK(kern)
      /\ Distinct(kern.wait[m]) /\ kern.priority \in [Task -> Prio]
      /\ MuxTypeOK /\ Distinct(unusedMux) /\ MuxOK(m)
  BY MuxAssumption, KernelFields DEF TaskInv, Inv, KInv, WaitInv, ListsOK, MuxInv
<1>3. PICK t \in Task : t = Head(kern.wait[m])
  BY <1>1, <1>2, TailProperties
<1>4. /\ In(t, kern.wait[m])
      /\ \A o \in WaitObj : In(t, kern.wait[o]) => o = m
      /\ Has(kern, t, "PEND") /\ ~Has(kern, t, "TIMEOUT") /\ muxPended[t] = m
      /\ pc[t] \in {"block", "wait"}
  <2>1. In(t, kern.wait[m])
    BY <1>1, <1>2, <1>3, TailProperties
  <2>2. TaskOK(kern, t)
    BY <1>2, TCBs DEF ListsOK
  <2>3. Has(kern, t, "PEND")
    BY <2>1, <2>2, <1>2 DEF TaskOK
  <2>4. pc[t] \in {"block", "wait"}
    BY <2>3 DEF WaitInv, Places
  <2> QED BY <2>1, <2>2, <2>3, <2>4, <1>2 DEF TaskOK, MuxInv, PendOK
<1>5. /\ TaskInv' /\ WaitInv' /\ kern'.wait = Unlink(kern.wait, t)
      /\ ~Has(kern', t, "PEND") /\ ~Has(kern', t, "TIMEOUT")
      /\ \A u \in TCB \ {t} : kern'.status[u] = kern.status[u]
      /\ \A u \in Task : /\ pc'[u] = "none" <=> pc[u] = "none"
                         /\ pc'[u] \in {"block", "wait"} <=> pc[u] \in {"block", "wait"}
  <2>1. PICK k : k = PriorityRestored(m)
    OBVIOUS
  <2>2. Repriced(kern, k)
    BY <2>1, <1>1, RestoredRepriced
  <2>3. Finish("task", OsSchedTaskWake(k, t), TRUE)
    BY <1>1, <1>3, <2>1
  <2> QED BY <2>2, <2>3, <1>1, <1>4, WakeStep DEF Serves
<1>6. \A u \in Task \ {t} : kern'.status[u] = kern.status[u]
  BY <1>5, TCBs
<1>7. /\ kern'.wait[m] = Tail(kern.wait[m])
      /\ \A o \in WaitObj \ {m} : kern'.wait[o] = kern.wait[o]
      /\ \A u \in Task : \A o \in WaitObj : In(u, kern'.wait[o]) => In(u, kern.wait[o])
  <2>1. \A o \in WaitObj : kern'.wait[o] = Without(kern.wait[o], t)
    BY <1>2, <1>5 DEF Unlink
  <2>2. kern'.wait[m] = Tail(kern.wait[m])
    BY <2>1, <1>1, <1>2, <1>3, WithoutHead
  <2>3. \A o \in WaitObj \ {m} : kern'.wait[o] = kern.wait[o]
    BY <2>1, <1>4, WithoutAbsent
  <2>4. \A u : In(u, Tail(kern.wait[m])) => In(u, kern.wait[m])
    BY <1>1, <1>2, TailProperties
  <2> QED BY <2>2, <2>3, <2>4
<1>8. PICK r \in Task : r = kern.run
  BY <1>1, CallerFree
<1>9. r \notin MuxServed(m)
  BY <1>1, <1>8, CallerFree
<1>10. MuxServed(m)' = MuxServed(m) \cup {t}
  <2>1. t \in MuxServed(m)'
    BY <1>1, <1>4, <1>5 DEF MuxServed, Has
  <2>2. \A u \in Task \ {t} : u \in MuxServed(m)' <=> u \in MuxServed(m)
    BY <1>1, <1>6 DEF MuxServed
  <2> QED BY <2>1, <2>2 DEF MuxServed
<1>11. MuxServed(m) = {}
  <2>1. \A u \in MuxServed(m) : u = r
    BY <1>1, <1>2, <1>8 DEF MuxOK
  <2> QED BY <2>1, <1>9
<1>12. /\ MuxTypeOK' /\ muxOwner'[m] = t /\ muxPriority'[m] \in Prio
       /\ \A z \in Mux \ {m} : SameMux(z) /\ muxPriority'[z] = muxPriority[z]
  BY <1>1, <1>2, <1>3 DEF MuxTypeOK, SameMux
<1>13. MuxOK(m)'
  BY <1>1, <1>2, <1>4, <1>5, <1>10, <1>11, <1>12 DEF MuxOK
<1>14. AbstractMux(m)!Next
  BY <1>1, <1>3, <1>7, <1>8, <1>9, <1>10, <1>12, HandedOver
<1>15. ASSUME NEW z \in Mux, z # m PROVE MuxOK(z)' /\ UNCHANGED AbstractMux(z)!vars
  <2>1. MuxServed(z)' = MuxServed(z)
    BY <1>1, <1>4, <1>6, <1>15, OtherServed
  <2>2. kern'.wait[z] = kern.wait[z]
    BY <1>7, <1>15, MuxAssumption
  <2> QED BY <2>1, <2>2, <1>1, <1>5, <1>12, <1>15, MuxStays DEF MuxInv
<1>16. \A u \in Task : PendOK(u)'
  BY <1>1, <1>5, <1>7 DEF MuxInv, PendOK
<1>17. MuxInv'
  BY <1>1, <1>2, <1>12, <1>13, <1>15, <1>16 DEF MuxInv
<1> QED BY <1>5, <1>14, <1>15, <1>17 DEF MuxStepOK, MuxesImplemented

-----------------------------------------------------------------------------
(* The initial states and the steps of task management.                    *)

\* At first every mutex is deleted and in the pool.
LEMMA MuxInitInv ==
  ASSUME TaskInit, MuxInit
  PROVE  MuxInv /\ \A m \in Mux : AbstractMux(m)!Init
<1>1. \A o \in WaitObj : kern.wait[o] = <<>>
  BY DEF TaskInit
<1>2. /\ muxUsed = [m \in Mux |-> FALSE] /\ muxCount = [m \in Mux |-> 0]
      /\ muxOwner = [m \in Mux |-> NoTask] /\ muxPriority = [m \in Mux |-> 0]
      /\ muxPended = [t \in Task |-> NoMux]
      /\ unusedMux \in [1..Cardinality(Mux) -> Mux] /\ Distinct(unusedMux)
  BY DEF MuxInit
<1>3. unusedMux \in Seq(Mux) /\ \A m \in Mux : In(m, unusedMux)
  BY <1>2, MuxAssumption, PoolIsFull
<1>4. \A t : ~In(t, <<>>)
  BY DEF In
<1>5. MuxTypeOK
  BY <1>2, <1>3 DEF MuxTypeOK
<1>6. \A m \in Mux : MuxServed(m) = {}
  BY <1>2, NoMuxAssumption DEF MuxServed
<1>7. \A m \in Mux : MuxOK(m)
  BY <1>1, <1>2, <1>3, <1>6, MuxAssumption DEF MuxOK
<1>8. \A t \in Task : PendOK(t)
  BY <1>1, <1>2, <1>4 DEF PendOK
<1>9. ASSUME NEW m \in Mux PROVE AbstractMux(m)!Init
  <2>1. kern.wait[m] = <<>> /\ muxUsed[m] = FALSE /\ muxCount[m] = 0
    BY <1>1, <1>2, MuxAssumption
  <2> QED BY <2>1, <1>6 DEF AbstractMux!Init
<1> QED BY <1>2, <1>5, <1>7, <1>8, <1>9 DEF MuxInv

\* A waiter of m leaves, or nothing happens: who has been served is the owner
\* and is not deleted.
LEMMA MuxTaskStepIsAbstract ==
  ASSUME TaskInv, WaitInv, MuxInv, NEW m \in Mux, SameMux(m),
         muxPriority' = muxPriority, unusedMux' = unusedMux,
         Waits(kern, pc, kern', pc'),
         Owns(muxOwner[m], m) => pc'[muxOwner[m]] # "none",
         muxPended' = [t \in Task |-> IF pc'[t] = "none" THEN NoMux ELSE muxPended[t]]
  PROVE  MuxOK(m)' /\ (AbstractMux(m)!Next \/ UNCHANGED AbstractMux(m)!vars)
<1>1. PICK t \in Task \cup {NoTask} :
        /\ \A u \in Task \ {t} : /\ Has(kern', u, "PEND") <=> Has(kern, u, "PEND")
                                 /\ Has(kern', u, "TIMEOUT") <=> Has(kern, u, "TIMEOUT")
                                 /\ pc'[u] = "none" => pc[u] = "none"
        /\ t = NoTask => kern'.wait = kern.wait
        /\ t # NoTask => /\ kern'.wait = Unlink(kern.wait, t) /\ ~Has(kern', t, "PEND")
                         /\ pc'[t] = "none" \/ (Has(kern, t, "PEND") /\ Has(kern', t, "TIMEOUT"))
  BY DEF Waits
<1>2. /\ m \in WaitObj /\ kern.wait \in [WaitObj -> Seq(Task)] /\ ListsOK(kern)
      /\ MuxOK(m) /\ MuxTypeOK
  BY MuxAssumption, KernelFields DEF TaskInv, Inv, KInv, WaitInv, MuxInv
<1>3. \A u \in Task \ {t} : muxPended'[u] = muxPended[u]
  BY <1>1 DEF MuxInv, PendOK
<1>4. \A u \in Task \ {t} : u \in MuxServed(m)' <=> u \in MuxServed(m)
  BY <1>1, <1>3 DEF MuxServed, Has
<1>5. muxCount[m] > 0 => muxUsed[m]
  BY <1>2 DEF MuxOK
<1>6. \A u \in MuxServed(m) : u \in Task /\ pc'[u] # "none"
  <2>1. \A u \in MuxServed(m) : muxCount[m] > 0 /\ muxOwner[m] = u
    BY <1>2 DEF MuxOK
  <2> QED BY <2>1, <1>5 DEF Owns, MuxServed
<1>7. MuxServed(m)' = MuxServed(m)
  <2>1. CASE t = NoTask
    BY <2>1, <1>4 DEF MuxServed, Task, NoTask
  <2>2. CASE t # NoTask
    <3>1. t \in Task
      BY <1>1, <2>2
    <3>2. t \notin MuxServed(m)
      BY <1>1, <1>6, <2>2 DEF MuxServed, Has
    <3>3. t \notin MuxServed(m)'
      BY <1>1, <2>2, <3>1, NoMuxAssumption DEF MuxServed, Has
    <3> QED BY <3>2, <3>3, <1>4 DEF MuxServed
  <2> QED BY <2>1, <2>2
<1>8. kern.wait[m] = <<>> => kern'.wait[m] = <<>>
  <2>1. CASE t = NoTask
    BY <2>1, <1>1
  <2>2. CASE t # NoTask
    BY <2>2, <1>1, <1>2, WithoutAbsent DEF Unlink, In
  <2> QED BY <2>1, <2>2
<1>9. MuxOK(m)'
  BY <1>2, <1>5, <1>7, <1>8 DEF MuxOK, SameMux, Owns
<1>10. AbstractMux(m)!Next \/ UNCHANGED AbstractMux(m)!vars
  <2>1. CASE t = NoTask
    BY <2>1, <1>1, <1>7, MuxNothingHappens
  <2>2. CASE t # NoTask
    <3>1. t \in Task /\ kern'.wait[m] = Without(kern.wait[m], t)
      BY <1>1, <1>2, <2>2 DEF Unlink
    <3>2. CASE In(t, kern.wait[m])
      BY <3>1, <3>2, <1>7, MuxWaiterLeaves
    <3>3. CASE ~In(t, kern.wait[m])
      <4>1. kern'.wait[m] = kern.wait[m]
        BY <3>1, <3>3, WithoutAbsent
      <4> QED BY <4>1, <1>7, MuxNothingHappens
    <3> QED BY <3>2, <3>3
  <2> QED BY <2>1, <2>2
<1> QED BY <1>9, <1>10

\* The tasks in LOS_MuxPend after a step of task management.
LEMMA TaskStepPends ==
  ASSUME TaskInv, WaitInv, WaitInv', MuxInv, Waits(kern, pc, kern', pc'),
         muxPended' = [t \in Task |-> IF pc'[t] = "none" THEN NoMux ELSE muxPended[t]],
         NEW u \in Task
  PROVE  PendOK(u)'
<1>1. kern.wait \in [WaitObj -> Seq(Task)] /\ PendOK(u)
  BY KernelFields DEF TaskInv, Inv, KInv, MuxInv
<1>2. PICK t \in Task \cup {NoTask} :
        kern'.wait = IF t = NoTask THEN kern.wait ELSE Unlink(kern.wait, t)
  BY DEF Waits
<1>3. \A o \in WaitObj : In(u, kern'.wait[o]) => In(u, kern.wait[o])
  <2>1. CASE t = NoTask
    BY <1>2, <2>1
  <2>2. CASE t # NoTask
    <3>1. ASSUME NEW o \in WaitObj, In(u, kern'.wait[o]) PROVE In(u, kern.wait[o])
      <4>1. kern'.wait[o] = Without(kern.wait[o], t) /\ Distinct(kern.wait[o])
        BY <1>1, <1>2, <2>2 DEF Unlink, WaitInv, ListsOK
      <4> QED BY <4>1, <3>1, <1>1, WithoutProperties
    <3> QED BY <3>1
  <2> QED BY <2>1, <2>2
<1>4. ASSUME NEW o \in WaitObj, In(u, kern'.wait[o]) PROVE o \in Mux /\ muxPended'[u] = o
  <2>1. o \in Mux /\ muxPended[u] = o
    BY <1>1, <1>3, <1>4 DEF PendOK
  <2>2. Has(kern', u, "PEND")
    BY <1>4, TCBs DEF WaitInv, ListsOK, TaskOK
  <2>3. pc'[u] # "none"
    BY <2>2 DEF WaitInv, Places
  <2> QED BY <2>1, <2>3
<1>5. muxPended'[u] # NoMux => pc'[u] \in {"block", "wait"}
  BY <1>1 DEF PendOK, Waits
<1> QED BY <1>4, <1>5 DEF PendOK

\* A step of task management.
LEMMA MuxTaskStepOK ==
  ASSUME TaskInv, WaitInv, MuxInv, MuxTaskStep
  PROVE  MuxStepOK
<1>1. /\ [TaskNext]_taskVars /\ \A m \in Mux : Owns(muxOwner[m], m) => pc'[muxOwner[m]] # "none"
      /\ muxPended' = [t \in Task |-> IF pc'[t] = "none" THEN NoMux ELSE muxPended[t]]
      /\ UNCHANGED <<muxUsed, muxCount, muxOwner, muxPriority, unusedMux>>
  BY DEF MuxTaskStep
<1>2. TaskInv' /\ WaitInv' /\ Waits(kern, pc, kern', pc')
  BY <1>1, NextInv, NextStep DEF TaskStepOK
<1>3. ASSUME NEW m \in Mux
      PROVE  MuxOK(m)' /\ (AbstractMux(m)!Next \/ UNCHANGED AbstractMux(m)!vars)
  <2>1. SameMux(m)
    BY <1>1 DEF SameMux
  <2> QED BY <2>1, <1>1, <1>2, MuxTaskStepIsAbstract
<1>4. \A u \in Task : PendOK(u)'
  BY <1>1, <1>2, TaskStepPends
<1>5. MuxTypeOK' /\ Distinct(unusedMux)'
  BY <1>1 DEF MuxInv, MuxTypeOK
<1> QED BY <1>2, <1>3, <1>4, <1>5 DEF MuxStepOK, MuxInv, MuxesImplemented

-----------------------------------------------------------------------------
(* The specification.                                                      *)

\* Every step keeps the invariants and is a step of the abstract mutexes.
LEMMA MuxNextStep ==
  ASSUME TaskInv, WaitInv, MuxInv, [MuxNext]_muxAll
  PROVE  MuxStepOK
<1>1. CASE UNCHANGED muxAll
  <2>1. /\ UNCHANGED <<kern, pc, child, pendSV, tick>>
        /\ UNCHANGED <<muxUsed, muxCount, muxOwner, muxPriority, unusedMux, muxPended>>
    BY <1>1 DEF muxAll
  <2>2. MuxInv'
    BY <2>1 DEF MuxInv, MuxTypeOK, MuxOK, PendOK, MuxServed
  <2>3. \A m \in Mux : UNCHANGED AbstractMux(m)!vars
    <3>1. \A m \in Mux : MuxServed(m)' = MuxServed(m) /\ SameMux(m)
      BY <2>1 DEF MuxServed, SameMux
    <3> QED BY <2>1, <3>1, MuxNothingHappens
  <2> QED BY <2>1, <2>2, <2>3, TasksStand DEF MuxStepOK, MuxesImplemented
<1>2. CASE MuxTaskStep
  BY <1>2, MuxTaskStepOK
<1>3. CASE LOS_MuxCreate \/ MuxPendReturn
  BY <1>3, MuxCreateStep, MuxReturnStep
<1>4. ASSUME NEW m \in Mux, LOS_MuxDelete(m) PROVE MuxStepOK
  BY <1>4, MuxDeleteStep
<1>5. ASSUME NEW m \in Mux, MuxPendOpen(m) \/ MuxPendAgain(m) PROVE MuxStepOK
  BY <1>5, MuxLockStep
<1>6. ASSUME NEW m \in Mux, NEW timed \in BOOLEAN, MuxPendWait(m, timed) PROVE MuxStepOK
  BY <1>6, MuxWaitStep
<1>7. ASSUME NEW m \in Mux, MuxPostNested(m) \/ MuxPostOpen(m) \/ MuxPostHandOver(m)
      PROVE  MuxStepOK
  BY <1>7, MuxNestedStep, MuxOpenStep, MuxHandOverStep
<1> QED BY <1>1, <1>2, <1>3, <1>4, <1>5, <1>6, <1>7 DEF MuxNext, MuxService

\* The invariants hold, and every step is what it should be.
LEMMA MuxesHold ==
  /\ MuxSpec => [](TaskInv /\ WaitInv /\ MuxInv)
  /\ MuxSpec => [][MuxStepOK]_muxAll
<1>1. TaskInit /\ MuxInit => TaskInv /\ WaitInv /\ MuxInv
  BY InitInv, InitWaits, MuxInitInv
<1>2. TaskInv /\ WaitInv /\ MuxInv /\ [MuxNext]_muxAll => MuxStepOK
  BY MuxNextStep
<1>3. MuxStepOK => (TaskInv /\ WaitInv /\ MuxInv)'
  BY DEF MuxStepOK
<1> QED BY <1>1, <1>2, <1>3, PTL DEF MuxSpec

\* A task is on a wait list exactly when its status says PEND, on one list and
\* once, although LOS_MuxPend and LOS_MuxPost also change priorities and move
\* tasks between ready queues.
THEOREM MuxWaitListsAgree == MuxSpec => []WaitListsAgree
<1>1. WaitInv => WaitListsAgree
  BY TCBs DEF WaitInv, ListsOK, TaskOK, WaitListsAgree
<1> QED BY <1>1, MuxesHold, PTL

\* The TIMEOUT flag a LOS_MuxPend looks at is its own (los_mux.c).
THEOREM MuxNoStaleTimeout == MuxSpec => []NoStaleTimeout
<1>1. WaitInv => NoStaleTimeout
  BY DEF WaitInv, Places, NoStaleTimeout
<1> QED BY <1>1, MuxesHold, PTL

\* g_unusedMuxList holds exactly the mutexes not in use, each once, and those
\* are open and without waiters (LOS_MuxCreate, LOS_MuxDelete).
THEOREM MuxPoolAlwaysAgrees == MuxSpec => []MuxPoolAgrees
<1>1. MuxInv => MuxPoolAgrees
  BY DEF MuxInv, MuxOK, MuxPoolAgrees
<1> QED BY <1>1, MuxesHold, PTL

\* Every mutex of the kernel behaves as the module Mutex promises: it has one
\* owner at a time, goes to the waiter that came first, and a LOS_MuxPend that
\* reports no timeout returns to the owner (los_mux.c as a whole).
THEOREM MutexesImplemented == MuxSpec => ImplementsMutex
<1>1. TaskInit /\ MuxInit => \A m \in Mux : AbstractMux(m)!Init
  BY MuxInitInv
<1>2. [MuxStepOK]_muxAll
        => [\A m \in Mux : UNCHANGED AbstractMux(m)!vars \/ AbstractMux(m)!Next]_muxAll
  BY DEF MuxStepOK, MuxesImplemented
<1> QED BY <1>1, <1>2, MuxesHold, PTL DEF MuxSpec, ImplementsMutex

-----------------------------------------------------------------------------
(* Priorities, for an application that keeps to LendingNext.               *)

\* Whoever waits for a mutex owns none; who owns one has its own priority saved
\* in it, and everybody else has it.
PriorityInv ==
  /\ \A t \in Task : \A m, n \in Mux : Owns(t, m) /\ Owns(t, n) => m = n
  /\ \A t \in Task : \A m \in Mux : In(t, kern.wait[m]) => OwnsNone(t)
  /\ \A t \in Task : \A m \in Mux : Owns(t, m) => muxPriority[m] = basePriority[t]
  /\ OwnPriority

\* What LentUntilRelease says of a step.
Lent ==
  \A m \in Mux, t \in Task :
    (/\ Owns(muxOwner[m], m) /\ muxUsed'[m] /\ muxCount'[m] > 0 /\ muxOwner'[m] = muxOwner[m]
     /\ In(t, kern'.wait[m]) /\ kern'.priority[t] = kern.priority[t]
     /\ In(t, kern.wait[m]) => kern.priority[muxOwner[m]] <= kern.priority[t])
      => kern'.priority[muxOwner[m]] <= kern'.priority[t]

PriorityStepOK == PriorityInv' /\ Lent

\* Who owns a mutex exists.
LEMMA OwnersExist ==
  ASSUME MuxInv
  PROVE  \A m \in Mux : Owns(muxOwner[m], m) => muxOwner[m] \in Task /\ pc[muxOwner[m]] # "none"
BY DEF MuxInv, MuxOK, Owns

\* A step that changes neither priorities nor owners.
LEMMA QuietPriorities ==
  ASSUME MuxInv, PriorityInv, \A t : \A m \in Mux : Owns(t, m)' <=> Owns(t, m),
         \A t : \A m \in Mux : Owns(t, m) => muxPriority'[m] = muxPriority[m],
         kern'.priority = kern.priority, basePriority' = basePriority,
         \A t \in Task : \A m \in Mux : In(t, kern'.wait[m]) => In(t, kern.wait[m]),
         \A t \in Task : pc'[t] # "none" => pc[t] # "none"
  PROVE  PriorityStepOK
<1>1. \A t : OwnsNone(t)' <=> OwnsNone(t)
  BY DEF OwnsNone
<1>2. OwnPriority'
  BY <1>1 DEF OwnPriority, PriorityInv
<1>3. \A t \in Task : \A m, n \in Mux : Owns(t, m)' /\ Owns(t, n)' => m = n
  BY DEF PriorityInv
<1>4. \A t \in Task : \A m \in Mux : In(t, kern'.wait[m]) => OwnsNone(t)'
  BY <1>1 DEF PriorityInv
<1>5. \A t \in Task : \A m \in Mux : Owns(t, m)' => muxPriority'[m] = basePriority'[t]
  BY DEF PriorityInv
<1>6. Lent
  BY DEF Lent
<1> QED BY <1>2, <1>3, <1>4, <1>5, <1>6 DEF PriorityStepOK, PriorityInv

\* A step of task management begins a task only where LOS_TaskCreateOnly ends.
LEMMA BornRunning ==
  ASSUME TaskInv, TaskNext, NEW t \in Task, pc[t] = "none", pc'[t] # "none"
  PROVE  pc'[t] = "run"
<1>1. pc \in [TCB -> PC] /\ t \in TCB /\ kern.run \in TCB /\ NoTask \notin Task /\ Dead \notin Task
  BY TCBs DEF TaskInv, Inv, KInv, Kernel, Task, NoTask, Dead
<1>2. ASSUME Running("run") \/ Running("alloc") \/ Running("enq") \/ Running("sched") \/ Running("block")
      PROVE  t # kern.run
  BY <1>2 DEF Running
<1>3. CASE TaskCreateTake \/ TaskCreateUnavailable \/ TaskCreateNoMemory
  BY <1>1, <1>2, <1>3 DEF TaskCreateTake, TaskCreateUnavailable, TaskCreateNoMemory
<1>4. CASE LOS_TaskCreateOnly \/ TaskCreateInit
  <2>1. pc' = [pc EXCEPT ![kern.run] = "run", ![child[kern.run]] = "run"]
        \/ pc' = [pc EXCEPT ![kern.run] = "enq", ![child[kern.run]] = "run"]
    BY <1>4 DEF LOS_TaskCreateOnly, TaskCreateInit
  <2>2. t # kern.run
    BY <1>2, <1>4 DEF LOS_TaskCreateOnly, TaskCreateInit
  <2>3. CASE pc' = [pc EXCEPT ![kern.run] = "run", ![child[kern.run]] = "run"]
    BY <1>1, <2>2, <2>3
  <2>4. CASE pc' = [pc EXCEPT ![kern.run] = "enq", ![child[kern.run]] = "run"]
    BY <1>1, <2>2, <2>4
  <2> QED BY <2>1, <2>3, <2>4
<1>5. ASSUME NEW ctx \in Context, NEW l, NEW resched, Finish(ctx, l, resched),
             ctx = "task" => Running("run") \/ Running("enq")
      PROVE  FALSE
  <2>1. CASE ctx = "task"
    <3>1. pc' = [pc EXCEPT ![kern.run] = IF resched THEN "sched" ELSE "run"]
      BY <2>1, <1>5 DEF Finish
    <3> QED BY <3>1, <2>1, <1>1, <1>2, <1>5
  <2>2. CASE ctx # "task"
    BY <2>2, <1>5 DEF Finish
  <2> QED BY <2>1, <2>2
<1>6. CASE LOS_TaskCreate
  <2>1. Finish("task", OsSchedTaskEnQueue(kern, child[kern.run]), TRUE) /\ Running("enq") /\ "task" \in Context
    BY <1>6 DEF LOS_TaskCreate, Context
  <2> QED BY <2>1, <1>5
<1>7. ASSUME NEW ctx \in Context, NEW u \in Task, TaskDeleteOther(ctx, u) \/ OsRunningTaskDelete(ctx, u)
      PROVE  FALSE
  BY <1>1, <1>7 DEF TaskDeleteOther, OsRunningTaskDelete
<1>8. \A ctx \in Context : Caller(ctx) /\ ctx = "task" => Running("run")
  BY DEF Caller
<1>9. ASSUME NEW ctx \in Context, NEW u \in Task, LOS_TaskSuspend(ctx, u) \/ LOS_TaskResume(ctx, u)
      PROVE  FALSE
  <2>1. CASE LOS_TaskSuspend(ctx, u)
    <3>1. Caller(ctx) /\ \E l : Finish(ctx, l, u = kern.run)
      BY <2>1 DEF LOS_TaskSuspend
    <3> QED BY <3>1, <1>5, <1>8
  <2>2. CASE LOS_TaskResume(ctx, u)
    <3>1. Caller(ctx) /\ \E l, r : Finish(ctx, l, r)
      BY <2>2 DEF LOS_TaskResume
    <3> QED BY <3>1, <1>5, <1>8
  <2> QED BY <1>9, <2>1, <2>2
<1>10. ASSUME \/ \E u \in Task, p \in Prio : LOS_TaskPriSet(u, p)
              \/ LOS_TaskDelay \/ LOS_TaskYield \/ LOS_TaskLock \/ LOS_TaskUnlock
       PROVE  FALSE
  <2>1. Caller("task") /\ "task" \in Context /\ \E l, r : Finish("task", l, r)
    BY <1>10 DEF LOS_TaskPriSet, LOS_TaskDelay, LOS_TaskYield, LOS_TaskLock, LOS_TaskUnlock, Context
  <2> QED BY <2>1, <1>5, <1>8
<1>11. ASSUME TaskSystem PROVE FALSE
  <2>1. CASE LOS_Schedule
    BY <2>1, <1>1, <1>2 DEF LOS_Schedule
  <2>2. CASE ~LOS_Schedule
    <3>1. pc' = pc
      BY <1>11, <2>2 DEF TaskSystem, HalPendSV, OsIdleTask, AssertSpins, taskVars,
                         TickSliceEnd, TickEnter, TickExpire, TickExit
    <3> QED BY <3>1
  <2> QED BY <2>1, <2>2
<1> QED BY <1>3, <1>4, <1>6, <1>7, <1>9, <1>10, <1>11 DEF TaskNext, TaskService

\* A step of task management.
LEMMA TaskStepPriorities ==
  ASSUME TaskInv, WaitInv, MuxInv, PriorityInv, MuxTaskStep, OwnersKeepPriority
  PROVE  PriorityStepOK
<1>1. /\ TaskNext /\ [TaskNext]_taskVars
      /\ basePriority' = [t \in Task |-> IF SetsBase(t) THEN kern'.priority[t] ELSE basePriority[t]]
      /\ UNCHANGED <<muxUsed, muxCount, muxOwner, muxPriority>>
  BY DEF MuxTaskStep
<1>2. \A t : \A m \in Mux : (Owns(t, m)' <=> Owns(t, m)) /\ muxPriority'[m] = muxPriority[m]
  BY <1>1 DEF Owns
<1>3. \A t : OwnsNone(t)' <=> OwnsNone(t)
  BY <1>2 DEF OwnsNone
<1>4. Waits(kern, pc, kern', pc')
  BY <1>1, NextStep DEF TaskStepOK
<1>5. \A t \in Task : \A m \in Mux : In(t, kern'.wait[m]) => In(t, kern.wait[m])
  <2>1. PICK t \in Task \cup {NoTask} : /\ t = NoTask => kern'.wait = kern.wait
                                        /\ t # NoTask => kern'.wait = Unlink(kern.wait, t)
    BY <1>4 DEF Waits
  <2>2. kern.wait \in [WaitObj -> Seq(Task)] /\ ListsOK(kern) /\ NoTask \notin Task
    BY KernelFields DEF TaskInv, Inv, KInv, WaitInv, Task, NoTask
  <2>3. CASE t = NoTask
    BY <2>1, <2>3
  <2>4. CASE t # NoTask
    <3>1. ListsWithout(kern.wait, t, Unlink(kern.wait, t))
      BY <2>2, <2>4, UnlinkProperties DEF ListsOK
    <3> QED BY <3>1, <2>1, <2>4, MuxAssumption DEF ListsWithout, ListWithout
  <2> QED BY <2>3, <2>4
<1>6. \A t \in Task : \A m \in Mux : In(t, kern'.wait[m]) => OwnsNone(t)'
  BY <1>3, <1>5 DEF PriorityInv
<1>7. \A t \in Task : \A m \in Mux : Owns(t, m)' => muxPriority'[m] = basePriority'[t]
  BY <1>2 DEF PriorityInv, OwnersKeepPriority
<1>8. OwnPriority'
  <2>1. ASSUME NEW t \in Task, pc'[t] # "none", OwnsNone(t)' PROVE kern'.priority[t] = basePriority'[t]
    <3>1. CASE SetsBase(t)
      BY <3>1, <1>1
    <3>2. CASE ~SetsBase(t)
      <4>1. kern'.priority[t] = kern.priority[t] /\ basePriority'[t] = basePriority[t]
        BY <3>2, <1>1 DEF SetsBase
      <4>2. pc[t] # "none"
        BY <3>2, <2>1, <1>1, BornRunning DEF SetsBase
      <4> QED BY <4>1, <4>2, <2>1, <1>3 DEF PriorityInv, OwnPriority
    <3> QED BY <3>1, <3>2
  <2> QED BY <2>1 DEF OwnPriority
<1>9. Lent
  <2>1. ASSUME NEW m \in Mux, NEW t \in Task, Owns(muxOwner[m], m), In(t, kern'.wait[m]),
               kern'.priority[t] = kern.priority[t],
               In(t, kern.wait[m]) => kern.priority[muxOwner[m]] <= kern.priority[t]
        PROVE  kern'.priority[muxOwner[m]] <= kern'.priority[t]
    <3>1. muxOwner[m] \in Task
      BY <2>1, OwnersExist
    <3>2. kern'.priority[muxOwner[m]] = kern.priority[muxOwner[m]]
      BY <2>1, <3>1 DEF OwnersKeepPriority
    <3> QED BY <2>1, <3>2, <1>5
  <2> QED BY <2>1 DEF Lent
<1>10. \A t \in Task : \A m, n \in Mux : Owns(t, m)' /\ Owns(t, n)' => m = n
  BY <1>2 DEF PriorityInv
<1> QED BY <1>6, <1>7, <1>8, <1>9, <1>10 DEF PriorityStepOK, PriorityInv

\* The steps of a service that change no priority and no owner.
LEMMA QuietServices ==
  ASSUME TaskInv, WaitInv, MuxInv, PriorityInv,
         \/ LOS_MuxCreate \/ MuxPendReturn
         \/ \E m \in Mux : LOS_MuxDelete(m) \/ MuxPendAgain(m) \/ MuxPostNested(m)
  PROVE  PriorityStepOK
<1>1. MuxTypeOK /\ \A m \in Mux : MuxOK(m)
  BY DEF MuxInv
<1>2. pc \in [TCB -> PC]
  BY DEF TaskInv, Inv
<1>3. CASE LOS_MuxCreate
  <2>1. PICK m \in Mux : m = Head(unusedMux) /\ ~muxUsed[m] /\ muxCount[m] = 0
    <3>1. unusedMux # <<>> /\ unusedMux \in Seq(Mux) /\ Distinct(unusedMux)
      BY <1>1, <1>3 DEF LOS_MuxCreate, MuxTypeOK, MuxInv
    <3>2. Head(unusedMux) \in Mux /\ In(Head(unusedMux), unusedMux)
      BY <3>1, TailProperties
    <3> QED BY <3>2, <1>1 DEF MuxOK
  <2>2. /\ muxUsed' = [muxUsed EXCEPT ![m] = TRUE] /\ muxCount' = [muxCount EXCEPT ![m] = 0]
        /\ muxOwner' = [muxOwner EXCEPT ![m] = NoTask] /\ muxPriority' = [muxPriority EXCEPT ![m] = 0]
        /\ basePriority' = basePriority /\ kern' = kern /\ pc' = pc
    BY <1>3, <2>1 DEF LOS_MuxCreate, taskVars
  <2>3. \A z \in Mux \ {m} : /\ muxUsed'[z] = muxUsed[z] /\ muxCount'[z] = muxCount[z]
                             /\ muxOwner'[z] = muxOwner[z] /\ muxPriority'[z] = muxPriority[z]
    BY <2>2, <1>1 DEF MuxTypeOK
  <2>4. muxCount'[m] = 0
    BY <2>2, <1>1 DEF MuxTypeOK
  <2>5. \A t : \A z \in Mux : (Owns(t, z)' <=> Owns(t, z)) /\ (Owns(t, z) => muxPriority'[z] = muxPriority[z])
    BY <2>1, <2>3, <2>4 DEF Owns
  <2> QED BY <2>2, <2>5, QuietPriorities
<1>4. CASE MuxPendReturn
  <2>1. /\ kern.run \in Task /\ Running("wait")
        /\ kern' = ClearFlag(kern, kern.run, {"TIMEOUT"}) /\ pc' = [pc EXCEPT ![kern.run] = "run"]
        /\ child' = child /\ pendSV' = pendSV /\ tick' = tick /\ basePriority' = basePriority
        /\ UNCHANGED <<muxUsed, muxCount, muxOwner, muxPriority>>
    BY <1>4 DEF MuxPendReturn
  <2>2. kern'.wait = kern.wait /\ kern'.priority = kern.priority
    BY <2>1, ReturnStep
  <2>3. \A t \in Task : pc'[t] # "none" => pc[t] # "none"
    BY <2>1, <1>2, TCBs DEF Running
  <2>4. \A t : \A z \in Mux : (Owns(t, z)' <=> Owns(t, z)) /\ muxPriority'[z] = muxPriority[z]
    BY <2>1 DEF Owns
  <2> QED BY <2>1, <2>2, <2>3, <2>4, QuietPriorities
<1>5. ASSUME NEW m \in Mux, LOS_MuxDelete(m) PROVE PriorityStepOK
  <2>1. /\ muxCount[m] = 0 /\ muxUsed' = [muxUsed EXCEPT ![m] = FALSE]
        /\ UNCHANGED <<muxCount, muxOwner, muxPriority, basePriority>> /\ kern' = kern /\ pc' = pc
    BY <1>5 DEF LOS_MuxDelete, taskVars
  <2>2. \A z \in Mux \ {m} : muxUsed'[z] = muxUsed[z]
    BY <2>1, <1>1 DEF MuxTypeOK
  <2>3. \A t : \A z \in Mux : (Owns(t, z)' <=> Owns(t, z)) /\ muxPriority'[z] = muxPriority[z]
    BY <2>1, <2>2 DEF Owns
  <2> QED BY <2>1, <2>3, QuietPriorities
<1>6. ASSUME NEW m \in Mux, MuxPendAgain(m) \/ MuxPostNested(m) PROVE PriorityStepOK
  <2>1. /\ muxCount[m] > 0
        /\ \/ muxCount' = [muxCount EXCEPT ![m] = muxCount[m] + 1]
           \/ muxCount[m] > 1 /\ muxCount' = [muxCount EXCEPT ![m] = muxCount[m] - 1]
        /\ UNCHANGED <<muxUsed, muxOwner, muxPriority, basePriority>> /\ kern' = kern /\ pc' = pc
    BY <1>6, <1>1 DEF MuxPendAgain, MuxPostNested, MayPost, taskVars, MuxTypeOK
  <2>2. muxCount'[m] > 0 /\ \A z \in Mux \ {m} : muxCount'[z] = muxCount[z]
    BY <2>1, <1>1 DEF MuxTypeOK
  <2>3. \A t : \A z \in Mux : (Owns(t, z)' <=> Owns(t, z)) /\ muxPriority'[z] = muxPriority[z]
    BY <2>1, <2>2 DEF Owns
  <2> QED BY <2>1, <2>3, QuietPriorities
<1> QED BY <1>3, <1>4, <1>5, <1>6

\* A mutex that was open is taken.
LEMMA TakenPriorities ==
  ASSUME TaskInv, WaitInv, MuxInv, PriorityInv, NEW m \in Mux, OwnsNone(kern.run), MuxPendOpen(m)
  PROVE  PriorityStepOK
<1>1. /\ Caller("task") /\ muxUsed[m] /\ muxCount[m] = 0
      /\ muxCount' = [muxCount EXCEPT ![m] = 1]
      /\ muxOwner' = [muxOwner EXCEPT ![m] = kern.run]
      /\ muxPriority' = [muxPriority EXCEPT ![m] = kern.priority[kern.run]]
      /\ muxUsed' = muxUsed /\ basePriority' = basePriority /\ kern' = kern /\ pc' = pc
  BY DEF MuxPendOpen, OsMuxValidCheck, taskVars
<1>2. PICK r \in Task : r = kern.run
  BY <1>1, CallerFree
<1>3. pc[r] = "run" /\ \A o \in WaitObj : ~In(r, kern.wait[o])
  BY <1>1, <1>2, CallerFree
<1>4. /\ muxCount'[m] = 1 /\ muxOwner'[m] = r /\ muxPriority'[m] = kern.priority[r]
      /\ \A z \in Mux \ {m} : /\ muxCount'[z] = muxCount[z] /\ muxOwner'[z] = muxOwner[z]
                              /\ muxPriority'[z] = muxPriority[z]
  BY <1>1, <1>2 DEF MuxInv, MuxTypeOK
<1>5. /\ \A t : Owns(t, m)' <=> t = r
      /\ \A t : ~Owns(t, m)
      /\ \A t : \A z \in Mux \ {m} : Owns(t, z)' <=> Owns(t, z)
  BY <1>1, <1>4 DEF Owns
<1>6. \A t : t # r => (OwnsNone(t)' <=> OwnsNone(t))
  BY <1>5 DEF OwnsNone
<1>7. \A z \in Mux : ~Owns(r, z)
  BY <1>2 DEF OwnsNone
<1>8. \A t \in Task : \A a, b \in Mux : Owns(t, a)' /\ Owns(t, b)' => a = b
  <2>1. ASSUME NEW t \in Task, NEW a \in Mux, NEW b \in Mux, Owns(t, a)', Owns(t, b)' PROVE a = b
    <3>1. CASE t = r
      BY <2>1, <3>1, <1>5, <1>7
    <3>2. CASE t # r
      BY <2>1, <3>2, <1>5 DEF PriorityInv
    <3> QED BY <3>1, <3>2
  <2> QED BY <2>1
<1>9. \A t \in Task : \A z \in Mux : In(t, kern'.wait[z]) => OwnsNone(t)'
  BY <1>1, <1>3, <1>6, MuxAssumption DEF PriorityInv
<1>10. \A t \in Task : \A z \in Mux : Owns(t, z)' => muxPriority'[z] = basePriority'[t]
  <2>1. kern.priority[r] = basePriority[r]
    BY <1>2, <1>3 DEF PriorityInv, OwnPriority
  <2>2. ASSUME NEW t \in Task, NEW z \in Mux, Owns(t, z)' PROVE muxPriority'[z] = basePriority'[t]
    <3>1. CASE z = m
      BY <3>1, <2>1, <2>2, <1>1, <1>4, <1>5
    <3>2. CASE z # m
      BY <3>2, <2>2, <1>1, <1>4, <1>5 DEF PriorityInv
    <3> QED BY <3>1, <3>2
  <2> QED BY <2>2
<1>11. OwnPriority'
  <2>1. ~OwnsNone(r)'
    BY <1>5 DEF OwnsNone
  <2> QED BY <2>1, <1>1, <1>6 DEF PriorityInv, OwnPriority
<1>12. Lent
  BY <1>1, <1>4, <1>5 DEF Lent
<1> QED BY <1>8, <1>9, <1>10, <1>11, <1>12 DEF PriorityStepOK, PriorityInv

\* A task comes to wait, and the owner may inherit its priority.
LEMMA LentPriorities ==
  ASSUME TaskInv, WaitInv, MuxInv, PriorityInv, NEW m \in Mux, NEW timed \in BOOLEAN,
         OwnsNone(kern.run), MuxPendWait(m, timed)
  PROVE  PriorityStepOK
<1>1. /\ Caller("task") /\ muxUsed[m] /\ kern.lock = 0
      /\ muxCount[m] > 0 /\ muxOwner[m] # kern.run
      /\ pc' = [pc EXCEPT ![kern.run] = "block"]
      /\ UNCHANGED <<muxUsed, muxCount, muxOwner, muxPriority>> /\ basePriority' = basePriority
      /\ child' = child /\ pendSV' = pendSV /\ tick' = tick
  BY DEF MuxPendWait, OsMuxValidCheck
<1>2. m \in WaitObj
  BY MuxAssumption
<1>3. PICK r \in Task : r = kern.run
  BY <1>1, CallerFree
<1>4. pc[r] = "run" /\ \A o \in WaitObj : ~In(r, kern.wait[o])
  BY <1>1, <1>3, CallerFree
<1>5. /\ KInv(kern) /\ ListsOK(kern) /\ Life(kern, pc, child) /\ kern.priority \in [Task -> Prio]
      /\ kern.wait \in [WaitObj -> Seq(Task)] /\ pc \in [TCB -> PC] /\ ~kern.halted /\ MuxOK(m)
  BY <1>1, KernelFields DEF TaskInv, Inv, KInv, WaitInv, Caller, Running, MuxInv
<1>6. PICK own \in Task : own = muxOwner[m] /\ own # r /\ ~Has(kern, own, "UNUSED") /\ Owns(own, m)
  BY <1>1, <1>3, <1>5 DEF MuxOK, Life, Owns
<1>7. PICK k : k = IF kern.priority[own] > kern.priority[r]
                   THEN OsSchedModifyTaskSchedParam(kern, own, kern.priority[r]) ELSE kern
  OBVIOUS
<1>8. kern.priority[r] \in Prio /\ kern.priority[own] \in Prio
  BY <1>5
<1>9. Repriced(kern, k) /\ k \in Kernel /\ ~k.halted
  <2>1. Repriced(kern, k)
    BY <1>5, <1>6, <1>7, <1>8, RepricedBy
  <2> QED BY <2>1, <1>5 DEF Repriced, KInv
<1>10. /\ \A u \in Task \ {own} : k.priority[u] = kern.priority[u]
       /\ k.priority[own] <= kern.priority[own] /\ k.priority[own] <= kern.priority[r]
  <2>1. kern.priority[r] \in Nat /\ kern.priority[own] \in Nat
    BY <1>8, PrioAssumption
  <2>2. CASE kern.priority[own] > kern.priority[r]
    <3>1. k.priority = [kern.priority EXCEPT ![own] = kern.priority[r]]
      BY <2>2, <1>5, <1>6, <1>7, <1>8, ModifyEffect
    <3> QED BY <3>1, <2>1, <2>2, <1>5
  <2>3. CASE ~(kern.priority[own] > kern.priority[r])
    BY <2>1, <2>3, <1>7
  <2> QED BY <2>2, <2>3
<1>11. kern' = OsSchedTaskWait(k, m, timed)
  <2>1. OsSchedTaskWait(k, m, timed).halted = k.halted
    BY <1>9 DEF OsSchedTaskWait, SetFlag, Kernel
  <2>2. kern' = Committed(kern, OsSchedTaskWait(k, m, timed))
    BY <1>3, <1>6, <1>7 DEF MuxPendWait
  <2> QED BY <1>9, <2>1, <2>2 DEF Committed
<1>12. kern'.wait = [kern.wait EXCEPT ![m] = Append(@, kern.run)] /\ kern'.priority = k.priority
  <2>1. Caller("task") /\ kern.lock = 0 /\ Repriced(kern, k) /\ pc' = [pc EXCEPT ![kern.run] = "block"]
        /\ child' = child /\ pendSV' = pendSV /\ tick' = tick
    BY <1>1, <1>9
  <2> QED BY <2>1, <1>2, <1>11, WaitStep
<1>13. \A u \in Task : \A z \in Mux : In(u, kern'.wait[z]) => In(u, kern.wait[z]) \/ (u = r /\ z = m)
  <2> DEFINE q == kern.wait[m]
  <2>1. q \in Seq(Task) /\ kern'.wait[m] = Append(q, r)
    BY <1>2, <1>3, <1>5, <1>12
  <2>2. \A o \in WaitObj \ {m} : kern'.wait[o] = kern.wait[o]
    BY <1>5, <1>12
  <2> HIDE DEF q
  <2>3. \A u : In(u, Append(q, r)) <=> In(u, q) \/ u = r
    BY <2>1, EndsProperties
  <2> QED BY <2>1, <2>2, <2>3, MuxAssumption DEF q
<1>14. \A t : \A z \in Mux : (Owns(t, z)' <=> Owns(t, z)) /\ muxPriority'[z] = muxPriority[z]
  BY <1>1 DEF Owns
<1>15. \A t : OwnsNone(t)' <=> OwnsNone(t)
  BY <1>14 DEF OwnsNone
<1>16. \A t \in Task : \A z \in Mux : In(t, kern'.wait[z]) => OwnsNone(t)'
  BY <1>3, <1>13, <1>15 DEF PriorityInv
<1>17. OwnPriority'
  <2>1. \A t \in Task : pc'[t] # "none" => pc[t] # "none"
    BY <1>1, <1>3, <1>4, <1>5, TCBs
  <2>2. \A t \in Task : OwnsNone(t) => kern'.priority[t] = kern.priority[t]
    BY <1>6, <1>10, <1>12 DEF OwnsNone
  <2> QED BY <2>1, <2>2, <1>1, <1>15 DEF PriorityInv, OwnPriority
<1>18. Lent
  <2>1. ASSUME NEW z \in Mux, NEW t \in Task, Owns(muxOwner[z], z), In(t, kern'.wait[z]),
               kern'.priority[t] = kern.priority[t],
               In(t, kern.wait[z]) => kern.priority[muxOwner[z]] <= kern.priority[t]
        PROVE  kern'.priority[muxOwner[z]] <= kern'.priority[t]
    <3>1. muxOwner[z] \in Task /\ (muxOwner[z] = own => z = m)
      BY <2>1, <1>6, OwnersExist DEF PriorityInv
    <3>2. CASE In(t, kern.wait[z])
      <4>1. kern.priority[muxOwner[z]] <= kern.priority[t]
        BY <2>1, <3>2
      <4>2. CASE muxOwner[z] # own
        BY <4>1, <4>2, <2>1, <3>1, <1>10, <1>12
      <4>3. CASE muxOwner[z] = own
        <5>1. /\ kern.priority[t] \in Nat /\ kern.priority[own] \in Nat /\ kern'.priority[own] \in Nat
              /\ k.priority[own] = kern'.priority[own]
          <6>1. kern'.priority \in [Task -> Prio]
            BY <1>9, <1>12, KernelFields
          <6> QED BY <6>1, <1>5, <1>12, PrioAssumption
        <5>2. kern'.priority[own] <= kern.priority[own] /\ kern.priority[own] <= kern.priority[t]
          BY <5>1, <4>1, <4>3, <1>10
        <5> QED BY <5>1, <5>2, <4>3, <2>1
      <4> QED BY <4>2, <4>3
    <3>3. CASE t = r /\ z = m
      BY <3>3, <2>1, <1>6, <1>10, <1>12
    <3> QED BY <2>1, <3>2, <3>3, <1>13
  <2> QED BY <2>1 DEF Lent
<1> QED BY <1>1, <1>14, <1>16, <1>17, <1>18 DEF PriorityStepOK, PriorityInv

\* The last post: the owner has its own priority again.
LEMMA GivenBack ==
  ASSUME TaskInv, WaitInv, MuxInv, PriorityInv, NEW m \in Mux, MayPost(m)
  PROVE  LET k == PriorityRestored(m) IN
         /\ Repriced(kern, k) /\ k.priority[kern.run] = basePriority[kern.run]
         /\ \A u \in Task \ {kern.run} : k.priority[u] = kern.priority[u]
<1> DEFINE k == PriorityRestored(m)
<1>1. /\ Caller("task") /\ muxCount[m] > 0 /\ muxOwner[m] = kern.run /\ Owns(kern.run, m)
  BY DEF MayPost, Owns
<1>2. kern.run \in Task
  BY <1>1, CallerFree
<1>3. /\ KInv(kern) /\ ListsOK(kern) /\ Life(kern, pc, child) /\ kern.priority \in [Task -> Prio]
      /\ MuxOK(m)
  BY KernelFields DEF TaskInv, Inv, KInv, WaitInv, MuxInv
<1>4. ~Has(kern, kern.run, "UNUSED") /\ muxPriority[m] \in Prio
  BY <1>1, <1>2, <1>3 DEF MuxOK, Life
<1>5. muxPriority[m] = basePriority[kern.run]
  BY <1>1, <1>2 DEF PriorityInv
<1>6. k.priority = [kern.priority EXCEPT ![kern.run] = muxPriority[m]]
  <2>1. CASE kern.priority[kern.run] # muxPriority[m]
    <3>1. k = OsSchedModifyTaskSchedParam(kern, kern.run, muxPriority[m])
      BY <2>1, <1>1 DEF PriorityRestored
    <3> QED BY <3>1, <1>2, <1>3, <1>4, ModifyEffect
  <2>2. CASE kern.priority[kern.run] = muxPriority[m]
    <3>1. k = kern
      BY <2>2, <1>1 DEF PriorityRestored
    <3> QED BY <3>1, <2>2, <1>2, <1>3
  <2> QED BY <2>1, <2>2
<1>7. Repriced(kern, k)
  BY <1>1, RestoredRepriced
<1> HIDE DEF k
<1> QED BY <1>2, <1>3, <1>5, <1>6, <1>7 DEF k

\* The mutex is open again.
LEMMA OpenedPriorities ==
  ASSUME TaskInv, WaitInv, MuxInv, PriorityInv, NEW m \in Mux, MuxPostOpen(m)
  PROVE  PriorityStepOK
<1>1. /\ Caller("task") /\ MayPost(m) /\ muxOwner[m] = kern.run /\ Owns(kern.run, m)
      /\ muxCount' = [muxCount EXCEPT ![m] = 0]
      /\ Finish("task", PriorityRestored(m), FALSE)
      /\ UNCHANGED <<muxUsed, muxOwner, muxPriority>> /\ basePriority' = basePriority
      /\ child' = child /\ tick' = tick /\ "task" \in Context /\ FALSE \in BOOLEAN
  BY DEF MuxPostOpen, MayPost, Context, Owns
<1>2. PICK k : k = PriorityRestored(m)
  OBVIOUS
<1>3. PICK r \in Task : r = kern.run
  BY <1>1, CallerFree
<1>4. /\ Repriced(kern, k) /\ k.priority[r] = basePriority[r]
      /\ \A u \in Task \ {r} : k.priority[u] = kern.priority[u]
  BY <1>1, <1>2, <1>3, GivenBack
<1>5. kern' = k /\ kern'.wait = kern.wait
  <2>1. Finish("task", k, FALSE)
    BY <1>1, <1>2 DEF Finish
  <2> QED BY <2>1, <1>1, <1>4, RepriceStep DEF Serves, Repriced, SameWaits
<1>6. muxCount'[m] = 0 /\ \A z \in Mux \ {m} : muxCount'[z] = muxCount[z]
  BY <1>1 DEF MuxInv, MuxTypeOK
<1>7. \A t : ~Owns(t, m)' /\ \A z \in Mux \ {m} : Owns(t, z)' <=> Owns(t, z)
  BY <1>1, <1>6 DEF Owns
<1>8. \A t : OwnsNone(t) => OwnsNone(t)'
  BY <1>7 DEF OwnsNone
<1>9. \A t : t # r /\ OwnsNone(t)' => OwnsNone(t)
  <2>1. \A t : t # r => ~Owns(t, m)
    BY <1>1, <1>3 DEF Owns
  <2> QED BY <2>1, <1>7 DEF OwnsNone
<1>10. \A t \in Task : pc'[t] # "none" => pc[t] # "none"
  <2>1. pc' = [pc EXCEPT ![r] = "run"] /\ pc[r] = "run" /\ pc \in [TCB -> PC]
    BY <1>1, <1>3, CallerFree DEF Finish, TaskInv, Inv
  <2> QED BY <2>1, TCBs
<1>11. OwnPriority'
  <2>1. ASSUME NEW t \in Task, pc'[t] # "none", OwnsNone(t)' PROVE kern'.priority[t] = basePriority'[t]
    <3>1. CASE t = r
      BY <3>1, <1>1, <1>4, <1>5
    <3>2. CASE t # r
      <4>1. kern.priority[t] = basePriority[t]
        BY <2>1, <3>2, <1>9, <1>10 DEF PriorityInv, OwnPriority
      <4> QED BY <4>1, <3>2, <1>1, <1>4, <1>5
    <3> QED BY <3>1, <3>2
  <2> QED BY <2>1 DEF OwnPriority
<1>12. \A t \in Task : \A a, b \in Mux : Owns(t, a)' /\ Owns(t, b)' => a = b
  BY <1>7 DEF PriorityInv
<1>13. \A t \in Task : \A z \in Mux : In(t, kern'.wait[z]) => OwnsNone(t)'
  BY <1>5, <1>8 DEF PriorityInv
<1>14. \A t \in Task : \A z \in Mux : Owns(t, z)' => muxPriority'[z] = basePriority'[t]
  BY <1>1, <1>7 DEF PriorityInv
<1>15. Lent
  <2>1. ASSUME NEW z \in Mux, NEW t \in Task, Owns(muxOwner[z], z), muxCount'[z] > 0,
               In(t, kern'.wait[z]), kern'.priority[t] = kern.priority[t],
               In(t, kern.wait[z]) => kern.priority[muxOwner[z]] <= kern.priority[t]
        PROVE  kern'.priority[muxOwner[z]] <= kern'.priority[t]
    <3>1. z # m /\ muxOwner[z] \in Task
      BY <2>1, <1>6, OwnersExist
    <3>2. muxOwner[z] # r
      BY <2>1, <3>1, <1>1, <1>3 DEF PriorityInv
    <3> QED BY <2>1, <3>1, <3>2, <1>4, <1>5
  <2> QED BY <2>1 DEF Lent
<1> QED BY <1>11, <1>12, <1>13, <1>14, <1>15 DEF PriorityStepOK, PriorityInv

\* The mutex goes to the first waiter.
LEMMA HandedPriorities ==
  ASSUME TaskInv, WaitInv, MuxInv, PriorityInv, NEW m \in Mux, MuxPostHandOver(m)
  PROVE  PriorityStepOK
<1>1. /\ Caller("task") /\ MayPost(m) /\ muxCount[m] = 1 /\ muxOwner[m] = kern.run
      /\ Owns(kern.run, m) /\ kern.wait[m] # <<>> /\ muxUsed[m]
      /\ muxOwner' = [muxOwner EXCEPT ![m] = Head(kern.wait[m])]
      /\ muxPriority' = [muxPriority EXCEPT ![m] = kern.priority[Head(kern.wait[m])]]
      /\ Finish("task", OsSchedTaskWake(PriorityRestored(m), Head(kern.wait[m])), TRUE)
      /\ UNCHANGED <<muxUsed, muxCount>> /\ basePriority' = basePriority
      /\ child' = child /\ tick' = tick /\ "task" \in Context
  BY DEF MuxPostHandOver, MayPost, Context, Owns
<1>2. /\ m \in WaitObj /\ kern.wait \in [WaitObj -> Seq(Task)] /\ ListsOK(kern) /\ MuxTypeOK
  BY MuxAssumption, KernelFields DEF TaskInv, Inv, KInv, WaitInv, MuxInv
<1>3. PICK n \in Task : n = Head(kern.wait[m]) /\ In(n, kern.wait[m])
  BY <1>1, <1>2, TailProperties
<1>4. PICK r \in Task : r = kern.run
  BY <1>1, CallerFree
<1>5. Has(kern, n, "PEND") /\ pc[n] # "none"
  <2>1. TaskOK(kern, n)
    BY <1>2, TCBs DEF ListsOK
  <2>2. Has(kern, n, "PEND")
    BY <2>1, <1>2, <1>3 DEF TaskOK
  <2> QED BY <2>2 DEF WaitInv, Places
<1>6. OwnsNone(n) /\ kern.priority[n] = basePriority[n] /\ n # r
  <2>1. OwnsNone(n)
    BY <1>3 DEF PriorityInv
  <2> QED BY <2>1, <1>1, <1>4, <1>5 DEF PriorityInv, OwnPriority, OwnsNone
<1>7. PICK k : k = PriorityRestored(m)
  OBVIOUS
<1>8. /\ Repriced(kern, k) /\ k.priority[r] = basePriority[r]
      /\ \A u \in Task \ {r} : k.priority[u] = kern.priority[u]
  BY <1>1, <1>4, <1>7, GivenBack
<1>9. /\ kern'.wait = Unlink(kern.wait, n) /\ kern'.priority = k.priority
      /\ \A u \in Task : pc'[u] = "none" <=> pc[u] = "none"
  <2>1. Finish("task", OsSchedTaskWake(k, n), TRUE)
    BY <1>1, <1>3, <1>7
  <2>2. Serves("task") /\ child' = child /\ tick' = tick /\ "task" \in Context
    BY <1>1 DEF Serves
  <2> QED BY <2>1, <2>2, <1>5, <1>8, WakeStep
<1>10. \A u \in Task : \A z \in Mux : In(u, kern'.wait[z]) => In(u, kern.wait[z]) /\ u # n
  <2>1. ListsWithout(kern.wait, n, Unlink(kern.wait, n))
    BY <1>2, UnlinkProperties DEF ListsOK
  <2> QED BY <2>1, <1>9, MuxAssumption DEF ListsWithout, ListWithout
<1>11. /\ muxOwner'[m] = n /\ muxPriority'[m] = basePriority[n]
       /\ \A z \in Mux \ {m} : muxOwner'[z] = muxOwner[z] /\ muxPriority'[z] = muxPriority[z]
  BY <1>1, <1>2, <1>3, <1>6 DEF MuxTypeOK
<1>12. /\ \A t : Owns(t, m)' <=> t = n
       /\ \A t : Owns(t, m) <=> t = r
       /\ \A t : \A z \in Mux \ {m} : Owns(t, z)' <=> Owns(t, z)
  BY <1>1, <1>4, <1>11 DEF Owns
<1>13. \A t : t # n /\ OwnsNone(t) => OwnsNone(t)'
  BY <1>12 DEF OwnsNone
<1>14. \A t : t # r /\ OwnsNone(t)' => OwnsNone(t)
  BY <1>12 DEF OwnsNone
<1>15. OwnPriority'
  <2>1. ASSUME NEW t \in Task, pc'[t] # "none", OwnsNone(t)' PROVE kern'.priority[t] = basePriority'[t]
    <3>1. CASE t = r
      BY <3>1, <1>1, <1>8, <1>9
    <3>2. CASE t # r
      <4>1. kern.priority[t] = basePriority[t]
        BY <2>1, <3>2, <1>9, <1>14 DEF PriorityInv, OwnPriority
      <4> QED BY <4>1, <3>2, <1>1, <1>8, <1>9
    <3> QED BY <3>1, <3>2
  <2> QED BY <2>1 DEF OwnPriority
<1>16. \A t \in Task : \A a, b \in Mux : Owns(t, a)' /\ Owns(t, b)' => a = b
  <2>1. ASSUME NEW t \in Task, NEW a \in Mux, NEW b \in Mux, Owns(t, a)', Owns(t, b)' PROVE a = b
    <3>1. CASE t = n
      BY <3>1, <2>1, <1>6, <1>12 DEF OwnsNone
    <3>2. CASE t # n
      BY <3>2, <2>1, <1>12 DEF PriorityInv
    <3> QED BY <3>1, <3>2
  <2> QED BY <2>1
<1>17. \A t \in Task : \A z \in Mux : In(t, kern'.wait[z]) => OwnsNone(t)'
  BY <1>10, <1>13 DEF PriorityInv
<1>18. \A t \in Task : \A z \in Mux : Owns(t, z)' => muxPriority'[z] = basePriority'[t]
  <2>1. ASSUME NEW t \in Task, NEW z \in Mux, Owns(t, z)' PROVE muxPriority'[z] = basePriority'[t]
    <3>1. CASE z = m
      BY <3>1, <2>1, <1>1, <1>11, <1>12
    <3>2. CASE z # m
      BY <3>2, <2>1, <1>1, <1>11, <1>12 DEF PriorityInv
    <3> QED BY <3>1, <3>2
  <2> QED BY <2>1
<1>19. Lent
  <2>1. ASSUME NEW z \in Mux, NEW t \in Task, Owns(muxOwner[z], z), muxOwner'[z] = muxOwner[z],
               In(t, kern'.wait[z]), kern'.priority[t] = kern.priority[t],
               In(t, kern.wait[z]) => kern.priority[muxOwner[z]] <= kern.priority[t]
        PROVE  kern'.priority[muxOwner[z]] <= kern'.priority[t]
    <3>1. muxOwner[z] \in Task /\ z # m
      BY <2>1, <1>1, <1>4, <1>6, <1>11, OwnersExist
    <3>2. muxOwner[z] # r
      BY <2>1, <3>1, <1>1, <1>4 DEF PriorityInv
    <3> QED BY <2>1, <3>1, <3>2, <1>8, <1>9, <1>10
  <2> QED BY <2>1 DEF Lent
<1> QED BY <1>15, <1>16, <1>17, <1>18, <1>19 DEF PriorityStepOK, PriorityInv

\* Every step of such an application.
LEMMA LendingStep ==
  ASSUME TaskInv, WaitInv, MuxInv, PriorityInv, [LendingNext]_muxAll
  PROVE  MuxStepOK /\ PriorityStepOK
<1>1. [MuxNext]_muxAll
  BY DEF LendingNext, MuxNext, MuxService
<1>2. MuxStepOK
  BY <1>1, MuxNextStep
<1>3. CASE UNCHANGED muxAll
  <2>1. /\ UNCHANGED <<kern, pc, child, pendSV, tick>>
        /\ UNCHANGED <<muxUsed, muxCount, muxOwner, muxPriority, unusedMux, muxPended, basePriority>>
    BY <1>3 DEF muxAll
  <2>2. \A t : \A z \in Mux : (Owns(t, z)' <=> Owns(t, z)) /\ muxPriority'[z] = muxPriority[z]
    BY <2>1 DEF Owns
  <2> QED BY <2>1, <2>2, <1>2, QuietPriorities
<1>4. CASE MuxTaskStep /\ OwnersKeepPriority
  BY <1>2, <1>4, TaskStepPriorities
<1>5. CASE \/ LOS_MuxCreate \/ MuxPendReturn
           \/ \E m \in Mux : LOS_MuxDelete(m) \/ MuxPendAgain(m) \/ MuxPostNested(m)
  BY <1>2, <1>5, QuietServices
<1>6. ASSUME NEW m \in Mux, MuxPostOpen(m) \/ MuxPostHandOver(m) PROVE PriorityStepOK
  BY <1>6, OpenedPriorities, HandedPriorities
<1>7. ASSUME NEW m \in Mux, OwnsNone(kern.run), MuxPendOpen(m) PROVE PriorityStepOK
  BY <1>7, TakenPriorities
<1>8. ASSUME NEW m \in Mux, NEW timed \in BOOLEAN, OwnsNone(kern.run), MuxPendWait(m, timed)
      PROVE  PriorityStepOK
  BY <1>8, LentPriorities
<1> QED BY <1>2, <1>3, <1>4, <1>5, <1>6, <1>7, <1>8 DEF LendingNext

\* At first nobody owns a mutex.
LEMMA PriorityInitInv ==
  ASSUME TaskInit, MuxInit
  PROVE  PriorityInv
<1>1. /\ muxUsed = [m \in Mux |-> FALSE] /\ basePriority = kern.priority
      /\ \A o \in WaitObj : kern.wait[o] = <<>>
  BY DEF TaskInit, MuxInit
<1>2. \A t : \A m \in Mux : ~Owns(t, m)
  BY <1>1 DEF Owns
<1> QED BY <1>1, <1>2 DEF PriorityInv, OwnPriority, OwnsNone

\* The invariants hold, and no step of such an application breaks what it should not.
LEMMA LendingHolds ==
  /\ LendingSpec => [](TaskInv /\ WaitInv /\ MuxInv /\ PriorityInv)
  /\ LendingSpec => [][PriorityStepOK]_muxAll
<1>1. TaskInit /\ MuxInit => TaskInv /\ WaitInv /\ MuxInv /\ PriorityInv
  BY InitInv, InitWaits, MuxInitInv, PriorityInitInv
<1>2. TaskInv /\ WaitInv /\ MuxInv /\ PriorityInv /\ [LendingNext]_muxAll => MuxStepOK /\ PriorityStepOK
  BY LendingStep
<1>3. MuxStepOK /\ PriorityStepOK => (TaskInv /\ WaitInv /\ MuxInv /\ PriorityInv)'
  BY DEF MuxStepOK, PriorityStepOK
<1> QED BY <1>1, <1>2, <1>3, PTL DEF LendingSpec

\* What a task inherited it gives back with the last post: a task that owns no
\* mutex runs at its own priority, if nobody sets the priority of an owner and
\* no owner asks for a second mutex (LOS_MuxPost's use of muxPosted->priority).
THEOREM OwnersGetTheirPriorityBack == LendingSpec => []OwnPriority
<1>1. PriorityInv => OwnPriority
  BY DEF PriorityInv
<1> QED BY <1>1, LendingHolds, PTL

\* Who comes to wait lends the owner its priority, and the owner keeps what it
\* was lent until it releases the mutex (LOS_MuxPend).
THEOREM LentPriorityIsKept == LendingSpec => LentUntilRelease
<1>1. [PriorityStepOK]_muxAll =>
        [\A m \in Mux, t \in Task :
           (/\ Owns(muxOwner[m], m) /\ muxUsed'[m] /\ muxCount'[m] > 0 /\ muxOwner'[m] = muxOwner[m]
            /\ In(t, kern'.wait[m]) /\ kern'.priority[t] = kern.priority[t]
            /\ In(t, kern.wait[m]) => kern.priority[muxOwner[m]] <= kern.priority[t])
             => kern'.priority[muxOwner[m]] <= kern'.priority[t]]_muxAll
  BY DEF PriorityStepOK, Lent
<1> QED BY <1>1, LendingHolds, PTL DEF LentUntilRelease
=============================================================================
