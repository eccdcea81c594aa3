------------------------------- MODULE LosSem -------------------------------
(***************************************************************************)
(* Semaphores (los_sem.c) on top of task management.                       *)
(***************************************************************************)
EXTENDS LosTask, FiniteSets

CONSTANTS Sem,         \* g_allSem
          MaxCount     \* the values of maxSemCount: 1 for a binary semaphore

NoSem == "none"        \* a task outside LOS_SemPend

ASSUME SemAssumption      == Sem \subseteq WaitObj /\ IsFiniteSet(Sem)
ASSUME MaxCountAssumption == MaxCount \subseteq Nat \ {0}
ASSUME NoSemAssumption    == NoSem \notin Sem

VARIABLES semUsed,     \* semStat # OS_SEM_UNUSED
          semCount, maxSemCount,
          unusedSem,   \* g_unusedSemList
          semPended    \* the local variable of the task's LOS_SemPend

semVars == <<semUsed, semCount, maxSemCount, unusedSem, semPended>>
semAll  == <<kern, pc, child, pendSV, tick,
             semUsed, semCount, maxSemCount, unusedSem, semPended>>

\* OsSemInit, in any order of the control blocks.
SemInit == /\ semUsed = [s \in Sem |-> FALSE]
           /\ semCount = [s \in Sem |-> 0]
           /\ maxSemCount = [s \in Sem |-> 0]
           /\ unusedSem \in {q \in [1..Cardinality(Sem) -> Sem] : Distinct(q)}
           /\ semPended = [t \in Task |-> NoSem]

-----------------------------------------------------------------------------
OsSemCreate(ctx, count, max) ==
  LET s == Head(unusedSem) IN
  /\ Caller(ctx) /\ count <= max /\ unusedSem # <<>>
  /\ unusedSem' = Tail(unusedSem)
  /\ semUsed' = [semUsed EXCEPT ![s] = TRUE]
  /\ semCount' = [semCount EXCEPT ![s] = count]
  /\ maxSemCount' = [maxSemCount EXCEPT ![s] = max]
  /\ UNCHANGED <<semPended, kern, pc, child, pendSV, tick>>

Fault_DeletesWithWaiter(ctx, s) ==
  /\ Caller(ctx) /\ semUsed[s]
  /\ unusedSem' = <<s>> \o unusedSem
  /\ semUsed' = [semUsed EXCEPT ![s] = FALSE]
  /\ UNCHANGED <<semCount, maxSemCount, semPended, kern, pc, child, pendSV, tick>>

\* Refused while a task waits; the list node that headed the waiters now links
\* the control block into g_unusedSemList.
LOS_SemDelete(ctx, s) ==
  /\ Caller(ctx) /\ semUsed[s] /\ kern.wait[s] = <<>>
  /\ unusedSem' = <<s>> \o unusedSem
  /\ semUsed' = [semUsed EXCEPT ![s] = FALSE]
  /\ UNCHANGED <<semCount, maxSemCount, semPended, kern, pc, child, pendSV, tick>>

\* OsSemValidCheck: not deleted, not in an interrupt, not under the task lock.
OsSemValidCheck(s) == Caller("task") /\ semUsed[s] /\ kern.lock = 0

\* LOS_SemPend with a unit at hand.
SemPendTake(s) ==
  /\ OsSemValidCheck(s) /\ semCount[s] > 0
  /\ semCount' = [semCount EXCEPT ![s] = @ - 1]
  /\ UNCHANGED <<semUsed, maxSemCount, unusedSem, semPended, kern, pc, child, pendSV, tick>>

\* LOS_SemPend without one, with a timeout or LOS_WAIT_FOREVER.
SemPendWait(s, timed) ==
  /\ OsSemValidCheck(s) /\ semCount[s] = 0
  /\ kern' = OsSchedTaskWait(kern, s, timed)
  /\ pc' = [pc EXCEPT ![kern.run] = "block"]
  /\ semPended' = [semPended EXCEPT ![kern.run] = s]
  /\ UNCHANGED <<semUsed, semCount, maxSemCount, unusedSem, child, pendSV, tick>>

Fault_KeepsTimeout ==
  /\ kern.run \in Task /\ Running("wait") /\ semPended[kern.run] # NoSem
  /\ pc' = [pc EXCEPT ![kern.run] = "run"]
  /\ semPended' = [semPended EXCEPT ![kern.run] = NoSem]
  /\ UNCHANGED <<semUsed, semCount, maxSemCount, unusedSem, kern, child, pendSV, tick>>

\* The end of that LOS_SemPend, after LOS_Schedule: TIMEOUT set means
\* LOS_ERRNO_SEM_TIMEOUT, not set means that a post handed a unit over.
SemPendReturn ==
  /\ kern.run \in Task /\ Running("wait") /\ semPended[kern.run] # NoSem
  /\ kern' = ClearFlag(kern, kern.run, {"TIMEOUT"})
  /\ pc' = [pc EXCEPT ![kern.run] = "run"]
  /\ semPended' = [semPended EXCEPT ![kern.run] = NoSem]
  /\ UNCHANGED <<semUsed, semCount, maxSemCount, unusedSem, child, pendSV, tick>>

\* LOS_SemPost hands the unit to the first waiter ...
SemPostWake(ctx, s) ==
  /\ Caller(ctx) /\ semUsed[s] /\ semCount[s] # maxSemCount[s]
  /\ kern.wait[s] # <<>>
  /\ Finish(ctx, OsSchedTaskWake(kern, Head(kern.wait[s])), TRUE)
  /\ UNCHANGED <<semVars, child, tick>>

\* ... or counts it; at the maximum it is refused.
SemPostCount(ctx, s) ==
  /\ Caller(ctx) /\ semUsed[s] /\ semCount[s] # maxSemCount[s]
  /\ kern.wait[s] = <<>>
  /\ semCount' = [semCount EXCEPT ![s] = @ + 1]
  /\ UNCHANGED <<semUsed, maxSemCount, unusedSem, semPended, kern, pc, child, pendSV, tick>>

SemService ==
  \/ \E ctx \in Context : \E max \in MaxCount : \E count \in 0..max :
       OsSemCreate(ctx, count, max)
  \/ \E ctx \in Context, s \in Sem :
       LOS_SemDelete(ctx, s) \/ SemPostWake(ctx, s) \/ SemPostCount(ctx, s)
  \/ \E s \in Sem : SemPendTake(s) \/ \E timed \in BOOLEAN : SemPendWait(s, timed)
  \/ SemPendReturn

\* A task that is deleted takes the locals of its calls with it.
SemTaskStep ==
  /\ TaskNext
  /\ semPended' = [t \in Task |-> IF pc'[t] = "none" THEN NoSem ELSE semPended[t]]
  /\ UNCHANGED <<semUsed, semCount, maxSemCount, unusedSem>>

SemNext == SemTaskStep \/ SemService

SemSpec == TaskInit /\ SemInit /\ [][SemNext]_semAll

-----------------------------------------------------------------------------
\* g_unusedSemList holds exactly the control blocks not in use, each once, and
\* none of them has a waiter: its list node would be in two lists at a time
\* (OsSemCreate, LOS_SemDelete).
SemPoolAgrees ==
  /\ Distinct(unusedSem)
  /\ \A s \in Sem : /\ In(s, unusedSem) <=> ~semUsed[s]
                    /\ ~semUsed[s] => kern.wait[s] = <<>>

\* What of a task's LOS_SemPend the semaphore promise is about: the unit was
\* handed over and the call has not returned.
SemServed(s) == {t \in Task : /\ semPended[t] = s
                             /\ kern.status[t] \cap {"PEND", "TIMEOUT"} = {}}

AbstractSem(s) ==
  INSTANCE Semaphore WITH Proc    <- Task,
                          Limits  <- MaxCount,
                          limit   <- IF semUsed[s] THEN maxSemCount[s] ELSE 0,
                          avail   <- IF semUsed[s] THEN semCount[s] ELSE 0,
                          waiters <- kern.wait[s],
                          served  <- SemServed(s)

\* Every semaphore of the kernel behaves as the module Semaphore promises,
\* whatever the scheduler, the interrupts, timeouts, suspensions and deletions
\* do to its waiters (los_sem.c as a whole).
ImplementsSemaphore ==
  /\ \A s \in Sem : AbstractSem(s)!Init
  /\ [][\A s \in Sem : UNCHANGED AbstractSem(s)!vars \/ AbstractSem(s)!Next]_semAll
=============================================================================
