------------------------------- MODULE LosMux -------------------------------
(***************************************************************************)
(* Mutexes with priority inheritance (los_mux.c) on top of task            *)
(* management.  LOS_MuxPend and LOS_MuxPost are for tasks only             *)
(* (los_mux.h:235, 268).  A task that owns a mutex is not deleted, which   *)
(* the API forbids (los_task.h:693).                                       *)
(***************************************************************************)
EXTENDS LosTask, FiniteSets

CONSTANTS Mux,         \* g_allMux
          MaxNest      \* bound on muxCount

NoMux == "none"        \* a task outside LOS_MuxPend

ASSUME MuxAssumption     == Mux \subseteq WaitObj /\ IsFiniteSet(Mux)
ASSUME MaxNestAssumption == MaxNest \in Nat \ {0}
ASSUME NoMuxAssumption   == NoMux \notin Mux

VARIABLES muxUsed,     \* muxStat # OS_MUX_UNUSED
          muxCount, muxOwner,
          muxPriority, \* the owner's priority when it got the mutex
          unusedMux,   \* g_unusedMuxList
          muxPended,   \* the local variable of the task's LOS_MuxPend
          basePriority \* not in the code: the priority a task was created with
                       \* or was given by LOS_TaskPriSet

muxVars == <<muxUsed, muxCount, muxOwner, muxPriority, unusedMux, muxPended, basePriority>>
muxAll == <<kern, pc, child, pendSV, tick,
          muxUsed, muxCount, muxOwner, muxPriority, unusedMux, muxPended, basePriority>>

\* OsMuxInit, in any order of the control blocks.
MuxInit == /\ muxUsed = [m \in Mux |-> FALSE]
           /\ muxCount = [m \in Mux |-> 0]
           /\ muxOwner = [m \in Mux |-> NoTask]
           /\ muxPriority = [m \in Mux |-> 0]
           /\ unusedMux \in {q \in [1..Cardinality(Mux) -> Mux] : Distinct(q)}
           /\ muxPended = [t \in Task |-> NoMux]
           /\ basePriority = kern.priority

-----------------------------------------------------------------------------
LOS_MuxCreate ==
  LET m == Head(unusedMux) IN
  /\ Caller("task") /\ unusedMux # <<>>
  /\ unusedMux' = Tail(unusedMux)
  /\ muxUsed' = [muxUsed EXCEPT ![m] = TRUE]
  /\ muxCount' = [muxCount EXCEPT ![m] = 0]
  /\ muxOwner' = [muxOwner EXCEPT ![m] = NoTask]
  /\ muxPriority' = [muxPriority EXCEPT ![m] = 0]
  /\ UNCHANGED <<muxPended, basePriority, taskVars>>

Fault_DeletesLocked(m) ==
  /\ Caller("task") /\ muxUsed[m] /\ kern.wait[m] = <<>>
  /\ unusedMux' = <<m>> \o unusedMux
  /\ muxUsed' = [muxUsed EXCEPT ![m] = FALSE]
  /\ UNCHANGED <<muxCount, muxOwner, muxPriority, muxPended, basePriority, taskVars>>

\* Refused while it is locked or a task waits.
LOS_MuxDelete(m) ==
  /\ Caller("task") /\ muxUsed[m] /\ kern.wait[m] = <<>> /\ muxCount[m] = 0
  /\ unusedMux' = <<m>> \o unusedMux
  /\ muxUsed' = [muxUsed EXCEPT ![m] = FALSE]
  /\ UNCHANGED <<muxCount, muxOwner, muxPriority, muxPended, basePriority, taskVars>>

\* OsMuxValidCheck: not deleted, not in an interrupt, not under the task lock.
OsMuxValidCheck(m) == Caller("task") /\ muxUsed[m] /\ kern.lock = 0

MuxPendOpen(m) ==
  /\ OsMuxValidCheck(m) /\ muxCount[m] = 0
  /\ muxCount' = [muxCount EXCEPT ![m] = 1]
  /\ muxOwner' = [muxOwner EXCEPT ![m] = kern.run]
  /\ muxPriority' = [muxPriority EXCEPT ![m] = kern.priority[kern.run]]
  /\ UNCHANGED <<muxUsed, unusedMux, muxPended, basePriority, taskVars>>

MuxPendAgain(m) ==
  /\ OsMuxValidCheck(m) /\ muxCount[m] \in 1..(MaxNest - 1) /\ muxOwner[m] = kern.run
  /\ muxCount' = [muxCount EXCEPT ![m] = @ + 1]
  /\ UNCHANGED <<muxUsed, muxOwner, muxPriority, unusedMux, muxPended, basePriority, taskVars>>

\* Another task owns it: the owner inherits the running task's priority if
\* that is higher, and the running task waits.
MuxPendWait(m, timed) ==
  LET own   == muxOwner[m]
      lends == kern.priority[own] > kern.priority[kern.run]
      k     == IF lends
               THEN OsSchedModifyTaskSchedParam(kern, own, kern.priority[kern.run])
               ELSE kern IN
  /\ OsMuxValidCheck(m) /\ muxCount[m] > 0 /\ muxOwner[m] # kern.run
  /\ kern' = Committed(kern, OsSchedTaskWait(k, m, timed))
  /\ pc' = [pc EXCEPT ![kern.run] = "block"]
  /\ muxPended' = [muxPended EXCEPT ![kern.run] = m]
  /\ UNCHANGED <<muxUsed, muxCount, muxOwner, muxPriority, unusedMux, basePriority,
                 child, pendSV, tick>>

\* The end of that LOS_MuxPend, after LOS_Schedule.
MuxPendReturn ==
  /\ kern.run \in Task /\ Running("wait") /\ muxPended[kern.run] # NoMux
  /\ kern' = ClearFlag(kern, kern.run, {"TIMEOUT"})
  /\ pc' = [pc EXCEPT ![kern.run] = "run"]
  /\ muxPended' = [muxPended EXCEPT ![kern.run] = NoMux]
  /\ UNCHANGED <<muxUsed, muxCount, muxOwner, muxPriority, unusedMux, basePriority,
                 child, pendSV, tick>>

MayPost(m) == Caller("task") /\ muxUsed[m] /\ muxCount[m] > 0 /\ muxOwner[m] = kern.run

Fault_PostNestedRestores(m) ==
  /\ MayPost(m) /\ muxCount[m] > 1
  /\ muxCount' = [muxCount EXCEPT ![m] = @ - 1]
  /\ kern' = OsSchedModifyTaskSchedParam(kern, kern.run, muxPriority[m])
  /\ UNCHANGED <<muxUsed, muxOwner, muxPriority, unusedMux, muxPended, basePriority,
                 pc, child, pendSV, tick>>

MuxPostNested(m) ==
  /\ MayPost(m) /\ muxCount[m] > 1
  /\ muxCount' = [muxCount EXCEPT ![m] = @ - 1]
  /\ UNCHANGED <<muxUsed, muxOwner, muxPriority, unusedMux, muxPended, basePriority, taskVars>>

Fault_KeepsInherited(m) == kern

\* The last post takes the owner back to the priority it had at the pend.
PriorityRestored(m) ==
  IF kern.priority[muxOwner[m]] # muxPriority[m]
  THEN OsSchedModifyTaskSchedParam(kern, muxOwner[m], muxPriority[m])
  ELSE kern

\* Nobody waits: the mutex is open.  LOS_Schedule is not called.
MuxPostOpen(m) ==
  /\ MayPost(m) /\ muxCount[m] = 1 /\ kern.wait[m] = <<>>
  /\ muxCount' = [muxCount EXCEPT ![m] = 0]
  /\ Finish("task", PriorityRestored(m), FALSE)
  /\ UNCHANGED <<muxUsed, muxOwner, muxPriority, unusedMux, muxPended, basePriority,
                 child, tick>>

Fault_OwnerStays(m) ==
  LET next == Head(kern.wait[m]) IN
  /\ MayPost(m) /\ muxCount[m] = 1 /\ kern.wait[m] # <<>>
  /\ Finish("task", OsSchedTaskWake(PriorityRestored(m), next), TRUE)
  /\ UNCHANGED <<muxVars, child, tick>>

\* The first waiter becomes the owner before it runs.
MuxPostHandOver(m) ==
  LET next == Head(kern.wait[m]) IN
  /\ MayPost(m) /\ muxCount[m] = 1 /\ kern.wait[m] # <<>>
  /\ muxOwner' = [muxOwner EXCEPT ![m] = next]
  /\ muxPriority' = [muxPriority EXCEPT ![m] = kern.priority[next]]
  /\ Finish("task", OsSchedTaskWake(PriorityRestored(m), next), TRUE)
  /\ UNCHANGED <<muxUsed, muxCount, unusedMux, muxPended, basePriority, child, tick>>

MuxService ==
  \/ LOS_MuxCreate \/ MuxPendReturn
  \/ \E m \in Mux :
       \/ LOS_MuxDelete(m)
       \/ MuxPendOpen(m) \/ MuxPendAgain(m)
       \/ \E timed \in BOOLEAN : MuxPendWait(m, timed)
       \/ MuxPostNested(m) \/ MuxPostOpen(m) \/ MuxPostHandOver(m)

Owns(t, m) == muxUsed[m] /\ muxCount[m] > 0 /\ muxOwner[m] = t

SetsBase(t) == \/ kern'.priority[t] # kern.priority[t]
               \/ pc[t] = "none" /\ pc'[t] = "run"
               \/ LOS_TaskPriSet(t, kern'.priority[t])

\* A step of task management that deletes no owner.  A task that is deleted
\* takes the locals of its calls with it.
MuxTaskStep ==
  /\ TaskNext
  /\ \A m \in Mux : Owns(muxOwner[m], m) => pc'[muxOwner[m]] # "none"
  /\ muxPended' = [t \in Task |-> IF pc'[t] = "none" THEN NoMux ELSE muxPended[t]]
  /\ basePriority' = [t \in Task |-> IF SetsBase(t) THEN kern'.priority[t]
                                                     ELSE basePriority[t]]
  /\ UNCHANGED <<muxUsed, muxCount, muxOwner, muxPriority, unusedMux>>

MuxNext == MuxTaskStep \/ MuxService

MuxSpec == TaskInit /\ MuxInit /\ [][MuxNext]_muxAll

OwnsNone(t) == \A m \in Mux : ~Owns(t, m)

OwnersKeepPriority ==
  \A t \in Task, m \in Mux :
    Owns(t, m) => kern'.priority[t] = kern.priority[t] /\ basePriority'[t] = basePriority[t]

\* What LOS_MuxPost needs of the application to give every owner its own
\* priority back: nobody sets an owner's priority, which the post would
\* overwrite, and no owner asks for a second mutex, since each post restores the
\* priority of its own pend, which may have been inherited from the other.
LendingNext ==
  \/ MuxTaskStep /\ OwnersKeepPriority
  \/ LOS_MuxCreate \/ MuxPendReturn
  \/ \E m \in Mux :
       \/ LOS_MuxDelete(m) \/ MuxPendAgain(m)
       \/ MuxPostNested(m) \/ MuxPostOpen(m) \/ MuxPostHandOver(m)
       \/ /\ OwnsNone(kern.run)
          /\ MuxPendOpen(m) \/ \E timed \in BOOLEAN : MuxPendWait(m, timed)

LendingSpec == TaskInit /\ MuxInit /\ [][LendingNext]_muxAll

-----------------------------------------------------------------------------
\* g_unusedMuxList holds exactly the control blocks not in use, each once; a
\* mutex not in use is open and without waiters (LOS_MuxCreate, LOS_MuxDelete).
MuxPoolAgrees ==
  /\ Distinct(unusedMux)
  /\ \A m \in Mux : /\ In(m, unusedMux) <=> ~muxUsed[m]
                    /\ ~muxUsed[m] => kern.wait[m] = <<>> /\ muxCount[m] = 0

MuxServed(m) == {t \in Task : /\ muxPended[t] = m
                             /\ kern.status[t] \cap {"PEND", "TIMEOUT"} = {}}

AbstractMux(m) ==
  INSTANCE Mutex WITH Proc    <- Task,
                      None    <- NoTask,
                      exists  <- muxUsed[m],
                      owner   <- IF muxCount[m] > 0 THEN muxOwner[m] ELSE NoTask,
                      depth   <- muxCount[m],
                      waiters <- kern.wait[m],
                      served  <- MuxServed(m)

\* Every mutex behaves as the module Mutex promises: the hand-over to a waiter
\* that has not run yet, racing with its timeout, its suspension and the
\* scheduling of everybody else, gives one owner at a time, and a LOS_MuxPend
\* that does not report a timeout returns to the owner (los_mux.c as a whole).
ImplementsMutex ==
  /\ \A m \in Mux : AbstractMux(m)!Init
  /\ [][\A m \in Mux : UNCHANGED AbstractMux(m)!vars \/ AbstractMux(m)!Next]_muxAll

\* A task that waits lends its priority to the owner, and the owner keeps what
\* it was lent as long as it owns the mutex.
LentUntilRelease ==
  [][\A m \in Mux, t \in Task :
       (/\ Owns(muxOwner[m], m) /\ muxUsed'[m] /\ muxCount'[m] > 0 /\ muxOwner'[m] = muxOwner[m]
        /\ In(t, kern'.wait[m]) /\ kern'.priority[t] = kern.priority[t]
        /\ In(t, kern.wait[m]) => kern.priority[muxOwner[m]] <= kern.priority[t])
         => kern'.priority[muxOwner[m]] <= kern'.priority[t]]_muxAll

\* A task that owns no mutex runs at its own priority: what it inherited, it
\* gave back with the last post, and what it was given meanwhile counts
\* (LOS_MuxPost's use of muxPosted->priority).
OwnPriority ==
  \A t \in Task : pc[t] # "none" /\ OwnsNone(t) => kern.priority[t] = basePriority[t]

\* "The priority inheritance protocol is supported. If a higher-priority thread
\* is waiting on a mutex, it changes the priority of the thread that owns the
\* mutex to avoid priority inversion" (los_mux.h:236).
PriorityInheritance ==
  \A m \in Mux : \A t \in Task :
    In(t, kern.wait[m]) => kern.priority[muxOwner[m]] <= kern.priority[t]
=============================================================================
