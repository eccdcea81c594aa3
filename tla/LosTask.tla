------------------------------ MODULE LosTask ------------------------------
(***************************************************************************)
(* Task management (los_task.c), the tick handler and the context switch   *)
(* (los_sched.c): one CPU on which the running task, the interrupts that   *)
(* preempt it and the pended switch take turns.                            *)
(*                                                                         *)
(* A service runs under LOS_IntLock, then restores interrupts, then calls  *)
(* LOS_Schedule.  The three parts are separate steps here: pc[t] says in   *)
(* which of them task t is, so that an interrupt can strike in between.    *)
(***************************************************************************)
EXTENDS LosSched

CONSTANTS Boot,        \* main creates the tasks 1..Boot before LOS_Start
          MaxLock      \* bound on the nesting of LOS_TaskLock

ASSUME BootAssumption    == Boot \in 1..N
ASSUME MaxLockAssumption == MaxLock \in Nat

VARIABLES kern,        \* the scheduler's globals, a Kernel of LosSched
          pc,          \* where each task is in the service it called
          child,       \* the TCB a task in LOS_TaskCreateOnly has taken
          pendSV,      \* HalTaskSchedule was called, the switch is pending
          tick         \* where the tick handler is

taskVars == <<kern, pc, child, pendSV, tick>>

NoTask == 0

\* "run"    the task's own code
\* "alloc"  LOS_TaskCreateOnly has taken a TCB and allocates the stack
\* "enq"    LOS_TaskCreate is between LOS_TaskCreateOnly and the ready queue
\* "sched"  interrupts restored, LOS_Schedule not called yet
\* "block"  the same in a service that has put the task on a wait list
\* "wait"   in LOS_Schedule of such a service; next it looks at TIMEOUT
\* "none"   no such task
PC == {"run", "alloc", "enq", "sched", "block", "wait", "none"}

\* The tick handler is out, or in OsSchedScanTimerList without or with
\* needSched set.
Tick == {"out", "scan", "scanSched"}

TaskTypeOK == /\ kern \in Kernel
              /\ pc \in [TCB -> PC]
              /\ child \in [Task -> Task \cup {NoTask}]
              /\ pendSV \in BOOLEAN
              /\ tick \in Tick

\* The kernel has started (OsSchedStart).  Main made task 1 with
\* LOS_TaskCreate, so it runs, and the other boot tasks, of any priority, with
\* LOS_TaskCreateOnly; the idle task is ready and the other TCBs are free.
TaskInit ==
  /\ \E p \in [Task -> Prio] :
       kern = [status   |-> [t \in TCB |-> CASE t = Idle     -> {"READY"}
                                             [] t = 1        -> {"RUNNING"}
                                             [] t \in 2..Boot -> {"SUSPEND"}
                                             [] OTHER        -> {"UNUSED"}],
               priority |-> p,
               slice    |-> [t \in Task |-> t = 1],
               ready    |-> [q \in Prio |-> <<>>],
               bitmap   |-> {},
               sorted   |-> <<>>,
               wait     |-> [o \in WaitObj |-> <<>>],
               free     |-> [i \in 1..(N - Boot) |-> Boot + i],
               recycle  |-> <<>>,
               run      |-> 1,
               lock     |-> 0,
               halted   |-> FALSE]
  /\ pc = [t \in TCB |-> IF t \in 0..Boot THEN "run" ELSE "none"]
  /\ child = [t \in Task |-> NoTask]
  /\ pendSV = FALSE
  /\ tick = "out"

-----------------------------------------------------------------------------
(* Who calls a service, and how it ends.                                   *)

\* The running task executes: no switch is pending, no handler is active.
Running(where) ==
  ~kern.halted /\ ~pendSV /\ tick = "out" /\ pc[kern.run] = where

\* A service is called by the running task's code, or by an interrupt handler
\* at any moment at which interrupts are enabled.
Caller(ctx) ==
  \/ ctx = "task" /\ kern.run \in Task /\ Running("run")
  \/ ctx = "isr"  /\ ~kern.halted /\ tick = "out"

Context == {"task", "isr"}

\* A task created but not yet announced by LOS_TaskCreate: no other code has
\* its ID.
Unannounced(t) == \E c \in Task : pc[c] = "enq" /\ child[c] = t

Exists(t) == ~Has(kern, t, "UNUSED") /\ ~Unannounced(t)

\* The end of a service called in ctx that leaves kernel state new: with
\* resched, a task still has to call LOS_Schedule, and an interrupt handler
\* calls it at once, which pends the switch unless the tasks are locked.
Finish(ctx, new, resched) ==
  /\ kern' = Committed(kern, new)
  /\ IF ctx = "task"
     THEN /\ pc' = [pc EXCEPT ![kern.run] = IF resched THEN "sched" ELSE "run"]
          /\ UNCHANGED pendSV
     ELSE /\ pendSV' = (pendSV \/ (resched /\ new.lock = 0))
          /\ UNCHANGED pc

\* LOS_Schedule at the end of a service.
LOS_Schedule ==
  /\ kern.run # Idle
  /\ \/ Running("sched") /\ pc' = [pc EXCEPT ![kern.run] = "run"]
     \/ Running("block") /\ pc' = [pc EXCEPT ![kern.run] = "wait"]
  /\ pendSV' = (kern.lock = 0)
  /\ UNCHANGED <<kern, child, tick>>

\* The pended switch: HalPendSV, then OsSchedTaskSwitch.
HalPendSV ==
  /\ pendSV /\ tick = "out" /\ ~kern.halted
  /\ \E spent \in BOOLEAN, pos \in 1..(Len(kern.sorted) + 1) :
       kern' = Committed(kern, OsSchedTaskSwitch(kern, spent, pos))
  /\ pendSV' = FALSE
  /\ UNCHANGED <<pc, child, tick>>

-----------------------------------------------------------------------------
(* Creation and deletion.                                                  *)

Fault_RecyclesAgain(k) == [k EXCEPT !.free = Reverse(k.recycle) \o @]

\* OsRecyleFinishedTask: the finished tasks' TCBs, first one first, go to the
\* head of the free list, their stacks to the heap.
OsRecyleFinishedTask(k) ==
  [k EXCEPT !.free = Reverse(k.recycle) \o @, !.recycle = <<>>]

OsIdleTask ==
  /\ kern.run = Idle /\ Running("run") /\ kern.recycle # <<>>
  /\ kern' = OsRecyleFinishedTask(kern)
  /\ UNCHANGED <<pc, child, pendSV, tick>>

\* LOS_TaskCreateOnly down to LOS_IntRestore: recycle, then take a TCB.
TaskCreateTake ==
  LET k == OsRecyleFinishedTask(kern) IN
  /\ kern.run \in Task /\ Running("run")
  /\ k.free # <<>>
  /\ kern' = [k EXCEPT !.free = Tail(@)]
  /\ child' = [child EXCEPT ![kern.run] = Head(k.free)]
  /\ pc' = [pc EXCEPT ![kern.run] = "alloc"]
  /\ UNCHANGED <<pendSV, tick>>

\* No TCB left; the finished tasks are recycled all the same.
TaskCreateUnavailable ==
  LET k == OsRecyleFinishedTask(kern) IN
  /\ kern.run \in Task /\ Running("run")
  /\ k.free = <<>>
  /\ kern' = k
  /\ UNCHANGED <<pc, child, pendSV, tick>>

\* The stack cannot be allocated: the TCB goes back.
TaskCreateNoMemory ==
  /\ kern.run \in Task /\ Running("alloc")
  /\ kern' = [kern EXCEPT !.free = <<child[kern.run]>> \o @]
  /\ child' = [child EXCEPT ![kern.run] = NoTask]
  /\ pc' = [pc EXCEPT ![kern.run] = "run"]
  /\ UNCHANGED <<pendSV, tick>>

\* OsNewTaskInit(new task, priority p): every field of the TCB, no list.
OsNewTaskInit(k, t, p) ==
  [k EXCEPT !.status[t] = {"SUSPEND"}, !.priority[t] = p, !.slice[t] = FALSE]

\* The end of LOS_TaskCreateOnly, which leaves the new task suspended.
LOS_TaskCreateOnly ==
  LET t == child[kern.run] IN
  /\ kern.run \in Task /\ Running("alloc")
  /\ \E p \in Prio : kern' = OsNewTaskInit(kern, t, p)
  /\ child' = [child EXCEPT ![kern.run] = NoTask]
  /\ pc' = [pc EXCEPT ![kern.run] = "run", ![t] = "run"]
  /\ UNCHANGED <<pendSV, tick>>

\* The same inside LOS_TaskCreate, which goes on ...
TaskCreateInit ==
  LET t == child[kern.run] IN
  /\ kern.run \in Task /\ Running("alloc")
  /\ \E p \in Prio : kern' = OsNewTaskInit(kern, t, p)
  /\ pc' = [pc EXCEPT ![kern.run] = "enq", ![t] = "run"]
  /\ UNCHANGED <<child, pendSV, tick>>

\* ... to put the task into its ready queue and reschedule.
LOS_TaskCreate ==
  /\ kern.run \in Task /\ Running("enq")
  /\ Finish("task", OsSchedTaskEnQueue(kern, child[kern.run]), TRUE)
  /\ child' = [child EXCEPT ![kern.run] = NoTask]
  /\ UNCHANGED tick

\* What LOS_TaskDelete leaves of the task in every case.
Erased(k, t) == [OsSchedTaskExit(k, t) EXCEPT !.status[t] = {"UNUSED"}]

\* Deleting a task that does not run returns its TCB and stack at once.
TaskDeleteOther(ctx, t) ==
  /\ Caller(ctx) /\ Exists(t) /\ ~Has(kern, t, "RUNNING")
  /\ kern' = [Erased(kern, t) EXCEPT !.free = <<t>> \o @]
  /\ pc' = [pc EXCEPT ![t] = "none"]
  /\ child' = [child EXCEPT ![t] = NoTask]
  /\ UNCHANGED <<pendSV, tick>>

Fault_FreesOwnStack(ctx, t) ==
  /\ Caller(ctx) /\ Exists(t) /\ Has(kern, t, "RUNNING")
  /\ kern' = [Erased(kern, t) EXCEPT !.free = <<t>> \o @, !.run = Dead, !.lock = 0,
                                     !.status[Dead] = {"UNUSED", "RUNNING"}]
  /\ pc' = [pc EXCEPT ![t] = "none", ![Dead] = "sched"]
  /\ pendSV' = (pendSV \/ ctx = "isr")
  /\ child' = [child EXCEPT ![t] = NoTask]
  /\ UNCHANGED tick

\* OsRunningTaskDelete: the running task stays on its stack until the switch,
\* so its TCB is only queued for recycling, and the spare TCB stands in for
\* it.  A task lock held is dropped.
OsRunningTaskDelete(ctx, t) ==
  LET gone == Erased(kern, t)
      new  == [gone EXCEPT !.recycle = Append(@, t),
                           !.run     = Dead,
                           !.lock    = 0,
                           !.status[Dead] = {"UNUSED", "RUNNING"}] IN
  /\ Caller(ctx) /\ Exists(t) /\ Has(kern, t, "RUNNING")
  /\ kern' = new
  /\ pc' = [pc EXCEPT ![t] = "none", ![Dead] = "sched"]
  /\ pendSV' = (pendSV \/ ctx = "isr")
  /\ child' = [child EXCEPT ![t] = NoTask]
  /\ UNCHANGED tick

-----------------------------------------------------------------------------
(* The other services on tasks.                                            *)

LOS_TaskSuspend(ctx, t) ==
  LET off == OsSchedTaskDeQueue(kern, t) IN
  /\ Caller(ctx) /\ Exists(t)
  /\ ~Has(kern, t, "SUSPEND")
  /\ ~(Has(kern, t, "RUNNING") /\ kern.lock # 0)
  /\ Finish(ctx, SetFlag(off, t, {"SUSPEND"}), t = kern.run)
  /\ UNCHANGED <<child, tick>>

LOS_TaskResume(ctx, t) ==
  LET k == ClearFlag(kern, t, {"SUSPEND"})
      isReady == k.status[t] \cap Blocked = {} IN
  /\ Caller(ctx) /\ Exists(t)
  /\ Has(kern, t, "SUSPEND")
  /\ Finish(ctx, IF isReady THEN OsSchedTaskEnQueue(k, t) ELSE k, isReady)
  /\ UNCHANGED <<child, tick>>

\* Not allowed in an interrupt (los_task.h:800).
LOS_TaskPriSet(t, p) ==
  /\ Caller("task") /\ Exists(t)
  /\ Finish("task", OsSchedModifyTaskSchedParam(kern, t, p), ModifyNeedsSchedule(kern, t))
  /\ UNCHANGED <<child, tick>>

\* Refused in an interrupt and under the task lock.
LOS_TaskDelay ==
  /\ Caller("task") /\ kern.lock = 0
  /\ Finish("task", OsSchedDelay(kern), TRUE)
  /\ UNCHANGED <<child, tick>>

\* OsSchedYield gives the rest of the slice up.
LOS_TaskYield ==
  /\ Caller("task")
  /\ Finish("task", [kern EXCEPT !.slice[kern.run] = FALSE], TRUE)
  /\ UNCHANGED <<child, tick>>

LOS_TaskLock ==
  /\ Caller("task") /\ kern.lock < MaxLock
  /\ Finish("task", [kern EXCEPT !.lock = @ + 1], FALSE)
  /\ UNCHANGED <<child, tick>>

Fault_UnlockOnly ==
  /\ Caller("task") /\ kern.lock > 0
  /\ Finish("task", [kern EXCEPT !.lock = @ - 1], FALSE)
  /\ UNCHANGED <<child, tick>>

Fault_UnlockBelowZero ==
  /\ Caller("task")
  /\ Finish("task", [kern EXCEPT !.lock = @ - 1], kern.lock = 1)
  /\ UNCHANGED <<child, tick>>

LOS_TaskUnlock ==
  /\ Caller("task") /\ kern.lock > 0
  /\ Finish("task", [kern EXCEPT !.lock = @ - 1], kern.lock = 1)
  /\ UNCHANGED <<child, tick>>

-----------------------------------------------------------------------------
(* The tick handler, with interrupts masked from its first step to its     *)
(* last.                                                                   *)

\* Both ends that do not pend a switch: the slice of the running task is
\* charged with the time elapsed.
TickCharge(k) == \E spent \in BOOLEAN : kern' = OsTimeSliceUpdate(k, spent)

\* The timer was set for the end of the running task's slice
\* (g_schedResponseID # OS_INVALID): nothing is scanned.
TickSliceEnd ==
  /\ ~kern.halted /\ tick = "out"
  /\ TickCharge(kern)
  /\ UNCHANGED <<pc, child, pendSV, tick>>

\* It was set for a delayed task.
TickEnter ==
  /\ ~kern.halted /\ tick = "out"
  /\ tick' = "scan"
  /\ UNCHANGED <<kern, pc, child, pendSV>>

TickExpire ==
  /\ tick # "out" /\ ~kern.halted /\ kern.sorted # <<>>
  /\ kern' = Committed(kern, OsSchedWakePendTimeTask(kern))
  /\ tick' = IF WakePendTimeSchedules(kern) THEN "scanSched" ELSE tick
  /\ UNCHANGED <<pc, child, pendSV>>

Fault_TickIgnoresLock ==
  /\ tick # "out" /\ ~kern.halted
  /\ tick' = "out"
  /\ IF tick = "scanSched" THEN pendSV' = TRUE /\ UNCHANGED kern
     ELSE TickCharge(kern) /\ UNCHANGED pendSV
  /\ UNCHANGED <<pc, child>>

TickExit ==
  /\ tick # "out" /\ ~kern.halted
  /\ tick' = "out"
  /\ IF tick = "scanSched" /\ kern.lock = 0
     THEN pendSV' = TRUE /\ UNCHANGED kern
     ELSE TickCharge(kern) /\ UNCHANGED pendSV
  /\ UNCHANGED <<pc, child>>

-----------------------------------------------------------------------------
TaskService ==
  \/ TaskCreateTake \/ TaskCreateUnavailable \/ TaskCreateNoMemory
  \/ LOS_TaskCreateOnly \/ TaskCreateInit \/ LOS_TaskCreate
  \/ \E ctx \in Context, t \in Task :
       \/ TaskDeleteOther(ctx, t) \/ OsRunningTaskDelete(ctx, t)
       \/ LOS_TaskSuspend(ctx, t) \/ LOS_TaskResume(ctx, t)
  \/ \E t \in Task, p \in Prio : LOS_TaskPriSet(t, p)
  \/ LOS_TaskDelay \/ LOS_TaskYield \/ LOS_TaskLock \/ LOS_TaskUnlock

\* A failed LOS_ASSERT ends in while (1).
AssertSpins == kern.halted /\ UNCHANGED taskVars

TaskSystem ==
  \/ LOS_Schedule \/ HalPendSV \/ OsIdleTask \/ AssertSpins
  \/ TickSliceEnd \/ TickEnter \/ TickExpire \/ TickExit

TaskNext == TaskService \/ TaskSystem

TaskSpec == TaskInit /\ [][TaskNext]_taskVars

-----------------------------------------------------------------------------
(* Safety of the scheduler's data structures.                              *)

\* A task is in a ready queue exactly when its status says READY, once, and
\* in the queue of its present priority, whatever changed its priority or
\* state meanwhile; the bitmap OsGetTopTask trusts has exactly the bits of the
\* queues that hold tasks (los_sched.c: OsSchedTaskEnQueue/DeQueue).
ReadyQueuesAgree ==
  /\ \A p \in Prio :
       /\ Distinct(kern.ready[p])
       /\ p \in kern.bitmap <=> kern.ready[p] # <<>>
       /\ \A t \in Task :
            In(t, kern.ready[p]) <=> Has(kern, t, "READY") /\ kern.priority[t] = p

\* The sort link holds exactly the tasks that wait for a time and have left
\* the CPU, each once: a task that is woken, resumed or deleted leaves no stale
\* entry behind that would wake a later wait (OsDeleteSortLink's callers).
SortLinkAgrees ==
  /\ Distinct(kern.sorted)
  /\ \A t \in Task :
       In(t, kern.sorted) <=> /\ Has(kern, t, "DELAY") \/ Has(kern, t, "PEND_TIME")
                              /\ t # kern.run

\* A task is on a wait list exactly when its status says PEND, on one list and
\* once: neither a wake-up nor a timeout nor deletion nor suspension separates
\* the two (OsSchedTaskWait, OsSchedTaskWake, OsSchedWakePendTimeTask).
WaitListsAgree ==
  /\ \A o \in WaitObj : Distinct(kern.wait[o])
  /\ \A t \in Task :
       /\ Has(kern, t, "PEND") <=> \E o \in WaitObj : In(t, kern.wait[o])
       /\ \A o1, o2 \in WaitObj :
            In(t, kern.wait[o1]) /\ In(t, kern.wait[o2]) => o1 = o2

\* The flag that tells a wait it timed out belongs to the wait that is under
\* way: it is read by the service that waited and never survives into another
\* call, where it would turn a success into a timeout.
NoStaleTimeout ==
  \A t \in Task : Has(kern, t, "TIMEOUT") => pc[t] \in {"block", "wait"}

Pooled(k, t) == In(t, k.free) \/ In(t, k.recycle)

\* A TCB is never handed out twice and never reused while its task lives: the
\* free list, the recycle list and the TCBs in creation are disjoint, hold each
\* TCB once and only unused ones (LOS_TaskCreateOnly, LOS_TaskDelete,
\* OsRecyleFinishedTask).
PoolsAgree ==
  /\ Distinct(kern.free) /\ Distinct(kern.recycle)
  /\ \A t \in Task :
       /\ ~(In(t, kern.free) /\ In(t, kern.recycle))
       /\ Pooled(kern, t) => kern.status[t] = {"UNUSED"}
       /\ pc[t] = "alloc" => /\ kern.status[child[t]] = {"UNUSED"}
                             /\ ~Pooled(kern, child[t])
                             /\ \A u \in Task : child[u] = child[t] => u = t

\* One task runs, the one runTask points to; a task that is ready is not
\* blocked; a task in the pool has no other state (los_task.h's status flags).
StatusesAgree ==
  \A t \in TCB :
    /\ Has(kern, t, "RUNNING") <=> t = kern.run
    /\ Has(kern, t, "READY") => kern.status[t] \cap (Blocked \cup {"UNUSED"}) = {}
    /\ Has(kern, t, "UNUSED") => kern.status[t] \subseteq {"UNUSED", "RUNNING"}
    /\ Has(kern, t, "PEND_TIME") => Has(kern, t, "PEND")

\* Preemption by priority: when no switch is pending and the running task has
\* no LOS_Schedule left to call, no ready task has a higher priority than it
\* (every service that readies a task or changes a priority reschedules).
HighestRuns ==
  (/\ ~kern.halted /\ ~pendSV /\ tick = "out" /\ kern.lock = 0
   /\ pc[kern.run] \notin {"sched", "block"})
    => \A t \in Task : Has(kern, t, "READY") =>
         kern.run \in Task /\ kern.priority[kern.run] <= kern.priority[t]

\* LOS_TaskLock: while a task holds the lock no other task gets the CPU.
NoSwitchUnderLock ==
  [][kern.lock > 0 /\ kern'.lock > 0 => kern'.run = kern.run]_taskVars

\* A task that deletes itself still executes on its stack until the switch;
\* its TCB waits for that in the recycle list.
FinishedStackKept == kern.run = Dead => kern.recycle # <<>>

\* Only LOS_TaskResume, the completion of LOS_TaskCreate and deletion end a
\* suspension: a post, a timeout or an expired delay of a suspended task does
\* not make it run (OsSchedTaskWake, OsSchedWakePendTimeTask).
SuspensionHolds ==
  [][\A t \in Task :
       Has(kern, t, "SUSPEND") /\ "SUSPEND" \notin kern'.status[t]
         => \/ \E ctx \in Context : LOS_TaskResume(ctx, t)
            \/ kern.run \in Task /\ child[kern.run] = t /\ LOS_TaskCreate
            \/ kern'.status[t] = {"UNUSED"}]_taskVars

\* The assertion in OsSchedTaskEnQueue (los_sched.c:280): a task that is put
\* into a ready queue is not in one already.
AssertionsHold == ~kern.halted
=============================================================================
