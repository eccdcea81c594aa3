------------------------------ MODULE LosSched ------------------------------
(***************************************************************************)
(* The scheduler of los_sched.c as operators on one kernel state, the way  *)
(* the code has it: helper functions that every service calls, in sequence *)
(* and under LOS_IntLock, on the task control blocks, the ready queues,    *)
(* the sort link of delayed tasks and the wait lists of the IPC objects.   *)
(*                                                                         *)
(* Time is abstract.  Of taskCB->timeSlice only "more than                 *)
(* OS_TIME_SLICE_MIN is left" is kept, and of the sort link only the order *)
(* of its entries: an entry is inserted at any position and a prefix of    *)
(* any length is due when the tick interrupt scans it.                     *)
(*                                                                         *)
(* Definitions named Fault_... are seeded faults: variants of the          *)
(* definition that follows them, which the model-checking runs must tell   *)
(* apart from it.  Nothing uses them otherwise.                            *)
(***************************************************************************)
EXTENDS Integers, Sequences, SequencesExt

CONSTANTS N,           \* LOSCFG_BASE_CORE_TSK_LIMIT: the application's TCBs
          Prio,        \* the priorities in use, 0 being the highest
          WaitObj      \* the IPC objects that own a wait list

ASSUME NAssumption    == N \in Nat \ {0}
ASSUME PrioAssumption == Prio \subseteq Nat /\ Prio # {}

Idle == 0              \* g_idleTaskID
Task == 1..N           \* the TCBs LOS_TaskCreate hands out
Dead == N + 1          \* g_taskCBArray[g_taskMaxNum]
TCB  == 0..(N + 1)


Flag == {"UNUSED", "SUSPEND", "READY", "PEND", "RUNNING", "DELAY",
         "TIMEOUT", "PEND_TIME"}

\* OS_CHECK_TASK_BLOCK
Blocked == {"DELAY", "PEND", "SUSPEND"}

\* The kernel's globals: task control blocks (status, priority, slice), the
\* ready queues with their bitmap, the task sort link, the wait lists, the two
\* lists of TCBs without a task, g_losTask.runTask and g_losTaskLock.  halted
\* is set when LOS_ASSERT fails, which spins with interrupts masked.
Kernel == [status   : [TCB -> SUBSET Flag],
           priority : [Task -> Prio],
           slice    : [Task -> BOOLEAN],
           ready    : [Prio -> Seq(Task)],
           bitmap   : SUBSET Prio,
           sorted   : Seq(Task),
           wait     : [WaitObj -> Seq(Task)],
           free     : Seq(Task),
           recycle  : Seq(Task),
           run      : TCB,
           lock     : Nat,
           halted   : BOOLEAN]

Has(k, t, flag) == flag \in k.status[t]
SetFlag(k, t, flags)   == [k EXCEPT !.status[t] = @ \cup flags]
ClearFlag(k, t, flags) == [k EXCEPT !.status[t] = @ \ flags]

In(t, list) == \E i \in DOMAIN list : list[i] = t

Distinct(list) == \A i, j \in DOMAIN list : list[i] = list[j] => i = j

\* LOS_ListDelete of a TCB's node: the list that holds it, if any, closes up.
Without(list, t) ==
  IF In(t, list)
  THEN RemoveAt(list, CHOOSE i \in DOMAIN list : list[i] = t)
  ELSE list

Unlink(lists, t) == [l \in DOMAIN lists |-> Without(lists[l], t)]

-----------------------------------------------------------------------------
(* Ready queues.                                                           *)

\* A task with slice left goes to the head of its queue; one without gets a
\* new slice and goes to the tail.  Either way more than the minimum is left.
OsSchedTaskEnQueue(k, t) ==
  LET p == k.priority[t]
      marked == [k EXCEPT !.status[t] =
                   (@ \ {"PEND", "SUSPEND", "DELAY", "PEND_TIME"}) \cup {"READY"}]
  IN  IF Has(k, t, "READY") THEN [k EXCEPT !.halted = TRUE]
      ELSE IF t = Idle THEN marked
      ELSE [marked EXCEPT !.bitmap   = @ \cup {p},
                          !.slice[t] = TRUE,
                          !.ready[p] = IF k.slice[t] THEN <<t>> \o @
                                                     ELSE Append(@, t)]

\* The node leaves whatever queue it is in; the bitmap bit cleared is the one
\* of the task's present priority.
OsSchedPriQueueDelete(k, t) ==
  LET p  == k.priority[t]
      qs == Unlink(k.ready, t)
  IN  [k EXCEPT !.ready  = qs,
                !.bitmap = IF qs[p] = <<>> THEN @ \ {p} ELSE @]

OsSchedTaskDeQueue(k, t) ==
  IF ~Has(k, t, "READY") THEN k
  ELSE ClearFlag(IF t = Idle THEN k ELSE OsSchedPriQueueDelete(k, t), t, {"READY"})

\* CLZ of the bitmap, then the first entry of that queue.
OsGetTopTask(k) ==
  IF k.bitmap = {} THEN Idle
  ELSE Head(k.ready[CHOOSE p \in k.bitmap : \A q \in k.bitmap : p <= q])

Fault_PrioritySetFirst(k, t, p) ==
  IF Has(k, t, "READY")
  THEN OsSchedTaskEnQueue(OsSchedTaskDeQueue([k EXCEPT !.priority[t] = p], t), t)
  ELSE [k EXCEPT !.priority[t] = p]

\* What LOS_TaskPriSet and the mutex's priority inheritance call.
OsSchedModifyTaskSchedParam(k, t, p) ==
  IF Has(k, t, "READY")
  THEN OsSchedTaskEnQueue([OsSchedTaskDeQueue(k, t) EXCEPT !.priority[t] = p], t)
  ELSE [k EXCEPT !.priority[t] = p]

\* The same function's result: the caller has to reschedule.
ModifyNeedsSchedule(k, t) == Has(k, t, "READY") \/ Has(k, t, "RUNNING")

-----------------------------------------------------------------------------
(* Blocking, waking, timing out.                                           *)

OsAdd2SortLink(k, t, pos)  == [k EXCEPT !.sorted = InsertAt(@, pos, t)]
OsDeleteSortLink(k, t)     == [k EXCEPT !.sorted = Without(@, t)]

OsSchedDelay(k) == SetFlag(k, k.run, {"DELAY"})

Fault_WaitAtHead(k, obj, timed) ==
  LET t == k.run IN
  [SetFlag(k, t, {"PEND"} \cup (IF timed THEN {"PEND_TIME"} ELSE {}))
     EXCEPT !.wait[obj] = <<t>> \o @]

OsSchedTaskWait(k, obj, timed) ==
  LET t == k.run IN
  [SetFlag(k, t, {"PEND"} \cup (IF timed THEN {"PEND_TIME"} ELSE {}))
     EXCEPT !.wait[obj] = Append(@, t)]

OsSchedTaskWake(k, t) ==
  LET off   == [ClearFlag(k, t, {"PEND"}) EXCEPT !.wait = Unlink(@, t)]
      timed == IF Has(k, t, "PEND_TIME")
               THEN ClearFlag(OsDeleteSortLink(off, t), t, {"PEND_TIME"})
               ELSE off
  IN  IF Has(k, t, "SUSPEND") THEN timed ELSE OsSchedTaskEnQueue(timed, t)

Fault_WakesSuspended(k) ==
  LET t   == Head(k.sorted)
      off == [ClearFlag(k, t, {"PEND", "PEND_TIME", "DELAY"})
                EXCEPT !.sorted = Tail(@), !.wait = Unlink(@, t)]
  IN  OsSchedTaskEnQueue(IF Has(k, t, "PEND") THEN SetFlag(off, t, {"TIMEOUT"})
                                              ELSE off, t)

Fault_StaysOnWaitList(k) ==
  LET t   == Head(k.sorted)
      off == [ClearFlag(k, t, {"PEND", "PEND_TIME", "DELAY"}) EXCEPT !.sorted = Tail(@)]
      out == IF Has(k, t, "PEND") THEN SetFlag(off, t, {"TIMEOUT"}) ELSE off
  IN  IF Has(k, t, "SUSPEND") THEN out ELSE OsSchedTaskEnQueue(out, t)

\* One turn of the loop of OsSchedScanTimerList, for the first entry of the
\* sort link: OsDeleteNodeSortLink, then OsSchedWakePendTimeTask.
OsSchedWakePendTimeTask(k) ==
  LET t     == Head(k.sorted)
      off   == [k EXCEPT !.sorted = Tail(@)]
      timed == [off EXCEPT
                  !.status[t] = (@ \ {"PEND", "PEND_TIME", "DELAY"})
                                  \cup (IF Has(k, t, "PEND") THEN {"TIMEOUT"} ELSE {}),
                  !.wait      = IF Has(k, t, "PEND") THEN Unlink(@, t) ELSE @]
  IN  IF ~Has(k, t, "PEND") /\ ~Has(k, t, "DELAY") THEN off
      ELSE IF Has(k, t, "SUSPEND") THEN timed
      ELSE OsSchedTaskEnQueue(timed, t)

\* needSchedule of the same turn.
WakePendTimeSchedules(k) ==
  LET t == Head(k.sorted)
  IN  (Has(k, t, "PEND") \/ Has(k, t, "DELAY")) /\ ~Has(k, t, "SUSPEND")

Fault_KeepsSortLink(k, t) ==
  LET off == IF Has(k, t, "READY") THEN OsSchedTaskDeQueue(k, t)
             ELSE [k EXCEPT !.wait = Unlink(@, t)]
  IN  ClearFlag(off, t, {"PEND", "DELAY", "PEND_TIME"})

OsSchedTaskExit(k, t) ==
  LET off == IF Has(k, t, "READY") THEN OsSchedTaskDeQueue(k, t)
             ELSE IF Has(k, t, "PEND")
             THEN ClearFlag([k EXCEPT !.wait = Unlink(@, t)], t, {"PEND"})
             ELSE k
  IN  IF Has(k, t, "DELAY") \/ Has(k, t, "PEND_TIME")
      THEN ClearFlag(OsDeleteSortLink(off, t), t, {"DELAY", "PEND_TIME"})
      ELSE off

-----------------------------------------------------------------------------
(* The context switch.                                                     *)

\* OsTimeSliceUpdate: the time since the task's startTime may have used the
\* slice up.
OsTimeSliceUpdate(k, spent) ==
  IF k.run \in Task THEN [k EXCEPT !.slice[k.run] = @ /\ ~spent] ELSE k

\* The first half of OsSchedTaskSwitch: where the task that leaves goes.
LeaveCPU(k, pos) ==
  LET t == k.run IN
  IF Has(k, t, "PEND_TIME") \/ Has(k, t, "DELAY") THEN OsAdd2SortLink(k, t, pos)
  ELSE IF k.status[t] \cap {"PEND", "SUSPEND", "UNUSED"} = {} THEN OsSchedTaskEnQueue(k, t)
  ELSE k

Fault_StillRunning(k, spent, pos) ==
  LET left == LeaveCPU(OsTimeSliceUpdate(k, spent), pos)
      new  == OsGetTopTask(left)
  IN  OsSchedTaskDeQueue([SetFlag(left, new, {"RUNNING"}) EXCEPT !.run = new], new)

OsSchedTaskSwitch(k, spent, pos) ==
  LET left == LeaveCPU(OsTimeSliceUpdate(k, spent), pos)
      new  == OsGetTopTask(left)
      swap == [SetFlag(ClearFlag(left, k.run, {"RUNNING"}), new, {"RUNNING"})
                 EXCEPT !.run = new]
  IN  OsSchedTaskDeQueue(swap, new)

\* A handler that ran into a failed LOS_ASSERT went no further: the state the
\* other contexts could see is the one it started from, and nothing runs on.
Committed(k, new) == IF new.halted THEN [k EXCEPT !.halted = TRUE] ELSE new
=============================================================================
