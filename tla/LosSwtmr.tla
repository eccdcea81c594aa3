------------------------------ MODULE LosSwtmr ------------------------------
(***************************************************************************)
(* Software timers (los_swtmr.c) and the tick handler that serves them and *)
(* the delayed tasks (los_sched.c), with their times.  The configuration   *)
(* is LOSCFG_BASE_CORE_SWTMR_ALIGN = 0.                                    *)
(*                                                                         *)
(* LosTask has what the scheduler does with tasks; here a context switch   *)
(* is any step that may delay a task and gives the CPU to one with some    *)
(* part of its slice left, or to the idle task.                            *)
(***************************************************************************)
EXTENDS LosSortLink, FiniteSets

CONSTANTS LIMIT,       \* LOSCFG_BASE_CORE_SWTMR_LIMIT
          MaxGen,      \* OS_SWTMR_MAX_TIMERID / LIMIT
          Kind,        \* what timers are created with: mode, interval in ticks
          Sleeper,     \* the tasks that call LOS_TaskDelay
          Delay,       \* for how many ticks
          Slice,       \* what may be left of the running task's slice, in cycles
          Latency      \* how many cycles the tick interrupt may be kept waiting

ASSUME SwtmrAssumption ==
  /\ LIMIT \in Nat \ {0} /\ MaxGen \in Nat \ {0, 1} /\ Latency \in Nat
  /\ Kind \subseteq [mode : {"ONCE", "PERIOD", "NO_SELFDELETE"}, interval : Nat \ {0}]
  /\ Delay \subseteq Nat \ {0} /\ Slice \subseteq Nat \ {0}
  /\ \A d \in Delay \cup {k.interval : k \in Kind} : (d + 1) * OS_CYCLE_PER_TICK <= Never

\* OS_US_PER_TICK is in microseconds, and no slice has less than
\* OS_TIME_SLICE_MIN left, 50 of them: from 20 MHz on at 1000 ticks a second.
\* Below, the end of a slice may come before the entry that what is due waits for.
ASSUME SliceAssumption ==
  /\ OS_US_PER_TICK <= OS_CYCLE_PER_TICK
  /\ \A left \in Slice : left >= OS_US_PER_TICK

Index   == 0..(LIMIT - 1)
TimerID == 0..(LIMIT * MaxGen - 1)

\* The mode and interval of a timer that is not in use are never read.
NoKind == [mode |-> "ONCE", interval |-> 0]

VARIABLES cb,          \* g_swtmrCBArray: usTimerID, ucState, ucMode and uwInterval
          freeList,    \* g_swtmrFreeList
          creating,    \* taken by LOS_SwtmrCreate and not filled in yet
          handlerQueue,   \* g_swtmrHandlerQueue, the timers whose handlers it names
          swtmrLink, taskLink,
          timer,       \* a Timer of LosSortLink
          switching,   \* HalTaskSchedule was called
          held         \* not in the code: the IDs that were given to the
                       \* application and that it has not deleted

vars == <<cb, freeList, creating, handlerQueue, swtmrLink, taskLink, timer, switching, held>>

\* OsSwtmrInit, and the first switch of LOS_Start to a task that computes.
Init == /\ cb = [i \in Index |-> [id |-> i, state |-> "UNUSED", kind |-> NoKind]]
        /\ freeList = [i \in 1..LIMIT |-> i - 1]
        /\ creating = {} /\ handlerQueue = <<>>
        /\ swtmrLink = <<>> /\ taskLink = <<>>
        /\ \E end \in Slice :
             timer = OsSchedSetNextExpireTime([time |-> Never, slice |-> FALSE], Never, end)
        /\ switching = FALSE /\ held = {}

\* What OsSchedUpdateExpireTime, or the end of OsSchedTaskSwitch, may make of
\* the timer; the idle task has no slice.
TimerSets(old, tasks, swtmrs) ==
  LET next == OsGetNextExpireTime(tasks, swtmrs) IN
  {OsSchedSetNextExpireTime(old, next, end) : end \in Slice \cup {Never}}

-----------------------------------------------------------------------------
SwtmrCreateTake ==
  /\ freeList # <<>>
  /\ freeList' = Tail(freeList)
  /\ creating' = creating \cup {Head(freeList)}
  /\ UNCHANGED <<cb, handlerQueue, swtmrLink, taskLink, timer, switching, held>>

\* With interrupts enabled: the control block is in nobody else's hands.
SwtmrCreateFill(i, kind) ==
  /\ i \in creating
  /\ cb' = [cb EXCEPT ![i].state = "CREATED", ![i].kind = kind]
  /\ creating' = creating \ {i}
  /\ held' = held \cup {cb[i].id}
  /\ UNCHANGED <<freeList, handlerQueue, swtmrLink, taskLink, timer, switching>>

\* The application's ID is refused unless it is the control block's.
Valid(id) == cb[id % LIMIT].id = id

OsSwtmrStart(link, i) ==
  OsAddNode2SortLink(link, Entry(i, cb[i].kind.interval * OS_CYCLE_PER_TICK))

\* A timer that is ticking is stopped first and starts anew; each of the two
\* sets the hardware timer.
LOS_SwtmrStart(id) ==
  LET i       == id % LIMIT
      stopped == OsDeleteSortLink(swtmrLink, i) IN
  /\ Valid(id) /\ cb[i].state # "UNUSED"
  /\ cb' = [cb EXCEPT ![i].state = "TICKING"]
  /\ swtmrLink' = OsSwtmrStart(stopped, i)
  /\ \E old \in IF cb[i].state = "TICKING" THEN TimerSets(timer, taskLink, stopped) ELSE {timer} :
       timer' \in TimerSets(old, taskLink, swtmrLink')
  /\ UNCHANGED <<freeList, creating, handlerQueue, taskLink, switching, held>>

LOS_SwtmrStop(id) ==
  LET i == id % LIMIT IN
  /\ Valid(id) /\ cb[i].state = "TICKING"
  /\ cb' = [cb EXCEPT ![i].state = "CREATED"]
  /\ swtmrLink' = OsDeleteSortLink(swtmrLink, i)
  /\ timer' \in TimerSets(timer, taskLink, swtmrLink')
  /\ UNCHANGED <<freeList, creating, handlerQueue, taskLink, switching, held>>

Fault_DeletesTicking(id) ==
  LET i == id % LIMIT IN
  /\ Valid(id) /\ cb[i].state # "UNUSED"
  /\ cb' = [cb EXCEPT ![i].state = "UNUSED", ![i].kind = NoKind]
  /\ freeList' = <<i>> \o freeList
  /\ held' = held \ {id}
  /\ UNCHANGED <<creating, handlerQueue, swtmrLink, taskLink, timer, switching>>

\* The ID stays the control block's: the next timer created from it has it too.
LOS_SwtmrDelete(id) ==
  LET i == id % LIMIT IN
  /\ Valid(id) /\ cb[i].state # "UNUSED"
  /\ cb' = [cb EXCEPT ![i].state = "UNUSED", ![i].kind = NoKind]
  /\ freeList' = <<i>> \o freeList
  /\ swtmrLink' = OsDeleteSortLink(swtmrLink, i)
  /\ held' = held \ {id}
  /\ timer' \in IF cb[i].state = "TICKING" THEN TimerSets(timer, taskLink, swtmrLink') ELSE {timer}
  /\ UNCHANGED <<creating, handlerQueue, taskLink, switching>>

\* OsSwtmrTask handles one expiry.
OsSwtmrTask ==
  /\ handlerQueue # <<>>
  /\ handlerQueue' = Tail(handlerQueue)
  /\ UNCHANGED <<cb, freeList, creating, swtmrLink, taskLink, timer, switching, held>>

-----------------------------------------------------------------------------
Fault_KeepsID(id) == id

\* A one-shot timer that expires leaves its ID for good, or until the
\* numbers have run out.
NextID(id) == IF id < LIMIT * (MaxGen - 1) THEN id + LIMIT ELSE id % LIMIT

\* OsSwtmrTimeoutHandle for an entry of the sort link, which is taken out of it.
\* s has the variables OsSwtmrScan changes.  OsSwtmrStart sets the hardware
\* timer in vain here: it cannot gain on the time that has come.
OsSwtmrTimeoutHandle(s, e) ==
  LET i      == e.node
      mode   == s.cb[i].kind.mode
      id     == s.cb[i].id
      link   == OsDeleteSortLink(s.link, i)
      queue  == IF Len(s.queue) < LIMIT THEN Append(s.queue, id) ELSE s.queue
      next   == NextID(id) IN
  IF mode = "ONCE" THEN
    [s EXCEPT !.cb[i] = [id |-> next, state |-> "UNUSED", kind |-> NoKind],
              !.free = <<i>> \o s.free, !.link = link, !.queue = queue]
  ELSE IF mode = "PERIOD" THEN
    [s EXCEPT !.link = OsSwtmrStart(link, i), !.queue = queue]
  ELSE
    [s EXCEPT !.cb[i].state = "CREATED", !.link = link, !.queue = queue]

Fault_ScansAhead(link) ==
  SubSeq(link, 1, Cardinality({i \in DOMAIN link : link[i].time <= OS_US_PER_TICK}))

\* What a scan finds: the entries from the head that are due.  Interrupts are
\* disabled, so that all of it is at one time.
Scanned(link) ==
  SubSeq(link, 1, CHOOSE n \in 0..Len(link) :
                    /\ \A i \in 1..n : link[i].time <= 0
                    /\ n < Len(link) => link[n + 1].time > 0)

OsSwtmrScan(s) ==
  LET due == Scanned(s.link)
      scan[n \in 0..Len(due)] ==
        IF n = 0 THEN s ELSE OsSwtmrTimeoutHandle(scan[n - 1], due[n])
  IN  scan[Len(due)]

Swtmrs == [cb |-> cb, free |-> freeList, link |-> swtmrLink, queue |-> handlerQueue]

SwtmrsBecome(s) == /\ cb' = s.cb /\ freeList' = s.free
                   /\ swtmrLink' = s.link /\ handlerQueue' = s.queue

\* The interrupt was set for the end of a slice: nothing is scanned.
SliceResponse == timer.slice

\* The hardware counts down to timer.time, or repeats when it was not set again.
\* A task that wakes, and the timer task, pend a switch unless the task lock is
\* held.
LOS_SchedTickHandler ==
  LET found   == Scanned(swtmrLink) # <<>> \/ Scanned(taskLink) # <<>>
      expired == [timer EXCEPT !.time = Never] IN
  /\ timer.time <= 0 \/ timer.time = Never
  /\ IF SliceResponse
     THEN UNCHANGED <<cb, freeList, handlerQueue, swtmrLink, taskLink>>
     ELSE /\ SwtmrsBecome(OsSwtmrScan(Swtmrs))
          /\ taskLink' = SubSeq(taskLink, Len(Scanned(taskLink)) + 1, Len(taskLink))
  /\ \/ ~SliceResponse /\ found /\ switching' = TRUE /\ timer' = expired
     \/ UNCHANGED switching /\ timer' \in TimerSets(expired, taskLink', swtmrLink')
  \* An ID that comes round again was forgotten by the application long ago.
  /\ held' = held \ {cb'[i].id : i \in {j \in Index : cb'[j].id # cb[j].id}}
  /\ UNCHANGED creating

\* OsSchedTaskSwitch: the task that leaves the CPU may have called LOS_TaskDelay
\* or wait for a time.
OsSchedTaskSwitch ==
  /\ \/ UNCHANGED taskLink
     \/ \E t \in Sleeper \ Nodes(taskLink), d \in Delay :
          taskLink' = OsAddNode2SortLink(taskLink, Entry(t, d * OS_CYCLE_PER_TICK))
  /\ timer' \in TimerSets(timer, taskLink', swtmrLink)
  /\ switching' = FALSE
  /\ UNCHANGED <<cb, freeList, creating, handlerQueue, swtmrLink, held>>

\* A task that waits for a time is served, or deleted.
OsSchedTaskWake(t) ==
  /\ t \in Nodes(taskLink)
  /\ taskLink' = OsDeleteSortLink(taskLink, t)
  /\ switching' \in {switching, TRUE}
  /\ UNCHANGED <<cb, freeList, creating, handlerQueue, swtmrLink, timer, held>>

\* A cycle passes.  The tick interrupt is taken within Latency cycles, and a
\* switch that is pending at once.
Elapse ==
  LET Passed(link) == [i \in DOMAIN link |-> [link[i] EXCEPT !.time = @ - 1]] IN
  /\ timer.time > -Latency /\ ~switching
  /\ swtmrLink' = Passed(swtmrLink) /\ taskLink' = Passed(taskLink)
  /\ timer' = IF timer.time = Never THEN timer ELSE [timer EXCEPT !.time = @ - 1]
  /\ UNCHANGED <<cb, freeList, creating, handlerQueue, switching, held>>

Next ==
  \/ SwtmrCreateTake \/ \E i \in Index, kind \in Kind : SwtmrCreateFill(i, kind)
  \/ \E id \in held : LOS_SwtmrStart(id) \/ LOS_SwtmrStop(id) \/ LOS_SwtmrDelete(id)
  \/ OsSwtmrTask
  \/ LOS_SchedTickHandler
  \/ OsSchedTaskSwitch
  \/ \E t \in Sleeper : OsSchedTaskWake(t)
  \/ Elapse

Spec == Init /\ [][Next]_vars

-----------------------------------------------------------------------------
\* A control block is free, being created or in use, and the sort link holds the
\* timers that tick, each once and in the order of their times (LOS_SwtmrCreate,
\* OsSwtmrStart, OsSwtmrStop, OsSwtmrDelete, OsSwtmrTimeoutHandle).
SwtmrPoolAgrees ==
  /\ IsInjective(freeList) /\ Range(freeList) \cap creating = {}
  /\ \A i \in Index : i \in Range(freeList) \cup creating <=> cb[i].state = "UNUSED"
  /\ IsInjective([k \in DOMAIN swtmrLink |-> swtmrLink[k].node])
  /\ \A i \in Index : i \in Nodes(swtmrLink) <=> cb[i].state = "TICKING"
  /\ \A j, k \in DOMAIN swtmrLink : j < k => swtmrLink[j].time <= swtmrLink[k].time

\* A timer about to be created never has an ID that the application still holds
\* from a one-shot timer that expired, so a late LOS_SwtmrStart, Stop or Delete
\* cannot hit another timer (the change of usTimerID in OsSwtmrTimeoutHandle).
HandlesAreFresh ==
  \A i \in Index : cb[i].state = "UNUSED" <=> cb[i].id \notin held

\* The latest an entry of the sort link is served: the timer may be set a tick
\* too late because a tick is the least it gains, and the interrupt may be that
\* of a slice, which scans nothing and sets the timer for a tick again.
LatestService == 2 * OS_CYCLE_PER_TICK - 1 + 2 * Latency

\* A delayed task is served by then (OsSchedSetNextExpireTime, LOS_SchedTickHandler).
TasksNotTooLate == \A k \in DOMAIN taskLink : taskLink[k].time >= -LatestService

TimeLeft ==
  [id \in {cb[i].id : i \in {j \in Index : cb[j].state = "TICKING"}} |->
     (CHOOSE e \in Range(swtmrLink) : e.node = id % LIMIT).time]

Abstract == INSTANCE TimerService WITH
  Times   <- {k.interval * OS_CYCLE_PER_TICK : k \in Kind},
  Late    <- LatestService,
  Room    <- LIMIT,
  left    <- TimeLeft,
  expired <- handlerQueue

\* Each timer expires once its time has come, not before, in its turn and not
\* later than LatestService (los_swtmr.c, the sort link and the timer as a whole).
ImplementsTimerService == Abstract!Init /\ [][Abstract!Next]_(Abstract!vars)
=============================================================================
