------------------------------ MODULE LosEvent ------------------------------
(***************************************************************************)
(* Events (los_event.c) on top of task management.  An event's control     *)
(* block belongs to the application, which keeps its memory and does not   *)
(* initialise it again while tasks wait.                                   *)
(*                                                                         *)
(* LOS_EventRead and LOS_EventWrite test with interrupts enabled whether   *)
(* the event has a list, and take LOS_IntLock after that: two steps here,  *)
(* between which an interrupt or another task may destroy the event.       *)
(***************************************************************************)
EXTENDS LosTask

CONSTANTS Event,       \* the event control blocks
          Bit,         \* the bits in use, bit 25 never being one
          Requests     \* the reads in use: mask and mode of LOS_EventRead

ASSUME EventAssumption   == Event \subseteq WaitObj
ASSUME RequestAssumption ==
  Requests \subseteq [mask : (SUBSET Bit) \ {{}}, all : BOOLEAN, clear : BOOLEAN]

VARIABLES eventInit,   \* stEventList is a list, not NULL
          eventID,     \* uwEventID, the bits that are set
          reading,     \* the event a task in LOS_EventRead waits for
          request,     \* its eventMask and eventMode
          checked      \* the event that has passed a caller's test, before
                       \* the caller locks interrupts

eventVars == <<eventInit, eventID, reading, request, checked>>
eventAll  == <<kern, pc, child, pendSV, tick, eventInit, eventID, reading, request, checked>>

\* The idle task calls no service; its place in checked is that of an interrupt
\* handler.
Handler == Idle

NoEvent == "none"

ASSUME NoEventAssumption == NoEvent \notin Event

NoRequest == [mask |-> {}, all |-> FALSE, clear |-> FALSE]

EventsInit ==
  /\ eventInit = [e \in Event |-> FALSE]
  /\ eventID = [e \in Event |-> {}]
  /\ reading = [t \in Task |-> NoEvent]
  /\ request = [t \in Task |-> NoRequest]
  /\ checked = [c \in Task \cup {Handler} |-> NoEvent]

-----------------------------------------------------------------------------
(* Who is where.                                                           *)

By(ctx) == IF ctx = "task" THEN kern.run ELSE Handler

\* No task runs while a handler is in its call; a handler may be interrupted
\* by another.
Outside(ctx) ==
  Caller(ctx) /\ (ctx = "task" => checked[kern.run] = NoEvent /\ checked[Handler] = NoEvent)

\* The caller's test has found e initialised.
Inside(ctx, e) ==
  Caller(ctx) /\ checked[By(ctx)] = e /\ (ctx = "task" => checked[Handler] = NoEvent)

Left(ctx) == checked' = [checked EXCEPT ![By(ctx)] = NoEvent]

-----------------------------------------------------------------------------
LOS_EventInit(ctx, e) ==
  /\ Outside(ctx) /\ kern.wait[e] = <<>>
  /\ eventInit' = [eventInit EXCEPT ![e] = TRUE]
  /\ eventID' = [eventID EXCEPT ![e] = {}]
  /\ UNCHANGED <<reading, request, checked, kern, pc, child, pendSV, tick>>

Fault_DestroysWithReader(ctx, e) ==
  /\ Outside(ctx) /\ eventInit[e]
  /\ eventInit' = [eventInit EXCEPT ![e] = FALSE]
  /\ UNCHANGED <<eventID, reading, request, checked, kern, pc, child, pendSV, tick>>

LOS_EventDestroy(ctx, e) ==
  /\ Outside(ctx) /\ eventInit[e] /\ kern.wait[e] = <<>>
  /\ eventInit' = [eventInit EXCEPT ![e] = FALSE]
  /\ UNCHANGED <<eventID, reading, request, checked, kern, pc, child, pendSV, tick>>

\* The caller passes the bits that stay.
LOS_EventClear(ctx, e, events) ==
  /\ Outside(ctx)
  /\ eventID' = [eventID EXCEPT ![e] = @ \cap events]
  /\ UNCHANGED <<eventInit, reading, request, checked, kern, pc, child, pendSV, tick>>

\* LOS_EventPoll's result ...
Polled(bits, r) ==
  IF r.all THEN IF r.mask \subseteq bits THEN r.mask ELSE {}
           ELSE bits \cap r.mask

\* ... and what it leaves of the event's bits.
LeftByPoll(bits, r) == IF r.clear THEN bits \ Polled(bits, r) ELSE bits

LOS_EventPoll(ctx, e, r) ==
  /\ Outside(ctx)
  /\ eventID' = [eventID EXCEPT ![e] = LeftByPoll(@, r)]
  /\ UNCHANGED <<eventInit, reading, request, checked, kern, pc, child, pendSV, tick>>

\* The test of LOS_EventRead, for a task, and of LOS_EventWrite.
EventCheck(ctx, e) ==
  /\ Outside(ctx) /\ checked[By(ctx)] = NoEvent /\ eventInit[e]
  /\ checked' = [checked EXCEPT ![By(ctx)] = e]
  /\ UNCHANGED <<eventInit, eventID, reading, request, kern, pc, child, pendSV, tick>>

\* A LOS_EventRead that does not wait: it finds its events, or its timeout is
\* 0, or tasks are locked.
EventReadAtOnce(e, r) ==
  /\ Inside("task", e) /\ Left("task")
  /\ eventID' = [eventID EXCEPT ![e] = LeftByPoll(@, r)]
  /\ UNCHANGED <<eventInit, reading, request, kern, pc, child, pendSV, tick>>

\* The running task waits for r on e.
Reads(e, r) ==
  /\ pc' = [pc EXCEPT ![kern.run] = "block"]
  /\ reading' = [reading EXCEPT ![kern.run] = e]
  /\ request' = [request EXCEPT ![kern.run] = r]

\* LOS_EventRead without its events, with a timeout or LOS_WAIT_FOREVER.
EventReadWait(e, r, timed) ==
  /\ Inside("task", e) /\ Left("task") /\ eventInit[e] /\ kern.lock = 0
  /\ Polled(eventID[e], r) = {}
  /\ kern' = OsSchedTaskWait(kern, e, timed) /\ Reads(e, r)
  /\ UNCHANGED <<eventInit, eventID, child, pendSV, tick>>

\* The same when the event has been destroyed since the test.  The insertion
\* goes through the NULL pointers of its list: it faults, which nothing comes
\* back from; or, where there is memory at address 0, the task waits and is on
\* the list of no event.
EventReadNoList(e, r, timed) ==
  /\ Inside("task", e) /\ Left("task") /\ ~eventInit[e] /\ kern.lock = 0
  /\ Polled(eventID[e], r) = {}
  /\ \/ kern' = [kern EXCEPT !.halted = TRUE] /\ UNCHANGED <<pc, reading, request>>
     \/ kern' = [OsSchedTaskWait(kern, e, timed) EXCEPT !.wait = kern.wait] /\ Reads(e, r)
  /\ UNCHANGED <<eventInit, eventID, child, pendSV, tick>>

\* The end of that LOS_EventRead, after LOS_Schedule: LOS_ERRNO_EVENT_READ_TIMEOUT,
\* or a second poll, which may find that others have read the events already.
EventReadReturn ==
  LET e == reading[kern.run]
      timedOut == Has(kern, kern.run, "TIMEOUT") IN
  /\ kern.run \in Task /\ Running("wait") /\ e # NoEvent /\ checked[Handler] = NoEvent
  /\ kern' = ClearFlag(kern, kern.run, {"TIMEOUT"})
  /\ eventID' = IF timedOut THEN eventID
                ELSE [eventID EXCEPT ![e] = LeftByPoll(@, request[kern.run])]
  /\ pc' = [pc EXCEPT ![kern.run] = "run"]
  /\ reading' = [reading EXCEPT ![kern.run] = NoEvent]
  /\ request' = [request EXCEPT ![kern.run] = NoRequest]
  /\ UNCHANGED <<eventInit, checked, child, pendSV, tick>>

Fault_WakesOnNewOnly(r, events, bits) ==
  IF r.all THEN r.mask \subseteq events ELSE r.mask \cap events # {}

\* The test LOS_EventWrite makes of a waiting reader, bits being those set
\* after the write: an OR reader is looked at with the new events only.
Wakes(r, events, bits) ==
  IF r.all THEN r.mask \subseteq bits ELSE r.mask \cap events # {}

\* The loop of LOS_EventWrite over the readers: those in W are woken, in the
\* order of the list.  Waking a task takes it off the list, and the loop has
\* remembered the next one before.
WakeEach(k, readers, W) ==
  LET walk[i \in 0..Len(readers)] ==
        IF i = 0 THEN k
        ELSE IF readers[i] \in W THEN OsSchedTaskWake(walk[i - 1], readers[i])
        ELSE walk[i - 1]
  IN  walk[Len(readers)]

Fault_WakesAll(ctx, e, events) ==
  LET woken == {t \in Task : In(t, kern.wait[e])} IN
  /\ Inside(ctx, e) /\ Left(ctx) /\ eventInit[e]
  /\ eventID' = [eventID EXCEPT ![e] = @ \cup events]
  /\ Finish(ctx, WakeEach(kern, kern.wait[e], woken), woken # {})
  /\ UNCHANGED <<eventInit, reading, request, child, tick>>

\* All readers the write satisfies are woken.
LOS_EventWrite(ctx, e, events) ==
  LET bits  == eventID[e] \cup events
      woken == {t \in Task : In(t, kern.wait[e]) /\ Wakes(request[t], events, bits)} IN
  /\ Inside(ctx, e) /\ Left(ctx) /\ eventInit[e]
  /\ eventID' = [eventID EXCEPT ![e] = bits]
  /\ Finish(ctx, WakeEach(kern, kern.wait[e], woken), woken # {})
  /\ UNCHANGED <<eventInit, reading, request, child, tick>>

\* The same when the event has been destroyed since the test.  NULL is not the
\* list's address, so that the list is not empty, and the walk goes on from
\* address 0 until it faults, or without end and with interrupts masked.
EventWriteNoList(ctx, e, events) ==
  /\ Inside(ctx, e) /\ Left(ctx) /\ ~eventInit[e]
  /\ eventID' = [eventID EXCEPT ![e] = @ \cup events]
  /\ kern' = [kern EXCEPT !.halted = TRUE]
  /\ UNCHANGED <<eventInit, reading, request, pc, child, pendSV, tick>>

EventService ==
  \/ \E ctx \in Context, e \in Event :
       \/ LOS_EventInit(ctx, e) \/ LOS_EventDestroy(ctx, e) \/ EventCheck(ctx, e)
       \/ \E events \in SUBSET Bit :
            LOS_EventClear(ctx, e, events) \/ LOS_EventWrite(ctx, e, events)
       \/ \E r \in Requests : LOS_EventPoll(ctx, e, r)
  \/ \E e \in Event, r \in Requests :
       \/ EventReadAtOnce(e, r)
       \/ \E timed \in BOOLEAN : EventReadWait(e, r, timed)
  \/ EventReadReturn

\* What is left of a call whose event has been destroyed.
NoListService ==
  \E e \in Event :
    \/ \E ctx \in Context, events \in SUBSET Bit : EventWriteNoList(ctx, e, events)
    \/ \E r \in Requests, timed \in BOOLEAN : EventReadNoList(e, r, timed)

\* What interrupts do to tasks.
InterruptStep ==
  \/ TickSliceEnd \/ TickEnter \/ TickExpire \/ TickExit \/ AssertSpins
  \/ \E t \in Task : \/ TaskDeleteOther("isr", t) \/ OsRunningTaskDelete("isr", t)
                     \/ LOS_TaskSuspend("isr", t) \/ LOS_TaskResume("isr", t)

\* A step of task management, between the steps of a call by an interrupt, or
\* between those of the running task's call also by a switch.  A task that is
\* deleted takes the locals of its calls with it.
EventTaskStep ==
  /\ IF checked[Handler] # NoEvent THEN InterruptStep
     ELSE IF kern.run \in Task /\ checked[kern.run] # NoEvent THEN InterruptStep \/ HalPendSV
     ELSE TaskNext
  /\ reading' = [t \in Task |-> IF pc'[t] = "none" THEN NoEvent ELSE reading[t]]
  /\ request' = [t \in Task |-> IF pc'[t] = "none" THEN NoRequest ELSE request[t]]
  /\ checked' = [c \in Task \cup {Handler} |-> IF pc'[c] = "none" THEN NoEvent ELSE checked[c]]
  /\ UNCHANGED <<eventInit, eventID>>

EventsNext == EventTaskStep \/ EventService \/ NoListService

EventsSpec == TaskInit /\ EventsInit /\ [][EventsNext]_eventAll

\* Nobody destroys an event while a call that has found it initialised is
\* about to use its list.
DestroysUnchecked ==
  \A e \in Event : eventInit[e] /\ ~eventInit'[e] =>
    \A c \in Task \cup {Handler} : checked[c] # e

CarefulEventsNext == EventsNext /\ DestroysUnchecked

CarefulEventsSpec == TaskInit /\ EventsInit /\ [][CarefulEventsNext]_eventAll

-----------------------------------------------------------------------------
\* No lost event: whoever waits is not satisfied by the bits that are set,
\* although LOS_EventWrite tests OR readers against the new bits only and its
\* walk wakes tasks, which takes them off the list it walks (los_event.c).
NoLostEvent ==
  \A e \in Event : \A t \in Task :
    In(t, kern.wait[e]) => Polled(eventID[e], request[t]) = {}

\* Whoever waits in LOS_EventRead is on the list of the event it reads, and
\* that event has a list: LOS_EventDestroy, which refuses an event with readers,
\* loses none, and a read of an event without a list does not wait but returns
\* LOS_ERRNO_EVENT_NOT_INITIALIZED ("no initialized", los_event.h:140).  Of the
\* code it holds only as long as nobody destroys an event between a call's test
\* and its LOS_IntLock.
ReadersAreListed ==
  \A e \in Event : \A t \in Task :
    /\ In(t, kern.wait[e]) <=> reading[t] = e /\ Has(kern, t, "PEND")
    /\ In(t, kern.wait[e]) => eventInit[e]

Waiting(e) == {t \in Task : In(t, kern.wait[e])}
Served(e)  == {t \in Task : reading[t] = e /\ kern.status[t] \cap {"PEND", "TIMEOUT"} = {}}

Abstract(e) ==
  INSTANCE EventFlags WITH Proc    <- Task,
                           Bits    <- Bit,
                           flags   <- eventID[e],
                           waiting <- [t \in Waiting(e) |-> request[t]],
                           served  <- [t \in Served(e) |-> request[t]]

\* Every event behaves as the module EventFlags promises, whatever the
\* scheduler, interrupts, timeouts, suspensions and deletions do to its readers
\* (los_event.c as a whole).
ImplementsEventFlags ==
  /\ \A e \in Event : Abstract(e)!Init
  /\ [][\A e \in Event : UNCHANGED Abstract(e)!vars \/ Abstract(e)!Next]_eventAll
=============================================================================
