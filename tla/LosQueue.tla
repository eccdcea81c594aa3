------------------------------ MODULE LosQueue ------------------------------
(***************************************************************************)
(* Message queues (los_queue.c) on top of task management.  A message is a *)
(* value of Msg; its copying is one step with the position it is copied to *)
(* or from, as both are under LOS_IntLock.                                 *)
(***************************************************************************)
EXTENDS LosTask, FiniteSets

CONSTANTS Queue,       \* g_allQueue
          QueueLen,    \* the lengths queues are created with
          Msg          \* the messages

\* readWriteList[] and memList
List(q, kind) == <<q, kind>>

ASSUME QueueAssumption ==
  IsFiniteSet(Queue) /\ Queue \X {"READ", "WRITE", "MEM"} \subseteq WaitObj
ASSUME QueueLenAssumption == QueueLen \subseteq Nat \ {0}

ASSUME NoQueueAssumption == "none" \notin Queue   \* NoOperation names no queue

NoMsg == "none"

\* operateType and the message of a write.
Operation == [rw : {"READ"}, end : {"HEAD"}, msg : {NoMsg}] \cup
             [rw : {"WRITE"}, end : {"HEAD", "TAIL"}, msg : Msg]

NoOperation == [queue |-> "none", op |-> [rw |-> "READ", end |-> "HEAD", msg |-> NoMsg]]

VARIABLES queue,       \* the control blocks
          freeQueue,   \* g_freeQueueList
          operating    \* the locals of a task that waits in OsQueueOperate

queueVars == <<queue, freeQueue, operating>>
queueAll  == <<kern, pc, child, pendSV, tick, queue, freeQueue, operating>>

QueueInit ==
  /\ queue = [q \in Queue |-> [used |-> FALSE, len |-> 0, head |-> 0, tail |-> 0,
                               cell |-> <<>>, cnt |-> [rw \in {"READ", "WRITE"} |-> 0]]]
  /\ freeQueue \in {s \in [1..Cardinality(Queue) -> Queue] : Distinct(s)}
  /\ operating = [t \in Task |-> NoOperation]

-----------------------------------------------------------------------------
LOS_QueueCreate(ctx, len) ==
  LET q == Head(freeQueue) IN
  /\ Caller(ctx) /\ freeQueue # <<>>
  /\ freeQueue' = Tail(freeQueue)
  /\ queue' = [queue EXCEPT ![q] =
                 [used |-> TRUE, len |-> len, head |-> 0, tail |-> 0,
                  cell |-> [i \in 1..len |-> NoMsg],
                  cnt  |-> [rw \in {"READ", "WRITE"} |-> IF rw = "READ" THEN 0 ELSE len]]]
  /\ UNCHANGED <<operating, kern, pc, child, pendSV, tick>>

NobodyWaits(q) == \A kind \in {"READ", "WRITE", "MEM"} : kern.wait[List(q, kind)] = <<>>

Fault_DeletesInFlight(ctx, q) ==
  /\ Caller(ctx) /\ queue[q].used /\ NobodyWaits(q)
  /\ queue' = [queue EXCEPT ![q].used = FALSE, ![q].cell = <<>>]
  /\ freeQueue' = <<q>> \o freeQueue
  /\ UNCHANGED <<operating, kern, pc, child, pendSV, tick>>

\* Refused while a task waits, and while counts are missing because a task
\* that was woken has not run yet.
LOS_QueueDelete(ctx, q) ==
  /\ Caller(ctx) /\ queue[q].used /\ NobodyWaits(q)
  /\ queue[q].cnt["READ"] + queue[q].cnt["WRITE"] = queue[q].len
  /\ queue' = [queue EXCEPT ![q].used = FALSE, ![q].cell = <<>>]
  /\ freeQueue' = <<q>> \o freeQueue
  /\ UNCHANGED <<operating, kern, pc, child, pendSV, tick>>

Opposite(rw) == IF rw = "READ" THEN "WRITE" ELSE "READ"

After(i, len)  == IF i + 1 = len THEN 0 ELSE i + 1
Before(i, len) == IF i = 0 THEN len - 1 ELSE i - 1

Fault_WritesHeadInPlace(cb, op) ==
  IF op.rw = "READ" THEN [cb EXCEPT !.head = After(@, cb.len)]
  ELSE IF op.end = "HEAD" THEN [cb EXCEPT !.head = Before(@, cb.len),
                                          !.cell[cb.head + 1] = op.msg]
  ELSE [cb EXCEPT !.tail = After(@, cb.len), !.cell[cb.tail + 1] = op.msg]

OsQueueBufferOperate(cb, op) ==
  IF op.rw = "READ" THEN [cb EXCEPT !.head = After(@, cb.len)]
  ELSE IF op.end = "HEAD" THEN [cb EXCEPT !.head = Before(@, cb.len),
                                          !.cell[Before(cb.head, cb.len) + 1] = op.msg]
  ELSE [cb EXCEPT !.tail = After(@, cb.len), !.cell[cb.tail + 1] = op.msg]

Fault_CountsAndWakes(ctx, q, cb, op) ==
  LET opposite == List(q, Opposite(op.rw)) IN
  /\ queue' = [queue EXCEPT ![q] = [OsQueueBufferOperate(cb, op)
                                      EXCEPT !.cnt[Opposite(op.rw)] = @ + 1]]
  /\ Finish(ctx, IF kern.wait[opposite] = <<>> THEN kern
                 ELSE OsSchedTaskWake(kern, Head(kern.wait[opposite])),
            kern.wait[opposite] # <<>>)

\* The second half of OsQueueOperate: the message is copied, then the first
\* task that waits for the opposite operation is woken and takes the place of
\* the count, or else the opposite count goes up.
QueueComplete(ctx, q, cb, op) ==
  LET opposite == List(q, Opposite(op.rw))
      done     == OsQueueBufferOperate(cb, op) IN
  IF kern.wait[opposite] # <<>>
  THEN /\ queue' = [queue EXCEPT ![q] = done]
       /\ Finish(ctx, OsSchedTaskWake(kern, Head(kern.wait[opposite])), TRUE)
  ELSE /\ queue' = [queue EXCEPT ![q] = [done EXCEPT !.cnt[Opposite(op.rw)] = @ + 1]]
       /\ Finish(ctx, kern, FALSE)

\* OsQueueOperate with a message or a place at hand; an interrupt may do it
\* with LOS_NO_WAIT.
OsQueueOperate(ctx, q, op) ==
  /\ Caller(ctx) /\ queue[q].used /\ queue[q].cnt[op.rw] # 0
  /\ QueueComplete(ctx, q, [queue[q] EXCEPT !.cnt[op.rw] = @ - 1], op)
  /\ UNCHANGED <<freeQueue, operating, child, tick>>

\* OsQueueOperate without, with a timeout or LOS_WAIT_FOREVER.
QueueOperateWait(q, op, timed) ==
  /\ Caller("task") /\ kern.lock = 0
  /\ queue[q].used /\ queue[q].cnt[op.rw] = 0
  /\ kern' = OsSchedTaskWait(kern, List(q, op.rw), timed)
  /\ pc' = [pc EXCEPT ![kern.run] = "block"]
  /\ operating' = [operating EXCEPT ![kern.run] = [queue |-> q, op |-> op]]
  /\ UNCHANGED <<queue, freeQueue, child, pendSV, tick>>

QueueTimeout ==
  /\ kern.run \in Task /\ Running("wait")
  /\ operating[kern.run] # NoOperation /\ Has(kern, kern.run, "TIMEOUT")
  /\ Finish("task", ClearFlag(kern, kern.run, {"TIMEOUT"}), FALSE)
  /\ operating' = [operating EXCEPT ![kern.run] = NoOperation]
  /\ UNCHANGED <<queue, freeQueue, child, tick>>

\* The woken task goes on with its operation, without looking at the counts.
QueueOperateReturn ==
  LET mine == operating[kern.run] IN
  /\ kern.run \in Task /\ Running("wait")
  /\ mine # NoOperation /\ ~Has(kern, kern.run, "TIMEOUT")
  /\ QueueComplete("task", mine.queue, queue[mine.queue], mine.op)
  /\ operating' = [operating EXCEPT ![kern.run] = NoOperation]
  /\ UNCHANGED <<freeQueue, child, tick>>

QueueService ==
  \/ \E ctx \in Context, len \in QueueLen : LOS_QueueCreate(ctx, len)
  \/ \E q \in Queue :
       \/ \E ctx \in Context : LOS_QueueDelete(ctx, q)
       \/ \E op \in Operation :
            \/ \E ctx \in Context : OsQueueOperate(ctx, q, op)
            \/ \E timed \in BOOLEAN : QueueOperateWait(q, op, timed)
  \/ QueueTimeout \/ QueueOperateReturn

\* Woken to read from or write to q, and not there yet.
Served(q, rw) == {t \in Task : /\ operating[t].queue = q /\ operating[t].op.rw = rw
                              /\ kern.status[t] \cap {"PEND", "TIMEOUT"} = {}}

\* A step of task management that deletes nobody who was woken for a message
\* or a place and has not fetched it.
QueueTaskStep ==
  /\ TaskNext
  /\ \A q \in Queue, rw \in {"READ", "WRITE"} : \A t \in Served(q, rw) : pc'[t] # "none"
  /\ operating' = [t \in Task |-> IF pc'[t] = "none" THEN NoOperation ELSE operating[t]]
  /\ UNCHANGED <<queue, freeQueue>>

QueueNext == QueueTaskStep \/ QueueService

QueueSpec == TaskInit /\ QueueInit /\ [][QueueNext]_queueAll

-----------------------------------------------------------------------------
\* The counts that decide who may go on without waiting: a message or place is
\* counted exactly when nobody who was woken has it coming, so the counts and
\* the tasks in flight add up to the length (los_queue.c:308 and 322-330).
CountsAgree ==
  \A q \in Queue : queue[q].used =>
    queue[q].cnt["READ"] + queue[q].cnt["WRITE"]
      + Cardinality(Served(q, "READ")) + Cardinality(Served(q, "WRITE")) = queue[q].len

\* The sum LOS_QueueDelete tests stands for "no operation is in flight": a
\* task that was woken finds its queue, not one created anew in its block.
NotDeletedInFlight ==
  [][\A q \in Queue : queue[q].used /\ ~queue'[q].used =>
       \A t \in Task : operating[t].queue = q => Has(kern, t, "TIMEOUT")]_queueAll

\* The messages in the ring: those counted and those promised.
Content(q) ==
  [i \in 1..(queue[q].cnt["READ"] + Cardinality(Served(q, "READ"))) |->
     queue[q].cell[((queue[q].head + i - 1) % queue[q].len) + 1]]

InFlight(q) == {t \in Task : operating[t].queue = q /\ ~Has(kern, t, "TIMEOUT")}

Abstract(q) ==
  INSTANCE MessageQueue WITH
    Proc    <- Task,
    Limits  <- QueueLen,
    limit   <- IF queue[q].used THEN queue[q].len ELSE 0,
    msgs    <- IF queue[q].used THEN Content(q) ELSE <<>>,
    readers <- kern.wait[List(q, "READ")],
    writers <- kern.wait[List(q, "WRITE")],
    served  <- Served(q, "READ") \cup Served(q, "WRITE"),
    op      <- [t \in InFlight(q) |-> operating[t].op]

\* Every queue behaves as the module MessageQueue promises, whatever the
\* scheduler, interrupts, timeouts, suspensions and deletions of waiters do
\* (OsQueueOperate and its callers).
ImplementsMessageQueue ==
  /\ \A q \in Queue : Abstract(q)!Init
  /\ [][\A q \in Queue : Abstract(q)!Next \/ UNCHANGED Abstract(q)!vars]_queueAll
=============================================================================
