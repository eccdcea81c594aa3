------------------------------ MODULE LosMail ------------------------------
(***************************************************************************)
(* Mail blocks (OsQueueMailAlloc, OsQueueMailFree of los_queue.c): a pool  *)
(* of blocks per queue, a memory box, and the queue's third wait list.     *)
(***************************************************************************)
EXTENDS LosQueue

CONSTANTS Mail         \* the blocks of each queue's pool

\* LOS_MemboxInit refuses a pool without blocks.
ASSUME MailAssumption == IsFiniteSet(Mail) /\ Mail # {}

VARIABLES mailFree,    \* the free blocks of each pool
          msg,         \* taskCB->msg: the block a waiting task was given
          allocating   \* the queue a task in OsQueueMailAlloc waits at

mailVars == <<mailFree, msg, allocating>>
mailAll  == <<kern, pc, child, pendSV, tick, queue, freeQueue, operating,
              mailFree, msg, allocating>>

NoMail  == "none"
NoQueue == "none"

ASSUME NoMailAssumption == NoMail \notin Mail

MailInit == /\ mailFree = [q \in Queue |-> Mail]
            /\ msg = [t \in Task |-> NoMail]
            /\ allocating = [t \in Task |-> NoQueue]

\* The blocks of q's pool the application has.
InUse(q) == Mail \ (mailFree[q] \cup {msg[t] : t \in {u \in Task : allocating[u] = q}})

-----------------------------------------------------------------------------
MailAllocTake(ctx, q) ==
  /\ Caller(ctx) /\ queue[q].used
  /\ \E b \in mailFree[q] : mailFree' = [mailFree EXCEPT ![q] = @ \ {b}]
  /\ UNCHANGED <<msg, allocating, queueVars, kern, pc, child, pendSV, tick>>

\* With a timeout or LOS_WAIT_FOREVER; the task lock is not looked at.
MailAllocWait(q, timed) ==
  /\ Caller("task") /\ queue[q].used /\ mailFree[q] = {}
  /\ kern' = OsSchedTaskWait(kern, List(q, "MEM"), timed)
  /\ pc' = [pc EXCEPT ![kern.run] = "block"]
  /\ allocating' = [allocating EXCEPT ![kern.run] = q]
  /\ UNCHANGED <<mailFree, msg, queueVars, child, pendSV, tick>>

MailAllocTimeout ==
  /\ kern.run \in Task /\ Running("wait")
  /\ allocating[kern.run] # NoQueue /\ Has(kern, kern.run, "TIMEOUT")
  /\ Finish("task", ClearFlag(kern, kern.run, {"TIMEOUT"}), FALSE)
  /\ allocating' = [allocating EXCEPT ![kern.run] = NoQueue]
  /\ UNCHANGED <<mailFree, msg, queueVars, child, tick>>

\* The task takes what it finds in its TCB.
MailAllocReturn ==
  /\ kern.run \in Task /\ Running("wait")
  /\ allocating[kern.run] # NoQueue /\ ~Has(kern, kern.run, "TIMEOUT")
  /\ pc' = [pc EXCEPT ![kern.run] = "run"]
  /\ msg' = [msg EXCEPT ![kern.run] = NoMail]
  /\ allocating' = [allocating EXCEPT ![kern.run] = NoQueue]
  /\ UNCHANGED <<mailFree, queueVars, kern, child, pendSV, tick>>

Fault_FreeWithoutAlloc(ctx, q, b) ==
  LET next == Head(kern.wait[List(q, "MEM")]) IN
  /\ Caller(ctx) /\ queue[q].used /\ kern.wait[List(q, "MEM")] # <<>> /\ b \in InUse(q)
  /\ mailFree' = [mailFree EXCEPT ![q] = @ \cup {b}]
  /\ msg' = [msg EXCEPT ![next] = b]
  /\ Finish(ctx, OsSchedTaskWake(kern, next), TRUE)
  /\ UNCHANGED <<allocating, queueVars, child, tick>>

Fault_WakesEmptyHanded(ctx, q, b) ==
  /\ Caller(ctx) /\ queue[q].used /\ kern.wait[List(q, "MEM")] # <<>> /\ b \in InUse(q)
  /\ Finish(ctx, OsSchedTaskWake(kern, Head(kern.wait[List(q, "MEM")])), TRUE)
  /\ UNCHANGED <<mailVars, queueVars, child, tick>>

\* OsQueueMailFree: the block goes back to the pool; if a task waits, the
\* pool's first block, which is this one, is allocated to it.
MailFreeWake(ctx, q, b) ==
  LET next == Head(kern.wait[List(q, "MEM")]) IN
  /\ Caller(ctx) /\ queue[q].used /\ kern.wait[List(q, "MEM")] # <<>> /\ b \in InUse(q)
  /\ msg' = [msg EXCEPT ![next] = b]
  /\ Finish(ctx, OsSchedTaskWake(kern, next), TRUE)
  /\ UNCHANGED <<mailFree, allocating, queueVars, child, tick>>

\* Nobody waits, or the queue is deleted: the block stays in the pool.
MailFreeOnly(ctx, q, b) ==
  /\ Caller(ctx) /\ b \in InUse(q)
  /\ queue[q].used => kern.wait[List(q, "MEM")] = <<>>
  /\ mailFree' = [mailFree EXCEPT ![q] = @ \cup {b}]
  /\ UNCHANGED <<msg, allocating, queueVars, kern, pc, child, pendSV, tick>>

MailAtOnce ==
  \/ \E ctx \in Context, q \in Queue :
       \/ MailAllocTake(ctx, q)
       \/ \E b \in Mail : MailFreeWake(ctx, q, b) \/ MailFreeOnly(ctx, q, b)
  \/ MailAllocTimeout \/ MailAllocReturn

MailWaits == \E q \in Queue, timed \in BOOLEAN : MailAllocWait(q, timed)

MailService == MailAtOnce \/ MailWaits

\* A step of task management that deletes nobody who was given a block and has
\* not fetched it.
MailTaskStep ==
  /\ QueueTaskStep
  /\ \A t \in Task : msg[t] # NoMail => pc'[t] # "none"
  /\ allocating' = [t \in Task |-> IF pc'[t] = "none" THEN NoQueue ELSE allocating[t]]
  /\ UNCHANGED <<mailFree, msg>>

\* Mail blocks with all that task management and queues do, where nobody waits
\* for a block under the task lock.
MailNext ==
  \/ MailTaskStep
  \/ QueueService /\ UNCHANGED mailVars
  \/ MailAtOnce
  \/ kern.lock = 0 /\ MailWaits

MailSpec == TaskInit /\ QueueInit /\ MailInit /\ [][MailNext]_mailAll

-----------------------------------------------------------------------------
\* A block is in one place: in the pool, given to one task, or with the
\* application, so that nobody writes to another's mail (OsQueueMailFree wakes
\* the task before it allocates the block for it).
MailInOnePlace ==
  \A t \in Task : msg[t] # NoMail =>
    /\ allocating[t] # NoQueue
    /\ msg[t] \notin mailFree[allocating[t]]
    /\ \A u \in Task : msg[u] = msg[t] /\ allocating[u] = allocating[t] => u = t

Given(q) == {t \in Task : allocating[t] = q /\ kern.status[t] \cap {"PEND", "TIMEOUT"} = {}}

Pool(q) ==
  INSTANCE Semaphore WITH
    Proc    <- Task,
    Limits  <- {Cardinality(Mail)},
    limit   <- IF queue[q].used THEN Cardinality(Mail) ELSE 0,
    avail   <- IF queue[q].used THEN Cardinality(mailFree[q]) ELSE 0,
    waiters <- kern.wait[List(q, "MEM")],
    served  <- Given(q)

\* The blocks of a queue are handed out as the units of a semaphore are.
PoolImplementsSemaphore ==
  /\ \A q \in Queue : Pool(q)!Init
  /\ [][\A q \in Queue : Pool(q)!Next \/ UNCHANGED Pool(q)!vars]_mailAll

\* "the current task already got a available membox, so the runTsk->msg can not
\* be NULL" (los_queue.c:491).
MailGranted == [][MailAllocReturn => msg[kern.run] # NoMail]_mailAll
=============================================================================
