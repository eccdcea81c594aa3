----------------------------- MODULE MCLosQueue -----------------------------
(***************************************************************************)
(* An instance of LosQueue and LosMail.  A behaviour is one of three, as   *)
(* chosen at its start: equal messages while tasks are suspended, resumed  *)
(* and deleted; different messages between tasks that only wait and        *)
(* preempt each other; mail blocks under every service of task management  *)
(* but creation.                                                           *)
(***************************************************************************)
EXTENDS LosMail

CONSTANT Sent          \* the messages of the first kind of behaviour

VARIABLE part

MCWaitObj == Queue \X {"READ", "WRITE", "MEM"}

Init == part \in {"equal", "ordered", "mail"} /\ TaskInit /\ QueueInit /\ MailInit

\* The boot tasks are resumed; in the first kind tasks also suspend and
\* delete each other.
AppStep == \/ TaskSystem
           \/ \E t \in Task : LOS_TaskResume("task", t)

DisturbedStep == \/ AppStep
                 \/ \E t \in Task : LOS_TaskSuspend("task", t) \/ TaskDeleteOther("task", t)

OnlySent == \A q \in Queue : \A i \in DOMAIN queue'[q].cell : queue'[q].cell[i] \in Sent \cup {NoMsg}

Equal == /\ \/ QueueTaskStep /\ DisturbedStep
            \/ QueueService
         /\ OnlySent
         /\ \A t \in Task : operating'[t].op.msg \in Sent \cup {NoMsg}

\* Tasks only: no interrupt uses the queue, nothing is deleted, and no task
\* waits for a time, so that the timer only ends slices.
Ordered ==
  \/ QueueTaskStep /\ \/ LOS_Schedule \/ HalPendSV \/ TickSliceEnd
                      \/ \E t \in Task : LOS_TaskResume("task", t)
  \/ \E len \in QueueLen : LOS_QueueCreate("task", len)
  \/ \E q \in Queue, op \in Operation : \/ OsQueueOperate("task", q, op)
                                       \/ QueueOperateWait(q, op, FALSE)
  \/ QueueOperateReturn

QueueStep == \E ctx \in Context : \/ \E len \in QueueLen : LOS_QueueCreate(ctx, len)
                                 \/ \E q \in Queue : LOS_QueueDelete(ctx, q)

MailBlocks == \/ MailTaskStep /\ \A t \in Task : pc'[t] # "alloc"
              \/ QueueStep /\ UNCHANGED mailVars
              \/ MailService

Next == \/ part = "equal"   /\ Equal      /\ UNCHANGED <<part, mailVars>>
        \/ part = "ordered" /\ Ordered    /\ UNCHANGED <<part, mailVars>>
        \/ part = "mail"    /\ MailBlocks /\ UNCHANGED part

Spec == Init /\ [][Next]_<<part, mailAll>>
=============================================================================
