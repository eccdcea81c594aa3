----------------------------- MODULE LosMqueue -----------------------------
(***************************************************************************)
(* POSIX message queues (kal/posix/src/mqueue.c): names and descriptors    *)
(* over the kernel's queues, under g_mqueueMutex, a pthread mutex with a   *)
(* static initializer (pthread_mutex.c).  A kernel queue is what LosQueue  *)
(* and MessageQueue make of it; kept of it here are whether it is in use,  *)
(* for what name, and who waits in it.  Its ID is its index, and the next  *)
(* LOS_QueueCreate uses it again.                                          *)
(***************************************************************************)
EXTENDS Naturals, FiniteSets

CONSTANTS Thread, Name,
          QueueIndex,  \* the kernel's queues, 0 .. LOSCFG_BASE_IPC_QUEUE_LIMIT - 1
          Mqd,         \* the addresses of descriptors, struct mqpersonal
          Handle       \* the kernel's mutexes

Nil == "none"

ASSUME MqueueAssumption == Nil \notin Name

VARIABLES kernelQueue, \* whether each is in use, and the threads that wait there
          queueTable,  \* g_queueTable: name, mqcb # NULL, unlinkflag
          mqd,         \* of each descriptor that is open: the queue, the name it
                       \* was opened by, and the thread that did
          handle,      \* g_mqueueMutex.handle, Nil for _MUX_INVALID_HANDLE
          muxHolder,   \* who holds each mutex; only those made have an entry
          progress     \* where each thread is in its call

mqueueVars == <<kernelQueue, queueTable, mqd, handle, muxHolder, progress>>

Free    == [used |-> FALSE, waiting |-> {}]
NoEntry == [name |-> Nil, mqcb |-> FALSE, unlinked |-> FALSE]
Outside == [at |-> "outside", queue |-> Nil, name |-> Nil]

MqueueInit == /\ kernelQueue = [i \in QueueIndex |-> Free]
              /\ queueTable = [i \in QueueIndex |-> NoEntry]
              /\ mqd = <<>>
              /\ handle = Nil /\ muxHolder = <<>>
              /\ progress = [t \in Thread |-> Outside]

Now(t, step)      == progress[t].at = step
Proceed(t, where) == progress' = [progress EXCEPT ![t] = where]

-----------------------------------------------------------------------------
\* pthread_mutex_lock: the mutex is made if it has no handle yet ...
MutexCheck(t) ==
  /\ Now(t, "outside")
  /\ Proceed(t, [Outside EXCEPT !.at = IF handle = Nil THEN "create" ELSE "lock"])
  /\ UNCHANGED <<kernelQueue, queueTable, mqd, handle, muxHolder>>

MutexCreate(t) ==
  /\ Now(t, "create")
  /\ \E h \in Handle \ DOMAIN muxHolder :
       /\ handle' = h
       /\ muxHolder' = [x \in DOMAIN muxHolder \cup {h} |-> IF x = h THEN Nil ELSE muxHolder[x]]
  /\ Proceed(t, [Outside EXCEPT !.at = "lock"])
  /\ UNCHANGED <<kernelQueue, queueTable, mqd>>

\* ... and what handle names is taken.
MutexPend(t) ==
  /\ Now(t, "lock") /\ muxHolder[handle] = Nil
  /\ muxHolder' = [muxHolder EXCEPT ![handle] = t]
  /\ Proceed(t, [Outside EXCEPT !.at = "inside"])
  /\ UNCHANGED <<kernelQueue, queueTable, mqd, handle>>

\* The end of each call: LOS_MuxPost does nothing for who is not the owner.
Unlock(t, where) ==
  /\ Now(t, "inside")
  /\ muxHolder' = [muxHolder EXCEPT ![handle] = IF @ = t THEN Nil ELSE @]
  /\ Proceed(t, where)
  /\ UNCHANGED handle

-----------------------------------------------------------------------------
Entries(n)  == {i \in QueueIndex : queueTable[i].name = n}
Personal(i) == {d \in DOMAIN mqd : mqd[d].queue = i}

OpenAt(t, n, d, i) ==
  mqd' = [x \in DOMAIN mqd \cup {d} |->
            IF x = d THEN [queue |-> i, name |-> n, thread |-> t] ELSE mqd[x]]

\* mq_open of a name that is there: not once it is unlinked.
DoMqueueOpen(t, n, d) ==
  \E i \in Entries(n) :
    /\ ~queueTable[i].unlinked
    /\ OpenAt(t, n, d, i)
    /\ Unlock(t, Outside) /\ UNCHANGED <<kernelQueue, queueTable>>

\* mq_open with O_CREAT of a name that is not there.  Without memory for the
\* name the kernel's queue stays in use, without memory for the descriptor it
\* is deleted again.
DoMqueueCreate(t, n, d, without) ==
  /\ Entries(n) = {}
  /\ \E i \in QueueIndex :
       /\ ~kernelQueue[i].used /\ ~queueTable[i].mqcb
       /\ \/ /\ without = "nothing"
             /\ kernelQueue' = [kernelQueue EXCEPT ![i].used = TRUE]
             /\ queueTable' = [queueTable EXCEPT ![i] = [name |-> n, mqcb |-> TRUE,
                                                         unlinked |-> FALSE]]
             /\ OpenAt(t, n, d, i)
          \/ /\ without = "name"
             /\ kernelQueue' = [kernelQueue EXCEPT ![i].used = TRUE]
             /\ UNCHANGED <<queueTable, mqd>>
          \/ without = "descriptor" /\ UNCHANGED <<kernelQueue, queueTable, mqd>>
  /\ Unlock(t, Outside)

\* DoMqueueDelete: LOS_QueueDelete is refused while a thread waits.
DoMqueueDelete(i) ==
  /\ queueTable' = [queueTable EXCEPT ![i].name = Nil, ![i].mqcb = FALSE]
  /\ kernelQueue' = [kernelQueue EXCEPT ![i].used = (kernelQueue[i].waiting # {})]

Fault_ClosesLastByUnlink(t, d) ==
  LET i == mqd[d].queue IN
  /\ mqd' = [x \in DOMAIN mqd \ {d} |-> mqd[x]]
  /\ IF queueTable[i].unlinked THEN DoMqueueDelete(i) ELSE UNCHANGED <<queueTable, kernelQueue>>
  /\ Unlock(t, Outside)

\* The last descriptor of an unlinked queue takes the queue with it.
mq_close(t, d) ==
  LET i == mqd[d].queue IN
  /\ mqd' = [x \in DOMAIN mqd \ {d} |-> mqd[x]]
  /\ IF queueTable[i].unlinked /\ Personal(i) = {d}
     THEN DoMqueueDelete(i) ELSE UNCHANGED <<queueTable, kernelQueue>>
  /\ Unlock(t, Outside)

mq_unlink(t, n) ==
  \E i \in Entries(n) :
    /\ IF Personal(i) = {} THEN DoMqueueDelete(i)
       ELSE /\ queueTable' = [queueTable EXCEPT ![i].unlinked = TRUE]
            /\ UNCHANGED kernelQueue
    /\ Unlock(t, Outside) /\ UNCHANGED mqd

\* A call that fails before it changes anything.
Refused(t) == Unlock(t, Outside) /\ UNCHANGED <<kernelQueue, queueTable, mqd>>

\* mq_timedsend and mq_timedreceive take the queue's ID and leave the mutex ...
MessageStart(t, d) ==
  LET i == mqd[d].queue IN
  /\ Unlock(t, [at |-> "message", queue |-> i, name |-> queueTable[i].name])
  /\ UNCHANGED <<kernelQueue, queueTable, mqd>>

\* ... and go to the kernel with it, where they may wait.
MessageDone(t) ==
  /\ Now(t, "message")
  /\ Proceed(t, Outside)
  /\ UNCHANGED <<kernelQueue, queueTable, mqd, handle, muxHolder>>

MessageWait(t) ==
  /\ Now(t, "message") /\ kernelQueue[progress[t].queue].used
  /\ kernelQueue' = [kernelQueue EXCEPT ![progress[t].queue].waiting = @ \cup {t}]
  /\ Proceed(t, [progress[t] EXCEPT !.at = "wait"])
  /\ UNCHANGED <<queueTable, mqd, handle, muxHolder>>

\* Served, or after its time.
MessageReturn(t) ==
  /\ Now(t, "wait")
  /\ kernelQueue' = [kernelQueue EXCEPT ![progress[t].queue].waiting = @ \ {t}]
  /\ Proceed(t, Outside)
  /\ UNCHANGED <<queueTable, mqd, handle, muxHolder>>

-----------------------------------------------------------------------------
MqueueCall(t) ==
  \/ MutexCheck(t) \/ MutexCreate(t) \/ MutexPend(t) \/ Refused(t)
  \/ \E n \in Name :
       \/ mq_unlink(t, n)
       \/ \E d \in Mqd \ DOMAIN mqd :
            \/ DoMqueueOpen(t, n, d)
            \/ \E without \in {"nothing", "name", "descriptor"} : DoMqueueCreate(t, n, d, without)
  \/ \E d \in DOMAIN mqd : mqd[d].thread = t /\ (mq_close(t, d) \/ MessageStart(t, d))
  \/ MessageDone(t) \/ MessageWait(t) \/ MessageReturn(t)

MqueueNext == \E t \in Thread : MqueueCall(t)

MqueueSpec == MqueueInit /\ [][MqueueNext]_mqueueVars

-----------------------------------------------------------------------------
\* What a descriptor was opened for is there as long as it is open (the calls
\* read mqcb without looking), and so it is for a message on its way, although
\* the ID is used after the mutex has been released and IDs are used again.
\* No two queues have one name; one that is unlinked has a descriptor.
DescriptorsKeepTheirQueue ==
  /\ \A d \in DOMAIN mqd : LET entry == queueTable[mqd[d].queue]
                           IN  entry.mqcb /\ entry.name = mqd[d].name
  /\ \A t \in Thread : progress[t].at \in {"message", "wait"} =>
       queueTable[progress[t].queue].name = progress[t].name
  /\ \A i \in QueueIndex : queueTable[i].mqcb =>
       /\ kernelQueue[i].used
       /\ queueTable[i].unlinked => Personal(i) # {}
       /\ \A j \in QueueIndex : queueTable[i].name = queueTable[j].name => i = j

\* "Lock mutex, waiting for it if necessary" (pthread_mutex.c:127): one thread
\* at a time is in what g_mqueueMutex protects.
MutexExcludes == Cardinality({t \in Thread : Now(t, "inside")}) <= 1
=============================================================================
