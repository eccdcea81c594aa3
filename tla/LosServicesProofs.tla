------------------------- MODULE LosServicesProofs --------------------------
(***************************************************************************)
(* Proofs about the two services on top of the kernel that MCServices      *)
(* checks, and about the static memory pools, each for any number of tasks *)
(* and of its own objects.                                                 *)
(*                                                                         *)
(* LosMqueue.  What DescriptorsKeepTheirQueue does not say is why a        *)
(* message under way finds its queue: the thread that sends or receives it *)
(* has a descriptor of the queue open, which only it can close, and cannot *)
(* while the call lasts.                                                   *)
(*                                                                         *)
(* LosVfs, with an application that does not unmount what a path is being  *)
(* opened in.  The counts and the mutexes are only right together: m_refs  *)
(* keeps a mount point that is in use from being freed, so that its mutex  *)
(* is still the one the task took, and the mutexes keep a file from being  *)
(* closed while it is in use, so that m_refs is right.                     *)
(*                                                                         *)
(* LosMembox.  The invariant adds to BoxesAgree the types, and that the ID *)
(* in the magic is one the check accepts: of IDs up to TskLimit + 1 the    *)
(* low byte is not larger.                                                 *)
(***************************************************************************)
EXTENDS LosVfs, LosMqueue, LosMembox, FiniteSetTheorems, WellFoundedInduction, TLAPS

-----------------------------------------------------------------------------
(* POSIX message queues.                                                   *)

Place == {"outside", "create", "lock", "inside", "message", "wait"}

MqueueTypeOK ==
  /\ kernelQueue \in [QueueIndex -> [used : BOOLEAN, waiting : SUBSET Thread]]
  /\ queueTable \in [QueueIndex -> [name : Name \cup {Nil}, mqcb : BOOLEAN, unlinked : BOOLEAN]]
  /\ mqd \in [DOMAIN mqd -> [queue : QueueIndex, name : Name, thread : Thread]]
  /\ progress \in [Thread -> [at : Place, queue : QueueIndex \cup {Nil}, name : Name \cup {Nil}]]

\* A thread on its way with a message has a descriptor of the queue.
SendersHaveDescriptor ==
  \A t \in Thread : progress[t].at \in {"message", "wait"} =>
    /\ progress[t].queue \in QueueIndex
    /\ \E d \in DOMAIN mqd : mqd[d].thread = t /\ mqd[d].queue = progress[t].queue

\* An entry of g_queueTable has a name while it has a queue.
NamedWhileUsed == \A i \in QueueIndex : queueTable[i].mqcb <=> queueTable[i].name # Nil

MqueueInv == /\ MqueueTypeOK /\ SendersHaveDescriptor /\ NamedWhileUsed
             /\ DescriptorsKeepTheirQueue

\* What the invariant is about, if only the place of threads that carry no
\* message changes, or those that do go on with the same one.
LEMMA PlaceOnly ==
  ASSUME MqueueInv, queueTable' = queueTable, mqd' = mqd,
         kernelQueue' \in [QueueIndex -> [used : BOOLEAN, waiting : SUBSET Thread]],
         \A i \in QueueIndex : kernelQueue'[i].used = kernelQueue[i].used,
         progress' \in [Thread -> [at : Place, queue : QueueIndex \cup {Nil},
                                   name : Name \cup {Nil}]],
         \A t \in Thread : progress'[t].at \in {"message", "wait"} =>
           /\ progress[t].at \in {"message", "wait"}
           /\ progress'[t].queue = progress[t].queue /\ progress'[t].name = progress[t].name
  PROVE  MqueueInv'
<1>1. MqueueTypeOK' /\ NamedWhileUsed'
  BY DEF MqueueInv, MqueueTypeOK, NamedWhileUsed
<1>2. SendersHaveDescriptor'
  BY DEF MqueueInv, SendersHaveDescriptor
<1>3. DescriptorsKeepTheirQueue'
  BY DEF MqueueInv, DescriptorsKeepTheirQueue, Personal
<1>. QED BY <1>1, <1>2, <1>3 DEF MqueueInv

\* The types of the places a call moves to.
LEMMA Places ==
  ASSUME MqueueInv, NEW t \in Thread,
         NEW w \in [at : Place, queue : QueueIndex \cup {Nil}, name : Name \cup {Nil}],
         Proceed(t, w)
  PROVE  /\ progress' \in [Thread -> [at : Place, queue : QueueIndex \cup {Nil},
                                      name : Name \cup {Nil}]]
         /\ progress'[t] = w
         /\ \A u \in Thread \ {t} : progress'[u] = progress[u]
BY DEF MqueueInv, MqueueTypeOK, Proceed

\* What Unlock does to the thread that leaves.
LEMMA UnlockLeaves ==
  ASSUME MqueueInv, NEW t \in Thread, Unlock(t, Outside)
  PROVE  /\ progress[t].at = "inside"
         /\ progress' \in [Thread -> [at : Place, queue : QueueIndex \cup {Nil},
                                      name : Name \cup {Nil}]]
         /\ \A u \in Thread : progress'[u].at \in {"message", "wait"} =>
              u # t /\ progress'[u] = progress[u]
<1>1. Outside \in [at : Place, queue : QueueIndex \cup {Nil}, name : Name \cup {Nil}]
  BY DEF Outside, Place
<1>2. Proceed(t, Outside) /\ progress[t].at = "inside"
  BY DEF Unlock, Now
<1>. QED BY <1>1, <1>2, Places DEF Outside

-----------------------------------------------------------------------------
(* The calls under g_mqueueMutex.                                          *)

\* A descriptor more of a queue that is there.
LEMMA OpenPreserves ==
  ASSUME MqueueInv, NEW t \in Thread, NEW n \in Name, NEW d \in Mqd \ DOMAIN mqd,
         DoMqueueOpen(t, n, d)
  PROVE  MqueueInv'
<1>1. PICK i \in Entries(n) : OpenAt(t, n, d, i)
  BY DEF DoMqueueOpen
<1>2. Unlock(t, Outside) /\ kernelQueue' = kernelQueue /\ queueTable' = queueTable
  BY DEF DoMqueueOpen
<1>3. i \in QueueIndex /\ queueTable[i].name = n /\ queueTable[i].mqcb
  BY <1>1, MqueueAssumption DEF Entries, MqueueInv, NamedWhileUsed
<1>4. /\ DOMAIN mqd' = DOMAIN mqd \cup {d}
      /\ mqd'[d] = [queue |-> i, name |-> n, thread |-> t]
      /\ \A x \in DOMAIN mqd : mqd'[x] = mqd[x]
      /\ mqd' = [x \in DOMAIN mqd' |-> mqd'[x]]
  BY <1>1 DEF OpenAt
<1>5. MqueueTypeOK' /\ NamedWhileUsed'
  BY <1>2, <1>3, <1>4, UnlockLeaves DEF MqueueInv, MqueueTypeOK, NamedWhileUsed
<1>6. SendersHaveDescriptor'
  BY <1>2, <1>4, UnlockLeaves DEF MqueueInv, SendersHaveDescriptor
<1>7. DescriptorsKeepTheirQueue'
  <2>1. \A x \in DOMAIN mqd' : queueTable'[mqd'[x].queue].mqcb
                               /\ queueTable'[mqd'[x].queue].name = mqd'[x].name
    BY <1>2, <1>3, <1>4 DEF MqueueInv, DescriptorsKeepTheirQueue
  <2>2. \A u \in Thread : progress'[u].at \in {"message", "wait"} =>
          queueTable'[progress'[u].queue].name = progress'[u].name
    BY <1>2, UnlockLeaves DEF MqueueInv, DescriptorsKeepTheirQueue
  <2>3. \A j \in QueueIndex : Personal(j) # {} => Personal(j)' # {}
    BY <1>4 DEF Personal
  <2>. QED BY <1>2, <2>1, <2>2, <2>3 DEF MqueueInv, DescriptorsKeepTheirQueue
<1>. QED BY <1>5, <1>6, <1>7 DEF MqueueInv

\* An entry that no descriptor names is given a queue, a name and a descriptor.
LEMMA CreatePreserves ==
  ASSUME MqueueInv, NEW t \in Thread, NEW n \in Name, NEW d \in Mqd \ DOMAIN mqd, NEW without,
         DoMqueueCreate(t, n, d, without)
  PROVE  MqueueInv'
<1>1. PICK i \in QueueIndex :
        /\ ~kernelQueue[i].used /\ ~queueTable[i].mqcb
        /\ \/ /\ kernelQueue' = [kernelQueue EXCEPT ![i].used = TRUE]
              /\ queueTable' = [queueTable EXCEPT ![i] = [name |-> n, mqcb |-> TRUE,
                                                          unlinked |-> FALSE]]
              /\ OpenAt(t, n, d, i)
           \/ /\ kernelQueue' = [kernelQueue EXCEPT ![i].used = TRUE]
              /\ UNCHANGED <<queueTable, mqd>>
           \/ UNCHANGED <<kernelQueue, queueTable, mqd>>
  BY DEF DoMqueueCreate
<1>2. Unlock(t, Outside) /\ Entries(n) = {}
  BY DEF DoMqueueCreate
<1>3. \A x \in DOMAIN mqd : mqd[x].queue \in QueueIndex /\ mqd[x].queue # i
  BY <1>1 DEF MqueueInv, MqueueTypeOK, DescriptorsKeepTheirQueue
<1>4. \A u \in Thread : progress[u].at \in {"message", "wait"} =>
        progress[u].queue \in QueueIndex /\ progress[u].queue # i
  BY <1>3 DEF MqueueInv, SendersHaveDescriptor
<1>5. CASE /\ kernelQueue' = [kernelQueue EXCEPT ![i].used = TRUE]
           /\ queueTable' = [queueTable EXCEPT ![i] = [name |-> n, mqcb |-> TRUE,
                                                       unlinked |-> FALSE]]
           /\ OpenAt(t, n, d, i)
  <2>1. /\ DOMAIN mqd' = DOMAIN mqd \cup {d}
        /\ mqd'[d] = [queue |-> i, name |-> n, thread |-> t]
        /\ \A x \in DOMAIN mqd : mqd'[x] = mqd[x]
        /\ mqd' = [x \in DOMAIN mqd' |-> mqd'[x]]
    BY <1>5 DEF OpenAt
  <2>2. /\ queueTable'[i] = [name |-> n, mqcb |-> TRUE, unlinked |-> FALSE]
        /\ \A j \in QueueIndex \ {i} : queueTable'[j] = queueTable[j]
        /\ kernelQueue'[i].used
        /\ \A j \in QueueIndex \ {i} : kernelQueue'[j] = kernelQueue[j]
    BY <1>5 DEF MqueueInv, MqueueTypeOK
  <2>3. kernelQueue' \in [QueueIndex -> [used : BOOLEAN, waiting : SUBSET Thread]]
    BY <1>5 DEF MqueueInv, MqueueTypeOK
  <2>4. queueTable' \in [QueueIndex -> [name : Name \cup {Nil}, mqcb : BOOLEAN,
                                        unlinked : BOOLEAN]]
    BY <1>5 DEF MqueueInv, MqueueTypeOK
  <2>5. MqueueTypeOK'
    BY <1>2, <2>1, <2>3, <2>4, UnlockLeaves DEF MqueueInv, MqueueTypeOK
  <2>6. NamedWhileUsed'
    BY <2>2, MqueueAssumption DEF MqueueInv, NamedWhileUsed
  <2>7. SendersHaveDescriptor'
    BY <1>2, <2>1, UnlockLeaves DEF MqueueInv, SendersHaveDescriptor
  <2>8. \A x \in DOMAIN mqd' : queueTable'[mqd'[x].queue].mqcb
                               /\ queueTable'[mqd'[x].queue].name = mqd'[x].name
    BY <1>3, <2>1, <2>2 DEF MqueueInv, DescriptorsKeepTheirQueue
  <2>9. \A u \in Thread : progress'[u].at \in {"message", "wait"} =>
          queueTable'[progress'[u].queue].name = progress'[u].name
    BY <1>2, <1>4, <2>2, UnlockLeaves DEF MqueueInv, DescriptorsKeepTheirQueue
  <2>10. ASSUME NEW j \in QueueIndex, queueTable'[j].mqcb
         PROVE  /\ kernelQueue'[j].used
                /\ queueTable'[j].unlinked => Personal(j)' # {}
                /\ \A k \in QueueIndex : queueTable'[j].name = queueTable'[k].name => j = k
    <3>1. \A k \in QueueIndex : queueTable[k].name # n
      BY <1>2 DEF Entries
    <3>2. CASE j = i
      BY <2>2, <3>1, <3>2
    <3>3. CASE j # i
      <4>1. Personal(j) # {} => Personal(j)' # {}
        BY <2>1 DEF Personal
      <4>. QED BY <2>2, <2>10, <3>1, <3>3, <4>1 DEF MqueueInv, DescriptorsKeepTheirQueue
    <3>. QED BY <3>2, <3>3
  <2>11. DescriptorsKeepTheirQueue'
    BY <2>8, <2>9, <2>10 DEF DescriptorsKeepTheirQueue
  <2>. QED BY <2>5, <2>6, <2>7, <2>11 DEF MqueueInv
<1>6. CASE /\ kernelQueue' = [kernelQueue EXCEPT ![i].used = TRUE]
           /\ UNCHANGED <<queueTable, mqd>>
  <2>1. /\ kernelQueue' \in [QueueIndex -> [used : BOOLEAN, waiting : SUBSET Thread]]
        /\ \A j \in QueueIndex : kernelQueue[j].used => kernelQueue'[j].used
    BY <1>6 DEF MqueueInv, MqueueTypeOK
  <2>2. MqueueTypeOK' /\ NamedWhileUsed'
    BY <1>2, <1>6, <2>1, UnlockLeaves DEF MqueueInv, MqueueTypeOK, NamedWhileUsed
  <2>3. SendersHaveDescriptor'
    BY <1>2, <1>6, UnlockLeaves DEF MqueueInv, SendersHaveDescriptor
  <2>4. DescriptorsKeepTheirQueue'
    BY <1>2, <1>6, <2>1, UnlockLeaves DEF MqueueInv, DescriptorsKeepTheirQueue, Personal
  <2>. QED BY <2>2, <2>3, <2>4 DEF MqueueInv
<1>7. CASE UNCHANGED <<kernelQueue, queueTable, mqd>>
  BY <1>2, <1>7, UnlockLeaves, PlaceOnly DEF MqueueInv, MqueueTypeOK
<1>. QED BY <1>1, <1>5, <1>6, <1>7

\* A queue goes when no descriptor of it is left.
LEMMA DeletePreserves ==
  ASSUME MqueueInv, NEW t \in Thread, Unlock(t, Outside), NEW i \in QueueIndex,
         NEW D, mqd' = [x \in DOMAIN mqd \ D |-> mqd[x]],
         \A x \in D \cap DOMAIN mqd : mqd[x].thread = t,
         Personal(i) \subseteq D,
         D \cap DOMAIN mqd \subseteq Personal(i),
         DoMqueueDelete(i)
  PROVE  MqueueInv'
<1>1. /\ queueTable'[i].name = Nil /\ ~queueTable'[i].mqcb
      /\ \A j \in QueueIndex \ {i} : queueTable'[j] = queueTable[j]
      /\ \A j \in QueueIndex \ {i} : kernelQueue'[j] = kernelQueue[j]
      /\ queueTable' \in [QueueIndex -> [name : Name \cup {Nil}, mqcb : BOOLEAN,
                                         unlinked : BOOLEAN]]
  <2>. DEFINE e == [queueTable[i] EXCEPT !.name = Nil, !.mqcb = FALSE]
  <2>1. queueTable[i] \in [name : Name \cup {Nil}, mqcb : BOOLEAN, unlinked : BOOLEAN]
    BY DEF MqueueInv, MqueueTypeOK
  <2>2. /\ e \in [name : Name \cup {Nil}, mqcb : BOOLEAN, unlinked : BOOLEAN]
        /\ e.name = Nil /\ ~e.mqcb
    BY <2>1
  <2>3. queueTable' = [queueTable EXCEPT ![i] = e]
    BY DEF DoMqueueDelete
  <2>4. \A j \in QueueIndex \ {i} : kernelQueue'[j] = kernelQueue[j]
    BY DEF DoMqueueDelete, MqueueInv, MqueueTypeOK
  <2>. HIDE DEF e
  <2>. QED BY <2>2, <2>3, <2>4 DEF MqueueInv, MqueueTypeOK
<1>2. kernelQueue' \in [QueueIndex -> [used : BOOLEAN, waiting : SUBSET Thread]]
  <2>1. kernelQueue[i] \in [used : BOOLEAN, waiting : SUBSET Thread]
    BY DEF MqueueInv, MqueueTypeOK
  <2>2. [kernelQueue[i] EXCEPT !.used = (kernelQueue[i].waiting # {})]
          \in [used : BOOLEAN, waiting : SUBSET Thread]
    BY <2>1
  <2>3. kernelQueue' = [kernelQueue EXCEPT
          ![i] = [kernelQueue[i] EXCEPT !.used = (kernelQueue[i].waiting # {})]]
    BY DEF DoMqueueDelete
  <2>. QED BY <2>2, <2>3 DEF MqueueInv, MqueueTypeOK
<1>3. /\ DOMAIN mqd' = DOMAIN mqd \ D
      /\ \A x \in DOMAIN mqd' : mqd'[x] = mqd[x] /\ mqd[x].queue # i
      /\ mqd' = [x \in DOMAIN mqd' |-> mqd'[x]]
  BY DEF Personal
<1>4. MqueueTypeOK'
  BY <1>1, <1>2, <1>3, UnlockLeaves DEF MqueueInv, MqueueTypeOK
<1>5. NamedWhileUsed'
  BY <1>1 DEF MqueueInv, NamedWhileUsed
<1>6. ASSUME NEW u \in Thread, progress'[u].at \in {"message", "wait"}
      PROVE  /\ progress'[u] = progress[u] /\ progress[u].queue \in QueueIndex
             /\ progress[u].queue # i
             /\ \E d \in DOMAIN mqd' : mqd'[d].thread = u /\ mqd'[d].queue = progress[u].queue
  <2>1. u # t /\ progress'[u] = progress[u]
    BY <1>6, UnlockLeaves
  <2>2. PICK d \in DOMAIN mqd : mqd[d].thread = u /\ mqd[d].queue = progress[u].queue
    BY <1>6, <2>1 DEF MqueueInv, SendersHaveDescriptor
  <2>3. d \notin D BY <2>1, <2>2
  <2>. QED BY <1>3, <1>6, <2>1, <2>2, <2>3 DEF MqueueInv, SendersHaveDescriptor
<1>7. SendersHaveDescriptor'
  BY <1>6 DEF SendersHaveDescriptor
<1>8. \A x \in DOMAIN mqd' : queueTable'[mqd'[x].queue].mqcb
                             /\ queueTable'[mqd'[x].queue].name = mqd'[x].name
  BY <1>1, <1>3 DEF MqueueInv, MqueueTypeOK, DescriptorsKeepTheirQueue
<1>9. \A u \in Thread : progress'[u].at \in {"message", "wait"} =>
        queueTable'[progress'[u].queue].name = progress'[u].name
  BY <1>1, <1>6 DEF MqueueInv, DescriptorsKeepTheirQueue
<1>10. ASSUME NEW j \in QueueIndex, queueTable'[j].mqcb
       PROVE  /\ kernelQueue'[j].used
              /\ queueTable'[j].unlinked => Personal(j)' # {}
              /\ \A k \in QueueIndex : queueTable'[j].name = queueTable'[k].name => j = k
  <2>1. j # i /\ queueTable[j].mqcb /\ queueTable[j].name # Nil
    BY <1>1, <1>10 DEF MqueueInv, NamedWhileUsed
  <2>2. Personal(j) # {} => Personal(j)' # {}
    BY <1>3, <2>1 DEF Personal
  <2>. QED BY <1>1, <1>10, <2>1, <2>2 DEF MqueueInv, DescriptorsKeepTheirQueue
<1>11. DescriptorsKeepTheirQueue'
  BY <1>8, <1>9, <1>10 DEF DescriptorsKeepTheirQueue
<1>. QED BY <1>4, <1>5, <1>7, <1>11 DEF MqueueInv

\* mq_close by the thread that opened the descriptor.
LEMMA ClosePreserves ==
  ASSUME MqueueInv, NEW t \in Thread, NEW d \in DOMAIN mqd, mqd[d].thread = t, mq_close(t, d)
  PROVE  MqueueInv'
<1>. DEFINE i == mqd[d].queue
<1>1. /\ i \in QueueIndex /\ Unlock(t, Outside) /\ d \in Personal(i)
      /\ mqd' = [x \in DOMAIN mqd \ {d} |-> mqd[x]]
  BY DEF MqueueInv, MqueueTypeOK, mq_close, Personal
<1>2. CASE queueTable[i].unlinked /\ Personal(i) = {d}
  <2>1. DoMqueueDelete(i)
    BY <1>2 DEF mq_close
  <2>. HIDE DEF i
  <2>. QED BY <1>1, <1>2, <2>1, DeletePreserves
<1>3. CASE ~(queueTable[i].unlinked /\ Personal(i) = {d})
  <2>1. queueTable' = queueTable /\ kernelQueue' = kernelQueue
    BY <1>3 DEF mq_close
  <2>2. /\ DOMAIN mqd' = DOMAIN mqd \ {d}
        /\ \A x \in DOMAIN mqd' : mqd'[x] = mqd[x]
        /\ mqd' = [x \in DOMAIN mqd' |-> mqd'[x]]
    BY <1>1
  <2>3. MqueueTypeOK' /\ NamedWhileUsed'
    BY <1>1, <2>1, <2>2, UnlockLeaves DEF MqueueInv, MqueueTypeOK, NamedWhileUsed
  <2>4. SendersHaveDescriptor'
    <3>1. ASSUME NEW u \in Thread, progress'[u].at \in {"message", "wait"}
          PROVE  /\ progress'[u].queue \in QueueIndex
                 /\ \E x \in DOMAIN mqd' : mqd'[x].thread = u
                                           /\ mqd'[x].queue = progress'[u].queue
      <4>1. u # t /\ progress'[u] = progress[u]
        BY <1>1, <3>1, UnlockLeaves
      <4>2. PICK x \in DOMAIN mqd : mqd[x].thread = u /\ mqd[x].queue = progress[u].queue
        BY <3>1, <4>1 DEF MqueueInv, SendersHaveDescriptor
      <4>3. x # d BY <4>1, <4>2
      <4>. QED BY <2>2, <3>1, <4>1, <4>2, <4>3 DEF MqueueInv, SendersHaveDescriptor
    <3>. QED BY <3>1 DEF SendersHaveDescriptor
  <2>5. \A x \in DOMAIN mqd' : queueTable'[mqd'[x].queue].mqcb
                               /\ queueTable'[mqd'[x].queue].name = mqd'[x].name
    BY <2>1, <2>2 DEF MqueueInv, DescriptorsKeepTheirQueue
  <2>6. \A u \in Thread : progress'[u].at \in {"message", "wait"} =>
          queueTable'[progress'[u].queue].name = progress'[u].name
    BY <1>1, <2>1, UnlockLeaves DEF MqueueInv, DescriptorsKeepTheirQueue
  <2>7. ASSUME NEW j \in QueueIndex, queueTable[j].unlinked, Personal(j) # {}
        PROVE  Personal(j)' # {}
    <3>1. CASE j = i
      <4>1. PICK x \in Personal(i) : x # d
        BY <1>1, <1>3, <2>7, <3>1
      <4>. QED BY <2>2, <3>1, <4>1 DEF Personal
    <3>2. CASE j # i
      BY <2>2, <2>7, <3>2 DEF Personal
    <3>. QED BY <3>1, <3>2
  <2>8. DescriptorsKeepTheirQueue'
    BY <2>1, <2>5, <2>6, <2>7 DEF MqueueInv, DescriptorsKeepTheirQueue
  <2>. QED BY <2>3, <2>4, <2>8 DEF MqueueInv
<1>. QED BY <1>2, <1>3

\* mq_unlink: the queue goes, or waits for its last descriptor.
LEMMA UnlinkPreserves ==
  ASSUME MqueueInv, NEW t \in Thread, NEW n \in Name, mq_unlink(t, n)
  PROVE  MqueueInv'
<1>1. PICK i \in Entries(n) :
        IF Personal(i) = {} THEN DoMqueueDelete(i)
        ELSE queueTable' = [queueTable EXCEPT ![i].unlinked = TRUE] /\ UNCHANGED kernelQueue
  BY DEF mq_unlink
<1>2. Unlock(t, Outside) /\ mqd' = mqd /\ i \in QueueIndex
  BY DEF mq_unlink, Entries
<1>3. CASE Personal(i) = {}
  <2>1. mqd' = [x \in DOMAIN mqd \ {} |-> mqd[x]]
    BY <1>2 DEF MqueueInv, MqueueTypeOK
  <2>2. DoMqueueDelete(i) BY <1>1, <1>3
  <2>. QED BY <1>2, <1>3, <2>1, <2>2, DeletePreserves
<1>4. CASE Personal(i) # {}
  <2>1. /\ queueTable' \in [QueueIndex -> [name : Name \cup {Nil}, mqcb : BOOLEAN,
                                           unlinked : BOOLEAN]]
        /\ \A j \in QueueIndex : /\ queueTable'[j].name = queueTable[j].name
                                 /\ queueTable'[j].mqcb = queueTable[j].mqcb
                                 /\ j # i => queueTable'[j] = queueTable[j]
        /\ kernelQueue' = kernelQueue
    <3>. DEFINE e == [queueTable[i] EXCEPT !.unlinked = TRUE]
    <3>1. queueTable[i] \in [name : Name \cup {Nil}, mqcb : BOOLEAN, unlinked : BOOLEAN]
      BY <1>2 DEF MqueueInv, MqueueTypeOK
    <3>2. /\ e \in [name : Name \cup {Nil}, mqcb : BOOLEAN, unlinked : BOOLEAN]
          /\ e.name = queueTable[i].name /\ e.mqcb = queueTable[i].mqcb
      BY <3>1
    <3>3. queueTable' = [queueTable EXCEPT ![i] = e] /\ kernelQueue' = kernelQueue
      BY <1>1, <1>4
    <3>. HIDE DEF e
    <3>. QED BY <3>2, <3>3 DEF MqueueInv, MqueueTypeOK
  <2>2. MqueueTypeOK' /\ NamedWhileUsed'
    BY <1>2, <2>1, UnlockLeaves DEF MqueueInv, MqueueTypeOK, NamedWhileUsed
  <2>3. SendersHaveDescriptor'
    BY <1>2, UnlockLeaves DEF MqueueInv, SendersHaveDescriptor
  <2>4. \A x \in DOMAIN mqd' : queueTable'[mqd'[x].queue].mqcb
                               /\ queueTable'[mqd'[x].queue].name = mqd'[x].name
    BY <1>2, <2>1 DEF MqueueInv, MqueueTypeOK, DescriptorsKeepTheirQueue
  <2>5. \A u \in Thread : progress'[u].at \in {"message", "wait"} =>
          queueTable'[progress'[u].queue].name = progress'[u].name
    BY <1>2, <2>1, UnlockLeaves DEF MqueueInv, SendersHaveDescriptor, DescriptorsKeepTheirQueue
  <2>6. \A j \in QueueIndex : queueTable'[j].mqcb =>
          /\ kernelQueue'[j].used
          /\ queueTable'[j].unlinked => Personal(j)' # {}
          /\ \A k \in QueueIndex : queueTable'[j].name = queueTable'[k].name => j = k
    BY <1>2, <1>4, <2>1 DEF MqueueInv, DescriptorsKeepTheirQueue, Personal
  <2>7. DescriptorsKeepTheirQueue'
    BY <2>4, <2>5, <2>6 DEF DescriptorsKeepTheirQueue
  <2>. QED BY <2>2, <2>3, <2>7 DEF MqueueInv
<1>. QED BY <1>3, <1>4

\* A message sets out with the queue of a descriptor of the thread.
LEMMA MessagePreserves ==
  ASSUME MqueueInv, NEW t \in Thread, NEW d \in DOMAIN mqd, mqd[d].thread = t,
         MessageStart(t, d)
  PROVE  MqueueInv'
<1>. DEFINE i == mqd[d].queue
            w == [at |-> "message", queue |-> i, name |-> queueTable[i].name]
<1>1. i \in QueueIndex /\ queueTable[i].name \in Name \cup {Nil}
  BY DEF MqueueInv, MqueueTypeOK
<1>2. w \in [at : Place, queue : QueueIndex \cup {Nil}, name : Name \cup {Nil}]
  BY <1>1 DEF Place
<1>3. Proceed(t, w) /\ UNCHANGED <<kernelQueue, queueTable, mqd>>
  BY DEF MessageStart, Unlock
<1>4. /\ progress' \in [Thread -> [at : Place, queue : QueueIndex \cup {Nil},
                                   name : Name \cup {Nil}]]
      /\ progress'[t] = w
      /\ \A u \in Thread \ {t} : progress'[u] = progress[u]
  <2>. HIDE DEF w
  <2>. QED BY <1>2, <1>3, Places
<1>5. MqueueTypeOK' /\ NamedWhileUsed'
  BY <1>3, <1>4 DEF MqueueInv, MqueueTypeOK, NamedWhileUsed
<1>6. SendersHaveDescriptor'
  BY <1>1, <1>3, <1>4 DEF MqueueInv, SendersHaveDescriptor
<1>7. DescriptorsKeepTheirQueue'
  BY <1>3, <1>4 DEF MqueueInv, DescriptorsKeepTheirQueue, Personal
<1>. QED BY <1>5, <1>6, <1>7 DEF MqueueInv

-----------------------------------------------------------------------------
(* The mutex and the calls of the kernel.                                  *)

\* A step that changes a thread's place only.
LEMMA StepsPreserve ==
  ASSUME MqueueInv, NEW t \in Thread,
         MutexCheck(t) \/ MutexCreate(t) \/ MutexPend(t) \/ Refused(t) \/ MessageDone(t)
  PROVE  MqueueInv'
<1>1. UNCHANGED <<kernelQueue, queueTable, mqd>>
  BY DEF MutexCheck, MutexCreate, MutexPend, Refused, MessageDone
<1>2. \E p \in {"create", "lock", "inside", "outside"} : Proceed(t, [Outside EXCEPT !.at = p])
  BY DEF MutexCheck, MutexCreate, MutexPend, Refused, Unlock, MessageDone, Outside
<1>3. PICK p \in {"create", "lock", "inside", "outside"} : Proceed(t, [Outside EXCEPT !.at = p])
  BY <1>2
<1>. DEFINE w == [Outside EXCEPT !.at = p]
<1>4. /\ w \in [at : Place, queue : QueueIndex \cup {Nil}, name : Name \cup {Nil}]
      /\ w.at \notin {"message", "wait"}
  BY DEF Outside, Place
<1>. HIDE DEF w
<1>5. /\ progress' \in [Thread -> [at : Place, queue : QueueIndex \cup {Nil},
                                   name : Name \cup {Nil}]]
      /\ progress'[t] = w
      /\ \A u \in Thread \ {t} : progress'[u] = progress[u]
  BY <1>3, <1>4, Places DEF w
<1>. QED BY <1>1, <1>4, <1>5, PlaceOnly DEF MqueueInv, MqueueTypeOK

\* mq_timedsend and mq_timedreceive wait in the kernel queue, and return.
LEMMA WaitPreserves ==
  ASSUME MqueueInv, NEW t \in Thread, MessageWait(t) \/ MessageReturn(t)
  PROVE  MqueueInv'
<1>1. progress[t].at \in {"message", "wait"} /\ progress[t].queue \in QueueIndex
  BY DEF MqueueInv, SendersHaveDescriptor, MessageWait, MessageReturn, Now
<1>2. /\ kernelQueue' \in [QueueIndex -> [used : BOOLEAN, waiting : SUBSET Thread]]
      /\ \A i \in QueueIndex : kernelQueue'[i].used = kernelQueue[i].used
      /\ UNCHANGED <<queueTable, mqd>>
  <2>. DEFINE q == progress[t].queue
  <2>1. PICK W \in SUBSET Thread :
          kernelQueue' = [kernelQueue EXCEPT ![q] = [kernelQueue[q] EXCEPT !.waiting = W]]
    <3>1. kernelQueue[q].waiting \subseteq Thread
      BY <1>1 DEF MqueueInv, MqueueTypeOK
    <3>2. CASE MessageWait(t)
      <4>1. kernelQueue[q].waiting \cup {t} \in SUBSET Thread BY <3>1
      <4>. QED BY <3>2, <4>1 DEF MessageWait
    <3>3. CASE MessageReturn(t)
      <4>1. kernelQueue[q].waiting \ {t} \in SUBSET Thread BY <3>1
      <4>. QED BY <3>3, <4>1 DEF MessageReturn
    <3>. QED BY <3>2, <3>3
  <2>. DEFINE e == [kernelQueue[q] EXCEPT !.waiting = W]
  <2>2. kernelQueue[q] \in [used : BOOLEAN, waiting : SUBSET Thread]
    BY <1>1 DEF MqueueInv, MqueueTypeOK
  <2>3. e \in [used : BOOLEAN, waiting : SUBSET Thread] /\ e.used = kernelQueue[q].used
    BY <2>2
  <2>4. kernelQueue' = [kernelQueue EXCEPT ![q] = e]
    BY <2>1
  <2>5. UNCHANGED <<queueTable, mqd>>
    BY DEF MessageWait, MessageReturn
  <2>. HIDE DEF e
  <2>. QED BY <1>1, <2>3, <2>4, <2>5 DEF MqueueInv, MqueueTypeOK
<1>3. CASE MessageWait(t)
  <2>. DEFINE w == [progress[t] EXCEPT !.at = "wait"]
  <2>1. /\ w \in [at : Place, queue : QueueIndex \cup {Nil}, name : Name \cup {Nil}]
        /\ w.queue = progress[t].queue /\ w.name = progress[t].name
    BY DEF MqueueInv, MqueueTypeOK, Place
  <2>2. Proceed(t, w) BY <1>3 DEF MessageWait
  <2>. HIDE DEF w
  <2>. QED BY <1>1, <1>2, <2>1, <2>2, Places, PlaceOnly
<1>4. CASE MessageReturn(t)
  <2>1. Proceed(t, Outside) BY <1>4 DEF MessageReturn
  <2>2. /\ Outside \in [at : Place, queue : QueueIndex \cup {Nil}, name : Name \cup {Nil}]
        /\ Outside.at \notin {"message", "wait"}
    BY DEF Outside, Place
  <2>3. /\ progress' \in [Thread -> [at : Place, queue : QueueIndex \cup {Nil},
                                     name : Name \cup {Nil}]]
        /\ progress'[t] = Outside
        /\ \A u \in Thread \ {t} : progress'[u] = progress[u]
    BY <2>1, <2>2, Places
  <2>. QED BY <1>2, <2>2, <2>3, PlaceOnly
<1>. QED BY <1>3, <1>4

-----------------------------------------------------------------------------
\* No descriptor is open.
LEMMA InitMqueue == MqueueInit => MqueueInv
<1>. SUFFICES ASSUME MqueueInit PROVE MqueueInv OBVIOUS
<1>1. /\ kernelQueue = [i \in QueueIndex |-> Free]
      /\ queueTable = [i \in QueueIndex |-> NoEntry]
      /\ mqd = <<>> /\ progress = [t \in Thread |-> Outside]
  BY DEF MqueueInit
<1>2. MqueueTypeOK
  BY <1>1 DEF MqueueTypeOK, Free, NoEntry, Outside, Place
<1>3. SendersHaveDescriptor /\ NamedWhileUsed
  BY <1>1 DEF SendersHaveDescriptor, NamedWhileUsed, NoEntry, Outside
<1>4. DescriptorsKeepTheirQueue
  BY <1>1 DEF DescriptorsKeepTheirQueue, NoEntry, Outside
<1>. QED BY <1>2, <1>3, <1>4 DEF MqueueInv

\* Every step keeps the invariant.
LEMMA NextMqueue == MqueueInv /\ [MqueueNext]_mqueueVars => MqueueInv'
<1>. SUFFICES ASSUME MqueueInv, [MqueueNext]_mqueueVars PROVE MqueueInv' OBVIOUS
<1>1. ASSUME NEW t \in Thread, MqueueCall(t) PROVE MqueueInv'
  <2>1. CASE MutexCheck(t) \/ MutexCreate(t) \/ MutexPend(t) \/ Refused(t) \/ MessageDone(t)
    BY <2>1, StepsPreserve
  <2>2. ASSUME NEW n \in Name, mq_unlink(t, n) PROVE MqueueInv'
    BY <2>2, UnlinkPreserves
  <2>3. ASSUME NEW n \in Name, NEW d \in Mqd \ DOMAIN mqd, DoMqueueOpen(t, n, d)
        PROVE MqueueInv'
    BY <2>3, OpenPreserves
  <2>4. ASSUME NEW n \in Name, NEW d \in Mqd \ DOMAIN mqd,
               NEW without \in {"nothing", "name", "descriptor"},
               DoMqueueCreate(t, n, d, without)
        PROVE MqueueInv'
    BY <2>4, CreatePreserves
  <2>5. ASSUME NEW d \in DOMAIN mqd, mqd[d].thread = t, mq_close(t, d) PROVE MqueueInv'
    BY <2>5, ClosePreserves
  <2>6. ASSUME NEW d \in DOMAIN mqd, mqd[d].thread = t, MessageStart(t, d) PROVE MqueueInv'
    BY <2>6, MessagePreserves
  <2>7. CASE MessageWait(t) \/ MessageReturn(t)
    BY <2>7, WaitPreserves
  <2>. QED BY <1>1, <2>1, <2>2, <2>3, <2>4, <2>5, <2>6, <2>7 DEF MqueueCall
<1>2. CASE UNCHANGED mqueueVars
  BY <1>2, PlaceOnly DEF mqueueVars, MqueueInv, MqueueTypeOK
<1>. QED BY <1>1, <1>2 DEF MqueueNext

\* The strengthening that is inductive: who carries a message has a descriptor
\* of its queue (mqueue.c as a whole).
THEOREM MqueueInvariant == MqueueSpec => []MqueueInv
BY InitMqueue, NextMqueue, PTL DEF MqueueSpec

\* Whatever is created, unlinked and closed, a descriptor names the queue it was
\* opened for, and so does a message under way with a queue's ID (mq_open,
\* mq_close, mq_unlink, mq_timedsend, mq_timedreceive).
THEOREM DescriptorsAlwaysKeepTheirQueue == MqueueSpec => []DescriptorsKeepTheirQueue
<1>1. MqueueInv => DescriptorsKeepTheirQueue BY DEF MqueueInv
<1>. QED BY MqueueInvariant, <1>1, PTL

-----------------------------------------------------------------------------
(* The virtual file system.                                                *)

Where == {"idle", "not found", "open", "opening", "put", "attach to use", "attach to close",
          "use", "close", "path call", "find to mkdir", "find to opendir", "mkdir", "opendir",
          "dir"}

\* A call holds fs_mutex, has a mount point, or has a file reserved for it.
FsHeld    == {"not found", "open", "attach to use", "attach to close", "path call",
              "find to mkdir", "find to opendir"}
Aimed     == (FsHeld \ {"not found"}) \cup Within
Reserving == {"not found", "open", "opening", "put", "close"}

Calls == [at : Where, mp : Mp \cup {None}, fd : Fd \cup {None}]
Files == [status : {"NOT_USED", "INITING", "READY", "CLOSING"}, mp : Mp \cup {None}]

VfsTypeOK ==
  /\ files \in [Fd -> Files]
  /\ dirs \in [Task -> SUBSET Mp]
  /\ DOMAIN mounts \subseteq Mp
  /\ mounts \in [DOMAIN mounts -> [fs : Fs, path : MountPath, refs : Int]]
  /\ registered \in SUBSET Fs /\ fsRefs \in [Fs -> Int]
  /\ owner \in [Mp \cup {FsMutex} -> Task \cup {None}]
  /\ call \in [Task -> Calls]

\* What a call in progress relies on.
CallOK(t) ==
  LET c == call[t] IN
  /\ c.at \in FsHeld => owner[FsMutex] = t
  /\ c.at \in Within => owner[c.mp] = t
  /\ c.at \in Aimed => c.mp \in DOMAIN mounts
  /\ c.at = "dir" => c.mp \in dirs[t]
  /\ c.at \in {"not found", "open", "opening"} => c.fd \in Fd /\ files[c.fd].status = "INITING"
  /\ c.at = "put" => c.fd \in Fd /\ files[c.fd].status \in {"INITING", "CLOSING"}
  /\ c.at \in {"attach to use", "attach to close", "use"} =>
       c.fd \in Fd /\ files[c.fd].status = "READY"
  /\ c.at = "close" => c.fd \in Fd /\ files[c.fd].status = "CLOSING"
  /\ c.at \in {"opening", "attach to use", "attach to close", "use", "close"} =>
       files[c.fd].mp = c.mp
  /\ c.at \in Reserving =>
       \A u \in Task : call[u].at \in Reserving /\ call[u].fd = c.fd => u = t

CallsOK == \A t \in Task : CallOK(t)

\* A file that is open has a mount point.
OpenFilesHaveMount == \A f \in Fd : files[f].status = "READY" => files[f].mp # None

VfsInv == VfsTypeOK /\ CallsOK /\ OpenFilesHaveMount /\ OpenKeepsMounted

\* No step changes a file that a task is using or closing, but that task's own.
FilesKept == \A t \in Task : call[t].at \in {"use", "close"} /\ call'[t] = call[t] =>
                             files'[call[t].fd] = files[call[t].fd]

Kept == VfsInv' /\ FilesKept

\* A task takes a free mutex, gives back its own, or both.
OneMutex(t) == \/ \E m \in Mp \cup {FsMutex} : Take(t, m) \/ (owner[m] = t /\ Give(m))
               \/ owner[FsMutex] = t /\ \E m \in Mp : Descend(t, m)
               \/ UNCHANGED owner

USE DEF At, There

-----------------------------------------------------------------------------
(* Places, mutexes, counts.                                                *)

\* A task is at one place in its call.
LEMMA GotoMoves ==
  ASSUME VfsTypeOK, NEW t \in Task, NEW c \in Calls, Goto(t, c)
  PROVE  /\ call' \in [Task -> Calls] /\ call'[t] = c
         /\ \A u \in Task \ {t} : call'[u] = call[u]
BY DEF VfsTypeOK, Goto

\* Between its calls too.
LEMMA IdleIsCall == Idle \in Calls /\ Idle.at = "idle"
BY DEF Idle, Calls, Where

\* LOS_MuxPend of a free mutex.
LEMMA TakeTakes ==
  ASSUME VfsTypeOK, NEW t \in Task, NEW m \in Mp \cup {FsMutex}, Take(t, m)
  PROVE  /\ owner[m] = None /\ owner'[m] = t
         /\ owner' \in [Mp \cup {FsMutex} -> Task \cup {None}]
         /\ \A n \in (Mp \cup {FsMutex}) \ {m} : owner'[n] = owner[n]
BY DEF VfsTypeOK, Take

\* LOS_MuxPost.
LEMMA GiveGives ==
  ASSUME VfsTypeOK, NEW m \in Mp \cup {FsMutex}, Give(m)
  PROVE  /\ owner'[m] = None
         /\ owner' \in [Mp \cup {FsMutex} -> Task \cup {None}]
         /\ \A n \in (Mp \cup {FsMutex}) \ {m} : owner'[n] = owner[n]
BY DEF VfsTypeOK, Give

\* Both, of the mount point's mutex and of fs_mutex.
LEMMA DescendTakes ==
  ASSUME VfsTypeOK, NEW t \in Task, NEW m \in Mp, Descend(t, m)
  PROVE  /\ owner[m] = None /\ owner'[m] = t /\ owner'[FsMutex] = None
         /\ owner' \in [Mp \cup {FsMutex} -> Task \cup {None}]
         /\ \A n \in Mp \ {m} : owner'[n] = owner[n]
BY VfsAssumption DEF VfsTypeOK, Descend

FileCalls == {"not found", "open", "opening", "put", "attach to use", "attach to close", "use",
              "close"}

\* A call is not disturbed by a step of another task that leaves it its mutexes,
\* mount point and file and does not reserve the file a second time.
LEMMA Bystander ==
  ASSUME VfsInv, NEW u \in Task, call'[u] = call[u], dirs'[u] = dirs[u],
         owner[FsMutex] = u => owner'[FsMutex] = u,
         call[u].at \in Within /\ owner[call[u].mp] = u => owner'[call[u].mp] = u,
         call[u].at \in Aimed => call[u].mp \in DOMAIN mounts',
         call[u].at \in FileCalls => files'[call[u].fd] = files[call[u].fd],
         call[u].at \in Reserving => \A v \in Task \ {u} :
           call'[v].at \in Reserving /\ call'[v].fd = call[u].fd =>
             call[v].at \in Reserving /\ call[v].fd = call[u].fd
  PROVE  CallOK(u)'
<1>. DEFINE c == call[u]
<1>1. CallOK(u) BY DEF VfsInv, CallsOK
<1>3. /\ c.at \in FsHeld => owner'[FsMutex] = u
      /\ c.at \in Within => owner'[c.mp] = u
      /\ c.at \in Aimed => c.mp \in DOMAIN mounts'
      /\ c.at = "dir" => c.mp \in dirs'[u]
  BY <1>1 DEF CallOK
<1>4. /\ c.at \in {"not found", "open", "opening"} =>
           c.fd \in Fd /\ files'[c.fd].status = "INITING"
      /\ c.at = "put" => c.fd \in Fd /\ files'[c.fd].status \in {"INITING", "CLOSING"}
      /\ c.at \in {"attach to use", "attach to close", "use"} =>
           c.fd \in Fd /\ files'[c.fd].status = "READY"
      /\ c.at = "close" => c.fd \in Fd /\ files'[c.fd].status = "CLOSING"
      /\ c.at \in {"opening", "attach to use", "attach to close", "use", "close"} =>
           files'[c.fd].mp = c.mp
  BY <1>1 DEF CallOK, FileCalls
<1>5. c.at \in Reserving =>
        \A v \in Task : call'[v].at \in Reserving /\ call'[v].fd = c.fd => v = u
  BY <1>1 DEF CallOK
<1>. QED BY <1>3, <1>4, <1>5 DEF CallOK

\* What is open stays so if files that are not open change, nobody begins or
\* ends to close one, and directories stay.
LEMMA OpenInSame ==
  ASSUME \A f \in Fd :
           \/ files'[f] = files[f]
           \/ /\ files[f].status # "READY" /\ files'[f].status # "READY"
              /\ \A u \in Task : ~(call[u].at = "close" /\ call[u].fd = f),
         \A u \in Task : /\ call'[u].at = "close" <=> call[u].at = "close"
                         /\ call[u].at = "close" => call'[u].fd = call[u].fd,
         dirs' = dirs
  PROVE  \A m \in Mp : OpenIn(m)' = OpenIn(m)
BY DEF OpenIn

\* The counts agree after a step that leaves what is open and them as they are.
LEMMA CountsSame ==
  ASSUME OpenKeepsMounted, \A m \in Mp : OpenIn(m)' = OpenIn(m),
         UNCHANGED <<mounts, registered, fsRefs>>
  PROVE  OpenKeepsMounted'
BY DEF OpenKeepsMounted

\* What is open in a mount point can be counted.
LEMMA OpenInFinite == ASSUME NEW m PROVE IsFiniteSet(OpenIn(m))
<1>1. OpenIn(m) \subseteq Fd \cup Task
  BY DEF OpenIn
<1>2. IsFiniteSet(Fd \cup Task)
  BY VfsAssumption, FS_Union
<1>. QED BY <1>1, <1>2, FS_Subset

\* A mount point that is there is counted up or down with what is open in it.
LEMMA CountChange ==
  ASSUME VfsInv, NEW m \in DOMAIN mounts, NEW n \in Int,
         mounts' = [mounts EXCEPT ![m].refs = n],
         UNCHANGED <<registered, fsRefs>>,
         n >= Cardinality(OpenIn(m)'),
         \A k \in Mp \ {m} : OpenIn(k)' = OpenIn(k)
  PROVE  /\ OpenKeepsMounted' /\ DOMAIN mounts' = DOMAIN mounts
         /\ mounts' \in [DOMAIN mounts' -> [fs : Fs, path : MountPath, refs : Int]]
<1>. DEFINE e == [mounts[m] EXCEPT !.refs = n]
<1>1. mounts[m] \in [fs : Fs, path : MountPath, refs : Int]
  BY DEF VfsInv, VfsTypeOK
<1>2. e \in [fs : Fs, path : MountPath, refs : Int] /\ e.fs = mounts[m].fs /\ e.refs = n
  BY <1>1
<1>3. mounts' = [mounts EXCEPT ![m] = e]
  OBVIOUS
<1>. HIDE DEF e
<1>4. /\ DOMAIN mounts' = DOMAIN mounts
      /\ mounts' \in [DOMAIN mounts' -> [fs : Fs, path : MountPath, refs : Int]]
      /\ mounts'[m] = e
      /\ \A k \in DOMAIN mounts \ {m} : mounts'[k] = mounts[k]
  BY <1>2, <1>3 DEF VfsInv, VfsTypeOK
<1>5. \A k \in DOMAIN mounts : mounts'[k].fs = mounts[k].fs
  BY <1>2, <1>4
<1>6. \A s \in Fs : {k \in DOMAIN mounts' : mounts'[k].fs = s}
                    = {k \in DOMAIN mounts : mounts[k].fs = s}
  BY <1>4, <1>5
<1>7. \A k \in Mp : /\ OpenIn(k)' # {} => k \in DOMAIN mounts'
                    /\ k \in DOMAIN mounts' => mounts'[k].refs >= Cardinality(OpenIn(k)')
  BY <1>2, <1>4 DEF VfsInv, OpenKeepsMounted
<1>. QED BY <1>4, <1>5, <1>6, <1>7 DEF VfsInv, OpenKeepsMounted

\* Numbers have a least one.
LEMMA LeastNumber ==
  ASSUME NEW B \in SUBSET Nat, B # {}
  PROVE  \E x \in B : \A y \in B : x <= y
<1>1. PICK x \in B : \A y \in B : ~(<<y, x>> \in OpToRel(<, Nat))
  BY NatLessThanWellFounded, WFMin
<1>2. \A y \in B : ~(y < x)
  BY <1>1 DEF OpToRel
<1>. QED BY <1>2

\* los_mp_find finds a mount point if it finds anything: of those whose path
\* begins the path, one is the longest.
LEMMA Found ==
  ASSUME VfsTypeOK, NEW path \in MountPath \cup Path
  PROVE  los_mp_find(path) \in DOMAIN mounts \cup {None}
<1>. DEFINE under == {m \in DOMAIN mounts : Len(mounts[m].path) > 0
                                            /\ IsPrefix(mounts[m].path, path)}
            short(m) == Len(path) - Len(mounts[m].path)
<1>1. \A m \in under : short(m) \in Nat /\ Len(mounts[m].path) \in Nat
  <2>1. \A m \in under : mounts[m].path \in Seq(STRING)
    BY VfsAssumption DEF VfsTypeOK
  <2>2. path \in Seq(STRING)
    BY VfsAssumption
  <2>. QED BY <2>1, <2>2 DEF IsPrefix
<1>2. CASE under = {}
  BY <1>2 DEF los_mp_find
<1>3. CASE under # {}
  <2>. DEFINE lengths == {short(m) : m \in under}
  <2>1. lengths \subseteq Nat /\ lengths # {}
    BY <1>1, <1>3
  <2>. HIDE DEF lengths
  <2>3. PICK l \in lengths : \A y \in lengths : l <= y
    BY <2>1, LeastNumber
  <2>4. PICK m \in under : l = short(m)
    BY DEF lengths
  <2>5. \A n \in under : Len(mounts[n].path) <= Len(mounts[m].path)
    <3>1. \A n \in under : short(m) <= short(n)
      BY <2>3, <2>4 DEF lengths
    <3>2. Len(path) \in Nat
      BY VfsAssumption
    <3>. QED BY <1>1, <3>1, <3>2
  <2>6. (CHOOSE x \in under : \A n \in under : Len(mounts[n].path) <= Len(mounts[x].path)) \in under
    BY <2>5
  <2>. QED BY <1>3, <2>6 DEF los_mp_find
<1>. QED BY <1>2, <1>3

\* The mount point of something in it.
LEMMA FoundInside ==
  ASSUME VfsTypeOK, NEW path \in MountPath \cup Path
  PROVE  Inside(path) \in DOMAIN mounts \cup {None}
BY Found DEF Inside

\* Nobody else loses a mutex.
LEMMA MutexStep ==
  ASSUME VfsInv, NEW t \in Task, OneMutex(t)
  PROVE  /\ owner' \in [Mp \cup {FsMutex} -> Task \cup {None}]
         /\ \A u \in Task \ {t}, n \in Mp \cup {FsMutex} : owner[n] = u => owner'[n] = u
<1>. VfsTypeOK /\ None \notin Task
  BY VfsAssumption DEF VfsInv
<1>1. ASSUME NEW m \in Mp \cup {FsMutex}, Take(t, m)
      PROVE  /\ owner' \in [Mp \cup {FsMutex} -> Task \cup {None}]
             /\ \A u \in Task \ {t}, n \in Mp \cup {FsMutex} : owner[n] = u => owner'[n] = u
  BY <1>1, TakeTakes
<1>2. ASSUME NEW m \in Mp \cup {FsMutex}, owner[m] = t, Give(m)
      PROVE  /\ owner' \in [Mp \cup {FsMutex} -> Task \cup {None}]
             /\ \A u \in Task \ {t}, n \in Mp \cup {FsMutex} : owner[n] = u => owner'[n] = u
  BY <1>2, GiveGives
<1>3. ASSUME owner[FsMutex] = t, NEW m \in Mp, Descend(t, m)
      PROVE  /\ owner' \in [Mp \cup {FsMutex} -> Task \cup {None}]
             /\ \A u \in Task \ {t}, n \in Mp \cup {FsMutex} : owner[n] = u => owner'[n] = u
  BY <1>3, DescendTakes
<1>4. CASE UNCHANGED owner
  BY <1>4 DEF VfsTypeOK
<1>. QED BY <1>1, <1>2, <1>3, <1>4 DEF OneMutex

\* A step of a call of task t, which may change the file it has reserved or is
\* about to close, the count of a mount point and the task's directories.
LEMMA CallStep ==
  ASSUME VfsInv, NEW t \in Task, NEW c \in Calls, Goto(t, c), c.at # call[t].at,
         OneMutex(t),
         DOMAIN mounts' = DOMAIN mounts,
         mounts' \in [DOMAIN mounts' -> [fs : Fs, path : MountPath, refs : Int]],
         UNCHANGED <<registered, fsRefs>>,
         dirs' \in [Task -> SUBSET Mp], \A u \in Task \ {t} : dirs'[u] = dirs[u],
         files' \in [Fd -> Files],
         \A f \in Fd : \/ files'[f] = files[f]
                       \/ call[t].fd = f /\ call[t].at \in Reserving
                       \/ call[t].fd = f /\ call[t].at = "attach to close"
                          /\ owner[call[t].mp] = None,
         c.at \in Reserving => /\ c.fd = call[t].fd
                               /\ call[t].at \in Reserving \cup {"attach to close"},
         CallOK(t)', OpenFilesHaveMount', OpenKeepsMounted'
  PROVE  Kept
<1>1. /\ call' \in [Task -> Calls] /\ call'[t] = c
      /\ \A u \in Task \ {t} : call'[u] = call[u]
  BY GotoMoves DEF VfsInv
<1>2. /\ owner' \in [Mp \cup {FsMutex} -> Task \cup {None}]
      /\ \A u \in Task \ {t}, n \in Mp \cup {FsMutex} : owner[n] = u => owner'[n] = u
  BY MutexStep
<1>3. VfsTypeOK'
  BY <1>1, <1>2 DEF VfsInv, VfsTypeOK
<1>4. CallOK(t) BY DEF VfsInv, CallsOK
<1>5. ASSUME NEW u \in Task \ {t}
      PROVE  CallOK(u)' /\ (call[u].at \in FileCalls => files'[call[u].fd] = files[call[u].fd])
  <2>1. CallOK(u) BY DEF VfsInv, CallsOK
  <2>2. call[t].at = "attach to close" /\ call[u].at \in Reserving => call[u].fd # call[t].fd
    BY <1>4, <2>1 DEF CallOK, Reserving
  <2>3. call[u].at \in Reserving => \A v \in Task \ {u} :
          call'[v].at \in Reserving /\ call'[v].fd = call[u].fd =>
            call[v].at \in Reserving /\ call[v].fd = call[u].fd
    BY <1>1, <2>2
  <2>4. call[u].at \in FileCalls => call[u].fd \in Fd
    BY <2>1 DEF CallOK, FileCalls
  <2>5. ASSUME call[u].at \in FileCalls, call[u].fd = call[t].fd, call[t].at \in Reserving
        PROVE  FALSE
    <3>1. CASE call[u].at \in Reserving
      BY <1>4, <2>5, <3>1 DEF CallOK
    <3>2. CASE call[u].at \in {"attach to use", "attach to close", "use"}
      BY <1>4, <2>1, <2>5, <3>2 DEF CallOK, Reserving
    <3>. QED BY <2>5, <3>1, <3>2 DEF FileCalls, Reserving
  <2>6. ASSUME call[u].at \in FileCalls, call[u].fd = call[t].fd,
               call[t].at = "attach to close", owner[call[t].mp] = None
        PROVE  FALSE
    <3>1. CASE call[u].at \in Reserving
      BY <2>2, <2>6, <3>1
    <3>2. CASE call[u].at \in {"attach to use", "attach to close"}
      BY <1>4, <2>1, <2>6, <3>2 DEF CallOK, FsHeld
    <3>3. CASE call[u].at = "use"
      <4>1. owner[call[u].mp] = u /\ call[u].mp = call[t].mp
        BY <1>4, <2>1, <2>6, <3>3 DEF CallOK, Within
      <4>. QED BY <2>6, <4>1, VfsAssumption
    <3>. QED BY <2>6, <3>1, <3>2, <3>3 DEF FileCalls, Reserving
  <2>7. call[u].at \in FileCalls => files'[call[u].fd] = files[call[u].fd]
    BY <2>4, <2>5, <2>6
  <2>8. call[u].at \in Aimed => call[u].mp \in DOMAIN mounts'
    BY <2>1 DEF CallOK
  <2>9. /\ owner[FsMutex] = u => owner'[FsMutex] = u
        /\ call[u].at \in Within /\ owner[call[u].mp] = u => owner'[call[u].mp] = u
    BY <1>2, <2>1 DEF CallOK, VfsInv, VfsTypeOK, Aimed
  <2>10. call'[u] = call[u] /\ dirs'[u] = dirs[u]
    BY <1>1
  <2>11. CallOK(u)'
    BY <2>3, <2>7, <2>8, <2>9, <2>10, Bystander
  <2>. QED BY <2>7, <2>11
<1>6. FilesKept
  BY <1>1, <1>5 DEF FilesKept, FileCalls
<1>. QED BY <1>3, <1>5, <1>6 DEF Kept, VfsInv, CallsOK

\* A step that changes mutexes only.
LEMMA QuietStep ==
  ASSUME VfsInv, NEW t \in Task, NEW c \in Calls, Goto(t, c), c.at # call[t].at, OneMutex(t),
         UNCHANGED <<files, dirs, mounts, registered, fsRefs>>,
         call[t].at # "close", c.at # "close",
         c.at \in Reserving => c.fd = call[t].fd /\ call[t].at \in Reserving,
         CallOK(t)'
  PROVE  Kept
<1>1. /\ call' \in [Task -> Calls] /\ call'[t] = c
      /\ \A u \in Task \ {t} : call'[u] = call[u]
  BY GotoMoves DEF VfsInv
<1>2. \A m \in Mp : OpenIn(m)' = OpenIn(m)
  BY <1>1, OpenInSame
<1>3. OpenKeepsMounted' /\ OpenFilesHaveMount'
  BY <1>2, CountsSame DEF VfsInv, OpenFilesHaveMount
<1>4. VfsTypeOK BY DEF VfsInv
<1>5. /\ DOMAIN mounts' = DOMAIN mounts
      /\ mounts' \in [DOMAIN mounts' -> [fs : Fs, path : MountPath, refs : Int]]
      /\ dirs' \in [Task -> SUBSET Mp] /\ \A u \in Task \ {t} : dirs'[u] = dirs[u]
      /\ files' \in [Fd -> Files] /\ \A f \in Fd : files'[f] = files[f]
  BY <1>4 DEF VfsTypeOK
<1>. QED BY <1>3, <1>5, CallStep

\* The next place in the same call.
LEMMA NextPlace ==
  ASSUME VfsInv, NEW t \in Task, NEW w \in Where, Goto(t, [call[t] EXCEPT !.at = w])
  PROVE  \E c \in Calls : /\ Goto(t, c) /\ call'[t] = c
                          /\ c.at = w /\ c.mp = call[t].mp /\ c.fd = call[t].fd
                          /\ \A u \in Task \ {t} : call'[u] = call[u]
<1>. DEFINE c == [call[t] EXCEPT !.at = w]
<1>1. call[t] \in Calls
  BY DEF VfsInv, VfsTypeOK
<1>2. c \in Calls /\ c.at = w /\ c.mp = call[t].mp /\ c.fd = call[t].fd /\ Goto(t, c)
  BY <1>1 DEF Calls
<1>. HIDE DEF c
<1>3. call'[t] = c /\ \A u \in Task \ {t} : call'[u] = call[u]
  BY <1>2, GotoMoves DEF VfsInv
<1>. QED BY <1>2, <1>3

\* The call ends.
LEMMA Ends ==
  ASSUME VfsInv, NEW t \in Task, Goto(t, Idle)
  PROVE  /\ CallOK(t)' /\ call'[t] = Idle
         /\ \A u \in Task \ {t} : call'[u] = call[u]
<1>1. call'[t] = Idle /\ \A u \in Task \ {t} : call'[u] = call[u]
  BY GotoMoves, IdleIsCall DEF VfsInv
<1>. QED BY <1>1, IdleIsCall DEF CallOK, FsHeld, Within, Arriving, Aimed, Reserving

\* Who is in the file system of a mount point holds its mutex.
LEMMA Holds ==
  ASSUME VfsInv, NEW t \in Task, call[t].at \in Aimed
  PROVE  /\ call[t].mp \in DOMAIN mounts /\ call[t].mp \in Mp
         /\ call[t].at \in Within => owner[call[t].mp] = t
         /\ call[t].at \in FsHeld => owner[FsMutex] = t
BY DEF VfsInv, VfsTypeOK, CallsOK, CallOK

-----------------------------------------------------------------------------
(* Calls on files.                                                         *)

\* los_open: an unused file is reserved.
LEMMA OpenFindPreserves ==
  ASSUME VfsInv, NEW t \in Task, NEW path \in Path, NEW f \in Fd, OpenFind(t, path, f)
  PROVE  Kept
<1>1. Inside(path) \in DOMAIN mounts \cup {None} /\ Inside(path) \in Mp \cup {None}
  BY FoundInside DEF VfsInv, VfsTypeOK
<1>2. /\ call' \in [Task -> Calls]
      /\ call'[t].at \in {"not found", "open"} /\ call'[t].fd = f
      /\ call'[t].at = "open" => call'[t].mp \in DOMAIN mounts
      /\ \A u \in Task \ {t} : call'[u] = call[u]
      /\ call[t].at = "idle" /\ files[f].status = "NOT_USED"
  <2>. DEFINE c == [at |-> IF Inside(path) = None THEN "not found" ELSE "open",
                    mp |-> Inside(path), fd |-> f]
  <2>1. /\ c \in Calls /\ c.at \in {"not found", "open"} /\ c.fd = f
        /\ c.at = "open" => c.mp \in DOMAIN mounts
    BY <1>1 DEF Calls, Where
  <2>2. Goto(t, c) /\ call[t].at = "idle" /\ files[f].status = "NOT_USED"
    BY DEF OpenFind
  <2>. HIDE DEF c
  <2>. QED BY <2>1, <2>2, GotoMoves DEF VfsInv
<1>3. /\ owner[FsMutex] = None /\ owner'[FsMutex] = t
      /\ owner' \in [Mp \cup {FsMutex} -> Task \cup {None}]
      /\ \A n \in Mp : owner'[n] = owner[n]
  BY TakeTakes, VfsAssumption DEF OpenFind, VfsInv
<1>4. /\ files' \in [Fd -> Files] /\ files'[f].status = "INITING"
      /\ \A g \in Fd \ {f} : files'[g] = files[g]
  BY DEF OpenFind, VfsInv, VfsTypeOK, Files
<1>5. UNCHANGED <<dirs, mounts, registered, fsRefs>>
  BY DEF OpenFind
<1>6. VfsTypeOK'
  BY <1>2, <1>3, <1>4, <1>5 DEF VfsInv, VfsTypeOK
<1>7. \A u \in Task : call[u].at \in FileCalls => call[u].fd \in Fd /\ call[u].fd # f
  BY <1>2 DEF VfsInv, CallsOK, CallOK, FileCalls
<1>8. CallOK(t)'
  <2>1. \A u \in Task \ {t} : ~(call'[u].at \in Reserving /\ call'[u].fd = f)
    BY <1>2, <1>7 DEF Reserving, FileCalls
  <2>. QED BY <1>2, <1>3, <1>4, <1>5, <2>1 DEF CallOK, FsHeld, Within, Arriving, Aimed
<1>9. ASSUME NEW u \in Task \ {t} PROVE CallOK(u)'
  <2>1. call[u].at \in Reserving => call[u].fd # f
    BY <1>7 DEF Reserving, FileCalls
  <2>2. owner[FsMutex] # u BY <1>3, VfsAssumption
  <2>3. call[u].at \in Aimed => call[u].mp \in DOMAIN mounts
    BY DEF VfsInv, CallsOK, CallOK
  <2>4. call[u].at \in Reserving => \A v \in Task \ {u} :
          call'[v].at \in Reserving /\ call'[v].fd = call[u].fd =>
            call[v].at \in Reserving /\ call[v].fd = call[u].fd
    BY <1>2, <2>1
  <2>5. call[u].at \in Within /\ owner[call[u].mp] = u => owner'[call[u].mp] = u
    BY <1>3, <2>3 DEF Aimed, VfsInv, VfsTypeOK
  <2>6. call[u].at \in FileCalls => files'[call[u].fd] = files[call[u].fd]
    BY <1>4, <1>7
  <2>. QED BY <1>2, <1>5, <2>2, <2>3, <2>4, <2>5, <2>6, Bystander
<1>10. OpenKeepsMounted'
  <2>1. \A u \in Task : ~(call[u].at = "close" /\ call[u].fd = f)
    BY <1>7 DEF FileCalls
  <2>2. \A m \in Mp : OpenIn(m)' = OpenIn(m)
    BY <1>2, <1>4, <1>5, <2>1, OpenInSame
  <2>. QED BY <1>5, <2>2, CountsSame DEF VfsInv
<1>11. OpenFilesHaveMount' /\ FilesKept
  BY <1>4, <1>7 DEF VfsInv, OpenFilesHaveMount, FilesKept, FileCalls
<1>. QED BY <1>6, <1>8, <1>9, <1>10, <1>11 DEF Kept, VfsInv, CallsOK

\* A file or path that is not there.
LEMMA OpenNotFoundPreserves ==
  ASSUME VfsInv, NEW t \in Task, OpenNotFound(t)
  PROVE  Kept
<1>1. CallOK(t) /\ call[t].at = "not found"
  BY DEF VfsInv, CallsOK, OpenNotFound
<1>2. PICK c \in Calls : /\ Goto(t, c) /\ call'[t] = c
                         /\ c.at = "put" /\ c.mp = call[t].mp /\ c.fd = call[t].fd
                         /\ \A u \in Task \ {t} : call'[u] = call[u]
  BY NextPlace DEF OpenNotFound, Where
<1>3. Give(FsMutex) /\ UNCHANGED <<files, dirs, mounts, registered, fsRefs>>
  BY DEF OpenNotFound
<1>4. CallOK(t)'
  BY <1>1, <1>2, <1>3 DEF CallOK, FsHeld, Within, Arriving, Aimed, Reserving
<1>5. OneMutex(t)
  BY <1>1, <1>3 DEF OneMutex, CallOK, FsHeld
<1>. QED BY <1>1, <1>2, <1>3, <1>4, <1>5, QuietStep DEF Reserving

\* _los_attach_file: the file is open, and stays so under fs_mutex.
LEMMA AttachPreserves ==
  ASSUME VfsInv, NEW t \in Task, NEW f \in Fd, NEW to \in {"attach to use", "attach to close"},
         Attach(t, f, to)
  PROVE  Kept
<1>. DEFINE c == [at |-> to, mp |-> files[f].mp, fd |-> f]
<1>1. /\ call[t].at = "idle" /\ files[f].status = "READY"
      /\ files[f].mp \in Mp \cup {None}
  BY DEF VfsInv, VfsTypeOK, Files, Attach
<1>2. /\ c \in Calls /\ c.at \in {"attach to use", "attach to close"}
      /\ c.mp = files[f].mp /\ c.fd = f
  BY <1>1 DEF Calls, Where
<1>3. Goto(t, c) /\ Take(t, FsMutex) /\ UNCHANGED <<files, dirs, mounts, registered, fsRefs>>
  BY DEF Attach
<1>4. files[f].mp \in DOMAIN mounts
  <2>1. files[f].mp \in Mp => f \in OpenIn(files[f].mp)
    BY <1>1 DEF OpenIn
  <2>2. files[f].mp # None
    BY <1>1 DEF VfsInv, OpenFilesHaveMount
  <2>. QED BY <1>1, <2>1, <2>2 DEF VfsInv, OpenKeepsMounted
<1>. HIDE DEF c
<1>5. call'[t] = c /\ owner'[FsMutex] = t
  BY <1>2, <1>3, GotoMoves, TakeTakes DEF VfsInv
<1>6. CallOK(t)'
  BY <1>1, <1>2, <1>3, <1>4, <1>5 DEF CallOK, FsHeld, Within, Arriving, Aimed, Reserving
<1>7. OneMutex(t)
  BY <1>3 DEF OneMutex
<1>. QED BY <1>1, <1>2, <1>3, <1>6, <1>7, QuietStep DEF Reserving

\* A task exchanges fs_mutex for the mutex of the mount point.
LEMMA Exchange ==
  ASSUME VfsInv, NEW t \in Task, call[t].at \in Aimed \cap FsHeld, Descend(t, call[t].mp)
  PROVE  /\ OneMutex(t) /\ owner[call[t].mp] = None /\ owner'[call[t].mp] = t
         /\ call[t].mp \in DOMAIN mounts /\ call[t].mp \in Mp
<1>1. /\ call[t].mp \in DOMAIN mounts /\ call[t].mp \in Mp /\ owner[FsMutex] = t
  BY Holds
<1>. QED BY <1>1, DescendTakes DEF OneMutex, VfsInv

\* A step inside the mount point's mutex, at the end of which it is given back.
LEMMA Leaving ==
  ASSUME VfsInv, NEW t \in Task, call[t].at \in Within, Give(call[t].mp)
  PROVE  /\ OneMutex(t) /\ owner'[call[t].mp] = None
         /\ call[t].mp \in DOMAIN mounts /\ call[t].mp \in Mp
<1>1. call[t].mp \in DOMAIN mounts /\ call[t].mp \in Mp /\ owner[call[t].mp] = t
  BY Holds DEF Aimed
<1>. QED BY <1>1, GiveGives DEF OneMutex, VfsInv

\* For los_read and its kind ...
LEMMA AttachToUsePreserves ==
  ASSUME VfsInv, NEW t \in Task, AttachToUse(t)
  PROVE  Kept
<1>1. CallOK(t) /\ call[t].at = "attach to use" /\ call[t].at \in Aimed \cap FsHeld
  BY DEF VfsInv, CallsOK, AttachToUse, Aimed, FsHeld
<1>2. PICK c \in Calls : /\ Goto(t, c) /\ call'[t] = c
                         /\ c.at = "use" /\ c.mp = call[t].mp /\ c.fd = call[t].fd
                         /\ \A u \in Task \ {t} : call'[u] = call[u]
  BY NextPlace DEF AttachToUse, Where
<1>3. UNCHANGED <<files, dirs, mounts, registered, fsRefs>>
  BY DEF AttachToUse
<1>4. OneMutex(t) /\ owner'[c.mp] = t /\ c.mp \in DOMAIN mounts
  BY <1>1, <1>2, Exchange DEF AttachToUse
<1>5. CallOK(t)'
  BY <1>1, <1>2, <1>3, <1>4 DEF CallOK, FsHeld, Within, Arriving, Aimed, Reserving
<1>. QED BY <1>1, <1>2, <1>3, <1>4, <1>5, QuietStep DEF Reserving

\* ... until los_detach_file.
LEMMA DetachPreserves ==
  ASSUME VfsInv, NEW t \in Task, Detach(t)
  PROVE  Kept
<1>1. call[t].at = "use" /\ Give(call[t].mp) /\ Goto(t, Idle)
      /\ UNCHANGED <<files, dirs, mounts, registered, fsRefs>>
  BY DEF Detach
<1>2. OneMutex(t)
  BY <1>1, Leaving DEF Within
<1>. QED BY <1>1, <1>2, Ends, IdleIsCall, QuietStep DEF Reserving

\* los_open goes on in the mount point it has found.
LEMMA OpenEnterPreserves ==
  ASSUME VfsInv, NEW t \in Task, OpenEnter(t)
  PROVE  Kept
<1>. DEFINE f == call[t].fd
<1>1. CallOK(t) /\ call[t].at = "open" /\ call[t].at \in Aimed \cap FsHeld
  BY DEF VfsInv, CallsOK, OpenEnter, Aimed, FsHeld
<1>2. PICK c \in Calls : /\ Goto(t, c) /\ call'[t] = c
                         /\ c.at = "opening" /\ c.mp = call[t].mp /\ c.fd = f
                         /\ \A u \in Task \ {t} : call'[u] = call[u]
  BY NextPlace DEF OpenEnter, Where
<1>3. UNCHANGED <<dirs, mounts, registered, fsRefs>>
  BY DEF OpenEnter
<1>4. OneMutex(t) /\ owner'[c.mp] = t /\ c.mp \in DOMAIN mounts /\ c.mp \in Mp
  BY <1>1, <1>2, Exchange DEF OpenEnter
<1>5. f \in Fd /\ files[f].status = "INITING"
  BY <1>1 DEF CallOK
<1>6. /\ files' \in [Fd -> Files] /\ files'[f].status = "INITING" /\ files'[f].mp = c.mp
      /\ \A g \in Fd \ {f} : files'[g] = files[g]
  <2>1. files' = [files EXCEPT ![f].mp = c.mp] /\ files \in [Fd -> Files]
    BY <1>2 DEF OpenEnter, VfsInv, VfsTypeOK
  <2>. QED BY <1>4, <1>5, <2>1 DEF Files
<1>7. CallOK(t)'
  <2>1. \A u \in Task : call'[u].at \in Reserving /\ call'[u].fd = f => u = t
    BY <1>1, <1>2 DEF CallOK, Reserving
  <2>. QED BY <1>2, <1>3, <1>4, <1>5, <1>6, <2>1
       DEF CallOK, FsHeld, Within, Arriving, Aimed, Reserving
<1>8. OpenFilesHaveMount'
  BY <1>6 DEF VfsInv, OpenFilesHaveMount
<1>9. OpenKeepsMounted'
  <2>1. \A u \in Task : ~(call[u].at = "close" /\ call[u].fd = f)
    BY <1>5 DEF VfsInv, CallsOK, CallOK
  <2>2. \A m \in Mp : OpenIn(m)' = OpenIn(m)
    BY <1>1, <1>2, <1>3, <1>5, <1>6, <2>1, OpenInSame
  <2>. QED BY <1>3, <2>2, CountsSame DEF VfsInv
<1>10. /\ DOMAIN mounts' = DOMAIN mounts
       /\ mounts' \in [DOMAIN mounts' -> [fs : Fs, path : MountPath, refs : Int]]
       /\ dirs' \in [Task -> SUBSET Mp] /\ \A u \in Task \ {t} : dirs'[u] = dirs[u]
  BY <1>3 DEF VfsInv, VfsTypeOK
<1>11. \A g \in Fd : files'[g] = files[g] \/ (call[t].fd = g /\ call[t].at \in Reserving)
  BY <1>1, <1>6 DEF Reserving
<1>. QED BY <1>1, <1>2, <1>3, <1>4, <1>6, <1>7, <1>8, <1>9, <1>10, <1>11, CallStep DEF Reserving

\* los_file_put: the file is unused again.
LEMMA FilePutPreserves ==
  ASSUME VfsInv, NEW t \in Task, FilePut(t)
  PROVE  Kept
<1>. DEFINE f == call[t].fd
<1>1. CallOK(t) /\ call[t].at = "put" /\ Goto(t, Idle)
      /\ UNCHANGED <<dirs, mounts, registered, fsRefs, owner>>
  BY DEF VfsInv, CallsOK, FilePut
<1>2. f \in Fd /\ files[f].status \in {"INITING", "CLOSING"}
  BY <1>1 DEF CallOK
<1>3. /\ CallOK(t)' /\ call'[t] = Idle /\ \A u \in Task \ {t} : call'[u] = call[u]
      /\ Idle \in Calls /\ Idle.at = "idle"
  BY <1>1, Ends, IdleIsCall
<1>4. /\ files' \in [Fd -> Files] /\ files'[f].status = "NOT_USED"
      /\ \A g \in Fd \ {f} : files'[g] = files[g]
  BY <1>2 DEF FilePut, NotUsed, Files, VfsInv, VfsTypeOK
<1>5. OpenFilesHaveMount'
  BY <1>4 DEF VfsInv, OpenFilesHaveMount
<1>6. OpenKeepsMounted'
  <2>1. \A u \in Task : ~(call[u].at = "close" /\ call[u].fd = f)
    BY <1>1 DEF CallOK, Reserving
  <2>2. \A m \in Mp : OpenIn(m)' = OpenIn(m)
    BY <1>1, <1>2, <1>3, <1>4, <2>1, OpenInSame
  <2>. QED BY <1>1, <2>2, CountsSame DEF VfsInv
<1>7. /\ DOMAIN mounts' = DOMAIN mounts
      /\ mounts' \in [DOMAIN mounts' -> [fs : Fs, path : MountPath, refs : Int]]
      /\ dirs' \in [Task -> SUBSET Mp] /\ \A u \in Task \ {t} : dirs'[u] = dirs[u]
  BY <1>1 DEF VfsInv, VfsTypeOK
<1>8. \A g \in Fd : files'[g] = files[g] \/ (call[t].fd = g /\ call[t].at \in Reserving)
  BY <1>1, <1>4 DEF Reserving
<1>9. OneMutex(t)
  BY <1>1 DEF OneMutex
<1>. QED BY <1>1, <1>3, <1>4, <1>5, <1>6, <1>7, <1>8, <1>9, CallStep DEF Reserving

\* For los_close the file is CLOSING, and counted until it is closed.
LEMMA AttachToClosePreserves ==
  ASSUME VfsInv, NEW t \in Task, AttachToClose(t)
  PROVE  Kept
<1>. DEFINE f == call[t].fd
<1>1. CallOK(t) /\ call[t].at = "attach to close" /\ call[t].at \in Aimed \cap FsHeld
  BY DEF VfsInv, CallsOK, AttachToClose, Aimed, FsHeld
<1>2. PICK c \in Calls : /\ Goto(t, c) /\ call'[t] = c
                         /\ c.at = "close" /\ c.mp = call[t].mp /\ c.fd = f
                         /\ \A u \in Task \ {t} : call'[u] = call[u]
  BY NextPlace DEF AttachToClose, Where
<1>3. UNCHANGED <<dirs, mounts, registered, fsRefs>>
  BY DEF AttachToClose
<1>4. /\ OneMutex(t) /\ owner[c.mp] = None /\ owner'[c.mp] = t
      /\ c.mp \in DOMAIN mounts /\ c.mp \in Mp
  BY <1>1, <1>2, Exchange DEF AttachToClose
<1>5. f \in Fd /\ files[f].status = "READY" /\ files[f].mp = c.mp
  BY <1>1, <1>2 DEF CallOK
<1>6. /\ files' \in [Fd -> Files] /\ files'[f].status = "CLOSING" /\ files'[f].mp = c.mp
      /\ \A g \in Fd \ {f} : files'[g] = files[g]
  BY <1>5 DEF AttachToClose, Files, VfsInv, VfsTypeOK
<1>7. \A u \in Task : call[u].at \in Reserving => call[u].fd # f
  BY <1>5 DEF VfsInv, CallsOK, CallOK, Reserving
<1>8. CallOK(t)'
  <2>1. \A u \in Task : call'[u].at \in Reserving /\ call'[u].fd = f => u = t
    BY <1>2, <1>7
  <2>. QED BY <1>2, <1>3, <1>4, <1>5, <1>6, <2>1
       DEF CallOK, FsHeld, Within, Arriving, Aimed, Reserving
<1>9. OpenFilesHaveMount'
  BY <1>6 DEF VfsInv, OpenFilesHaveMount
<1>10. \A m \in Mp : OpenIn(m)' = OpenIn(m)
  <2>1. \A g \in Fd \ {f} :
          (\E u \in Task : call'[u].at = "close" /\ call'[u].fd = g)
            <=> (\E u \in Task : call[u].at = "close" /\ call[u].fd = g)
    BY <1>1, <1>2
  <2>2. call'[t].at = "close" /\ call'[t].fd = f
    BY <1>2
  <2>. QED BY <1>3, <1>5, <1>6, <2>1, <2>2 DEF OpenIn
<1>11. OpenKeepsMounted'
  BY <1>3, <1>10, CountsSame DEF VfsInv
<1>12. /\ DOMAIN mounts' = DOMAIN mounts
       /\ mounts' \in [DOMAIN mounts' -> [fs : Fs, path : MountPath, refs : Int]]
       /\ dirs' \in [Task -> SUBSET Mp] /\ \A u \in Task \ {t} : dirs'[u] = dirs[u]
  BY <1>3 DEF VfsInv, VfsTypeOK
<1>13. \A g \in Fd : files'[g] = files[g] \/ (/\ call[t].fd = g /\ call[t].at = "attach to close"
                                              /\ owner[call[t].mp] = None)
  BY <1>1, <1>2, <1>4, <1>6
<1>. QED BY <1>1, <1>2, <1>3, <1>4, <1>6, <1>8, <1>9, <1>11, <1>12, <1>13, CallStep
     DEF Reserving

\* What is counted grows by the file that is opened.
LEMMA OneMore ==
  ASSUME NEW S, IsFiniteSet(S), NEW x, NEW n \in Int, n >= Cardinality(S)
  PROVE  n + 1 >= Cardinality(S \cup {x}) /\ Cardinality(S) \in Nat
<1>1. Cardinality(S) \in Nat
  BY FS_CardinalityType
<1>2. Cardinality(S \cup {x}) = Cardinality(S) \/ Cardinality(S \cup {x}) = Cardinality(S) + 1
  BY FS_AddElement
<1>. QED BY <1>1, <1>2

\* It shrinks by the file that is closed.
LEMMA OneLess ==
  ASSUME NEW S, IsFiniteSet(S), NEW x \in S, NEW n \in Int, n >= Cardinality(S)
  PROVE  n - 1 >= Cardinality(S \ {x}) /\ n >= Cardinality(S \ {x})
BY FS_RemoveElement, FS_CardinalityType

\* The file system opens the file, and the mount point is counted up.
LEMMA OpenSucceedsPreserves ==
  ASSUME VfsInv, NEW t \in Task, call[t].at = "opening", Opened(call[t].mp),
         files' = [files EXCEPT ![call[t].fd].status = "READY"],
         Give(call[t].mp), Goto(t, Idle), UNCHANGED <<dirs, registered, fsRefs>>
  PROVE  Kept
<1>. DEFINE f == call[t].fd
<1>0. PICK m : m = call[t].mp
  OBVIOUS
<1>1. CallOK(t) BY DEF VfsInv, CallsOK
<1>2. OneMutex(t) /\ m \in DOMAIN mounts /\ m \in Mp
  BY <1>0, Leaving DEF Within, Arriving
<1>3. f \in Fd /\ files[f].status = "INITING" /\ files[f].mp = m
  BY <1>0, <1>1 DEF CallOK
<1>4. /\ CallOK(t)' /\ call'[t] = Idle /\ \A u \in Task \ {t} : call'[u] = call[u]
      /\ Idle \in Calls /\ Idle.at = "idle"
  BY Ends, IdleIsCall
<1>5. /\ files' \in [Fd -> Files] /\ files'[f].status = "READY" /\ files'[f].mp = m
      /\ \A g \in Fd \ {f} : files'[g] = files[g]
  BY <1>3 DEF Files, VfsInv, VfsTypeOK
<1>6. OpenFilesHaveMount'
  BY <1>2, <1>5, VfsAssumption DEF VfsInv, OpenFilesHaveMount
<1>7. /\ OpenIn(m)' = OpenIn(m) \cup {f}
      /\ \A k \in Mp \ {m} : OpenIn(k)' = OpenIn(k)
  <2>1. \A g \in Fd : (\E u \in Task : call'[u].at = "close" /\ call'[u].fd = g)
                      <=> (\E u \in Task : call[u].at = "close" /\ call[u].fd = g)
    BY <1>4
  <2>. QED BY <1>3, <1>5, <2>1 DEF OpenIn
<1>8. mounts[m].refs \in Int /\ mounts[m].refs >= Cardinality(OpenIn(m))
  BY <1>2 DEF VfsInv, VfsTypeOK, OpenKeepsMounted
<1>9. mounts[m].refs + 1 >= Cardinality(OpenIn(m)')
  BY <1>7, <1>8, OneMore, OpenInFinite
<1>10. mounts' = [mounts EXCEPT ![m].refs = mounts[m].refs + 1] /\ mounts[m].refs + 1 \in Int
  BY <1>0, <1>8 DEF Opened
<1>11. /\ OpenKeepsMounted' /\ DOMAIN mounts' = DOMAIN mounts
       /\ mounts' \in [DOMAIN mounts' -> [fs : Fs, path : MountPath, refs : Int]]
  BY <1>2, <1>7, <1>9, <1>10, CountChange
<1>12. dirs' \in [Task -> SUBSET Mp] /\ \A u \in Task \ {t} : dirs'[u] = dirs[u]
  BY DEF VfsInv, VfsTypeOK
<1>13. \A g \in Fd : files'[g] = files[g] \/ (call[t].fd = g /\ call[t].at \in Reserving)
  BY <1>5 DEF Reserving
<1>. QED BY <1>2, <1>4, <1>5, <1>6, <1>11, <1>12, <1>13, CallStep DEF Reserving

\* The file system refuses, and the file is unused again.
LEMMA OpenFailsPreserves ==
  ASSUME VfsInv, NEW t \in Task, call[t].at = "opening",
         files' = [files EXCEPT ![call[t].fd] = NotUsed], UNCHANGED mounts,
         Give(call[t].mp), Goto(t, Idle), UNCHANGED <<dirs, registered, fsRefs>>
  PROVE  Kept
<1>. DEFINE f == call[t].fd
<1>1. CallOK(t) BY DEF VfsInv, CallsOK
<1>2. OneMutex(t)
  BY Leaving DEF Within, Arriving
<1>3. f \in Fd /\ files[f].status = "INITING"
  BY <1>1 DEF CallOK
<1>4. /\ CallOK(t)' /\ call'[t] = Idle /\ \A u \in Task \ {t} : call'[u] = call[u]
      /\ Idle \in Calls /\ Idle.at = "idle"
  BY Ends, IdleIsCall
<1>5. /\ files' \in [Fd -> Files] /\ files'[f].status = "NOT_USED"
      /\ \A g \in Fd \ {f} : files'[g] = files[g]
  BY <1>3 DEF NotUsed, Files, VfsInv, VfsTypeOK
<1>6. OpenFilesHaveMount'
  BY <1>5 DEF VfsInv, OpenFilesHaveMount
<1>7. OpenKeepsMounted'
  <2>1. \A u \in Task : ~(call[u].at = "close" /\ call[u].fd = f)
    BY <1>3 DEF VfsInv, CallsOK, CallOK
  <2>2. \A m \in Mp : OpenIn(m)' = OpenIn(m)
    BY <1>3, <1>4, <1>5, <2>1, OpenInSame
  <2>. QED BY <2>2, CountsSame DEF VfsInv
<1>8. /\ DOMAIN mounts' = DOMAIN mounts
      /\ mounts' \in [DOMAIN mounts' -> [fs : Fs, path : MountPath, refs : Int]]
      /\ dirs' \in [Task -> SUBSET Mp] /\ \A u \in Task \ {t} : dirs'[u] = dirs[u]
  BY DEF VfsInv, VfsTypeOK
<1>9. \A g \in Fd : files'[g] = files[g] \/ (call[t].fd = g /\ call[t].at \in Reserving)
  BY <1>5 DEF Reserving
<1>. QED BY <1>2, <1>4, <1>5, <1>6, <1>7, <1>8, <1>9, CallStep DEF Reserving

\* los_open succeeds or fails.
LEMMA OpenDonePreserves ==
  ASSUME VfsInv, NEW t \in Task, NEW ok \in BOOLEAN, OpenDone(t, ok)
  PROVE  Kept
BY OpenSucceedsPreserves, OpenFailsPreserves DEF OpenDone

\* The file system closes the file, or refuses to.
LEMMA CloseDonePreserves ==
  ASSUME VfsInv, NEW t \in Task, NEW ok \in BOOLEAN, CloseDone(t, ok)
  PROVE  Kept
<1>. DEFINE f == call[t].fd
<1>0. PICK m : m = call[t].mp
  OBVIOUS
<1>1. CallOK(t) /\ call[t].at = "close"
  BY DEF VfsInv, CallsOK, CloseDone
<1>2. PICK c \in Calls : /\ Goto(t, c) /\ call'[t] = c
                         /\ c.at = "put" /\ c.mp = m /\ c.fd = f
                         /\ \A u \in Task \ {t} : call'[u] = call[u]
  BY <1>0, NextPlace DEF CloseDone, Where
<1>3. UNCHANGED <<files, dirs, registered, fsRefs>>
  BY DEF CloseDone
<1>4. OneMutex(t) /\ m \in DOMAIN mounts /\ m \in Mp
  BY <1>0, <1>1, Leaving DEF CloseDone, Within
<1>5. f \in Fd /\ files[f].status = "CLOSING" /\ files[f].mp = m
  BY <1>0, <1>1 DEF CallOK
<1>6. \A u \in Task \ {t} : ~(call[u].at \in Reserving /\ call[u].fd = f)
  BY <1>1 DEF CallOK, Reserving
<1>7. CallOK(t)'
  <2>1. \A u \in Task : call'[u].at \in Reserving /\ call'[u].fd = f => u = t
    BY <1>2, <1>6
  <2>. QED BY <1>2, <1>3, <1>5, <2>1 DEF CallOK, FsHeld, Within, Arriving, Aimed, Reserving
<1>8. /\ f \in OpenIn(m) /\ OpenIn(m)' = OpenIn(m) \ {f}
      /\ \A k \in Mp \ {m} : OpenIn(k)' = OpenIn(k)
  <2>1. \A g \in Fd \ {f} :
          (\E u \in Task : call'[u].at = "close" /\ call'[u].fd = g)
            <=> (\E u \in Task : call[u].at = "close" /\ call[u].fd = g)
    BY <1>1, <1>2
  <2>2. /\ \E u \in Task : call[u].at = "close" /\ call[u].fd = f
        /\ ~\E u \in Task : call'[u].at = "close" /\ call'[u].fd = f
    BY <1>1, <1>2, <1>6 DEF Reserving
  <2>3. f \notin Task
    BY <1>5, VfsAssumption
  <2>. QED BY <1>3, <1>5, <2>1, <2>2, <2>3 DEF OpenIn
<1>9. mounts[m].refs \in Int /\ mounts[m].refs >= Cardinality(OpenIn(m))
  BY <1>4 DEF VfsInv, VfsTypeOK, OpenKeepsMounted
<1>10. /\ mounts[m].refs - 1 >= Cardinality(OpenIn(m)')
       /\ mounts[m].refs >= Cardinality(OpenIn(m)')
  BY <1>8, <1>9, OneLess, OpenInFinite
<1>11. /\ OpenKeepsMounted' /\ DOMAIN mounts' = DOMAIN mounts
       /\ mounts' \in [DOMAIN mounts' -> [fs : Fs, path : MountPath, refs : Int]]
  <2>1. CASE ok
    <3>1. mounts' = [mounts EXCEPT ![m].refs = mounts[m].refs - 1] /\ mounts[m].refs - 1 \in Int
      BY <1>0, <1>9, <2>1 DEF CloseDone, Closed
    <3>. QED BY <1>3, <1>4, <1>8, <1>10, <3>1, CountChange
  <2>2. CASE ~ok
    <3>1. UNCHANGED mounts
      BY <2>2 DEF CloseDone
    <3>2. \A k \in Mp : /\ OpenIn(k)' # {} => k \in DOMAIN mounts
                        /\ k \in DOMAIN mounts => mounts[k].refs >= Cardinality(OpenIn(k)')
      BY <1>4, <1>8, <1>10 DEF VfsInv, OpenKeepsMounted
    <3>. QED BY <1>3, <3>1, <3>2 DEF VfsInv, VfsTypeOK, OpenKeepsMounted
  <2>. QED BY <2>1, <2>2
<1>12. /\ dirs' \in [Task -> SUBSET Mp] /\ \A u \in Task \ {t} : dirs'[u] = dirs[u]
       /\ files' \in [Fd -> Files] /\ OpenFilesHaveMount'
  BY <1>3 DEF VfsInv, VfsTypeOK, OpenFilesHaveMount
<1>. QED BY <1>1, <1>2, <1>3, <1>4, <1>7, <1>11, <1>12, CallStep DEF Reserving

-----------------------------------------------------------------------------
(* Calls on paths and directories.                                         *)

\* A call begins under fs_mutex with a mount point found.
LEMMA FoundStep ==
  ASSUME VfsInv, NEW t \in Task, NEW to \in FsHeld, NEW m \in DOMAIN mounts,
         to \notin {"not found", "open", "attach to use", "attach to close"},
         At(t, "idle"), Take(t, FsMutex), Goto(t, [at |-> to, mp |-> m, fd |-> None]),
         UNCHANGED <<files, dirs, mounts, registered, fsRefs>>
  PROVE  Kept
<1>. DEFINE c == [at |-> to, mp |-> m, fd |-> None]
<1>1. c \in Calls /\ c.at = to /\ c.mp = m /\ Goto(t, c)
  BY DEF Calls, Where, FsHeld, VfsInv, VfsTypeOK
<1>. HIDE DEF c
<1>2. call'[t] = c /\ owner'[FsMutex] = t
  BY <1>1, GotoMoves, TakeTakes DEF VfsInv
<1>3. to \in {"path call", "find to mkdir", "find to opendir"}
  BY DEF FsHeld
<1>4. CallOK(t)'
  BY <1>1, <1>2, <1>3 DEF CallOK, FsHeld, Within, Arriving, Aimed, Reserving
<1>5. OneMutex(t)
  BY DEF OneMutex
<1>. QED BY <1>1, <1>3, <1>4, <1>5, QuietStep DEF Reserving

\* los_stat and its kind.
LEMMA PathCallPreserves ==
  ASSUME VfsInv, NEW t \in Task, NEW path \in Path, PathCall(t, path)
  PROVE  Kept
<1>1. Inside(path) \in DOMAIN mounts
  BY FoundInside DEF PathCall, VfsInv
<1>. QED BY <1>1, FoundStep DEF PathCall, FsHeld

\* Their end.
LEMMA PathCallDonePreserves ==
  ASSUME VfsInv, NEW t \in Task, PathCallDone(t)
  PROVE  Kept
<1>1. call[t].at = "path call" /\ Give(FsMutex) /\ Goto(t, Idle)
      /\ UNCHANGED <<files, dirs, mounts, registered, fsRefs>>
  BY DEF PathCallDone
<1>2. OneMutex(t)
  BY <1>1, Holds DEF OneMutex, FsHeld, Aimed
<1>. QED BY <1>1, <1>2, Ends, IdleIsCall, QuietStep DEF Reserving

\* los_mkdir and los_opendir.
LEMMA DirFindPreserves ==
  ASSUME VfsInv, NEW t \in Task, NEW path \in Path,
         NEW to \in {"find to mkdir", "find to opendir"}, DirFind(t, path, to)
  PROVE  Kept
<1>1. PICK m : /\ m = IF to = "find to opendir" THEN los_mp_find(path) ELSE Inside(path)
               /\ m # None /\ Goto(t, [at |-> to, mp |-> m, fd |-> None])
  BY DEF DirFind
<1>2. m \in DOMAIN mounts
  BY <1>1, Found, FoundInside DEF VfsInv
<1>3. At(t, "idle") /\ Take(t, FsMutex) /\ UNCHANGED <<files, dirs, mounts, registered, fsRefs>>
  BY DEF DirFind
<1>. QED BY <1>1, <1>2, <1>3, FoundStep DEF FsHeld

\* They go on in the mount point ...
LEMMA DirEnterPreserves ==
  ASSUME VfsInv, NEW t \in Task, NEW from \in {"find to mkdir", "find to opendir"},
         NEW to \in {"mkdir", "opendir"}, DirEnter(t, from, to)
  PROVE  Kept
<1>1. CallOK(t) /\ call[t].at = from /\ call[t].at \in Aimed \cap FsHeld
  BY DEF VfsInv, CallsOK, DirEnter, Aimed, FsHeld
<1>2. PICK c \in Calls : /\ Goto(t, c) /\ call'[t] = c
                         /\ c.at = to /\ c.mp = call[t].mp /\ c.fd = call[t].fd
                         /\ \A u \in Task \ {t} : call'[u] = call[u]
  <2>1. to \in Where /\ Goto(t, [call[t] EXCEPT !.at = to])
    BY DEF Where, DirEnter
  <2>. QED BY <2>1, NextPlace
<1>3. UNCHANGED <<files, dirs, mounts, registered, fsRefs>>
  BY DEF DirEnter
<1>4. OneMutex(t) /\ owner'[c.mp] = t /\ c.mp \in DOMAIN mounts
  BY <1>1, <1>2, Exchange DEF DirEnter
<1>5. CallOK(t)'
  BY <1>1, <1>2, <1>3, <1>4 DEF CallOK, FsHeld, Within, Arriving, Aimed, Reserving
<1>. QED BY <1>1, <1>2, <1>3, <1>4, <1>5, QuietStep DEF Reserving

\* ... and end there, as los_readdir does.
LEMMA DirLeaves ==
  ASSUME VfsInv, NEW t \in Task, call[t].at \in {"mkdir", "opendir", "dir"},
         Give(call[t].mp), Goto(t, Idle), UNCHANGED <<files, dirs, mounts, registered, fsRefs>>
  PROVE  Kept
<1>1. OneMutex(t)
  BY Leaving DEF Within, Arriving
<1>. QED BY <1>1, Ends, IdleIsCall, QuietStep DEF Reserving

\* los_readdir and los_closedir: what the task has open there keeps the mount point.
LEMMA ReadOrClosedirPreserves ==
  ASSUME VfsInv, NEW t \in Task, NEW m \in Mp, ReadOrClosedir(t, m)
  PROVE  Kept
<1>. DEFINE c == [at |-> "dir", mp |-> m, fd |-> None]
<1>1. c \in Calls /\ c.at = "dir" /\ c.mp = m /\ Goto(t, c)
  BY DEF Calls, Where, ReadOrClosedir
<1>2. /\ call[t].at = "idle" /\ m \in dirs[t] /\ Take(t, m)
      /\ UNCHANGED <<files, dirs, mounts, registered, fsRefs>>
  BY DEF ReadOrClosedir
<1>. HIDE DEF c
<1>3. m \in DOMAIN mounts
  <2>1. t \in OpenIn(m)
    BY <1>2 DEF OpenIn
  <2>. QED BY <2>1 DEF VfsInv, OpenKeepsMounted
<1>4. call'[t] = c /\ owner'[m] = t
  BY <1>1, <1>2, GotoMoves, TakeTakes DEF VfsInv
<1>5. CallOK(t)'
  BY <1>1, <1>2, <1>3, <1>4 DEF CallOK, FsHeld, Within, Arriving, Aimed, Reserving
<1>6. OneMutex(t)
  BY <1>2 DEF OneMutex
<1>. QED BY <1>1, <1>2, <1>5, <1>6, QuietStep DEF Reserving

\* A step at the end of which the task's directories and the count have changed.
LEMMA DirsStep ==
  ASSUME VfsInv, NEW t \in Task, NEW m, m = call[t].mp, NEW n \in Int,
         call[t].at \in {"opendir", "dir"},
         mounts' = [mounts EXCEPT ![m].refs = n],
         dirs' \in [Task -> SUBSET Mp], \A u \in Task \ {t} : dirs'[u] = dirs[u],
         n >= Cardinality(OpenIn(m)'), \A k \in Mp \ {m} : OpenIn(k)' = OpenIn(k),
         Give(m), Goto(t, Idle), UNCHANGED <<files, registered, fsRefs>>
  PROVE  Kept
<1>1. OneMutex(t) /\ m \in DOMAIN mounts /\ m \in Mp
  BY Leaving DEF Within, Arriving
<1>2. /\ OpenKeepsMounted' /\ DOMAIN mounts' = DOMAIN mounts
      /\ mounts' \in [DOMAIN mounts' -> [fs : Fs, path : MountPath, refs : Int]]
  BY <1>1, CountChange
<1>3. CallOK(t)' /\ Idle \in Calls /\ Idle.at = "idle"
  BY Ends, IdleIsCall
<1>4. files' \in [Fd -> Files] /\ OpenFilesHaveMount'
  BY DEF VfsInv, VfsTypeOK, OpenFilesHaveMount
<1>. QED BY <1>1, <1>2, <1>3, <1>4, CallStep DEF Reserving

\* los_opendir opens a directory, and the mount point is counted up.
LEMMA OpendirSucceedsPreserves ==
  ASSUME VfsInv, NEW t \in Task, call[t].at = "opendir", Opened(call[t].mp),
         dirs' = [dirs EXCEPT ![t] = @ \cup {call[t].mp}],
         Give(call[t].mp), Goto(t, Idle), UNCHANGED <<files, registered, fsRefs>>
  PROVE  Kept
<1>0. PICK m : m = call[t].mp
  OBVIOUS
<1>1. m \in DOMAIN mounts /\ m \in Mp
  BY <1>0, Leaving DEF Within, Arriving
<1>2. /\ dirs' \in [Task -> SUBSET Mp] /\ dirs'[t] = dirs[t] \cup {m}
      /\ \A u \in Task \ {t} : dirs'[u] = dirs[u]
  BY <1>0, <1>1 DEF VfsInv, VfsTypeOK
<1>3. /\ OpenIn(m)' = OpenIn(m) \cup {t}
      /\ \A k \in Mp \ {m} : OpenIn(k)' = OpenIn(k)
  <2>1. \A g \in Fd : (\E u \in Task : call'[u].at = "close" /\ call'[u].fd = g)
                      <=> (\E u \in Task : call[u].at = "close" /\ call[u].fd = g)
    BY Ends, IdleIsCall
  <2>. QED BY <1>2, <2>1 DEF OpenIn
<1>4. mounts[m].refs \in Int /\ mounts[m].refs >= Cardinality(OpenIn(m))
  BY <1>1 DEF VfsInv, VfsTypeOK, OpenKeepsMounted
<1>5. mounts[m].refs + 1 >= Cardinality(OpenIn(m)')
  BY <1>3, <1>4, OneMore, OpenInFinite
<1>6. mounts' = [mounts EXCEPT ![m].refs = mounts[m].refs + 1] /\ mounts[m].refs + 1 \in Int
  BY <1>0, <1>4 DEF Opened
<1>. QED BY <1>0, <1>2, <1>3, <1>5, <1>6, DirsStep

\* los_opendir.
LEMMA OpendirDonePreserves ==
  ASSUME VfsInv, NEW t \in Task, NEW ok \in BOOLEAN, OpendirDone(t, ok)
  PROVE  Kept
<1>1. CASE ok
  BY <1>1, OpendirSucceedsPreserves DEF OpendirDone
<1>2. CASE ~ok
  BY <1>2, DirLeaves DEF OpendirDone
<1>. QED BY <1>1, <1>2

\* los_closedir, and the mount point is counted down.
LEMMA ClosedirDonePreserves ==
  ASSUME VfsInv, NEW t \in Task, ClosedirDone(t)
  PROVE  Kept
<1>0. PICK m : m = call[t].mp
  OBVIOUS
<1>1. /\ call[t].at = "dir" /\ Closed(m) /\ Give(m) /\ Goto(t, Idle)
      /\ UNCHANGED <<files, registered, fsRefs>>
  BY <1>0 DEF ClosedirDone
<1>2. m \in DOMAIN mounts /\ m \in Mp /\ m \in dirs[t]
  BY <1>0, <1>1, Holds DEF Within, Aimed, VfsInv, CallsOK, CallOK
<1>3. /\ dirs' \in [Task -> SUBSET Mp] /\ dirs'[t] = dirs[t] \ {m}
      /\ \A u \in Task \ {t} : dirs'[u] = dirs[u]
  BY <1>0 DEF ClosedirDone, VfsInv, VfsTypeOK
<1>4. /\ t \in OpenIn(m) /\ OpenIn(m)' = OpenIn(m) \ {t}
      /\ \A k \in Mp \ {m} : OpenIn(k)' = OpenIn(k)
  <2>1. \A g \in Fd : (\E u \in Task : call'[u].at = "close" /\ call'[u].fd = g)
                      <=> (\E u \in Task : call[u].at = "close" /\ call[u].fd = g)
    BY <1>1, Ends, IdleIsCall
  <2>2. t \notin Fd
    BY VfsAssumption
  <2>. QED BY <1>1, <1>2, <1>3, <2>1, <2>2 DEF OpenIn
<1>5. mounts[m].refs \in Int /\ mounts[m].refs >= Cardinality(OpenIn(m))
  BY <1>2 DEF VfsInv, VfsTypeOK, OpenKeepsMounted
<1>6. mounts[m].refs - 1 >= Cardinality(OpenIn(m)')
  BY <1>4, <1>5, OneLess, OpenInFinite
<1>7. mounts' = [mounts EXCEPT ![m].refs = mounts[m].refs - 1] /\ mounts[m].refs - 1 \in Int
  BY <1>1, <1>5 DEF Closed
<1>. QED BY <1>0, <1>1, <1>3, <1>4, <1>6, <1>7, DirsStep

-----------------------------------------------------------------------------
(* Registering, mounting, unmounting: while nobody holds fs_mutex.         *)

\* Calls in progress are in a mount point, whose mutex and contents stay.
LEMMA AdminStep ==
  ASSUME VfsInv, Alone, VfsTypeOK', OpenKeepsMounted',
         owner'[FsMutex] = owner[FsMutex],
         \A m \in DOMAIN mounts : owner'[m] = owner[m],
         \A t \in Task : call[t].at \in Within => call[t].mp \in DOMAIN mounts'
  PROVE  Kept
<1>1. UNCHANGED <<files, dirs, call>> /\ owner[FsMutex] = None
  BY DEF Alone
<1>2. ASSUME NEW u \in Task PROVE CallOK(u)'
  <2>1. owner[FsMutex] # u
    BY <1>1, VfsAssumption
  <2>2. call[u].at \notin FsHeld
    BY <2>1 DEF VfsInv, CallsOK, CallOK
  <2>3. call[u].at \in Aimed => call[u].mp \in DOMAIN mounts /\ call[u].mp \in DOMAIN mounts'
    BY <2>2, Holds DEF Aimed
  <2>4. call[u].at \in Within /\ owner[call[u].mp] = u => owner'[call[u].mp] = u
    BY <2>3 DEF Aimed
  <2>. QED BY <1>1, <2>1, <2>3, <2>4, Bystander
<1>3. OpenFilesHaveMount' /\ FilesKept
  BY <1>1 DEF VfsInv, OpenFilesHaveMount, FilesKept
<1>. QED BY <1>2, <1>3 DEF Kept, VfsInv, CallsOK

\* los_fs_register.
LEMMA RegisterPreserves ==
  ASSUME VfsInv, NEW s \in Fs, los_fs_register(s)
  PROVE  Kept
<1>1. /\ Alone /\ registered' = registered \cup {s} /\ UNCHANGED <<mounts, fsRefs, owner>>
      /\ UNCHANGED <<files, dirs, call>>
  BY DEF los_fs_register, Alone
<1>2. VfsTypeOK'
  BY <1>1 DEF VfsInv, VfsTypeOK
<1>3. \A m \in Mp : OpenIn(m)' = OpenIn(m)
  BY <1>1 DEF OpenIn
<1>4. OpenKeepsMounted'
  BY <1>1, <1>3 DEF VfsInv, OpenKeepsMounted
<1>5. \A t \in Task : call[t].at \in Within => call[t].mp \in DOMAIN mounts'
  BY <1>1, Holds DEF Aimed
<1>. QED BY <1>1, <1>2, <1>4, <1>5, AdminStep

\* los_fs_unregister: a file system that no mount point is of.
LEMMA UnregisterPreserves ==
  ASSUME VfsInv, NEW s \in Fs, los_fs_unregister(s)
  PROVE  Kept
<1>1. /\ Alone /\ registered' = registered \ {s} /\ UNCHANGED <<mounts, fsRefs, owner>>
      /\ UNCHANGED <<files, dirs, call>> /\ fsRefs[s] = 0
  BY DEF los_fs_unregister, Alone
<1>2. VfsTypeOK'
  BY <1>1 DEF VfsInv, VfsTypeOK
<1>3. \A m \in Mp : OpenIn(m)' = OpenIn(m)
  BY <1>1 DEF OpenIn
<1>4. \A m \in DOMAIN mounts : mounts[m].fs # s
  <2>. DEFINE ofFs == {m \in DOMAIN mounts : mounts[m].fs = s}
  <2>1. IsFiniteSet(ofFs)
    BY FS_Subset, VfsAssumption DEF VfsInv, VfsTypeOK
  <2>2. Cardinality(ofFs) = 0
    BY <1>1 DEF VfsInv, OpenKeepsMounted
  <2>3. ofFs = {}
    BY <2>1, <2>2, FS_EmptySet
  <2>. QED BY <2>3
<1>5. OpenKeepsMounted'
  BY <1>1, <1>3, <1>4 DEF VfsInv, OpenKeepsMounted
<1>6. \A t \in Task : call[t].at \in Within => call[t].mp \in DOMAIN mounts'
  BY <1>1, Holds DEF Aimed
<1>. QED BY <1>1, <1>2, <1>5, <1>6, AdminStep

\* los_fs_mount: nothing is open yet at an address not in use.
LEMMA MountPreserves ==
  ASSUME VfsInv, NEW s \in Fs, NEW path \in MountPath, NEW m \in Mp, los_fs_mount(s, path, m)
  PROVE  Kept
<1>1. /\ Alone /\ UNCHANGED <<files, dirs, call, registered>>
      /\ s \in registered /\ m \notin DOMAIN mounts
  BY DEF los_fs_mount, Alone
<1>2. /\ DOMAIN mounts' = DOMAIN mounts \cup {m}
      /\ mounts'[m] = [fs |-> s, path |-> path, refs |-> 0]
      /\ \A k \in DOMAIN mounts : mounts'[k] = mounts[k]
      /\ mounts' \in [DOMAIN mounts' -> [fs : Fs, path : MountPath, refs : Int]]
  <2>1. mounts' = [n \in DOMAIN mounts \cup {m} |->
                     IF n = m THEN [fs |-> s, path |-> path, refs |-> 0] ELSE mounts[n]]
    BY DEF los_fs_mount
  <2>2. [fs |-> s, path |-> path, refs |-> 0] \in [fs : Fs, path : MountPath, refs : Int]
    OBVIOUS
  <2>3. \A k \in DOMAIN mounts : mounts[k] \in [fs : Fs, path : MountPath, refs : Int]
    BY DEF VfsInv, VfsTypeOK
  <2>. QED BY <1>1, <2>1, <2>2, <2>3
<1>3. /\ fsRefs' = [fsRefs EXCEPT ![s] = fsRefs[s] + 1] /\ fsRefs \in [Fs -> Int]
      /\ owner' = [owner EXCEPT ![m] = None]
  BY DEF los_fs_mount, VfsInv, VfsTypeOK
<1>4. VfsTypeOK'
  BY <1>1, <1>2, <1>3 DEF VfsInv, VfsTypeOK
<1>5. OpenIn(m) = {} /\ \A k \in Mp : OpenIn(k)' = OpenIn(k)
  BY <1>1 DEF OpenIn, VfsInv, OpenKeepsMounted
<1>6. OpenKeepsMounted'
  <2>1. \A k \in Mp : /\ OpenIn(k)' # {} => k \in DOMAIN mounts'
                      /\ k \in DOMAIN mounts' => mounts'[k].refs >= Cardinality(OpenIn(k)')
    <3>1. Cardinality(OpenIn(m)') = 0 /\ mounts'[m].refs = 0
      BY <1>2, <1>5, FS_EmptySet
    <3>2. \A k \in DOMAIN mounts : mounts'[k].refs >= Cardinality(OpenIn(k)')
      BY <1>2, <1>5 DEF VfsInv, VfsTypeOK, OpenKeepsMounted
    <3>3. \A k \in Mp : OpenIn(k)' # {} => k \in DOMAIN mounts'
      BY <1>2, <1>5 DEF VfsInv, OpenKeepsMounted
    <3>. QED BY <1>2, <3>1, <3>2, <3>3
  <2>2. ASSUME NEW r \in Fs
        PROVE  fsRefs'[r] = Cardinality({k \in DOMAIN mounts' : mounts'[k].fs = r})
    <3>. DEFINE ofFs == {k \in DOMAIN mounts : mounts[k].fs = r}
                after == {k \in DOMAIN mounts' : mounts'[k].fs = r}
    <3>1. IsFiniteSet(ofFs)
      BY FS_Subset, VfsAssumption DEF VfsInv, VfsTypeOK
    <3>2. fsRefs[r] = Cardinality(ofFs)
      BY DEF VfsInv, OpenKeepsMounted
    <3>3. CASE r = s
      <4>1. after = ofFs \cup {m} /\ m \notin ofFs
        BY <1>1, <1>2, <3>3
      <4>. HIDE DEF after, ofFs
      <4>2. Cardinality(after) = Cardinality(ofFs) + 1
        BY <3>1, <4>1, FS_AddElement
      <4>3. fsRefs'[r] = fsRefs[r] + 1
        BY <1>3, <3>3
      <4>4. fsRefs'[r] = Cardinality(after)
        BY <3>2, <4>2, <4>3
      <4>. QED BY <4>4 DEF after
    <3>4. CASE r # s
      <4>1. after = ofFs
        BY <1>1, <1>2, <3>4
      <4>. HIDE DEF after, ofFs
      <4>2. fsRefs'[r] = Cardinality(after)
        BY <1>3, <3>2, <3>4, <4>1
      <4>. QED BY <4>2 DEF after
    <3>. QED BY <3>3, <3>4
  <2>3. \A k \in DOMAIN mounts' : mounts'[k].fs \in registered'
    BY <1>1, <1>2 DEF VfsInv, OpenKeepsMounted
  <2>. QED BY <2>1, <2>2, <2>3 DEF OpenKeepsMounted
<1>7. \A t \in Task : call[t].at \in Within => call[t].mp \in DOMAIN mounts'
  BY <1>2, Holds DEF Aimed
<1>8. /\ owner'[FsMutex] = owner[FsMutex]
      /\ \A k \in DOMAIN mounts : owner'[k] = owner[k]
  BY <1>1, <1>3, VfsAssumption DEF VfsInv, VfsTypeOK
<1>. QED BY <1>1, <1>4, <1>6, <1>7, <1>8, AdminStep

\* los_fs_unmount: nothing is open, and no path is being opened, where nothing
\* is counted.
LEMMA UnmountPreserves ==
  ASSUME VfsInv, NEW m \in Mp, los_fs_unmount(m),
         \A t \in Task : call[t].at \in Arriving => call[t].mp \in DOMAIN mounts'
  PROVE  Kept
<1>1. /\ Alone /\ UNCHANGED <<files, dirs, call, registered, owner>>
      /\ m \in DOMAIN mounts /\ mounts[m].refs = 0
  BY DEF los_fs_unmount, Alone
<1>2. /\ DOMAIN mounts' = DOMAIN mounts \ {m}
      /\ \A k \in DOMAIN mounts' : mounts'[k] = mounts[k]
      /\ mounts' \in [DOMAIN mounts' -> [fs : Fs, path : MountPath, refs : Int]]
  BY DEF los_fs_unmount, VfsInv, VfsTypeOK
<1>3. /\ fsRefs' = [fsRefs EXCEPT ![mounts[m].fs] = fsRefs[mounts[m].fs] - 1]
      /\ fsRefs \in [Fs -> Int] /\ mounts[m].fs \in Fs
  BY <1>1 DEF los_fs_unmount, VfsInv, VfsTypeOK
<1>4. VfsTypeOK'
  BY <1>1, <1>2, <1>3 DEF VfsInv, VfsTypeOK
<1>5. OpenIn(m) = {} /\ \A k \in Mp : OpenIn(k)' = OpenIn(k)
  <2>1. Cardinality(OpenIn(m)) \in Nat /\ 0 >= Cardinality(OpenIn(m))
    BY <1>1, OpenInFinite, FS_CardinalityType DEF VfsInv, OpenKeepsMounted
  <2>2. Cardinality(OpenIn(m)) = 0
    BY <2>1
  <2>3. OpenIn(m) = {}
    BY <2>2, OpenInFinite, FS_EmptySet
  <2>4. \A k \in Mp : OpenIn(k)' = OpenIn(k)
    BY <1>1 DEF OpenIn
  <2>. QED BY <2>3, <2>4
<1>6. OpenKeepsMounted'
  <2>1. \A k \in Mp : /\ OpenIn(k)' # {} => k \in DOMAIN mounts'
                      /\ k \in DOMAIN mounts' => mounts'[k].refs >= Cardinality(OpenIn(k)')
    BY <1>2, <1>5 DEF VfsInv, OpenKeepsMounted
  <2>2. ASSUME NEW r \in Fs
        PROVE  fsRefs'[r] = Cardinality({k \in DOMAIN mounts' : mounts'[k].fs = r})
    <3>. DEFINE ofFs == {k \in DOMAIN mounts : mounts[k].fs = r}
                after == {k \in DOMAIN mounts' : mounts'[k].fs = r}
    <3>1. IsFiniteSet(ofFs)
      BY FS_Subset, VfsAssumption DEF VfsInv, VfsTypeOK
    <3>2. fsRefs[r] = Cardinality(ofFs)
      BY DEF VfsInv, OpenKeepsMounted
    <3>3. CASE r = mounts[m].fs
      <4>1. after = ofFs \ {m} /\ m \in ofFs
        BY <1>1, <1>2, <3>3
      <4>. HIDE DEF after, ofFs
      <4>2. Cardinality(after) = Cardinality(ofFs) - 1
        BY <3>1, <4>1, FS_RemoveElement
      <4>3. fsRefs'[r] = fsRefs[r] - 1
        BY <1>3, <3>3
      <4>4. fsRefs'[r] = Cardinality(after)
        BY <3>2, <4>2, <4>3
      <4>. QED BY <4>4 DEF after
    <3>4. CASE r # mounts[m].fs
      <4>1. after = ofFs
        BY <1>1, <1>2, <3>4
      <4>. HIDE DEF after, ofFs
      <4>2. fsRefs'[r] = Cardinality(after)
        BY <1>3, <3>2, <3>4, <4>1
      <4>. QED BY <4>2 DEF after
    <3>. QED BY <3>3, <3>4
  <2>3. \A k \in DOMAIN mounts' : mounts'[k].fs \in registered'
    BY <1>1, <1>2 DEF VfsInv, OpenKeepsMounted
  <2>. QED BY <2>1, <2>2, <2>3 DEF OpenKeepsMounted
<1>7. ASSUME NEW t \in Task, call[t].at \in Within
      PROVE  call[t].mp \in DOMAIN mounts'
  <2>1. CASE call[t].at \in Arriving
    BY <2>1
  <2>2. CASE call[t].at \notin Arriving
    <3>1. call[t].mp \in DOMAIN mounts /\ call[t].at \in {"use", "close", "dir"}
      BY <1>7, <2>2, Holds DEF Aimed, Within
    <3>2. call[t].mp = m => t \in OpenIn(m) \/ call[t].fd \in OpenIn(m)
      BY <3>1 DEF VfsInv, CallsOK, CallOK, OpenIn
    <3>. QED BY <1>2, <1>5, <3>1, <3>2
  <2>. QED BY <2>1, <2>2
<1>. QED BY <1>1, <1>4, <1>6, <1>7, AdminStep

-----------------------------------------------------------------------------
(* The invariant, and what follows from it.                                *)

\* No file is open and nothing is mounted.
LEMMA InitVfs == ASSUME VfsInit PROVE VfsInv
<1>1. \A t \in Task : call[t].at = "idle"
  BY DEF VfsInit, Idle
<1>2. VfsTypeOK
  BY IdleIsCall DEF VfsInit, VfsTypeOK, NotUsed, Files
<1>3. CallsOK
  BY <1>1 DEF CallsOK, CallOK, FsHeld, Within, Arriving, Aimed, Reserving
<1>4. OpenFilesHaveMount
  BY DEF VfsInit, OpenFilesHaveMount, NotUsed
<1>5. DOMAIN mounts = {} /\ \A m \in Mp : OpenIn(m) = {}
  BY <1>1 DEF VfsInit, OpenIn, NotUsed
<1>6. \A s \in Fs : fsRefs[s] = Cardinality({m \in DOMAIN mounts : mounts[m].fs = s})
  <2>1. \A s \in Fs : {m \in DOMAIN mounts : mounts[m].fs = s} = {}
    BY <1>5
  <2>. QED BY <2>1, FS_EmptySet DEF VfsInit
<1>7. OpenKeepsMounted
  BY <1>5, <1>6 DEF OpenKeepsMounted
<1>. QED BY <1>2, <1>3, <1>4, <1>7 DEF VfsInv

\* Every step keeps the invariant, and the files in use.
LEMMA NextVfs == ASSUME VfsInv, CarefulVfsNext PROVE Kept
<1>1. VfsNext /\ \A t \in Task : call[t].at \in Arriving => call[t].mp \in DOMAIN mounts'
  BY DEF CarefulVfsNext
<1>2. CASE Administer
  BY <1>1, <1>2, RegisterPreserves, UnregisterPreserves, MountPreserves, UnmountPreserves
     DEF Administer
<1>3. ASSUME NEW t \in Task, FileCall(t) PROVE Kept
  <2>1. ASSUME NEW path \in Path, NEW f \in Fd, OpenFind(t, path, f) PROVE Kept
    BY <2>1, OpenFindPreserves
  <2>2. CASE OpenNotFound(t) BY <2>2, OpenNotFoundPreserves
  <2>3. CASE OpenEnter(t) BY <2>3, OpenEnterPreserves
  <2>4. ASSUME NEW ok \in BOOLEAN, OpenDone(t, ok) PROVE Kept
    BY <2>4, OpenDonePreserves
  <2>5. ASSUME NEW ok \in BOOLEAN, CloseDone(t, ok) PROVE Kept
    BY <2>5, CloseDonePreserves
  <2>6. CASE FilePut(t) BY <2>6, FilePutPreserves
  <2>7. ASSUME NEW f \in Fd, NEW to \in {"attach to use", "attach to close"}, Attach(t, f, to)
        PROVE  Kept
    BY <2>7, AttachPreserves
  <2>8. CASE AttachToUse(t) BY <2>8, AttachToUsePreserves
  <2>9. CASE Detach(t) BY <2>9, DetachPreserves
  <2>10. CASE AttachToClose(t) BY <2>10, AttachToClosePreserves
  <2>. QED BY <1>3, <2>1, <2>2, <2>3, <2>4, <2>5, <2>6, <2>7, <2>8, <2>9, <2>10 DEF FileCall
<1>4. ASSUME NEW t \in Task, DirCall(t) PROVE Kept
  <2>1. ASSUME NEW path \in Path, NEW to \in {"find to mkdir", "find to opendir"},
               DirFind(t, path, to)
        PROVE  Kept
    BY <2>1, DirFindPreserves
  <2>2. CASE DirEnter(t, "find to mkdir", "mkdir") \/ DirEnter(t, "find to opendir", "opendir")
    BY <2>2, DirEnterPreserves
  <2>3. CASE MkdirDone(t)
    BY <2>3, DirLeaves DEF MkdirDone
  <2>4. ASSUME NEW ok \in BOOLEAN, OpendirDone(t, ok) PROVE Kept
    BY <2>4, OpendirDonePreserves
  <2>5. ASSUME NEW m \in Mp, ReadOrClosedir(t, m) PROVE Kept
    BY <2>5, ReadOrClosedirPreserves
  <2>6. CASE ReaddirDone(t)
    BY <2>6, DirLeaves DEF ReaddirDone
  <2>7. CASE ClosedirDone(t) BY <2>7, ClosedirDonePreserves
  <2>8. ASSUME NEW path \in Path, PathCall(t, path) PROVE Kept
    BY <2>8, PathCallPreserves
  <2>9. CASE PathCallDone(t) BY <2>9, PathCallDonePreserves
  <2>. QED BY <1>4, <2>1, <2>2, <2>3, <2>4, <2>5, <2>6, <2>7, <2>8, <2>9 DEF DirCall
<1>. QED BY <1>1, <1>2, <1>3, <1>4 DEF VfsNext

\* Doing nothing does too.
LEMMA StutterVfs == ASSUME VfsInv, UNCHANGED vfsVars PROVE Kept
<1>1. UNCHANGED <<files, dirs, mounts, registered, fsRefs, owner, call>>
  BY DEF vfsVars
<1>2. VfsTypeOK' /\ CallsOK'
  BY <1>1 DEF VfsInv, VfsTypeOK, CallsOK, CallOK
<1>3. OpenFilesHaveMount' /\ FilesKept
  BY <1>1 DEF VfsInv, OpenFilesHaveMount, FilesKept
<1>4. OpenKeepsMounted'
  BY <1>1, OpenInSame, CountsSame DEF VfsInv
<1>. QED BY <1>2, <1>3, <1>4 DEF Kept, VfsInv

\* Counts, mutexes and the status of files agree in every reachable state.
THEOREM VfsInvariant == CarefulVfsSpec => []VfsInv
<1>1. VfsInit => VfsInv
  BY InitVfs
<1>2. VfsInv /\ [CarefulVfsNext]_vfsVars => VfsInv'
  BY NextVfs, StutterVfs DEF Kept
<1>. QED BY <1>1, <1>2, PTL DEF CarefulVfsSpec

\* los_fs_unmount and los_fs_unregister: m_refs and fs_refs are not lower than
\* what is open in a mount point and what is mounted of a file system.
THEOREM OpenAlwaysKeepsMounted == CarefulVfsSpec => []OpenKeepsMounted
<1>1. VfsInv => OpenKeepsMounted
  BY DEF VfsInv
<1>. QED BY <1>1, VfsInvariant, PTL

\* los_fs_unmount: if the application does not unmount what a path is being
\* opened in, no call in progress loses its mount point.
THEOREM MountAlwaysStays == CarefulVfsSpec => []MountStays
<1>1. VfsInv => MountStays
  <2>1. ASSUME VfsInv, NEW t \in Task, call[t].at \in Within PROVE call[t].mp \in DOMAIN mounts
    BY <2>1, Holds DEF Aimed
  <2>. QED BY <2>1 DEF MountStays
<1>. QED BY <1>1, VfsInvariant, PTL

\* _los_attach_file: no other task closes a file while it is read or written.
THEOREM FilesAlwaysStayOpen == CarefulVfsSpec => FileStaysOpen
<1>. DEFINE Stays == \A t \in Task : call[t].at \in {"use", "close"} /\ call'[t] = call[t] =>
                       files'[call[t].fd] = files[call[t].fd] /\ files[call[t].fd].mp = call[t].mp
<1>1. VfsInv /\ [CarefulVfsNext]_vfsVars => [Stays]_vfsVars
  <2>1. ASSUME VfsInv, CarefulVfsNext PROVE Stays
    BY <2>1, NextVfs DEF Kept, FilesKept, VfsInv, CallsOK, CallOK
  <2>. QED BY <2>1
<1>2. FileStaysOpen <=> [][Stays]_vfsVars
  BY DEF FileStaysOpen
<1>. HIDE DEF Stays
<1>. QED BY <1>1, <1>2, VfsInvariant, PTL DEF CarefulVfsSpec

-----------------------------------------------------------------------------
(* Static memory pools.                                                    *)

BoxTypeOK == /\ stFreeList \in Seq(Block)
             /\ magic \in [Block -> {NoMagic} \cup TaskID]
             /\ uwBlkCnt \in Int
             /\ taken \in SUBSET Block

BoxInv == BoxTypeOK /\ BoxesAgree

USE DEF NoMagic

\* The low byte of a task's ID passes the test of OsMemBoxCheckMagic.
LEMMA LowByte == ASSUME NEW id \in TaskID PROVE id % IDRange \in TaskID
<1>. IDRange \in Nat /\ IDRange > 0 /\ TskLimit \in Nat /\ id \in Nat /\ id <= TskLimit + 1
  BY MemboxAssumption DEF TaskID
<1>1. CASE id < IDRange
  <2>1. id % IDRange = id BY <1>1
  <2>. QED BY <2>1
<1>2. CASE id >= IDRange
  <2>1. id % IDRange \in 0..(IDRange - 1) OBVIOUS
  <2>. QED BY <1>2, <2>1 DEF TaskID
<1>. QED BY <1>1, <1>2

\* LOS_MemboxAlloc takes its block out of the free list.
LEMMA AllocTakes ==
  ASSUME BoxInv, NEW id \in TaskID, LOS_MemboxAlloc(id)
  PROVE  /\ Head(stFreeList) \in FreeBlocks
         /\ FreeBlocks' = FreeBlocks \ {Head(stFreeList)}
         /\ stFreeList' \in Seq(Block)
         /\ \A i, j \in DOMAIN stFreeList' : stFreeList'[i] = stFreeList'[j] => i = j
<1>. DEFINE s == stFreeList  r == Tail(stFreeList)
<1>1. /\ s \in Seq(Block) /\ s # <<>> /\ stFreeList' = r
      /\ \A i, j \in DOMAIN s : s[i] = s[j] => i = j
  BY DEF BoxInv, BoxTypeOK, BoxesAgree, LOS_MemboxAlloc
<1>2. Len(s) \in Nat /\ Len(s) > 0 /\ DOMAIN s = 1..Len(s) /\ Head(s) = s[1]
  BY <1>1
<1>3. /\ r \in Seq(Block) /\ DOMAIN r = 1 .. (Len(s) - 1)
      /\ \A i \in 1 .. (Len(s) - 1) : r[i] = s[i + 1]
  BY <1>1, <1>2
<1>4. {r[i] : i \in DOMAIN r} = {s[i] : i \in DOMAIN s} \ {s[1]}
  <2>1. ASSUME NEW i \in DOMAIN r PROVE r[i] \in {s[j] : j \in DOMAIN s} \ {s[1]}
    BY <1>1, <1>2, <1>3
  <2>2. ASSUME NEW i \in DOMAIN s, s[i] # s[1] PROVE s[i] \in {r[j] : j \in DOMAIN r}
    <3>1. i - 1 \in 1 .. (Len(s) - 1) BY <1>2, <2>2
    <3>. QED BY <3>1, <1>3, <1>2
  <2>. QED BY <2>1, <2>2
<1>5. \A i, j \in DOMAIN r : r[i] = r[j] => i = j
  BY <1>1, <1>2, <1>3
<1>6. FreeBlocks' = {r[i] : i \in DOMAIN r} /\ FreeBlocks = {s[i] : i \in DOMAIN s}
  BY <1>1 DEF FreeBlocks
<1>7. Head(stFreeList) = s[1] /\ s[1] \in {s[i] : i \in DOMAIN s}
  BY <1>2
<1>. HIDE DEF r, s
<1>8. Head(stFreeList) \in FreeBlocks /\ FreeBlocks' = FreeBlocks \ {Head(stFreeList)}
  BY <1>4, <1>6, <1>7
<1>. QED BY <1>1, <1>3, <1>5, <1>8

\* LOS_MemboxFree puts a block into the free list that is not there.
LEMMA FreePuts ==
  ASSUME BoxInv, NEW b \in Block, LOS_MemboxFree(b)
  PROVE  /\ b \notin FreeBlocks /\ b \in taken
         /\ FreeBlocks' = FreeBlocks \cup {b}
         /\ stFreeList' \in Seq(Block)
         /\ \A i, j \in DOMAIN stFreeList' : stFreeList'[i] = stFreeList'[j] => i = j
<1>. DEFINE s == stFreeList  r == <<b>> \o stFreeList
<1>1. /\ s \in Seq(Block) /\ stFreeList' = r
      /\ \A i, j \in DOMAIN s : s[i] = s[j] => i = j
      /\ b \in taken /\ b \notin FreeBlocks
  BY DEF BoxInv, BoxTypeOK, BoxesAgree, LOS_MemboxFree
<1>2. Len(s) \in Nat /\ DOMAIN s = 1..Len(s)
  BY <1>1
<1>3. /\ r \in Seq(Block) /\ DOMAIN r = 1 .. (Len(s) + 1) /\ r[1] = b
      /\ \A i \in 2 .. (Len(s) + 1) : r[i] = s[i - 1]
  BY <1>1, <1>2
<1>4. {r[i] : i \in DOMAIN r} = {s[i] : i \in DOMAIN s} \cup {b}
  <2>1. ASSUME NEW i \in DOMAIN r PROVE r[i] \in {s[j] : j \in DOMAIN s} \cup {b}
    BY <1>2, <1>3
  <2>2. ASSUME NEW i \in DOMAIN s PROVE s[i] \in {r[j] : j \in DOMAIN r}
    <3>1. i + 1 \in 2 .. (Len(s) + 1) /\ r[i + 1] = s[i] BY <1>2, <1>3
    <3>. QED BY <3>1, <1>3
  <2>3. 1 \in DOMAIN r BY <1>2, <1>3
  <2>. QED BY <2>1, <2>2, <2>3, <1>3
<1>5. \A i \in DOMAIN s : s[i] # b
  BY <1>1 DEF FreeBlocks
<1>6. \A i, j \in DOMAIN r : r[i] = r[j] => i = j
  BY <1>1, <1>2, <1>3, <1>5
<1>7. FreeBlocks' = {r[i] : i \in DOMAIN r} /\ FreeBlocks = {s[i] : i \in DOMAIN s}
  BY <1>1 DEF FreeBlocks
<1>. HIDE DEF r, s
<1>8. FreeBlocks' = FreeBlocks \cup {b}
  BY <1>4, <1>7
<1>. QED BY <1>1, <1>3, <1>6, <1>8

\* The pool LOS_MemboxInit makes.
LEMMA InitBoxes == MemboxInit => BoxInv /\ FreeBlocks = Block
<1>. SUFFICES ASSUME MemboxInit PROVE BoxInv /\ FreeBlocks = Block OBVIOUS
<1>1. BlkNum \in Nat BY MemboxAssumption
<1>2. /\ stFreeList = [b \in Block |-> b] /\ magic = [b \in Block |-> NoMagic]
      /\ uwBlkCnt = 0 /\ taken = {}
  BY DEF MemboxInit
<1>3. stFreeList \in Seq(Block) /\ DOMAIN stFreeList = Block
  BY <1>1, <1>2 DEF Block
<1>4. FreeBlocks = Block
  BY <1>2, <1>3 DEF FreeBlocks
<1>. QED BY <1>2, <1>3, <1>4 DEF BoxInv, BoxTypeOK, BoxesAgree, OsMemBoxCheckMagic

\* Every call keeps it, LOS_MemboxAlloc by any task and LOS_MemboxFree of any block.
LEMMA NextBoxes == BoxInv /\ [MemboxNext]_memboxVars => BoxInv'
<1>. SUFFICES ASSUME BoxInv, [MemboxNext]_memboxVars PROVE BoxInv' OBVIOUS
<1>0. /\ magic \in [Block -> {NoMagic} \cup TaskID] /\ uwBlkCnt \in Int /\ taken \in SUBSET Block
      /\ \A b \in Block : /\ b \in taken <=> b \notin FreeBlocks
                          /\ b \in taken <=> OsMemBoxCheckMagic(b)
      /\ TskLimit \in Nat
  BY MemboxAssumption DEF BoxInv, BoxTypeOK, BoxesAgree
<1>1. ASSUME NEW id \in TaskID, LOS_MemboxAlloc(id) PROVE BoxInv'
  <2>. DEFINE b == Head(stFreeList)
  <2>1. /\ b \in FreeBlocks /\ FreeBlocks' = FreeBlocks \ {b} /\ stFreeList' \in Seq(Block)
        /\ \A i, j \in DOMAIN stFreeList' : stFreeList'[i] = stFreeList'[j] => i = j
    BY <1>1, AllocTakes
  <2>2. b \in Block
    BY <1>1 DEF BoxInv, BoxTypeOK, LOS_MemboxAlloc
  <2>3. /\ magic' = [magic EXCEPT ![b] = id % IDRange] /\ taken' = taken \cup {b}
        /\ uwBlkCnt' = uwBlkCnt + 1
    BY <1>1 DEF LOS_MemboxAlloc
  <2>4. id % IDRange \in TaskID BY LowByte
  <2>5. BoxTypeOK' BY <1>0, <2>1, <2>2, <2>3, <2>4 DEF BoxTypeOK
  <2>6. ASSUME NEW c \in Block
        PROVE  (c \in taken <=> c \notin FreeBlocks)' /\ (c \in taken <=> OsMemBoxCheckMagic(c))'
    <3>1. CASE c = b
      BY <1>0, <2>1, <2>2, <2>3, <2>4, <3>1 DEF OsMemBoxCheckMagic, TaskID
    <3>2. CASE c # b
      BY <1>0, <2>1, <2>2, <2>3, <3>2 DEF OsMemBoxCheckMagic
    <3>. QED BY <3>1, <3>2
  <2>. QED BY <2>1, <2>5, <2>6 DEF BoxInv, BoxesAgree
<1>2. ASSUME NEW b \in Block, LOS_MemboxFree(b) PROVE BoxInv'
  <2>1. /\ b \in taken /\ FreeBlocks' = FreeBlocks \cup {b} /\ stFreeList' \in Seq(Block)
        /\ \A i, j \in DOMAIN stFreeList' : stFreeList'[i] = stFreeList'[j] => i = j
    BY <1>2, FreePuts
  <2>2. /\ magic' = [magic EXCEPT ![b] = NoMagic] /\ taken' = taken \ {b}
        /\ uwBlkCnt' = uwBlkCnt - 1
    BY <1>2 DEF LOS_MemboxFree
  <2>3. BoxTypeOK' BY <1>0, <2>1, <2>2 DEF BoxTypeOK
  <2>4. ASSUME NEW c \in Block
        PROVE  (c \in taken <=> c \notin FreeBlocks)' /\ (c \in taken <=> OsMemBoxCheckMagic(c))'
    <3>1. CASE c = b
      BY <1>0, <2>1, <2>2, <3>1 DEF OsMemBoxCheckMagic
    <3>2. CASE c # b
      BY <1>0, <2>1, <2>2, <3>2 DEF OsMemBoxCheckMagic
    <3>. QED BY <3>1, <3>2
  <2>. QED BY <2>1, <2>3, <2>4 DEF BoxInv, BoxesAgree
<1>3. CASE UNCHANGED memboxVars
  BY <1>3 DEF memboxVars, BoxInv, BoxTypeOK, BoxesAgree, FreeBlocks, OsMemBoxCheckMagic
<1>. QED BY <1>1, <1>2, <1>3 DEF MemboxNext

\* The strengthening of BoxesAgree that is inductive (LOS_MemboxAlloc,
\* LOS_MemboxFree, OsCheckBoxMem).
THEOREM BoxInvariant == MemboxSpec => []BoxInv
BY InitBoxes, NextBoxes, PTL DEF MemboxSpec

\* Every block that is out is accepted back, by whatever task it was taken, and
\* once only; the others are in the free list, each once (LOS_MemboxAlloc,
\* LOS_MemboxFree).
THEOREM BoxesAlwaysAgree == MemboxSpec => []BoxesAgree
<1>1. BoxInv => BoxesAgree BY DEF BoxInv
<1>. QED BY BoxInvariant, <1>1, PTL

\* A static pool of any size is what BlockPool promises, and what LosMail takes
\* it for (los_membox.c as a whole).
THEOREM PoolRefined == MemboxSpec => ImplementsBlockPool
<1>1. MemboxInit => BoxPool!Init
  BY InitBoxes DEF BoxPool!Init, MemboxInit
<1>2. BoxInv /\ [MemboxNext]_memboxVars => [BoxPool!Next]_<<FreeBlocks, uwBlkCnt>>
  <2>. SUFFICES ASSUME BoxInv, [MemboxNext]_memboxVars
                PROVE  BoxPool!Next \/ UNCHANGED <<FreeBlocks, uwBlkCnt>>
    OBVIOUS
  <2>1. ASSUME NEW id \in TaskID, LOS_MemboxAlloc(id) PROVE BoxPool!Take
    BY <2>1, AllocTakes DEF BoxPool!Take, LOS_MemboxAlloc
  <2>2. ASSUME NEW b \in Block, LOS_MemboxFree(b) PROVE BoxPool!GiveBack
    BY <2>2, FreePuts DEF BoxPool!GiveBack, LOS_MemboxFree
  <2>3. CASE UNCHANGED memboxVars
    BY <2>3 DEF memboxVars, FreeBlocks
  <2>. QED BY <2>1, <2>2, <2>3 DEF MemboxNext, BoxPool!Next
<1>. QED BY <1>1, <1>2, BoxInvariant, PTL DEF MemboxSpec, ImplementsBlockPool, BoxPool!Spec

=============================================================================
