---------------------------- MODULE MessageQueue ----------------------------
(***************************************************************************)
(* What a bounded message queue promises, without a scheduler: messages    *)
(* leave at the head in the order of the queue, at most limit are in it, a *)
(* reader or writer waits only while every message or free place is spoken *)
(* for, and who waits first is served first.  A served waiter finds the    *)
(* message or the place it was promised when it gets to run.               *)
(***************************************************************************)
EXTENDS Naturals, Sequences, FiniteSets

CONSTANTS Proc, Limits, Operation   \* operations: [rw, end, msg]

VARIABLES limit,       \* 0 while the queue does not exist
          msgs,        \* the messages, head first
          readers, writers,   \* who waits, in order of arrival
          served,      \* who was promised a message or place and has not run
          op           \* what the waiting and the served processes want

vars == <<limit, msgs, readers, writers, served, op>>

WithoutAt(s, i) == SubSeq(s, 1, i - 1) \o SubSeq(s, i + 1, Len(s))

Elements(s) == {s[i] : i \in DOMAIN s}
Busy        == Elements(readers) \cup Elements(writers) \cup served

Promised(rw) == Cardinality({p \in served : op[p].rw = rw})

\* A message, or a place for one, that nobody was promised.
Available(o) == IF o.rw = "READ" THEN Promised("READ") < Len(msgs)
                ELSE Len(msgs) + Promised("WRITE") < limit

Apply(o) == \/ /\ o.rw = "READ" /\ msgs # <<>> /\ msgs' = Tail(msgs)
            \/ /\ o.rw = "WRITE" /\ Len(msgs) < limit
               /\ msgs' = IF o.end = "HEAD" THEN <<o.msg>> \o msgs
                                            ELSE Append(msgs, o.msg)

\* Once an operation is done, the first process that waits for the opposite
\* one is promised what it left; before is who was served without the process
\* that has just finished.
ServeOpposite(o, before) ==
  IF o.rw = "READ"
  THEN /\ writers' = IF writers = <<>> THEN <<>> ELSE Tail(writers)
       /\ readers' = readers
       /\ served' = before \cup (IF writers = <<>> THEN {} ELSE {Head(writers)})
  ELSE /\ readers' = IF readers = <<>> THEN <<>> ELSE Tail(readers)
       /\ writers' = writers
       /\ served' = before \cup (IF readers = <<>> THEN {} ELSE {Head(readers)})

\* The operations of the processes that wait or are served stay what they are.
KeepOp == op' = [p \in Busy' |-> op[p]]

Init == /\ limit = 0 /\ msgs = <<>> /\ readers = <<>> /\ writers = <<>>
        /\ served = {} /\ op = <<>>

Create == /\ limit = 0 /\ limit' \in Limits /\ msgs' = <<>>
          /\ UNCHANGED <<readers, writers, served, op>>

\* Not while anybody waits or holds a promise; messages left are dropped.
Delete == /\ limit # 0 /\ Busy = {} /\ limit' = 0 /\ msgs' = <<>>
          /\ UNCHANGED <<readers, writers, served, op>>

Operate(o) == /\ limit # 0 /\ Available(o)
              /\ Apply(o) /\ ServeOpposite(o, served)
              /\ KeepOp /\ UNCHANGED limit

Wait(p, o) == /\ limit # 0 /\ ~Available(o) /\ p \notin Busy
              /\ \/ o.rw = "READ"  /\ readers' = Append(readers, p) /\ writers' = writers
                 \/ o.rw = "WRITE" /\ writers' = Append(writers, p) /\ readers' = readers
              /\ op' = [q \in Busy \cup {p} |-> IF q = p THEN o ELSE op[q]]
              /\ UNCHANGED <<limit, msgs, served>>

Return(p) == /\ p \in served
             /\ Apply(op[p]) /\ ServeOpposite(op[p], served \ {p})
             /\ KeepOp /\ UNCHANGED limit

\* A waiting process gives up after its time, or is deleted.
Leave(p) == /\ p \in Busy \ served
            /\ \/ \E i \in DOMAIN readers : readers[i] = p /\ readers' = WithoutAt(readers, i)
                  /\ writers' = writers
               \/ \E i \in DOMAIN writers : writers[i] = p /\ writers' = WithoutAt(writers, i)
                  /\ readers' = readers
            /\ KeepOp /\ UNCHANGED <<limit, msgs, served>>

Next == \/ Create \/ Delete
        \/ \E o \in Operation : Operate(o) \/ \E p \in Proc : Wait(p, o)
        \/ \E p \in Proc : Return(p) \/ Leave(p)

Spec == Init /\ [][Next]_vars
=============================================================================
