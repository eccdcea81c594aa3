--------------------------- MODULE LosEventProofs ---------------------------
(***************************************************************************)
(* Theorems about LosEvent, for any number of tasks, priorities and events *)
(* and any bits and requests, and for an application that destroys no      *)
(* event which a call has tested and not yet used (CarefulEventsSpec): no  *)
(* event is lost, readers wait on the list of the event they read, and     *)
(* every event implements the module EventFlags.                           *)
(*                                                                         *)
(* LOS_EventWrite wakes any number of readers in one walk over the list.   *)
(* The walk is a recursive function on the positions of the list, and what *)
(* it does is shown by looking at the first position at which it would not *)
(* do it.                                                                  *)
(***************************************************************************)
EXTENDS LosEvent, LosWaitProofs, WellFoundedInduction

\* The types, and for every task that is in a call of LOS_EventRead which event
\* it reads; whoever is on a list waits for that event, in vain so far.
EventInv ==
  /\ eventInit \in [Event -> BOOLEAN] /\ eventID \in [Event -> SUBSET Bit]
  /\ reading \in [Task -> Event \cup {NoEvent}]
  /\ request \in [Task -> Requests \cup {NoRequest}]
  /\ \A t \in Task : \A o \in WaitObj : In(t, kern.wait[o]) =>
       o \in Event /\ eventInit[o] /\ reading[t] = o /\ Polled(eventID[o], request[t]) = {}
  /\ \A t \in Task : reading[t] # NoEvent => pc[t] \in {"block", "wait"} /\ request[t] \in Requests

\* What LOS_EventRead and LOS_EventWrite have found initialised stays so until
\* they have locked interrupts.
CheckedInv ==
  /\ checked \in [Task \cup {Handler} -> Event \cup {NoEvent}]
  /\ \A c \in Task \cup {Handler} : checked[c] # NoEvent => eventInit[checked[c]]

EventsImplemented == \A e \in Event : UNCHANGED Abstract(e)!vars \/ Abstract(e)!Next

\* What every step keeps and does.
EventStepOK ==
  TaskInv' /\ WaitInv' /\ EventInv' /\ (Preempts => Preempts') /\ EventsImplemented

-----------------------------------------------------------------------------
(* The walk over the readers.                                              *)

\* Numbers have a least one.
LEMMA LeastNumber ==
  ASSUME NEW B \in SUBSET Nat, B # {}
  PROVE  \E x \in B : \A y \in B : x <= y
<1>1. PICK x \in B : \A y \in B : ~(<<y, x>> \in OpToRel(<, Nat))
  BY NatLessThanWellFounded, WFMin
<1>2. \A y \in B : ~(y < x)
  BY <1>1 DEF OpToRel
<1> QED BY <1>2

\* One turn of the walk.
Turn(k, readers, W, i) ==
  IF readers[i] \in W THEN OsSchedTaskWake(k, readers[i]) ELSE k

\* f is the walk over the first n readers.
IsWalk(f, n, k, readers, W) ==
  f = [i \in 0..n |-> IF i = 0 THEN k ELSE Turn(f[i - 1], readers, W, i)]

\* There is one, over as many readers as there are.
LEMMA WalkExists ==
  ASSUME NEW k, NEW readers, NEW W, NEW n \in Nat
  PROVE  \E f : IsWalk(f, n, k, readers, W)
<1> DEFINE Bad == {m \in Nat : ~\E f : IsWalk(f, m, k, readers, W)}
<1>1. SUFFICES ASSUME Bad # {} PROVE FALSE
  BY DEF Bad
<1>2. PICK m \in Bad : \A y \in Bad : m <= y
  BY <1>1, LeastNumber
<1>3. m \in Nat /\ ~\E f : IsWalk(f, m, k, readers, W)
  BY <1>2
<1>4. CASE m = 0
  <2> DEFINE f == [i \in 0..0 |-> k]
  <2>1. f = [i \in 0..0 |-> IF i = 0 THEN k ELSE Turn(f[i - 1], readers, W, i)]
    OBVIOUS
  <2>2. IsWalk(f, 0, k, readers, W)
    BY <2>1 DEF IsWalk
  <2> QED BY <2>2, <1>3, <1>4
<1>5. CASE m # 0
  <2>1. m - 1 \in Nat /\ m - 1 \notin Bad
    BY <1>2, <1>3, <1>5
  <2>2. PICK f : IsWalk(f, m - 1, k, readers, W)
    BY <2>1
  <2> DEFINE g == [i \in 0..m |-> IF i = m THEN Turn(f[m - 1], readers, W, m) ELSE f[i]]
  <2>3. f = [i \in 0..(m - 1) |-> IF i = 0 THEN k ELSE Turn(f[i - 1], readers, W, i)]
    BY <2>2 DEF IsWalk
  <2>4. \A i \in 0..m : g[i] = IF i = 0 THEN k ELSE Turn(g[i - 1], readers, W, i)
    <3>1. ASSUME NEW i \in 0..m PROVE g[i] = IF i = 0 THEN k ELSE Turn(g[i - 1], readers, W, i)
      <4>1. CASE i = m
        <5>1. g[i] = Turn(f[m - 1], readers, W, m) /\ m - 1 \in 0..m /\ m - 1 # m
          BY <4>1, <1>3, <1>5
        <5>2. g[i - 1] = f[m - 1]
          BY <5>1, <4>1
        <5> QED BY <5>1, <5>2, <4>1, <1>5
      <4>2. CASE i # m
        <5>1. i \in 0..(m - 1) /\ g[i] = f[i]
          BY <4>2, <1>3
        <5>2. CASE i = 0
          BY <5>1, <5>2, <2>3
        <5>3. CASE i # 0
          <6>1. i - 1 \in 0..m /\ i - 1 # m
            BY <5>1, <5>3, <1>3
          <6>2. g[i - 1] = f[i - 1]
            BY <6>1
          <6> HIDE DEF g
          <6> QED BY <5>1, <5>3, <6>2, <2>3
        <5> QED BY <5>2, <5>3
      <4> QED BY <4>1, <4>2
    <3> QED BY <3>1
  <2>5. g = [i \in 0..m |-> g[i]]
    OBVIOUS
  <2> HIDE DEF g
  <2>6. g = [i \in 0..m |-> IF i = 0 THEN k ELSE Turn(g[i - 1], readers, W, i)]
    BY <2>4, <2>5
  <2>7. IsWalk(g, m, k, readers, W)
    BY <2>6 DEF IsWalk
  <2> QED BY <2>7, <1>3
<1> QED BY <1>4, <1>5

\* WakeEach is where that walk ends.
LEMMA WalkEnds ==
  ASSUME NEW k, NEW readers, NEW W, Len(readers) \in Nat
  PROVE  \E f : /\ IsWalk(f, Len(readers), k, readers, W)
                /\ WakeEach(k, readers, W) = f[Len(readers)]
<1> DEFINE n == Len(readers)
           f == CHOOSE g : IsWalk(g, n, k, readers, W)
<1>1. IsWalk(f, n, k, readers, W)
  BY WalkExists
<1>2. WakeEach(k, readers, W) = f[n]
  BY DEF WakeEach, IsWalk, Turn
<1> QED BY <1>1, <1>2

\* What waking the tasks of W makes of kernel state k: they are off the wait
\* lists and wait no more, and nothing else has changed.
AllWoken(k, l, W) ==
  /\ KInv(l) /\ Keeps(k, l) /\ ListsOK(l) /\ l.priority = k.priority /\ l.halted = k.halted
  /\ \A o \in WaitObj : \A u : In(u, l.wait[o]) <=> In(u, k.wait[o]) /\ u \notin W
  /\ \A u \in TCB \ W : l.status[u] = k.status[u]
  /\ \A u \in W : ~Has(l, u, "PEND") /\ (Has(l, u, "TIMEOUT") <=> Has(k, u, "TIMEOUT"))

\* One task more is woken.
LEMMA OneMoreWoken ==
  ASSUME NEW k, NEW l, NEW W \in SUBSET Task, AllWoken(k, l, W),
         NEW t \in Task \ W, Has(k, t, "PEND")
  PROVE  AllWoken(k, OsSchedTaskWake(l, t), W \cup {t})
<1> DEFINE m == OsSchedTaskWake(l, t)
<1>1. /\ KInv(l) /\ ListsOK(l) /\ l.wait \in [WaitObj -> Seq(Task)] /\ Has(l, t, "PEND")
      /\ t \in TCB /\ Keeps(k, l)
  BY KernelFields, TCBs DEF AllWoken, KInv, Has
<1>2. Released(l, m, t, Unlink(l.wait, t), FALSE)
  BY <1>1, WakeEffect
<1>3. \A o \in WaitObj : \A u : In(u, Unlink(l.wait, t)[o]) <=> In(u, l.wait[o]) /\ u # t
  <2>1. ListsWithout(l.wait, t, Unlink(l.wait, t))
    BY <1>1, UnlinkProperties DEF ListsOK
  <2> QED BY <2>1 DEF ListsWithout, ListWithout
<1> HIDE DEF m
<1>4. /\ KInv(m) /\ ListsOK(m) /\ m.priority = k.priority /\ m.halted = k.halted
      /\ m.wait = Unlink(l.wait, t)
      /\ \A u \in TCB \ {t} : m.status[u] = l.status[u]
      /\ ~Has(m, t, "PEND") /\ (Has(m, t, "TIMEOUT") <=> Has(l, t, "TIMEOUT"))
  BY <1>2 DEF Released, AllWoken
<1>5. Keeps(k, m)
  BY <1>1, <1>2, KeepsTransitive DEF Released
<1>6. \A o \in WaitObj : \A u : In(u, m.wait[o]) <=> In(u, k.wait[o]) /\ u \notin W \cup {t}
  BY <1>3, <1>4 DEF AllWoken
<1>7. \A u \in TCB \ (W \cup {t}) : m.status[u] = k.status[u]
  BY <1>4 DEF AllWoken
<1>8. Has(l, t, "TIMEOUT") <=> Has(k, t, "TIMEOUT")
  BY <1>1 DEF AllWoken, Has
<1>9. \A u \in W \cup {t} : ~Has(m, u, "PEND") /\ (Has(m, u, "TIMEOUT") <=> Has(k, u, "TIMEOUT"))
  <2>1. \A u \in W : m.status[u] = l.status[u]
    BY <1>4, TCBs
  <2> QED BY <2>1, <1>4, <1>8 DEF AllWoken, Has
<1> QED BY <1>4, <1>5, <1>6, <1>7, <1>9 DEF AllWoken, m

\* The walk over a list of tasks that wait wakes those of W and no others.
LEMMA WakeEachEffect ==
  ASSUME NEW k, KInv(k), ListsOK(k), NEW readers \in Seq(Task), Distinct(readers),
         NEW W \in SUBSET Task,
         \A t \in W : In(t, readers) /\ Has(k, t, "PEND")
  PROVE  AllWoken(k, WakeEach(k, readers, W), W)
<1> DEFINE n == Len(readers)
           Upto(i) == {t \in W : \E j \in 1..i : readers[j] = t}
<1>1. n \in Nat /\ DOMAIN readers = 1..n /\ \A i \in 1..n : readers[i] \in Task
  OBVIOUS
<1>2. PICK f : IsWalk(f, n, k, readers, W) /\ WakeEach(k, readers, W) = f[n]
  BY <1>1, WalkEnds
<1>3. f[0] = k /\ \A i \in 1..n : f[i] = Turn(f[i - 1], readers, W, i)
  BY <1>1, <1>2 DEF IsWalk
<1> DEFINE Bad == {i \in Nat : i <= n /\ ~AllWoken(k, f[i], Upto(i))}
<1>4. ASSUME Bad # {} PROVE FALSE
  <2>1. Bad \in SUBSET Nat /\ Bad # {}
    BY <1>4
  <2>2. PICK i \in Bad : \A y \in Bad : i <= y
    BY <2>1, LeastNumber
  <2>3. i \in Nat /\ i <= n /\ ~AllWoken(k, f[i], Upto(i))
    BY <2>2
  <2>4. CASE i = 0
    <3>1. Upto(0) = {}
      OBVIOUS
    <3>2. AllWoken(k, k, {})
      BY TCBs DEF AllWoken, Keeps
    <3> QED BY <3>1, <3>2, <1>3, <2>3, <2>4
  <2>5. CASE i # 0
    <3>1. i - 1 \in Nat /\ i - 1 <= n /\ i - 1 < i /\ i \in 1..n
      BY <1>1, <2>3, <2>5
    <3>2. AllWoken(k, f[i - 1], Upto(i - 1))
      <4>1. i - 1 \notin Bad
        <5> HIDE DEF Bad
        <5> QED BY <3>1, <2>2, <2>3
      <4> HIDE DEF Upto
      <4> QED BY <4>1, <3>1
    <3>3. \A j \in 1..i : j = i \/ j \in 1..(i - 1)
      BY <3>1
    <3>4. \A j \in 1..(i - 1) : j \in 1..i
      BY <3>1
    <3>5. Upto(i - 1) \in SUBSET Task
      OBVIOUS
    <3>6. CASE readers[i] \in W
      <4>1. Upto(i) = Upto(i - 1) \cup {readers[i]}
        BY <3>1, <3>3, <3>4, <3>6
      <4>2. readers[i] \notin Upto(i - 1)
        <5>1. ASSUME NEW j \in 1..(i - 1), readers[j] = readers[i] PROVE FALSE
          <6>1. j \in 1..n /\ j # i
            BY <3>1, <5>1
          <6> QED BY <6>1, <5>1, <3>1, <1>1 DEF Distinct
        <5> QED BY <5>1
      <4>3. f[i] = OsSchedTaskWake(f[i - 1], readers[i])
        BY <3>1, <3>6, <1>3 DEF Turn
      <4>4. Has(k, readers[i], "PEND") /\ readers[i] \in Task \ Upto(i - 1)
        BY <3>6, <4>2
      <4> HIDE DEF Upto
      <4> QED BY <4>1, <4>3, <4>4, <3>2, <3>5, <2>3, OneMoreWoken
    <3>7. CASE readers[i] \notin W
      <4>1. Upto(i) = Upto(i - 1)
        BY <3>1, <3>3, <3>4, <3>7
      <4>2. f[i] = f[i - 1]
        BY <3>1, <3>7, <1>3 DEF Turn
      <4> HIDE DEF Upto
      <4> QED BY <4>1, <4>2, <3>2, <2>3
    <3> QED BY <3>6, <3>7
  <2> QED BY <2>4, <2>5
<1>5. AllWoken(k, f[n], Upto(n))
  <2> HIDE DEF Upto
  <2> QED BY <1>1, <1>4
<1>6. Upto(n) = W
  BY <1>1 DEF In
<1> HIDE DEF Upto
<1> QED BY <1>2, <1>5, <1>6

\* A service wakes the tasks of W and reschedules if there are any.
LEMMA WakeAllStep ==
  ASSUME TaskInv, WaitInv, NEW ctx \in Context, Caller(ctx), NEW W \in SUBSET Task, NEW l,
         AllWoken(kern, l, W), \A t \in W : Has(kern, t, "PEND"),
         Finish(ctx, l, W # {}), child' = child, tick' = tick
  PROVE  /\ TaskInv' /\ WaitInv' /\ (Preempts => Preempts') /\ kern' = l
         /\ \A u \in Task : pc'[u] \in {"block", "wait"} <=> pc[u] \in {"block", "wait"}
<1>1. /\ KInv(kern) /\ RunsOK(kern) /\ kern \in Kernel /\ kern.run \in TCB
      /\ ~kern.halted /\ tick = "out" /\ pc \in [TCB -> PC]
      /\ Life(kern, pc, child) /\ child \in [Task -> Task \cup {NoTask}]
      /\ ctx = "task" => kern.run \in Task /\ pc[kern.run] = "run" /\ pc[kern.run] \in Placid
      /\ pendSV \in BOOLEAN
  BY ServesFacts, CallerFacts DEF TaskInv, Inv, KInv, WaitInv, Serves
<1>2. /\ ListsOK(l) /\ l.halted = kern.halted /\ KInv(l) /\ Keeps(kern, l)
      /\ l.run = kern.run /\ l.lock = kern.lock /\ l.recycle = kern.recycle
      /\ l.priority = kern.priority
      /\ \A u \in TCB \ W : l.status[u] = kern.status[u]
      /\ \A u \in W : ~Has(l, u, "PEND") /\ (Has(l, u, "TIMEOUT") <=> Has(kern, u, "TIMEOUT"))
  BY DEF AllWoken, Keeps
<1>3. kern' = l
  BY <1>1, <1>2 DEF Finish, Committed
<1>4. TaskInv'
  <2>1. Frame(kern, l)
    BY <1>1, <1>2, KeepsFrame
  <2>2. (W # {}) \in BOOLEAN
    OBVIOUS
  <2> QED BY <1>1, <2>1, <2>2, FinishPreserves
<1>5. MovesOn(kern, l, pc, child)
  <2>1. ASSUME NEW u \in Task, pc[u] = "enq" PROVE l.status[child[u]] = {"SUSPEND"}
    <3>1. child[u] \in Task /\ kern.status[child[u]] = {"SUSPEND"}
      BY <1>1, <2>1 DEF Life, WaitInv, Places
    <3>2. child[u] \notin W
      BY <3>1 DEF Has
    <3> QED BY <1>2, <3>1, <3>2, TCBs
  <2>2. \A u \in Task : Has(l, u, "PEND") \/ Has(l, u, "TIMEOUT")
                          => Has(kern, u, "PEND") \/ Has(kern, u, "TIMEOUT")
    BY <1>2, TCBs DEF Has
  <2> QED BY <1>2, <2>1, <2>2 DEF MovesOn
<1>6. Yields(kern, l, W # {})
  <2>1. CASE ~Able(kern)
    BY <2>1, <1>1, <1>2, NotAble DEF Yields
  <2>2. CASE Able(kern)
    <3>1. kern.run \notin W
      BY <2>2 DEF Able, Has, Blocked
    <3>2. Able(l)
      BY <2>2, <3>1, <1>1, <1>2 DEF Able
    <3> QED BY <3>2 DEF Yields
  <2> QED BY <2>1, <2>2
<1>7. WaitInv'
  BY <1>2, <1>5, <1>6, FinishKeeps DEF Serves
<1>8. /\ ctx = "task" => /\ pc' = [pc EXCEPT ![kern.run] = IF W # {} THEN "sched" ELSE "run"]
                         /\ pendSV' = pendSV
      /\ ctx # "task" => pc' = pc /\ pendSV' = (pendSV \/ (W # {} /\ l.lock = 0))
  BY DEF Finish
<1>9. Preempts => Preempts'
  <2>1. CASE W = {}
    <3>1. \A u \in TCB : l.status[u] = kern.status[u]
      BY <1>2, <2>1
    <3>2. HighestReady(kern) => HighestReady(l)
      BY <3>1, <1>2, TCBs DEF HighestReady, Has
    <3>3. pc'[kern.run] = pc[kern.run] /\ pendSV' = pendSV
      BY <1>1, <1>8, <2>1
    <3> QED BY <3>2, <3>3, <1>2, <1>3 DEF Preempts
  <2>2. CASE W # {} /\ ctx = "task"
    <3>1. pc'[l.run] = "sched"
      BY <2>2, <1>1, <1>2, <1>8
    <3> QED BY <3>1, <1>3 DEF Preempts
  <2>3. CASE W # {} /\ ctx # "task"
    BY <2>3, <1>3, <1>8 DEF Preempts
  <2> QED BY <2>1, <2>2, <2>3
<1>10. \A u \in Task : pc'[u] \in {"block", "wait"} <=> pc[u] \in {"block", "wait"}
  BY <1>1, <1>8, TCBs
<1> QED BY <1>3, <1>4, <1>7, <1>9, <1>10

-----------------------------------------------------------------------------
(* The steps of the abstract flags.                                        *)

\* Who waits for e and who was released is the same, with the same requests.
SameReaders(e) ==
  /\ Waiting(e)' = Waiting(e) /\ Served(e)' = Served(e)
  /\ \A t \in Waiting(e) \cup Served(e) : request'[t] = request[t]

\* A step that stutters for e.
LEMMA NothingHappens ==
  ASSUME NEW e \in Event, eventID'[e] = eventID[e], SameReaders(e)
  PROVE  UNCHANGED Abstract(e)!vars
<1>1. [t \in Waiting(e)' |-> request'[t]] = [t \in Waiting(e) |-> request[t]]
  BY DEF SameReaders
<1>2. [t \in Served(e)' |-> request'[t]] = [t \in Served(e) |-> request[t]]
  BY DEF SameReaders
<1> QED BY <1>1, <1>2 DEF Abstract!vars

\* Flags are cleared, or events read by a call that does not wait.
LEMMA FlagsCleared ==
  ASSUME NEW e \in Event, eventID'[e] \subseteq eventID[e], SameReaders(e)
  PROVE  Abstract(e)!Next
<1>1. [t \in Waiting(e)' |-> request'[t]] = [t \in Waiting(e) |-> request[t]]
  BY DEF SameReaders
<1>2. [t \in Served(e)' |-> request'[t]] = [t \in Served(e) |-> request[t]]
  BY DEF SameReaders
<1>3. Abstract(e)!Clear
  BY <1>1, <1>2 DEF Abstract!Clear
<1> QED BY <1>3 DEF Abstract!Next

\* What a poll finds is what EventFlags calls satisfied, and what it takes is
\* what is taken there.
LEMMA PolledSatisfies ==
  ASSUME NEW bits, NEW r \in Requests
  PROVE  \A e \in Event : /\ Polled(bits, r) = {} <=> ~Abstract(e)!Satisfies(bits, r)
                          /\ Abstract(e)!Satisfies(bits, r) => LeftByPoll(bits, r) = IF r.clear THEN bits \ r.mask ELSE bits
                          /\ ~Abstract(e)!Satisfies(bits, r) => LeftByPoll(bits, r) = bits
<1>1. r.mask # {} /\ r.all \in BOOLEAN /\ r.clear \in BOOLEAN
  BY RequestAssumption
<1>2. \A e \in Event : Abstract(e)!Satisfies(bits, r) <=>
        IF r.all THEN r.mask \subseteq bits ELSE r.mask \cap bits # {}
  BY DEF Abstract!Satisfies
<1>3. Polled(bits, r) = {} <=> ~(IF r.all THEN r.mask \subseteq bits ELSE r.mask \cap bits # {})
  BY <1>1 DEF Polled
<1>4. (IF r.all THEN r.mask \subseteq bits ELSE r.mask \cap bits # {}) =>
        LeftByPoll(bits, r) = IF r.clear THEN bits \ r.mask ELSE bits
  BY <1>1 DEF Polled, LeftByPoll
<1>5. ~(IF r.all THEN r.mask \subseteq bits ELSE r.mask \cap bits # {}) =>
        LeftByPoll(bits, r) = bits
  BY <1>1, <1>3 DEF LeftByPoll
<1> QED BY <1>2, <1>3, <1>4, <1>5

\* A call reads its events without waiting.
LEMMA EventsRead ==
  ASSUME NEW e \in Event, NEW r \in Requests, eventID'[e] = LeftByPoll(eventID[e], r), SameReaders(e)
  PROVE  Abstract(e)!Next
<1>1. [t \in Waiting(e)' |-> request'[t]] = [t \in Waiting(e) |-> request[t]]
  BY DEF SameReaders
<1>2. [t \in Served(e)' |-> request'[t]] = [t \in Served(e) |-> request[t]]
  BY DEF SameReaders
<1>3. eventID'[e] = Abstract(e)!Taken(r)
  BY PolledSatisfies DEF Abstract!Taken
<1>4. r \in Abstract(e)!Request
  BY RequestAssumption DEF Abstract!Request
<1>5. Abstract(e)!Read(r)
  BY <1>1, <1>2, <1>3 DEF Abstract!Read
<1> QED BY <1>4, <1>5 DEF Abstract!Next

\* A reader comes to wait for events that are not set.
LEMMA ReaderCame ==
  ASSUME NEW e \in Event, eventID'[e] = eventID[e], NEW p \in Task, NEW r \in Requests,
         Polled(eventID[e], r) = {}, p \notin Waiting(e), p \notin Served(e),
         Waiting(e)' = Waiting(e) \cup {p}, Served(e)' = Served(e), request'[p] = r,
         \A t \in Task \ {p} : request'[t] = request[t]
  PROVE  Abstract(e)!Next
<1> DEFINE old == [t \in Waiting(e) |-> request[t]]
<1>1. [t \in Waiting(e)' |-> request'[t]]
        = [q \in DOMAIN old \cup {p} |-> IF q = p THEN r ELSE old[q]]
  <2>1. \A q \in Waiting(e) : q # p /\ request'[q] = request[q]
    BY DEF Waiting
  <2> QED BY <2>1
<1>2. [t \in Served(e)' |-> request'[t]] = [t \in Served(e) |-> request[t]]
  BY DEF Served
<1>3. ~Abstract(e)!Satisfies(eventID[e], r)
  BY PolledSatisfies
<1>4. r \in Abstract(e)!Request
  BY RequestAssumption DEF Abstract!Request
<1>5. Abstract(e)!Wait(p, r)
  BY <1>1, <1>2, <1>3 DEF Abstract!Wait
<1> QED BY <1>4, <1>5 DEF Abstract!Next

\* A released reader reads what is left of its events.
LEMMA ReaderReturned ==
  ASSUME NEW e \in Event, NEW p \in Task, p \in Served(e), request[p] \in Requests,
         eventID'[e] = LeftByPoll(eventID[e], request[p]),
         Waiting(e)' = Waiting(e), Served(e)' = Served(e) \ {p}, p \notin Waiting(e),
         \A t \in Task \ {p} : request'[t] = request[t]
  PROVE  Abstract(e)!Next
<1> DEFINE old == [t \in Served(e) |-> request[t]]
<1>1. [t \in Waiting(e)' |-> request'[t]] = [t \in Waiting(e) |-> request[t]]
  BY DEF Waiting
<1>2. [t \in Served(e)' |-> request'[t]] = [q \in (DOMAIN old) \ {p} |-> old[q]]
  BY DEF Served
<1>3. eventID'[e] = Abstract(e)!Taken(request[p])
  BY PolledSatisfies DEF Abstract!Taken
<1>4. Abstract(e)!Return(p)
  BY <1>1, <1>2, <1>3 DEF Abstract!Return, Abstract!Without, Abstract!Only
<1> QED BY <1>4 DEF Abstract!Next

\* A reader leaves, released or not.
LEMMA ReaderLeft ==
  ASSUME NEW e \in Event, NEW p \in Task, eventID'[e] = eventID[e],
         \/ p \in Waiting(e) /\ Waiting(e)' = Waiting(e) \ {p} /\ Served(e)' = Served(e) /\ p \notin Served(e)
         \/ p \in Served(e) /\ Served(e)' = Served(e) \ {p} /\ Waiting(e)' = Waiting(e) /\ p \notin Waiting(e),
         \A t \in (Waiting(e) \cup Served(e)) \ {p} : request'[t] = request[t]
  PROVE  Abstract(e)!Next
<1> DEFINE wait == [t \in Waiting(e) |-> request[t]]
           served == [t \in Served(e) |-> request[t]]
<1>1. Waiting(e) \subseteq Task /\ Served(e) \subseteq Task
  BY DEF Waiting, Served
<1>2. CASE p \in Waiting(e) /\ Waiting(e)' = Waiting(e) \ {p} /\ Served(e)' = Served(e) /\ p \notin Served(e)
  <2>1. [t \in Waiting(e)' |-> request'[t]] = [q \in (DOMAIN wait) \ {p} |-> wait[q]]
    BY <1>1, <1>2
  <2>2. [t \in Served(e)' |-> request'[t]] = served
    BY <1>1, <1>2
  <2>3. Abstract(e)!Leave(p)
    BY <1>2, <2>1, <2>2 DEF Abstract!Leave, Abstract!Without, Abstract!Only
  <2> QED BY <2>3 DEF Abstract!Next
<1>3. CASE p \in Served(e) /\ Served(e)' = Served(e) \ {p} /\ Waiting(e)' = Waiting(e) /\ p \notin Waiting(e)
  <2>1. [t \in Served(e)' |-> request'[t]] = [q \in (DOMAIN served) \ {p} |-> served[q]]
    BY <1>1, <1>3
  <2>2. [t \in Waiting(e)' |-> request'[t]] = wait
    BY <1>1, <1>3
  <2>3. Abstract(e)!Leave(p)
    BY <1>3, <2>1, <2>2 DEF Abstract!Leave, Abstract!Without, Abstract!Only
  <2> QED BY <2>3 DEF Abstract!Next
<1> QED BY <1>2, <1>3

\* Events are written: the readers they satisfy are released.
LEMMA EventsWritten ==
  ASSUME NEW e \in Event, NEW new \in SUBSET Bit, eventID'[e] = eventID[e] \cup new, NEW W,
         W = {t \in Waiting(e) : Polled(eventID'[e], request[t]) # {}},
         \A t \in Waiting(e) : request[t] \in Requests,
         Waiting(e)' = Waiting(e) \ W, Served(e)' = Served(e) \cup W, request' = request,
         Waiting(e) \cap Served(e) = {}
  PROVE  Abstract(e)!Next
<1> DEFINE wait == [t \in Waiting(e) |-> request[t]]
           served == [t \in Served(e) |-> request[t]]
           released == {p \in DOMAIN wait : Abstract(e)!Satisfies(eventID'[e], wait[p])}
<1>1. released = W
  BY PolledSatisfies
<1> HIDE DEF released
<1>2. [t \in Waiting(e)' |-> request'[t]] = [q \in (DOMAIN wait) \ released |-> wait[q]]
  BY <1>1
<1>3. [t \in Served(e)' |-> request'[t]]
        = [p \in DOMAIN served \cup released |-> IF p \in released THEN wait[p] ELSE served[p]]
  <2>1. \A p \in Served(e) \cup W : request[p] = IF p \in released THEN wait[p] ELSE served[p]
    BY <1>1
  <2> QED BY <1>1, <2>1
<1>4. Abstract(e)!Write(new)
  BY <1>2, <1>3 DEF Abstract!Write, Abstract!Only, released
<1> QED BY <1>4 DEF Abstract!Next

-----------------------------------------------------------------------------
(* The initial states and the steps of task management.                    *)

\* Requests are requests, and what stands for none is not.
LEMMA RequestFacts == \A r \in Requests : r.mask # {} /\ r.clear \in BOOLEAN /\ r.all \in BOOLEAN
BY RequestAssumption

\* No request is satisfied when no event is set.
LEMMA NothingPolled ==
  ASSUME NEW r \in Requests
  PROVE  Polled({}, r) = {}
BY RequestFacts DEF Polled

\* Fewer events satisfy fewer requests.
LEMMA FewerPolled ==
  ASSUME NEW r \in Requests, NEW bits, NEW less \in SUBSET bits, Polled(bits, r) = {}
  PROVE  Polled(less, r) = {}
BY RequestFacts DEF Polled

\* At first no event is initialised and nobody waits.
LEMMA EventInitInv ==
  ASSUME TaskInit, EventsInit
  PROVE  EventInv /\ \A e \in Event : Abstract(e)!Init
<1>1. \A o \in WaitObj : kern.wait[o] = <<>>
  BY DEF TaskInit
<1>2. /\ eventInit = [e \in Event |-> FALSE] /\ eventID = [e \in Event |-> {}]
      /\ reading = [t \in Task |-> NoEvent] /\ request = [t \in Task |-> NoRequest]
  BY DEF EventsInit
<1>3. \A t : ~In(t, <<>>)
  BY DEF In
<1>4. EventInv
  BY <1>1, <1>2, <1>3 DEF EventInv
<1>5. ASSUME NEW e \in Event PROVE Abstract(e)!Init
  <2>1. Waiting(e) = {}
    BY <1>1, <1>3, EventAssumption DEF Waiting
  <2>2. Served(e) = {}
    BY <1>2, NoEventAssumption DEF Served
  <2>3. [t \in Waiting(e) |-> request[t]] = <<>> /\ [t \in Served(e) |-> request[t]] = <<>>
    BY <2>1, <2>2
  <2> QED BY <1>2, <2>3 DEF Abstract!Init
<1> QED BY <1>4, <1>5

\* Who waits for an event reads it, and is not served.
LEMMA WaitingFacts ==
  ASSUME TaskInv, WaitInv, EventInv
  PROVE  \A e \in Event : \A t \in Waiting(e) :
           /\ e \in WaitObj /\ t \in Task /\ In(t, kern.wait[e]) /\ Has(kern, t, "PEND")
           /\ ~Has(kern, t, "TIMEOUT") /\ t \notin Served(e) /\ reading[t] = e
           /\ request[t] \in Requests /\ Polled(eventID[e], request[t]) = {} /\ eventInit[e]
           /\ \A o \in WaitObj : In(t, kern.wait[o]) => o = e
<1> SUFFICES ASSUME NEW e \in Event, NEW t \in Waiting(e)
             PROVE  /\ e \in WaitObj /\ t \in Task /\ In(t, kern.wait[e]) /\ Has(kern, t, "PEND")
                    /\ ~Has(kern, t, "TIMEOUT") /\ t \notin Served(e) /\ reading[t] = e
                    /\ request[t] \in Requests /\ Polled(eventID[e], request[t]) = {} /\ eventInit[e]
                    /\ \A o \in WaitObj : In(t, kern.wait[o]) => o = e
  OBVIOUS
<1>1. e \in WaitObj /\ t \in Task /\ In(t, kern.wait[e])
  BY EventAssumption DEF Waiting
<1>2. TaskOK(kern, t)
  BY <1>1, TCBs DEF WaitInv, ListsOK
<1>3. Has(kern, t, "PEND") /\ ~Has(kern, t, "TIMEOUT")
  BY <1>1, <1>2 DEF TaskOK
<1>4. t \notin Served(e)
  BY <1>3 DEF Served, Has
<1>5. reading[t] = e /\ Polled(eventID[e], request[t]) = {} /\ eventInit[e]
  BY <1>1 DEF EventInv
<1>6. request[t] \in Requests
  BY <1>1, <1>5, NoEventAssumption DEF EventInv
<1>7. \A o \in WaitObj : In(t, kern.wait[o]) => o = e
  BY <1>1, <1>2 DEF TaskOK
<1> QED BY <1>1, <1>3, <1>4, <1>5, <1>6, <1>7

\* A step of task management.
LEMMA EventTaskStepOK ==
  ASSUME TaskInv, WaitInv, EventInv, EventTaskStep
  PROVE  EventStepOK
<1>1. /\ TaskNext /\ [TaskNext]_taskVars /\ eventInit' = eventInit /\ eventID' = eventID
      /\ reading' = [t \in Task |-> IF pc'[t] = "none" THEN NoEvent ELSE reading[t]]
      /\ request' = [t \in Task |-> IF pc'[t] = "none" THEN NoRequest ELSE request[t]]
  <2>1. (InterruptStep => TaskNext) /\ (HalPendSV => TaskNext)
    BY DEF InterruptStep, TaskNext, TaskService, TaskSystem, Context
  <2> QED BY <2>1 DEF EventTaskStep
<1>2. TaskInv' /\ WaitInv' /\ (Preempts => Preempts') /\ Waits(kern, pc, kern', pc')
  BY <1>1, NextInv, NextStep DEF TaskStepOK
<1>3. PICK t \in Task \cup {NoTask} :
        /\ \A u \in Task \ {t} : /\ Has(kern', u, "PEND") <=> Has(kern, u, "PEND")
                                 /\ Has(kern', u, "TIMEOUT") <=> Has(kern, u, "TIMEOUT")
                                 /\ pc'[u] = "none" => pc[u] = "none"
        /\ t = NoTask => kern'.wait = kern.wait
        /\ t # NoTask => /\ kern'.wait = Unlink(kern.wait, t) /\ ~Has(kern', t, "PEND")
                         /\ pc'[t] = "none" \/ (Has(kern, t, "PEND") /\ Has(kern', t, "TIMEOUT"))
  BY <1>2 DEF Waits
<1>4. /\ kern.wait \in [WaitObj -> Seq(Task)] /\ ListsOK(kern) /\ NoTask \notin Task
      /\ pc \in [TCB -> PC]
  BY KernelFields DEF TaskInv, Inv, KInv, WaitInv, Task, NoTask
<1>5. \A o \in WaitObj : \A u \in Task : In(u, kern'.wait[o]) <=> In(u, kern.wait[o]) /\ u # t
  <2>1. CASE t = NoTask
    BY <1>3, <1>4, <2>1
  <2>2. CASE t # NoTask
    <3>1. ListsWithout(kern.wait, t, Unlink(kern.wait, t))
      BY <1>4, UnlinkProperties DEF ListsOK
    <3> QED BY <2>2, <3>1, <1>3 DEF ListsWithout, ListWithout
  <2> QED BY <2>1, <2>2
<1>6. \A u \in Task : reading[u] # NoEvent => pc[u] # "none"
  BY DEF EventInv
<1>7. \A u \in Task \ {t} : reading[u] # NoEvent => reading'[u] = reading[u] /\ request'[u] = request[u]
  BY <1>1, <1>3, <1>6
<1>8. \A u \in Task \ {t} : reading'[u] = reading[u]
  BY <1>1, <1>3 DEF EventInv
<1>9. EventInv'
  <2>1. reading' \in [Task -> Event \cup {NoEvent}] /\ request' \in [Task -> Requests \cup {NoRequest}]
    BY <1>1 DEF EventInv
  <2>2. ASSUME NEW u \in Task, NEW o \in WaitObj, In(u, kern'.wait[o])
        PROVE  o \in Event /\ eventInit'[o] /\ reading'[u] = o /\ Polled(eventID'[o], request'[u]) = {}
    <3>1. u # t /\ In(u, kern.wait[o])
      BY <2>2, <1>5
    <3>2. o \in Event /\ eventInit[o] /\ reading[u] = o /\ Polled(eventID[o], request[u]) = {}
      BY <3>1 DEF EventInv
    <3> QED BY <3>1, <3>2, <1>1, <1>7, NoEventAssumption
  <2>3. ASSUME NEW u \in Task, reading'[u] # NoEvent
        PROVE  pc'[u] \in {"block", "wait"} /\ request'[u] \in Requests
    <3>1. pc'[u] # "none" /\ reading[u] # NoEvent /\ request'[u] = request[u]
      BY <1>1, <2>3
    <3> QED BY <3>1, <1>2 DEF EventInv, Waits
  <2> QED BY <1>1, <2>1, <2>2, <2>3 DEF EventInv
<1>10. ASSUME NEW e \in Event PROVE Abstract(e)!Next \/ UNCHANGED Abstract(e)!vars
  <2>1. e \in WaitObj /\ e # NoEvent
    BY EventAssumption, NoEventAssumption
  <2>2. Waiting(e)' = Waiting(e) \ {t}
    BY <1>5, <2>1 DEF Waiting
  <2>3. Served(e)' = Served(e) \ {t}
    <3>1. \A u \in Task \ {t} : u \in Served(e)' <=> u \in Served(e)
      BY <1>3, <1>8 DEF Served, Has
    <3>2. t \notin Served(e)'
      <4>1. t \in Task => reading'[t] = NoEvent \/ Has(kern', t, "TIMEOUT")
        BY <1>1, <1>3, <1>4
      <4> QED BY <4>1, <2>1 DEF Served, Has
    <3> QED BY <3>1, <3>2 DEF Served
  <2>4. eventID'[e] = eventID[e]
    BY <1>1
  <2>5. \A u \in (Waiting(e) \cup Served(e)) \ {t} : request'[u] = request[u]
    BY <1>7, <2>1, WaitingFacts DEF Served
  <2>6. CASE t \in Waiting(e) \cup Served(e)
    <3>1. t \in Task /\ (t \in Waiting(e) <=> t \notin Served(e))
      BY <2>6, WaitingFacts DEF Served
    <3> QED BY <3>1, <2>2, <2>3, <2>4, <2>5, <2>6, ReaderLeft
  <2>7. CASE t \notin Waiting(e) \cup Served(e)
    <3>1. SameReaders(e)
      BY <2>2, <2>3, <2>5, <2>7 DEF SameReaders
    <3> QED BY <3>1, <2>4, NothingHappens
  <2> QED BY <2>6, <2>7
<1> QED BY <1>2, <1>9, <1>10 DEF EventStepOK, EventsImplemented

-----------------------------------------------------------------------------
(* The steps of the services.                                              *)

\* The readers of an event to which nothing happens are the same.
LEMMA OthersStand ==
  ASSUME TaskInv, WaitInv, EventInv, NEW e \in Event, eventID'[e] = eventID[e],
         \A u \in Task : In(u, kern'.wait[e]) <=> In(u, kern.wait[e]),
         NEW W, \A u \in Task \ W : /\ reading'[u] = reading[u] /\ request'[u] = request[u]
                                    /\ Has(kern', u, "PEND") <=> Has(kern, u, "PEND")
                                    /\ Has(kern', u, "TIMEOUT") <=> Has(kern, u, "TIMEOUT"),
         \A u \in W : reading[u] # e /\ reading'[u] # e
  PROVE  UNCHANGED Abstract(e)!vars
<1>1. Waiting(e)' = Waiting(e)
  BY DEF Waiting
<1>2. Served(e)' = Served(e)
  BY DEF Served, Has
<1>3. \A u \in Waiting(e) \cup Served(e) : u \in Task /\ u \notin W
  BY WaitingFacts DEF Served
<1>4. SameReaders(e)
  BY <1>1, <1>2, <1>3 DEF SameReaders
<1> QED BY <1>4, NothingHappens

\* A service that changes an event and no task.
LEMMA FlagsStep ==
  ASSUME TaskInv, WaitInv, EventInv, NEW e \in Event, NEW bits \in SUBSET eventID[e],
         NEW there \in BOOLEAN, there \/ ~eventInit[e] \/ kern.wait[e] = <<>>,
         eventInit' = [eventInit EXCEPT ![e] = there],
         eventID' = [eventID EXCEPT ![e] = bits],
         UNCHANGED <<reading, request, kern, pc, child, pendSV, tick>>,
         Abstract(e)!Next \/ UNCHANGED Abstract(e)!vars
  PROVE  EventStepOK
<1>1. TaskInv' /\ WaitInv' /\ (Preempts => Preempts')
  BY TasksStand
<1>2. /\ eventID'[e] = bits /\ \A z \in Event \ {e} : eventID'[z] = eventID[z] /\ eventInit'[z] = eventInit[z]
      /\ eventInit' \in [Event -> BOOLEAN] /\ eventID' \in [Event -> SUBSET Bit]
      /\ eventInit'[e] = there
  BY DEF EventInv
<1>3. ASSUME NEW t \in Task, NEW o \in WaitObj, In(t, kern.wait[o])
      PROVE  o \in Event /\ eventInit'[o] /\ reading[t] = o /\ Polled(eventID'[o], request[t]) = {}
  <2>1. o \in Event /\ eventInit[o] /\ reading[t] = o /\ Polled(eventID[o], request[t]) = {}
    BY <1>3 DEF EventInv
  <2>2. CASE o = e
    <3>1. request[t] \in Requests
      BY <2>1, NoEventAssumption DEF EventInv
    <3>2. Polled(bits, request[t]) = {}
      BY <2>1, <2>2, <3>1, FewerPolled
    <3>3. eventInit'[e]
      <4>1. kern.wait[e] # <<>>
        BY <1>3, <2>2 DEF In
      <4> QED BY <4>1, <1>2, <2>1, <2>2
    <3> QED BY <2>1, <2>2, <3>2, <3>3, <1>2
  <2>3. CASE o # e
    BY <2>1, <2>3, <1>2
  <2> QED BY <2>2, <2>3
<1>4. EventInv'
  <2>1. /\ reading' \in [Task -> Event \cup {NoEvent}] /\ request' \in [Task -> Requests \cup {NoRequest}]
        /\ \A t \in Task : reading'[t] # NoEvent => pc'[t] \in {"block", "wait"} /\ request'[t] \in Requests
    BY DEF EventInv
  <2>2. \A t \in Task : \A o \in WaitObj : In(t, kern'.wait[o]) =>
          o \in Event /\ eventInit'[o] /\ reading'[t] = o /\ Polled(eventID'[o], request'[t]) = {}
    BY <1>3
  <2>3. eventInit' \in [Event -> BOOLEAN] /\ eventID' \in [Event -> SUBSET Bit]
    BY <1>2
  <2> QED BY <2>1, <2>2, <2>3 DEF EventInv
<1>5. ASSUME NEW z \in Event, z # e PROVE UNCHANGED Abstract(z)!vars
  <2>1. SameReaders(z)
    BY DEF SameReaders, Waiting, Served
  <2> QED BY <2>1, <1>2, <1>5, NothingHappens
<1> QED BY <1>1, <1>4, <1>5 DEF EventStepOK, EventsImplemented

\* Where no task changes, the readers are the same.
LEMMA ReadersStand ==
  ASSUME NEW e \in Event, UNCHANGED <<reading, request, kern>>
  PROVE  SameReaders(e)
BY DEF SameReaders, Waiting, Served

\* LOS_EventInit, LOS_EventDestroy, LOS_EventClear and LOS_EventPoll, the test
\* of a call, and a LOS_EventRead that does not wait.
LEMMA FlagsOnlyStep ==
  ASSUME TaskInv, WaitInv, EventInv, NEW ctx \in Context, NEW e \in Event,
         \/ LOS_EventInit(ctx, e) \/ LOS_EventDestroy(ctx, e)
         \/ \E events \in SUBSET Bit : LOS_EventClear(ctx, e, events)
         \/ EventCheck(ctx, e)
         \/ \E r \in Requests : LOS_EventPoll(ctx, e, r) \/ EventReadAtOnce(e, r)
  PROVE  EventStepOK
<1>0. eventID \in [Event -> SUBSET Bit] /\ eventInit \in [Event -> BOOLEAN]
  BY DEF EventInv
<1>1. CASE LOS_EventInit(ctx, e)
  <2>1. /\ kern.wait[e] = <<>> /\ eventInit' = [eventInit EXCEPT ![e] = TRUE]
        /\ eventID' = [eventID EXCEPT ![e] = {}]
        /\ UNCHANGED <<reading, request, kern, pc, child, pendSV, tick>>
    BY <1>1 DEF LOS_EventInit
  <2>2. Abstract(e)!Next
    BY <2>1, <1>0, ReadersStand, FlagsCleared
  <2> QED BY <2>1, <2>2, FlagsStep
<1>2. CASE LOS_EventDestroy(ctx, e)
  <2>1. /\ kern.wait[e] = <<>> /\ eventInit' = [eventInit EXCEPT ![e] = FALSE]
        /\ eventID' = [eventID EXCEPT ![e] = eventID[e]]
        /\ UNCHANGED <<reading, request, kern, pc, child, pendSV, tick>>
    BY <1>2, <1>0 DEF LOS_EventDestroy
  <2>2. Abstract(e)!Next
    BY <2>1, <1>0, ReadersStand, FlagsCleared
  <2> QED BY <2>1, <2>2, FlagsStep
<1>3. ASSUME NEW events \in SUBSET Bit, LOS_EventClear(ctx, e, events) PROVE EventStepOK
  <2>1. /\ eventInit' = [eventInit EXCEPT ![e] = eventInit[e]]
        /\ eventID' = [eventID EXCEPT ![e] = eventID[e] \cap events]
        /\ UNCHANGED <<reading, request, kern, pc, child, pendSV, tick>>
    BY <1>0, <1>3 DEF LOS_EventClear
  <2>2. Abstract(e)!Next
    BY <2>1, <1>0, ReadersStand, FlagsCleared
  <2>3. eventID[e] \cap events \in SUBSET eventID[e] /\ eventInit[e] \in BOOLEAN
    BY <1>0
  <2> QED BY <2>1, <2>2, <2>3, FlagsStep
<1>4. ASSUME NEW r \in Requests, LOS_EventPoll(ctx, e, r) \/ EventReadAtOnce(e, r) PROVE EventStepOK
  <2>1. /\ eventInit' = [eventInit EXCEPT ![e] = eventInit[e]]
        /\ eventID' = [eventID EXCEPT ![e] = LeftByPoll(eventID[e], r)]
        /\ UNCHANGED <<reading, request, kern, pc, child, pendSV, tick>>
    BY <1>0, <1>4 DEF LOS_EventPoll, EventReadAtOnce
  <2>2. Abstract(e)!Next
    BY <2>1, <1>0, ReadersStand, EventsRead
  <2>3. LeftByPoll(eventID[e], r) \in SUBSET eventID[e]
    BY DEF LeftByPoll
  <2>4. eventInit[e] \in BOOLEAN
    BY <1>0
  <2> QED BY <2>1, <2>2, <2>3, <2>4, FlagsStep
<1>5. CASE EventCheck(ctx, e)
  <2>1. /\ eventInit[e] /\ eventInit' = [eventInit EXCEPT ![e] = TRUE]
        /\ eventID' = [eventID EXCEPT ![e] = eventID[e]] /\ eventID' = eventID
        /\ UNCHANGED <<reading, request, kern, pc, child, pendSV, tick>>
    BY <1>0, <1>5 DEF EventCheck
  <2>2. UNCHANGED Abstract(e)!vars
    BY <2>1, ReadersStand, NothingHappens
  <2>3. eventID[e] \in SUBSET eventID[e]
    OBVIOUS
  <2> QED BY <2>1, <2>2, <2>3, FlagsStep
<1> QED BY <1>1, <1>2, <1>3, <1>4, <1>5

\* LOS_EventRead without its events.
LEMMA EventWaitStep ==
  ASSUME TaskInv, WaitInv, EventInv, NEW e \in Event, NEW r \in Requests, NEW timed \in BOOLEAN,
         EventReadWait(e, r, timed)
  PROVE  EventStepOK
<1>1. /\ Caller("task") /\ eventInit[e] /\ kern.lock = 0 /\ Polled(eventID[e], r) = {}
      /\ kern' = OsSchedTaskWait(kern, e, timed)
      /\ pc' = [pc EXCEPT ![kern.run] = "block"]
      /\ reading' = [reading EXCEPT ![kern.run] = e]
      /\ request' = [request EXCEPT ![kern.run] = r]
      /\ eventInit' = eventInit /\ eventID' = eventID
      /\ child' = child /\ pendSV' = pendSV /\ tick' = tick
  BY DEF EventReadWait, Inside, Reads
<1>2. e \in WaitObj /\ \A z \in Event : z # NoEvent
  BY EventAssumption, NoEventAssumption
<1>3. /\ TaskInv' /\ WaitInv' /\ Preempts'
      /\ kern'.wait = [kern.wait EXCEPT ![e] = Append(@, kern.run)]
      /\ Has(kern', kern.run, "PEND") /\ ~Has(kern, kern.run, "PEND")
      /\ \A u \in TCB \ {kern.run} : kern'.status[u] = kern.status[u]
  <2>1. PICK k : k = kern
    OBVIOUS
  <2>2. Repriced(kern, k)
    BY <2>1, RepricedBy DEF TaskInv, Inv, WaitInv
  <2>3. kern' = OsSchedTaskWait(k, e, timed)
    BY <1>1, <2>1
  <2> QED BY <1>1, <1>2, <2>2, <2>3, WaitStep, SMTT(30)
<1>4. PICK p \in Task : p = kern.run
  BY <1>1, CallerFacts DEF Context
<1>5. /\ pc \in [TCB -> PC] /\ pc[p] = "run" /\ p \in TCB
      /\ kern.wait \in [WaitObj -> Seq(Task)]
  BY <1>1, <1>4, TCBs, KernelFields DEF TaskInv, Inv, KInv, Caller, Running
<1>6. reading[p] = NoEvent
  BY <1>5 DEF EventInv
<1>7. /\ reading'[p] = e /\ request'[p] = r
      /\ reading' \in [Task -> Event \cup {NoEvent}] /\ request' \in [Task -> Requests \cup {NoRequest}]
      /\ \A u \in Task \ {p} : reading'[u] = reading[u] /\ request'[u] = request[u]
  BY <1>1, <1>4 DEF EventInv
<1>8. /\ \A u : In(u, kern'.wait[e]) <=> In(u, kern.wait[e]) \/ u = p
      /\ \A o \in WaitObj \ {e} : kern'.wait[o] = kern.wait[o]
  <2> DEFINE q == kern.wait[e]
  <2>1. q \in Seq(Task) /\ kern'.wait[e] = Append(q, p)
    BY <1>2, <1>3, <1>4, <1>5
  <2>2. \A o \in WaitObj \ {e} : kern'.wait[o] = kern.wait[o]
    BY <1>3, <1>5
  <2> HIDE DEF q
  <2>3. \A u : In(u, Append(q, p)) <=> In(u, q) \/ u = p
    BY <2>1, EndsProperties
  <2> QED BY <2>1, <2>2, <2>3 DEF q
<1>9. \A o \in WaitObj : ~In(p, kern.wait[o])
  BY <1>2, <1>6 DEF EventInv
<1>10. EventInv'
  <2>1. ASSUME NEW u \in Task, NEW o \in WaitObj, In(u, kern'.wait[o])
        PROVE  o \in Event /\ eventInit'[o] /\ reading'[u] = o /\ Polled(eventID'[o], request'[u]) = {}
    <3>1. CASE u = p
      <4>1. o = e
        BY <2>1, <3>1, <1>8, <1>9
      <4> QED BY <3>1, <4>1, <1>1, <1>7
    <3>2. CASE u # p
      <4>1. In(u, kern.wait[o])
        BY <2>1, <3>2, <1>8
      <4> QED BY <3>2, <4>1, <1>1, <1>7 DEF EventInv
    <3> QED BY <3>1, <3>2
  <2>2. ASSUME NEW u \in Task, reading'[u] # NoEvent
        PROVE  pc'[u] \in {"block", "wait"} /\ request'[u] \in Requests
    <3>1. CASE u = p
      BY <3>1, <1>1, <1>4, <1>5, <1>7
    <3>2. CASE u # p
      <4>1. pc'[u] = pc[u]
        BY <3>2, <1>1, <1>4, <1>5, TCBs
      <4> QED BY <2>2, <3>2, <4>1, <1>7 DEF EventInv
    <3> QED BY <3>1, <3>2
  <2> QED BY <1>1, <1>7, <2>1, <2>2 DEF EventInv
<1>11. Abstract(e)!Next
  <2>1. Waiting(e)' = Waiting(e) \cup {p}
    BY <1>8 DEF Waiting
  <2>2. Served(e)' = Served(e) /\ p \notin Served(e)
    <3>1. \A u \in Task \ {p} : u \in Served(e)' <=> u \in Served(e)
      BY <1>3, <1>4, <1>7, TCBs DEF Served
    <3>2. p \notin Served(e) /\ p \notin Served(e)'
      BY <1>2, <1>3, <1>4, <1>6 DEF Served, Has
    <3> QED BY <3>1, <3>2 DEF Served
  <2>3. p \notin Waiting(e)
    BY <1>2, <1>9 DEF Waiting
  <2>4. eventID'[e] = eventID[e]
    BY <1>1
  <2> QED BY <1>1, <1>7, <2>1, <2>2, <2>3, <2>4, ReaderCame
<1>12. ASSUME NEW z \in Event, z # e PROVE UNCHANGED Abstract(z)!vars
  <2>1. /\ eventID'[z] = eventID[z] /\ reading[p] # z /\ reading'[p] # z
        /\ kern'.wait[z] = kern.wait[z]
    BY <1>1, <1>2, <1>6, <1>7, <1>8, <1>12, EventAssumption
  <2>2. \A u \in Task \ {p} : /\ reading'[u] = reading[u] /\ request'[u] = request[u]
                              /\ Has(kern', u, "PEND") <=> Has(kern, u, "PEND")
                              /\ Has(kern', u, "TIMEOUT") <=> Has(kern, u, "TIMEOUT")
    BY <1>3, <1>4, <1>7, TCBs DEF Has
  <2>3. PICK W : W = {p}
    OBVIOUS
  <2>4. \A u \in W : reading[u] # z /\ reading'[u] # z
    BY <2>1, <2>3
  <2>5. \A u \in Task \ W : /\ reading'[u] = reading[u] /\ request'[u] = request[u]
                            /\ Has(kern', u, "PEND") <=> Has(kern, u, "PEND")
                            /\ Has(kern', u, "TIMEOUT") <=> Has(kern, u, "TIMEOUT")
    BY <2>2, <2>3
  <2>6. \A u \in Task : In(u, kern'.wait[z]) <=> In(u, kern.wait[z])
    BY <2>1
  <2> QED BY <2>1, <2>4, <2>5, <2>6, OthersStand
<1> QED BY <1>3, <1>10, <1>11, <1>12 DEF EventStepOK, EventsImplemented

\* The end of that LOS_EventRead.
LEMMA EventReturnStep ==
  ASSUME TaskInv, WaitInv, EventInv, EventReadReturn
  PROVE  EventStepOK
<1>1. /\ kern.run \in Task /\ Running("wait") /\ reading[kern.run] # NoEvent
      /\ kern' = ClearFlag(kern, kern.run, {"TIMEOUT"}) /\ pc' = [pc EXCEPT ![kern.run] = "run"]
      /\ eventID' = IF Has(kern, kern.run, "TIMEOUT") THEN eventID
                    ELSE [eventID EXCEPT ![reading[kern.run]] = LeftByPoll(@, request[kern.run])]
      /\ reading' = [reading EXCEPT ![kern.run] = NoEvent]
      /\ request' = [request EXCEPT ![kern.run] = NoRequest]
      /\ eventInit' = eventInit /\ child' = child /\ pendSV' = pendSV /\ tick' = tick
  BY DEF EventReadReturn
<1>2. /\ TaskInv' /\ WaitInv' /\ (Preempts => Preempts')
      /\ kern'.wait = kern.wait /\ ~Has(kern, kern.run, "PEND")
      /\ kern'.status[kern.run] = kern.status[kern.run] \ {"TIMEOUT"}
      /\ \A u \in TCB \ {kern.run} : kern'.status[u] = kern.status[u]
  BY <1>1, ReturnStep
<1>3. PICK p \in Task : p = kern.run
  BY <1>1
<1>4. PICK e \in Event : e = reading[p]
  BY <1>1, <1>3 DEF EventInv
<1>5. PICK bits : bits = IF Has(kern, p, "TIMEOUT") THEN eventID[e] ELSE LeftByPoll(eventID[e], request[p])
  OBVIOUS
<1>6. /\ request[p] \in Requests /\ eventID \in [Event -> SUBSET Bit] /\ p \in TCB
      /\ pc \in [TCB -> PC] /\ \A z \in Event : z # NoEvent /\ z \in WaitObj
  BY <1>1, <1>3, TCBs, EventAssumption, NoEventAssumption DEF EventInv, TaskInv, Inv
<1>7. /\ eventID' = [eventID EXCEPT ![e] = bits] /\ eventID'[e] = bits /\ bits \subseteq eventID[e]
      /\ eventID' \in [Event -> SUBSET Bit]
      /\ \A z \in Event \ {e} : eventID'[z] = eventID[z]
  <2>1. bits \subseteq eventID[e]
    BY <1>5 DEF LeftByPoll
  <2>2. eventID' = [eventID EXCEPT ![e] = bits]
    BY <1>1, <1>3, <1>4, <1>5, <1>6
  <2> QED BY <2>1, <2>2, <1>6
<1>8. /\ reading'[p] = NoEvent
      /\ reading' \in [Task -> Event \cup {NoEvent}] /\ request' \in [Task -> Requests \cup {NoRequest}]
      /\ \A u \in Task \ {p} : reading'[u] = reading[u] /\ request'[u] = request[u]
  BY <1>1, <1>3 DEF EventInv
<1>9. p \notin Waiting(e) /\ \A o \in WaitObj : ~In(p, kern.wait[o])
  <2>1. TaskOK(kern, p)
    BY <1>6 DEF WaitInv, ListsOK
  <2> QED BY <2>1, <1>2, <1>3, <1>6 DEF TaskOK, Waiting
<1>10. EventInv'
  <2>1. ASSUME NEW u \in Task, NEW o \in WaitObj, In(u, kern'.wait[o])
        PROVE  o \in Event /\ eventInit'[o] /\ reading'[u] = o /\ Polled(eventID'[o], request'[u]) = {}
    <3>1. u # p /\ In(u, kern.wait[o])
      BY <2>1, <1>2, <1>9
    <3>2. o \in Event /\ eventInit[o] /\ reading[u] = o /\ Polled(eventID[o], request[u]) = {}
      BY <3>1 DEF EventInv
    <3>3. request[u] \in Requests /\ eventID'[o] \subseteq eventID[o]
      BY <3>2, <1>6, <1>7 DEF EventInv
    <3>4. Polled(eventID'[o], request[u]) = {}
      BY <3>2, <3>3, FewerPolled
    <3> QED BY <3>1, <3>2, <3>4, <1>1, <1>8
  <2>2. ASSUME NEW u \in Task, reading'[u] # NoEvent
        PROVE  pc'[u] \in {"block", "wait"} /\ request'[u] \in Requests
    <3>1. u # p
      BY <2>2, <1>8
    <3>2. pc'[u] = pc[u]
      BY <3>1, <1>1, <1>3, <1>6, TCBs
    <3> QED BY <2>2, <3>1, <3>2, <1>8 DEF EventInv
  <2> QED BY <1>1, <1>7, <1>8, <2>1, <2>2 DEF EventInv
<1>11. \A z \in Event : Waiting(z)' = Waiting(z)
  BY <1>2 DEF Waiting
<1>12. Abstract(e)!Next \/ UNCHANGED Abstract(e)!vars
  <2>1. Served(e)' = Served(e) \ {p}
    <3>1. \A u \in Task \ {p} : u \in Served(e)' <=> u \in Served(e)
      BY <1>2, <1>3, <1>8, TCBs DEF Served
    <3>2. p \notin Served(e)'
      BY <1>6, <1>8 DEF Served
    <3> QED BY <3>1, <3>2 DEF Served
  <2>2. CASE Has(kern, p, "TIMEOUT")
    <3>1. p \notin Served(e)
      BY <2>2 DEF Served, Has
    <3>2. \A u \in Waiting(e) \cup Served(e) : u \in Task \ {p}
      BY <3>1, <1>9 DEF Waiting, Served
    <3>3. SameReaders(e)
      BY <2>1, <3>1, <3>2, <1>8, <1>11 DEF SameReaders
    <3>4. eventID'[e] = eventID[e]
      BY <2>2, <1>5, <1>7
    <3> QED BY <3>3, <3>4, NothingHappens
  <2>3. CASE ~Has(kern, p, "TIMEOUT")
    <3>1. p \in Served(e)
      BY <2>3, <1>2, <1>3, <1>4 DEF Served, Has
    <3>2. eventID'[e] = LeftByPoll(eventID[e], request[p])
      BY <2>3, <1>5, <1>7
    <3> QED BY <3>1, <3>2, <2>1, <1>6, <1>8, <1>9, <1>11, ReaderReturned
  <2> QED BY <2>2, <2>3
<1>13. ASSUME NEW z \in Event, z # e PROVE UNCHANGED Abstract(z)!vars
  <2>1. eventID'[z] = eventID[z] /\ \A u \in Task : In(u, kern'.wait[z]) <=> In(u, kern.wait[z])
    BY <1>2, <1>7, <1>13
  <2>2. \A u \in Task \ {p} : /\ reading'[u] = reading[u] /\ request'[u] = request[u]
                              /\ Has(kern', u, "PEND") <=> Has(kern, u, "PEND")
                              /\ Has(kern', u, "TIMEOUT") <=> Has(kern, u, "TIMEOUT")
    BY <1>2, <1>3, <1>8, TCBs DEF Has
  <2>3. PICK W : W = {p}
    OBVIOUS
  <2>4. \A u \in W : reading[u] # z /\ reading'[u] # z
    BY <2>3, <1>4, <1>6, <1>8, <1>13
  <2>5. \A u \in Task \ W : /\ reading'[u] = reading[u] /\ request'[u] = request[u]
                            /\ Has(kern', u, "PEND") <=> Has(kern, u, "PEND")
                            /\ Has(kern', u, "TIMEOUT") <=> Has(kern, u, "TIMEOUT")
    BY <2>2, <2>3
  <2>6. \A u \in Task : In(u, kern'.wait[z]) <=> In(u, kern.wait[z])
    BY <2>1
  <2> QED BY <2>1, <2>4, <2>5, <2>6, OthersStand
<1> QED BY <1>2, <1>10, <1>12, <1>13 DEF EventStepOK, EventsImplemented

\* What a write finds: a reader that waits is satisfied by the bits there are
\* now exactly if the write tests it so, an OR reader against the new bits only.
LEMMA NewBitsSatisfy ==
  ASSUME NEW r \in Requests, NEW old, NEW events, Polled(old, r) = {}
  PROVE  Wakes(r, events, old \cup events) <=> Polled(old \cup events, r) # {}
BY RequestFacts DEF Polled, Wakes

\* LOS_EventWrite.
LEMMA EventWriteStep ==
  ASSUME TaskInv, WaitInv, EventInv, NEW ctx \in Context, NEW e \in Event, NEW events \in SUBSET Bit,
         LOS_EventWrite(ctx, e, events)
  PROVE  EventStepOK
<1>1. PICK bits : bits = eventID[e] \cup events
  OBVIOUS
<1>2. PICK W : W = {t \in Task : In(t, kern.wait[e]) /\ Wakes(request[t], events, bits)}
  OBVIOUS
<1>3. PICK l : l = WakeEach(kern, kern.wait[e], W)
  OBVIOUS
<1>4. /\ Caller(ctx) /\ eventID' = [eventID EXCEPT ![e] = bits]
      /\ Finish(ctx, l, W # {})
      /\ eventInit' = eventInit /\ reading' = reading /\ request' = request
      /\ child' = child /\ tick' = tick
  BY <1>1, <1>2, <1>3 DEF LOS_EventWrite, Inside
<1>5. /\ eventID \in [Event -> SUBSET Bit] /\ bits \in SUBSET Bit /\ eventID'[e] = bits
      /\ eventID' \in [Event -> SUBSET Bit]
      /\ \A z \in Event \ {e} : eventID'[z] = eventID[z]
      /\ \A z \in Event : z \in WaitObj /\ z # NoEvent
  BY <1>1, <1>4, EventAssumption, NoEventAssumption DEF EventInv
<1>6. /\ KInv(kern) /\ ListsOK(kern) /\ kern.wait[e] \in Seq(Task) /\ Distinct(kern.wait[e])
  BY <1>5, KernelFields DEF TaskInv, Inv, KInv, WaitInv, ListsOK
<1>7. /\ W \in SUBSET Task /\ W \subseteq Waiting(e)
      /\ \A t \in W : In(t, kern.wait[e]) /\ Has(kern, t, "PEND")
  BY <1>2, WaitingFacts DEF Waiting
<1>8. AllWoken(kern, l, W)
  BY <1>3, <1>6, <1>7, WakeEachEffect
<1>9. /\ TaskInv' /\ WaitInv' /\ (Preempts => Preempts') /\ kern' = l
      /\ \A u \in Task : pc'[u] \in {"block", "wait"} <=> pc[u] \in {"block", "wait"}
  BY <1>4, <1>7, <1>8, WakeAllStep
<1>10. /\ \A o \in WaitObj : \A u : In(u, kern'.wait[o]) <=> In(u, kern.wait[o]) /\ u \notin W
       /\ \A u \in Task \ W : kern'.status[u] = kern.status[u]
       /\ \A u \in W : ~Has(kern', u, "PEND") /\ (Has(kern', u, "TIMEOUT") <=> Has(kern, u, "TIMEOUT"))
  BY <1>8, <1>9, TCBs DEF AllWoken
<1>11. \A t \in Waiting(e) : t \in W <=> Polled(bits, request[t]) # {}
  <2>1. ASSUME NEW t \in Waiting(e) PROVE t \in W <=> Polled(bits, request[t]) # {}
    <3>1. t \in Task /\ In(t, kern.wait[e]) /\ request[t] \in Requests /\ Polled(eventID[e], request[t]) = {}
      BY WaitingFacts
    <3>2. Wakes(request[t], events, bits) <=> Polled(bits, request[t]) # {}
      BY <1>1, <3>1, NewBitsSatisfy
    <3> QED BY <1>2, <3>1, <3>2
  <2> QED BY <2>1
<1>12. EventInv'
  <2>1. ASSUME NEW u \in Task, NEW o \in WaitObj, In(u, kern'.wait[o])
        PROVE  o \in Event /\ eventInit'[o] /\ reading'[u] = o /\ Polled(eventID'[o], request'[u]) = {}
    <3>1. In(u, kern.wait[o]) /\ u \notin W
      BY <2>1, <1>10
    <3>2. o \in Event /\ eventInit[o] /\ reading[u] = o /\ Polled(eventID[o], request[u]) = {}
      BY <3>1 DEF EventInv
    <3>3. CASE o = e
      <4>1. u \in Waiting(e)
        BY <3>1, <3>3 DEF Waiting
      <4> QED BY <4>1, <3>1, <3>2, <3>3, <1>4, <1>5, <1>11
    <3>4. CASE o # e
      BY <3>2, <3>4, <1>4, <1>5
    <3> QED BY <3>3, <3>4
  <2>2. ASSUME NEW u \in Task, reading'[u] # NoEvent
        PROVE  pc'[u] \in {"block", "wait"} /\ request'[u] \in Requests
    BY <2>2, <1>4, <1>9 DEF EventInv
  <2>3. eventInit' \in [Event -> BOOLEAN] /\ reading' \in [Task -> Event \cup {NoEvent}]
        /\ request' \in [Task -> Requests \cup {NoRequest}]
    BY <1>4 DEF EventInv
  <2> QED BY <1>5, <2>1, <2>2, <2>3 DEF EventInv
<1>13. Abstract(e)!Next
  <2>1. Waiting(e)' = Waiting(e) \ W
    BY <1>5, <1>10 DEF Waiting
  <2>2. Served(e)' = Served(e) \cup W
    <3>1. \A u \in Task \ W : u \in Served(e)' <=> u \in Served(e)
      BY <1>4, <1>10 DEF Served
    <3>2. \A u \in W : u \in Task /\ u \in Served(e)'
      BY <1>4, <1>7, <1>10, WaitingFacts DEF Served, Has
    <3> QED BY <3>1, <3>2 DEF Served
  <2>3. W = {t \in Waiting(e) : Polled(eventID'[e], request[t]) # {}}
    BY <1>5, <1>7, <1>11
  <2>4. Waiting(e) \cap Served(e) = {} /\ \A t \in Waiting(e) : request[t] \in Requests
    BY WaitingFacts
  <2>5. eventID'[e] = eventID[e] \cup events
    BY <1>1, <1>5
  <2> QED BY <1>4, <2>1, <2>2, <2>3, <2>4, <2>5, EventsWritten
<1>14. ASSUME NEW z \in Event, z # e PROVE UNCHANGED Abstract(z)!vars
  <2>1. \A u \in W : reading[u] # z /\ reading'[u] # z /\ ~In(u, kern.wait[z])
    BY <1>4, <1>5, <1>7, <1>14, WaitingFacts
  <2>2. \A u \in Task \ W : /\ reading'[u] = reading[u] /\ request'[u] = request[u]
                            /\ Has(kern', u, "PEND") <=> Has(kern, u, "PEND")
                            /\ Has(kern', u, "TIMEOUT") <=> Has(kern, u, "TIMEOUT")
    BY <1>4, <1>10 DEF Has
  <2>3. eventID'[z] = eventID[z] /\ \A u \in Task : In(u, kern'.wait[z]) <=> In(u, kern.wait[z])
    BY <2>1, <1>5, <1>10, <1>14
  <2> QED BY <2>1, <2>2, <2>3, OthersStand
<1> QED BY <1>9, <1>12, <1>13, <1>14 DEF EventStepOK, EventsImplemented

-----------------------------------------------------------------------------
(* The specification.                                                      *)

\* A call that is past its test uses an event that is initialised.
LEMMA InsideInitialised ==
  ASSUME TaskInv, WaitInv, CheckedInv, NEW ctx \in Context, NEW e \in Event, Inside(ctx, e)
  PROVE  eventInit[e]
<1>0. ctx = "task" => kern.run \in Task
  BY CallerFacts DEF Inside
<1>1. By(ctx) \in Task \cup {Handler}
  BY <1>0 DEF By
<1>2. checked[By(ctx)] = e /\ e # NoEvent
  BY NoEventAssumption DEF Inside
<1> QED BY <1>1, <1>2 DEF CheckedInv

\* The tests stay true: what a step notes as tested was so or is initialised,
\* and nobody destroys it.
LEMMA ChecksHold ==
  ASSUME CheckedInv, [CarefulEventsNext]_eventAll
  PROVE  CheckedInv'
<1> DEFINE C == Task \cup {Handler}
<1>1. CASE UNCHANGED eventAll
  BY <1>1 DEF CheckedInv, eventAll
<1>2. CASE CarefulEventsNext
  <2>1. ASSUME checked' \in [C -> Event \cup {NoEvent}],
               \A c \in C : checked'[c] \in {NoEvent, checked[c]} \/ eventInit'[checked'[c]]
        PROVE  CheckedInv'
    <3>1. ASSUME NEW c \in C, checked'[c] # NoEvent, checked'[c] = checked[c]
          PROVE  eventInit'[checked'[c]]
      BY <1>2, <2>1, <3>1 DEF CheckedInv, CarefulEventsNext, DestroysUnchecked
    <3> QED BY <2>1, <3>1 DEF CheckedInv
  <2>2. CASE EventTaskStep
    <3>1. checked' = [c \in C |-> IF pc'[c] = "none" THEN NoEvent ELSE checked[c]]
      BY <2>2 DEF EventTaskStep
    <3> QED BY <2>1, <3>1 DEF CheckedInv
  <2>3. CASE checked' = checked
    BY <2>1, <2>3 DEF CheckedInv
  <2>4. ASSUME NEW ctx \in Context, Left(ctx) PROVE CheckedInv'
    BY <2>1, <2>4 DEF CheckedInv, Left
  <2>5. ASSUME NEW ctx \in Context, NEW e \in Event, EventCheck(ctx, e) PROVE CheckedInv'
    <3>1. checked' = [checked EXCEPT ![By(ctx)] = e] /\ eventInit'[e]
      BY <2>5 DEF EventCheck
    <3> QED BY <2>1, <3>1 DEF CheckedInv
  <2>6. ASSUME EventService PROVE CheckedInv'
    <3>1. ASSUME NEW ctx \in Context, NEW e \in Event,
                 LOS_EventInit(ctx, e) \/ LOS_EventDestroy(ctx, e)
          PROVE  CheckedInv'
      BY <2>3, <3>1 DEF LOS_EventInit, LOS_EventDestroy
    <3>2. ASSUME NEW ctx \in Context, NEW e \in Event, NEW events \in SUBSET Bit,
                 LOS_EventClear(ctx, e, events) \/ LOS_EventWrite(ctx, e, events)
          PROVE  CheckedInv'
      BY <2>3, <2>4, <3>2 DEF LOS_EventClear, LOS_EventWrite
    <3>3. ASSUME NEW ctx \in Context, NEW e \in Event, NEW r \in Requests, LOS_EventPoll(ctx, e, r)
          PROVE  CheckedInv'
      BY <2>3, <3>3 DEF LOS_EventPoll
    <3>4. ASSUME NEW e \in Event, NEW r \in Requests, NEW timed \in BOOLEAN,
                 EventReadAtOnce(e, r) \/ EventReadWait(e, r, timed)
          PROVE  CheckedInv'
      BY <2>4, <3>4 DEF EventReadAtOnce, EventReadWait, Context
    <3>5. CASE EventReadReturn
      BY <2>3, <3>5 DEF EventReadReturn
    <3> QED BY <2>5, <2>6, <3>1, <3>2, <3>3, <3>4, <3>5 DEF EventService
  <2>7. CASE NoListService
    BY <2>4, <2>7 DEF NoListService, EventReadNoList, EventWriteNoList, Context
  <2> QED BY <1>2, <2>2, <2>6, <2>7 DEF CarefulEventsNext, EventsNext
<1> QED BY <1>1, <1>2

\* Every step keeps the invariants and is a step of the abstract flags.
LEMMA EventNextStep ==
  ASSUME TaskInv, WaitInv, EventInv, CheckedInv, [EventsNext]_eventAll
  PROVE  EventStepOK
<1>1. CASE UNCHANGED eventAll
  <2>1. /\ UNCHANGED <<kern, pc, child, pendSV, tick>>
        /\ UNCHANGED <<eventInit, eventID, reading, request>>
    BY <1>1 DEF eventAll
  <2>2. EventInv'
    BY <2>1 DEF EventInv
  <2>3. \A e \in Event : UNCHANGED Abstract(e)!vars
    BY <2>1, ReadersStand, NothingHappens
  <2> QED BY <2>1, <2>2, <2>3, TasksStand DEF EventStepOK, EventsImplemented
<1>2. CASE EventTaskStep
  BY <1>2, EventTaskStepOK
<1>3. ASSUME NEW ctx \in Context, NEW e \in Event,
             \/ LOS_EventInit(ctx, e) \/ LOS_EventDestroy(ctx, e)
             \/ \E events \in SUBSET Bit : LOS_EventClear(ctx, e, events)
             \/ EventCheck(ctx, e)
             \/ \E r \in Requests : LOS_EventPoll(ctx, e, r) \/ EventReadAtOnce(e, r)
      PROVE  EventStepOK
  BY <1>3, FlagsOnlyStep
<1>4. ASSUME NEW ctx \in Context, NEW e \in Event, NEW events \in SUBSET Bit,
             LOS_EventWrite(ctx, e, events)
      PROVE  EventStepOK
  BY <1>4, EventWriteStep
<1>5. ASSUME NEW e \in Event, NEW r \in Requests, NEW timed \in BOOLEAN, EventReadWait(e, r, timed)
      PROVE  EventStepOK
  BY <1>5, EventWaitStep
<1>6. CASE EventReadReturn
  BY <1>6, EventReturnStep
<1>7. \A ctx \in Context, e \in Event : Inside(ctx, e) => eventInit[e]
  BY InsideInitialised
<1>8. \A ctx \in Context, e \in Event, events \in SUBSET Bit : ~EventWriteNoList(ctx, e, events)
  BY <1>7 DEF EventWriteNoList
<1>9. \A e \in Event, r \in Requests, timed \in BOOLEAN : ~EventReadNoList(e, r, timed)
  BY <1>7 DEF EventReadNoList, Context
<1>10. \A e \in Event, r \in Requests : EventReadAtOnce(e, r) => EventStepOK
  BY <1>3 DEF Context
<1> QED BY <1>1, <1>2, <1>3, <1>4, <1>5, <1>6, <1>8, <1>9, <1>10 DEF EventsNext, EventService, NoListService

\* The invariants hold, and every step is what it should be.
LEMMA EventsHold ==
  /\ CarefulEventsSpec => [](TaskInv /\ WaitInv /\ Preempts /\ EventInv /\ CheckedInv)
  /\ CarefulEventsSpec => [][EventStepOK]_eventAll
<1>1. TaskInit /\ EventsInit => TaskInv /\ WaitInv /\ Preempts /\ EventInv /\ CheckedInv
  BY InitInv, InitWaits, EventInitInv DEF EventsInit, CheckedInv
<1>2. TaskInv /\ WaitInv /\ EventInv /\ CheckedInv /\ [CarefulEventsNext]_eventAll => EventStepOK
  BY EventNextStep DEF CarefulEventsNext
<1>3. CheckedInv /\ [CarefulEventsNext]_eventAll => CheckedInv'
  BY ChecksHold
<1>4. EventStepOK /\ CheckedInv' /\ Preempts
        => (TaskInv /\ WaitInv /\ Preempts /\ EventInv /\ CheckedInv)'
  BY DEF EventStepOK
<1> QED BY <1>1, <1>2, <1>3, <1>4, PTL DEF CarefulEventsSpec

\* No event is lost: whoever waits is not satisfied by the bits that are set,
\* although LOS_EventWrite looks at OR readers with the new bits only and takes
\* tasks off the list it walks (los_event.c).
THEOREM NoEventIsLost == CarefulEventsSpec => []NoLostEvent
<1>1. EventInv => NoLostEvent
  BY EventAssumption DEF EventInv, NoLostEvent
<1> QED BY <1>1, EventsHold, PTL

\* A task that waits in LOS_EventRead is on the list of the event it reads and
\* on no other, and that event has a list: if nobody destroys an event in the
\* moment between a call's test and its LOS_IntLock, LOS_EventDestroy loses no
\* reader (los_event.c).
THEOREM ReadersAlwaysListed == CarefulEventsSpec => []ReadersAreListed
<1>1. ASSUME WaitInv, EventInv, NEW e \in Event, NEW t \in Task
      PROVE  /\ In(t, kern.wait[e]) <=> reading[t] = e /\ Has(kern, t, "PEND")
             /\ In(t, kern.wait[e]) => eventInit[e]
  <2>1. e \in WaitObj /\ e # NoEvent /\ TaskOK(kern, t)
    BY <1>1, EventAssumption, NoEventAssumption, TCBs DEF WaitInv, ListsOK
  <2>2. In(t, kern.wait[e]) => reading[t] = e /\ eventInit[e]
    BY <1>1, <2>1 DEF EventInv
  <2>3. In(t, kern.wait[e]) => Has(kern, t, "PEND")
    BY <2>1 DEF TaskOK
  <2>4. ASSUME reading[t] = e, Has(kern, t, "PEND") PROVE In(t, kern.wait[e])
    <3>1. PICK o \in WaitObj : In(t, kern.wait[o])
      BY <2>1, <2>4 DEF TaskOK
    <3> QED BY <1>1, <2>4, <3>1 DEF EventInv
  <2> QED BY <2>2, <2>3, <2>4
<1>2. WaitInv /\ EventInv => ReadersAreListed
  BY <1>1 DEF ReadersAreListed
<1> QED BY <1>2, EventsHold, PTL

\* A task is on a wait list exactly when its status says PEND, on one list and
\* once, whatever writes, timeouts, deletions and suspensions come together
\* (OsSchedTaskWait, OsSchedTaskWake, OsSchedWakePendTimeTask).
THEOREM EventWaitListsAgree == CarefulEventsSpec => []WaitListsAgree
<1>1. WaitInv => WaitListsAgree
  BY TCBs DEF WaitInv, ListsOK, TaskOK, WaitListsAgree
<1> QED BY <1>1, EventsHold, PTL

\* The TIMEOUT flag a LOS_EventRead looks at is its own (los_event.c).
THEOREM EventNoStaleTimeout == CarefulEventsSpec => []NoStaleTimeout
<1>1. WaitInv => NoStaleTimeout
  BY DEF WaitInv, Places, NoStaleTimeout
<1> QED BY <1>1, EventsHold, PTL

\* With events the task with the highest priority runs: a write that wakes any
\* number of readers reschedules once, after the last of them (LOS_EventWrite).
THEOREM EventHighestRuns == CarefulEventsSpec => []HighestRuns
<1>1. Preempts => HighestRuns
  BY DEF Preempts, HighestReady, HighestRuns
<1> QED BY <1>1, EventsHold, PTL

\* Every event behaves as the module EventFlags promises: a write releases all
\* readers it satisfies and no other, and a reader waits only as long as the
\* flags do not satisfy it (los_event.c as a whole).
THEOREM EventsAreImplemented == CarefulEventsSpec => ImplementsEventFlags
<1>1. TaskInit /\ EventsInit => \A e \in Event : Abstract(e)!Init
  BY EventInitInv
<1>2. [EventStepOK]_eventAll
        => [\A e \in Event : UNCHANGED Abstract(e)!vars \/ Abstract(e)!Next]_eventAll
  BY DEF EventStepOK, EventsImplemented
<1> QED BY <1>1, <1>2, EventsHold, PTL DEF CarefulEventsSpec, ImplementsEventFlags

=============================================================================
