---------------------------- MODULE LosTaskProofs ----------------------------
(***************************************************************************)
(* Theorems about LosTask, for any number of TCBs, priorities and wait     *)
(* lists: types, ready queues and the life cycle of the TCBs.              *)
(*                                                                         *)
(* The first part says what the operators of LosSched preserve: the types  *)
(* of the kernel's fields and the agreement of the ready queues with the   *)
(* tasks' states (KInv).  None of the three theorems is inductive alone;   *)
(* in the second part TaskInv joins them with what the services rely on: a *)
(* TCB is unused exactly while no task has it, the TCBs in creation belong *)
(* to one creator each, and the task that runs exists.                     *)
(***************************************************************************)
EXTENDS LosTask, SequenceTheorems, WellFoundedInduction, TLAPS

-----------------------------------------------------------------------------
(* Lists.                                                                  *)

\* Removal of the i-th node closes the list up around it.
LEMMA RemoveAtProperties ==
  ASSUME NEW S, NEW s \in Seq(S), NEW i \in 1..Len(s)
  PROVE  /\ RemoveAt(s, i) \in Seq(S)
         /\ Len(RemoveAt(s, i)) = Len(s) - 1
         /\ \A j \in 1..(Len(s) - 1) :
              RemoveAt(s, i)[j] = IF j < i THEN s[j] ELSE s[j + 1]
<1> DEFINE a == SubSeq(s, 1, i - 1)
           b == SubSeq(s, i + 1, Len(s))
<1>1. Len(s) \in Nat /\ i \in Int
  BY LenProperties
<1>2. \A j \in 1..Len(s) : s[j] \in S
  BY ElementOfSeq
<1>3. /\ a \in Seq(S) /\ Len(a) = i - 1
      /\ \A j \in 1..(i - 1) : a[j] = s[j]
  <2>1. \A j \in 1..(i - 1) : s[j] \in S
    BY <1>1, <1>2
  <2> QED BY <2>1, <1>1, SubSeqProperties
<1>4. /\ b \in Seq(S) /\ Len(b) = Len(s) - i
      /\ \A j \in 1..(Len(s) - i) : b[j] = s[i + j]
  <2>1. \A j \in (i + 1)..Len(s) : s[j] \in S
    BY <1>1, <1>2
  <2>2. /\ b \in Seq(S)
        /\ Len(b) = IF i + 1 <= Len(s) THEN Len(s) - (i + 1) + 1 ELSE 0
        /\ \A j \in 1..(Len(s) - (i + 1) + 1) : b[j] = s[(i + 1) + j - 1]
    BY <2>1, <1>1, SubSeqProperties
  <2> QED BY <2>2, <1>1
<1>5. RemoveAt(s, i) = a \o b
  BY DEF RemoveAt
<1>6. /\ a \o b \in Seq(S)
      /\ Len(a \o b) = Len(a) + Len(b)
      /\ \A j \in 1..(Len(a) + Len(b)) :
           (a \o b)[j] = IF j <= Len(a) THEN a[j] ELSE b[j - Len(a)]
  BY <1>3, <1>4, ConcatProperties
<1> HIDE DEF a, b
<1> QED BY <1>1, <1>3, <1>4, <1>5, <1>6

\* LOS_ListDelete: from a list that holds each node once, exactly t goes.
LEMMA WithoutProperties ==
  ASSUME NEW S, NEW s \in Seq(S), NEW t
  PROVE  /\ Without(s, t) \in Seq(S)
         /\ Distinct(s) => /\ Distinct(Without(s, t))
                           /\ \A u : In(u, Without(s, t)) <=> In(u, s) /\ u # t
<1>1. CASE ~In(t, s)
  BY <1>1 DEF Without, In
<1>2. CASE In(t, s)
  <2> DEFINE i == CHOOSE j \in DOMAIN s : s[j] = t
             w == RemoveAt(s, i)
  <2>1. DOMAIN s = 1..Len(s) /\ Len(s) \in Nat
    BY LenProperties
  <2>2. i \in 1..Len(s) /\ s[i] = t
    BY <1>2, <2>1 DEF In
  <2>3. Without(s, t) = w
    BY <1>2 DEF Without
  <2> HIDE DEF i
  <2>4. /\ w \in Seq(S) /\ Len(w) = Len(s) - 1
        /\ \A j \in 1..(Len(s) - 1) : w[j] = IF j < i THEN s[j] ELSE s[j + 1]
    BY <2>2, RemoveAtProperties
  <2>5. DOMAIN w = 1..(Len(s) - 1)
    BY <2>4, LenProperties
  <2> HIDE DEF w
  <2>6. ASSUME Distinct(s)
        PROVE  Distinct(w) /\ \A u : In(u, w) <=> In(u, s) /\ u # t
    <3>1. ASSUME NEW a \in 1..(Len(s) - 1), NEW b \in 1..(Len(s) - 1), w[a] = w[b]
          PROVE  a = b
      <4>1. (IF a < i THEN a ELSE a + 1) = (IF b < i THEN b ELSE b + 1)
        <5>1. /\ (IF a < i THEN a ELSE a + 1) \in 1..Len(s)
              /\ (IF b < i THEN b ELSE b + 1) \in 1..Len(s)
          BY <2>1, <2>2
        <5> QED BY <5>1, <2>1, <2>4, <2>6, <3>1 DEF Distinct
      <4> QED BY <4>1, <2>1, <2>2
    <3>2. ASSUME NEW u, In(u, w) PROVE In(u, s) /\ u # t
      BY <3>2, <2>1, <2>2, <2>4, <2>5, <2>6 DEF Distinct, In
    <3>3. ASSUME NEW u, In(u, s), u # t PROVE In(u, w)
      <4>1. PICK j \in 1..Len(s) : s[j] = u
        BY <3>3, <2>1 DEF In
      <4>2. CASE j < i
        BY <4>1, <4>2, <2>1, <2>2, <2>4, <2>5 DEF In
      <4>3. CASE j > i
        <5>1. j - 1 \in 1..(Len(s) - 1) /\ w[j - 1] = s[j]
          BY <4>3, <2>1, <2>2, <2>4
        <5> QED BY <5>1, <4>1, <2>5 DEF In
      <4> QED BY <4>1, <4>2, <4>3, <3>3, <2>1, <2>2
    <3> QED BY <3>1, <3>2, <3>3, <2>5 DEF Distinct
  <2> QED BY <2>3, <2>4, <2>6
<1> QED BY <1>1, <1>2

\* A node put at either end of a list that does not hold it.
LEMMA EndsProperties ==
  ASSUME NEW S, NEW s \in Seq(S), NEW t \in S
  PROVE  /\ Append(s, t) \in Seq(S) /\ Append(s, t) # <<>>
         /\ <<t>> \o s \in Seq(S) /\ <<t>> \o s # <<>>
         /\ \A u : /\ In(u, Append(s, t)) <=> In(u, s) \/ u = t
                   /\ In(u, <<t>> \o s) <=> In(u, s) \/ u = t
         /\ Distinct(s) /\ ~In(t, s) => Distinct(Append(s, t)) /\ Distinct(<<t>> \o s)
<1>1. /\ DOMAIN s = 1..Len(s) /\ Len(s) \in Nat
      /\ <<t>> \in Seq(S) /\ Len(<<t>>) = 1 /\ <<t>>[1] = t
  BY LenProperties
<1>2. /\ Append(s, t) \in Seq(S) /\ Len(Append(s, t)) = Len(s) + 1
      /\ Append(s, t) # <<>>
      /\ \A i \in 1..Len(s) : Append(s, t)[i] = s[i]
      /\ Append(s, t)[Len(s) + 1] = t
  BY AppendProperties
<1>3. /\ <<t>> \o s \in Seq(S) /\ Len(<<t>> \o s) = 1 + Len(s)
      /\ \A i \in 1..(1 + Len(s)) : (<<t>> \o s)[i] = IF i <= 1 THEN <<t>>[i] ELSE s[i - 1]
  BY <1>1, ConcatProperties
<1> DEFINE x == Append(s, t)
           y == <<t>> \o s
<1>4. /\ DOMAIN x = 1..(Len(s) + 1) /\ DOMAIN y = 1..(Len(s) + 1)
  BY <1>1, <1>2, <1>3, LenProperties
<1>5. y # <<>>
  BY <1>1, <1>3
<1>6. /\ \A i \in 1..(Len(s) + 1) : x[i] = IF i <= Len(s) THEN s[i] ELSE t
      /\ \A i \in 1..(Len(s) + 1) : y[i] = IF i = 1 THEN t ELSE s[i - 1]
  BY <1>1, <1>2, <1>3
<1> HIDE DEF x, y
<1>7. ASSUME NEW u PROVE In(u, x) <=> In(u, s) \/ u = t
  BY <1>1, <1>4, <1>6 DEF In
<1>8. ASSUME NEW u PROVE In(u, y) <=> In(u, s) \/ u = t
  <2>1. ASSUME NEW i \in 1..Len(s) PROVE i + 1 \in 1..(Len(s) + 1) /\ y[i + 1] = s[i]
    BY <1>1, <1>6
  <2>2. 1 \in 1..(Len(s) + 1) /\ y[1] = t
    BY <1>1, <1>6
  <2>3. In(u, s) \/ u = t => In(u, y)
    BY <2>1, <2>2, <1>1, <1>4 DEF In
  <2>4. In(u, y) => In(u, s) \/ u = t
    <3>1. ASSUME NEW i \in 1..(Len(s) + 1), y[i] = u
          PROVE  In(u, s) \/ u = t
      <4>1. i = 1 \/ (i - 1 \in 1..Len(s) /\ y[i] = s[i - 1])
        BY <1>1, <1>6
      <4> QED BY <4>1, <3>1, <2>2, <1>1 DEF In
    <3> QED BY <3>1, <1>4 DEF In
  <2> QED BY <2>3, <2>4
<1>9. ASSUME Distinct(s), ~In(t, s) PROVE Distinct(x)
  BY <1>1, <1>4, <1>6, <1>9 DEF In, Distinct
<1>10. ASSUME Distinct(s), ~In(t, s) PROVE Distinct(y)
  <2>1. ASSUME NEW i \in 1..(Len(s) + 1), NEW j \in 1..(Len(s) + 1), y[i] = y[j]
        PROVE  i = j
    <3>1. /\ i = 1 \/ (i - 1 \in 1..Len(s) /\ y[i] = s[i - 1])
          /\ j = 1 \/ (j - 1 \in 1..Len(s) /\ y[j] = s[j - 1])
          /\ y[1] = t
      BY <1>1, <1>6
    <3>2. \A k \in 1..Len(s) : s[k] # t
      BY <1>1, <1>10 DEF In
    <3>3. \A k, l \in 1..Len(s) : s[k] = s[l] => k = l
      BY <1>1, <1>10 DEF Distinct
    <3> QED BY <3>1, <3>2, <3>3, <2>1, <1>1
  <2> QED BY <2>1, <1>4 DEF Distinct
<1> QED BY <1>2, <1>3, <1>5, <1>7, <1>8, <1>9, <1>10 DEF x, y

\* The first node, and the list without it.
LEMMA TailProperties ==
  ASSUME NEW S, NEW s \in Seq(S), s # <<>>
  PROVE  /\ Head(s) \in S /\ Tail(s) \in Seq(S) /\ In(Head(s), s)
         /\ \A u : In(u, Tail(s)) => In(u, s)
         /\ Distinct(s) => /\ Distinct(Tail(s)) /\ ~In(Head(s), Tail(s))
                           /\ \A u : In(u, s) => In(u, Tail(s)) \/ u = Head(s)
<1>1. /\ DOMAIN s = 1..Len(s) /\ Len(s) \in Nat \ {0}
  BY LenProperties, EmptySeq
<1>2. /\ Head(s) \in S /\ Tail(s) \in Seq(S) /\ Len(Tail(s)) = Len(s) - 1
      /\ \A i \in 1..Len(Tail(s)) : Tail(s)[i] = s[i + 1]
  BY HeadTailProperties
<1>3. Head(s) = s[1] /\ 1 \in 1..Len(s)
  BY <1>1
<1>4. DOMAIN Tail(s) = 1..(Len(s) - 1)
  BY <1>2, LenProperties
<1> DEFINE h == Head(s)
           q == Tail(s)
<1>5. \A i \in 1..(Len(s) - 1) : q[i] = s[i + 1] /\ i + 1 \in 1..Len(s)
  BY <1>1, <1>2
<1> HIDE DEF h, q
<1>6. In(h, s)
  BY <1>1, <1>3 DEF In, h
<1>7. ASSUME NEW u, In(u, q) PROVE In(u, s)
  BY <1>1, <1>4, <1>5, <1>7 DEF In, q
<1>8. ASSUME Distinct(s) PROVE Distinct(q) /\ ~In(h, q)
  <2>1. Distinct(q)
    <3>1. ASSUME NEW a \in 1..(Len(s) - 1), NEW b \in 1..(Len(s) - 1), q[a] = q[b]
          PROVE  a = b
      BY <3>1, <1>1, <1>5, <1>8 DEF Distinct
    <3> QED BY <3>1, <1>4 DEF Distinct, q
  <2>2. ~In(h, q)
    BY <1>1, <1>3, <1>4, <1>5, <1>8 DEF In, Distinct, h, q
  <2> QED BY <2>1, <2>2
<1>9. ASSUME NEW u, In(u, s) PROVE In(u, q) \/ u = h
  <2>1. PICK i \in 1..Len(s) : s[i] = u
    BY <1>9, <1>1 DEF In
  <2>2. CASE i = 1
    BY <2>1, <2>2, <1>3 DEF h
  <2>3. CASE i > 1
    <3>1. i - 1 \in 1..(Len(s) - 1) /\ q[i - 1] = s[i]
      BY <2>3, <1>1, <1>5
    <3> QED BY <3>1, <2>1, <1>4 DEF In, q
  <2> QED BY <2>2, <2>3
<1> QED BY <1>2, <1>6, <1>7, <1>8, <1>9 DEF h, q

LEMMA ConcatIn ==
  ASSUME NEW S, NEW a \in Seq(S), NEW b \in Seq(S)
  PROVE  /\ a \o b \in Seq(S)
         /\ \A u : In(u, a \o b) <=> In(u, a) \/ In(u, b)
         /\ Distinct(a) /\ Distinct(b) /\ (\A u \in S : ~(In(u, a) /\ In(u, b)))
              => Distinct(a \o b)
<1> DEFINE c == a \o b
<1>1. /\ DOMAIN a = 1..Len(a) /\ Len(a) \in Nat
      /\ DOMAIN b = 1..Len(b) /\ Len(b) \in Nat
  BY LenProperties
<1>2. /\ c \in Seq(S) /\ DOMAIN c = 1..(Len(a) + Len(b))
      /\ \A i \in 1..(Len(a) + Len(b)) : c[i] = IF i <= Len(a) THEN a[i] ELSE b[i - Len(a)]
  BY ConcatProperties, LenProperties
<1> HIDE DEF c
<1>3. \A i \in 1..(Len(a) + Len(b)) :
        \/ i \in 1..Len(a) /\ c[i] = a[i]
        \/ i - Len(a) \in 1..Len(b) /\ c[i] = b[i - Len(a)]
  BY <1>1, <1>2
<1>4. \A i \in 1..Len(a) : i \in 1..(Len(a) + Len(b)) /\ c[i] = a[i]
  BY <1>1, <1>2
<1>5. \A i \in 1..Len(b) : Len(a) + i \in 1..(Len(a) + Len(b)) /\ c[Len(a) + i] = b[i]
  <2>1. ASSUME NEW i \in 1..Len(b)
        PROVE  Len(a) + i \in 1..(Len(a) + Len(b)) /\ c[Len(a) + i] = b[i]
    <3>1. /\ Len(a) + i \in 1..(Len(a) + Len(b)) /\ ~(Len(a) + i <= Len(a))
          /\ (Len(a) + i) - Len(a) = i
      BY <1>1
    <3> QED BY <3>1, <1>2
  <2> QED BY <2>1
<1>6. ASSUME NEW u PROVE In(u, c) <=> In(u, a) \/ In(u, b)
  <2>2. In(u, c) => In(u, a) \/ In(u, b)
    BY <1>1, <1>2, <1>3 DEF In
  <2>3. In(u, a) => In(u, c)
    BY <1>1, <1>2, <1>4 DEF In
  <2>4. In(u, b) => In(u, c)
    BY <1>1, <1>2, <1>5 DEF In
  <2> QED BY <2>2, <2>3, <2>4
<1>7. ASSUME Distinct(a), Distinct(b), \A u \in S : ~(In(u, a) /\ In(u, b))
      PROVE  Distinct(c)
  <2>1. ASSUME NEW i \in 1..(Len(a) + Len(b)), NEW j \in 1..(Len(a) + Len(b)), c[i] = c[j]
        PROVE  i = j
    <3>1. \A k \in 1..Len(a), l \in 1..Len(b) : a[k] # b[l]
      <4>1. \A k \in 1..Len(a) : a[k] \in S
        BY ElementOfSeq
      <4> QED BY <4>1, <1>1, <1>7 DEF In
    <3>2. /\ \A k, l \in 1..Len(a) : a[k] = a[l] => k = l
          /\ \A k, l \in 1..Len(b) : b[k] = b[l] => k = l
      BY <1>1, <1>7 DEF Distinct
    <3>3. CASE i \in 1..Len(a) /\ c[i] = a[i]
      BY <3>1, <3>2, <3>3, <2>1, <1>3
    <3>4. CASE i - Len(a) \in 1..Len(b) /\ c[i] = b[i - Len(a)]
      <4>1. j - Len(a) \in 1..Len(b) /\ c[j] = b[j - Len(a)]
        BY <3>1, <3>4, <2>1, <1>3
      <4>2. i - Len(a) = j - Len(a)
        BY <4>1, <3>2, <3>4, <2>1
      <4> QED BY <4>2, <1>1
    <3> QED BY <3>3, <3>4, <1>3
  <2> QED BY <2>1, <1>2 DEF Distinct
<1> QED BY <1>2, <1>6, <1>7 DEF c

LEMMA ReverseProperties ==
  ASSUME NEW S, NEW s \in Seq(S)
  PROVE  /\ Reverse(s) \in Seq(S)
         /\ \A u : In(u, Reverse(s)) <=> In(u, s)
         /\ Distinct(s) => Distinct(Reverse(s))
<1> DEFINE r == Reverse(s)
<1>1. /\ DOMAIN s = 1..Len(s) /\ Len(s) \in Nat
  BY LenProperties
<1>2. \A i \in 1..Len(s) : s[i] \in S
  BY ElementOfSeq
<1>3. \A i \in 1..Len(s) : (Len(s) - i) + 1 \in 1..Len(s) /\ (Len(s) - ((Len(s) - i) + 1)) + 1 = i
  BY <1>1
<1>4. DOMAIN r = 1..Len(s) /\ \A i \in 1..Len(s) : r[i] = s[(Len(s) - i) + 1]
  BY <1>1 DEF Reverse
<1>5. r \in [1..Len(s) -> S]
  BY <1>2, <1>3 DEF Reverse
<1>6. r \in Seq(S)
  BY <1>1, <1>5
<1> HIDE DEF r
<1>7. \A i \in 1..Len(s) : s[i] = r[(Len(s) - i) + 1]
  BY <1>3, <1>4
<1>8. ASSUME NEW u PROVE In(u, r) <=> In(u, s)
  BY <1>1, <1>3, <1>4, <1>7 DEF In
<1>9. ASSUME Distinct(s) PROVE Distinct(r)
  <2>1. ASSUME NEW i \in 1..Len(s), NEW j \in 1..Len(s), r[i] = r[j] PROVE i = j
    <3>1. (Len(s) - i) + 1 = (Len(s) - j) + 1
      BY <2>1, <1>1, <1>3, <1>4, <1>9 DEF Distinct
    <3> QED BY <3>1, <1>1
  <2> QED BY <2>1, <1>4 DEF Distinct
<1> QED BY <1>6, <1>8, <1>9 DEF r

LEMMA InsertAtType ==
  ASSUME NEW S, NEW s \in Seq(S), NEW i \in 1..(Len(s) + 1), NEW e \in S
  PROVE  InsertAt(s, i, e) \in Seq(S)
<1>1. Len(s) \in Nat /\ i \in Int
  BY LenProperties
<1>2. \A j \in 1..Len(s) : s[j] \in S
  BY ElementOfSeq
<1>3. SubSeq(s, 1, i - 1) \in Seq(S)
  <2>1. \A j \in 1..(i - 1) : s[j] \in S
    BY <1>1, <1>2
  <2> QED BY <2>1, <1>1, SubSeqProperties
<1>4. SubSeq(s, i, Len(s)) \in Seq(S)
  <2>1. \A j \in i..Len(s) : s[j] \in S
    BY <1>1, <1>2
  <2> QED BY <2>1, <1>1, SubSeqProperties
<1>5. <<e>> \in Seq(S)
  OBVIOUS
<1>6. SubSeq(s, 1, i - 1) \o <<e>> \in Seq(S)
  BY <1>3, <1>5, ConcatProperties
<1> QED BY <1>4, <1>6, ConcatProperties DEF InsertAt

\* CLZ of a bitmap that is not zero finds a bit.
LEMMA HighestPriority ==
  ASSUME NEW B \in SUBSET Nat, B # {}
  PROVE  \E p \in B : \A q \in B : p <= q
<1>1. PICK p \in B : \A q \in B : ~(<<q, p>> \in OpToRel(<, Nat))
  BY NatLessThanWellFounded, WFMin
<1>2. \A q \in B : ~(q < p)
  BY <1>1 DEF OpToRel
<1> QED BY <1>2

-----------------------------------------------------------------------------
(* Kernel states.                                                          *)

\* LosTask's ReadyQueuesAgree, of any kernel state.
ReadyOK(k) ==
  \A p \in Prio :
    /\ Distinct(k.ready[p])
    /\ p \in k.bitmap <=> k.ready[p] # <<>>
    /\ \A t \in Task : In(t, k.ready[p]) <=> Has(k, t, "READY") /\ k.priority[t] = p

\* The idle task only is ready or runs, the spare TCB is no task, and a TCB in
\* the pool is nothing else.
StatusOK(k) ==
  /\ k.status[Idle] \subseteq {"READY", "RUNNING"}
  /\ Has(k, Dead, "UNUSED") /\ k.status[Dead] \subseteq {"UNUSED", "RUNNING"}
  /\ \A t \in Task : Has(k, t, "UNUSED") => k.status[t] = {"UNUSED"}

KInv(k) == k \in Kernel /\ ReadyOK(k) /\ StatusOK(k)

\* What the helpers never touch.
Keeps(k, l) ==
  /\ l.free = k.free /\ l.recycle = k.recycle
  /\ l.run = k.run /\ l.lock = k.lock
  /\ \A u \in TCB : /\ Has(l, u, "UNUSED") <=> Has(k, u, "UNUSED")
                    /\ Has(l, u, "RUNNING") <=> Has(k, u, "RUNNING")

LEMMA TCBs == /\ Task \subseteq TCB /\ Idle \in TCB /\ Dead \in TCB
              /\ Idle \notin Task /\ Dead \notin Task /\ Idle # Dead
              /\ TCB = Task \cup {Idle, Dead}
BY NAssumption DEF Task, TCB, Idle, Dead

\* The fields of a kernel state.
LEMMA KernelFields ==
  ASSUME NEW k \in Kernel
  PROVE  /\ k.status \in [TCB -> SUBSET Flag] /\ k.priority \in [Task -> Prio]
         /\ k.slice \in [Task -> BOOLEAN] /\ k.ready \in [Prio -> Seq(Task)]
         /\ k.bitmap \in SUBSET Prio /\ k.sorted \in Seq(Task)
         /\ k.wait \in [WaitObj -> Seq(Task)]
         /\ k.free \in Seq(Task) /\ k.recycle \in Seq(Task)
         /\ k.run \in TCB /\ k.lock \in Nat /\ k.halted \in BOOLEAN
BY DEF Kernel

\* One TCB's flags change.
LEMMA StatusUpdate ==
  ASSUME NEW k \in Kernel, NEW t \in TCB, NEW flags \in SUBSET Flag
  PROVE  LET l == [k EXCEPT !.status[t] = flags] IN
         /\ l \in Kernel
         /\ l.status = [k.status EXCEPT ![t] = flags]
         /\ \A u \in TCB : l.status[u] = IF u = t THEN flags ELSE k.status[u]
         /\ l.ready = k.ready /\ l.bitmap = k.bitmap /\ l.priority = k.priority
         /\ l.slice = k.slice /\ l.sorted = k.sorted /\ l.wait = k.wait
         /\ l.free = k.free /\ l.recycle = k.recycle
         /\ l.run = k.run /\ l.lock = k.lock /\ l.halted = k.halted
BY DEF Kernel

\* The same of an operator that the provers leave as it is.
WithStatus(k, t, flags) == [k EXCEPT !.status[t] = flags]

LEMMA StatusUpdated ==
  ASSUME NEW k \in Kernel, NEW t \in TCB, NEW flags \in SUBSET Flag
  PROVE  LET l == WithStatus(k, t, flags) IN
         /\ l \in Kernel
         /\ l.status = [k.status EXCEPT ![t] = flags]
         /\ \A u \in TCB : l.status[u] = IF u = t THEN flags ELSE k.status[u]
         /\ l.ready = k.ready /\ l.bitmap = k.bitmap /\ l.priority = k.priority
         /\ l.free = k.free /\ l.recycle = k.recycle
         /\ l.run = k.run /\ l.lock = k.lock
BY StatusUpdate DEF WithStatus

\* A change of flags other than READY, UNUSED and RUNNING of a task that
\* exists, with whatever happens to its wait lists and its sort link.
LEMMA FlagChange ==
  ASSUME NEW k, KInv(k), NEW t \in Task, ~Has(k, t, "UNUSED"),
         NEW flags \in SUBSET Flag, NEW l \in Kernel,
         l.status = [k.status EXCEPT ![t] = flags],
         \A f \in {"READY", "UNUSED", "RUNNING"} : f \in flags <=> Has(k, t, f),
         l.ready = k.ready, l.bitmap = k.bitmap, l.priority = k.priority,
         l.free = k.free, l.recycle = k.recycle, l.run = k.run, l.lock = k.lock
  PROVE  KInv(l) /\ Keeps(k, l)
<1>1. k.status \in [TCB -> SUBSET Flag] /\ Task \subseteq TCB
  BY KernelFields, TCBs DEF KInv
<1>2. \A u \in TCB : l.status[u] = IF u = t THEN flags ELSE k.status[u]
  BY <1>1
<1>3. \A u \in TCB, f \in {"READY", "UNUSED", "RUNNING"} : Has(l, u, f) <=> Has(k, u, f)
  BY <1>2 DEF Has
<1>4. ReadyOK(l)
  BY <1>1, <1>3 DEF ReadyOK, KInv
<1>5. StatusOK(l)
  <2>1. t # Idle /\ t # Dead
    BY TCBs
  <2> QED BY <1>1, <1>2, <1>3, <2>1, TCBs DEF StatusOK, KInv, Has
<1> QED BY <1>3, <1>4, <1>5 DEF KInv, Keeps

\* A task that is READY already halts the kernel and changes nothing else; any
\* other goes into the queue of its priority, and the bitmap follows.
LEMMA EnQueuePreserves ==
  ASSUME NEW k, KInv(k), NEW t \in Task \cup {Idle}, ~Has(k, t, "UNUSED")
  PROVE  /\ KInv(OsSchedTaskEnQueue(k, t)) /\ Keeps(k, OsSchedTaskEnQueue(k, t))
         /\ OsSchedTaskEnQueue(k, t).priority = k.priority
<1> DEFINE p == k.priority[t]
           flags == (k.status[t] \ {"PEND", "SUSPEND", "DELAY", "PEND_TIME"}) \cup {"READY"}
           marked == [k EXCEPT !.status[t] = flags]
           q == IF k.slice[t] THEN <<t>> \o k.ready[p] ELSE Append(k.ready[p], t)
<1> SUFFICES ASSUME NEW l, l = OsSchedTaskEnQueue(k, t)
             PROVE  KInv(l) /\ Keeps(k, l) /\ l.priority = k.priority
  OBVIOUS
<1>1. k \in Kernel /\ t \in TCB
  BY TCBs DEF KInv
<1>2. CASE Has(k, t, "READY")
  <2>1. l = [k EXCEPT !.halted = TRUE]
    BY <1>2 DEF OsSchedTaskEnQueue
  <2>2. l \in Kernel
    BY <2>1, <1>1 DEF Kernel
  <2>3. /\ l.status = k.status /\ l.ready = k.ready /\ l.bitmap = k.bitmap
        /\ l.priority = k.priority /\ l.free = k.free /\ l.recycle = k.recycle
        /\ l.run = k.run /\ l.lock = k.lock
    BY <2>1, <1>1 DEF Kernel
  <2> QED BY <2>2, <2>3 DEF KInv, Keeps, ReadyOK, StatusOK, Has
<1>3. CASE ~Has(k, t, "READY")
  <2>1. flags \in SUBSET Flag
    BY <1>1, KernelFields DEF Flag
  <2>2. CASE t = Idle
    <3>1. l = marked
      BY <1>3, <2>2 DEF OsSchedTaskEnQueue
    <3>2. marked \in Kernel
      BY <1>1, <2>1 DEF Kernel
    <3>3. /\ l.ready = k.ready /\ l.bitmap = k.bitmap /\ l.priority = k.priority
          /\ l.free = k.free /\ l.recycle = k.recycle /\ l.run = k.run /\ l.lock = k.lock
      BY <3>1, <1>1 DEF Kernel
    <3>4. \A u \in TCB : l.status[u] = IF u = t THEN flags ELSE k.status[u]
      BY <3>1, <1>1 DEF Kernel
    <3>5. flags \subseteq {"READY", "RUNNING"}
      BY <2>2 DEF KInv, StatusOK
    <3>6. \A u \in TCB : /\ Has(l, u, "UNUSED") <=> Has(k, u, "UNUSED")
                         /\ Has(l, u, "RUNNING") <=> Has(k, u, "RUNNING")
      BY <3>4 DEF Has
    <3> HIDE DEF p, flags, marked, q
    <3>7. ReadyOK(l)
      BY <3>3, <3>4, <2>2, TCBs DEF ReadyOK, KInv, Has
    <3>8. StatusOK(l)
      BY <3>4, <3>5, <2>2, TCBs DEF StatusOK, KInv, Has
    <3>9. l \in Kernel
      BY <3>1, <3>2
    <3>10. Keeps(k, l)
      BY <3>3, <3>6 DEF Keeps
    <3> QED BY <3>3, <3>7, <3>8, <3>9, <3>10 DEF KInv
  <2>3. CASE t \in Task
    <3>1. l = [marked EXCEPT !.bitmap = @ \cup {p}, !.slice[t] = TRUE, !.ready[p] = q]
      BY <1>3, <2>3, TCBs, <1>1 DEF OsSchedTaskEnQueue, Kernel
    <3>2. p \in Prio /\ k.ready[p] \in Seq(Task)
      BY <1>1, <2>3, KernelFields
    <3>3. ~In(t, k.ready[p]) /\ Distinct(k.ready[p])
      BY <1>3, <2>3, <3>2 DEF KInv, ReadyOK
    <3> HIDE DEF p, flags
    <3>4. /\ q \in Seq(Task) /\ q # <<>> /\ Distinct(q)
          /\ \A u : In(u, q) <=> In(u, k.ready[p]) \/ u = t
      <4> DEFINE r == k.ready[p]
      <4> HIDE DEF r
      <4>1. r \in Seq(Task) /\ ~In(t, r) /\ Distinct(r)
        BY <3>2, <3>3 DEF r
      <4>2. /\ Append(r, t) \in Seq(Task) /\ Append(r, t) # <<>> /\ Distinct(Append(r, t))
            /\ <<t>> \o r \in Seq(Task) /\ <<t>> \o r # <<>> /\ Distinct(<<t>> \o r)
            /\ \A u : /\ In(u, Append(r, t)) <=> In(u, r) \/ u = t
                      /\ In(u, <<t>> \o r) <=> In(u, r) \/ u = t
        BY <2>3, <4>1, EndsProperties
      <4>3. q = <<t>> \o r \/ q = Append(r, t)
        BY DEF r
      <4> HIDE DEF q
      <4>4. /\ q \in Seq(Task) /\ q # <<>> /\ Distinct(q)
            /\ \A u : In(u, q) <=> In(u, r) \/ u = t
        BY <4>2, <4>3
      <4> QED BY <4>4 DEF r
    <3> HIDE DEF q
    <3>5. l \in Kernel
      <4>1. [k EXCEPT !.status[t] = flags] \in Kernel
        BY <1>1, <2>1 DEF Kernel
      <4>2. \A m \in Kernel : [m EXCEPT !.bitmap = @ \cup {p}, !.slice[t] = TRUE] \in Kernel
        BY <3>2, <2>3 DEF Kernel
      <4>3. \A m \in Kernel : [m EXCEPT !.ready[p] = q] \in Kernel
        BY <3>2, <3>4 DEF Kernel
      <4>4. l = [[marked EXCEPT !.bitmap = @ \cup {p}, !.slice[t] = TRUE] EXCEPT !.ready[p] = q]
        BY <3>1
      <4> QED BY <4>1, <4>2, <4>3, <4>4
    <3>6. /\ l.ready = [k.ready EXCEPT ![p] = q] /\ l.bitmap = k.bitmap \cup {p}
          /\ l.priority = k.priority
          /\ l.free = k.free /\ l.recycle = k.recycle /\ l.run = k.run /\ l.lock = k.lock
          /\ l.status = [k.status EXCEPT ![t] = flags]
      BY <3>1, <1>1 DEF Kernel
    <3>7. \A u \in TCB : l.status[u] = IF u = t THEN flags ELSE k.status[u]
      BY <3>6, <1>1, KernelFields
    <3>8. \A u \in TCB : /\ Has(l, u, "UNUSED") <=> Has(k, u, "UNUSED")
                         /\ Has(l, u, "RUNNING") <=> Has(k, u, "RUNNING")
                         /\ Has(l, u, "READY") <=> Has(k, u, "READY") \/ u = t
      BY <3>7 DEF Has, flags
    <3>9. ReadyOK(l)
      <4>1. ASSUME NEW r \in Prio, r # p
            PROVE  /\ l.ready[r] = k.ready[r] /\ r \in l.bitmap <=> r \in k.bitmap
        BY <4>1, <3>6, <1>1, KernelFields
      <4>2. l.ready[p] = q /\ p \in l.bitmap
        BY <3>2, <3>6, <1>1, KernelFields
      <4>3. k.priority[t] = p
        BY DEF p
      <4> QED BY <4>1, <4>2, <4>3, <3>4, <3>6, <3>8, TCBs DEF ReadyOK, KInv
    <3>10. StatusOK(l)
      BY <3>7, <3>8, <2>3, TCBs DEF StatusOK, KInv, Has
    <3>11. Keeps(k, l)
      BY <3>6, <3>8 DEF Keeps
    <3> QED BY <3>5, <3>6, <3>9, <3>10, <3>11 DEF KInv
  <2> QED BY <2>2, <2>3
<1> QED BY <1>2, <1>3

\* A task leaves its ready queue, and the bitmap follows.
LEMMA DeQueuePreserves ==
  ASSUME NEW k, KInv(k), NEW t \in Task \cup {Idle}
  PROVE  LET l == OsSchedTaskDeQueue(k, t) IN
         /\ KInv(l) /\ Keeps(k, l)
         /\ l.status = [k.status EXCEPT ![t] = @ \ {"READY"}]
         /\ l.priority = k.priority /\ l.sorted = k.sorted /\ l.wait = k.wait
<1> DEFINE p == k.priority[t]
           qs == Unlink(k.ready, t)
           bm == IF qs[p] = <<>> THEN k.bitmap \ {p} ELSE k.bitmap
           flags == k.status[t] \ {"READY"}
<1> SUFFICES ASSUME NEW l, l = OsSchedTaskDeQueue(k, t)
             PROVE  /\ KInv(l) /\ Keeps(k, l)
                    /\ l.status = [k.status EXCEPT ![t] = flags]
                    /\ l.priority = k.priority /\ l.sorted = k.sorted /\ l.wait = k.wait
  OBVIOUS
<1>1. k \in Kernel /\ t \in TCB
  BY TCBs DEF KInv
<1>2. k.status \in [TCB -> SUBSET Flag] /\ flags \in SUBSET Flag
  BY <1>1, KernelFields
<1>3. CASE ~Has(k, t, "READY")
  <2>1. l = k
    BY <1>3 DEF OsSchedTaskDeQueue
  <2>2. k.status = [k.status EXCEPT ![t] = flags]
    BY <1>1, <1>2, <1>3 DEF Has
  <2> QED BY <2>1, <2>2 DEF Keeps
<1>4. CASE Has(k, t, "READY") /\ t = Idle
  <2>1. l = [k EXCEPT !.status[t] = flags]
    BY <1>4 DEF OsSchedTaskDeQueue, ClearFlag
  <2> HIDE DEF flags
  <2>2. l \in Kernel
    BY <2>1, <1>1, <1>2, StatusUpdate
  <2>3. /\ l.status = [k.status EXCEPT ![t] = flags]
        /\ l.ready = k.ready /\ l.bitmap = k.bitmap /\ l.priority = k.priority
        /\ l.sorted = k.sorted /\ l.wait = k.wait
        /\ l.free = k.free /\ l.recycle = k.recycle /\ l.run = k.run /\ l.lock = k.lock
    BY <2>1, <1>1, <1>2, StatusUpdate
  <2>4. \A u \in TCB : l.status[u] = IF u = t THEN flags ELSE k.status[u]
    BY <2>3, <1>1, <1>2
  <2>5. Keeps(k, l)
    BY <2>3, <2>4 DEF Keeps, Has, flags
  <2>6. ReadyOK(l)
    BY <2>3, <2>4, <1>4, TCBs DEF ReadyOK, KInv, Has
  <2>7. StatusOK(l)
    BY <2>4, <1>4, TCBs DEF StatusOK, KInv, Has, flags
  <2> QED BY <2>2, <2>3, <2>5, <2>6, <2>7 DEF KInv
<1>5. CASE Has(k, t, "READY") /\ t \in Task
  <2>1. l = [k EXCEPT !.ready = qs, !.bitmap = bm, !.status[t] = flags]
    BY <1>1, <1>5, TCBs DEF OsSchedTaskDeQueue, ClearFlag, OsSchedPriQueueDelete, Kernel
  <2>2. /\ p \in Prio /\ k.ready \in [Prio -> Seq(Task)] /\ k.bitmap \in SUBSET Prio
    BY <1>1, <1>5, KernelFields
  <2>3. qs = [r \in Prio |-> Without(k.ready[r], t)]
    BY <2>2 DEF Unlink
  <2>4. \A r \in Prio : Distinct(k.ready[r])
    BY DEF KInv, ReadyOK
  <2>5. \A r \in Prio : /\ qs[r] \in Seq(Task) /\ Distinct(qs[r])
                        /\ \A u : In(u, qs[r]) <=> In(u, k.ready[r]) /\ u # t
    BY <2>2, <2>3, <2>4, WithoutProperties
  <2>6. qs \in [Prio -> Seq(Task)]
    BY <2>3, <2>5
  <2>7. bm \in SUBSET Prio
    BY <2>2
  <2> HIDE DEF qs, bm, flags, p
  <2>8. l \in Kernel
    <3>1. \A m \in Kernel : [m EXCEPT !.ready = qs, !.bitmap = bm] \in Kernel
      BY <2>6, <2>7 DEF Kernel
    <3>2. \A m \in Kernel : [m EXCEPT !.status[t] = flags] \in Kernel
      BY <1>1, <1>2 DEF Kernel
    <3>3. l = [[k EXCEPT !.ready = qs, !.bitmap = bm] EXCEPT !.status[t] = flags]
      BY <2>1
    <3> QED BY <1>1, <3>1, <3>2, <3>3
  <2>9. /\ l.status = [k.status EXCEPT ![t] = flags]
        /\ l.ready = qs /\ l.bitmap = bm /\ l.priority = k.priority
        /\ l.sorted = k.sorted /\ l.wait = k.wait
        /\ l.free = k.free /\ l.recycle = k.recycle /\ l.run = k.run /\ l.lock = k.lock
    BY <2>1, <1>1 DEF Kernel
  <2>10. \A u \in TCB : l.status[u] = IF u = t THEN flags ELSE k.status[u]
    BY <2>9, <1>1, <1>2
  <2>11. Keeps(k, l)
    BY <2>9, <2>10 DEF Keeps, Has, flags
  <2>12. ReadyOK(l)
    <3>1. ASSUME NEW r \in Prio, r # p PROVE ~In(t, k.ready[r])
      BY <1>5, <3>1 DEF KInv, ReadyOK, p
    <3>2. ASSUME NEW r \in Prio, r # p PROVE qs[r] = k.ready[r]
      BY <3>1, <3>2, <2>3 DEF Without
    <3>3. \A r \in Prio : r \in bm <=> qs[r] # <<>>
      <4>1. ASSUME NEW r \in Prio, r # p PROVE r \in bm <=> r \in k.bitmap
        BY <4>1 DEF bm
      <4>2. In(t, k.ready[p])
        BY <1>5, <2>2 DEF KInv, ReadyOK, p
      <4>3. p \in k.bitmap
        BY <4>2, <2>2 DEF KInv, ReadyOK, In
      <4>4. p \in bm <=> qs[p] # <<>>
        BY <4>3 DEF bm
      <4> QED BY <4>1, <4>4, <3>2 DEF KInv, ReadyOK
    <3>4. \A u \in Task : Has(l, u, "READY") <=> Has(k, u, "READY") /\ u # t
      BY <2>10, TCBs DEF Has, flags
    <3>5. \A r \in Prio, u \in Task : In(u, k.ready[r]) <=> Has(k, u, "READY") /\ k.priority[u] = r
      BY DEF KInv, ReadyOK
    <3> QED BY <2>5, <2>9, <3>3, <3>4, <3>5 DEF ReadyOK
  <2>13. StatusOK(l)
    <3>1. t # Idle /\ t # Dead
      BY <1>5, TCBs
    <3>2. ~Has(k, t, "UNUSED")
      BY <1>5 DEF KInv, StatusOK, Has
    <3> QED BY <2>10, <3>1, <3>2, TCBs DEF StatusOK, KInv, Has, flags
  <2> QED BY <2>8, <2>9, <2>11, <2>12, <2>13 DEF KInv
<1> QED BY <1>3, <1>4, <1>5

LEMMA KeepsTransitive ==
  ASSUME NEW k, NEW l, NEW m, Keeps(k, l), Keeps(l, m)
  PROVE  Keeps(k, m)
BY DEF Keeps

\* A change of the slices, the sort link or the wait lists only.
LEMMA ListsChange ==
  ASSUME NEW k, KInv(k), NEW l \in Kernel,
         l.status = k.status, l.ready = k.ready, l.bitmap = k.bitmap,
         l.priority = k.priority, l.free = k.free, l.recycle = k.recycle,
         l.run = k.run, l.lock = k.lock
  PROVE  KInv(l) /\ Keeps(k, l)
BY DEF KInv, Keeps, ReadyOK, StatusOK, Has

\* A new priority for a task that is in no ready queue.
LEMMA PriorityChange ==
  ASSUME NEW k, KInv(k), NEW t \in Task, NEW p \in Prio, ~Has(k, t, "READY")
  PROVE  LET l == [k EXCEPT !.priority[t] = p] IN
         KInv(l) /\ Keeps(k, l) /\ l.status = k.status
<1> DEFINE l == [k EXCEPT !.priority[t] = p]
<1>1. k \in Kernel
  BY DEF KInv
<1>2. l \in Kernel
  BY <1>1 DEF Kernel
<1>3. /\ l.status = k.status /\ l.ready = k.ready /\ l.bitmap = k.bitmap
      /\ l.priority = [k.priority EXCEPT ![t] = p]
      /\ l.free = k.free /\ l.recycle = k.recycle /\ l.run = k.run /\ l.lock = k.lock
  BY <1>1 DEF Kernel
<1>4. \A u \in Task : l.priority[u] = IF u = t THEN p ELSE k.priority[u]
  BY <1>1, <1>3, KernelFields
<1> HIDE DEF l
<1>5. ReadyOK(l)
  BY <1>3, <1>4 DEF KInv, ReadyOK, Has
<1>6. StatusOK(l) /\ Keeps(k, l)
  BY <1>3 DEF KInv, StatusOK, Keeps, Has
<1> QED BY <1>2, <1>3, <1>5, <1>6 DEF KInv, l

LEMMA ModifyPreserves ==
  ASSUME NEW k, KInv(k), NEW t \in Task, NEW p \in Prio, ~Has(k, t, "UNUSED")
  PROVE  LET l == OsSchedModifyTaskSchedParam(k, t, p) IN KInv(l) /\ Keeps(k, l)
<1>1. CASE Has(k, t, "READY")
  <2> DEFINE d == OsSchedTaskDeQueue(k, t)
             m == [d EXCEPT !.priority[t] = p]
             l == OsSchedTaskEnQueue(m, t)
  <2>1. /\ KInv(d) /\ Keeps(k, d) /\ d.status = [k.status EXCEPT ![t] = @ \ {"READY"}]
    BY DeQueuePreserves
  <2>2. ~Has(d, t, "READY") /\ ~Has(d, t, "UNUSED")
    BY <2>1, TCBs, KernelFields DEF Has, KInv
  <2> HIDE DEF d
  <2>3. KInv(m) /\ Keeps(d, m) /\ m.status = d.status
    BY <2>1, <2>2, PriorityChange
  <2> HIDE DEF m
  <2>4. KInv(l) /\ Keeps(m, l)
    BY <2>2, <2>3, EnQueuePreserves DEF Has
  <2>5. OsSchedModifyTaskSchedParam(k, t, p) = l
    BY <1>1 DEF OsSchedModifyTaskSchedParam, l, m, d
  <2> HIDE DEF l
  <2> QED BY <2>1, <2>3, <2>4, <2>5, KeepsTransitive
<1>2. CASE ~Has(k, t, "READY")
  BY <1>2, PriorityChange DEF OsSchedModifyTaskSchedParam
<1> QED BY <1>1, <1>2

LEMMA UnlinkType ==
  ASSUME NEW S, NEW lists \in [S -> Seq(Task)], NEW t
  PROVE  Unlink(lists, t) \in [S -> Seq(Task)]
<1>1. \A l \in S : Without(lists[l], t) \in Seq(Task)
  BY WithoutProperties
<1> QED BY <1>1 DEF Unlink

\* A delay or a wait that is over by time.
LEMMA WakePendTimePreserves ==
  ASSUME NEW k, KInv(k), k.sorted # <<>>
  PROVE  LET l == OsSchedWakePendTimeTask(k) IN KInv(l) /\ Keeps(k, l)
<1> DEFINE t == Head(k.sorted)
           wl == IF Has(k, t, "PEND") THEN Unlink(k.wait, t) ELSE k.wait
           to == IF Has(k, t, "PEND") THEN {"TIMEOUT"} ELSE {}
           flags == (k.status[t] \ {"PEND", "PEND_TIME", "DELAY"}) \cup to
           timed == [k EXCEPT !.sorted = Tail(@), !.wait = wl, !.status[t] = flags]
<1> SUFFICES ASSUME NEW l, l = OsSchedWakePendTimeTask(k)
             PROVE  KInv(l) /\ Keeps(k, l)
  OBVIOUS
<1>1. k \in Kernel /\ t \in Task /\ Tail(k.sorted) \in Seq(Task)
  BY KernelFields, TailProperties DEF KInv
<1>2. CASE ~Has(k, t, "PEND") /\ ~Has(k, t, "DELAY")
  <2>1. l = [k EXCEPT !.sorted = Tail(@)]
    BY <1>2 DEF OsSchedWakePendTimeTask
  <2>2. l \in Kernel
    BY <2>1, <1>1 DEF Kernel
  <2>3. /\ l.status = k.status /\ l.ready = k.ready /\ l.bitmap = k.bitmap
        /\ l.priority = k.priority /\ l.free = k.free /\ l.recycle = k.recycle
        /\ l.run = k.run /\ l.lock = k.lock
    BY <2>1, <1>1 DEF Kernel
  <2> QED BY <2>2, <2>3, ListsChange
<1>3. CASE Has(k, t, "PEND") \/ Has(k, t, "DELAY")
  <2>1. ~Has(k, t, "UNUSED")
    BY <1>1, <1>3 DEF KInv, StatusOK, Has
  <2>2. wl \in [WaitObj -> Seq(Task)]
    BY <1>1, KernelFields, UnlinkType
  <2>3. flags \in SUBSET Flag
    BY <1>1, KernelFields, TCBs DEF Flag
  <2>4. \A f \in {"READY", "UNUSED", "RUNNING"} : f \in flags <=> Has(k, t, f)
    BY DEF Has
  <2>5. l = IF Has(k, t, "SUSPEND") THEN timed ELSE OsSchedTaskEnQueue(timed, t)
    <3>1. [[k EXCEPT !.sorted = Tail(@)] EXCEPT !.status[t] = flags, !.wait = wl] = timed
      BY <1>1 DEF Kernel
    <3>2. [[k EXCEPT !.sorted = Tail(@)] EXCEPT
             !.status[t] = (@ \ {"PEND", "PEND_TIME", "DELAY"}) \cup to,
             !.wait = IF Has(k, t, "PEND") THEN Unlink(@, t) ELSE @]
             = [[k EXCEPT !.sorted = Tail(@)] EXCEPT !.status[t] = flags, !.wait = wl]
      BY <1>1 DEF Kernel
    <3> QED BY <1>3, <3>1, <3>2 DEF OsSchedWakePendTimeTask
  <2> HIDE DEF t, wl, to, flags
  <2>6. timed \in Kernel
    <3>1. [k EXCEPT !.sorted = Tail(@), !.wait = wl] \in Kernel
      BY <1>1, <2>2 DEF Kernel
    <3>2. timed = [[k EXCEPT !.sorted = Tail(@), !.wait = wl] EXCEPT !.status[t] = flags]
      OBVIOUS
    <3>3. \A m \in Kernel : [m EXCEPT !.status[t] = flags] \in Kernel
      BY <1>1, <2>3, StatusUpdate, TCBs
    <3> HIDE DEF timed
    <3> QED BY <3>1, <3>2, <3>3
  <2>7. /\ timed.status = [k.status EXCEPT ![t] = flags]
        /\ timed.ready = k.ready /\ timed.bitmap = k.bitmap /\ timed.priority = k.priority
        /\ timed.free = k.free /\ timed.recycle = k.recycle /\ timed.run = k.run
        /\ timed.lock = k.lock
    BY <1>1 DEF Kernel
  <2> HIDE DEF timed
  <2>8. KInv(timed) /\ Keeps(k, timed)
    BY <1>1, <2>1, <2>3, <2>4, <2>6, <2>7, FlagChange
  <2>9. ~Has(timed, t, "UNUSED")
    BY <2>1, <2>8, <1>1, TCBs DEF Keeps
  <2>10. /\ KInv(OsSchedTaskEnQueue(timed, t)) /\ Keeps(timed, OsSchedTaskEnQueue(timed, t))
    BY <1>1, <2>8, <2>9, EnQueuePreserves
  <2> QED BY <2>5, <2>8, <2>10, KeepsTransitive
<1> QED BY <1>2, <1>3

\* LOS_TaskDelete's OsSchedTaskExit: the task is in no ready queue afterwards.
LEMMA ExitPreserves ==
  ASSUME NEW k, KInv(k), NEW t \in Task, ~Has(k, t, "UNUSED")
  PROVE  LET l == OsSchedTaskExit(k, t) IN KInv(l) /\ Keeps(k, l) /\ ~Has(l, t, "READY")
<1> DEFINE off == IF Has(k, t, "READY") THEN OsSchedTaskDeQueue(k, t)
                  ELSE IF Has(k, t, "PEND")
                  THEN ClearFlag([k EXCEPT !.wait = Unlink(@, t)], t, {"PEND"})
                  ELSE k
           l == OsSchedTaskExit(k, t)
<1>1. k \in Kernel /\ t \in TCB
  BY TCBs DEF KInv
<1>2. KInv(off) /\ Keeps(k, off) /\ ~Has(off, t, "READY")
  <2>1. CASE Has(k, t, "READY")
    <3>1. off = OsSchedTaskDeQueue(k, t)
      BY <2>1
    <3>2. off.status = [k.status EXCEPT ![t] = @ \ {"READY"}] /\ KInv(off) /\ Keeps(k, off)
      BY <3>1, DeQueuePreserves
    <3> QED BY <3>2, <1>1, KernelFields DEF Has
  <2>2. CASE ~Has(k, t, "READY") /\ Has(k, t, "PEND")
    <3> DEFINE flags == k.status[t] \ {"PEND"}
               m == [k EXCEPT !.wait = Unlink(@, t)]
    <3>1. off = [m EXCEPT !.status[t] = flags]
      BY <2>2, <1>1 DEF ClearFlag, Kernel
    <3>2. m \in Kernel
      BY <1>1, KernelFields, UnlinkType DEF Kernel
    <3>3. /\ m.status = k.status /\ m.ready = k.ready /\ m.bitmap = k.bitmap
          /\ m.priority = k.priority /\ m.free = k.free /\ m.recycle = k.recycle
          /\ m.run = k.run /\ m.lock = k.lock
      BY <1>1 DEF Kernel
    <3>4. flags \in SUBSET Flag /\ \A f \in {"READY", "UNUSED", "RUNNING"} : f \in flags <=> Has(k, t, f)
      BY <1>1, KernelFields DEF Has
    <3> HIDE DEF m, flags, off
    <3>5. /\ off \in Kernel /\ off.status = [k.status EXCEPT ![t] = flags]
          /\ off.ready = k.ready /\ off.bitmap = k.bitmap /\ off.priority = k.priority
          /\ off.free = k.free /\ off.recycle = k.recycle
          /\ off.run = k.run /\ off.lock = k.lock
          /\ off.status[t] = flags
      BY <3>1, <3>2, <3>3, <3>4, <1>1, StatusUpdate
    <3> QED BY <3>4, <3>5, <2>2, FlagChange DEF Has
  <2>3. CASE ~Has(k, t, "READY") /\ ~Has(k, t, "PEND")
    BY <2>3 DEF Keeps
  <2> QED BY <2>1, <2>2, <2>3
<1>3. CASE Has(k, t, "DELAY") \/ Has(k, t, "PEND_TIME")
  <2> DEFINE flags == off.status[t] \ {"DELAY", "PEND_TIME"}
             m == [off EXCEPT !.sorted = Without(@, t)]
  <2>1. l = ClearFlag(OsDeleteSortLink(off, t), t, {"DELAY", "PEND_TIME"})
    BY <1>3 DEF OsSchedTaskExit
  <2> HIDE DEF off, l
  <2>2. off \in Kernel
    BY <1>2 DEF KInv
  <2>3. l = [m EXCEPT !.status[t] = flags]
    BY <2>1, <2>2 DEF ClearFlag, OsDeleteSortLink, Kernel
  <2>4. m \in Kernel
    <3>1. Without(off.sorted, t) \in Seq(Task)
      BY <2>2, KernelFields, WithoutProperties
    <3> QED BY <3>1, <2>2 DEF Kernel
  <2>5. /\ m.status = off.status /\ m.ready = off.ready /\ m.bitmap = off.bitmap
        /\ m.priority = off.priority /\ m.free = off.free /\ m.recycle = off.recycle
        /\ m.run = off.run /\ m.lock = off.lock
    BY <2>2 DEF Kernel
  <2>6. flags \in SUBSET Flag /\ \A f \in {"READY", "UNUSED", "RUNNING"} : f \in flags <=> Has(off, t, f)
    BY <2>2, <1>1, KernelFields DEF Has
  <2>7. ~Has(off, t, "UNUSED")
    BY <1>1, <1>2 DEF Keeps
  <2> HIDE DEF m, flags
  <2>8. /\ l \in Kernel /\ l.status = [off.status EXCEPT ![t] = flags] /\ l.status[t] = flags
        /\ l.ready = off.ready /\ l.bitmap = off.bitmap /\ l.priority = off.priority
        /\ l.free = off.free /\ l.recycle = off.recycle
        /\ l.run = off.run /\ l.lock = off.lock
    BY <2>3, <2>4, <2>5, <2>6, <1>1, StatusUpdate
  <2>9. KInv(l) /\ Keeps(off, l)
    BY <2>6, <2>7, <2>8, <1>2, FlagChange
  <2>10. ~Has(l, t, "READY")
    BY <2>6, <2>8, <1>2 DEF Has
  <2> QED BY <2>9, <2>10, <1>2, KeepsTransitive DEF l
<1>4. CASE ~(Has(k, t, "DELAY") \/ Has(k, t, "PEND_TIME"))
  <2>1. l = off
    BY <1>4 DEF OsSchedTaskExit
  <2> QED BY <2>1, <1>2
<1> QED BY <1>3, <1>4

LEMMA TimeSlicePreserves ==
  ASSUME NEW k, KInv(k), NEW spent \in BOOLEAN
  PROVE  LET l == OsTimeSliceUpdate(k, spent) IN
         KInv(l) /\ Keeps(k, l) /\ l.sorted = k.sorted /\ l.status = k.status
<1>1. CASE k.run \in Task
  <2> DEFINE l == [k EXCEPT !.slice[k.run] = @ /\ ~spent]
  <2>1. k \in Kernel
    BY DEF KInv
  <2>2. (k.slice[k.run] /\ ~spent) \in BOOLEAN
    OBVIOUS
  <2>3. l \in Kernel
    BY <1>1, <2>1, <2>2 DEF Kernel
  <2>4. /\ l.status = k.status /\ l.ready = k.ready /\ l.bitmap = k.bitmap
        /\ l.priority = k.priority /\ l.free = k.free /\ l.recycle = k.recycle
        /\ l.run = k.run /\ l.lock = k.lock /\ l.sorted = k.sorted
    BY <2>1 DEF Kernel
  <2>5. OsTimeSliceUpdate(k, spent) = l
    BY <1>1 DEF OsTimeSliceUpdate
  <2> HIDE DEF l
  <2> QED BY <2>3, <2>4, <2>5, ListsChange
<1>2. CASE k.run \notin Task
  BY <1>2 DEF OsTimeSliceUpdate, Keeps
<1> QED BY <1>1, <1>2

\* The task that leaves the CPU goes to the sort link, to its ready queue or
\* nowhere.
LEMMA LeaveCPUPreserves ==
  ASSUME NEW k, KInv(k), k.run \in Task => ~Has(k, k.run, "UNUSED"),
         NEW pos \in 1..(Len(k.sorted) + 1)
  PROVE  LET l == LeaveCPU(k, pos) IN KInv(l) /\ Keeps(k, l)
<1> DEFINE t == k.run
           l == LeaveCPU(k, pos)
<1>1. k \in Kernel /\ t \in TCB
  BY KernelFields DEF KInv
<1>2. CASE Has(k, t, "PEND_TIME") \/ Has(k, t, "DELAY")
  <2>1. t \in Task
    BY <1>1, <1>2, TCBs DEF KInv, StatusOK, Has
  <2>2. l = [k EXCEPT !.sorted = InsertAt(@, pos, t)]
    BY <1>2 DEF LeaveCPU, OsAdd2SortLink
  <2>3. InsertAt(k.sorted, pos, t) \in Seq(Task)
    BY <1>1, <2>1, KernelFields, InsertAtType
  <2> HIDE DEF t
  <2>4. l \in Kernel
    BY <2>2, <2>3, <1>1 DEF Kernel
  <2>5. /\ l.status = k.status /\ l.ready = k.ready /\ l.bitmap = k.bitmap
        /\ l.priority = k.priority /\ l.free = k.free /\ l.recycle = k.recycle
        /\ l.run = k.run /\ l.lock = k.lock
    BY <2>2, <1>1 DEF Kernel
  <2> HIDE DEF l
  <2>6. KInv(l) /\ Keeps(k, l)
    BY <2>4, <2>5, ListsChange
  <2> QED BY <2>6 DEF l
<1>3. CASE /\ ~(Has(k, t, "PEND_TIME") \/ Has(k, t, "DELAY"))
           /\ k.status[t] \cap {"PEND", "SUSPEND", "UNUSED"} = {}
  <2>1. t # Dead
    BY <1>3 DEF KInv, StatusOK, Has
  <2>2. t \in Task \cup {Idle}
    BY <1>1, <2>1, TCBs
  <2>3. ~Has(k, t, "UNUSED")
    BY <1>3 DEF Has
  <2>4. l = OsSchedTaskEnQueue(k, t)
    BY <1>3 DEF LeaveCPU
  <2> HIDE DEF t
  <2> QED BY <2>2, <2>3, <2>4, EnQueuePreserves
<1>4. CASE /\ ~(Has(k, t, "PEND_TIME") \/ Has(k, t, "DELAY"))
           /\ k.status[t] \cap {"PEND", "SUSPEND", "UNUSED"} # {}
  <2>1. l = k
    BY <1>4 DEF LeaveCPU
  <2> QED BY <2>1 DEF Keeps
<1> QED BY <1>2, <1>3, <1>4

\* The bitmap leads to a task that is ready, or there is none.
LEMMA TopTaskIsReady ==
  ASSUME NEW k, KInv(k)
  PROVE  \/ OsGetTopTask(k) = Idle
         \/ OsGetTopTask(k) \in Task /\ Has(k, OsGetTopTask(k), "READY")
<1>1. CASE k.bitmap = {}
  BY <1>1 DEF OsGetTopTask
<1>2. CASE k.bitmap # {}
  <2> DEFINE p == CHOOSE p \in k.bitmap : \A q \in k.bitmap : p <= q
  <2>1. k \in Kernel /\ k.bitmap \in SUBSET Prio /\ k.ready \in [Prio -> Seq(Task)]
    BY KernelFields DEF KInv
  <2>2. k.bitmap \in SUBSET Nat
    BY <2>1, PrioAssumption
  <2>3. p \in k.bitmap
    BY <1>2, <2>2, HighestPriority
  <2>4. OsGetTopTask(k) = Head(k.ready[p])
    BY <1>2 DEF OsGetTopTask
  <2> HIDE DEF p
  <2>5. k.ready[p] \in Seq(Task) /\ k.ready[p] # <<>>
    BY <2>1, <2>3 DEF KInv, ReadyOK
  <2>6. Head(k.ready[p]) \in Task /\ In(Head(k.ready[p]), k.ready[p])
    BY <2>5, TailProperties
  <2>7. Has(k, Head(k.ready[p]), "READY")
    BY <2>1, <2>3, <2>6 DEF KInv, ReadyOK
  <2> QED BY <2>4, <2>6, <2>7
<1> QED BY <1>1, <1>2

\* Setting and clearing flags of one TCB changes nothing else.
LEMMA SetFlagUpdate ==
  ASSUME NEW k \in Kernel, NEW t \in TCB, NEW flags \in SUBSET Flag
  PROVE  LET l == SetFlag(k, t, flags) IN
         /\ l \in Kernel
         /\ \A u \in TCB : l.status[u] = IF u = t THEN k.status[u] \cup flags ELSE k.status[u]
         /\ l.ready = k.ready /\ l.bitmap = k.bitmap /\ l.priority = k.priority
         /\ l.free = k.free /\ l.recycle = k.recycle
         /\ l.run = k.run /\ l.lock = k.lock /\ l.halted = k.halted
<1> DEFINE f == k.status[t] \cup flags
           l == SetFlag(k, t, flags)
<1>1. f \in SUBSET Flag
  BY KernelFields
<1>2. l = [k EXCEPT !.status[t] = f]
  BY DEF SetFlag
<1> HIDE DEF f, l
<1>3. /\ l \in Kernel
      /\ \A u \in TCB : l.status[u] = IF u = t THEN f ELSE k.status[u]
      /\ l.ready = k.ready /\ l.bitmap = k.bitmap /\ l.priority = k.priority
      /\ l.free = k.free /\ l.recycle = k.recycle
      /\ l.run = k.run /\ l.lock = k.lock /\ l.halted = k.halted
  BY <1>1, <1>2, StatusUpdate
<1>4. \A u \in TCB : l.status[u] = IF u = t THEN k.status[u] \cup flags ELSE k.status[u]
  BY <1>3 DEF f
<1> QED BY <1>3, <1>4 DEF l

LEMMA ClearFlagUpdate ==
  ASSUME NEW k \in Kernel, NEW t \in TCB, NEW flags \in SUBSET Flag
  PROVE  LET l == ClearFlag(k, t, flags) IN
         /\ l \in Kernel
         /\ \A u \in TCB : l.status[u] = IF u = t THEN k.status[u] \ flags ELSE k.status[u]
         /\ l.ready = k.ready /\ l.bitmap = k.bitmap /\ l.priority = k.priority
         /\ l.free = k.free /\ l.recycle = k.recycle
         /\ l.run = k.run /\ l.lock = k.lock /\ l.halted = k.halted
<1> DEFINE f == k.status[t] \ flags
           l == ClearFlag(k, t, flags)
<1>1. f \in SUBSET Flag
  BY KernelFields
<1>2. l = [k EXCEPT !.status[t] = f]
  BY DEF ClearFlag
<1> HIDE DEF f, l
<1>3. /\ l \in Kernel
      /\ \A u \in TCB : l.status[u] = IF u = t THEN f ELSE k.status[u]
      /\ l.ready = k.ready /\ l.bitmap = k.bitmap /\ l.priority = k.priority
      /\ l.free = k.free /\ l.recycle = k.recycle
      /\ l.run = k.run /\ l.lock = k.lock /\ l.halted = k.halted
  BY <1>1, <1>2, StatusUpdate
<1>4. \A u \in TCB : l.status[u] = IF u = t THEN k.status[u] \ flags ELSE k.status[u]
  BY <1>3 DEF f
<1> QED BY <1>3, <1>4 DEF l

\* RUNNING moves from one TCB to another one that exists.
LEMMA SwapPreserves ==
  ASSUME NEW k, KInv(k), NEW old \in TCB, NEW new \in Task \cup {Idle},
         ~Has(k, new, "UNUSED")
  PROVE  LET l == [SetFlag(ClearFlag(k, old, {"RUNNING"}), new, {"RUNNING"})
                     EXCEPT !.run = new] IN
         /\ KInv(l) /\ l.run = new /\ Has(l, new, "RUNNING")
         /\ l.free = k.free /\ l.recycle = k.recycle /\ l.lock = k.lock
         /\ \A u \in TCB : Has(l, u, "UNUSED") <=> Has(k, u, "UNUSED")
<1> DEFINE off == ClearFlag(k, old, {"RUNNING"})
           on  == SetFlag(off, new, {"RUNNING"})
           l   == [on EXCEPT !.run = new]
<1>1. k \in Kernel /\ new \in TCB /\ {"RUNNING"} \in SUBSET Flag
  BY TCBs DEF KInv, Flag
<1>2. /\ off \in Kernel
      /\ \A u \in TCB : off.status[u] = IF u = old THEN k.status[u] \ {"RUNNING"} ELSE k.status[u]
      /\ off.ready = k.ready /\ off.bitmap = k.bitmap /\ off.priority = k.priority
      /\ off.free = k.free /\ off.recycle = k.recycle /\ off.lock = k.lock
  BY <1>1, ClearFlagUpdate
<1> HIDE DEF off
<1>3. /\ on \in Kernel
      /\ \A u \in TCB : on.status[u] = IF u = new THEN off.status[u] \cup {"RUNNING"}
                                                  ELSE off.status[u]
      /\ on.ready = off.ready /\ on.bitmap = off.bitmap /\ on.priority = off.priority
      /\ on.free = off.free /\ on.recycle = off.recycle /\ on.lock = off.lock
  <2>1. off \in Kernel
    BY <1>2
  <2>2. new \in TCB /\ {"RUNNING"} \in SUBSET Flag
    BY <1>1
  <2> QED BY <2>1, <2>2, SetFlagUpdate
<1> HIDE DEF on
<1>4. /\ l \in Kernel /\ l.run = new /\ l.status = on.status
      /\ l.ready = on.ready /\ l.bitmap = on.bitmap /\ l.priority = on.priority
      /\ l.free = on.free /\ l.recycle = on.recycle /\ l.lock = on.lock
  BY <1>1, <1>3 DEF Kernel
<1> HIDE DEF l
<1>5. \A u \in TCB : /\ l.status[u] \ {"RUNNING"} = k.status[u] \ {"RUNNING"}
                     /\ u # new => l.status[u] \subseteq k.status[u]
  <2> SUFFICES ASSUME NEW u \in TCB
               PROVE  /\ l.status[u] \ {"RUNNING"} = k.status[u] \ {"RUNNING"}
                      /\ u # new => l.status[u] \subseteq k.status[u]
    OBVIOUS
  <2>1. off.status[u] = k.status[u] \/ off.status[u] = k.status[u] \ {"RUNNING"}
    BY <1>2
  <2>2. CASE u = new
    <3>1. l.status[u] = off.status[u] \cup {"RUNNING"}
      BY <2>2, <1>3, <1>4
    <3> QED BY <2>1, <2>2, <3>1
  <2>3. CASE u # new
    <3>1. l.status[u] = off.status[u]
      BY <2>3, <1>3, <1>4
    <3> QED BY <2>1, <3>1
  <2> QED BY <2>2, <2>3
<1>6. \A u \in TCB : /\ Has(l, u, "UNUSED") <=> Has(k, u, "UNUSED")
                     /\ Has(l, u, "READY") <=> Has(k, u, "READY")
  BY <1>5 DEF Has
<1>7. Has(l, new, "RUNNING")
  BY <1>1, <1>3, <1>4 DEF Has
<1>8. ReadyOK(l)
  <2>1. l.ready = k.ready /\ l.bitmap = k.bitmap /\ l.priority = k.priority
    BY <1>2, <1>3, <1>4
  <2> QED BY <2>1, <1>6, TCBs DEF KInv, ReadyOK
<1>9. StatusOK(l)
  <2>1. ASSUME NEW u \in Task, Has(l, u, "UNUSED") PROVE l.status[u] = {"UNUSED"}
    <3>1. u \in TCB /\ Has(k, u, "UNUSED") /\ u # new
      BY <2>1, <1>6, TCBs
    <3>2. k.status[u] = {"UNUSED"}
      BY <3>1 DEF KInv, StatusOK
    <3> QED BY <3>1, <3>2, <2>1, <1>5 DEF Has
  <2>2. l.status[Idle] \subseteq {"READY", "RUNNING"}
    <3>1. k.status[Idle] \subseteq {"READY", "RUNNING"}
      BY DEF KInv, StatusOK
    <3>2. l.status[Idle] \ {"RUNNING"} = k.status[Idle] \ {"RUNNING"}
      BY <1>5, TCBs
    <3> QED BY <3>1, <3>2
  <2>3. Has(l, Dead, "UNUSED") /\ l.status[Dead] \subseteq {"UNUSED", "RUNNING"}
    <3>1. Has(k, Dead, "UNUSED") /\ k.status[Dead] \subseteq {"UNUSED", "RUNNING"}
      BY DEF KInv, StatusOK
    <3>2. l.status[Dead] \ {"RUNNING"} = k.status[Dead] \ {"RUNNING"} /\ Has(l, Dead, "UNUSED")
      BY <3>1, <1>5, <1>6, TCBs
    <3> QED BY <3>1, <3>2
  <2> QED BY <2>1, <2>2, <2>3 DEF StatusOK
<1>10. l.free = k.free /\ l.recycle = k.recycle /\ l.lock = k.lock
  BY <1>2, <1>3, <1>4
<1> QED BY <1>4, <1>6, <1>7, <1>8, <1>9, <1>10 DEF KInv, l, on, off

\* The context switch: the new task runs, and it exists.
LEMMA SwitchPreserves ==
  ASSUME NEW k, KInv(k), k.run \in Task => ~Has(k, k.run, "UNUSED"),
         NEW spent \in BOOLEAN, NEW pos \in 1..(Len(k.sorted) + 1)
  PROVE  LET l == OsSchedTaskSwitch(k, spent, pos) IN
         /\ KInv(l)
         /\ l.free = k.free /\ l.recycle = k.recycle /\ l.lock = k.lock
         /\ \A u \in TCB : Has(l, u, "UNUSED") <=> Has(k, u, "UNUSED")
         /\ l.run \in Task \cup {Idle} /\ ~Has(l, l.run, "UNUSED") /\ Has(l, l.run, "RUNNING")
<1> DEFINE sl   == OsTimeSliceUpdate(k, spent)
           left == LeaveCPU(sl, pos)
           new  == OsGetTopTask(left)
           swap == [SetFlag(ClearFlag(left, k.run, {"RUNNING"}), new, {"RUNNING"})
                      EXCEPT !.run = new]
           l    == OsSchedTaskDeQueue(swap, new)
<1>1. KInv(sl) /\ Keeps(k, sl) /\ sl.sorted = k.sorted /\ sl.status = k.status
  BY TimeSlicePreserves
<1>2. KInv(left) /\ Keeps(k, left)
  <2> HIDE DEF sl
  <2>1. sl.run \in Task => ~Has(sl, sl.run, "UNUSED")
    BY <1>1 DEF Keeps, Has
  <2>2. KInv(left) /\ Keeps(sl, left)
    BY <1>1, <2>1, LeaveCPUPreserves
  <2> QED BY <1>1, <2>2, KeepsTransitive
<1>3. OsSchedTaskSwitch(k, spent, pos) = l
  BY DEF OsSchedTaskSwitch
<1> HIDE DEF left
<1>4. k.run \in TCB
  BY KernelFields DEF KInv
<1>5. new = Idle \/ (new \in Task /\ Has(left, new, "READY"))
  BY <1>2, TopTaskIsReady
<1>6. new \in Task \cup {Idle} /\ new \in TCB /\ ~Has(left, new, "UNUSED")
  BY <1>2, <1>5, TCBs DEF KInv, StatusOK, Has
<1> HIDE DEF new
<1>7. /\ KInv(swap) /\ swap.run = new /\ Has(swap, new, "RUNNING")
      /\ swap.free = left.free /\ swap.recycle = left.recycle /\ swap.lock = left.lock
      /\ \A u \in TCB : Has(swap, u, "UNUSED") <=> Has(left, u, "UNUSED")
  BY <1>2, <1>4, <1>6, SwapPreserves
<1> HIDE DEF swap
<1>8. KInv(l) /\ Keeps(swap, l)
  BY <1>6, <1>7, DeQueuePreserves
<1> HIDE DEF l
<1>9. \A u \in TCB : Has(l, u, "UNUSED") <=> Has(k, u, "UNUSED")
  BY <1>2, <1>7, <1>8 DEF Keeps
<1>10. /\ l.free = k.free /\ l.recycle = k.recycle /\ l.lock = k.lock
       /\ l.run = new /\ Has(l, new, "RUNNING") /\ ~Has(l, new, "UNUSED")
  BY <1>2, <1>6, <1>7, <1>8 DEF Keeps
<1> QED BY <1>3, <1>6, <1>8, <1>9, <1>10

-----------------------------------------------------------------------------
(* The life of the TCBs and the inductive invariant.                       *)

\* The life cycle of the TCBs in kernel state k, where the tasks' services are
\* at p and the TCBs in creation are c.
Life(k, p, c) ==
  /\ Distinct(k.free) /\ Distinct(k.recycle)
  /\ \A t \in Task :
       /\ ~(In(t, k.free) /\ In(t, k.recycle))
       /\ Pooled(k, t) => Has(k, t, "UNUSED")
       /\ p[t] = "none" <=> Has(k, t, "UNUSED")
       /\ c[t] # NoTask <=> p[t] \in {"alloc", "enq"}
       /\ p[t] = "alloc" => Has(k, c[t], "UNUSED") /\ ~Pooled(k, c[t])
       /\ p[t] = "enq" => ~Has(k, c[t], "UNUSED")
       /\ \A u \in Task : c[t] = c[u] /\ c[t] # NoTask => t = u

\* The running task exists and says so.
RunsOK(k) == Has(k, k.run, "RUNNING") /\ (k.run \in Task => ~Has(k, k.run, "UNUSED"))

\* The inductive invariant, over any values of the variables.
Inv(k, p, c) ==
  /\ KInv(k) /\ RunsOK(k) /\ Life(k, p, c)
  /\ p \in [TCB -> PC] /\ c \in [Task -> Task \cup {NoTask}]

TaskInv == Inv(kern, pc, child) /\ pendSV \in BOOLEAN /\ tick \in Tick

-----------------------------------------------------------------------------
(* Steps that leave every TCB's life as it is.                             *)

\* Kernel state l is k after a step that creates and deletes nothing.
Frame(k, l) ==
  /\ KInv(l) /\ RunsOK(l)
  /\ l.free = k.free /\ l.recycle = k.recycle
  /\ \A u \in TCB : Has(l, u, "UNUSED") <=> Has(k, u, "UNUSED")

LEMMA KeepsFrame ==
  ASSUME NEW k, KInv(k), RunsOK(k), NEW l, KInv(l), Keeps(k, l)
  PROVE  Frame(k, l)
<1>1. k.run \in TCB
  BY KernelFields DEF KInv
<1> QED BY <1>1, TCBs DEF Frame, Keeps, RunsOK

\* A handler that fails an assertion leaves the state it found.
LEMMA CommittedFrame ==
  ASSUME NEW k, KInv(k), RunsOK(k), NEW l, Frame(k, l)
  PROVE  Frame(k, Committed(k, l))
<1> DEFINE h == [k EXCEPT !.halted = TRUE]
<1>1. h \in Kernel
  BY DEF Kernel, KInv
<1>2. /\ h.status = k.status /\ h.ready = k.ready /\ h.bitmap = k.bitmap
      /\ h.priority = k.priority /\ h.free = k.free /\ h.recycle = k.recycle
      /\ h.run = k.run /\ h.lock = k.lock
  BY DEF KInv, Kernel
<1>3. KInv(h) /\ Keeps(k, h)
  <2> HIDE DEF h
  <2> QED BY <1>1, <1>2, ListsChange
<1>4. Frame(k, h)
  BY <1>3, KeepsFrame
<1> QED BY <1>4 DEF Committed

\* The kernel moves on and the services stay where they are.
LEMMA FrameLife ==
  ASSUME NEW k, NEW p, NEW c, Inv(k, p, c), NEW l, Frame(k, l)
  PROVE  Inv(l, p, c)
<1>1. Life(l, p, c)
  <2>1. \A t \in Task : c[t] # NoTask => c[t] \in TCB
    BY TCBs DEF Inv
  <2>2. \A t \in Task : p[t] \in {"alloc", "enq"} => c[t] \in TCB
    BY <2>1 DEF Inv, Life
  <2> QED BY <2>2, TCBs DEF Inv, Life, Frame, Pooled
<1> QED BY <1>1 DEF Inv, Frame

\* A service at a place that is neither the birth nor the death of a task
\* moves to another such place.
Placid == PC \ {"none", "alloc", "enq"}

LEMMA PlaceLife ==
  ASSUME NEW k, NEW p, NEW c, Inv(k, p, c), NEW r \in TCB, NEW place \in Placid,
         p[r] \in Placid
  PROVE  Inv(k, [p EXCEPT ![r] = place], c)
<1> DEFINE q == [p EXCEPT ![r] = place]
<1>1. q \in [TCB -> PC]
  BY DEF Inv, Placid
<1>2. \A t \in Task : /\ q[t] = "none" <=> p[t] = "none"
                      /\ q[t] = "alloc" <=> p[t] = "alloc"
                      /\ q[t] = "enq" <=> p[t] = "enq"
  BY TCBs DEF Inv, Placid, PC
<1> HIDE DEF q
<1>3. Life(k, q, c)
  BY <1>2 DEF Inv, Life
<1> QED BY <1>1, <1>3 DEF Inv, q

-----------------------------------------------------------------------------
(* Birth and death of a TCB.                                               *)

\* A TCB of the pool becomes a suspended task.
LEMMA NewTaskPreserves ==
  ASSUME NEW k, KInv(k), RunsOK(k), NEW t \in Task, Has(k, t, "UNUSED"), NEW p \in Prio
  PROVE  LET l == OsNewTaskInit(k, t, p) IN
         /\ KInv(l) /\ RunsOK(l)
         /\ l.free = k.free /\ l.recycle = k.recycle /\ l.run = k.run /\ l.lock = k.lock
         /\ \A u \in TCB : Has(l, u, "UNUSED") <=> Has(k, u, "UNUSED") /\ u # t
<1> DEFINE l == OsNewTaskInit(k, t, p)
<1>1. k \in Kernel /\ t \in TCB
  BY TCBs DEF KInv
<1>2. /\ l.status = [k.status EXCEPT ![t] = {"SUSPEND"}]
      /\ l.priority = [k.priority EXCEPT ![t] = p]
      /\ l.ready = k.ready /\ l.bitmap = k.bitmap
      /\ l.free = k.free /\ l.recycle = k.recycle /\ l.run = k.run /\ l.lock = k.lock
  BY <1>1 DEF OsNewTaskInit, Kernel
<1>3. l \in Kernel
  BY <1>1 DEF OsNewTaskInit, Kernel, Flag
<1> HIDE DEF l
<1>4. k.status[t] = {"UNUSED"}
  BY DEF KInv, StatusOK
<1>5. /\ l.status[t] = {"SUSPEND"}
      /\ \A u \in TCB : u # t => l.status[u] = k.status[u]
  BY <1>1, <1>2, KernelFields
<1>6. /\ \A u \in TCB : Has(l, u, "UNUSED") <=> Has(k, u, "UNUSED") /\ u # t
      /\ \A u \in TCB : Has(l, u, "READY") <=> Has(k, u, "READY")
      /\ \A u \in TCB : Has(l, u, "RUNNING") <=> Has(k, u, "RUNNING")
  BY <1>4, <1>5 DEF Has
<1>7. ~Has(k, t, "READY")
  BY <1>4 DEF Has
<1>8. \A u \in Task : u # t => l.priority[u] = k.priority[u]
  BY <1>1, <1>2, KernelFields
<1>9. ReadyOK(l)
  BY <1>2, <1>6, <1>7, <1>8, TCBs DEF KInv, ReadyOK
<1>10. StatusOK(l)
  <2>1. t # Idle /\ t # Dead
    BY TCBs
  <2> QED BY <2>1, <1>5, <1>6, TCBs DEF KInv, StatusOK
<1>11. RunsOK(l)
  <2>1. k.run \in TCB
    BY <1>1, KernelFields
  <2> QED BY <2>1, <1>2, <1>6 DEF RunsOK
<1> QED BY <1>2, <1>3, <1>6, <1>9, <1>10, <1>11 DEF KInv, l

\* A task leaves every list and its TCB becomes unused.
LEMMA ErasedPreserves ==
  ASSUME NEW k, KInv(k), NEW t \in Task, ~Has(k, t, "UNUSED")
  PROVE  LET l == Erased(k, t) IN
         /\ KInv(l)
         /\ l.free = k.free /\ l.recycle = k.recycle /\ l.run = k.run /\ l.lock = k.lock
         /\ \A u \in TCB : Has(l, u, "UNUSED") <=> Has(k, u, "UNUSED") \/ u = t
         /\ \A u \in TCB : u # t => (Has(l, u, "RUNNING") <=> Has(k, u, "RUNNING"))
<1> DEFINE m == OsSchedTaskExit(k, t)
           l == Erased(k, t)
           f == {"UNUSED"}
<1>1. KInv(m) /\ Keeps(k, m) /\ ~Has(m, t, "READY")
  BY ExitPreserves
<1>2. l = WithStatus(m, t, f)
  BY DEF Erased, WithStatus
<1>3. m \in Kernel /\ t \in TCB /\ f \in SUBSET Flag
  BY <1>1, TCBs DEF KInv, Flag
<1>4. f = {"UNUSED"}
  OBVIOUS
<1> HIDE DEF l, m, f
<1>5. /\ l \in Kernel
      /\ l.status = [m.status EXCEPT ![t] = f]
      /\ l.ready = m.ready /\ l.bitmap = m.bitmap /\ l.priority = m.priority
      /\ l.free = m.free /\ l.recycle = m.recycle /\ l.run = m.run /\ l.lock = m.lock
  BY <1>2, <1>3, StatusUpdated
<1>6. /\ l.status[t] = {"UNUSED"}
      /\ \A u \in TCB : u # t => l.status[u] = m.status[u]
  BY <1>3, <1>4, <1>5, KernelFields
<1>7. /\ \A u \in TCB : Has(l, u, "UNUSED") <=> Has(m, u, "UNUSED") \/ u = t
      /\ \A u \in TCB : Has(l, u, "READY") <=> Has(m, u, "READY")
      /\ \A u \in TCB : u # t => (Has(l, u, "RUNNING") <=> Has(m, u, "RUNNING"))
  BY <1>1, <1>6 DEF Has
<1>8. ReadyOK(l)
  BY <1>1, <1>5, <1>7, TCBs DEF KInv, ReadyOK
<1>9. StatusOK(l)
  <2>1. t # Idle /\ t # Dead
    BY TCBs
  <2> QED BY <2>1, <1>1, <1>6, <1>7, TCBs DEF KInv, StatusOK
<1> QED BY <1>1, <1>5, <1>7, <1>8, <1>9 DEF KInv, Keeps, l

\* A change of the pools only.
LEMMA PoolChange ==
  ASSUME NEW k, KInv(k), NEW l \in Kernel,
         l.status = k.status, l.ready = k.ready, l.bitmap = k.bitmap,
         l.priority = k.priority
  PROVE  KInv(l)
BY DEF KInv, ReadyOK, StatusOK, Has

\* OsRecyleFinishedTask moves the finished tasks' TCBs to the free list.
LEMMA RecyclePreserves ==
  ASSUME NEW k, NEW p, NEW c, Inv(k, p, c)
  PROVE  LET l == OsRecyleFinishedTask(k) IN
         /\ Inv(l, p, c) /\ l.run = k.run /\ l.recycle = <<>> /\ l.status = k.status
<1> DEFINE f == Reverse(k.recycle) \o k.free
           l == OsRecyleFinishedTask(k)
<1>1. k.free \in Seq(Task) /\ k.recycle \in Seq(Task)
  BY KernelFields DEF Inv, KInv
<1>2. /\ Reverse(k.recycle) \in Seq(Task)
      /\ \A u : In(u, Reverse(k.recycle)) <=> In(u, k.recycle)
      /\ Distinct(Reverse(k.recycle))
  BY <1>1, ReverseProperties DEF Inv, Life
<1>3. /\ f \in Seq(Task)
      /\ \A u : In(u, f) <=> In(u, k.recycle) \/ In(u, k.free)
      /\ Distinct(f)
  <2>1. \A u \in Task : ~(In(u, Reverse(k.recycle)) /\ In(u, k.free))
    BY <1>2 DEF Inv, Life
  <2>2. Distinct(k.free)
    BY DEF Inv, Life
  <2> HIDE DEF f
  <2>3. f = Reverse(k.recycle) \o k.free
    BY DEF f
  <2> QED BY <2>1, <2>2, <2>3, <1>1, <1>2, ConcatIn
<1> HIDE DEF f
<1>4. <<>> \in Seq(Task) /\ (\A u : ~In(u, <<>>)) /\ Distinct(<<>>)
  BY DEF In, Distinct
<1>5. l = [k EXCEPT !.free = f, !.recycle = <<>>]
  BY DEF OsRecyleFinishedTask, f
<1> HIDE DEF l
<1>6. /\ KInv(l) /\ l.free = f /\ l.recycle = <<>>
      /\ l.status = k.status /\ l.run = k.run
  <2>1. KInv(k)
    BY DEF Inv
  <2>2. /\ l \in Kernel /\ l.free = f /\ l.recycle = <<>>
        /\ l.status = k.status /\ l.run = k.run
        /\ l.ready = k.ready /\ l.bitmap = k.bitmap /\ l.priority = k.priority
    BY <2>1, <1>3, <1>4, <1>5 DEF Kernel, KInv
  <2> QED BY <2>1, <2>2, PoolChange
<1>7. \A u \in Task : Pooled(l, u) <=> Pooled(k, u)
  BY <1>3, <1>4, <1>6 DEF Pooled
<1>8. \A t \in Task : p[t] = "alloc" => c[t] \in Task
  BY DEF Inv, Life
<1>9. Life(l, p, c)
  BY <1>3, <1>4, <1>6, <1>7, <1>8 DEF Inv, Life, Has
<1>10. RunsOK(l)
  BY <1>6 DEF Inv, RunsOK, Has
<1> QED BY <1>6, <1>9, <1>10 DEF Inv, l

-----------------------------------------------------------------------------
(* The actions.                                                            *)

LEMMA TakePreserves ==
  ASSUME TaskInv, TaskCreateTake
  PROVE  TaskInv'
<1> DEFINE k == OsRecyleFinishedTask(kern)
           t == Head(k.free)
           r == kern.run
           l == [k EXCEPT !.free = Tail(@)]
           p == [pc EXCEPT ![r] = "alloc"]
           c == [child EXCEPT ![r] = t]
<1>1. /\ r \in Task /\ pc[r] = "run" /\ k.free # <<>>
      /\ kern' = l /\ child' = c /\ pc' = p
      /\ pendSV' = pendSV /\ tick' = tick
  BY DEF TaskCreateTake, Running
<1>2. Inv(k, pc, child) /\ k.run = r /\ k.recycle = <<>>
  BY RecyclePreserves DEF TaskInv
<1> HIDE DEF k, r
<1>3. k \in Kernel /\ k.free \in Seq(Task) /\ k.recycle \in Seq(Task) /\ Distinct(k.free)
  BY <1>2, KernelFields DEF Inv, KInv, Life
<1>4. /\ t \in Task /\ Tail(k.free) \in Seq(Task) /\ In(t, k.free)
      /\ Distinct(Tail(k.free)) /\ ~In(t, Tail(k.free))
      /\ \A u : In(u, Tail(k.free)) => In(u, k.free)
  BY <1>1, <1>3, TailProperties
<1> HIDE DEF t
<1>5. l = [k EXCEPT !.free = Tail(k.free), !.recycle = k.recycle]
  BY <1>3 DEF Kernel
<1> HIDE DEF l
<1>6. /\ KInv(l) /\ l.free = Tail(k.free) /\ l.recycle = k.recycle
      /\ l.status = k.status /\ l.run = r
  <2>1. KInv(k)
    BY <1>2 DEF Inv
  <2>2. /\ l \in Kernel /\ l.free = Tail(k.free) /\ l.recycle = k.recycle
        /\ l.status = k.status /\ l.run = k.run
        /\ l.ready = k.ready /\ l.bitmap = k.bitmap /\ l.priority = k.priority
    BY <1>3, <1>4, <1>5 DEF Kernel, KInv
  <2> QED BY <2>1, <2>2, <1>2, PoolChange
<1>7. RunsOK(l)
  BY <1>2, <1>6 DEF Inv, RunsOK, Has
<1>8. ~In(t, k.recycle)
  BY <1>2, <1>4 DEF Inv, Life
<1>9. ~Pooled(l, t) /\ Has(l, t, "UNUSED") /\ \A u : Pooled(l, u) => Pooled(k, u)
  BY <1>2, <1>4, <1>6, <1>8 DEF Pooled, Inv, Life, Has
<1>10. \A u \in Task : child[u] # t
  <2>1. \A u \in Task : child[u] = t => Pooled(k, child[u]) /\ Has(k, child[u], "UNUSED")
    BY <1>2, <1>4 DEF Pooled, Inv, Life
  <2>2. \A u \in Task : child[u] = t => pc[u] \in {"alloc", "enq"}
    BY <1>2, <1>4 DEF Inv, Life, Task, NoTask
  <2> QED BY <2>1, <2>2, <1>2 DEF Inv, Life
<1>11. /\ p[r] = "alloc" /\ c[r] = t
       /\ \A u \in Task : u # r => p[u] = pc[u] /\ c[u] = child[u]
       /\ p \in [TCB -> PC] /\ c \in [Task -> Task \cup {NoTask}]
  BY <1>1, <1>2, <1>4, TCBs DEF Inv, PC
<1> HIDE DEF p, c
<1>12. t # NoTask /\ ~Has(l, r, "UNUSED")
  BY <1>1, <1>4, <1>6, <1>7 DEF Task, NoTask, RunsOK
<1>13. \A u : Has(l, u, "UNUSED") <=> Has(k, u, "UNUSED")
  BY <1>6 DEF Has
<1>14. Life(l, p, c)
  <2>1. Distinct(l.free) /\ Distinct(l.recycle)
    BY <1>2, <1>4, <1>6 DEF Inv, Life
  <2>2. ASSUME NEW u \in Task
        PROVE  /\ ~(In(u, l.free) /\ In(u, l.recycle))
               /\ Pooled(l, u) => Has(l, u, "UNUSED")
    BY <1>2, <1>4, <1>6, <1>9, <1>13 DEF Inv, Life
  <2>3. ASSUME NEW u \in Task, u # r
        PROVE  /\ p[u] = "none" <=> Has(l, u, "UNUSED")
               /\ c[u] # NoTask <=> p[u] \in {"alloc", "enq"}
               /\ p[u] = "alloc" => Has(l, c[u], "UNUSED") /\ ~Pooled(l, c[u])
               /\ p[u] = "enq" => ~Has(l, c[u], "UNUSED")
               /\ \A v \in Task : c[u] = c[v] /\ c[u] # NoTask => u = v
    BY <2>3, <1>2, <1>9, <1>10, <1>11, <1>13 DEF Inv, Life
  <2>4. /\ p[r] = "none" <=> Has(l, r, "UNUSED")
        /\ c[r] # NoTask <=> p[r] \in {"alloc", "enq"}
        /\ p[r] = "alloc" => Has(l, c[r], "UNUSED") /\ ~Pooled(l, c[r])
        /\ p[r] = "enq" => ~Has(l, c[r], "UNUSED")
        /\ \A v \in Task : c[r] = c[v] /\ c[r] # NoTask => r = v
    BY <1>9, <1>10, <1>11, <1>12
  <2> QED BY <2>1, <2>2, <2>3, <2>4 DEF Life
<1>15. Inv(l, p, c)
  BY <1>6, <1>7, <1>11, <1>14 DEF Inv
<1> QED BY <1>1, <1>15 DEF TaskInv

LEMMA UnavailablePreserves ==
  ASSUME TaskInv, TaskCreateUnavailable
  PROVE  TaskInv'
BY RecyclePreserves DEF TaskInv, TaskCreateUnavailable

LEMMA NoMemoryPreserves ==
  ASSUME TaskInv, TaskCreateNoMemory
  PROVE  TaskInv'
<1> DEFINE r == kern.run
           t == child[r]
           l == [kern EXCEPT !.free = <<t>> \o @]
           p == [pc EXCEPT ![r] = "run"]
           c == [child EXCEPT ![r] = NoTask]
<1>1. /\ r \in Task /\ pc[r] = "alloc"
      /\ kern' = l /\ child' = c /\ pc' = p
      /\ pendSV' = pendSV /\ tick' = tick
  BY DEF TaskCreateNoMemory, Running
<1>2. Inv(kern, pc, child) /\ kern.run = r
  BY DEF TaskInv
<1> HIDE DEF r
<1>3. /\ kern \in Kernel /\ kern.free \in Seq(Task) /\ kern.recycle \in Seq(Task)
      /\ Distinct(kern.free)
  BY <1>2, KernelFields DEF Inv, KInv, Life
<1>4. t \in Task /\ Has(kern, t, "UNUSED") /\ ~Pooled(kern, t)
  BY <1>1, <1>2 DEF Inv, Life
<1>5. \A u \in Task : u # r => child[u] # t
  BY <1>1, <1>2 DEF Inv, Life
<1> HIDE DEF t
<1> DEFINE f == <<t>> \o kern.free
<1>6. /\ f \in Seq(Task) /\ Distinct(f)
      /\ \A u : In(u, f) <=> In(u, kern.free) \/ u = t
  BY <1>3, <1>4, EndsProperties DEF Pooled
<1>7. l = [kern EXCEPT !.free = f, !.recycle = kern.recycle]
  BY <1>3 DEF Kernel
<1> HIDE DEF l, f
<1>8. /\ KInv(l) /\ l.free = f /\ l.recycle = kern.recycle
      /\ l.status = kern.status /\ l.run = r
  <2>1. KInv(kern)
    BY <1>2 DEF Inv
  <2>2. /\ l \in Kernel /\ l.free = f /\ l.recycle = kern.recycle
        /\ l.status = kern.status /\ l.run = kern.run
        /\ l.ready = kern.ready /\ l.bitmap = kern.bitmap /\ l.priority = kern.priority
    BY <1>3, <1>6, <1>7 DEF Kernel, KInv
  <2> QED BY <2>1, <2>2, <1>2, PoolChange
<1>9. RunsOK(l)
  BY <1>2, <1>8 DEF Inv, RunsOK, Has
<1>10. /\ \A u : Has(l, u, "UNUSED") <=> Has(kern, u, "UNUSED")
       /\ \A u : Pooled(l, u) <=> Pooled(kern, u) \/ u = t
  BY <1>6, <1>8 DEF Has, Pooled
<1>11. /\ p[r] = "run" /\ c[r] = NoTask
       /\ \A u \in Task : u # r => p[u] = pc[u] /\ c[u] = child[u]
       /\ p \in [TCB -> PC] /\ c \in [Task -> Task \cup {NoTask}]
  BY <1>1, <1>2, TCBs DEF Inv, PC
<1> HIDE DEF p, c
<1>12. Life(l, p, c)
  <2>1. Distinct(l.free) /\ Distinct(l.recycle)
    BY <1>2, <1>6, <1>8 DEF Inv, Life
  <2>2. ASSUME NEW u \in Task
        PROVE  /\ ~(In(u, l.free) /\ In(u, l.recycle))
               /\ Pooled(l, u) => Has(l, u, "UNUSED")
    BY <1>2, <1>4, <1>6, <1>8, <1>10 DEF Inv, Life, Pooled
  <2>3. ASSUME NEW u \in Task, u # r
        PROVE  /\ p[u] = "none" <=> Has(l, u, "UNUSED")
               /\ c[u] # NoTask <=> p[u] \in {"alloc", "enq"}
               /\ p[u] = "alloc" => Has(l, c[u], "UNUSED") /\ ~Pooled(l, c[u])
               /\ p[u] = "enq" => ~Has(l, c[u], "UNUSED")
               /\ \A v \in Task : c[u] = c[v] /\ c[u] # NoTask => u = v
    BY <2>3, <1>2, <1>5, <1>10, <1>11 DEF Inv, Life
  <2>4. /\ p[r] = "none" <=> Has(l, r, "UNUSED")
        /\ c[r] # NoTask <=> p[r] \in {"alloc", "enq"}
        /\ p[r] = "alloc" => Has(l, c[r], "UNUSED") /\ ~Pooled(l, c[r])
        /\ p[r] = "enq" => ~Has(l, c[r], "UNUSED")
        /\ \A v \in Task : c[r] = c[v] /\ c[r] # NoTask => r = v
    BY <1>1, <1>8, <1>9, <1>11 DEF RunsOK
  <2> QED BY <2>1, <2>2, <2>3, <2>4 DEF Life
<1>13. Inv(l, p, c)
  BY <1>8, <1>9, <1>11, <1>12 DEF Inv
<1> QED BY <1>1, <1>13 DEF TaskInv

\* The new task of a creation is placed in the state "run" when its TCB is
\* filled in; the creator's own place becomes x.
LEMMA BirthPreserves ==
  ASSUME NEW k, NEW p, NEW c, Inv(k, p, c), NEW r \in Task, p[r] = "alloc",
         NEW prio \in Prio, NEW x \in {"run", "enq"}
  PROVE  Inv(OsNewTaskInit(k, c[r], prio),
             [p EXCEPT ![r] = x, ![c[r]] = "run"],
             IF x = "run" THEN [c EXCEPT ![r] = NoTask] ELSE c)
<1> DEFINE t == c[r]
           l == OsNewTaskInit(k, t, prio)
           q == [p EXCEPT ![r] = x, ![t] = "run"]
           d == IF x = "run" THEN [c EXCEPT ![r] = NoTask] ELSE c
<1>1. t \in Task /\ Has(k, t, "UNUSED") /\ ~Pooled(k, t)
  BY DEF Inv, Life
<1>2. /\ ~Has(k, r, "UNUSED") /\ r # t /\ p[t] = "none"
      /\ \A u \in Task : u # r => c[u] # t
  BY <1>1 DEF Inv, Life
<1>3. /\ KInv(l) /\ RunsOK(l)
      /\ l.free = k.free /\ l.recycle = k.recycle
      /\ \A u \in TCB : Has(l, u, "UNUSED") <=> Has(k, u, "UNUSED") /\ u # t
  BY <1>1, NewTaskPreserves DEF Inv
<1> HIDE DEF l, t
<1>4. /\ q[r] = x /\ q[t] = "run" /\ \A u \in Task : u # r /\ u # t => q[u] = p[u]
      /\ q \in [TCB -> PC]
  BY <1>1, <1>2, TCBs DEF Inv, PC
<1>5. /\ d \in [Task -> Task \cup {NoTask}]
      /\ \A u \in Task : u # r => d[u] = c[u]
      /\ d[r] = IF x = "run" THEN NoTask ELSE t
  BY DEF Inv, t
<1> HIDE DEF q, d
<1>6. \A u \in Task : Pooled(l, u) <=> Pooled(k, u)
  BY <1>3 DEF Pooled
<1>7. \A u \in Task : c[u] \in Task \cup {NoTask} /\ c[u] \in TCB
  BY TCBs DEF Inv, NoTask, Idle
<1>8. t \notin {NoTask} /\ t \in TCB
  BY <1>1, TCBs DEF NoTask, Idle
<1>9. Life(l, q, d)
  <2>1. Distinct(l.free) /\ Distinct(l.recycle)
    BY <1>3 DEF Inv, Life
  <2>2. ASSUME NEW u \in Task
        PROVE  /\ ~(In(u, l.free) /\ In(u, l.recycle))
               /\ Pooled(l, u) => Has(l, u, "UNUSED")
    BY <1>1, <1>3, <1>6, TCBs DEF Inv, Life
  <2>3. ASSUME NEW u \in Task, u # r, u # t
        PROVE  /\ q[u] = "none" <=> Has(l, u, "UNUSED")
               /\ d[u] # NoTask <=> q[u] \in {"alloc", "enq"}
               /\ q[u] = "alloc" => Has(l, d[u], "UNUSED") /\ ~Pooled(l, d[u])
               /\ q[u] = "enq" => ~Has(l, d[u], "UNUSED")
    <3>1. q[u] = p[u] /\ d[u] = c[u] /\ c[u] # t /\ c[u] \in TCB /\ u \in TCB
      BY <2>3, <1>2, <1>4, <1>5, <1>7, TCBs
    <3> QED BY <3>1, <2>3, <1>3, <1>6, <1>7 DEF Inv, Life
  <2>4. /\ q[t] = "none" <=> Has(l, t, "UNUSED")
        /\ d[t] # NoTask <=> q[t] \in {"alloc", "enq"}
        /\ q[t] = "alloc" => Has(l, d[t], "UNUSED") /\ ~Pooled(l, d[t])
        /\ q[t] = "enq" => ~Has(l, d[t], "UNUSED")
    <3>1. c[t] = NoTask
      BY <1>1, <1>2 DEF Inv, Life
    <3> QED BY <3>1, <1>1, <1>2, <1>3, <1>4, <1>5, <1>8
  <2>5. /\ q[r] = "none" <=> Has(l, r, "UNUSED")
        /\ d[r] # NoTask <=> q[r] \in {"alloc", "enq"}
        /\ q[r] = "alloc" => Has(l, d[r], "UNUSED") /\ ~Pooled(l, d[r])
        /\ q[r] = "enq" => ~Has(l, d[r], "UNUSED")
    BY <1>2, <1>3, <1>4, <1>5, <1>8, TCBs
  <2>6. ASSUME NEW u \in Task, NEW v \in Task, d[u] = d[v], d[u] # NoTask
        PROVE  u = v
    <3>1. c[u] = c[v] /\ c[u] # NoTask
      BY <2>6, <1>5 DEF t
    <3> QED BY <3>1 DEF Inv, Life
  <2> QED BY <2>1, <2>2, <2>3, <2>4, <2>5, <2>6 DEF Life
<1> QED BY <1>3, <1>4, <1>5, <1>9 DEF Inv, l, q, d, t

LEMMA CreateOnlyPreserves ==
  ASSUME TaskInv, LOS_TaskCreateOnly
  PROVE  TaskInv'
<1>1. PICK p \in Prio : kern' = OsNewTaskInit(kern, child[kern.run], p)
  BY DEF LOS_TaskCreateOnly
<1> DEFINE r == kern.run
<1>2. /\ r \in Task /\ pc[r] = "alloc"
      /\ kern' = OsNewTaskInit(kern, child[r], p)
      /\ pc' = [pc EXCEPT ![r] = "run", ![child[r]] = "run"]
      /\ child' = [child EXCEPT ![r] = NoTask]
      /\ pendSV' = pendSV /\ tick' = tick
  BY <1>1 DEF LOS_TaskCreateOnly, Running
<1> HIDE DEF r
<1>3. Inv(OsNewTaskInit(kern, child[r], p), [pc EXCEPT ![r] = "run", ![child[r]] = "run"],
          IF "run" = "run" THEN [child EXCEPT ![r] = NoTask] ELSE child)
  BY <1>2, BirthPreserves DEF TaskInv
<1> QED BY <1>2, <1>3 DEF TaskInv

LEMMA CreateInitPreserves ==
  ASSUME TaskInv, TaskCreateInit
  PROVE  TaskInv'
<1>1. PICK p \in Prio : kern' = OsNewTaskInit(kern, child[kern.run], p)
  BY DEF TaskCreateInit
<1> DEFINE r == kern.run
<1>2. /\ r \in Task /\ pc[r] = "alloc"
      /\ kern' = OsNewTaskInit(kern, child[r], p)
      /\ pc' = [pc EXCEPT ![r] = "enq", ![child[r]] = "run"]
      /\ child' = child /\ pendSV' = pendSV /\ tick' = tick
  BY <1>1 DEF TaskCreateInit, Running
<1> HIDE DEF r
<1>3. Inv(OsNewTaskInit(kern, child[r], p), [pc EXCEPT ![r] = "enq", ![child[r]] = "run"],
          IF "enq" = "run" THEN [child EXCEPT ![r] = NoTask] ELSE child)
  BY <1>2, BirthPreserves DEF TaskInv
<1> QED BY <1>2, <1>3 DEF TaskInv

\* The end of LOS_TaskCreate: the child is announced.
LEMMA CreatePreserves ==
  ASSUME TaskInv, LOS_TaskCreate
  PROVE  TaskInv'
<1> DEFINE r == kern.run
           t == child[r]
           l == Committed(kern, OsSchedTaskEnQueue(kern, t))
           p == [pc EXCEPT ![r] = "sched"]
           c == [child EXCEPT ![r] = NoTask]
<1>1. /\ r \in Task /\ pc[r] = "enq"
      /\ kern' = l /\ pc' = p /\ child' = c
      /\ pendSV' = pendSV /\ tick' = tick
  BY DEF LOS_TaskCreate, Running, Finish
<1>2. Inv(kern, pc, child)
  BY DEF TaskInv
<1> HIDE DEF r
<1>3. t \in Task /\ ~Has(kern, t, "UNUSED")
  BY <1>1, <1>2 DEF Inv, Life
<1> HIDE DEF t
<1>4. Frame(kern, l)
  <2>1. KInv(kern) /\ RunsOK(kern)
    BY <1>2 DEF Inv
  <2>2. Frame(kern, OsSchedTaskEnQueue(kern, t))
    BY <2>1, <1>3, EnQueuePreserves, KeepsFrame
  <2> QED BY <2>1, <2>2, CommittedFrame
<1> HIDE DEF l
<1>5. Inv(l, pc, child)
  BY <1>2, <1>4, FrameLife
<1>6. /\ p[r] = "sched" /\ c[r] = NoTask
      /\ \A u \in Task : u # r => p[u] = pc[u] /\ c[u] = child[u]
      /\ p \in [TCB -> PC] /\ c \in [Task -> Task \cup {NoTask}]
  BY <1>1, <1>2, TCBs DEF Inv, PC
<1> HIDE DEF p, c
<1>7. Life(l, p, c)
  BY <1>1, <1>5, <1>6 DEF Inv, Life
<1>8. Inv(l, p, c)
  BY <1>5, <1>6, <1>7 DEF Inv
<1> QED BY <1>1, <1>8 DEF TaskInv

\* A task dies: its TCB goes to one of the two pools, its service and the
\* creation it may be in are forgotten.
LEMMA DeathPreserves ==
  ASSUME NEW k, NEW p, NEW c, Inv(k, p, c), NEW t \in Task, ~Has(k, t, "UNUSED"),
         \A u \in Task : p[u] = "enq" => c[u] # t,
         NEW l, KInv(l), RunsOK(l),
         \A u \in TCB : Has(l, u, "UNUSED") <=> Has(k, u, "UNUSED") \/ u = t,
         Distinct(l.free), Distinct(l.recycle),
         \A u \in Task : /\ ~(In(u, l.free) /\ In(u, l.recycle))
                         /\ Pooled(l, u) <=> Pooled(k, u) \/ u = t,
         NEW q \in [TCB -> PC], q[t] = "none",
         \A u \in Task : u # t => q[u] = p[u]
  PROVE  Inv(l, q, [c EXCEPT ![t] = NoTask])
<1> DEFINE d == [c EXCEPT ![t] = NoTask]
<1>1. /\ d \in [Task -> Task \cup {NoTask}] /\ d[t] = NoTask
      /\ \A u \in Task : u # t => d[u] = c[u]
  BY DEF Inv
<1> HIDE DEF d
<1>2. \A u \in Task : p[u] \in {"alloc", "enq"} => c[u] \in Task
  BY DEF Inv, Life
<1>3. \A u \in Task : p[u] = "alloc" => c[u] # t
  BY DEF Inv, Life
<1>4. Life(l, q, d)
  <2>1. ASSUME NEW u \in Task, u # t
        PROVE  /\ Pooled(l, u) => Has(l, u, "UNUSED")
               /\ q[u] = "none" <=> Has(l, u, "UNUSED")
               /\ d[u] # NoTask <=> q[u] \in {"alloc", "enq"}
               /\ q[u] = "alloc" => Has(l, d[u], "UNUSED") /\ ~Pooled(l, d[u])
               /\ q[u] = "enq" => ~Has(l, d[u], "UNUSED")
    <3>1. q[u] = p[u] /\ d[u] = c[u] /\ u \in TCB
      BY <2>1, <1>1, TCBs
    <3>2. q[u] \in {"alloc", "enq"} => d[u] \in Task /\ d[u] \in TCB /\ d[u] # t
      BY <3>1, <1>2, <1>3, TCBs
    <3> QED BY <3>1, <3>2, <2>1 DEF Inv, Life
  <2>2. /\ Has(l, t, "UNUSED")
        /\ q[t] = "none" <=> Has(l, t, "UNUSED")
        /\ d[t] # NoTask <=> q[t] \in {"alloc", "enq"}
        /\ q[t] # "alloc" /\ q[t] # "enq"
    BY <1>1, TCBs
  <2>3. ASSUME NEW u \in Task, NEW v \in Task, d[u] = d[v], d[u] # NoTask
        PROVE  u = v
    BY <2>3, <1>1 DEF Inv, Life
  <2> QED BY <2>1, <2>2, <2>3 DEF Life
<1> QED BY <1>1, <1>4 DEF Inv, d

LEMMA DeleteOtherPreserves ==
  ASSUME TaskInv, NEW ctx \in Context, NEW t \in Task, TaskDeleteOther(ctx, t)
  PROVE  TaskInv'
<1> DEFINE e == Erased(kern, t)
           l == [e EXCEPT !.free = <<t>> \o @]
           q == [pc EXCEPT ![t] = "none"]
           f == <<t>> \o kern.free
<1>1. /\ ~Has(kern, t, "UNUSED") /\ ~Has(kern, t, "RUNNING")
      /\ \A u \in Task : pc[u] = "enq" => child[u] # t
      /\ kern' = l /\ pc' = q /\ child' = [child EXCEPT ![t] = NoTask]
      /\ pendSV' = pendSV /\ tick' = tick
  BY DEF TaskDeleteOther, Exists, Unannounced
<1>2. Inv(kern, pc, child) /\ t \in TCB
  BY TCBs DEF TaskInv
<1>3. /\ KInv(e) /\ e.free = kern.free /\ e.recycle = kern.recycle /\ e.run = kern.run
      /\ \A u \in TCB : Has(e, u, "UNUSED") <=> Has(kern, u, "UNUSED") \/ u = t
      /\ \A u \in TCB : u # t => (Has(e, u, "RUNNING") <=> Has(kern, u, "RUNNING"))
  BY <1>1, <1>2, ErasedPreserves DEF Inv
<1> HIDE DEF e
<1>4. kern.free \in Seq(Task) /\ ~Pooled(kern, t) /\ Distinct(kern.free)
  BY <1>1, <1>2, KernelFields DEF Inv, KInv, Life
<1>5. f \in Seq(Task) /\ Distinct(f) /\ \A u : In(u, f) <=> In(u, kern.free) \/ u = t
  BY <1>4, EndsProperties DEF Pooled
<1>6. l = [e EXCEPT !.free = f]
  BY <1>3
<1> HIDE DEF l, f
<1>7. /\ l \in Kernel /\ l.free = f /\ l.recycle = kern.recycle
      /\ l.status = e.status /\ l.run = kern.run
      /\ l.ready = e.ready /\ l.bitmap = e.bitmap /\ l.priority = e.priority
  BY <1>3, <1>5, <1>6 DEF Kernel, KInv
<1>8. KInv(l)
  BY <1>3, <1>7, PoolChange
<1>9. \A u : \A g \in Flag : Has(l, u, g) <=> Has(e, u, g)
  BY <1>7 DEF Has
<1>10. /\ kern.run \in TCB /\ kern.run # t
  BY <1>1, <1>2, KernelFields DEF Inv, KInv, RunsOK
<1>11. RunsOK(l)
  BY <1>2, <1>3, <1>7, <1>9, <1>10 DEF Inv, RunsOK, Flag
<1>12. /\ Distinct(l.free) /\ Distinct(l.recycle)
       /\ \A u \in Task : /\ ~(In(u, l.free) /\ In(u, l.recycle))
                          /\ Pooled(l, u) <=> Pooled(kern, u) \/ u = t
  BY <1>2, <1>4, <1>5, <1>7 DEF Inv, Life, Pooled
<1>13. /\ q \in [TCB -> PC] /\ q[t] = "none" /\ \A u \in Task : u # t => q[u] = pc[u]
  BY <1>2, TCBs DEF Inv, PC
<1>14. \A u \in TCB : Has(l, u, "UNUSED") <=> Has(kern, u, "UNUSED") \/ u = t
  BY <1>3, <1>9 DEF Flag
<1> HIDE DEF q
<1>15. Inv(l, q, [child EXCEPT ![t] = NoTask])
  BY <1>1, <1>2, <1>8, <1>11, <1>12, <1>13, <1>14, DeathPreserves
<1> QED BY <1>1, <1>15 DEF TaskInv

LEMMA RunningDeletePreserves ==
  ASSUME TaskInv, NEW ctx \in Context, NEW t \in Task, OsRunningTaskDelete(ctx, t)
  PROVE  TaskInv'
<1> DEFINE e == Erased(kern, t)
           l == [e EXCEPT !.recycle = Append(@, t),
                          !.run     = Dead,
                          !.lock    = 0,
                          !.status[Dead] = {"UNUSED", "RUNNING"}]
           q == [pc EXCEPT ![t] = "none", ![Dead] = "sched"]
           r == Append(kern.recycle, t)
           s == [e.status EXCEPT ![Dead] = {"UNUSED", "RUNNING"}]
<1>1. /\ ~Has(kern, t, "UNUSED")
      /\ \A u \in Task : pc[u] = "enq" => child[u] # t
      /\ kern' = l /\ pc' = q /\ child' = [child EXCEPT ![t] = NoTask]
      /\ pendSV' = (pendSV \/ ctx = "isr") /\ tick' = tick
  BY DEF OsRunningTaskDelete, Exists, Unannounced
<1>2. Inv(kern, pc, child) /\ t \in TCB /\ t # Dead
  BY TCBs DEF TaskInv
<1>3. /\ KInv(e) /\ e.free = kern.free /\ e.recycle = kern.recycle
      /\ \A u \in TCB : Has(e, u, "UNUSED") <=> Has(kern, u, "UNUSED") \/ u = t
  BY <1>1, <1>2, ErasedPreserves DEF Inv
<1> HIDE DEF e
<1>4. kern.recycle \in Seq(Task) /\ ~Pooled(kern, t) /\ Distinct(kern.recycle)
  BY <1>1, <1>2, KernelFields DEF Inv, KInv, Life
<1>5. r \in Seq(Task) /\ Distinct(r) /\ \A u : In(u, r) <=> In(u, kern.recycle) \/ u = t
  BY <1>4, EndsProperties DEF Pooled
<1>6. /\ s \in [TCB -> SUBSET Flag] /\ s[Dead] = {"UNUSED", "RUNNING"}
      /\ \A u \in TCB : u # Dead => s[u] = e.status[u]
  BY <1>3, KernelFields, TCBs DEF KInv, Flag
<1>7. l = [e EXCEPT !.recycle = r, !.run = Dead, !.lock = 0, !.status = s]
  BY <1>3
<1> HIDE DEF l, r, s
<1>8. /\ l \in Kernel /\ l.free = kern.free /\ l.recycle = r
      /\ l.status = s /\ l.run = Dead
      /\ l.ready = e.ready /\ l.bitmap = e.bitmap /\ l.priority = e.priority
  BY <1>3, <1>5, <1>6, <1>7, TCBs DEF Kernel, KInv
<1>9. Has(e, Dead, "UNUSED")
  BY <1>3 DEF KInv, StatusOK
<1>10. /\ \A u \in TCB : Has(l, u, "UNUSED") <=> Has(e, u, "UNUSED")
       /\ \A u \in Task : Has(l, u, "READY") <=> Has(e, u, "READY")
       /\ \A u \in Task : l.status[u] = e.status[u]
       /\ l.status[Idle] = e.status[Idle]
       /\ l.status[Dead] = {"UNUSED", "RUNNING"}
       /\ Has(l, Dead, "RUNNING") /\ Has(l, Dead, "UNUSED")
  BY <1>6, <1>8, <1>9, TCBs DEF Has
<1>11. ReadyOK(l)
  BY <1>3, <1>8, <1>10 DEF KInv, ReadyOK
<1>12. StatusOK(l)
  BY <1>3, <1>10, TCBs DEF KInv, StatusOK
<1>13. KInv(l) /\ RunsOK(l)
  BY <1>8, <1>10, <1>11, <1>12, TCBs DEF KInv, RunsOK
<1>14. /\ Distinct(l.free) /\ Distinct(l.recycle)
       /\ \A u \in Task : /\ ~(In(u, l.free) /\ In(u, l.recycle))
                          /\ Pooled(l, u) <=> Pooled(kern, u) \/ u = t
  BY <1>2, <1>4, <1>5, <1>8 DEF Inv, Life, Pooled
<1>15. /\ q \in [TCB -> PC] /\ q[t] = "none" /\ \A u \in Task : u # t => q[u] = pc[u]
  BY <1>2, TCBs DEF Inv, PC
<1>16. \A u \in TCB : Has(l, u, "UNUSED") <=> Has(kern, u, "UNUSED") \/ u = t
  BY <1>3, <1>10
<1> HIDE DEF q
<1>17. Inv(l, q, [child EXCEPT ![t] = NoTask])
  BY <1>1, <1>2, <1>13, <1>14, <1>15, <1>16, DeathPreserves
<1>18. pendSV' \in BOOLEAN
  BY <1>1 DEF TaskInv
<1> QED BY <1>1, <1>17, <1>18 DEF TaskInv

\* A service that ends in a frame step, called by a task or in an interrupt.
LEMMA FinishPreserves ==
  ASSUME TaskInv, NEW ctx \in Context, ctx = "task" => pc[kern.run] \in Placid,
         NEW l, Frame(kern, l), NEW resched \in BOOLEAN, Finish(ctx, l, resched),
         child' = child, tick' = tick
  PROVE  TaskInv'
<1>1. Inv(kern, pc, child) /\ kern.run \in TCB /\ KInv(kern) /\ RunsOK(kern)
  BY KernelFields DEF TaskInv, Inv, KInv
<1>2. kern' = Committed(kern, l) /\ Frame(kern, Committed(kern, l))
  BY <1>1, CommittedFrame DEF Finish
<1>3. Inv(kern', pc, child)
  BY <1>1, <1>2, FrameLife
<1>4. CASE ctx = "task"
  <2> DEFINE x == IF resched THEN "sched" ELSE "run"
  <2>1. pc' = [pc EXCEPT ![kern.run] = x] /\ pendSV' = pendSV
    BY <1>4 DEF Finish
  <2>2. x \in Placid
    BY DEF Placid, PC
  <2> HIDE DEF x
  <2>3. Inv(kern', pc', child)
    BY <1>1, <1>3, <1>4, <2>1, <2>2, PlaceLife
  <2> QED BY <2>1, <2>3 DEF TaskInv
<1>5. CASE ctx # "task"
  <2>1. pc' = pc /\ pendSV' = (pendSV \/ (resched /\ l.lock = 0))
    BY <1>5 DEF Finish
  <2>2. pendSV' \in BOOLEAN
    BY <2>1 DEF TaskInv
  <2> QED BY <1>3, <2>1, <2>2 DEF TaskInv
<1> QED BY <1>4, <1>5

\* A task that calls a service is at a placid place.
LEMMA CallerPlacid ==
  ASSUME NEW ctx \in Context, Caller(ctx)
  PROVE  ctx = "task" => kern.run \in Task /\ pc[kern.run] \in Placid
BY DEF Caller, Running, Placid, PC

LEMMA SuspendPreserves ==
  ASSUME TaskInv, NEW ctx \in Context, NEW t \in Task, LOS_TaskSuspend(ctx, t)
  PROVE  TaskInv'
<1> DEFINE off == OsSchedTaskDeQueue(kern, t)
           l   == SetFlag(off, t, {"SUSPEND"})
<1>1. /\ Caller(ctx) /\ ~Has(kern, t, "UNUSED") /\ Finish(ctx, l, t = kern.run)
      /\ child' = child /\ tick' = tick
  BY DEF LOS_TaskSuspend, Exists
<1>2. KInv(kern) /\ RunsOK(kern) /\ t \in TCB
  BY TCBs DEF TaskInv, Inv
<1>3. KInv(off) /\ Keeps(kern, off)
  BY <1>2, DeQueuePreserves
<1> HIDE DEF off
<1>4. KInv(l) /\ Keeps(off, l)
  <2> DEFINE f == off.status[t] \cup {"SUSPEND"}
  <2>1. off \in Kernel /\ f \in SUBSET Flag
    BY <1>2, <1>3, KernelFields DEF KInv, Flag
  <2>2. l = WithStatus(off, t, f)
    BY DEF SetFlag, WithStatus
  <2>3. \A g \in {"READY", "UNUSED", "RUNNING"} : g \in f <=> Has(off, t, g)
    BY DEF Has
  <2> HIDE DEF f, l
  <2>4. /\ l \in Kernel /\ l.status = [off.status EXCEPT ![t] = f]
        /\ l.ready = off.ready /\ l.bitmap = off.bitmap /\ l.priority = off.priority
        /\ l.free = off.free /\ l.recycle = off.recycle /\ l.run = off.run /\ l.lock = off.lock
    BY <1>2, <2>1, <2>2, StatusUpdated
  <2>5. ~Has(off, t, "UNUSED")
    BY <1>1, <1>2, <1>3 DEF Keeps
  <2> QED BY <1>3, <2>1, <2>3, <2>4, <2>5, FlagChange
<1> HIDE DEF l
<1>5. Frame(kern, l)
  BY <1>2, <1>3, <1>4, KeepsTransitive, KeepsFrame
<1> QED BY <1>1, <1>5, CallerPlacid, FinishPreserves

LEMMA ResumePreserves ==
  ASSUME TaskInv, NEW ctx \in Context, NEW t \in Task, LOS_TaskResume(ctx, t)
  PROVE  TaskInv'
<1> DEFINE k == ClearFlag(kern, t, {"SUSPEND"})
           isReady == k.status[t] \cap Blocked = {}
           l == IF isReady THEN OsSchedTaskEnQueue(k, t) ELSE k
<1>1. /\ Caller(ctx) /\ ~Has(kern, t, "UNUSED") /\ Finish(ctx, l, isReady)
      /\ child' = child /\ tick' = tick
  BY DEF LOS_TaskResume, Exists
<1>2. KInv(kern) /\ RunsOK(kern) /\ t \in TCB
  BY TCBs DEF TaskInv, Inv
<1>3. KInv(k) /\ Keeps(kern, k)
  <2> DEFINE f == kern.status[t] \ {"SUSPEND"}
  <2>1. kern \in Kernel /\ f \in SUBSET Flag
    BY <1>2, KernelFields DEF KInv, Flag
  <2>2. k = WithStatus(kern, t, f)
    BY DEF ClearFlag, WithStatus
  <2>3. \A g \in {"READY", "UNUSED", "RUNNING"} : g \in f <=> Has(kern, t, g)
    BY DEF Has
  <2> HIDE DEF f, k
  <2>4. /\ k \in Kernel /\ k.status = [kern.status EXCEPT ![t] = f]
        /\ k.ready = kern.ready /\ k.bitmap = kern.bitmap /\ k.priority = kern.priority
        /\ k.free = kern.free /\ k.recycle = kern.recycle /\ k.run = kern.run
        /\ k.lock = kern.lock
    BY <1>2, <2>1, <2>2, StatusUpdated
  <2> QED BY <1>1, <1>2, <2>1, <2>3, <2>4, FlagChange
<1> HIDE DEF k
<1>4. KInv(l) /\ Keeps(kern, l)
  <2>1. ~Has(k, t, "UNUSED")
    BY <1>1, <1>2, <1>3 DEF Keeps
  <2>2. /\ KInv(OsSchedTaskEnQueue(k, t)) /\ Keeps(k, OsSchedTaskEnQueue(k, t))
    BY <2>1, <1>3, EnQueuePreserves
  <2>3. Keeps(kern, OsSchedTaskEnQueue(k, t))
    BY <2>2, <1>3, KeepsTransitive
  <2> QED BY <1>3, <2>2, <2>3
<1>5. isReady \in BOOLEAN
  OBVIOUS
<1> HIDE DEF l, isReady
<1>6. Frame(kern, l)
  BY <1>2, <1>4, KeepsFrame
<1> QED BY <1>1, <1>5, <1>6, CallerPlacid, FinishPreserves

LEMMA PriSetPreserves ==
  ASSUME TaskInv, NEW t \in Task, NEW p \in Prio, LOS_TaskPriSet(t, p)
  PROVE  TaskInv'
<1> DEFINE l == OsSchedModifyTaskSchedParam(kern, t, p)
           need == ModifyNeedsSchedule(kern, t)
<1>1. /\ Caller("task") /\ ~Has(kern, t, "UNUSED") /\ Finish("task", l, need)
      /\ child' = child /\ tick' = tick
  BY DEF LOS_TaskPriSet, Exists
<1>2. KInv(kern) /\ RunsOK(kern)
  BY DEF TaskInv, Inv
<1>3. KInv(l) /\ Keeps(kern, l)
  BY <1>1, <1>2, ModifyPreserves
<1>4. need \in BOOLEAN
  BY DEF ModifyNeedsSchedule, Has
<1> HIDE DEF l, need
<1>5. Frame(kern, l)
  BY <1>2, <1>3, KeepsFrame
<1> QED BY <1>1, <1>4, <1>5, CallerPlacid, FinishPreserves DEF Context

LEMMA DelayPreserves ==
  ASSUME TaskInv, LOS_TaskDelay
  PROVE  TaskInv'
<1> DEFINE r == kern.run
           l == OsSchedDelay(kern)
           f == kern.status[r] \cup {"DELAY"}
<1>1. /\ Caller("task") /\ Finish("task", l, TRUE)
      /\ child' = child /\ tick' = tick
  BY DEF LOS_TaskDelay
<1>2. KInv(kern) /\ RunsOK(kern) /\ r \in Task /\ ~Has(kern, r, "UNUSED")
  BY <1>1, CallerPlacid DEF TaskInv, Inv, RunsOK, Context
<1>3. kern \in Kernel /\ r \in TCB /\ f \in SUBSET Flag
  BY <1>2, KernelFields, TCBs DEF KInv, Flag
<1>4. l = WithStatus(kern, r, f)
  BY DEF OsSchedDelay, SetFlag, WithStatus
<1>5. \A g \in {"READY", "UNUSED", "RUNNING"} : g \in f <=> Has(kern, r, g)
  BY DEF Has
<1> HIDE DEF f, l, r
<1>6. /\ l \in Kernel /\ l.status = [kern.status EXCEPT ![r] = f]
      /\ l.ready = kern.ready /\ l.bitmap = kern.bitmap /\ l.priority = kern.priority
      /\ l.free = kern.free /\ l.recycle = kern.recycle /\ l.run = kern.run
      /\ l.lock = kern.lock
  BY <1>3, <1>4, StatusUpdated
<1>7. KInv(l) /\ Keeps(kern, l)
  BY <1>2, <1>3, <1>5, <1>6, FlagChange
<1>8. Frame(kern, l)
  BY <1>2, <1>7, KeepsFrame
<1> QED BY <1>1, <1>8, CallerPlacid, FinishPreserves DEF Context

LEMMA YieldPreserves ==
  ASSUME TaskInv, LOS_TaskYield
  PROVE  TaskInv'
<1> DEFINE l == [kern EXCEPT !.slice[kern.run] = FALSE]
<1>1. /\ Caller("task") /\ Finish("task", l, TRUE)
      /\ child' = child /\ tick' = tick
  BY DEF LOS_TaskYield
<1>2. KInv(kern) /\ RunsOK(kern)
  BY DEF TaskInv, Inv
<1>3. /\ l \in Kernel /\ l.status = kern.status /\ l.ready = kern.ready
      /\ l.bitmap = kern.bitmap /\ l.priority = kern.priority
      /\ l.free = kern.free /\ l.recycle = kern.recycle /\ l.run = kern.run
      /\ l.lock = kern.lock
  BY <1>2 DEF KInv, Kernel
<1> HIDE DEF l
<1>4. Frame(kern, l)
  BY <1>2, <1>3, ListsChange, KeepsFrame
<1> QED BY <1>1, <1>4, CallerPlacid, FinishPreserves DEF Context

\* A change of the task lock only.
LEMMA LockFrame ==
  ASSUME NEW k, KInv(k), RunsOK(k), NEW n \in Nat
  PROVE  Frame(k, [k EXCEPT !.lock = n])
<1> DEFINE l == [k EXCEPT !.lock = n]
<1>1. /\ l \in Kernel /\ l.status = k.status /\ l.ready = k.ready
      /\ l.bitmap = k.bitmap /\ l.priority = k.priority
      /\ l.free = k.free /\ l.recycle = k.recycle /\ l.run = k.run
  BY DEF KInv, Kernel
<1> HIDE DEF l
<1>2. KInv(l)
  BY <1>1, PoolChange
<1>3. Frame(k, l)
  BY <1>1, <1>2 DEF Frame, RunsOK, Has
<1> QED BY <1>3 DEF l

LEMMA LockPreserves ==
  ASSUME TaskInv, LOS_TaskLock
  PROVE  TaskInv'
<1> DEFINE l == [kern EXCEPT !.lock = kern.lock + 1]
<1>1. /\ Caller("task") /\ Finish("task", l, FALSE)
      /\ child' = child /\ tick' = tick
  BY DEF LOS_TaskLock
<1>2. KInv(kern) /\ RunsOK(kern) /\ kern.lock \in Nat
  BY KernelFields DEF TaskInv, Inv, KInv
<1>3. Frame(kern, l)
  BY <1>2, LockFrame
<1> HIDE DEF l
<1> QED BY <1>1, <1>3, CallerPlacid, FinishPreserves DEF Context

LEMMA UnlockPreserves ==
  ASSUME TaskInv, LOS_TaskUnlock
  PROVE  TaskInv'
<1> DEFINE l == [kern EXCEPT !.lock = kern.lock - 1]
           need == kern.lock = 1
<1>1. /\ Caller("task") /\ kern.lock > 0 /\ Finish("task", l, need)
      /\ child' = child /\ tick' = tick
  BY DEF LOS_TaskUnlock
<1>2. KInv(kern) /\ RunsOK(kern) /\ kern.lock \in Nat
  BY KernelFields DEF TaskInv, Inv, KInv
<1>3. kern.lock - 1 \in Nat
  BY <1>1, <1>2
<1>4. Frame(kern, l)
  BY <1>2, <1>3, LockFrame
<1>5. need \in BOOLEAN
  OBVIOUS
<1> HIDE DEF l, need
<1> QED BY <1>1, <1>4, <1>5, CallerPlacid, FinishPreserves DEF Context

\* A step of the system that moves the kernel only.
LEMMA KernelStep ==
  ASSUME TaskInv, NEW l, Frame(kern, l), kern' = Committed(kern, l), pc' = pc,
         child' = child, pendSV' \in BOOLEAN, tick' \in Tick
  PROVE  TaskInv'
<1>1. Inv(kern, pc, child) /\ KInv(kern) /\ RunsOK(kern)
  BY DEF TaskInv, Inv
<1>2. Inv(kern', pc, child)
  BY <1>1, CommittedFrame, FrameLife
<1> QED BY <1>2 DEF TaskInv

\* The same where nothing can fail an assertion.
LEMMA SafeKernelStep ==
  ASSUME TaskInv, Frame(kern, kern'), pc' = pc,
         child' = child, pendSV' \in BOOLEAN, tick' \in Tick
  PROVE  TaskInv'
<1>1. Inv(kern', pc, child)
  BY FrameLife DEF TaskInv
<1> QED BY <1>1 DEF TaskInv

LEMMA SchedulePreserves ==
  ASSUME TaskInv, LOS_Schedule
  PROVE  TaskInv'
<1>1. Inv(kern, pc, child) /\ kern.run \in TCB
  BY KernelFields DEF TaskInv, Inv, KInv
<1>2. /\ kern' = kern /\ child' = child /\ tick' = tick /\ pendSV' \in BOOLEAN
      /\ pc[kern.run] \in Placid
      /\ \E x \in Placid : pc' = [pc EXCEPT ![kern.run] = x]
  BY DEF LOS_Schedule, Running, Placid, PC
<1>3. PICK x \in Placid : pc' = [pc EXCEPT ![kern.run] = x]
  BY <1>2
<1>4. Inv(kern, [pc EXCEPT ![kern.run] = x], child)
  BY <1>1, <1>2, PlaceLife
<1> QED BY <1>2, <1>3, <1>4 DEF TaskInv

LEMMA PendSVPreserves ==
  ASSUME TaskInv, HalPendSV
  PROVE  TaskInv'
<1>1. PICK spent \in BOOLEAN, pos \in 1..(Len(kern.sorted) + 1) :
        kern' = Committed(kern, OsSchedTaskSwitch(kern, spent, pos))
  BY DEF HalPendSV
<1> DEFINE l == OsSchedTaskSwitch(kern, spent, pos)
<1>2. KInv(kern) /\ RunsOK(kern)
  BY DEF TaskInv, Inv
<1>3. /\ KInv(l) /\ l.free = kern.free /\ l.recycle = kern.recycle
      /\ \A u \in TCB : Has(l, u, "UNUSED") <=> Has(kern, u, "UNUSED")
      /\ ~Has(l, l.run, "UNUSED") /\ Has(l, l.run, "RUNNING")
  BY <1>2, SwitchPreserves DEF RunsOK
<1>4. kern' = Committed(kern, l)
  BY <1>1
<1> HIDE DEF l
<1>5. Frame(kern, l)
  BY <1>3 DEF Frame, RunsOK
<1>6. pc' = pc /\ child' = child /\ pendSV' = FALSE /\ tick' = tick /\ tick \in Tick
  BY DEF HalPendSV, TaskInv
<1> QED BY <1>4, <1>5, <1>6, KernelStep

LEMMA IdlePreserves ==
  ASSUME TaskInv, OsIdleTask
  PROVE  TaskInv'
<1>1. kern' = OsRecyleFinishedTask(kern) /\ UNCHANGED <<pc, child, pendSV, tick>>
  BY DEF OsIdleTask
<1>2. Inv(OsRecyleFinishedTask(kern), pc, child)
  BY RecyclePreserves DEF TaskInv
<1> QED BY <1>1, <1>2 DEF TaskInv

\* The tick handler charges the running task's slice.
LEMMA ChargeFrame ==
  ASSUME TaskInv, TickCharge(kern)
  PROVE  Frame(kern, kern')
<1>1. PICK spent \in BOOLEAN : kern' = OsTimeSliceUpdate(kern, spent)
  BY DEF TickCharge
<1>2. KInv(kern) /\ RunsOK(kern)
  BY DEF TaskInv, Inv
<1> QED BY <1>1, <1>2, TimeSlicePreserves, KeepsFrame

LEMMA TickPreserves ==
  ASSUME TaskInv, TickSliceEnd \/ TickEnter \/ TickExpire \/ TickExit
  PROVE  TaskInv'
<1>1. KInv(kern) /\ RunsOK(kern) /\ pendSV \in BOOLEAN /\ tick \in Tick
  BY DEF TaskInv, Inv
<1>2. CASE TickSliceEnd
  BY <1>1, <1>2, ChargeFrame, SafeKernelStep DEF TickSliceEnd
<1>3. CASE TickEnter
  BY <1>3 DEF TickEnter, TaskInv, Tick
<1>4. CASE TickExpire
  <2> DEFINE l == OsSchedWakePendTimeTask(kern)
  <2>1. kern' = Committed(kern, l) /\ kern.sorted # <<>>
    BY <1>4 DEF TickExpire
  <2>2. KInv(l) /\ Keeps(kern, l)
    BY <1>1, <2>1, WakePendTimePreserves
  <2> HIDE DEF l
  <2>3. Frame(kern, l)
    BY <1>1, <2>2, KeepsFrame
  <2>4. pc' = pc /\ child' = child /\ pendSV' \in BOOLEAN /\ tick' \in Tick
    BY <1>1, <1>4 DEF TickExpire, Tick
  <2> QED BY <2>1, <2>3, <2>4, KernelStep
<1>5. CASE TickExit
  <2>1. Frame(kern, kern)
    BY <1>1 DEF Frame
  <2>2. Frame(kern, kern')
    BY <1>5, <2>1, ChargeFrame DEF TickExit
  <2>3. pc' = pc /\ child' = child /\ pendSV' \in BOOLEAN /\ tick' \in Tick
    BY <1>1, <1>5 DEF TickExit, Tick
  <2> QED BY <2>2, <2>3, SafeKernelStep
<1> QED BY <1>2, <1>3, <1>4, <1>5

-----------------------------------------------------------------------------
(* The invariant.                                                          *)

LEMMA InitInv == TaskInit => TaskInv
<1> SUFFICES ASSUME TaskInit PROVE TaskInv
  OBVIOUS
<1> DEFINE first == [i \in 1..(N - Boot) |-> Boot + i]
           st == [t \in TCB |-> CASE t = Idle      -> {"READY"}
                                  [] t = 1         -> {"RUNNING"}
                                  [] t \in 2..Boot -> {"SUSPEND"}
                                  [] OTHER         -> {"UNUSED"}]
<1>1. /\ N \in Nat \ {0} /\ Boot \in 1..N
      /\ 1 \in Task /\ 1 \in TCB /\ Idle \in TCB /\ Dead \in TCB /\ Task \subseteq TCB
  BY NAssumption, BootAssumption, TCBs DEF Task
<1>2. \A i \in 1..(N - Boot) : Boot + i \in Task
  BY <1>1 DEF Task
<1>3. /\ first \in Seq(Task) /\ Distinct(first)
      /\ \A t \in Task : In(t, first) => t > Boot
  <2>1. first \in Seq(Task)
    <3>1. N - Boot \in Nat
      BY <1>1
    <3> QED BY <3>1, <1>2, IsASeq
  <2>2. DOMAIN first = 1..(N - Boot) /\ \A i \in 1..(N - Boot) : first[i] = Boot + i
    OBVIOUS
  <2> HIDE DEF first
  <2> QED BY <2>1, <2>2, <1>1 DEF Distinct, In
<1>4. /\ \A t \in TCB : t = Idle => st[t] = {"READY"}
      /\ \A t \in TCB : t = 1 => st[t] = {"RUNNING"}
      /\ \A t \in TCB : t \in 2..Boot => st[t] = {"SUSPEND"}
      /\ \A t \in TCB : t # Idle /\ t # 1 /\ t \notin 2..Boot => st[t] = {"UNUSED"}
      /\ st \in [TCB -> SUBSET Flag]
  BY DEF Idle, Flag
<1>5. <<>> \in Seq(Task) /\ (\A u : ~In(u, <<>>)) /\ Distinct(<<>>)
  BY DEF In, Distinct
<1> HIDE DEF first, st
<1>6. PICK p \in [Task -> Prio] :
        kern = [status |-> st, priority |-> p, slice |-> [t \in Task |-> t = 1],
                ready |-> [q \in Prio |-> <<>>], bitmap |-> {}, sorted |-> <<>>,
                wait |-> [o \in WaitObj |-> <<>>], free |-> first, recycle |-> <<>>,
                run |-> 1, lock |-> 0, halted |-> FALSE]
  BY DEF TaskInit, st, first
<1>7. kern \in Kernel
  BY <1>1, <1>3, <1>4, <1>5, <1>6 DEF Kernel
<1>8. /\ kern.status = st /\ kern.ready = [q \in Prio |-> <<>>] /\ kern.bitmap = {}
      /\ kern.free = first /\ kern.recycle = <<>> /\ kern.run = 1
  BY <1>6
<1>9. \A t \in Task : /\ Has(kern, t, "UNUSED") <=> t > Boot
                      /\ t > Boot => st[t] = {"UNUSED"}
                      /\ ~Has(kern, t, "READY")
  <2>1. \A t \in Task : t \in TCB /\ t # Idle /\ (t # 1 /\ t \notin 2..Boot <=> t > Boot)
    BY <1>1, TCBs DEF Task
  <2> QED BY <2>1, <1>4, <1>8 DEF Has
<1>10. ReadyOK(kern)
  BY <1>5, <1>8, <1>9 DEF ReadyOK
<1>11. st[Idle] = {"READY"} /\ st[Dead] = {"UNUSED"} /\ st[1] = {"RUNNING"}
  <2>1. Dead # Idle /\ Dead # 1 /\ Dead \notin 2..Boot
    BY <1>1 DEF Dead, Idle
  <2> QED BY <2>1, <1>1, <1>4
<1>12. StatusOK(kern)
  BY <1>8, <1>9, <1>11 DEF StatusOK, Has
<1>13. RunsOK(kern)
  BY <1>8, <1>11 DEF RunsOK, Has
<1>14. /\ pc \in [TCB -> PC] /\ child \in [Task -> Task \cup {NoTask}]
       /\ \A t \in Task : pc[t] = IF t > Boot THEN "none" ELSE "run"
       /\ \A t \in Task : child[t] = NoTask
       /\ pendSV \in BOOLEAN /\ tick \in Tick
  <2>1. \A t \in Task : t \in TCB /\ (t \in 0..Boot <=> ~(t > Boot))
    BY <1>1 DEF Task
  <2>2. /\ pc = [t \in TCB |-> IF t \in 0..Boot THEN "run" ELSE "none"]
        /\ child = [t \in Task |-> NoTask] /\ pendSV = FALSE /\ tick = "out"
    BY DEF TaskInit
  <2> QED BY <2>1, <2>2 DEF PC, Tick
<1>15. Life(kern, pc, child)
  BY <1>3, <1>5, <1>8, <1>9, <1>14 DEF Life, Pooled
<1> QED BY <1>7, <1>10, <1>12, <1>13, <1>14, <1>15 DEF TaskInv, Inv, KInv

LEMMA NextInv == TaskInv /\ [TaskNext]_taskVars => TaskInv'
<1> SUFFICES ASSUME TaskInv, [TaskNext]_taskVars PROVE TaskInv'
  OBVIOUS
<1>1. CASE UNCHANGED taskVars
  BY <1>1 DEF taskVars, TaskInv
<1>2. CASE TaskCreateTake        BY <1>2, TakePreserves
<1>3. CASE TaskCreateUnavailable BY <1>3, UnavailablePreserves
<1>4. CASE TaskCreateNoMemory    BY <1>4, NoMemoryPreserves
<1>5. CASE LOS_TaskCreateOnly    BY <1>5, CreateOnlyPreserves
<1>6. CASE TaskCreateInit        BY <1>6, CreateInitPreserves
<1>7. CASE LOS_TaskCreate        BY <1>7, CreatePreserves
<1>8. ASSUME NEW ctx \in Context, NEW t \in Task,
             \/ TaskDeleteOther(ctx, t) \/ OsRunningTaskDelete(ctx, t)
             \/ LOS_TaskSuspend(ctx, t) \/ LOS_TaskResume(ctx, t)
      PROVE  TaskInv'
  BY <1>8, DeleteOtherPreserves, RunningDeletePreserves, SuspendPreserves, ResumePreserves
<1>9. ASSUME NEW t \in Task, NEW p \in Prio, LOS_TaskPriSet(t, p) PROVE TaskInv'
  BY <1>9, PriSetPreserves
<1>10. CASE LOS_TaskDelay  BY <1>10, DelayPreserves
<1>11. CASE LOS_TaskYield  BY <1>11, YieldPreserves
<1>12. CASE LOS_TaskLock   BY <1>12, LockPreserves
<1>13. CASE LOS_TaskUnlock BY <1>13, UnlockPreserves
<1>14. CASE LOS_Schedule   BY <1>14, SchedulePreserves
<1>15. CASE HalPendSV      BY <1>15, PendSVPreserves
<1>16. CASE OsIdleTask     BY <1>16, IdlePreserves
<1>17. CASE AssertSpins    BY <1>1, <1>17 DEF AssertSpins
<1>18. CASE TickSliceEnd \/ TickEnter \/ TickExpire \/ TickExit
  BY <1>18, TickPreserves
<1> QED BY <1>1, <1>2, <1>3, <1>4, <1>5, <1>6, <1>7, <1>8, <1>9, <1>10, <1>11, <1>12,
           <1>13, <1>14, <1>15, <1>16, <1>17, <1>18
        DEF TaskNext, TaskService, TaskSystem

\* Whatever the tasks, the interrupts and the ticks do, the invariant holds.
THEOREM TaskInvariant == TaskSpec => []TaskInv
BY InitInv, NextInv, PTL DEF TaskSpec

\* The variables keep their types (TaskTypeOK), for any number of tasks and
\* priorities: no list ever holds what is not a task, and the running task is
\* one of g_taskCBArray's entries.
THEOREM TaskTypes == TaskSpec => []TaskTypeOK
<1>1. TaskInv => TaskTypeOK
  BY DEF TaskInv, Inv, KInv, TaskTypeOK
<1> QED BY <1>1, TaskInvariant, PTL

\* The ready queues, the bitmap and the tasks' READY bits agree always
\* (OsSchedTaskEnQueue, OsSchedTaskDeQueue and their callers).
THEOREM ReadyQueuesAlwaysAgree == TaskSpec => []ReadyQueuesAgree
<1>1. TaskInv => ReadyQueuesAgree
  BY DEF TaskInv, Inv, KInv, ReadyOK, ReadyQueuesAgree
<1> QED BY <1>1, TaskInvariant, PTL

\* No TCB is handed out twice or reused while its task lives
\* (LOS_TaskCreateOnly, LOS_TaskDelete, OsRecyleFinishedTask).
THEOREM PoolsAlwaysAgree == TaskSpec => []PoolsAgree
<1>1. ASSUME TaskInv PROVE PoolsAgree
  <2>1. \A t \in Task : Has(kern, t, "UNUSED") => kern.status[t] = {"UNUSED"}
    BY <1>1 DEF TaskInv, Inv, KInv, StatusOK
  <2>2. \A t \in Task : pc[t] = "alloc" => child[t] \in Task /\ child[t] # NoTask
    BY <1>1 DEF TaskInv, Inv, Life
  <2> QED BY <1>1, <2>1, <2>2 DEF TaskInv, Inv, Life, PoolsAgree
<1> QED BY <1>1, TaskInvariant, PTL
=============================================================================
