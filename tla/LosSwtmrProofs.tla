--------------------------- MODULE LosSwtmrProofs ---------------------------
(***************************************************************************)
(* Theorems about LosSwtmr, for any number of timers and tasks, any        *)
(* intervals and any length of the tick: the pool and the handles agree    *)
(* with the control blocks, no task waits longer than its time and the     *)
(* latency of the timer, and the whole implements TimerService.            *)
(*                                                                         *)
(* The first sections say what the operators of LosSortLink do to a link   *)
(* as a set of entries, and what OsSchedSetNextExpireTime leaves in the    *)
(* hardware timer.  What OsSwtmrScan does is shown for the first n entries *)
(* that are due; the least n at which that would fail leads to a           *)
(* contradiction.                                                          *)
(***************************************************************************)
EXTENDS LosSwtmr, SequenceTheorems, WellFoundedInduction, TLAPS

-----------------------------------------------------------------------------
(* The sort link.                                                          *)

EntryOf(N) == [node : N, time : Int]

\* Each node is in a link once, and entries that are due earlier come first.
LinkOK(link, N) ==
  /\ link \in Seq(EntryOf(N))
  /\ \A j, k \in 1..Len(link) : link[j].node = link[k].node => j = k
  /\ \A j, k \in 1..Len(link) : j < k => link[j].time <= link[k].time

Entries(link) == {link[i] : i \in 1..Len(link)}

\* Numbers have a least one.
LEMMA LeastNumber ==
  ASSUME NEW B \in SUBSET Nat, B # {}
  PROVE  \E x \in B : \A y \in B : x <= y
<1>1. PICK x \in B : \A y \in B : ~(<<y, x>> \in OpToRel(<, Nat))
  BY NatLessThanWellFounded, WFMin
<1>2. \A y \in B : ~(y < x)
  BY <1>1 DEF OpToRel
<1> QED BY <1>2

\* The nodes of a link are those of its entries.
LEMMA NodesAreEntries ==
  ASSUME NEW N, NEW link, LinkOK(link, N)
  PROVE  /\ Nodes(link) = {x.node : x \in Entries(link)}
         /\ DOMAIN link = 1..Len(link) /\ Len(link) \in Nat
         /\ Entries(link) \subseteq EntryOf(N)
         /\ \A x, y \in Entries(link) : x.node = y.node => x = y
<1>1. DOMAIN link = 1..Len(link) /\ Len(link) \in Nat
      /\ \A i \in 1..Len(link) : link[i] \in EntryOf(N)
  BY DEF LinkOK
<1>2. Nodes(link) = {x.node : x \in Entries(link)}
  BY <1>1 DEF Nodes, Entries
<1> QED BY <1>1, <1>2 DEF Entries, LinkOK

\* A node put at position p moves those behind it on by one.
LEMMA InsertAtProperties ==
  ASSUME NEW S, NEW s \in Seq(S), NEW e \in S, NEW p \in 1..(Len(s) + 1)
  PROVE  /\ InsertAt(s, p, e) \in Seq(S) /\ Len(InsertAt(s, p, e)) = Len(s) + 1
         /\ \A i \in 1..(Len(s) + 1) :
              InsertAt(s, p, e)[i] = IF i < p THEN s[i] ELSE IF i = p THEN e ELSE s[i - 1]
<1> DEFINE n == Len(s)
           a == SubSeq(s, 1, p - 1)
           b == SubSeq(s, p, n)
           ae == a \o <<e>>
<1>1. n \in Nat /\ p \in Int /\ \A i \in 1..n : s[i] \in S
  OBVIOUS
<1>2. a \in Seq(S) /\ Len(a) = p - 1 /\ \A i \in 1..(p - 1) : a[i] = s[i]
  <2>1. \A i \in 1..(p - 1) : s[i] \in S
    BY <1>1
  <2> QED BY <2>1, <1>1, SubSeqProperties
<1>3. b \in Seq(S) /\ Len(b) = n - p + 1 /\ \A i \in 1..(n - p + 1) : b[i] = s[p + i - 1]
  <2>1. \A i \in p..n : s[i] \in S
    BY <1>1
  <2> QED BY <2>1, <1>1, SubSeqProperties
<1>4. <<e>> \in Seq(S) /\ Len(<<e>>) = 1 /\ <<e>>[1] = e
  OBVIOUS
<1> HIDE DEF a, b
<1>5. ae \in Seq(S) /\ Len(ae) = p /\ \A i \in 1..p : ae[i] = IF i < p THEN s[i] ELSE e
  <2>1. /\ ae \in Seq(S) /\ Len(ae) = (p - 1) + 1
        /\ \A i \in 1..((p - 1) + 1) : ae[i] = IF i <= p - 1 THEN a[i] ELSE <<e>>[i - (p - 1)]
    BY <1>2, <1>4, ConcatProperties
  <2> HIDE DEF ae
  <2>2. ASSUME NEW i \in 1..p PROVE ae[i] = IF i < p THEN s[i] ELSE e
    <3>1. CASE i < p
      BY <3>1, <2>1, <1>1, <1>2
    <3>2. CASE i = p
      <4>1. i - (p - 1) = 1 /\ ~(i <= p - 1)
        BY <3>2, <1>1
      <4> QED BY <4>1, <3>2, <2>1, <1>1, <1>4
    <3> QED BY <3>1, <3>2, <1>1
  <2> QED BY <2>1, <2>2, <1>1
<1> HIDE DEF ae
<1>6. /\ ae \o b \in Seq(S) /\ Len(ae \o b) = n + 1
      /\ \A i \in 1..(n + 1) : (ae \o b)[i] = IF i <= p THEN ae[i] ELSE b[i - p]
  <2>1. /\ ae \o b \in Seq(S) /\ Len(ae \o b) = Len(ae) + Len(b)
        /\ \A i \in 1..(Len(ae) + Len(b)) :
             (ae \o b)[i] = IF i <= Len(ae) THEN ae[i] ELSE b[i - Len(ae)]
    BY <1>3, <1>5, ConcatProperties
  <2>2. Len(ae) = p /\ Len(ae) + Len(b) = n + 1
    BY <1>1, <1>3, <1>5
  <2> QED BY <2>1, <2>2
<1>7. InsertAt(s, p, e) = ae \o b
  BY DEF InsertAt, ae, a, b
<1>8. ASSUME NEW i \in 1..(n + 1)
      PROVE (ae \o b)[i] = IF i < p THEN s[i] ELSE IF i = p THEN e ELSE s[i - 1]
  <2>1. CASE i <= p
    <3>1. (ae \o b)[i] = ae[i] /\ i \in 1..p
      BY <2>1, <1>1, <1>6
    <3> QED BY <3>1, <1>1, <1>5
  <2>2. CASE i > p
    <3>1. i - p \in 1..(n - p + 1) /\ p + (i - p) - 1 = i - 1
      BY <2>2, <1>1
    <3>2. (ae \o b)[i] = b[i - p]
      BY <2>2, <1>1, <1>6
    <3>3. b[i - p] = s[i - 1]
      BY <3>1, <1>3
    <3> QED BY <3>2, <3>3, <2>2, <1>1
  <2>3. i \in Int /\ (i <= p \/ i > p)
    BY <1>1
  <2> QED BY <2>1, <2>2, <2>3, Zenon
<1> QED BY <1>6, <1>7, <1>8

\* Removal of the i-th node closes the list up around it.
LEMMA RemoveAtProperties ==
  ASSUME NEW S, NEW s \in Seq(S), NEW i \in 1..Len(s)
  PROVE  /\ RemoveAt(s, i) \in Seq(S)
         /\ Len(RemoveAt(s, i)) = Len(s) - 1
         /\ \A j \in 1..(Len(s) - 1) :
              RemoveAt(s, i)[j] = IF j < i THEN s[j] ELSE s[j + 1]
<1> DEFINE a == SubSeq(s, 1, i - 1)
           b == SubSeq(s, i + 1, Len(s))
<1>1. Len(s) \in Nat /\ i \in Int /\ \A j \in 1..Len(s) : s[j] \in S
  OBVIOUS
<1>2. a \in Seq(S) /\ Len(a) = i - 1 /\ \A j \in 1..(i - 1) : a[j] = s[j]
  <2>1. \A j \in 1..(i - 1) : s[j] \in S
    BY <1>1
  <2> QED BY <2>1, <1>1, SubSeqProperties
<1>3. b \in Seq(S) /\ Len(b) = Len(s) - i /\ \A j \in 1..(Len(s) - i) : b[j] = s[i + j]
  <2>1. \A j \in (i + 1)..Len(s) : s[j] \in S
    BY <1>1
  <2>2. /\ b \in Seq(S)
        /\ Len(b) = IF i + 1 <= Len(s) THEN Len(s) - (i + 1) + 1 ELSE 0
        /\ \A j \in 1..(Len(s) - (i + 1) + 1) : b[j] = s[(i + 1) + j - 1]
    BY <2>1, <1>1, SubSeqProperties
  <2> QED BY <2>2, <1>1
<1>4. RemoveAt(s, i) = a \o b
  BY DEF RemoveAt
<1>5. /\ a \o b \in Seq(S)
      /\ Len(a \o b) = Len(a) + Len(b)
      /\ \A j \in 1..(Len(a) + Len(b)) :
           (a \o b)[j] = IF j <= Len(a) THEN a[j] ELSE b[j - Len(a)]
  BY <1>2, <1>3, ConcatProperties
<1> HIDE DEF a, b
<1> QED BY <1>1, <1>2, <1>3, <1>4, <1>5

\* A link with e put between what is due earlier and what is due later.
LEMMA Inserted ==
  ASSUME NEW N, NEW link, LinkOK(link, N), NEW e \in EntryOf(N), e.node \notin Nodes(link),
         NEW p \in 1..(Len(link) + 1), NEW w \in Seq(EntryOf(N)), Len(w) = Len(link) + 1,
         \A i \in 1..(Len(link) + 1) :
           w[i] = IF i < p THEN link[i] ELSE IF i = p THEN e ELSE link[i - 1],
         \A i \in 1..Len(link) : IF i < p THEN link[i].time <= e.time ELSE e.time <= link[i].time
  PROVE  LinkOK(w, N) /\ Entries(w) = Entries(link) \cup {e}
<1> DEFINE n == Len(link)
<1>1. /\ n \in Nat /\ p \in 1..(n + 1)
      /\ \A i \in 1..n : link[i] \in EntryOf(N) /\ link[i].time \in Int /\ link[i].node # e.node
      /\ e.time \in Int
  BY NodesAreEntries DEF Entries, EntryOf
<1>2. \A j, k \in 1..n : link[j].node = link[k].node => j = k
  BY DEF LinkOK
<1>3. \A j, k \in 1..n : j < k => link[j].time <= link[k].time
  BY DEF LinkOK
<1> DEFINE From(i) == IF i < p THEN i ELSE i - 1
<1>4. \A i \in 1..(n + 1) : i # p => From(i) \in 1..n /\ w[i] = link[From(i)]
  BY <1>1
<1>5. w[p] = e
  BY <1>1
<1>6. \A j, k \in 1..(n + 1) : j # p /\ k # p /\ From(j) = From(k) => j = k
  BY <1>1
<1>7. \A j, k \in 1..(n + 1) : j # p /\ k # p /\ j < k => From(j) < From(k)
  BY <1>1
<1>8. \A j \in 1..(n + 1) : /\ j < p => From(j) < p
                            /\ j > p => From(j) >= p
  BY <1>1
<1> HIDE DEF From
<1>9. ASSUME NEW j \in 1..(n + 1), NEW k \in 1..(n + 1), w[j].node = w[k].node PROVE j = k
  <2>1. CASE j = p \/ k = p
    <3>1. \A i \in 1..(n + 1) : i # p => w[i].node # e.node
      BY <1>1, <1>4
    <3> QED BY <3>1, <2>1, <1>5, <1>9
  <2>2. CASE j # p /\ k # p
    <3>1. From(j) = From(k)
      BY <2>2, <1>2, <1>4, <1>9
    <3> QED BY <3>1, <2>2, <1>6
  <2> QED BY <2>1, <2>2
<1>10. ASSUME NEW j \in 1..(n + 1), NEW k \in 1..(n + 1), j < k PROVE w[j].time <= w[k].time
  <2>1. CASE j = p
    <3>1. k # p /\ k > p /\ From(k) \in 1..n /\ From(k) >= p /\ w[k] = link[From(k)]
      BY <2>1, <1>1, <1>4, <1>8, <1>10
    <3> QED BY <3>1, <2>1, <1>1, <1>5
  <2>2. CASE k = p
    <3>1. j # p /\ From(j) \in 1..n /\ From(j) < p /\ w[j] = link[From(j)]
      BY <2>2, <1>1, <1>4, <1>8, <1>10
    <3> QED BY <3>1, <2>2, <1>1, <1>5
  <2>3. CASE j # p /\ k # p
    <3>1. From(j) < From(k) /\ From(j) \in 1..n /\ From(k) \in 1..n
      BY <2>3, <1>4, <1>7, <1>10
    <3> QED BY <3>1, <2>3, <1>3, <1>4
  <2> QED BY <2>1, <2>2, <2>3
<1>11. Entries(w) = Entries(link) \cup {e}
  <2>1. ASSUME NEW i \in 1..(n + 1) PROVE w[i] \in Entries(link) \cup {e}
    BY <1>4, <1>5 DEF Entries
  <2>2. ASSUME NEW i \in 1..n PROVE \E j \in 1..(n + 1) : w[j] = link[i]
    <3>1. CASE i < p
      BY <3>1, <1>1
    <3>2. CASE i >= p
      <4>1. i + 1 \in 1..(n + 1) /\ w[i + 1] = link[i]
        BY <3>2, <1>1
      <4> QED BY <4>1
    <3> QED BY <3>1, <3>2, <1>1
  <2> QED BY <2>1, <2>2, <1>1, <1>5 DEF Entries
<1> QED BY <1>9, <1>10, <1>11 DEF LinkOK

\* OsAddNode2SortLink adds the entry where it belongs.
LEMMA AddEffect ==
  ASSUME NEW N, NEW link, LinkOK(link, N), NEW e \in EntryOf(N), e.node \notin Nodes(link)
  PROVE  /\ LinkOK(OsAddNode2SortLink(link, e), N)
         /\ Entries(OsAddNode2SortLink(link, e)) = Entries(link) \cup {e}
<1> DEFINE n == Len(link)
<1>1. /\ link \in Seq(EntryOf(N)) /\ n \in Nat /\ DOMAIN link = 1..n /\ e.time \in Int
      /\ \A i \in 1..n : link[i].time \in Int
      /\ \A j, k \in 1..n : j < k => link[j].time <= link[k].time
  <2>1. link \in Seq(EntryOf(N)) /\ \A j, k \in 1..n : j < k => link[j].time <= link[k].time
    BY DEF LinkOK
  <2>2. n \in Nat /\ DOMAIN link = 1..n /\ \A i \in 1..n : link[i] \in EntryOf(N)
    BY <2>1
  <2>3. \A x \in EntryOf(N) : x.time \in Int
    BY DEF EntryOf
  <2> QED BY <2>1, <2>2, <2>3
<1>2. link # <<>> => 1 \in 1..n /\ Head(link) = link[1]
  BY <1>1
<1>3. CASE link = <<>> \/ Head(link).time >= e.time
  <2> DEFINE w == <<e>> \o link
  <2>1. OsAddNode2SortLink(link, e) = w
    BY <1>3 DEF OsAddNode2SortLink
  <2>2. <<e>> \in Seq(EntryOf(N)) /\ Len(<<e>>) = 1 /\ <<e>>[1] = e
    OBVIOUS
  <2>3. /\ w \in Seq(EntryOf(N)) /\ Len(w) = 1 + n
        /\ \A i \in 1..(1 + n) : w[i] = IF i <= 1 THEN <<e>>[i] ELSE link[i - 1]
    BY <2>2, <1>1, ConcatProperties
  <2> HIDE DEF w
  <2>4. \A i \in 1..(n + 1) : w[i] = IF i < 1 THEN link[i] ELSE IF i = 1 THEN e ELSE link[i - 1]
    BY <2>2, <2>3, <1>1
  <2>5. ASSUME NEW i \in 1..n PROVE ~(i < 1) /\ e.time <= link[i].time
    <3>1. link # <<>> /\ link[1].time >= e.time
      BY <1>1, <1>2, <1>3
    <3>2. i = 1 \/ link[1].time <= link[i].time
      BY <1>1
    <3> QED BY <3>1, <3>2, <1>1
  <2>6. Len(w) = n + 1 /\ 1 \in 1..(n + 1)
    BY <2>3, <1>1
  <2> QED BY <2>1, <2>3, <2>4, <2>5, <2>6, Inserted
<1>4. CASE link # <<>> /\ ~(Head(link).time >= e.time)
  <2> DEFINE IsLast(i) == /\ link[i].time <= e.time
                          /\ \A j \in DOMAIN link : j > i => link[j].time > e.time
             last == CHOOSE i \in DOMAIN link : IsLast(i)
             B == {i \in Nat : i <= n /\ \A j \in 1..n : j > i => link[j].time > e.time}
  <2>1. \E i \in DOMAIN link : IsLast(i)
    <3>1. n \in B
      BY <1>1
    <3>2. B \in SUBSET Nat /\ B # {}
      BY <3>1
    <3>3. PICK x \in B : \A y \in B : x <= y
      BY <3>2, LeastNumber
    <3>4. x \in Nat /\ x <= n /\ \A j \in 1..n : j > x => link[j].time > e.time
      BY <3>3
    <3>5. x # 0
      BY <3>4, <1>1, <1>2, <1>4
    <3>6. link[x].time <= e.time
      <4>1. x - 1 \notin B
        <5> HIDE DEF B
        <5> QED BY <3>3, <3>4
      <4>2. PICK j \in 1..n : j > x - 1 /\ ~(link[j].time > e.time)
        BY <4>1, <3>4, <3>5
      <4>3. j = x
        BY <4>2, <3>4
      <4> QED BY <4>2, <4>3, <1>1
    <3> QED BY <3>4, <3>5, <3>6, <1>1
  <2>2. last \in 1..n /\ IsLast(last)
    BY <2>1, <1>1
  <2> HIDE DEF last
  <2>3. OsAddNode2SortLink(link, e) = InsertAt(link, last + 1, e)
    BY <1>4 DEF OsAddNode2SortLink, last
  <2> DEFINE w == InsertAt(link, last + 1, e)
  <2>4. last + 1 \in 1..(n + 1)
    BY <2>2, <1>1
  <2>5. /\ w \in Seq(EntryOf(N)) /\ Len(w) = n + 1
        /\ \A i \in 1..(n + 1) :
             w[i] = IF i < last + 1 THEN link[i] ELSE IF i = last + 1 THEN e ELSE link[i - 1]
    <3>1. PICK p : p = last + 1
      OBVIOUS
    <3>2. p \in 1..(Len(link) + 1)
      BY <2>4, <3>1
    <3>3. /\ InsertAt(link, p, e) \in Seq(EntryOf(N)) /\ Len(InsertAt(link, p, e)) = n + 1
          /\ \A i \in 1..(n + 1) :
               InsertAt(link, p, e)[i] = IF i < p THEN link[i] ELSE IF i = p THEN e ELSE link[i - 1]
      <4>1. link \in Seq(EntryOf(N)) /\ n = Len(link)
        BY <1>1
      <4> QED BY <4>1, <3>2, InsertAtProperties
    <3> QED BY <3>1, <3>3, Zenon
  <2> HIDE DEF w
  <2>6. ASSUME NEW i \in 1..n
        PROVE  IF i < last + 1 THEN link[i].time <= e.time ELSE e.time <= link[i].time
    <3>1. CASE i < last + 1
      <4>1. i = last \/ link[i].time <= link[last].time
        BY <3>1, <2>2, <1>1
      <4> QED BY <4>1, <3>1, <2>2, <1>1
    <3>2. CASE ~(i < last + 1)
      BY <3>2, <2>2, <1>1
    <3> QED BY <3>1, <3>2
  <2>7. LinkOK(w, N) /\ Entries(w) = Entries(link) \cup {e}
    BY <2>4, <2>5, <2>6, Inserted
  <2> QED BY <2>3, <2>7 DEF w
<1> QED BY <1>3, <1>4

\* Some entries of a link, in the same order.
LEMMA Selected ==
  ASSUME NEW N, NEW link, LinkOK(link, N), NEW w \in Seq(EntryOf(N)),
         NEW f \in [1..Len(w) -> 1..Len(link)],
         \A j, k \in 1..Len(w) : j < k => f[j] < f[k],
         \A j \in 1..Len(w) : w[j] = link[f[j]]
  PROVE  LinkOK(w, N)
<1>1. Len(w) \in Nat /\ Len(link) \in Nat
  BY DEF LinkOK
<1>2. \A j, k \in 1..Len(w) : f[j] = f[k] => j = k
  <2>1. ASSUME NEW j \in 1..Len(w), NEW k \in 1..Len(w), f[j] = f[k] PROVE j = k
    <3>1. ~(f[j] < f[k]) /\ ~(f[k] < f[j])
      BY <2>1, <1>1
    <3> QED BY <3>1, <1>1
  <2> QED BY <2>1
<1>3. \A j, k \in 1..Len(w) : w[j].node = w[k].node => j = k
  BY <1>2 DEF LinkOK
<1>4. \A j, k \in 1..Len(w) : j < k => w[j].time <= w[k].time
  BY DEF LinkOK
<1> QED BY <1>3, <1>4 DEF LinkOK

\* OsDeleteSortLink takes out the entry of the node, if there is one.
LEMMA DeleteEffect ==
  ASSUME NEW N, NEW link, LinkOK(link, N), NEW d
  PROVE  /\ LinkOK(OsDeleteSortLink(link, d), N)
         /\ Entries(OsDeleteSortLink(link, d)) = {x \in Entries(link) : x.node # d}
<1> DEFINE n == Len(link)
<1>1. /\ link \in Seq(EntryOf(N)) /\ n \in Nat /\ DOMAIN link = 1..n
      /\ Nodes(link) = {x.node : x \in Entries(link)}
  BY NodesAreEntries DEF LinkOK
<1>2. CASE d \notin Nodes(link)
  <2>1. OsDeleteSortLink(link, d) = link
    BY <1>2 DEF OsDeleteSortLink
  <2>2. \A x \in Entries(link) : x.node # d
    BY <1>1, <1>2
  <2> QED BY <2>1, <2>2
<1>3. CASE d \in Nodes(link)
  <2> DEFINE i == CHOOSE j \in DOMAIN link : link[j].node = d
             w == RemoveAt(link, i)
             f == [j \in 1..(n - 1) |-> IF j < i THEN j ELSE j + 1]
  <2>1. i \in 1..n /\ link[i].node = d
    <3>1. \E j \in DOMAIN link : link[j].node = d
      BY <1>3 DEF Nodes
    <3> QED BY <3>1, <1>1
  <2>2. OsDeleteSortLink(link, d) = w
    BY <1>3 DEF OsDeleteSortLink
  <2> HIDE DEF i
  <2>3. /\ w \in Seq(EntryOf(N)) /\ Len(w) = n - 1
        /\ \A j \in 1..(n - 1) : w[j] = IF j < i THEN link[j] ELSE link[j + 1]
    BY <2>1, <1>1, RemoveAtProperties
  <2> HIDE DEF w
  <2>4. f \in [1..(n - 1) -> 1..n] /\ \A j, k \in 1..(n - 1) : j < k => f[j] < f[k]
    BY <2>1, <1>1
  <2>5. \A j \in 1..(n - 1) : w[j] = link[f[j]] /\ f[j] # i
    BY <2>1, <2>3, <1>1
  <2>6. LinkOK(w, N)
    <3> HIDE DEF f
    <3>1. PICK m : m = n - 1
      OBVIOUS
    <3>2. /\ Len(w) = m /\ w \in Seq(EntryOf(N)) /\ f \in [1..m -> 1..n]
          /\ \A j, k \in 1..m : j < k => f[j] < f[k]
          /\ \A j \in 1..m : w[j] = link[f[j]]
      BY <3>1, <2>3, <2>4, <2>5
    <3> QED BY <3>2, Selected
  <2>7. ASSUME NEW j \in 1..(n - 1) PROVE w[j] \in Entries(link) /\ w[j].node # d
    <3>1. f[j] \in 1..n /\ f[j] # i /\ w[j] = link[f[j]]
      BY <2>4, <2>5
    <3> QED BY <3>1, <2>1 DEF LinkOK, Entries
  <2>8. ASSUME NEW k \in 1..n, link[k].node # d PROVE \E j \in 1..(n - 1) : w[j] = link[k]
    <3>1. CASE k < i
      <4>1. k \in 1..(n - 1)
        BY <3>1, <2>1, <1>1
      <4> QED BY <4>1, <3>1, <2>3
    <3>2. CASE k > i
      <4>1. k - 1 \in 1..(n - 1) /\ ~(k - 1 < i) /\ (k - 1) + 1 = k
        BY <3>2, <2>1, <1>1
      <4>2. w[k - 1] = link[k]
        BY <4>1, <2>3
      <4> QED BY <4>1, <4>2
    <3> QED BY <3>1, <3>2, <2>1, <2>8, <1>1
  <2>9. Entries(w) = {x \in Entries(link) : x.node # d}
    BY <2>3, <2>7, <2>8 DEF Entries
  <2> QED BY <2>2, <2>6, <2>9
<1> QED BY <1>2, <1>3

\* What is due is the front of the link, and the rest is to come.
LEMMA ScannedEffect ==
  ASSUME NEW N, NEW link, LinkOK(link, N)
  PROVE  LET due == Scanned(link)
             rest == SubSeq(link, Len(due) + 1, Len(link)) IN
         /\ LinkOK(due, N) /\ Entries(due) = {x \in Entries(link) : x.time <= 0}
         /\ Len(due) \in Nat /\ Len(due) <= Len(link)
         /\ LinkOK(rest, N) /\ Entries(rest) = {x \in Entries(link) : x.time > 0}
<1> DEFINE n == Len(link)
           IsEnd(m) == /\ \A i \in 1..m : link[i].time <= 0
                       /\ m < n => link[m + 1].time > 0
           e == CHOOSE m \in 0..n : IsEnd(m)
           due == SubSeq(link, 1, e)
           rest == SubSeq(link, e + 1, n)
<1>1. /\ link \in Seq(EntryOf(N)) /\ n \in Nat /\ DOMAIN link = 1..n
      /\ \A i \in 1..n : link[i] \in EntryOf(N)
      /\ \A i, j \in 1..n : i < j => link[i].time <= link[j].time
  BY DEF LinkOK
<1>2. \A i \in 1..n : link[i].time \in Int
  BY <1>1 DEF EntryOf
<1>3. e \in 0..n /\ IsEnd(e)
  <2> DEFINE B == {m \in Nat : m <= n /\ (m < n => link[m + 1].time > 0)}
  <2>1. B \in SUBSET Nat /\ n \in B
    BY <1>1
  <2>2. PICK m \in B : \A y \in B : m <= y
    BY <2>1, LeastNumber
  <2>3. m \in 0..n /\ (m < n => link[m + 1].time > 0)
    BY <2>2, <1>1
  <2>4. ASSUME NEW i \in 1..m PROVE link[i].time <= 0
    <3>1. i - 1 \in Nat /\ i - 1 < m /\ i - 1 < n
      BY <2>3, <1>1
    <3>2. i - 1 \notin B
      <4> HIDE DEF B
      <4> QED BY <3>1, <2>2, <2>3
    <3>3. ~(link[(i - 1) + 1].time > 0) /\ (i - 1) + 1 = i /\ i \in 1..n
      BY <3>1, <3>2, <2>3, <1>1
    <3> QED BY <3>3, <1>2
  <2>5. IsEnd(m)
    BY <2>3, <2>4
  <2> QED BY <2>3, <2>5
<1> HIDE DEF e
<1>4. Scanned(link) = due
  BY DEF Scanned, e
<1>5. /\ due \in Seq(EntryOf(N)) /\ Len(due) = e /\ \A i \in 1..e : due[i] = link[i]
  <2>1. \A i \in 1..e : link[i] \in EntryOf(N)
    BY <1>1, <1>3
  <2> QED BY <2>1, <1>1, <1>3, SubSeqProperties
<1>6. /\ rest \in Seq(EntryOf(N)) /\ Len(rest) = n - e /\ \A i \in 1..(n - e) : rest[i] = link[e + i]
  <2>1. \A i \in (e + 1)..n : link[i] \in EntryOf(N)
    BY <1>1, <1>3
  <2>2. /\ rest \in Seq(EntryOf(N))
        /\ Len(rest) = IF e + 1 <= n THEN n - (e + 1) + 1 ELSE 0
        /\ \A i \in 1..(n - (e + 1) + 1) : rest[i] = link[(e + 1) + i - 1]
    BY <2>1, <1>1, <1>3, SubSeqProperties
  <2> QED BY <2>2, <1>1, <1>3
<1> HIDE DEF due, rest
<1>7. LinkOK(due, N)
  <2> DEFINE f == [i \in 1..e |-> i]
  <2>1. f \in [1..e -> 1..n] /\ \A j, k \in 1..e : j < k => f[j] < f[k]
    BY <1>1, <1>3
  <2>2. \A j \in 1..e : due[j] = link[f[j]]
    BY <1>5
  <2> HIDE DEF f
  <2> QED BY <2>1, <2>2, <1>5, Selected
<1>8. LinkOK(rest, N)
  <2> DEFINE f == [i \in 1..(n - e) |-> e + i]
  <2>1. f \in [1..(n - e) -> 1..n] /\ \A j, k \in 1..(n - e) : j < k => f[j] < f[k]
    BY <1>1, <1>3
  <2>2. \A j \in 1..(n - e) : rest[j] = link[f[j]]
    BY <1>6
  <2> HIDE DEF f
  <2> QED BY <2>1, <2>2, <1>6, Selected
<1>9. \A i \in 1..n : link[i].time <= 0 <=> i <= e
  <2>1. ASSUME NEW i \in 1..n, i > e PROVE link[i].time > 0
    <3>1. e + 1 \in 1..n /\ link[e + 1].time > 0
      BY <2>1, <1>1, <1>3
    <3>2. i = e + 1 \/ link[e + 1].time <= link[i].time
      BY <3>1, <2>1, <1>1, <1>3
    <3> QED BY <3>1, <3>2, <1>2
  <2>2. ASSUME NEW i \in 1..n, i <= e PROVE link[i].time <= 0
    BY <2>2, <1>1, <1>3
  <2> QED BY <2>1, <2>2, <1>2, <1>3
<1>10. Entries(due) = {x \in Entries(link) : x.time <= 0}
  <2>1. ASSUME NEW i \in 1..e PROVE due[i] \in Entries(link) /\ due[i].time <= 0
    BY <1>3, <1>5 DEF Entries
  <2>2. ASSUME NEW i \in 1..n, link[i].time <= 0 PROVE \E j \in 1..e : due[j] = link[i]
    <3>1. i \in 1..e
      BY <2>2, <1>3, <1>9
    <3> QED BY <3>1, <1>5
  <2> QED BY <2>1, <2>2, <1>5 DEF Entries
<1>11. Entries(rest) = {x \in Entries(link) : x.time > 0}
  <2>1. ASSUME NEW i \in 1..(n - e) PROVE rest[i] \in Entries(link) /\ rest[i].time > 0
    <3>1. e + i \in 1..n /\ ~(e + i <= e) /\ rest[i] = link[e + i]
      BY <1>1, <1>3, <1>6
    <3>2. link[e + i].time > 0
      BY <3>1, <1>2, <1>9
    <3> QED BY <3>1, <3>2 DEF Entries
  <2>2. ASSUME NEW i \in 1..n, link[i].time > 0 PROVE \E j \in 1..(n - e) : rest[j] = link[i]
    <3>1. ~(i <= e)
      BY <2>2, <1>2, <1>9
    <3>2. i - e \in 1..(n - e) /\ e + (i - e) = i
      BY <3>1, <1>1, <1>3
    <3>3. rest[i - e] = link[i]
      BY <3>2, <1>6
    <3> QED BY <3>2, <3>3
  <2> QED BY <2>1, <2>2, <1>6 DEF Entries
<1>12. Len(due) \in Nat /\ Len(due) <= n /\ rest = SubSeq(link, Len(due) + 1, n)
  BY <1>3, <1>5 DEF rest
<1> QED BY <1>4, <1>7, <1>8, <1>10, <1>11, <1>12

-----------------------------------------------------------------------------
(* The hardware timer.                                                     *)

\* What next says of the times S at which something is due: it is not after any
\* that is to come, and soon if one has come.
NextOf(next, S) ==
  /\ next \in Nat
  /\ S = {} => next = Never
  /\ S # {} => next <= Never - OS_CYCLE_PER_TICK
  /\ \A t \in S : /\ t > 0 => next <= t
                  /\ t <= 0 => next <= OS_US_PER_TICK

TimesOf(link) == {x.time : x \in Entries(link)}

\* What OsSchedSetNextExpireTime asks for is not after any entry of a link.
LEMMA NextExpire ==
  ASSUME NEW N, NEW link, LinkOK(link, N),
         \A t \in TimesOf(link) : t <= Never - OS_CYCLE_PER_TICK
  PROVE  NextOf(OsGetSortLinkNextExpireTime(link), TimesOf(link))
<1> DEFINE n == Len(link)
           due == {i \in DOMAIN link : link[i].time <= 0}
           toCome == DOMAIN link \ due
           first == CHOOSE i \in toCome : \A j \in toCome : i <= j
           next == OsGetSortLinkNextExpireTime(link)
<1>1. /\ n \in Nat /\ DOMAIN link = 1..n /\ (link = <<>> <=> n = 0)
      /\ \A i \in 1..n : link[i] \in EntryOf(N)
      /\ \A i, j \in 1..n : i < j => link[i].time <= link[j].time
  BY DEF LinkOK
<1>2. /\ \A i \in 1..n : link[i].time \in Int /\ link[i].time \in TimesOf(link)
      /\ \A t \in TimesOf(link) : \E i \in 1..n : t = link[i].time
  BY <1>1 DEF EntryOf, TimesOf, Entries
<1>3. /\ OS_CYCLE_PER_TICK \in Nat \ {0} /\ OS_US_PER_TICK \in Nat /\ Never \in Nat
      /\ Never - OS_CYCLE_PER_TICK \in Nat
  BY TickAssumption
<1>4. toCome # {} => first \in 1..n /\ link[first].time > 0
                     /\ \A j \in toCome : link[first].time <= link[j].time
  <2> HAVE toCome # {}
  <2>1. toCome \in SUBSET Nat
    BY <1>1
  <2>2. \E i \in toCome : \A j \in toCome : i <= j
    <3> HIDE DEF toCome
    <3> QED BY <2>1, LeastNumber
  <2>3. first \in toCome /\ \A j \in toCome : first <= j
    <3> HIDE DEF toCome
    <3> QED BY <2>2
  <2> HIDE DEF first
  <2>4. first \in 1..n /\ link[first].time > 0
    BY <2>3, <1>1, <1>2
  <2>5. ASSUME NEW j \in toCome PROVE link[first].time <= link[j].time
    <3>1. first <= j /\ j \in 1..n
      BY <2>3, <1>1
    <3> QED BY <3>1, <2>4, <1>1, <1>2
  <2> QED BY <2>4, <2>5
<1>5. next = IF link = <<>> THEN Never
             ELSE IF toCome = {} THEN 0
             ELSE IF due = {} \/ link[first].time <= OS_US_PER_TICK THEN link[first].time
             ELSE 0
  BY DEF OsGetSortLinkNextExpireTime
<1> HIDE DEF first, next
<1>6. ASSUME NEW t \in TimesOf(link)
      PROVE  /\ link # <<>>
             /\ t > 0 => toCome # {} /\ link[first].time <= t
             /\ t <= 0 => due # {}
  <2>1. PICK i \in 1..n : t = link[i].time
    BY <1>2
  <2>2. t > 0 => i \in toCome
    BY <2>1, <1>1, <1>2
  <2>3. t <= 0 => i \in due
    BY <2>1, <1>1
  <2> HIDE DEF toCome, due
  <2> QED BY <2>1, <2>2, <2>3, <1>1, <1>4
<1>7. toCome # {} => link[first].time \in Nat /\ link[first].time <= Never - OS_CYCLE_PER_TICK
  BY <1>2, <1>3, <1>4
<1>8. TimesOf(link) = {} <=> link = <<>>
  BY <1>1, <1>2
<1> HIDE DEF toCome, due
<1>9. next \in Nat
  BY <1>3, <1>5, <1>7
<1>10. TimesOf(link) = {} => next = Never
  BY <1>5, <1>8
<1>11. TimesOf(link) # {} => next <= Never - OS_CYCLE_PER_TICK
  BY <1>3, <1>5, <1>7, <1>8
<1>12. ASSUME NEW t \in TimesOf(link), t > 0 PROVE next <= t
  <2>1. t \in Int /\ link # <<>> /\ toCome # {} /\ link[first].time <= t
    BY <1>12, <1>2, <1>6
  <2>2. next = link[first].time \/ next = 0
    BY <2>1, <1>5
  <2> QED BY <2>1, <2>2, <1>12
<1>13. ASSUME NEW t \in TimesOf(link), t <= 0 PROVE next <= OS_US_PER_TICK
  <2>1. t \in Int /\ link # <<>> /\ due # {}
    BY <1>13, <1>2, <1>6
  <2>2. next = 0 \/ (next = link[first].time /\ link[first].time <= OS_US_PER_TICK)
    BY <2>1, <1>5
  <2> QED BY <2>2, <1>3
<1> QED BY <1>9, <1>10, <1>11, <1>12, <1>13 DEF NextOf, next

\* Of both links.
LEMMA NextOfBoth ==
  ASSUME NEW N, NEW a, LinkOK(a, N), NEW M, NEW b, LinkOK(b, M),
         \A t \in TimesOf(a) \cup TimesOf(b) : t <= Never - OS_CYCLE_PER_TICK
  PROVE  NextOf(OsGetNextExpireTime(a, b), TimesOf(a) \cup TimesOf(b))
<1> DEFINE A == TimesOf(a)  B == TimesOf(b)
           ta == OsGetSortLinkNextExpireTime(a)
           tb == OsGetSortLinkNextExpireTime(b)
<1>1. NextOf(ta, A) /\ NextOf(tb, B)
  BY NextExpire
<1>2. OsGetNextExpireTime(a, b) = IF ta < tb THEN ta ELSE tb
  BY DEF OsGetNextExpireTime
<1>3. OS_CYCLE_PER_TICK \in Nat /\ OS_US_PER_TICK \in Nat /\ Never \in Nat
  BY TickAssumption
<1>4. A \subseteq Int /\ B \subseteq Int
  <2>1. Entries(a) \subseteq EntryOf(N) /\ Entries(b) \subseteq EntryOf(M)
    BY NodesAreEntries
  <2> QED BY <2>1 DEF TimesOf, EntryOf
<1> HIDE DEF A, B, ta, tb
<1>5. NextOf(IF ta < tb THEN ta ELSE tb, A \cup B)
  BY <1>1, <1>3, <1>4 DEF NextOf
<1> QED BY <1>2, <1>5 DEF A, B

\* How late what is due at time t may be when the timer fires: the timer gains a
\* tick or is left alone, and if it fires for a slice, another tick follows.
Slack(tm) == OS_CYCLE_PER_TICK - 1 + (IF tm.slice THEN 0 ELSE OS_CYCLE_PER_TICK + Latency)

\* The timer tm is in time for S; it is not running only if nothing is to come,
\* or a switch is about to set it.
TimerOK(tm, S, sw) ==
  /\ tm \in Timer
  /\ \A t \in S : t \in Int /\ t <= Never - OS_CYCLE_PER_TICK
  /\ tm.time = Never => (\A t \in S : t > 0) /\ (S = {} \/ sw)
  /\ tm.time # Never => /\ -Latency <= tm.time /\ tm.time <= OS_TICK_RESPONSE_TIME_MAX
                        /\ \A t \in S : t >= tm.time - Slack(tm)

\* What it needs before it is set: an entry may be new, or left by a slice.
MayBeSet(tm, S) ==
  /\ tm \in Timer
  /\ \A t \in S : t \in Int /\ t <= Never - OS_CYCLE_PER_TICK
  /\ tm.time = Never => \A t \in S : t > -OS_CYCLE_PER_TICK - Latency
  /\ tm.time # Never => /\ -Latency <= tm.time /\ tm.time <= OS_TICK_RESPONSE_TIME_MAX
                        /\ \A t \in S : t >= OS_CYCLE_PER_TICK \/ t >= tm.time - Slack(tm)

\* Setting the timer makes it right.
LEMMA TimerIsSet ==
  ASSUME NEW tm, NEW S, MayBeSet(tm, S), NEW next, NextOf(next, S), NEW end \in Slice \cup {Never}
  PROVE  TimerOK(OsSchedSetNextExpireTime(tm, next, end), S, FALSE)
<1> DEFINE C == OS_CYCLE_PER_TICK
           isTimeSlice == end < next
           t == IF isTimeSlice THEN end ELSE next
           gains == tm.time > t /\ tm.time - t >= C
           tooSoon == t < C /\ Reload(t) >= tm.time
           new == OsSchedSetNextExpireTime(tm, next, end)
<1>1. /\ C \in Nat \ {0} /\ OS_US_PER_TICK \in Nat /\ OS_US_PER_TICK <= C
      /\ OS_TICK_RESPONSE_TIME_MAX \in Nat /\ C <= OS_TICK_RESPONSE_TIME_MAX
      /\ Never \in Nat /\ Never >= OS_TICK_RESPONSE_TIME_MAX + C
      /\ Latency \in Nat /\ end \in Nat \ {0} /\ end >= OS_US_PER_TICK
  BY TickAssumption, SwtmrAssumption, SliceAssumption
<1>2. tm.time \in Int /\ tm.slice \in BOOLEAN /\ next \in Nat /\ \A u \in S : u \in Int
  BY DEF MayBeSet, Timer, NextOf
<1>3. new = IF gains /\ ~tooSoon THEN [time |-> Reload(t), slice |-> isTimeSlice] ELSE tm
  BY DEF OsSchedSetNextExpireTime
<1>4. t \in Nat /\ Reload(t) \in C..OS_TICK_RESPONSE_TIME_MAX
      /\ (Reload(t) <= t \/ Reload(t) = C)
  BY <1>1, <1>2 DEF Reload
<1>5. \A u \in S : /\ u > 0 => t <= u
                   /\ u <= 0 => ~isTimeSlice /\ t <= C
  BY <1>1, <1>2 DEF NextOf
<1>6. S # {} => t <= Never - C
  BY <1>1, <1>2 DEF NextOf
<1>9. isTimeSlice \in BOOLEAN
  OBVIOUS
<1> HIDE DEF isTimeSlice, t
<1>7. CASE gains /\ ~tooSoon
  <2>1. new.time = Reload(t) /\ new.slice = isTimeSlice /\ new \in Timer /\ new.time # Never
    BY <1>7, <1>1, <1>3, <1>4, <1>9 DEF Timer
  <2>2. ASSUME NEW u \in S PROVE u >= Reload(t) - Slack(new)
    <3>1. CASE u > 0
      BY <3>1, <1>1, <1>2, <1>4, <1>5, <2>1 DEF Slack
    <3>2. CASE u <= 0
      <4>1. ~isTimeSlice /\ t <= C /\ Reload(t) = C
        BY <3>2, <1>1, <1>4, <1>5 DEF Reload
      <4>2. Slack(new) = C - 1 + (C + Latency)
        BY <4>1, <2>1 DEF Slack
      <4>3. u > -C - Latency \/ u >= tm.time - Slack(tm)
        BY <3>2, <1>1 DEF MayBeSet
      <4>4. tm.time >= C /\ Slack(tm) <= C - 1 + (C + Latency) /\ Slack(tm) \in Int
        BY <1>1, <1>2, <1>4, <1>7 DEF Slack
      <4> QED BY <4>1, <4>2, <4>3, <4>4, <1>1, <1>2
    <3> QED BY <3>1, <3>2, <1>2
  <2> HIDE DEF new
  <2>3. TimerOK(new, S, FALSE)
    BY <2>1, <2>2, <1>1, <1>4 DEF TimerOK, MayBeSet
  <2> QED BY <2>3 DEF new
<1>8. CASE ~(gains /\ ~tooSoon)
  <2>1. new = tm
    BY <1>8, <1>3
  <2>2. CASE tm.time = Never
    <3>1. S = {}
      <4>1. SUFFICES ASSUME S # {} PROVE FALSE
        OBVIOUS
      <4>2. gains
        BY <4>1, <2>2, <1>1, <1>4, <1>6
      <4>3. ~tooSoon
        BY <2>2, <1>1, <1>4
      <4> QED BY <4>2, <4>3, <1>8
    <3> QED BY <3>1, <2>1, <2>2 DEF TimerOK, MayBeSet
  <2>3. CASE tm.time # Never
    <3>1. tm.time - t < C \/ tm.time <= C
      BY <1>1, <1>2, <1>4, <1>8 DEF Reload
    <3>2. ASSUME NEW u \in S PROVE u >= tm.time - Slack(tm)
      <4>1. CASE u >= C
        <5>1. t <= u /\ Slack(tm) >= C - 1 /\ Slack(tm) \in Int
          BY <4>1, <1>1, <1>2, <1>5 DEF Slack
        <5> QED BY <5>1, <4>1, <3>1, <1>1, <1>2, <1>4
      <4>2. CASE ~(u >= C)
        BY <4>2, <2>3 DEF MayBeSet
      <4> QED BY <4>1, <4>2
    <3> QED BY <3>2, <2>1, <2>3 DEF TimerOK, MayBeSet
  <2> QED BY <2>2, <2>3
<1> QED BY <1>7, <1>8

-----------------------------------------------------------------------------
(* The pool of software timers.                                            *)

ControlBlock == [id : TimerID, state : {"UNUSED", "CREATED", "TICKING"}, kind : Kind \cup {NoKind}]

\* What OsSwtmrScan changes, when the timers of c are in creation: the types and
\* SwtmrPoolAgrees, and that an ID says which control block it is of.
PoolOK(s, c) ==
  /\ s \in [cb : [Index -> ControlBlock], free : Seq(Index), link : Seq(EntryOf(Index)),
            queue : Seq(TimerID)]
  /\ \A i \in Index : /\ s.cb[i].id % LIMIT = i
                      /\ s.cb[i].state # "UNUSED" => s.cb[i].kind \in Kind
                      /\ s.cb[i].state = "UNUSED" <=> i \in Range(s.free) \cup c
                      /\ s.cb[i].state = "TICKING" <=> i \in Nodes(s.link)
  /\ IsInjective(s.free) /\ Range(s.free) \cap c = {} /\ c \subseteq Index
  /\ LinkOK(s.link, Index)
  /\ Len(s.queue) <= LIMIT

\* The application holds the IDs of the timers in use, and no ID a control block
\* not in use will be created with.
HeldOK == held \subseteq TimerID /\ HandlesAreFresh

\* The numbers.
LEMMA Numbers ==
  /\ LIMIT \in Nat \ {0} /\ OS_CYCLE_PER_TICK \in Nat \ {0}
  /\ \A k \in Kind : /\ k.interval \in Nat \ {0}
                     /\ k.interval * OS_CYCLE_PER_TICK \in Nat
                     /\ k.interval * OS_CYCLE_PER_TICK >= OS_CYCLE_PER_TICK
                     /\ k.interval * OS_CYCLE_PER_TICK <= Never - OS_CYCLE_PER_TICK
  /\ \A d \in Delay : /\ d * OS_CYCLE_PER_TICK \in Nat
                      /\ d * OS_CYCLE_PER_TICK >= OS_CYCLE_PER_TICK
                      /\ d * OS_CYCLE_PER_TICK <= Never - OS_CYCLE_PER_TICK
  /\ \A id \in TimerID : id \in Nat /\ id % LIMIT \in Index
<1> DEFINE C == OS_CYCLE_PER_TICK
<1>1. /\ LIMIT \in Nat \ {0} /\ C \in Nat \ {0} /\ Never \in Nat
      /\ \A k \in Kind : k.interval \in Nat \ {0}
      /\ Delay \subseteq Nat \ {0}
      /\ \A d \in Delay \cup {k.interval : k \in Kind} : (d + 1) * C <= Never
  BY TickAssumption, SwtmrAssumption
<1>2. \A d \in Nat \ {0} : d * C \in Nat /\ d * C >= C /\ (d + 1) * C = d * C + C
  BY <1>1
<1> HIDE DEF C
<1>3. ASSUME NEW d \in Delay \cup {k.interval : k \in Kind}
      PROVE  d * C \in Nat /\ d * C >= C /\ d * C <= Never - C
  <2>1. d \in Nat \ {0} /\ (d + 1) * C <= Never
    BY <1>1
  <2>2. PICK x \in Nat : x = d * C
    BY <2>1, <1>2
  <2>3. x + C <= Never /\ x >= C
    BY <2>1, <2>2, <1>2
  <2> QED BY <2>2, <2>3, <1>1
<1>4. ASSUME NEW id \in TimerID PROVE id \in Nat /\ id % LIMIT \in Index
  BY <1>1 DEF TimerID, Index
<1> QED BY <1>1, <1>3, <1>4 DEF C

\* Once round more leaves the remainder.
LEMMA OneRoundMore ==
  ASSUME NEW n \in Nat \ {0}, NEW x \in Nat
  PROVE  (x + n) % n = x % n
<1>1. PICK q \in Int, r \in 0..(n - 1) : x = n * q + r /\ r = x % n
  <2>1. x % n \in 0..(n - 1) /\ x = n * (x \div n) + (x % n) /\ x \div n \in Int
    BY SMT
  <2> QED BY <2>1
<1>2. PICK p \in Int, s \in 0..(n - 1) : x + n = n * p + s /\ s = (x + n) % n
  <2>1. /\ (x + n) % n \in 0..(n - 1) /\ (x + n) \div n \in Int
        /\ x + n = n * ((x + n) \div n) + ((x + n) % n)
    BY SMT
  <2> QED BY <2>1
<1>3. PICK d \in Int : d = p - q - 1
  OBVIOUS
<1>4. n * d = r - s
  <2>1. n * d = n * p - n * q - n
    BY <1>3, SMT
  <2> QED BY <2>1, <1>1, <1>2
<1>5. d >= 1 => n * d >= n
  BY SMT
<1>6. d <= -1 => n * d <= -n
  BY SMT
<1>7. d = 0
  BY <1>4, <1>5, <1>6
<1>8. n * d = 0
  BY <1>7
<1>9. r = s
  BY <1>4, <1>8
<1> QED BY <1>1, <1>2, <1>9, Zenon

\* An ID that is left belongs to the same control block and is another one.
LEMMA NextIDProperties ==
  ASSUME NEW id \in TimerID
  PROVE  NextID(id) \in TimerID /\ NextID(id) % LIMIT = id % LIMIT /\ NextID(id) # id
<1>1. LIMIT \in Nat \ {0} /\ MaxGen \in Nat \ {0, 1} /\ id \in Nat
  BY SwtmrAssumption, Numbers
<1>2. PICK n \in Nat : n = LIMIT * (MaxGen - 1)
  BY <1>1
<1>3. LIMIT * MaxGen = n + LIMIT /\ n >= LIMIT
  BY <1>1, <1>2
<1>4. id < n + LIMIT /\ TimerID = 0..(n + LIMIT - 1)
  <2>1. TimerID = 0..(n + LIMIT - 1)
    <3>1. PICK m : m = LIMIT * MaxGen
      OBVIOUS
    <3>2. TimerID = 0..(m - 1)
      BY <3>1, Zenon DEF TimerID
    <3>3. m = n + LIMIT
      BY <3>1, <1>3
    <3>4. m \in Nat /\ n + LIMIT - 1 = m - 1
      BY <3>3, <1>1
    <3> QED BY <3>2, <3>4
  <2> QED BY <2>1, <1>1
<1>5. CASE id < n
  <2>1. NextID(id) = id + LIMIT
    BY <1>2, <1>5 DEF NextID
  <2>2. (id + LIMIT) % LIMIT = id % LIMIT
    BY <1>1, OneRoundMore
  <2> QED BY <2>1, <2>2, <1>1, <1>4, <1>5
<1>6. CASE ~(id < n)
  <2>1. NextID(id) = id % LIMIT
    BY <1>2, <1>6 DEF NextID
  <2>2. id % LIMIT \in 0..(LIMIT - 1) /\ (id % LIMIT) % LIMIT = id % LIMIT
    BY <1>1
  <2> QED BY <2>1, <2>2, <1>1, <1>2, <1>3, <1>4, <1>6
<1> QED BY <1>5, <1>6

\* A control block put at the head of the free list.
LEMMA PutFree ==
  ASSUME NEW free \in Seq(Index), NEW i \in Index, IsInjective(free), i \notin Range(free)
  PROVE  /\ <<i>> \o free \in Seq(Index) /\ IsInjective(<<i>> \o free)
         /\ Range(<<i>> \o free) = Range(free) \cup {i}
<1> DEFINE w == <<i>> \o free  n == Len(free)
<1>1. <<i>> \in Seq(Index) /\ Len(<<i>>) = 1 /\ <<i>>[1] = i /\ n \in Nat /\ DOMAIN free = 1..n
  OBVIOUS
<1>2. /\ w \in Seq(Index) /\ Len(w) = 1 + n
      /\ \A j \in 1..(1 + n) : w[j] = IF j <= 1 THEN <<i>>[j] ELSE free[j - 1]
  BY <1>1, ConcatProperties
<1> HIDE DEF w
<1>3. /\ DOMAIN w = 1..(1 + n) /\ w[1] = i
      /\ \A j \in 1..(1 + n) : j # 1 => j - 1 \in 1..n /\ w[j] = free[j - 1]
  BY <1>1, <1>2
<1>4. \A j \in 1..n : j + 1 \in 1..(1 + n) /\ w[j + 1] = free[j]
  <2>1. ASSUME NEW j \in 1..n PROVE j + 1 \in 1..(1 + n) /\ w[j + 1] = free[j]
    <3>1. j + 1 \in 1..(1 + n) /\ j + 1 # 1 /\ (j + 1) - 1 = j
      BY <1>1
    <3> QED BY <3>1, <1>3
  <2> QED BY <2>1
<1>5. Range(w) = Range(free) \cup {i}
  <2>1. ASSUME NEW j \in 1..(1 + n) PROVE w[j] \in Range(free) \cup {i}
    BY <1>1, <1>3 DEF Range
  <2>2. ASSUME NEW j \in 1..n PROVE free[j] \in Range(w)
    BY <1>3, <1>4 DEF Range
  <2>3. i \in Range(w)
    BY <1>1, <1>3 DEF Range
  <2> QED BY <2>1, <2>2, <2>3, <1>1, <1>3 DEF Range
<1>6. IsInjective(w)
  <2>1. \A j \in 1..n : free[j] # i
    BY <1>1 DEF Range
  <2> QED BY <2>1, <1>1, <1>3 DEF IsInjective
<1> QED BY <1>2, <1>5, <1>6 DEF w

\* The head of the free list is taken.
LEMMA TakeFree ==
  ASSUME NEW free \in Seq(Index), IsInjective(free), free # <<>>
  PROVE  /\ Tail(free) \in Seq(Index) /\ IsInjective(Tail(free))
         /\ Head(free) \in Range(free) /\ Range(Tail(free)) = Range(free) \ {Head(free)}
<1> DEFINE w == Tail(free)  n == Len(free)
<1>1. n \in Nat /\ n > 0 /\ DOMAIN free = 1..n /\ Head(free) = free[1]
  OBVIOUS
<1>2. w \in Seq(Index) /\ DOMAIN w = 1..(n - 1) /\ \A j \in 1..(n - 1) : w[j] = free[j + 1]
  BY <1>1
<1> HIDE DEF w
<1>3. IsInjective(w)
  <2>1. ASSUME NEW j \in 1..(n - 1), NEW k \in 1..(n - 1), w[j] = w[k] PROVE j = k
    <3>1. j + 1 \in 1..n /\ k + 1 \in 1..n
      BY <1>1
    <3>2. free[j + 1] = free[k + 1]
      BY <2>1, <1>2
    <3>3. j + 1 = k + 1
      BY <3>1, <3>2, <1>1 DEF IsInjective
    <3> QED BY <3>3
  <2> QED BY <2>1, <1>2 DEF IsInjective
<1>4. Range(w) = Range(free) \ {free[1]}
  <2>1. ASSUME NEW j \in 1..(n - 1) PROVE w[j] \in Range(free) \ {free[1]}
    <3>1. j + 1 \in 1..n /\ j + 1 # 1 /\ 1 \in 1..n
      BY <1>1
    <3> QED BY <3>1, <1>1, <1>2 DEF IsInjective, Range
  <2>2. ASSUME NEW j \in 1..n, free[j] # free[1] PROVE free[j] \in Range(w)
    <3>1. j - 1 \in 1..(n - 1) /\ (j - 1) + 1 = j
      BY <2>2, <1>1
    <3>2. w[j - 1] = free[j]
      BY <3>1, <1>2
    <3> QED BY <3>1, <3>2, <1>2 DEF Range
  <2> QED BY <2>1, <2>2, <1>1, <1>2 DEF Range
<1>5. free[1] \in Range(free)
  BY <1>1 DEF Range
<1> QED BY <1>1, <1>2, <1>3, <1>4, <1>5 DEF w

-----------------------------------------------------------------------------
(* The scan.                                                               *)

\* The control block of a timer once it has expired.
AfterExpiry(b) ==
  IF b.kind.mode = "ONCE" THEN [id |-> NextID(b.id), state |-> "UNUSED", kind |-> NoKind]
  ELSE IF b.kind.mode = "PERIOD" THEN b
  ELSE [b EXCEPT !.state = "CREATED"]

Restarted(i) == Entry(i, cb[i].kind.interval * OS_CYCLE_PER_TICK)

\* One expiry.
LEMMA OneExpiry ==
  ASSUME NEW s, NEW c, PoolOK(s, c), NEW e \in Entries(s.link), cb[e.node].kind = s.cb[e.node].kind
  PROVE  LET i == e.node
             t == OsSwtmrTimeoutHandle(s, e) IN
         /\ PoolOK(t, c)
         /\ \A j \in Index : t.cb[j] = IF j = i THEN AfterExpiry(s.cb[j]) ELSE s.cb[j]
         /\ Entries(t.link) = {x \in Entries(s.link) : x.node # i}
                                \cup (IF s.cb[i].kind.mode = "PERIOD" THEN {Restarted(i)} ELSE {})
         /\ t.queue = IF Len(s.queue) < LIMIT THEN Append(s.queue, s.cb[i].id) ELSE s.queue
<1> DEFINE i == e.node
           b == s.cb[i]
           t == OsSwtmrTimeoutHandle(s, e)
           link == OsDeleteSortLink(s.link, i)
           queue == IF Len(s.queue) < LIMIT THEN Append(s.queue, b.id) ELSE s.queue
           after == AfterExpiry(b)
           kept == {x \in Entries(s.link) : x.node # i}
<1>1. /\ s = [cb |-> s.cb, free |-> s.free, link |-> s.link, queue |-> s.queue]
      /\ s.cb \in [Index -> ControlBlock] /\ s.free \in Seq(Index)
      /\ s.queue \in Seq(TimerID) /\ LinkOK(s.link, Index) /\ Len(s.queue) <= LIMIT
      /\ IsInjective(s.free) /\ Range(s.free) \cap c = {} /\ c \subseteq Index
  BY DEF PoolOK
<1>2. \A j \in Index : /\ s.cb[j].id % LIMIT = j
                       /\ s.cb[j].state # "UNUSED" => s.cb[j].kind \in Kind
                       /\ s.cb[j].state = "UNUSED" <=> j \in Range(s.free) \cup c
                       /\ s.cb[j].state = "TICKING" <=> j \in Nodes(s.link)
  BY DEF PoolOK
<1>3. /\ i \in Index /\ b \in ControlBlock /\ b.id \in TimerID /\ b.state = "TICKING"
      /\ b.kind \in Kind /\ b.id % LIMIT = i /\ i \notin Range(s.free) /\ i \notin c
  <2>1. e \in EntryOf(Index) /\ i \in Nodes(s.link)
    BY <1>1, NodesAreEntries
  <2>2. i \in Index
    BY <2>1 DEF EntryOf
  <2>3. b \in ControlBlock /\ b.state = "TICKING"
    BY <2>1, <2>2, <1>1, <1>2
  <2> QED BY <2>2, <2>3, <1>2 DEF ControlBlock
<1>4. /\ LinkOK(link, Index) /\ Entries(link) = kept
      /\ Nodes(link) = Nodes(s.link) \ {i}
  <2>1. LinkOK(link, Index) /\ Entries(link) = kept
    BY <1>1, DeleteEffect
  <2>2. Nodes(link) = {x.node : x \in kept} /\ Nodes(s.link) = {x.node : x \in Entries(s.link)}
    BY <2>1, <1>1, NodesAreEntries
  <2> QED BY <2>1, <2>2
<1>5. queue \in Seq(TimerID) /\ Len(queue) <= LIMIT
  BY <1>1, <1>3, Numbers
<1> HIDE DEF link, queue
<1>6. CASE b.kind.mode = "ONCE"
  <2> DEFINE u == [s EXCEPT !.cb[i] = [id |-> NextID(b.id), state |-> "UNUSED", kind |-> NoKind],
                            !.free = <<i>> \o s.free, !.link = link, !.queue = queue]
  <2>1. t = u
    BY <1>6 DEF OsSwtmrTimeoutHandle, link, queue
  <2>2. /\ u = [cb |-> [s.cb EXCEPT ![i] = after], free |-> <<i>> \o s.free, link |-> link,
                queue |-> queue]
        /\ after = [id |-> NextID(b.id), state |-> "UNUSED", kind |-> NoKind]
    <3>1. after = [id |-> NextID(b.id), state |-> "UNUSED", kind |-> NoKind]
      BY <1>6 DEF AfterExpiry
    <3> HIDE DEF after
    <3>2. s \in [cb : [Index -> ControlBlock], free : Seq(Index), link : Seq(EntryOf(Index)),
                  queue : Seq(TimerID)]
      BY DEF PoolOK
    <3>3. DOMAIN u = {"cb", "free", "link", "queue"}
      BY <3>2
    <3>4. u.cb = [s.cb EXCEPT ![i] = after] /\ u.free = <<i>> \o s.free /\ u.link = link /\ u.queue = queue
      BY <3>1, <3>2
    <3>5. u = [x \in {"cb", "free", "link", "queue"} |-> u[x]]
      BY <3>3
    <3> HIDE DEF u
    <3>6. u = [cb |-> u.cb, free |-> u.free, link |-> u.link, queue |-> u.queue]
      BY <3>5
    <3> QED BY <3>1, <3>4, <3>6
  <2>3. after \in ControlBlock /\ after.id % LIMIT = i /\ after.state = "UNUSED"
    BY <2>2, <1>3, NextIDProperties DEF ControlBlock
  <2> HIDE DEF u, after
  <2>4. /\ u.cb = [s.cb EXCEPT ![i] = after] /\ u.free = <<i>> \o s.free /\ u.link = link
        /\ u.queue = queue
    BY <2>2
  <2>5. /\ u.free \in Seq(Index) /\ IsInjective(u.free) /\ Range(u.free) = Range(s.free) \cup {i}
    BY <2>4, <1>1, <1>3, PutFree
  <2>6. /\ u.cb \in [Index -> ControlBlock]
        /\ \A j \in Index : u.cb[j] = IF j = i THEN after ELSE s.cb[j]
    BY <2>3, <2>4, <1>1, <1>3
  <2>7. u \in [cb : [Index -> ControlBlock], free : Seq(Index), link : Seq(EntryOf(Index)),
               queue : Seq(TimerID)]
    BY <2>2, <2>4, <2>5, <2>6, <1>4, <1>5 DEF LinkOK
  <2>8. ASSUME NEW j \in Index
        PROVE  /\ u.cb[j].id % LIMIT = j
               /\ u.cb[j].state # "UNUSED" => u.cb[j].kind \in Kind
               /\ u.cb[j].state = "UNUSED" <=> j \in Range(u.free) \cup c
               /\ u.cb[j].state = "TICKING" <=> j \in Nodes(u.link)
    BY <2>3, <2>4, <2>5, <2>6, <1>2, <1>3, <1>4
  <2>9. PoolOK(u, c)
    <3>1. IsInjective(u.free) /\ Range(u.free) \cap c = {} /\ c \subseteq Index
      BY <2>5, <1>1, <1>3
    <3>2. LinkOK(u.link, Index) /\ Len(u.queue) <= LIMIT
      BY <2>4, <1>4, <1>5
    <3> QED BY <3>1, <3>2, <2>7, <2>8 DEF PoolOK
  <2>10. /\ \A j \in Index : u.cb[j] = IF j = i THEN AfterExpiry(s.cb[j]) ELSE s.cb[j]
         /\ Entries(u.link) = kept \cup (IF b.kind.mode = "PERIOD" THEN {Restarted(i)} ELSE {})
         /\ u.queue = queue
    BY <2>4, <2>6, <1>4, <1>6 DEF after
  <2> QED BY <2>1, <2>9, <2>10 DEF queue
<1>7. CASE b.kind.mode = "PERIOD"
  <2> DEFINE again == OsSwtmrStart(link, i)
             u == [s EXCEPT !.link = again, !.queue = queue]
  <2>1. t = u
    BY <1>7 DEF OsSwtmrTimeoutHandle, link, queue
  <2>2. again = OsAddNode2SortLink(link, Restarted(i)) /\ Restarted(i) \in EntryOf(Index)
        /\ Restarted(i).node = i
    <3>1. b.kind.interval * OS_CYCLE_PER_TICK \in Nat
      BY <1>3, Numbers
    <3> QED BY <3>1, <1>3 DEF OsSwtmrStart, Restarted, Entry, EntryOf
  <2>3. /\ LinkOK(again, Index) /\ Entries(again) = kept \cup {Restarted(i)}
    BY <2>2, <1>4, AddEffect
  <2>4. Nodes(again) = Nodes(s.link)
    <3>1. Nodes(again) = {x.node : x \in kept \cup {Restarted(i)}}
      BY <2>3, NodesAreEntries
    <3>2. Nodes(s.link) = {x.node : x \in Entries(s.link)}
      BY <1>1, NodesAreEntries
    <3> QED BY <3>1, <3>2, <2>2
  <2> HIDE DEF again
  <2>5. /\ u = [cb |-> s.cb, free |-> s.free, link |-> again, queue |-> queue]
        /\ after = b
    <3>1. after = b
      BY <1>7 DEF AfterExpiry
    <3> HIDE DEF after
    <3>2. s \in [cb : [Index -> ControlBlock], free : Seq(Index), link : Seq(EntryOf(Index)),
                  queue : Seq(TimerID)]
      BY DEF PoolOK
    <3>3. DOMAIN u = {"cb", "free", "link", "queue"}
      BY <3>2
    <3>4. u.cb = s.cb /\ u.free = s.free /\ u.link = again /\ u.queue = queue
      BY <3>1, <3>2
    <3>5. u = [x \in {"cb", "free", "link", "queue"} |-> u[x]]
      BY <3>3
    <3> HIDE DEF u
    <3>6. u = [cb |-> u.cb, free |-> u.free, link |-> u.link, queue |-> u.queue]
      BY <3>5
    <3> QED BY <3>1, <3>4, <3>6
  <2> HIDE DEF u, after
  <2>6. u.cb = s.cb /\ u.free = s.free /\ u.link = again /\ u.queue = queue
    BY <2>5
  <2>7. u \in [cb : [Index -> ControlBlock], free : Seq(Index), link : Seq(EntryOf(Index)),
               queue : Seq(TimerID)]
    BY <2>3, <2>5, <2>6, <1>1, <1>5 DEF LinkOK
  <2>8. PoolOK(u, c)
    BY <2>3, <2>4, <2>6, <2>7, <1>1, <1>2, <1>5 DEF PoolOK
  <2>9. /\ \A j \in Index : u.cb[j] = IF j = i THEN AfterExpiry(s.cb[j]) ELSE s.cb[j]
        /\ Entries(u.link) = kept \cup (IF b.kind.mode = "PERIOD" THEN {Restarted(i)} ELSE {})
    BY <2>3, <2>5, <2>6, <1>7 DEF after
  <2> QED BY <2>1, <2>6, <2>8, <2>9 DEF queue
<1>8. CASE b.kind.mode # "ONCE" /\ b.kind.mode # "PERIOD"
  <2> DEFINE u == [s EXCEPT !.cb[i].state = "CREATED", !.link = link, !.queue = queue]
  <2>1. t = u
    BY <1>8 DEF OsSwtmrTimeoutHandle, link, queue
  <2>2. /\ u = [cb |-> [s.cb EXCEPT ![i] = after], free |-> s.free, link |-> link,
                queue |-> queue]
        /\ after = [b EXCEPT !.state = "CREATED"]
    <3>1. after = [b EXCEPT !.state = "CREATED"]
      BY <1>8 DEF AfterExpiry
    <3> HIDE DEF after
    <3>2. s \in [cb : [Index -> ControlBlock], free : Seq(Index), link : Seq(EntryOf(Index)),
                  queue : Seq(TimerID)]
      BY DEF PoolOK
    <3>3. DOMAIN u = {"cb", "free", "link", "queue"}
      BY <3>2
    <3>4. u.cb = [s.cb EXCEPT ![i] = after] /\ u.free = s.free /\ u.link = link /\ u.queue = queue
      BY <3>1, <3>2
    <3>5. u = [x \in {"cb", "free", "link", "queue"} |-> u[x]]
      BY <3>3
    <3> HIDE DEF u
    <3>6. u = [cb |-> u.cb, free |-> u.free, link |-> u.link, queue |-> u.queue]
      BY <3>5
    <3> QED BY <3>1, <3>4, <3>6
  <2>3. after \in ControlBlock /\ after.id % LIMIT = i /\ after.state = "CREATED"
        /\ after.kind = b.kind
    BY <2>2, <1>3 DEF ControlBlock
  <2> HIDE DEF u, after
  <2>4. /\ u.cb = [s.cb EXCEPT ![i] = after] /\ u.free = s.free /\ u.link = link
        /\ u.queue = queue
    BY <2>2
  <2>6. /\ u.cb \in [Index -> ControlBlock]
        /\ \A j \in Index : u.cb[j] = IF j = i THEN after ELSE s.cb[j]
    BY <2>3, <2>4, <1>1, <1>3
  <2>7. u \in [cb : [Index -> ControlBlock], free : Seq(Index), link : Seq(EntryOf(Index)),
               queue : Seq(TimerID)]
    BY <2>2, <2>4, <2>6, <1>1, <1>4, <1>5 DEF LinkOK
  <2>8. ASSUME NEW j \in Index
        PROVE  /\ u.cb[j].id % LIMIT = j
               /\ u.cb[j].state # "UNUSED" => u.cb[j].kind \in Kind
               /\ u.cb[j].state = "UNUSED" <=> j \in Range(u.free) \cup c
               /\ u.cb[j].state = "TICKING" <=> j \in Nodes(u.link)
    BY <2>3, <2>4, <2>6, <1>2, <1>3, <1>4
  <2>9. PoolOK(u, c)
    BY <2>4, <2>7, <2>8, <1>1, <1>3, <1>4, <1>5 DEF PoolOK
  <2>10. /\ \A j \in Index : u.cb[j] = IF j = i THEN AfterExpiry(s.cb[j]) ELSE s.cb[j]
         /\ Entries(u.link) = kept \cup (IF b.kind.mode = "PERIOD" THEN {Restarted(i)} ELSE {})
         /\ u.queue = queue
    BY <2>4, <2>6, <1>4, <1>8 DEF after
  <2> QED BY <2>1, <2>9, <2>10 DEF queue
<1> QED BY <1>6, <1>7, <1>8

\* f is the scan over the first n of the entries due.
IsScan(f, n, s, due) ==
  f = [i \in 0..n |-> IF i = 0 THEN s ELSE OsSwtmrTimeoutHandle(f[i - 1], due[i])]

\* There is one, over as many entries as there are.
LEMMA ScanExists ==
  ASSUME NEW s, NEW due, NEW n \in Nat
  PROVE  \E f : IsScan(f, n, s, due)
<1> DEFINE Bad == {m \in Nat : ~\E f : IsScan(f, m, s, due)}
<1>1. SUFFICES ASSUME Bad # {} PROVE FALSE
  BY DEF Bad
<1>2. PICK m \in Bad : \A y \in Bad : m <= y
  BY <1>1, LeastNumber
<1>3. m \in Nat /\ ~\E f : IsScan(f, m, s, due)
  BY <1>2
<1>4. CASE m = 0
  <2> DEFINE f == [i \in 0..0 |-> s]
  <2>1. f = [i \in 0..0 |-> IF i = 0 THEN s ELSE OsSwtmrTimeoutHandle(f[i - 1], due[i])]
    OBVIOUS
  <2>2. IsScan(f, 0, s, due)
    BY <2>1 DEF IsScan
  <2> QED BY <2>2, <1>3, <1>4
<1>5. CASE m # 0
  <2>1. m - 1 \in Nat /\ m - 1 \notin Bad
    BY <1>2, <1>3, <1>5
  <2>2. PICK f : IsScan(f, m - 1, s, due)
    BY <2>1
  <2> DEFINE g == [i \in 0..m |-> IF i = m THEN OsSwtmrTimeoutHandle(f[m - 1], due[m]) ELSE f[i]]
  <2>3. f = [i \in 0..(m - 1) |-> IF i = 0 THEN s ELSE OsSwtmrTimeoutHandle(f[i - 1], due[i])]
    BY <2>2 DEF IsScan
  <2>4. ASSUME NEW i \in 0..m
        PROVE  g[i] = IF i = 0 THEN s ELSE OsSwtmrTimeoutHandle(g[i - 1], due[i])
    <3>1. CASE i = m
      <4>1. g[i] = OsSwtmrTimeoutHandle(f[m - 1], due[m]) /\ m - 1 \in 0..m /\ m - 1 # m
        BY <3>1, <1>3, <1>5
      <4>2. g[i - 1] = f[m - 1]
        BY <4>1, <3>1
      <4> QED BY <4>1, <4>2, <3>1, <1>5
    <3>2. CASE i # m
      <4>1. i \in 0..(m - 1) /\ g[i] = f[i]
        BY <3>2, <1>3
      <4>2. CASE i = 0
        BY <4>1, <4>2, <2>3
      <4>3. CASE i # 0
        <5>1. i - 1 \in 0..m /\ i - 1 # m
          BY <4>1, <4>3, <1>3
        <5>2. g[i - 1] = f[i - 1]
          BY <5>1
        <5> HIDE DEF g
        <5> QED BY <4>1, <4>3, <5>2, <2>3
      <4> QED BY <4>2, <4>3
    <3> QED BY <3>1, <3>2
  <2>5. g = [i \in 0..m |-> g[i]]
    OBVIOUS
  <2> HIDE DEF g
  <2>6. g = [i \in 0..m |-> IF i = 0 THEN s ELSE OsSwtmrTimeoutHandle(g[i - 1], due[i])]
    BY <2>4, <2>5
  <2>7. IsScan(g, m, s, due)
    BY <2>6 DEF IsScan
  <2> QED BY <2>7, <1>3
<1> QED BY <1>4, <1>5

\* OsSwtmrScan is where it ends.
LEMMA ScanEnds ==
  ASSUME NEW s, Len(Scanned(s.link)) \in Nat
  PROVE  \E f : /\ IsScan(f, Len(Scanned(s.link)), s, Scanned(s.link))
                /\ OsSwtmrScan(s) = f[Len(Scanned(s.link))]
<1> DEFINE due == Scanned(s.link)
           n == Len(due)
           f == CHOOSE g : IsScan(g, n, s, due)
<1>1. IsScan(f, n, s, due)
  BY ScanExists
<1>2. OsSwtmrScan(s) = f[n]
  BY DEF OsSwtmrScan, IsScan
<1> QED BY <1>1, <1>2

Least(m, n) == IF m < n THEN m ELSE n

\* What the expiry of the first n entries of due makes of s.
Expired(s, t, c, due, n) ==
  LET D == {due[k].node : k \in 1..n} IN
  /\ PoolOK(t, c)
  /\ \A j \in Index : t.cb[j] = IF j \in D THEN AfterExpiry(s.cb[j]) ELSE s.cb[j]
  /\ Entries(t.link) = {x \in Entries(s.link) : x.node \notin D}
                         \cup {Restarted(j) : j \in {i \in D : s.cb[i].kind.mode = "PERIOD"}}
  /\ Len(t.queue) = Least(Len(s.queue) + n, LIMIT)
  /\ \A k \in 1..Len(t.queue) :
       t.queue[k] = IF k <= Len(s.queue) THEN s.queue[k]
                    ELSE s.cb[due[k - Len(s.queue)].node].id

\* One entry more.
LEMMA OneMoreExpired ==
  ASSUME NEW s, NEW c, PoolOK(s, c), s.cb = cb, NEW n \in Nat, NEW t,
         NEW due, LinkOK(due, Index), Entries(due) \subseteq Entries(s.link),
         n < Len(due), Expired(s, t, c, due, n)
  PROVE  Expired(s, OsSwtmrTimeoutHandle(t, due[n + 1]), c, due, n + 1)
<1> DEFINE m == n + 1
           e == due[m]
           i == e.node
           u == OsSwtmrTimeoutHandle(t, e)
           D == {due[k].node : k \in 1..n}
           E == {due[k].node : k \in 1..m}
           b == s.cb[i]
<1>1. /\ Len(due) \in Nat /\ m \in 1..Len(due) /\ m \in Nat
      /\ \A k \in 1..Len(due) : due[k] \in EntryOf(Index) /\ due[k] \in Entries(s.link)
      /\ \A j, k \in 1..Len(due) : due[j].node = due[k].node => j = k
  <2>1. due \in Seq(EntryOf(Index)) /\ \A j, k \in 1..Len(due) : due[j].node = due[k].node => j = k
    BY DEF LinkOK
  <2>2. \A k \in 1..Len(due) : due[k] \in Entries(due)
    BY DEF Entries
  <2>3. Len(due) \in Nat /\ m \in 1..Len(due) /\ m \in Nat
        /\ \A k \in 1..Len(due) : due[k] \in EntryOf(Index)
    BY <2>1
  <2> QED BY <2>1, <2>2, <2>3
<1>2. i \in Index /\ i \notin D /\ E = D \cup {i} /\ D \subseteq Index
  <2>1. i \in Index /\ D \subseteq Index
    <3>1. \A k \in 1..Len(due) : due[k].node \in Index
      BY <1>1 DEF EntryOf
    <3> QED BY <3>1, <1>1
  <2>2. i \notin D
    BY <1>1
  <2>3. 1..m = (1..n) \cup {m}
    BY <1>1
  <2> QED BY <2>1, <2>2, <2>3
<1>3. /\ PoolOK(t, c)
      /\ \A j \in Index : t.cb[j] = IF j \in D THEN AfterExpiry(s.cb[j]) ELSE s.cb[j]
      /\ Entries(t.link) = {x \in Entries(s.link) : x.node \notin D}
                             \cup {Restarted(j) : j \in {k \in D : s.cb[k].kind.mode = "PERIOD"}}
      /\ Len(t.queue) = Least(Len(s.queue) + n, LIMIT)
      /\ \A k \in 1..Len(t.queue) :
           t.queue[k] = IF k <= Len(s.queue) THEN s.queue[k]
                        ELSE s.cb[due[k - Len(s.queue)].node].id
  BY DEF Expired
<1> HIDE DEF D, E
<1>4. e \in Entries(t.link) /\ t.cb[i] = b /\ cb[i].kind = t.cb[i].kind
  BY <1>1, <1>2, <1>3
<1>5. /\ PoolOK(u, c)
      /\ \A j \in Index : u.cb[j] = IF j = i THEN AfterExpiry(t.cb[j]) ELSE t.cb[j]
      /\ Entries(u.link) = {x \in Entries(t.link) : x.node # i}
                             \cup (IF b.kind.mode = "PERIOD" THEN {Restarted(i)} ELSE {})
      /\ u.queue = IF Len(t.queue) < LIMIT THEN Append(t.queue, b.id) ELSE t.queue
  <2> HIDE DEF e, b
  <2>1. t.cb[i] = b
    BY <1>4
  <2>2. /\ PoolOK(u, c)
        /\ \A j \in Index : u.cb[j] = IF j = i THEN AfterExpiry(t.cb[j]) ELSE t.cb[j]
        /\ Entries(u.link) = {x \in Entries(t.link) : x.node # i}
                               \cup (IF t.cb[i].kind.mode = "PERIOD" THEN {Restarted(i)} ELSE {})
        /\ u.queue = IF Len(t.queue) < LIMIT THEN Append(t.queue, t.cb[i].id) ELSE t.queue
    BY <1>3, <1>4, OneExpiry, Zenon
  <2> HIDE DEF u
  <2> QED BY <2>1, <2>2
<1> HIDE DEF u
<1>6. \A j \in Index : u.cb[j] = IF j \in E THEN AfterExpiry(s.cb[j]) ELSE s.cb[j]
  BY <1>2, <1>3, <1>5
<1>7. Entries(u.link) = {x \in Entries(s.link) : x.node \notin E}
                          \cup {Restarted(j) : j \in {k \in E : s.cb[k].kind.mode = "PERIOD"}}
  <2>1. \A j : Restarted(j).node = j
    BY DEF Restarted, Entry
  <2> DEFINE P == {Restarted(j) : j \in {k \in D : s.cb[k].kind.mode = "PERIOD"}}
             Q == {Restarted(j) : j \in {k \in E : s.cb[k].kind.mode = "PERIOD"}}
  <2>2. \A x \in P : x.node # i
    BY <2>1, <1>2
  <2>3. Q = P \cup (IF b.kind.mode = "PERIOD" THEN {Restarted(i)} ELSE {})
    BY <1>2
  <2> HIDE DEF P, Q, b
  <2>4. Entries(t.link) = {x \in Entries(s.link) : x.node \notin D} \cup P
    BY <1>3 DEF P
  <2>5. {x \in Entries(t.link) : x.node # i} = {x \in Entries(s.link) : x.node \notin E} \cup P
    BY <2>2, <2>4, <1>2
  <2>6. Entries(u.link) = {x \in Entries(s.link) : x.node \notin E} \cup Q
    BY <2>3, <2>5, <1>5
  <2> QED BY <2>6 DEF Q
<1>8. /\ s.queue \in Seq(TimerID) /\ Len(s.queue) \in Nat /\ Len(s.queue) <= LIMIT
      /\ t.queue \in Seq(TimerID) /\ Len(t.queue) \in Nat /\ LIMIT \in Nat
      /\ b.id \in TimerID
  <2>1. s.queue \in Seq(TimerID) /\ t.queue \in Seq(TimerID) /\ Len(s.queue) <= LIMIT
    BY <1>3 DEF PoolOK
  <2>2. b \in ControlBlock
    BY <1>2 DEF PoolOK
  <2> QED BY <2>1, <2>2, Numbers DEF ControlBlock
<1>11. Len(t.queue) = IF Len(s.queue) + n < LIMIT THEN Len(s.queue) + n ELSE LIMIT
  BY <1>3 DEF Least
<1>9. /\ Len(u.queue) = Least(Len(s.queue) + m, LIMIT)
      /\ \A k \in 1..Len(u.queue) :
           u.queue[k] = IF k <= Len(s.queue) THEN s.queue[k]
                        ELSE s.cb[due[k - Len(s.queue)].node].id
  <2>1. CASE Len(t.queue) < LIMIT
    <3>1. /\ u.queue = Append(t.queue, b.id) /\ Len(u.queue) = Len(t.queue) + 1
          /\ \A k \in 1..Len(t.queue) : u.queue[k] = t.queue[k]
          /\ u.queue[Len(t.queue) + 1] = b.id
      <4>1. u.queue = Append(t.queue, b.id)
        BY <2>1, <1>5, Zenon
      <4> HIDE DEF b
      <4>2. PICK w : w = Append(t.queue, b.id)
        OBVIOUS
      <4>3. /\ Len(w) = Len(t.queue) + 1
            /\ \A k \in 1..Len(t.queue) : w[k] = t.queue[k]
            /\ w[Len(t.queue) + 1] = b.id
        BY <4>2, <1>8
      <4> QED BY <4>1, <4>2, <4>3
    <3>2. Len(t.queue) = Len(s.queue) + n
      BY <2>1, <1>8, <1>11
    <3>3. Len(u.queue) = Least(Len(s.queue) + m, LIMIT)
      <4>1. PICK q \in Nat : q = Len(s.queue)
        BY <1>8
      <4>2. Len(u.queue) = q + n + 1 /\ q + n < LIMIT
        BY <4>1, <2>1, <3>1, <3>2
      <4>3. (IF q + (n + 1) < LIMIT THEN q + (n + 1) ELSE LIMIT) = q + n + 1
        BY <4>2, <1>8
      <4> QED BY <4>1, <4>2, <4>3 DEF Least
    <3>4. u.queue[Len(u.queue)] = s.cb[due[Len(u.queue) - Len(s.queue)].node].id
          /\ ~(Len(u.queue) <= Len(s.queue))
      <4>1. Len(u.queue) - Len(s.queue) = m /\ ~(Len(u.queue) <= Len(s.queue))
        <5>1. PICK q \in Nat : q = Len(s.queue)
          BY <1>8
        <5>2. PICK r \in Nat : r = Len(t.queue)
          BY <1>8
        <5>3. Len(u.queue) = r + 1 /\ r = q + n
          BY <5>1, <5>2, <3>1, <3>2
        <5>4. (r + 1) - q = n + 1 /\ ~(r + 1 <= q)
          <6>1. q \in Nat /\ r \in Nat /\ r = q + n
            BY <5>1, <5>2, <5>3
          <6> QED BY <6>1
        <5>5. Len(u.queue) = r + 1 /\ Len(s.queue) = q
          BY <5>1, <5>3
        <5> QED BY <5>4, <5>5
      <4> QED BY <4>1, <3>1
    <3>5. ASSUME NEW k \in 1..Len(u.queue)
          PROVE  u.queue[k] = IF k <= Len(s.queue) THEN s.queue[k]
                              ELSE s.cb[due[k - Len(s.queue)].node].id
      <4>1. CASE k = Len(u.queue)
        BY <4>1, <3>4
      <4>2. CASE k # Len(u.queue)
        <5>1. k \in 1..Len(t.queue)
          BY <4>2, <3>1, <1>8
        <5> QED BY <5>1, <3>1, <1>3
      <4> QED BY <4>1, <4>2
    <3> QED BY <3>3, <3>5
  <2>2. CASE ~(Len(t.queue) < LIMIT)
    <3>1. u.queue = t.queue
      BY <2>2, <1>5
    <3>2. Least(Len(s.queue) + m, LIMIT) = Least(Len(s.queue) + n, LIMIT)
      <4>1. PICK q \in Nat : q = Len(s.queue)
        BY <1>8
      <4>2. ~(q + n < LIMIT) /\ ~(q + (n + 1) < LIMIT)
        <5>1. q + n < LIMIT => FALSE
          <6> SUFFICES ASSUME q + n < LIMIT PROVE FALSE
            OBVIOUS
          <6>1. Len(t.queue) = q + n
            BY <4>1, <1>11
          <6> QED BY <6>1, <2>2, Zenon
        <5> QED BY <5>1, <1>8
      <4> QED BY <4>1, <4>2 DEF Least
    <3> QED BY <3>1, <3>2, <1>3
  <2> QED BY <2>1, <2>2
<1>10. Expired(s, u, c, due, m)
  BY <1>5, <1>6, <1>7, <1>9 DEF Expired, E
<1> QED BY <1>10 DEF u

\* The scan as a whole.
LEMMA ScanEffect ==
  ASSUME NEW s, NEW c, PoolOK(s, c), s.cb = cb
  PROVE  Expired(s, OsSwtmrScan(s), c, Scanned(s.link), Len(Scanned(s.link)))
<1> DEFINE due == Scanned(s.link)
           n == Len(due)
<1>1. LinkOK(due, Index) /\ Entries(due) \subseteq Entries(s.link) /\ n \in Nat
  <2>1. LinkOK(s.link, Index)
    BY DEF PoolOK
  <2> QED BY <2>1, ScannedEffect
<1>2. PICK f : IsScan(f, n, s, due) /\ OsSwtmrScan(s) = f[n]
  BY <1>1, ScanEnds
<1> HIDE DEF due
<1>3. f[0] = s /\ \A i \in 1..n : f[i] = OsSwtmrTimeoutHandle(f[i - 1], due[i])
  BY <1>1, <1>2 DEF IsScan
<1> DEFINE Bad == {i \in Nat : i <= n /\ ~Expired(s, f[i], c, due, i)}
<1>4. ASSUME Bad # {} PROVE FALSE
  <2>1. Bad \in SUBSET Nat /\ Bad # {}
    BY <1>4
  <2>2. PICK i \in Bad : \A y \in Bad : i <= y
    BY <2>1, LeastNumber
  <2>3. i \in Nat /\ i <= n /\ ~Expired(s, f[i], c, due, i)
    BY <2>2
  <2>4. CASE i = 0
    <3>1. Expired(s, s, c, due, 0)
      <4>1. {due[k].node : k \in 1..0} = {}
        OBVIOUS
      <4>2. Len(s.queue) \in Nat /\ Len(s.queue) <= LIMIT /\ LIMIT \in Nat
        BY Numbers DEF PoolOK
      <4>3. Len(s.queue) = Least(Len(s.queue) + 0, LIMIT)
        BY <4>2 DEF Least
      <4>4. \A k \in 1..Len(s.queue) : k <= Len(s.queue)
        BY <4>2
      <4> QED BY <4>1, <4>3, <4>4 DEF Expired
    <3> QED BY <3>1, <1>3, <2>3, <2>4
  <2>5. CASE i # 0
    <3>1. i - 1 \in Nat /\ i - 1 <= n /\ i - 1 < i /\ i \in 1..n /\ i - 1 < n /\ (i - 1) + 1 = i
      BY <1>1, <2>3, <2>5
    <3>2. Expired(s, f[i - 1], c, due, i - 1)
      <4>1. i - 1 \notin Bad
        <5> HIDE DEF Bad
        <5> QED BY <3>1, <2>2
      <4> QED BY <4>1, <3>1
    <3>3. Expired(s, OsSwtmrTimeoutHandle(f[i - 1], due[(i - 1) + 1]), c, due, (i - 1) + 1)
      BY <3>1, <3>2, <1>1, OneMoreExpired
    <3> QED BY <3>1, <3>3, <1>3, <2>3
  <2> QED BY <2>4, <2>5
<1>5. Expired(s, f[n], c, due, n)
  BY <1>1, <1>4
<1> QED BY <1>2, <1>5 DEF due

-----------------------------------------------------------------------------
(* The steps.                                                              *)

\* PoolOK of the variables.
Parts(C, F, L, Q, c) ==
  /\ C \in [Index -> ControlBlock] /\ F \in Seq(Index) /\ Q \in Seq(TimerID)
  /\ \A i \in Index : /\ C[i].id % LIMIT = i
                      /\ C[i].state # "UNUSED" => C[i].kind \in Kind
                      /\ C[i].state = "UNUSED" <=> i \in Range(F) \cup c
                      /\ C[i].state = "TICKING" <=> i \in Nodes(L)
  /\ IsInjective(F) /\ Range(F) \cap c = {} /\ c \subseteq Index
  /\ LinkOK(L, Index)
  /\ Len(Q) <= LIMIT

\* PoolOK of a record is Parts of its fields.
LEMMA PoolParts ==
  ASSUME NEW C, NEW F, NEW L, NEW Q, NEW c
  PROVE  PoolOK([cb |-> C, free |-> F, link |-> L, queue |-> Q], c) <=> Parts(C, F, L, Q, c)
<1> DEFINE s == [cb |-> C, free |-> F, link |-> L, queue |-> Q]
<1>1. LinkOK(L, Index) => L \in Seq(EntryOf(Index))
  BY DEF LinkOK
<1>2. s.cb = C /\ s.free = F /\ s.link = L /\ s.queue = Q
  OBVIOUS
<1>3. s \in [cb : [Index -> ControlBlock], free : Seq(Index), link : Seq(EntryOf(Index)),
             queue : Seq(TimerID)]
      <=> C \in [Index -> ControlBlock] /\ F \in Seq(Index) /\ L \in Seq(EntryOf(Index))
          /\ Q \in Seq(TimerID)
  OBVIOUS
<1> HIDE DEF s
<1>4. PoolOK(s, c) <=> Parts(C, F, L, Q, c)
  BY <1>1, <1>2, <1>3 DEF PoolOK, Parts
<1> QED BY <1>4 DEF s

\* Everything has its type, the pool is in order, and the hardware timer is in
\* time for what both links hold.
Times == TimesOf(swtmrLink) \cup TimesOf(taskLink)

TimerInv == TimerOK(timer, Times, switching)

PoolInv == /\ Parts(cb, freeList, swtmrLink, handlerQueue, creating)
           /\ HeldOK /\ LinkOK(taskLink, Sleeper)

SwtmrInv == PoolInv /\ TimerInv

\* What was in time stays so without some entries, and with some a tick away.
LEMMA StaysInTime ==
  ASSUME NEW tm, NEW S, NEW sw, TimerOK(tm, S, sw), NEW T,
         \A t \in T : t \in S \/ (t \in Int /\ t >= OS_CYCLE_PER_TICK
                                            /\ t <= Never - OS_CYCLE_PER_TICK)
  PROVE  MayBeSet(tm, T)
<1>1. OS_CYCLE_PER_TICK \in Nat \ {0} /\ Latency \in Nat
  BY TickAssumption, SwtmrAssumption
<1> QED BY <1>1 DEF TimerOK, MayBeSet

\* Without some of its entries.
LEMMA TimerOKOfFewer ==
  ASSUME NEW tm, NEW S, NEW sw, TimerOK(tm, S, sw), NEW T \in SUBSET S, NEW sx, sw => sx
  PROVE  TimerOK(tm, T, sx)
BY DEF TimerOK

\* Whatever the running task has left of its slice.
LEMMA SetsInTime ==
  ASSUME NEW tm, NEW tasks, NEW swtmrs, LinkOK(tasks, Sleeper), LinkOK(swtmrs, Index),
         MayBeSet(tm, TimesOf(swtmrs) \cup TimesOf(tasks)), NEW new \in TimerSets(tm, tasks, swtmrs)
  PROVE  TimerOK(new, TimesOf(swtmrs) \cup TimesOf(tasks), FALSE)
<1> DEFINE S == TimesOf(swtmrs) \cup TimesOf(tasks)
           next == OsGetNextExpireTime(tasks, swtmrs)
<1>1. PICK end \in Slice \cup {Never} : new = OsSchedSetNextExpireTime(tm, next, end)
  BY DEF TimerSets
<1>2. S = TimesOf(tasks) \cup TimesOf(swtmrs)
  OBVIOUS
<1>3. \A t \in TimesOf(tasks) \cup TimesOf(swtmrs) : t <= Never - OS_CYCLE_PER_TICK
  BY DEF MayBeSet
<1>4. NextOf(next, TimesOf(tasks) \cup TimesOf(swtmrs))
  BY <1>3, NextOfBoth
<1>5. MayBeSet(tm, S)
  OBVIOUS
<1> HIDE DEF S, next
<1>6. TimerOK(OsSchedSetNextExpireTime(tm, next, end), S, FALSE)
  BY <1>2, <1>4, <1>5, TimerIsSet
<1> QED BY <1>1, <1>6 DEF S

\* The times of a link from which an entry is taken, and to which one is added.
LEMMA DeleteTimes ==
  ASSUME NEW N, NEW link, LinkOK(link, N), NEW d
  PROVE  /\ LinkOK(OsDeleteSortLink(link, d), N)
         /\ TimesOf(OsDeleteSortLink(link, d)) \subseteq TimesOf(link)
         /\ Nodes(OsDeleteSortLink(link, d)) = Nodes(link) \ {d}
<1>1. /\ LinkOK(OsDeleteSortLink(link, d), N)
      /\ Entries(OsDeleteSortLink(link, d)) = {x \in Entries(link) : x.node # d}
  BY DeleteEffect
<1>2. /\ Nodes(link) = {x.node : x \in Entries(link)}
      /\ Nodes(OsDeleteSortLink(link, d)) = {x.node : x \in Entries(OsDeleteSortLink(link, d))}
  BY <1>1, NodesAreEntries
<1> QED BY <1>1, <1>2 DEF TimesOf

\* OsAddNode2SortLink adds one node and one time.
LEMMA AddTimes ==
  ASSUME NEW N, NEW link, LinkOK(link, N), NEW n \in N, n \notin Nodes(link), NEW t \in Int
  PROVE  LET w == OsAddNode2SortLink(link, Entry(n, t)) IN
         LinkOK(w, N) /\ TimesOf(w) = TimesOf(link) \cup {t} /\ Nodes(w) = Nodes(link) \cup {n}
<1> DEFINE e == Entry(n, t)
           w == OsAddNode2SortLink(link, e)
<1>1. e \in EntryOf(N) /\ e.node = n /\ e.time = t
  BY DEF Entry, EntryOf
<1> HIDE DEF e
<1>2. LinkOK(w, N) /\ Entries(w) = Entries(link) \cup {e}
  BY <1>1, AddEffect
<1>3. Nodes(link) = {x.node : x \in Entries(link)} /\ Nodes(w) = {x.node : x \in Entries(w)}
  BY <1>2, NodesAreEntries
<1> HIDE DEF w
<1>4. TimesOf(w) = TimesOf(link) \cup {t} /\ Nodes(w) = Nodes(link) \cup {n}
  BY <1>1, <1>2, <1>3 DEF TimesOf
<1> QED BY <1>2, <1>4 DEF w, e

\* A cycle passes.
LEMMA PassedEffect ==
  ASSUME NEW N, NEW link, LinkOK(link, N)
  PROVE  LET w == [i \in DOMAIN link |-> [link[i] EXCEPT !.time = @ - 1]] IN
         /\ LinkOK(w, N) /\ Nodes(w) = Nodes(link)
         /\ Entries(w) = {[node |-> x.node, time |-> x.time - 1] : x \in Entries(link)}
         /\ TimesOf(w) = {t - 1 : t \in TimesOf(link)}
<1> DEFINE n == Len(link)
           w == [i \in DOMAIN link |-> [link[i] EXCEPT !.time = @ - 1]]
<1>1. /\ n \in Nat /\ DOMAIN link = 1..n /\ \A i \in 1..n : link[i] \in EntryOf(N)
      /\ \A j, k \in 1..n : link[j].node = link[k].node => j = k
      /\ \A j, k \in 1..n : j < k => link[j].time <= link[k].time
  BY DEF LinkOK
<1>2. \A i \in 1..n : /\ w[i] = [node |-> link[i].node, time |-> link[i].time - 1]
                      /\ w[i] \in EntryOf(N)
                      /\ w[i].node = link[i].node /\ w[i].time = link[i].time - 1
                      /\ link[i].time \in Int
  BY <1>1 DEF EntryOf
<1>3. w \in Seq(EntryOf(N)) /\ Len(w) = n /\ DOMAIN w = 1..n
  <2>1. w \in [1..n -> EntryOf(N)]
    BY <1>1, <1>2
  <2> QED BY <2>1, <1>1
<1> HIDE DEF w
<1>4. LinkOK(w, N)
  <2>1. \A j, k \in 1..n : w[j].node = w[k].node => j = k
    BY <1>1, <1>2
  <2>2. \A j, k \in 1..n : j < k => w[j].time <= w[k].time
    <3>1. SUFFICES ASSUME NEW j \in 1..n, NEW k \in 1..n, j < k PROVE w[j].time <= w[k].time
      OBVIOUS
    <3>2. link[j].time <= link[k].time
      BY <3>1, <1>1
    <3>3. PICK a \in Int, b \in Int : a = link[j].time /\ b = link[k].time
      BY <1>2
    <3>4. w[j].time = a - 1 /\ w[k].time = b - 1
      BY <3>3, <1>2, Zenon
    <3> QED BY <3>2, <3>3, <3>4
  <2> QED BY <2>1, <2>2, <1>3 DEF LinkOK
<1>5. Nodes(w) = Nodes(link)
  BY <1>1, <1>2, <1>3 DEF Nodes
<1>6. Entries(w) = {[node |-> x.node, time |-> x.time - 1] : x \in Entries(link)}
  BY <1>1, <1>2, <1>3 DEF Entries
<1>7. TimesOf(w) = {t - 1 : t \in TimesOf(link)}
  <2>1. TimesOf(w) = {x.time : x \in Entries(w)} /\ TimesOf(link) = {x.time : x \in Entries(link)}
    BY DEF TimesOf
  <2>2. TimesOf(w) = {x.time - 1 : x \in Entries(link)}
    <3>1. \A x \in Entries(link) : [node |-> x.node, time |-> x.time - 1].time = x.time - 1
      OBVIOUS
    <3>2. \A t : t \in TimesOf(w) => \E x \in Entries(link) : t = x.time - 1
      BY <2>1, <1>6
    <3>3. ASSUME NEW x \in Entries(link) PROVE x.time - 1 \in TimesOf(w)
      <4>1. PICK y \in Entries(w) : y = [node |-> x.node, time |-> x.time - 1]
        BY <1>6
      <4>2. y.time = x.time - 1
        BY <4>1
      <4> QED BY <4>2, <2>1
    <3> QED BY <3>2, <3>3
  <2>3. {x.time - 1 : x \in Entries(link)} = {t - 1 : t \in TimesOf(link)}
    BY <2>1
  <2> QED BY <2>2, <2>3, Zenon
<1> QED BY <1>4, <1>5, <1>6, <1>7 DEF w

\* OsSwtmrInit and LOS_Start.
LEMMA InitInv == Init => SwtmrInv
<1> SUFFICES ASSUME Init PROVE SwtmrInv
  OBVIOUS
<1>1. LIMIT \in Nat \ {0} /\ MaxGen \in Nat \ {0, 1}
  BY SwtmrAssumption
<1>2. \A i \in Index : i \in Nat /\ i < LIMIT /\ i % LIMIT = i /\ i \in TimerID
  <2>1. \A i \in Index : i \in Nat /\ i < LIMIT /\ i % LIMIT = i
    BY <1>1 DEF Index
  <2>2. LIMIT * MaxGen >= LIMIT
    <3>1. PICK n \in Nat : n = LIMIT * (MaxGen - 1)
      BY <1>1
    <3> QED BY <3>1, <1>1
  <2>3. PICK m \in Nat : m = LIMIT * MaxGen
    BY <1>1
  <2>4. TimerID = 0..(m - 1)
    BY <2>3, Zenon DEF TimerID
  <2> QED BY <2>1, <2>2, <2>3, <2>4, <1>1
<1>3. /\ cb = [i \in Index |-> [id |-> i, state |-> "UNUSED", kind |-> NoKind]]
      /\ freeList = [i \in 1..LIMIT |-> i - 1] /\ creating = {} /\ handlerQueue = <<>>
      /\ swtmrLink = <<>> /\ taskLink = <<>> /\ switching = FALSE /\ held = {}
  BY DEF Init
<1>4. /\ freeList \in Seq(Index) /\ IsInjective(freeList) /\ Range(freeList) = Index
  <2>1. DOMAIN freeList = 1..LIMIT /\ \A i \in 1..LIMIT : freeList[i] = i - 1 /\ i - 1 \in Index
    BY <1>1, <1>3 DEF Index
  <2>2. freeList \in [1..LIMIT -> Index]
    BY <2>1, <1>3
  <2>3. \A i \in Index : i + 1 \in 1..LIMIT /\ freeList[i + 1] = i
    <3>1. ASSUME NEW i \in Index PROVE i + 1 \in 1..LIMIT /\ (i + 1) - 1 = i
      BY <1>1, <1>2
    <3> QED BY <3>1, <2>1
  <2>4. Range(freeList) = Index
    <3>1. Range(freeList) = {freeList[j] : j \in 1..LIMIT}
      BY <2>1, Zenon DEF Range
    <3>2. \A i \in Index : \E j \in 1..LIMIT : freeList[j] = i
      BY <2>3
    <3>3. \A j \in 1..LIMIT : freeList[j] \in Index
      BY <2>1
    <3> HIDE DEF Index
    <3> QED BY <3>1, <3>2, <3>3
  <2> QED BY <2>1, <2>2, <2>4, <1>1 DEF IsInjective
<1>5. /\ LinkOK(<<>>, Index) /\ LinkOK(<<>>, Sleeper) /\ Nodes(<<>>) = {} /\ TimesOf(<<>>) = {}
  BY DEF LinkOK, Nodes, TimesOf, Entries
<1>6. /\ \A i \in Index : cb[i] = [id |-> i, state |-> "UNUSED", kind |-> NoKind]
      /\ cb \in [Index -> ControlBlock]
  BY <1>2, <1>3 DEF ControlBlock
<1>7. Parts(cb, freeList, swtmrLink, handlerQueue, creating)
  <2>1. handlerQueue \in Seq(TimerID) /\ Len(handlerQueue) <= LIMIT
    BY <1>1, <1>3
  <2>2. \A i \in Index : /\ cb[i].id % LIMIT = i /\ cb[i].state = "UNUSED"
                         /\ i \in Range(freeList) \cup creating /\ i \notin Nodes(swtmrLink)
    BY <1>2, <1>3, <1>4, <1>5, <1>6
  <2> QED BY <2>1, <2>2, <1>3, <1>4, <1>5, <1>6 DEF Parts
<1>8. HeldOK
  BY <1>3, <1>6 DEF HeldOK, HandlesAreFresh
<1>9. TimerInv
  <2> DEFINE tm == [time |-> Never, slice |-> FALSE]
  <2>1. PICK end \in Slice : timer = OsSchedSetNextExpireTime(tm, Never, end)
    BY DEF Init
  <2>2. MayBeSet(tm, {}) /\ NextOf(Never, {})
    BY TickAssumption DEF MayBeSet, NextOf, Timer
  <2> HIDE DEF tm
  <2>3. TimerOK(OsSchedSetNextExpireTime(tm, Never, end), {}, FALSE)
    BY <2>2, TimerIsSet
  <2>4. Times = {}
    BY <1>3, <1>5 DEF Times
  <2> QED BY <2>1, <2>3, <2>4, <1>3 DEF TimerInv
<1> QED BY <1>3, <1>5, <1>7, <1>8, <1>9 DEF SwtmrInv, PoolInv

\* What SwtmrInv says, by parts.
LEMMA InvParts ==
  ASSUME SwtmrInv
  PROVE  /\ Parts(cb, freeList, swtmrLink, handlerQueue, creating)
         /\ LinkOK(swtmrLink, Index) /\ LinkOK(taskLink, Sleeper)
         /\ held \subseteq TimerID /\ \A i \in Index : cb[i].state = "UNUSED" <=> cb[i].id \notin held
         /\ TimerOK(timer, Times, switching)
BY DEF SwtmrInv, PoolInv, TimerInv, HeldOK, HandlesAreFresh, Parts

\* IDs of different control blocks are different.
LEMMA IDsDiffer ==
  ASSUME NEW C, NEW F, NEW L, NEW Q, NEW c, Parts(C, F, L, Q, c),
         NEW i \in Index, NEW j \in Index, C[i].id = C[j].id
  PROVE  i = j
BY DEF Parts

\* A control block with another state, and with another kind.
LEMMA ControlBlockFields ==
  ASSUME NEW b \in ControlBlock, NEW s, NEW k
  PROVE  /\ [b EXCEPT !.state = s] = [id |-> b.id, state |-> s, kind |-> b.kind]
         /\ [b EXCEPT !.state = s, !.kind = k] = [id |-> b.id, state |-> s, kind |-> k]
<1> DEFINE u == [b EXCEPT !.state = s]
           v == [b EXCEPT !.state = s, !.kind = k]
<1>1. DOMAIN b = {"id", "state", "kind"} /\ b = [x \in {"id", "state", "kind"} |-> b[x]]
  BY DEF ControlBlock
<1>2. u = [x \in {"id", "state", "kind"} |-> u[x]] /\ u.id = b.id /\ u.state = s /\ u.kind = b.kind
  BY <1>1
<1>3. v = [x \in {"id", "state", "kind"} |-> v[x]] /\ v.id = b.id /\ v.state = s /\ v.kind = k
  BY <1>1
<1> HIDE DEF u, v
<1>4. u = [id |-> u.id, state |-> u.state, kind |-> u.kind]
  BY <1>2
<1>5. v = [id |-> v.id, state |-> v.state, kind |-> v.kind]
  BY <1>3
<1>6. u = [id |-> b.id, state |-> s, kind |-> b.kind] /\ v = [id |-> b.id, state |-> s, kind |-> k]
  BY <1>2, <1>3, <1>4, <1>5
<1> QED BY <1>6 DEF u, v

\* LOS_SwtmrCreate, up to where it gives back the lock: takes a control block.
LEMMA CreateTakeStep ==
  ASSUME SwtmrInv, SwtmrCreateTake
  PROVE  SwtmrInv'
<1> DEFINE i == Head(freeList)
<1>1. /\ freeList # <<>> /\ freeList' = Tail(freeList) /\ creating' = creating \cup {i}
      /\ UNCHANGED <<cb, handlerQueue, swtmrLink, taskLink, timer, switching, held>>
  BY DEF SwtmrCreateTake
<1>2. freeList \in Seq(Index) /\ IsInjective(freeList)
  BY InvParts DEF Parts
<1>3. /\ freeList' \in Seq(Index) /\ IsInjective(freeList')
      /\ i \in Range(freeList) /\ Range(freeList') = Range(freeList) \ {i}
  BY <1>1, <1>2, TakeFree
<1>4. i \in Index
  BY <1>1, <1>2
<1>5. Range(freeList') \cup creating' = Range(freeList) \cup creating
      /\ Range(freeList') \cap creating' = {} /\ creating' \subseteq Index
  BY <1>1, <1>3, <1>4, InvParts DEF Parts
<1>6. Parts(cb', freeList', swtmrLink', handlerQueue', creating')
  BY <1>1, <1>3, <1>5, InvParts DEF Parts
<1>7. HeldOK' /\ LinkOK(taskLink', Sleeper) /\ TimerInv'
  BY <1>1, InvParts DEF HeldOK, HandlesAreFresh, TimerInv, Times
<1> QED BY <1>6, <1>7 DEF SwtmrInv, PoolInv

\* ... and fills it in.
LEMMA CreateFillStep ==
  ASSUME SwtmrInv, NEW i \in Index, NEW kind \in Kind, SwtmrCreateFill(i, kind)
  PROVE  SwtmrInv'
<1>1. /\ i \in creating /\ cb' = [cb EXCEPT ![i].state = "CREATED", ![i].kind = kind]
      /\ creating' = creating \ {i} /\ held' = held \cup {cb[i].id}
      /\ UNCHANGED <<freeList, handlerQueue, swtmrLink, taskLink, timer, switching>>
  BY DEF SwtmrCreateFill
<1>2. /\ cb \in [Index -> ControlBlock] /\ cb[i].state = "UNUSED" /\ i \notin Range(freeList)
      /\ i \notin Nodes(swtmrLink) /\ cb[i].id \in TimerID
  <2>1. cb \in [Index -> ControlBlock] /\ cb[i].state = "UNUSED" /\ i \notin Range(freeList)
    BY <1>1, InvParts DEF Parts
  <2>2. i \notin Nodes(swtmrLink)
    BY <2>1, InvParts DEF Parts
  <2> QED BY <2>1, <2>2 DEF ControlBlock
<1>3. /\ \A j \in Index : j # i => cb'[j] = cb[j]
      /\ cb'[i] = [id |-> cb[i].id, state |-> "CREATED", kind |-> kind]
      /\ cb' \in [Index -> ControlBlock]
  <2>1. cb[i] \in ControlBlock
    BY <1>2
  <2>2. [cb[i] EXCEPT !.state = "CREATED", !.kind = kind]
          = [id |-> cb[i].id, state |-> "CREATED", kind |-> kind]
    BY <2>1, ControlBlockFields
  <2>3. cb' = [cb EXCEPT ![i] = [cb[i] EXCEPT !.state = "CREATED", !.kind = kind]]
    BY <1>1, <1>2
  <2>4. [id |-> cb[i].id, state |-> "CREATED", kind |-> kind] \in ControlBlock
    BY <1>2 DEF ControlBlock
  <2> QED BY <2>2, <2>3, <2>4, <1>2
<1>4. ASSUME NEW j \in Index
      PROVE  /\ cb'[j].id % LIMIT = j
             /\ cb'[j].state # "UNUSED" => cb'[j].kind \in Kind
             /\ cb'[j].state = "UNUSED" <=> j \in Range(freeList') \cup creating'
             /\ cb'[j].state = "TICKING" <=> j \in Nodes(swtmrLink')
  <2>1. CASE j = i
    BY <2>1, <1>1, <1>2, <1>3, InvParts DEF Parts
  <2>2. CASE j # i
    BY <2>2, <1>1, <1>3, InvParts DEF Parts
  <2> QED BY <2>1, <2>2
<1>5. Parts(cb', freeList', swtmrLink', handlerQueue', creating')
  BY <1>1, <1>3, <1>4, InvParts DEF Parts
<1>6. HeldOK'
  <2>1. ASSUME NEW j \in Index PROVE cb'[j].state = "UNUSED" <=> cb'[j].id \notin held'
    <3>1. CASE j = i
      BY <3>1, <1>1, <1>3
    <3>2. CASE j # i
      <4>1. cb[j].id # cb[i].id
        BY <3>2, InvParts, IDsDiffer
      <4> QED BY <4>1, <3>2, <1>1, <1>3, InvParts
    <3> QED BY <3>1, <3>2
  <2> QED BY <2>1, <1>1, <1>2, InvParts DEF HeldOK, HandlesAreFresh
<1>7. LinkOK(taskLink', Sleeper) /\ TimerInv'
  BY <1>1, InvParts DEF TimerInv, Times
<1> QED BY <1>5, <1>6, <1>7 DEF SwtmrInv, PoolInv

\* The timer that an ID of the application is for.
LEMMA ValidTimer ==
  ASSUME SwtmrInv, NEW id \in held, Valid(id)
  PROVE  /\ id % LIMIT \in Index /\ cb[id % LIMIT] \in ControlBlock /\ cb[id % LIMIT].id = id
         /\ cb[id % LIMIT].state # "UNUSED" /\ cb[id % LIMIT].kind \in Kind
<1>1. id \in TimerID
  BY InvParts
<1>2. id % LIMIT \in Index
  BY <1>1, Numbers
<1>3. cb[id % LIMIT].id = id
  BY DEF Valid
<1>4. cb[id % LIMIT].state # "UNUSED"
  BY <1>2, <1>3, InvParts
<1> QED BY <1>2, <1>3, <1>4, InvParts DEF Parts

\* Another state of a control block that stays in use.
LEMMA StateStep ==
  ASSUME SwtmrInv, NEW i \in Index, cb[i].state # "UNUSED",
         NEW state \in {"CREATED", "TICKING"}, cb' = [cb EXCEPT ![i].state = state],
         UNCHANGED <<freeList, creating, handlerQueue, held>>,
         LinkOK(swtmrLink', Index),
         Nodes(swtmrLink') = IF state = "TICKING" THEN Nodes(swtmrLink) \cup {i}
                             ELSE Nodes(swtmrLink) \ {i}
  PROVE  /\ Parts(cb', freeList', swtmrLink', handlerQueue', creating') /\ HeldOK'
         /\ cb'[i] = [id |-> cb[i].id, state |-> state, kind |-> cb[i].kind]
         /\ \A j \in Index : j # i => cb'[j] = cb[j]
<1>1. cb \in [Index -> ControlBlock] /\ cb[i] \in ControlBlock /\ cb[i].kind \in Kind
  BY InvParts DEF Parts
<1>2. /\ \A j \in Index : j # i => cb'[j] = cb[j]
      /\ cb'[i] = [id |-> cb[i].id, state |-> state, kind |-> cb[i].kind]
      /\ cb' \in [Index -> ControlBlock]
  <2>1. [cb[i] EXCEPT !.state = state] = [id |-> cb[i].id, state |-> state, kind |-> cb[i].kind]
    BY <1>1, ControlBlockFields
  <2>2. cb' = [cb EXCEPT ![i] = [cb[i] EXCEPT !.state = state]]
    BY <1>1
  <2>3. [id |-> cb[i].id, state |-> state, kind |-> cb[i].kind] \in ControlBlock
    BY <1>1 DEF ControlBlock
  <2> QED BY <2>1, <2>2, <2>3, <1>1
<1>3. ASSUME NEW j \in Index
      PROVE  /\ cb'[j].id % LIMIT = j
             /\ cb'[j].state # "UNUSED" => cb'[j].kind \in Kind
             /\ cb'[j].state = "UNUSED" <=> j \in Range(freeList') \cup creating'
             /\ cb'[j].state = "TICKING" <=> j \in Nodes(swtmrLink')
  <2>1. CASE j = i
    <3>1. cb[i].id % LIMIT = i /\ i \notin Range(freeList) \cup creating
      BY InvParts DEF Parts
    <3>2. cb'[i].id = cb[i].id /\ cb'[i].state = state /\ cb'[i].kind = cb[i].kind
      BY <1>2
    <3>3. state = "TICKING" <=> i \in Nodes(swtmrLink')
      OBVIOUS
    <3> QED BY <2>1, <3>1, <3>2, <3>3, <1>1
  <2>2. CASE j # i
    BY <2>2, <1>2, InvParts DEF Parts
  <2> QED BY <2>1, <2>2
<1>4. Parts(cb', freeList', swtmrLink', handlerQueue', creating')
  BY <1>2, <1>3, InvParts DEF Parts
<1>5. HeldOK'
  BY <1>2, InvParts DEF HeldOK, HandlesAreFresh
<1> QED BY <1>2, <1>4, <1>5

\* What LOS_SwtmrStart has done when it returns: stopped first if ticking.
LEMMA StartEffect ==
  ASSUME SwtmrInv, NEW id \in held, LOS_SwtmrStart(id)
  PROVE  LET i == id % LIMIT
             stopped == OsDeleteSortLink(swtmrLink, i) IN
         /\ i \in Index /\ cb[i].id = id /\ cb[i].state # "UNUSED" /\ cb[i].kind \in Kind
         /\ cb' = [cb EXCEPT ![i].state = "TICKING"]
         /\ swtmrLink' = OsAddNode2SortLink(stopped, Restarted(i))
         /\ Restarted(i) = Entry(i, cb[i].kind.interval * OS_CYCLE_PER_TICK)
         /\ Restarted(i) \in EntryOf(Index) /\ Restarted(i).node = i
         /\ LinkOK(stopped, Index) /\ i \notin Nodes(stopped)
         /\ LinkOK(swtmrLink', Index)
         /\ Entries(swtmrLink') = {x \in Entries(swtmrLink) : x.node # i} \cup {Restarted(i)}
         /\ UNCHANGED <<freeList, creating, handlerQueue, taskLink, switching, held>>
<1> DEFINE i == id % LIMIT
           stopped == OsDeleteSortLink(swtmrLink, i)
<1>1. /\ Valid(id) /\ cb' = [cb EXCEPT ![i].state = "TICKING"]
      /\ swtmrLink' = OsSwtmrStart(stopped, i)
      /\ UNCHANGED <<freeList, creating, handlerQueue, taskLink, switching, held>>
  BY DEF LOS_SwtmrStart
<1>2. i \in Index /\ cb[i].id = id /\ cb[i].state # "UNUSED" /\ cb[i].kind \in Kind
  BY <1>1, ValidTimer
<1>3. /\ LinkOK(stopped, Index) /\ Nodes(stopped) = Nodes(swtmrLink) \ {i}
      /\ Entries(stopped) = {x \in Entries(swtmrLink) : x.node # i}
  BY InvParts, DeleteEffect, DeleteTimes
<1> HIDE DEF i, stopped
<1>4. /\ Restarted(i) = Entry(i, cb[i].kind.interval * OS_CYCLE_PER_TICK)
      /\ Restarted(i) \in EntryOf(Index) /\ Restarted(i).node = i
  <2>1. cb[i].kind.interval * OS_CYCLE_PER_TICK \in Nat
    BY <1>2, Numbers
  <2> QED BY <2>1, <1>2 DEF Restarted, Entry, EntryOf
<1>5. swtmrLink' = OsAddNode2SortLink(stopped, Restarted(i))
  BY <1>1, <1>4 DEF OsSwtmrStart
<1>6. i \notin Nodes(stopped)
  BY <1>3
<1>7. LinkOK(swtmrLink', Index) /\ Entries(swtmrLink') = Entries(stopped) \cup {Restarted(i)}
  BY <1>3, <1>4, <1>5, <1>6, AddEffect
<1>8. Entries(swtmrLink') = {x \in Entries(swtmrLink) : x.node # i} \cup {Restarted(i)}
  BY <1>3, <1>7
<1> QED BY <1>1, <1>2, <1>3, <1>4, <1>5, <1>6, <1>7, <1>8 DEF i, stopped

\* LOS_SwtmrStart.
LEMMA StartStep ==
  ASSUME SwtmrInv, NEW id \in held, LOS_SwtmrStart(id)
  PROVE  SwtmrInv'
<1> DEFINE i == id % LIMIT
           stopped == OsDeleteSortLink(swtmrLink, i)
           time == cb[i].kind.interval * OS_CYCLE_PER_TICK
<1>1. /\ i \in Index /\ cb[i].state # "UNUSED" /\ cb[i].kind \in Kind
      /\ cb' = [cb EXCEPT ![i].state = "TICKING"]
      /\ swtmrLink' = OsAddNode2SortLink(stopped, Entry(i, time))
      /\ UNCHANGED <<freeList, creating, handlerQueue, taskLink, switching, held>>
  BY StartEffect
<1>2. /\ LinkOK(stopped, Index) /\ TimesOf(stopped) \subseteq TimesOf(swtmrLink)
      /\ Nodes(stopped) = Nodes(swtmrLink) \ {i}
  BY InvParts, DeleteTimes
<1>3. /\ time \in Int /\ time >= OS_CYCLE_PER_TICK /\ time <= Never - OS_CYCLE_PER_TICK
  BY <1>1, Numbers
<1>4. \E old \in IF cb[i].state = "TICKING" THEN TimerSets(timer, taskLink, stopped) ELSE {timer} :
        timer' \in TimerSets(old, taskLink, swtmrLink')
  BY DEF LOS_SwtmrStart
<1> HIDE DEF i, stopped, time
<1>5. /\ LinkOK(swtmrLink', Index) /\ TimesOf(swtmrLink') = TimesOf(stopped) \cup {time}
      /\ Nodes(swtmrLink') = Nodes(swtmrLink) \cup {i}
  <2>1. i \notin Nodes(stopped)
    BY <1>2
  <2>2. /\ LinkOK(swtmrLink', Index) /\ TimesOf(swtmrLink') = TimesOf(stopped) \cup {time}
        /\ Nodes(swtmrLink') = Nodes(stopped) \cup {i}
    BY <2>1, <1>1, <1>2, <1>3, AddTimes
  <2> QED BY <2>2, <1>2
<1>6. Parts(cb', freeList', swtmrLink', handlerQueue', creating') /\ HeldOK'
  BY <1>1, <1>5, StateStep
<1>7. PICK old \in IF cb[i].state = "TICKING" THEN TimerSets(timer, taskLink, stopped) ELSE {timer} :
        timer' \in TimerSets(old, taskLink, swtmrLink')
  BY <1>4
<1> DEFINE S == TimesOf(stopped) \cup TimesOf(taskLink)
<1>8. \A t \in S : t \in Times
  BY <1>2 DEF Times
<1>9. TimerOK(old, S, switching) \/ TimerOK(old, S, FALSE)
  <2>1. CASE cb[i].state = "TICKING"
    <3>1. MayBeSet(timer, S)
      BY <1>8, InvParts, StaysInTime
    <3>2. old \in TimerSets(timer, taskLink, stopped)
      BY <2>1, <1>7
    <3> QED BY <3>1, <3>2, <1>2, InvParts, SetsInTime
  <2>2. CASE cb[i].state # "TICKING"
    <3>1. old = timer
      BY <2>2, <1>7
    <3>2. TimerOK(timer, S, switching)
      BY <1>8, InvParts DEF TimerOK
    <3> QED BY <3>1, <3>2
  <2> QED BY <2>1, <2>2
<1>10. MayBeSet(old, TimesOf(swtmrLink') \cup TimesOf(taskLink))
  <2>1. \A t \in TimesOf(swtmrLink') \cup TimesOf(taskLink) :
          t \in S \/ (t \in Int /\ t >= OS_CYCLE_PER_TICK /\ t <= Never - OS_CYCLE_PER_TICK)
    BY <1>3, <1>5
  <2> HIDE DEF S
  <2> QED BY <2>1, <1>9, StaysInTime
<1>11. TimerOK(timer', TimesOf(swtmrLink') \cup TimesOf(taskLink), FALSE)
  BY <1>5, <1>7, <1>10, InvParts, SetsInTime
<1>12. LinkOK(taskLink', Sleeper) /\ TimerInv'
  BY <1>1, <1>11, InvParts DEF TimerInv, Times, TimerOK
<1> QED BY <1>6, <1>12 DEF SwtmrInv, PoolInv

\* An entry of either link is taken out and the timer set again.
LEMMA FewerInTime ==
  ASSUME SwtmrInv, NEW swtmrs, LinkOK(swtmrs, Index), TimesOf(swtmrs) \subseteq TimesOf(swtmrLink),
         NEW new \in TimerSets(timer, taskLink, swtmrs)
  PROVE  TimerOK(new, TimesOf(swtmrs) \cup TimesOf(taskLink), FALSE)
<1>1. MayBeSet(timer, TimesOf(swtmrs) \cup TimesOf(taskLink))
  <2>1. \A t \in TimesOf(swtmrs) \cup TimesOf(taskLink) : t \in Times
    BY DEF Times
  <2> QED BY <2>1, InvParts, StaysInTime
<1> QED BY <1>1, InvParts, SetsInTime

\* LOS_SwtmrStop.
LEMMA StopStep ==
  ASSUME SwtmrInv, NEW id \in held, LOS_SwtmrStop(id)
  PROVE  SwtmrInv'
<1> DEFINE i == id % LIMIT
<1>1. /\ Valid(id) /\ cb' = [cb EXCEPT ![i].state = "CREATED"]
      /\ swtmrLink' = OsDeleteSortLink(swtmrLink, i)
      /\ timer' \in TimerSets(timer, taskLink, swtmrLink')
      /\ UNCHANGED <<freeList, creating, handlerQueue, taskLink, switching, held>>
  BY DEF LOS_SwtmrStop
<1>2. i \in Index /\ cb[i].state # "UNUSED"
  BY <1>1, ValidTimer
<1> HIDE DEF i
<1>3. /\ LinkOK(swtmrLink', Index) /\ TimesOf(swtmrLink') \subseteq TimesOf(swtmrLink)
      /\ Nodes(swtmrLink') = Nodes(swtmrLink) \ {i}
  BY <1>1, InvParts, DeleteTimes
<1>4. Parts(cb', freeList', swtmrLink', handlerQueue', creating') /\ HeldOK'
  BY <1>1, <1>2, <1>3, StateStep
<1>5. TimerOK(timer', TimesOf(swtmrLink') \cup TimesOf(taskLink), FALSE)
  BY <1>1, <1>3, FewerInTime
<1>6. LinkOK(taskLink', Sleeper) /\ TimerInv'
  BY <1>1, <1>5, InvParts DEF TimerInv, Times, TimerOK
<1> QED BY <1>4, <1>6 DEF SwtmrInv, PoolInv

\* The control block is free, and the ID no longer the application's.
LEMMA DeleteEffectOnPool ==
  ASSUME SwtmrInv, NEW id \in held, LOS_SwtmrDelete(id)
  PROVE  LET i == id % LIMIT IN
         /\ i \in Index /\ cb[i].id = id /\ cb[i].state # "UNUSED"
         /\ cb'[i] = [id |-> id, state |-> "UNUSED", kind |-> NoKind]
         /\ \A j \in Index : j # i => cb'[j] = cb[j]
         /\ swtmrLink' = OsDeleteSortLink(swtmrLink, i)
         /\ LinkOK(swtmrLink', Index) /\ TimesOf(swtmrLink') \subseteq TimesOf(swtmrLink)
         /\ Nodes(swtmrLink') = Nodes(swtmrLink) \ {i}
         /\ Parts(cb', freeList', swtmrLink', handlerQueue', creating') /\ HeldOK'
         /\ UNCHANGED <<creating, handlerQueue, taskLink, switching>>
<1> DEFINE i == id % LIMIT
<1>1. /\ Valid(id) /\ cb' = [cb EXCEPT ![i].state = "UNUSED", ![i].kind = NoKind]
      /\ freeList' = <<i>> \o freeList /\ held' = held \ {id}
      /\ swtmrLink' = OsDeleteSortLink(swtmrLink, i)
      /\ UNCHANGED <<creating, handlerQueue, taskLink, switching>>
  BY DEF LOS_SwtmrDelete
<1>2. i \in Index /\ cb[i] \in ControlBlock /\ cb[i].id = id /\ cb[i].state # "UNUSED"
  BY <1>1, ValidTimer
<1> HIDE DEF i
<1>3. /\ LinkOK(swtmrLink', Index) /\ TimesOf(swtmrLink') \subseteq TimesOf(swtmrLink)
      /\ Nodes(swtmrLink') = Nodes(swtmrLink) \ {i}
  BY <1>1, InvParts, DeleteTimes
<1>4. /\ cb \in [Index -> ControlBlock] /\ freeList \in Seq(Index) /\ IsInjective(freeList)
      /\ i \notin Range(freeList) /\ i \notin creating
  BY <1>2, InvParts DEF Parts
<1>5. /\ \A j \in Index : j # i => cb'[j] = cb[j]
      /\ cb'[i] = [id |-> id, state |-> "UNUSED", kind |-> NoKind]
      /\ cb' \in [Index -> ControlBlock]
  <2>1. [cb[i] EXCEPT !.state = "UNUSED", !.kind = NoKind]
          = [id |-> id, state |-> "UNUSED", kind |-> NoKind]
    BY <1>2, ControlBlockFields
  <2>2. cb' = [cb EXCEPT ![i] = [cb[i] EXCEPT !.state = "UNUSED", !.kind = NoKind]]
    BY <1>1, <1>2, <1>4
  <2>3. [id |-> id, state |-> "UNUSED", kind |-> NoKind] \in ControlBlock
    BY <1>2 DEF ControlBlock
  <2> QED BY <2>1, <2>2, <2>3, <1>2, <1>4
<1>6. /\ freeList' \in Seq(Index) /\ IsInjective(freeList')
      /\ Range(freeList') = Range(freeList) \cup {i}
  BY <1>1, <1>2, <1>4, PutFree
<1>7. ASSUME NEW j \in Index
      PROVE  /\ cb'[j].id % LIMIT = j
             /\ cb'[j].state # "UNUSED" => cb'[j].kind \in Kind
             /\ cb'[j].state = "UNUSED" <=> j \in Range(freeList') \cup creating'
             /\ cb'[j].state = "TICKING" <=> j \in Nodes(swtmrLink')
  <2>1. CASE j = i
    <3>1. cb'[i].id % LIMIT = i /\ cb'[i].state = "UNUSED"
      BY <1>2, <1>5, InvParts DEF Parts
    <3> QED BY <3>1, <2>1, <1>3, <1>6
  <2>2. CASE j # i
    BY <2>2, <1>1, <1>3, <1>5, <1>6, InvParts DEF Parts
  <2> QED BY <2>1, <2>2
<1>8. Parts(cb', freeList', swtmrLink', handlerQueue', creating')
  <2>1. Range(freeList') \cap creating' = {}
    BY <1>1, <1>4, <1>6, InvParts DEF Parts
  <2> QED BY <2>1, <1>1, <1>3, <1>5, <1>6, <1>7, InvParts DEF Parts
<1>9. HeldOK'
  <2>1. ASSUME NEW j \in Index PROVE cb'[j].state = "UNUSED" <=> cb'[j].id \notin held'
    <3>1. CASE j = i
      <4>1. cb'[i].state = "UNUSED" /\ cb'[i].id = id
        BY <1>5
      <4>2. held' = held \ {id}
        BY <1>1
      <4> QED BY <4>1, <4>2, <3>1
    <3>2. CASE j # i
      <4>1. cb[j].id # id
        BY <3>2, <1>2, InvParts, IDsDiffer
      <4> QED BY <4>1, <3>2, <1>1, <1>5, InvParts
    <3> QED BY <3>1, <3>2
  <2> QED BY <2>1, <1>1, InvParts DEF HeldOK, HandlesAreFresh
<1> QED BY <1>1, <1>2, <1>3, <1>5, <1>8, <1>9 DEF i

\* LOS_SwtmrDelete.
LEMMA DeleteStep ==
  ASSUME SwtmrInv, NEW id \in held, LOS_SwtmrDelete(id)
  PROVE  SwtmrInv'
<1> DEFINE i == id % LIMIT
<1>1. /\ LinkOK(swtmrLink', Index) /\ TimesOf(swtmrLink') \subseteq TimesOf(swtmrLink)
      /\ Parts(cb', freeList', swtmrLink', handlerQueue', creating') /\ HeldOK'
      /\ UNCHANGED <<creating, handlerQueue, taskLink, switching>>
  BY DeleteEffectOnPool
<1>2. timer' \in IF cb[i].state = "TICKING" THEN TimerSets(timer, taskLink, swtmrLink') ELSE {timer}
  BY DEF LOS_SwtmrDelete
<1> HIDE DEF i
<1> DEFINE S == TimesOf(swtmrLink') \cup TimesOf(taskLink)
<1>3. S \subseteq Times
  BY <1>1 DEF Times
<1>4. TimerOK(timer', S, FALSE) \/ TimerOK(timer', S, switching)
  <2>1. CASE cb[i].state = "TICKING"
    BY <2>1, <1>1, <1>2, FewerInTime
  <2>2. CASE cb[i].state # "TICKING"
    <3>1. timer' = timer
      BY <2>2, <1>2
    <3> QED BY <3>1, <1>3, InvParts DEF TimerOK
  <2> QED BY <2>1, <2>2
<1>5. S = Times'
  BY <1>1 DEF Times
<1> HIDE DEF S
<1>6. LinkOK(taskLink', Sleeper) /\ TimerInv'
  BY <1>1, <1>4, <1>5, InvParts DEF TimerInv, TimerOK
<1> QED BY <1>1, <1>6 DEF SwtmrInv, PoolInv

\* The timer task takes an expiry off its queue.
LEMMA HandleStep ==
  ASSUME SwtmrInv, OsSwtmrTask
  PROVE  SwtmrInv'
<1>1. /\ handlerQueue # <<>> /\ handlerQueue' = Tail(handlerQueue)
      /\ UNCHANGED <<cb, freeList, creating, swtmrLink, taskLink, timer, switching, held>>
  BY DEF OsSwtmrTask
<1>2. handlerQueue \in Seq(TimerID) /\ Len(handlerQueue) <= LIMIT /\ LIMIT \in Nat
  BY InvParts, Numbers DEF Parts
<1>3. handlerQueue' \in Seq(TimerID) /\ Len(handlerQueue') <= LIMIT
  BY <1>1, <1>2
<1>4. Parts(cb', freeList', swtmrLink', handlerQueue', creating')
  BY <1>1, <1>3, InvParts DEF Parts
<1>5. HeldOK' /\ LinkOK(taskLink', Sleeper) /\ TimerInv'
  BY <1>1, InvParts DEF HeldOK, HandlesAreFresh, TimerInv, Times
<1> QED BY <1>4, <1>5 DEF SwtmrInv, PoolInv

\* A context switch, which may delay a task and sets the timer for the new slice.
LEMMA SwitchStep ==
  ASSUME SwtmrInv, OsSchedTaskSwitch
  PROVE  SwtmrInv'
<1>1. /\ timer' \in TimerSets(timer, taskLink', swtmrLink) /\ switching' = FALSE
      /\ UNCHANGED <<cb, freeList, creating, handlerQueue, swtmrLink, held>>
  BY DEF OsSchedTaskSwitch
<1>2. /\ LinkOK(taskLink', Sleeper)
      /\ \A t \in TimesOf(taskLink') :
           t \in TimesOf(taskLink) \/ (t \in Int /\ t >= OS_CYCLE_PER_TICK
                                                 /\ t <= Never - OS_CYCLE_PER_TICK)
  <2>1. CASE UNCHANGED taskLink
    BY <2>1, InvParts
  <2>2. CASE ~UNCHANGED taskLink
    <3>1. PICK t \in Sleeper \ Nodes(taskLink), d \in Delay :
            taskLink' = OsAddNode2SortLink(taskLink, Entry(t, d * OS_CYCLE_PER_TICK))
      BY <2>2 DEF OsSchedTaskSwitch
    <3>2. PICK x \in Int : /\ x = d * OS_CYCLE_PER_TICK
                           /\ x >= OS_CYCLE_PER_TICK /\ x <= Never - OS_CYCLE_PER_TICK
      BY Numbers
    <3>3. LinkOK(taskLink', Sleeper) /\ TimesOf(taskLink') = TimesOf(taskLink) \cup {x}
      BY <3>1, <3>2, InvParts, AddTimes
    <3> QED BY <3>2, <3>3
  <2> QED BY <2>1, <2>2
<1>3. MayBeSet(timer, TimesOf(swtmrLink) \cup TimesOf(taskLink'))
  <2>1. \A t \in TimesOf(swtmrLink) \cup TimesOf(taskLink') :
          t \in Times \/ (t \in Int /\ t >= OS_CYCLE_PER_TICK /\ t <= Never - OS_CYCLE_PER_TICK)
    BY <1>2 DEF Times
  <2> QED BY <2>1, InvParts, StaysInTime
<1>4. TimerOK(timer', TimesOf(swtmrLink) \cup TimesOf(taskLink'), FALSE)
  BY <1>1, <1>2, <1>3, InvParts, SetsInTime
<1>5. Parts(cb', freeList', swtmrLink', handlerQueue', creating')
  BY <1>1, InvParts DEF Parts
<1>6. HeldOK' /\ TimerInv'
  BY <1>1, <1>4, InvParts DEF HeldOK, HandlesAreFresh, TimerInv, Times
<1> QED BY <1>2, <1>5, <1>6 DEF SwtmrInv, PoolInv

\* A task that is woken before its time leaves the link; the timer stays as it is.
LEMMA WakeStep ==
  ASSUME SwtmrInv, NEW t \in Sleeper, OsSchedTaskWake(t)
  PROVE  SwtmrInv'
<1>1. /\ taskLink' = OsDeleteSortLink(taskLink, t) /\ switching' \in {switching, TRUE}
      /\ UNCHANGED <<cb, freeList, creating, handlerQueue, swtmrLink, timer, held>>
  BY DEF OsSchedTaskWake
<1>2. LinkOK(taskLink', Sleeper) /\ TimesOf(taskLink') \subseteq TimesOf(taskLink)
  BY <1>1, InvParts, DeleteTimes
<1>3. Times' \subseteq Times
  BY <1>1, <1>2 DEF Times
<1>4. TimerInv'
  <2>1. timer' = timer /\ (switching => switching')
    <3>1. switching' = switching \/ switching' = TRUE
      BY <1>1, Zenon
    <3> QED BY <3>1, <1>1
  <2>2. TimerOK(timer, Times', switching')
    BY <2>1, <1>3, InvParts, TimerOKOfFewer
  <2> QED BY <2>1, <2>2 DEF TimerInv
<1>5. Parts(cb', freeList', swtmrLink', handlerQueue', creating') /\ HeldOK'
  BY <1>1, InvParts DEF Parts, HeldOK, HandlesAreFresh
<1> QED BY <1>2, <1>4, <1>5 DEF SwtmrInv, PoolInv

\* A cycle passes: every entry and the timer are one closer.
LEMMA ElapseStep ==
  ASSUME SwtmrInv, Elapse
  PROVE  SwtmrInv'
<1> DEFINE Passed(link) == [i \in DOMAIN link |-> [link[i] EXCEPT !.time = @ - 1]]
<1>1. /\ timer.time > -Latency /\ ~switching
      /\ swtmrLink' = Passed(swtmrLink) /\ taskLink' = Passed(taskLink)
      /\ timer' = IF timer.time = Never THEN timer ELSE [timer EXCEPT !.time = @ - 1]
      /\ UNCHANGED <<cb, freeList, creating, handlerQueue, switching, held>>
  BY DEF Elapse
<1>2. /\ LinkOK(swtmrLink', Index) /\ Nodes(swtmrLink') = Nodes(swtmrLink)
      /\ TimesOf(swtmrLink') = {t - 1 : t \in TimesOf(swtmrLink)}
      /\ LinkOK(taskLink', Sleeper) /\ TimesOf(taskLink') = {t - 1 : t \in TimesOf(taskLink)}
  BY <1>1, InvParts, PassedEffect
<1> HIDE DEF Passed
<1>3. Times' = {t - 1 : t \in Times}
  BY <1>2 DEF Times
<1>4. /\ Latency \in Nat /\ Never \in Nat /\ OS_TICK_RESPONSE_TIME_MAX \in Nat
      /\ OS_TICK_RESPONSE_TIME_MAX < Never /\ OS_CYCLE_PER_TICK \in Nat
  BY TickAssumption, SwtmrAssumption
<1>5. TimerOK(timer, Times, FALSE)
  BY <1>1, InvParts DEF TimerOK
<1>6. TimerOK(timer', Times', FALSE)
  <2>1. \A t \in Times' : t \in Int /\ t <= Never - OS_CYCLE_PER_TICK /\ t + 1 \in Times
    BY <1>3, <1>4, <1>5 DEF TimerOK
  <2>2. CASE timer.time = Never
    <3>1. Times = {} /\ timer' = timer
      BY <2>2, <1>1, <1>5 DEF TimerOK
    <3>2. Times' = {}
      BY <3>1, <1>3
    <3> QED BY <3>1, <3>2, <1>5 DEF TimerOK
  <2>3. CASE timer.time # Never
    <3>1. /\ timer' = [timer EXCEPT !.time = @ - 1] /\ timer.time \in Int /\ timer.slice \in BOOLEAN
          /\ -Latency <= timer.time /\ timer.time <= OS_TICK_RESPONSE_TIME_MAX
          /\ \A t \in Times : t >= timer.time - Slack(timer)
      BY <2>3, <1>1, <1>5 DEF TimerOK, Timer
    <3>2. timer' \in Timer /\ timer'.time = timer.time - 1 /\ timer'.slice = timer.slice
      BY <3>1, <1>5 DEF TimerOK, Timer
    <3>3. Slack(timer') = Slack(timer) /\ Slack(timer) \in Int
      BY <3>1, <3>2, <1>4 DEF Slack
    <3>4. timer'.time # Never /\ -Latency <= timer'.time /\ timer'.time <= OS_TICK_RESPONSE_TIME_MAX
      BY <3>1, <3>2, <1>1, <1>4
    <3>5. ASSUME NEW t \in Times' PROVE t >= timer'.time - Slack(timer')
      <4>1. t + 1 >= timer.time - Slack(timer)
        BY <2>1, <3>1
      <4> QED BY <4>1, <2>1, <3>1, <3>2, <3>3
    <3> QED BY <2>1, <3>2, <3>4, <3>5 DEF TimerOK
  <2> QED BY <2>2, <2>3
<1>7. TimerInv'
  <2>1. TimerOK(timer', Times', switching')
    BY <1>6, TimerOKOfFewer
  <2> QED BY <2>1 DEF TimerInv
<1>8. Parts(cb', freeList', swtmrLink', handlerQueue', creating') /\ HeldOK'
  BY <1>1, <1>2, InvParts DEF Parts, HeldOK, HandlesAreFresh
<1> QED BY <1>2, <1>7, <1>8 DEF SwtmrInv, PoolInv

\* The timers that are due.
DueTimers == {x.node : x \in {y \in Entries(swtmrLink) : y.time <= 0}}

\* What the tick handler makes of the timers when it scans.
LEMMA ScanStep ==
  ASSUME SwtmrInv, SwtmrsBecome(OsSwtmrScan(Swtmrs))
  PROVE  LET due == Scanned(swtmrLink) IN
         /\ Parts(cb', freeList', swtmrLink', handlerQueue', creating)
         /\ DueTimers \subseteq Index /\ DueTimers = {due[k].node : k \in 1..Len(due)}
         /\ \A j \in DueTimers : cb[j].state = "TICKING" /\ cb[j].kind \in Kind
         /\ \A j \in Index : cb'[j] = IF j \in DueTimers THEN AfterExpiry(cb[j]) ELSE cb[j]
         /\ Entries(swtmrLink') = {x \in Entries(swtmrLink) : x.time > 0}
              \cup {Restarted(j) : j \in {i \in DueTimers : cb[i].kind.mode = "PERIOD"}}
         /\ LinkOK(due, Index) /\ Len(due) \in Nat
         /\ Len(handlerQueue') = Least(Len(handlerQueue) + Len(due), LIMIT)
         /\ \A k \in 1..Len(handlerQueue') :
              handlerQueue'[k] = IF k <= Len(handlerQueue) THEN handlerQueue[k]
                                 ELSE cb[due[k - Len(handlerQueue)].node].id
<1> DEFINE due == Scanned(swtmrLink)
           s == Swtmrs
           t == OsSwtmrScan(s)
           D == {due[k].node : k \in 1..Len(due)}
<1>1. s.cb = cb /\ s.free = freeList /\ s.link = swtmrLink /\ s.queue = handlerQueue
  BY DEF Swtmrs
<1>2. cb' = t.cb /\ freeList' = t.free /\ swtmrLink' = t.link /\ handlerQueue' = t.queue
  BY DEF SwtmrsBecome
<1>3. PoolOK(s, creating)
  BY InvParts, PoolParts DEF Swtmrs
<1> HIDE DEF s
<1>4. Expired(s, t, creating, due, Len(due))
  BY <1>1, <1>3, ScanEffect
<1>5. /\ LinkOK(due, Index) /\ Entries(due) = {x \in Entries(swtmrLink) : x.time <= 0}
      /\ Len(due) \in Nat
  BY InvParts, ScannedEffect
<1> HIDE DEF due, t
<1>6. D = DueTimers
  <2>1. D = {x.node : x \in Entries(due)}
    BY DEF Entries
  <2> QED BY <2>1, <1>5 DEF DueTimers
<1>7. /\ PoolOK(t, creating)
      /\ \A j \in Index : t.cb[j] = IF j \in D THEN AfterExpiry(s.cb[j]) ELSE s.cb[j]
      /\ Entries(t.link) = {x \in Entries(s.link) : x.node \notin D}
                             \cup {Restarted(j) : j \in {i \in D : s.cb[i].kind.mode = "PERIOD"}}
      /\ Len(t.queue) = Least(Len(s.queue) + Len(due), LIMIT)
      /\ \A k \in 1..Len(t.queue) :
           t.queue[k] = IF k <= Len(s.queue) THEN s.queue[k]
                        ELSE s.cb[due[k - Len(s.queue)].node].id
  BY <1>4 DEF Expired
<1> HIDE DEF D
<1>8. Parts(cb', freeList', swtmrLink', handlerQueue', creating)
  <2>1. t \in [cb : [Index -> ControlBlock], free : Seq(Index), link : Seq(EntryOf(Index)),
               queue : Seq(TimerID)]
    BY <1>7 DEF PoolOK
  <2>2. t = [cb |-> t.cb, free |-> t.free, link |-> t.link, queue |-> t.queue]
    BY <2>1
  <2>3. PoolOK([cb |-> cb', free |-> freeList', link |-> swtmrLink', queue |-> handlerQueue'], creating)
    BY <2>2, <1>2, <1>7, Zenon
  <2> QED BY <2>3, PoolParts
<1>9. /\ Nodes(swtmrLink) = {x.node : x \in Entries(swtmrLink)}
      /\ Entries(swtmrLink) \subseteq EntryOf(Index)
      /\ \A x, y \in Entries(swtmrLink) : x.node = y.node => x = y
  BY InvParts, NodesAreEntries
<1>10. /\ DueTimers \subseteq Index
       /\ \A j \in DueTimers : cb[j].state = "TICKING" /\ cb[j].kind \in Kind
  <2>1. DueTimers \subseteq Index /\ DueTimers \subseteq Nodes(swtmrLink)
    BY <1>9 DEF DueTimers, EntryOf
  <2> QED BY <2>1, InvParts DEF Parts
<1>11. {x \in Entries(swtmrLink) : x.node \notin DueTimers} = {x \in Entries(swtmrLink) : x.time > 0}
  <2>1. \A x \in Entries(swtmrLink) : x.time \in Int
    BY <1>9 DEF EntryOf
  <2>2. \A x \in Entries(swtmrLink) : x.node \in DueTimers <=> x.time <= 0
    BY <1>9 DEF DueTimers
  <2> QED BY <2>1, <2>2
<1>12. Entries(swtmrLink') = {x \in Entries(swtmrLink) : x.time > 0}
              \cup {Restarted(j) : j \in {i \in DueTimers : cb[i].kind.mode = "PERIOD"}}
  BY <1>1, <1>2, <1>6, <1>7, <1>11
<1>13. \A j \in Index : cb'[j] = IF j \in DueTimers THEN AfterExpiry(cb[j]) ELSE cb[j]
  BY <1>1, <1>2, <1>6, <1>7
<1>14. /\ Len(handlerQueue') = Least(Len(handlerQueue) + Len(due), LIMIT)
       /\ \A k \in 1..Len(handlerQueue') :
            handlerQueue'[k] = IF k <= Len(handlerQueue) THEN handlerQueue[k]
                               ELSE cb[due[k - Len(handlerQueue)].node].id
  BY <1>1, <1>2, <1>7
<1> QED BY <1>5, <1>6, <1>8, <1>10, <1>12, <1>13, <1>14 DEF due, D

\* The IDs that one-shot timers leave behind are the application's no more.
LEMMA ScanKeepsHandlesFresh ==
  ASSUME SwtmrInv, SwtmrsBecome(OsSwtmrScan(Swtmrs)),
         held' = held \ {cb'[i].id : i \in {j \in Index : cb'[j].id # cb[j].id}}
  PROVE  HeldOK'
<1>1. /\ Parts(cb', freeList', swtmrLink', handlerQueue', creating)
      /\ \A j \in DueTimers : cb[j].state = "TICKING"
      /\ \A j \in Index : cb'[j] = IF j \in DueTimers THEN AfterExpiry(cb[j]) ELSE cb[j]
  BY ScanStep
<1>2. ASSUME NEW j \in Index PROVE cb'[j].state = "UNUSED" <=> cb'[j].id \notin held'
  <2>1. cb[j].id \in TimerID /\ cb[j] \in ControlBlock
    BY InvParts DEF Parts, ControlBlock
  <2>2. CASE cb'[j].id # cb[j].id
    <3>1. cb'[j] = [id |-> NextID(cb[j].id), state |-> "UNUSED", kind |-> NoKind]
      <4>1. cb'[j] = AfterExpiry(cb[j])
        BY <2>2, <1>1
      <4>2. [cb[j] EXCEPT !.state = "CREATED"].id = cb[j].id
        BY <2>1 DEF ControlBlock
      <4> QED BY <4>1, <4>2, <2>2 DEF AfterExpiry
    <3> QED BY <3>1, <2>2
  <2>3. CASE cb'[j].id = cb[j].id
    <3>1. cb'[j].state = "UNUSED" <=> cb[j].state = "UNUSED"
      <4>1. CASE j \in DueTimers
        <5>1. cb'[j] = AfterExpiry(cb[j]) /\ cb[j].state = "TICKING" /\ NextID(cb[j].id) # cb[j].id
          BY <4>1, <2>1, <1>1, NextIDProperties
        <5>2. [cb[j] EXCEPT !.state = "CREATED"].state = "CREATED"
          BY <2>1 DEF ControlBlock
        <5> QED BY <5>1, <5>2, <2>3 DEF AfterExpiry
      <4>2. CASE j \notin DueTimers
        BY <4>2, <1>1
      <4> QED BY <4>1, <4>2
    <3>2. \A i \in Index : cb'[i].id = cb'[j].id => i = j
      BY <1>1, IDsDiffer
    <3>3. cb'[j].id \in held' <=> cb[j].id \in held
      BY <3>2, <2>3
    <3> QED BY <3>1, <3>3, InvParts
  <2> QED BY <2>2, <2>3
<1> QED BY <1>2, InvParts DEF HeldOK, HandlesAreFresh

\* The timer's interrupt: both links are scanned, and the timer is set again
\* at once or by the switch that follows.
LEMMA HandlerStep ==
  ASSUME SwtmrInv, LOS_SchedTickHandler
  PROVE  SwtmrInv'
<1> DEFINE found == Scanned(swtmrLink) # <<>> \/ Scanned(taskLink) # <<>>
           expired == [timer EXCEPT !.time = Never]
           S == TimesOf(swtmrLink') \cup TimesOf(taskLink')
<1>1. /\ timer.time <= 0 \/ timer.time = Never
      /\ IF timer.slice
         THEN UNCHANGED <<cb, freeList, handlerQueue, swtmrLink, taskLink>>
         ELSE /\ SwtmrsBecome(OsSwtmrScan(Swtmrs))
              /\ taskLink' = SubSeq(taskLink, Len(Scanned(taskLink)) + 1, Len(taskLink))
      /\ \/ ~timer.slice /\ found /\ switching' = TRUE /\ timer' = expired
         \/ UNCHANGED switching /\ timer' \in TimerSets(expired, taskLink', swtmrLink')
      /\ held' = held \ {cb'[i].id : i \in {j \in Index : cb'[j].id # cb[j].id}}
      /\ UNCHANGED creating
  BY DEF LOS_SchedTickHandler, SliceResponse
<1>2. /\ Latency \in Nat /\ Never \in Nat /\ OS_TICK_RESPONSE_TIME_MAX \in Nat
      /\ OS_TICK_RESPONSE_TIME_MAX < Never /\ OS_CYCLE_PER_TICK \in Nat \ {0}
  BY TickAssumption, SwtmrAssumption
<1>3. TimerOK(timer, Times, switching) /\ timer \in Timer /\ timer.slice \in BOOLEAN
      /\ expired \in Timer /\ expired.time = Never
  BY <1>2, InvParts DEF TimerOK, Timer
<1> HIDE DEF found, expired, S
<1>4. /\ Parts(cb', freeList', swtmrLink', handlerQueue', creating') /\ HeldOK'
      /\ LinkOK(taskLink', Sleeper)
      /\ \A t \in S : t \in Int /\ t <= Never - OS_CYCLE_PER_TICK /\ t > -OS_CYCLE_PER_TICK - Latency
      /\ ~timer.slice => \A t \in S : t > 0
  <2>1. CASE timer.slice
    <3>1. UNCHANGED <<cb, freeList, handlerQueue, swtmrLink, taskLink, creating>>
      BY <2>1, <1>1
    <3>2. held' = held
      BY <3>1, <1>1
    <3>3. S = Times
      BY <3>1 DEF S, Times
    <3>4. \A t \in Times : t \in Int /\ t <= Never - OS_CYCLE_PER_TICK /\ t > -OS_CYCLE_PER_TICK - Latency
      <4>1. Slack(timer) = OS_CYCLE_PER_TICK - 1
        BY <2>1, <1>2 DEF Slack
      <4>2. timer.time \in Int
        BY <1>3 DEF Timer
      <4> QED BY <4>1, <4>2, <1>2, <1>3 DEF TimerOK
    <3> QED BY <3>1, <3>2, <3>3, <3>4, <2>1, InvParts DEF HeldOK, HandlesAreFresh
  <2>2. CASE ~timer.slice
    <3>1. /\ SwtmrsBecome(OsSwtmrScan(Swtmrs))
          /\ taskLink' = SubSeq(taskLink, Len(Scanned(taskLink)) + 1, Len(taskLink))
      BY <2>2, <1>1
    <3>2. HeldOK'
      BY <3>1, <1>1, ScanKeepsHandlesFresh
    <3>3. /\ Parts(cb', freeList', swtmrLink', handlerQueue', creating')
          /\ DueTimers \subseteq Index /\ \A j \in DueTimers : cb[j].kind \in Kind
          /\ Entries(swtmrLink') = {x \in Entries(swtmrLink) : x.time > 0}
              \cup {Restarted(j) : j \in {i \in DueTimers : cb[i].kind.mode = "PERIOD"}}
      BY <3>1, <1>1, ScanStep
    <3>4. LinkOK(taskLink', Sleeper) /\ Entries(taskLink') = {x \in Entries(taskLink) : x.time > 0}
      BY <3>1, InvParts, ScannedEffect
    <3>5. ASSUME NEW j \in DueTimers
          PROVE  /\ Restarted(j).time \in Int /\ Restarted(j).time >= OS_CYCLE_PER_TICK
                 /\ Restarted(j).time <= Never - OS_CYCLE_PER_TICK
      <4>1. Restarted(j).time = cb[j].kind.interval * OS_CYCLE_PER_TICK
        BY DEF Restarted, Entry
      <4> QED BY <4>1, <3>3, Numbers
    <3>6. ASSUME NEW t \in S
          PROVE  t > 0 /\ t \in Int /\ t <= Never - OS_CYCLE_PER_TICK
      <4>1. CASE t \in TimesOf(taskLink')
        <5>1. t > 0 /\ t \in Times
          BY <4>1, <3>4 DEF TimesOf, Times
        <5> QED BY <5>1, <1>3 DEF TimerOK
      <4>2. CASE t \in TimesOf(swtmrLink')
        <5>1. (t > 0 /\ t \in Times) \/ \E j \in DueTimers : t = Restarted(j).time
          BY <4>2, <3>3 DEF TimesOf, Times
        <5>2. CASE t > 0 /\ t \in Times
          BY <5>2, <1>3 DEF TimerOK
        <5>3. CASE \E j \in DueTimers : t = Restarted(j).time
          BY <5>3, <3>5, <1>2
        <5> QED BY <5>1, <5>2, <5>3
      <4> QED BY <4>1, <4>2 DEF S
    <3> QED BY <3>2, <3>3, <3>4, <3>6, <1>2
  <2> QED BY <2>1, <2>2, <1>3
<1>5. TimerOK(timer', S, switching')
  <2>1. CASE ~timer.slice /\ found /\ switching' = TRUE /\ timer' = expired
    BY <2>1, <1>3, <1>4 DEF TimerOK
  <2>2. CASE UNCHANGED switching /\ timer' \in TimerSets(expired, taskLink', swtmrLink')
    <3>1. MayBeSet(expired, S)
      BY <1>3, <1>4 DEF MayBeSet
    <3>2. LinkOK(swtmrLink', Index)
      BY <1>4 DEF Parts
    <3>3. TimerOK(timer', S, FALSE)
      BY <3>1, <3>2, <2>2, <1>4, SetsInTime DEF S
    <3> QED BY <3>3, TimerOKOfFewer
  <2> QED BY <2>1, <2>2, <1>1
<1>6. TimerInv'
  BY <1>5 DEF TimerInv, Times, S
<1> QED BY <1>4, <1>6 DEF SwtmrInv, PoolInv

\* Nothing waits longer than LatestService for what is due.
LEMMA NotTooLate ==
  ASSUME NEW tm, NEW S, NEW sw, TimerOK(tm, S, sw)
  PROVE  LatestService \in Nat /\ \A t \in S : t \in Int /\ t >= -LatestService
<1> DEFINE C == OS_CYCLE_PER_TICK
<1>1. Latency \in Nat /\ C \in Nat \ {0} /\ LatestService = 2 * C - 1 + 2 * Latency
  BY TickAssumption, SwtmrAssumption DEF LatestService
<1>2. tm \in Timer /\ tm.time \in Int
  BY DEF TimerOK, Timer
<1>3. Slack(tm) \in Int /\ Slack(tm) <= C - 1 + (C + Latency)
  BY <1>1 DEF Slack
<1> HIDE DEF C
<1>4. ASSUME NEW t \in S PROVE t \in Int /\ t >= -LatestService
  <2>1. t \in Int
    BY DEF TimerOK
  <2>2. CASE tm.time = Never
    <3>1. t > 0
      BY <2>2 DEF TimerOK
    <3> QED BY <3>1, <2>1, <1>1
  <2>3. CASE tm.time # Never
    <3>1. t >= tm.time - Slack(tm) /\ tm.time >= -Latency
      BY <2>3 DEF TimerOK
    <3> QED BY <3>1, <2>1, <1>1, <1>2, <1>3
  <2> QED BY <2>1, <2>2, <2>3
<1> QED BY <1>1, <1>4

\* The three properties follow.
LEMMA SwtmrInvImplies == SwtmrInv => SwtmrPoolAgrees /\ HandlesAreFresh /\ TasksNotTooLate
<1> SUFFICES ASSUME SwtmrInv PROVE SwtmrPoolAgrees /\ HandlesAreFresh /\ TasksNotTooLate
  OBVIOUS
<1>1. /\ DOMAIN swtmrLink = 1..Len(swtmrLink) /\ DOMAIN taskLink = 1..Len(taskLink)
      /\ taskLink \in Seq(EntryOf(Sleeper))
  BY InvParts DEF LinkOK
<1>2. SwtmrPoolAgrees
  <2>1. IsInjective([k \in DOMAIN swtmrLink |-> swtmrLink[k].node])
    BY <1>1, InvParts DEF LinkOK, IsInjective
  <2>2. \A j, k \in DOMAIN swtmrLink : j < k => swtmrLink[j].time <= swtmrLink[k].time
    BY <1>1, InvParts DEF LinkOK
  <2> QED BY <2>1, <2>2, InvParts DEF Parts, SwtmrPoolAgrees
<1>3. ASSUME NEW k \in DOMAIN taskLink PROVE taskLink[k].time >= -LatestService
  <2>1. taskLink[k] \in Entries(taskLink)
    BY <1>1 DEF Entries
  <2>2. taskLink[k].time \in Times
    BY <2>1 DEF Times, TimesOf
  <2> QED BY <2>2, InvParts, NotTooLate
<1> QED BY <1>2, <1>3, InvParts DEF HandlesAreFresh, TasksNotTooLate

\* All that holds of every state.
THEOREM SwtmrInvariant == Spec => []SwtmrInv
<1>1. SwtmrInv /\ [Next]_vars => SwtmrInv'
  <2> SUFFICES ASSUME SwtmrInv, [Next]_vars PROVE SwtmrInv'
    OBVIOUS
  <2>1. CASE SwtmrCreateTake
    BY <2>1, CreateTakeStep
  <2>2. CASE \E i \in Index, kind \in Kind : SwtmrCreateFill(i, kind)
    BY <2>2, CreateFillStep
  <2>3. CASE \E id \in held : LOS_SwtmrStart(id)
    BY <2>3, StartStep
  <2>4. CASE \E id \in held : LOS_SwtmrStop(id)
    BY <2>4, StopStep
  <2>5. CASE \E id \in held : LOS_SwtmrDelete(id)
    BY <2>5, DeleteStep
  <2>6. CASE OsSwtmrTask
    BY <2>6, HandleStep
  <2>7. CASE LOS_SchedTickHandler
    BY <2>7, HandlerStep
  <2>8. CASE OsSchedTaskSwitch
    BY <2>8, SwitchStep
  <2>9. CASE \E t \in Sleeper : OsSchedTaskWake(t)
    BY <2>9, WakeStep
  <2>10. CASE Elapse
    BY <2>10, ElapseStep
  <2>11. CASE UNCHANGED vars
    BY <2>11 DEF vars, SwtmrInv, PoolInv, HeldOK, HandlesAreFresh, TimerInv, Times
  <2> QED BY <2>1, <2>2, <2>3, <2>4, <2>5, <2>6, <2>7, <2>8, <2>9, <2>10, <2>11 DEF Next
<1> QED BY InitInv, <1>1, PTL DEF Spec

\* A control block is free, being created or in use, and the timers that tick
\* are those of the sort link, each once and in the order of their times.
THEOREM PoolAgreesAlways == Spec => []SwtmrPoolAgrees
BY SwtmrInvariant, SwtmrInvImplies, PTL

\* No timer is created with an ID that the application still holds from another.
THEOREM HandlesStayFresh == Spec => []HandlesAreFresh
BY SwtmrInvariant, SwtmrInvImplies, PTL

\* A delayed task waits at most two ticks and two interrupt latencies, less a
\* cycle, longer than it asked for.
THEOREM TasksAreServedInTime == Spec => []TasksNotTooLate
BY SwtmrInvariant, SwtmrInvImplies, PTL

-----------------------------------------------------------------------------
(* The timer service.                                                      *)

\* The times left as the control blocks C and the link L have them.
LeftBy(C, L) ==
  [id \in {C[i].id : i \in {j \in Index : C[j].state = "TICKING"}} |->
     (CHOOSE e \in Range(L) : e.node = id % LIMIT).time]

\* Each entry has the time its timer has left, and no other timer has any.
EntriesAreLeft(C, L) ==
  /\ DOMAIN LeftBy(C, L) = {C[x.node].id : x \in Entries(L)}
  /\ \A x \in Entries(L) : /\ x.node \in Index /\ x.time \in Int
                           /\ C[x.node].state = "TICKING"
                           /\ LeftBy(C, L)[C[x.node].id] = x.time
  /\ \A x, y \in Entries(L) : C[x.node].id = C[y.node].id => x = y
  /\ LeftBy(C, L) = [n \in DOMAIN LeftBy(C, L) |-> LeftBy(C, L)[n]]

\* What is linked is what TimerService has to time, each ID once.
LEMMA LeftByEntries ==
  ASSUME NEW C, NEW F, NEW L, NEW Q, NEW c, Parts(C, F, L, Q, c)
  PROVE  EntriesAreLeft(C, L)
<1>1. /\ Nodes(L) = {x.node : x \in Entries(L)} /\ Entries(L) \subseteq EntryOf(Index)
      /\ \A x, y \in Entries(L) : x.node = y.node => x = y
      /\ DOMAIN L = 1..Len(L)
  BY NodesAreEntries DEF Parts
<1>2. Range(L) = Entries(L)
  BY <1>1 DEF Range, Entries
<1>3. DOMAIN LeftBy(C, L) = {C[i].id : i \in {j \in Index : C[j].state = "TICKING"}}
  BY DEF LeftBy
<1>4. {j \in Index : C[j].state = "TICKING"} = {x.node : x \in Entries(L)}
  <2>1. \A j \in Index : C[j].state = "TICKING" <=> j \in Nodes(L)
    BY DEF Parts
  <2>2. Nodes(L) \subseteq Index
    BY <1>1 DEF EntryOf
  <2> QED BY <2>1, <2>2, <1>1
<1>5. DOMAIN LeftBy(C, L) = {C[x.node].id : x \in Entries(L)}
  BY <1>3, <1>4
<1>6. ASSUME NEW x \in Entries(L)
      PROVE  /\ x.node \in Index /\ x.time \in Int /\ C[x.node].state = "TICKING"
             /\ LeftBy(C, L)[C[x.node].id] = x.time
  <2>1. x.node \in Index /\ x.time \in Int /\ C[x.node].state = "TICKING"
    BY <1>1, <1>4 DEF EntryOf
  <2>2. C[x.node].id % LIMIT = x.node
    BY <2>1 DEF Parts
  <2>3. C[x.node].id \in {C[i].id : i \in {j \in Index : C[j].state = "TICKING"}}
    BY <2>1
  <2>4. LeftBy(C, L)[C[x.node].id] = (CHOOSE e \in Entries(L) : e.node = x.node).time
    BY <2>2, <2>3, <1>2 DEF LeftBy
  <2>5. (CHOOSE e \in Entries(L) : e.node = x.node) = x
    BY <1>1
  <2> QED BY <2>1, <2>4, <2>5
<1>7. ASSUME NEW x \in Entries(L), NEW y \in Entries(L), C[x.node].id = C[y.node].id PROVE x = y
  BY <1>1, <1>6, <1>7, IDsDiffer
<1>8. LeftBy(C, L) = [n \in DOMAIN LeftBy(C, L) |-> LeftBy(C, L)[n]]
  BY DEF LeftBy
<1> QED BY <1>5, <1>6, <1>7, <1>8 DEF EntriesAreLeft

\* The same entries under the same IDs leave the same times.
LEMMA SameTimesLeft ==
  ASSUME NEW C, NEW L, EntriesAreLeft(C, L), NEW D, NEW M, EntriesAreLeft(D, M),
         Entries(L) = Entries(M), \A x \in Entries(L) : C[x.node].id = D[x.node].id
  PROVE  LeftBy(C, L) = LeftBy(D, M)
<1> DEFINE f == LeftBy(C, L)  g == LeftBy(D, M)
<1>1. /\ DOMAIN f = {C[x.node].id : x \in Entries(L)}
      /\ \A x \in Entries(L) : f[C[x.node].id] = x.time
      /\ f = [n \in DOMAIN f |-> f[n]]
  BY DEF EntriesAreLeft
<1>2. /\ DOMAIN g = {D[x.node].id : x \in Entries(M)}
      /\ \A x \in Entries(M) : g[D[x.node].id] = x.time
      /\ g = [n \in DOMAIN g |-> g[n]]
  BY DEF EntriesAreLeft
<1> HIDE DEF f, g
<1>3. DOMAIN f = DOMAIN g
  BY <1>1, <1>2
<1>4. \A n \in DOMAIN f : f[n] = g[n]
  BY <1>1, <1>2
<1>5. f = g
  BY <1>1, <1>2, <1>3, <1>4
<1> QED BY <1>5 DEF f, g

\* The refinement mapping is LeftBy.
LEMMA TimeLeftIs == TimeLeft = LeftBy(cb, swtmrLink)
BY DEF TimeLeft, LeftBy

\* ... at the current state.
LEMMA LeftNow ==
  ASSUME SwtmrInv
  PROVE  EntriesAreLeft(cb, swtmrLink)
BY InvParts, LeftByEntries

\* A step that changes neither the link nor the queue, nor the ID of what is
\* linked, is a stutter of TimerService.
LEMMA NothingElapses ==
  ASSUME SwtmrInv, Parts(cb', freeList', swtmrLink', handlerQueue', creating'),
         UNCHANGED <<swtmrLink, handlerQueue>>,
         \A x \in Entries(swtmrLink) : cb'[x.node].id = cb[x.node].id
  PROVE  UNCHANGED Abstract!vars
<1>1. EntriesAreLeft(cb', swtmrLink') /\ EntriesAreLeft(cb, swtmrLink)
  BY LeftByEntries, LeftNow
<1>2. LeftBy(cb', swtmrLink') = LeftBy(cb, swtmrLink)
  BY <1>1, SameTimesLeft
<1>3. TimeLeft' = TimeLeft
  BY <1>2 DEF TimeLeft, LeftBy
<1> QED BY <1>3 DEF Abstract!vars

\* LOS_SwtmrStart starts the timer of the service, whether it was ticking or not.
LEMMA StartRefines ==
  ASSUME SwtmrInv, NEW id \in held, LOS_SwtmrStart(id),
         Parts(cb', freeList', swtmrLink', handlerQueue', creating')
  PROVE  Abstract!Start(id) /\ id \in DOMAIN TimeLeft'
<1> DEFINE i == id % LIMIT
           r == Restarted(i)
           f == LeftBy(cb, swtmrLink)
           g == LeftBy(cb', swtmrLink')
           times == {k.interval * OS_CYCLE_PER_TICK : k \in Kind}
<1>1. /\ i \in Index /\ cb[i].id = id /\ cb[i].kind \in Kind
      /\ cb' = [cb EXCEPT ![i].state = "TICKING"]
      /\ r = Entry(i, cb[i].kind.interval * OS_CYCLE_PER_TICK) /\ r.node = i
      /\ Entries(swtmrLink') = {x \in Entries(swtmrLink) : x.node # i} \cup {r}
      /\ UNCHANGED handlerQueue
  BY StartEffect
<1>2. EntriesAreLeft(cb, swtmrLink) /\ EntriesAreLeft(cb', swtmrLink')
  BY LeftNow, LeftByEntries
<1>3. \A j \in Index : cb'[j].id = cb[j].id
  <2>1. cb \in [Index -> ControlBlock]
    BY InvParts DEF Parts
  <2>2. \A j \in Index : cb[j] \in ControlBlock
    BY <2>1
  <2>3. [cb[i] EXCEPT !.state = "TICKING"].id = cb[i].id
    BY <2>2, <1>1 DEF ControlBlock
  <2>4. \A j \in Index : cb'[j] = IF j = i THEN [cb[i] EXCEPT !.state = "TICKING"] ELSE cb[j]
    BY <2>1, <1>1
  <2> QED BY <2>3, <2>4
<1>4. r.time \in times
  BY <1>1 DEF Entry
<1> HIDE DEF i, r
<1>5. /\ DOMAIN f = {cb[x.node].id : x \in Entries(swtmrLink)}
      /\ \A x \in Entries(swtmrLink) : x.node \in Index /\ f[cb[x.node].id] = x.time
      /\ \A x, y \in Entries(swtmrLink) : cb[x.node].id = cb[y.node].id => x = y
  BY <1>2 DEF EntriesAreLeft
<1>6. /\ DOMAIN g = {cb'[x.node].id : x \in Entries(swtmrLink')}
      /\ \A x \in Entries(swtmrLink') : x.node \in Index /\ g[cb'[x.node].id] = x.time
      /\ g = [n \in DOMAIN g |-> g[n]]
  BY <1>2 DEF EntriesAreLeft
<1> HIDE DEF f, g, times
<1>7. \A x \in Entries(swtmrLink) : x.node # i => cb[x.node].id # id
  BY <1>1, <1>5, InvParts, IDsDiffer
<1>8. DOMAIN g = DOMAIN f \cup {id}
  <2>1. DOMAIN g = {cb[x.node].id : x \in Entries(swtmrLink')}
    BY <1>3, <1>6
  <2>2. ASSUME NEW x \in Entries(swtmrLink') PROVE cb[x.node].id \in DOMAIN f \cup {id}
    BY <1>1, <1>5
  <2>3. ASSUME NEW x \in Entries(swtmrLink)
        PROVE  \E y \in Entries(swtmrLink') : cb[y.node].id = cb[x.node].id
    <3>1. CASE x.node = i
      BY <3>1, <1>1
    <3>2. CASE x.node # i
      BY <3>2, <1>1
    <3> QED BY <3>1, <3>2
  <2>4. \E y \in Entries(swtmrLink') : cb[y.node].id = id
    BY <1>1
  <2> QED BY <2>1, <2>2, <2>3, <2>4, <1>5
<1>9. g[id] = r.time
  BY <1>1, <1>3, <1>6
<1>10. ASSUME NEW n \in DOMAIN f, n # id PROVE g[n] = f[n]
  <2>1. PICK x \in Entries(swtmrLink) : n = cb[x.node].id
    BY <1>5
  <2>2. x \in Entries(swtmrLink') /\ cb'[x.node].id = n
    BY <2>1, <1>1, <1>3, <1>5, <1>10
  <2> QED BY <2>1, <2>2, <1>5, <1>6
<1>11. g = [m \in DOMAIN f \cup {id} |-> IF m = id THEN r.time ELSE f[m]]
  <2>1. \A m \in DOMAIN f \cup {id} : g[m] = IF m = id THEN r.time ELSE f[m]
    BY <1>9, <1>10
  <2> QED BY <2>1, <1>6, <1>8
<1>12. TimeLeft = f /\ TimeLeft' = g
  BY DEF TimeLeft, LeftBy, f, g
<1>13. \E t \in times : TimeLeft' = [m \in DOMAIN TimeLeft \cup {id} |->
                                      IF m = id THEN t ELSE TimeLeft[m]]
  BY <1>4, <1>11, <1>12
<1>14. Abstract!Start(id)
  BY <1>1, <1>13 DEF Abstract!Start, times
<1> QED BY <1>8, <1>12, <1>14

\* A timer that is taken out of the link stops, and one that did not tick leaves
\* the service as it was.
LEMMA TakenOut ==
  ASSUME SwtmrInv, NEW i \in Index, Parts(cb', freeList', swtmrLink', handlerQueue', creating'),
         \A j \in Index : j # i => cb'[j] = cb[j],
         swtmrLink' = OsDeleteSortLink(swtmrLink, i), UNCHANGED handlerQueue
  PROVE  /\ cb[i].state = "TICKING" => Abstract!Stop(cb[i].id) /\ cb[i].id \in DOMAIN TimeLeft
         /\ cb[i].state # "TICKING" => UNCHANGED Abstract!vars
<1> DEFINE f == LeftBy(cb, swtmrLink)
           g == LeftBy(cb', swtmrLink')
           id == cb[i].id
<1>1. Entries(swtmrLink') = {x \in Entries(swtmrLink) : x.node # i}
  BY InvParts, DeleteEffect
<1>2. EntriesAreLeft(cb, swtmrLink) /\ EntriesAreLeft(cb', swtmrLink')
  BY LeftNow, LeftByEntries
<1>3. /\ DOMAIN f = {cb[x.node].id : x \in Entries(swtmrLink)}
      /\ \A x \in Entries(swtmrLink) : x.node \in Index /\ f[cb[x.node].id] = x.time
      /\ f = [n \in DOMAIN f |-> f[n]]
  BY <1>2 DEF EntriesAreLeft
<1>4. /\ DOMAIN g = {cb'[x.node].id : x \in Entries(swtmrLink')}
      /\ \A x \in Entries(swtmrLink') : g[cb'[x.node].id] = x.time
      /\ g = [n \in DOMAIN g |-> g[n]]
  BY <1>2 DEF EntriesAreLeft
<1> HIDE DEF f, g
<1>5. \A x \in Entries(swtmrLink) : x.node # i => cb[x.node].id # id
  BY <1>3, InvParts, IDsDiffer
<1> HIDE DEF id
<1>6. \A x \in Entries(swtmrLink') : cb'[x.node].id = cb[x.node].id
  BY <1>1, <1>3
<1>7. DOMAIN g = DOMAIN f \ {id}
  <2>1. DOMAIN g = {cb[x.node].id : x \in Entries(swtmrLink')}
    BY <1>4, <1>6
  <2>2. ASSUME NEW x \in Entries(swtmrLink') PROVE cb[x.node].id \in DOMAIN f \ {id}
    BY <1>1, <1>3, <1>5
  <2>3. ASSUME NEW x \in Entries(swtmrLink), cb[x.node].id # id PROVE x \in Entries(swtmrLink')
    BY <2>3, <1>1 DEF id
  <2> QED BY <2>1, <2>2, <2>3, <1>3
<1>8. ASSUME NEW n \in DOMAIN g PROVE g[n] = f[n]
  <2>1. PICK x \in Entries(swtmrLink') : n = cb'[x.node].id
    BY <1>4
  <2> QED BY <2>1, <1>1, <1>3, <1>4, <1>6
<1>9. TimeLeft = f /\ TimeLeft' = g
  BY DEF TimeLeft, LeftBy, f, g
<1>10. Nodes(swtmrLink) = {x.node : x \in Entries(swtmrLink)}
  BY InvParts, NodesAreEntries
<1>11. ASSUME cb[i].state = "TICKING" PROVE Abstract!Stop(id) /\ id \in DOMAIN TimeLeft
  <2>1. i \in Nodes(swtmrLink)
    BY <1>11, InvParts DEF Parts
  <2>2. id \in DOMAIN f
    BY <2>1, <1>3, <1>10 DEF id
  <2>3. g = [m \in DOMAIN f \ {id} |-> f[m]]
    BY <1>4, <1>7, <1>8
  <2> QED BY <2>2, <2>3, <1>9 DEF Abstract!Stop
<1>12. ASSUME cb[i].state # "TICKING" PROVE UNCHANGED Abstract!vars
  <2>1. i \notin Nodes(swtmrLink)
    BY <1>12, InvParts DEF Parts
  <2>2. id \notin DOMAIN f
    BY <2>1, <1>3, <1>5, <1>10
  <2>3. DOMAIN g = DOMAIN f
    BY <2>2, <1>7
  <2>4. g = f
    BY <2>3, <1>3, <1>4, <1>8
  <2> QED BY <2>4, <1>9 DEF Abstract!vars
<1> QED BY <1>11, <1>12 DEF id

\* LOS_SwtmrStop is a Stop of TimerService.
LEMMA StopRefines ==
  ASSUME SwtmrInv, NEW id \in held, LOS_SwtmrStop(id),
         Parts(cb', freeList', swtmrLink', handlerQueue', creating')
  PROVE  Abstract!Stop(id) /\ id \in DOMAIN TimeLeft
<1> DEFINE i == id % LIMIT
<1>1. /\ Valid(id) /\ cb' = [cb EXCEPT ![i].state = "CREATED"] /\ cb[i].state = "TICKING"
      /\ swtmrLink' = OsDeleteSortLink(swtmrLink, i) /\ UNCHANGED handlerQueue
  BY DEF LOS_SwtmrStop
<1>2. i \in Index /\ cb[i].id = id
  BY <1>1, ValidTimer
<1> HIDE DEF i
<1>3. \A j \in Index : j # i => cb'[j] = cb[j]
  BY <1>1, InvParts DEF Parts
<1> QED BY <1>1, <1>2, <1>3, TakenOut

\* LOS_SwtmrDelete is a Stop if the timer was ticking, and a stutter if not.
LEMMA DeleteRefines ==
  ASSUME SwtmrInv, NEW id \in held, LOS_SwtmrDelete(id)
  PROVE  (Abstract!Stop(id) /\ id \in DOMAIN TimeLeft) \/ UNCHANGED Abstract!vars
<1> DEFINE i == id % LIMIT
<1>1. /\ i \in Index /\ cb[i].id = id /\ \A j \in Index : j # i => cb'[j] = cb[j]
      /\ swtmrLink' = OsDeleteSortLink(swtmrLink, i) /\ UNCHANGED handlerQueue
      /\ Parts(cb', freeList', swtmrLink', handlerQueue', creating')
  BY DeleteEffectOnPool
<1> HIDE DEF i
<1> QED BY <1>1, TakenOut

\* A cycle of the program is a cycle of TimerService.
LEMMA ElapseRefines ==
  ASSUME SwtmrInv, SwtmrInv', Elapse
  PROVE  Abstract!Elapse
<1> DEFINE Passed(link) == [i \in DOMAIN link |-> [link[i] EXCEPT !.time = @ - 1]]
           f == LeftBy(cb, swtmrLink)
           g == LeftBy(cb', swtmrLink')
<1>1. swtmrLink' = Passed(swtmrLink) /\ UNCHANGED <<cb, handlerQueue>>
  BY DEF Elapse
<1>2. Entries(swtmrLink') = {[node |-> x.node, time |-> x.time - 1] : x \in Entries(swtmrLink)}
  BY <1>1, InvParts, PassedEffect
<1> HIDE DEF Passed
<1>3. Parts(cb', freeList', swtmrLink', handlerQueue', creating') /\ TimerOK(timer', Times', switching')
  BY DEF SwtmrInv, PoolInv, TimerInv
<1>4. EntriesAreLeft(cb, swtmrLink) /\ EntriesAreLeft(cb', swtmrLink')
  BY <1>3, LeftNow, LeftByEntries
<1>5. /\ DOMAIN f = {cb[x.node].id : x \in Entries(swtmrLink)}
      /\ \A x \in Entries(swtmrLink) : x.time \in Int /\ f[cb[x.node].id] = x.time
  BY <1>4 DEF EntriesAreLeft
<1>6. /\ DOMAIN g = {cb[x.node].id : x \in Entries(swtmrLink')}
      /\ \A x \in Entries(swtmrLink') : g[cb[x.node].id] = x.time
      /\ g = [n \in DOMAIN g |-> g[n]]
  BY <1>1, <1>4 DEF EntriesAreLeft
<1> HIDE DEF f, g
<1>7. ASSUME NEW x \in Entries(swtmrLink)
      PROVE  \E y \in Entries(swtmrLink') : y.node = x.node /\ y.time = x.time - 1
  <2>1. PICK y \in Entries(swtmrLink') : y = [node |-> x.node, time |-> x.time - 1]
    BY <1>2
  <2>2. y.node = x.node /\ y.time = x.time - 1
    BY <2>1
  <2> QED BY <2>2
<1>8. ASSUME NEW y \in Entries(swtmrLink') PROVE \E x \in Entries(swtmrLink) : y.node = x.node
  <2>1. PICK x \in Entries(swtmrLink) : y = [node |-> x.node, time |-> x.time - 1]
    BY <1>2
  <2>2. y.node = x.node
    BY <2>1
  <2> QED BY <2>2
<1>9. DOMAIN g = DOMAIN f
  BY <1>5, <1>6, <1>7, <1>8
<1>10. ASSUME NEW n \in DOMAIN f
       PROVE  f[n] \in Int /\ g[n] = f[n] - 1 /\ f[n] > -LatestService
  <2>1. PICK x \in Entries(swtmrLink) : n = cb[x.node].id
    BY <1>5
  <2>2. PICK y \in Entries(swtmrLink') : y.node = x.node /\ y.time = x.time - 1
    BY <1>7
  <2>3. f[n] = x.time /\ x.time \in Int /\ g[n] = x.time - 1
    BY <2>1, <2>2, <1>5, <1>6
  <2>4. y.time \in Times'
    BY DEF Times, TimesOf
  <2>5. LatestService \in Nat /\ y.time >= -LatestService
    BY <2>4, <1>3, NotTooLate
  <2> QED BY <2>2, <2>3, <2>5
<1>11. TimeLeft = f /\ TimeLeft' = g
  BY DEF TimeLeft, LeftBy, f, g
<1>12. g = [n \in DOMAIN f |-> f[n] - 1]
  BY <1>6, <1>9, <1>10
<1> QED BY <1>1, <1>10, <1>11, <1>12 DEF Abstract!Elapse

\* Times left by a scan: what was due is gone or starts anew.
LEMMA LeftByScan ==
  ASSUME SwtmrInv, SwtmrsBecome(OsSwtmrScan(Swtmrs)),
         Parts(cb', freeList', swtmrLink', handlerQueue', creating')
  PROVE  LET f == LeftBy(cb, swtmrLink)
             g == LeftBy(cb', swtmrLink')
             due == {n \in DOMAIN f : f[n] <= 0} IN
         /\ DOMAIN f \ due \subseteq DOMAIN g /\ DOMAIN g \subseteq DOMAIN f
         /\ \A n \in DOMAIN g : IF n \in due THEN g[n] \in {k.interval * OS_CYCLE_PER_TICK : k \in Kind}
                                ELSE g[n] = f[n]
<1> DEFINE f == LeftBy(cb, swtmrLink)
           g == LeftBy(cb', swtmrLink')
           due == {n \in DOMAIN f : f[n] <= 0}
           times == {k.interval * OS_CYCLE_PER_TICK : k \in Kind}
           D == DueTimers
           P == {i \in D : cb[i].kind.mode = "PERIOD"}
<1>1. /\ D \subseteq Index /\ \A j \in D : cb[j].kind \in Kind
      /\ \A j \in Index : cb'[j] = IF j \in D THEN AfterExpiry(cb[j]) ELSE cb[j]
      /\ Entries(swtmrLink') = {x \in Entries(swtmrLink) : x.time > 0} \cup {Restarted(j) : j \in P}
  BY ScanStep
<1>2. EntriesAreLeft(cb, swtmrLink) /\ EntriesAreLeft(cb', swtmrLink')
  BY LeftNow, LeftByEntries
<1>3. /\ DOMAIN f = {cb[x.node].id : x \in Entries(swtmrLink)}
      /\ \A x \in Entries(swtmrLink) : x.node \in Index /\ x.time \in Int /\ f[cb[x.node].id] = x.time
      /\ \A x, y \in Entries(swtmrLink) : cb[x.node].id = cb[y.node].id => x = y
  BY <1>2 DEF EntriesAreLeft
<1>4. /\ DOMAIN g = {cb'[x.node].id : x \in Entries(swtmrLink')}
      /\ \A x \in Entries(swtmrLink') : g[cb'[x.node].id] = x.time
  BY <1>2 DEF EntriesAreLeft
<1>5. \A x \in Entries(swtmrLink) : x.node \in D <=> x.time <= 0
  BY <1>3 DEF DueTimers
<1>6. \A j \in P : /\ Restarted(j).node = j /\ Restarted(j).time \in times /\ j \in Index
                   /\ cb'[j] = cb[j] /\ Restarted(j) \in Entries(swtmrLink')
                   /\ \E x \in Entries(swtmrLink) : x.node = j /\ x.time <= 0
  <2>1. ASSUME NEW j \in P
        PROVE  /\ Restarted(j).node = j /\ Restarted(j).time \in times /\ j \in Index
               /\ cb'[j] = cb[j] /\ Restarted(j) \in Entries(swtmrLink')
    <3>1. Restarted(j).node = j /\ Restarted(j).time = cb[j].kind.interval * OS_CYCLE_PER_TICK
      BY DEF Restarted, Entry
    <3>2. cb'[j] = cb[j]
      BY <1>1 DEF AfterExpiry
    <3> QED BY <3>1, <3>2, <1>1
  <2>2. \A j \in P : \E x \in Entries(swtmrLink) : x.node = j /\ x.time <= 0
    BY DEF DueTimers
  <2> QED BY <2>1, <2>2
<1> HIDE DEF f, g, D, times
<1>7. ASSUME NEW x \in Entries(swtmrLink), x.time > 0
      PROVE  x \in Entries(swtmrLink') /\ cb'[x.node] = cb[x.node]
  <2>1. x.node \notin D
    BY <1>7, <1>3, <1>5
  <2> QED BY <2>1, <1>1, <1>3, <1>7
<1>8. ASSUME NEW n \in DOMAIN f, n \notin due PROVE n \in DOMAIN g
  <2>1. PICK x \in Entries(swtmrLink) : n = cb[x.node].id
    BY <1>3
  <2>2. x.time > 0
    BY <2>1, <1>3, <1>8
  <2> QED BY <2>1, <2>2, <1>4, <1>7
<1>9. ASSUME NEW n \in DOMAIN g
      PROVE  n \in DOMAIN f /\ IF n \in due THEN g[n] \in times ELSE g[n] = f[n]
  <2>1. PICK y \in Entries(swtmrLink') : n = cb'[y.node].id /\ g[n] = y.time
    BY <1>4
  <2>2. CASE y \in Entries(swtmrLink) /\ y.time > 0
    <3>1. cb'[y.node] = cb[y.node]
      BY <2>2, <1>7
    <3>2. n \in DOMAIN f /\ f[n] = y.time
      BY <3>1, <2>1, <2>2, <1>3
    <3> QED BY <3>2, <2>1, <2>2, <1>3
  <2>3. CASE \E j \in P : y = Restarted(j)
    <3>1. PICK j \in P : y = Restarted(j)
      BY <2>3
    <3>2. PICK x \in Entries(swtmrLink) : x.node = j /\ x.time <= 0
      BY <1>6
    <3>3. n = cb[x.node].id
      BY <3>1, <3>2, <2>1, <1>6
    <3>4. n \in DOMAIN f /\ f[n] = x.time
      BY <3>2, <3>3, <1>3
    <3> QED BY <3>1, <3>2, <3>4, <2>1, <1>6
  <2> QED BY <2>2, <2>3, <1>1
<1> QED BY <1>8, <1>9 DEF f, g, times

\* The scan expires what is due, in its turn, as far as there is room.
LEMMA ScanRefines ==
  ASSUME SwtmrInv, SwtmrsBecome(OsSwtmrScan(Swtmrs)),
         Parts(cb', freeList', swtmrLink', handlerQueue', creating')
  PROVE  Abstract!Expire \/ UNCHANGED Abstract!vars
<1> DEFINE f == LeftBy(cb, swtmrLink)
           g == LeftBy(cb', swtmrLink')
           D == {n \in DOMAIN f : f[n] <= 0}
           due == Scanned(swtmrLink)
           n == Len(due)
           q == Len(handlerQueue)
           r == Len(handlerQueue')
           came == SubSeq(handlerQueue', q + 1, r)
           Id(k) == cb[due[k].node].id
<1>1. /\ LinkOK(due, Index) /\ n \in Nat
      /\ r = Least(q + n, LIMIT)
      /\ \A k \in 1..r : handlerQueue'[k] = IF k <= q THEN handlerQueue[k] ELSE Id(k - q)
      /\ DueTimers = {due[k].node : k \in 1..n}
      /\ \A j \in Index : cb'[j] = IF j \in DueTimers THEN AfterExpiry(cb[j]) ELSE cb[j]
  BY ScanStep
<1>2. Entries(due) = {x \in Entries(swtmrLink) : x.time <= 0}
  BY InvParts, ScannedEffect
<1>3. EntriesAreLeft(cb, swtmrLink) /\ EntriesAreLeft(cb', swtmrLink')
  BY LeftNow, LeftByEntries
<1>4. /\ DOMAIN f = {cb[x.node].id : x \in Entries(swtmrLink)}
      /\ \A x \in Entries(swtmrLink) : x.node \in Index /\ x.time \in Int /\ f[cb[x.node].id] = x.time
      /\ \A x, y \in Entries(swtmrLink) : cb[x.node].id = cb[y.node].id => x = y
  BY <1>3 DEF EntriesAreLeft
<1>5. /\ handlerQueue \in Seq(TimerID) /\ q \in Nat /\ q <= LIMIT /\ LIMIT \in Nat
      /\ handlerQueue' \in Seq(TimerID) /\ r \in Nat /\ r <= LIMIT
  BY InvParts, Numbers DEF Parts
<1>6. TimeLeft = f /\ TimeLeft' = g
  BY DEF TimeLeft, LeftBy
<1>7. /\ \A k \in 1..n : due[k] \in Entries(swtmrLink) /\ due[k].time <= 0
      /\ \A j, k \in 1..n : due[j].node = due[k].node => j = k
      /\ \A j, k \in 1..n : j < k => due[j].time <= due[k].time
      /\ \A x \in Entries(swtmrLink) : x.time <= 0 => \E k \in 1..n : x = due[k]
  <2>1. Entries(due) = {due[k] : k \in 1..n}
    BY DEF Entries
  <2> QED BY <2>1, <1>1, <1>2 DEF LinkOK
<1> HIDE DEF f, g, due
<1>8. /\ \A k \in 1..n : Id(k) \in D /\ f[Id(k)] = due[k].time
      /\ \A j, k \in 1..n : Id(j) = Id(k) => j = k
      /\ D = {Id(k) : k \in 1..n}
  <2>1. \A k \in 1..n : Id(k) \in DOMAIN f /\ f[Id(k)] = due[k].time /\ f[Id(k)] <= 0
    BY <1>4, <1>7
  <2>2. ASSUME NEW j \in 1..n, NEW k \in 1..n, Id(j) = Id(k) PROVE j = k
    <3>1. due[j] = due[k]
      BY <2>2, <1>4, <1>7
    <3> QED BY <3>1, <1>7
  <2>3. ASSUME NEW m \in D PROVE \E k \in 1..n : m = Id(k)
    <3>1. PICK x \in Entries(swtmrLink) : m = cb[x.node].id
      BY <1>4
    <3>2. x.time <= 0
      BY <3>1, <1>4
    <3> QED BY <3>1, <3>2, <1>7
  <2> QED BY <2>1, <2>2, <2>3
<1> HIDE DEF D, Id
<1>9. q <= r /\ r - q \in Nat /\ r - q <= n /\ (r - q = n \/ r = LIMIT)
  <2>1. PICK a \in Nat : a = q
    BY <1>5
  <2>2. r = IF a + n < LIMIT THEN a + n ELSE LIMIT
    BY <2>1, <1>1 DEF Least
  <2> HIDE DEF q, r
  <2> QED BY <2>1, <2>2, <1>1, <1>5
<1>10. CASE n = 0
  <2>1. DueTimers = {} /\ \A x \in Entries(swtmrLink) : x.time > 0
    BY <1>1, <1>4, <1>7, <1>10
  <2>2. \A j \in Index : cb'[j] = cb[j]
    BY <2>1, <1>1
  <2>3. Entries(swtmrLink') = Entries(swtmrLink)
    <3>1. Entries(swtmrLink') = {x \in Entries(swtmrLink) : x.time > 0}
              \cup {Restarted(j) : j \in {i \in DueTimers : cb[i].kind.mode = "PERIOD"}}
      BY ScanStep
    <3> QED BY <3>1, <2>1
  <2>4. g = f
    <3>1. \A x \in Entries(swtmrLink) : cb[x.node].id = cb'[x.node].id
      BY <2>2, <1>4
    <3> QED BY <3>1, <2>3, <1>3, SameTimesLeft DEF f, g
  <2>5. handlerQueue' = handlerQueue
    <3>1. r = q
      BY <1>5, <1>9, <1>10
    <3>2. \A k \in 1..q : handlerQueue'[k] = handlerQueue[k]
      BY <3>1, <1>1, <1>5
    <3> QED BY <3>1, <3>2, <1>5
  <2> QED BY <2>4, <2>5, <1>6 DEF Abstract!vars
<1>11. CASE n # 0
  <2>1. D # {}
    <3>1. 1 \in 1..n
      BY <1>1, <1>11
    <3> QED BY <3>1, <1>8
  <2>2. SubSeq(handlerQueue', 1, q) = handlerQueue
    <3> DEFINE w == SubSeq(handlerQueue', 1, q)
    <3>1. \A k \in 1..q : handlerQueue'[k] \in TimerID /\ handlerQueue'[k] = handlerQueue[k]
      BY <1>1, <1>5, <1>9
    <3>2. w \in Seq(TimerID) /\ Len(w) = q /\ \A k \in 1..q : w[k] = handlerQueue'[k]
      BY <3>1, <1>5, SubSeqProperties
    <3> HIDE DEF w
    <3>3. w = handlerQueue
      BY <3>1, <3>2, <1>5
    <3> QED BY <3>3 DEF w
  <2>3. /\ came \in Seq(TimerID) /\ Len(came) = r - q /\ DOMAIN came = 1..(r - q)
        /\ \A k \in 1..(r - q) : came[k] = Id(k)
    <3>1. PICK a \in Nat : a = q
      BY <1>5
    <3>2. PICK b \in Nat : b = r
      BY <1>5
    <3>3. a <= b /\ \A k \in 1..b : handlerQueue'[k] \in TimerID
      BY <3>1, <3>2, <1>5, <1>9
    <3> DEFINE w == SubSeq(handlerQueue', a + 1, b)
    <3>4. /\ w \in Seq(TimerID)
          /\ Len(w) = IF a + 1 <= b THEN b - (a + 1) + 1 ELSE 0
          /\ \A k \in 1..(b - (a + 1) + 1) : w[k] = handlerQueue'[(a + 1) + k - 1]
      <4>1. \A k \in (a + 1)..b : handlerQueue'[k] \in TimerID
        BY <3>3
      <4> QED BY <4>1, <3>3, SubSeqProperties
    <3>5. came = w
      BY <3>1, <3>2
    <3> HIDE DEF w, came
    <3>6. Len(w) = b - a /\ DOMAIN w = 1..(b - a)
      BY <3>3, <3>4
    <3>7. ASSUME NEW k \in 1..(b - a) PROVE w[k] = Id(k)
      <4>1. w[k] = handlerQueue'[a + k] /\ a + k \in 1..b /\ ~(a + k <= a) /\ (a + k) - a = k
        <5>1. k \in 1..(b - (a + 1) + 1) /\ (a + 1) + k - 1 = a + k
          BY <3>3
        <5>2. w[k] = handlerQueue'[a + k]
          BY <5>1, <3>4
        <5> QED BY <5>2, <3>3
      <4> QED BY <4>1, <3>1, <3>2, <1>1
    <3> QED BY <3>1, <3>2, <3>4, <3>5, <3>6, <3>7
  <2> HIDE DEF came
  <2>4. Range(came) = {Id(k) : k \in 1..(r - q)}
    BY <2>3 DEF Range
  <2>5. \A k \in 1..(r - q) : k \in 1..n
    BY <1>1, <1>9
  <2>6. Range(came) \subseteq D
    BY <2>4, <2>5, <1>8
  <2>7. Range(came) = D \/ r = LIMIT
    BY <2>4, <1>8, <1>9
  <2>8. Abstract!InTurn(came)
    <3>1. ASSUME NEW j \in 1..(r - q), NEW k \in 1..(r - q), j < k
          PROVE  came[j] # came[k] /\ f[came[j]] <= f[came[k]]
      <4>1. j \in 1..n /\ k \in 1..n /\ came[j] = Id(j) /\ came[k] = Id(k) /\ j # k
        BY <3>1, <2>3, <2>5, <1>5
      <4> QED BY <4>1, <3>1, <1>7, <1>8
    <3> QED BY <3>1, <2>3, <1>6 DEF Abstract!InTurn
  <2>9. /\ DOMAIN f \ D \subseteq DOMAIN g /\ DOMAIN g \subseteq DOMAIN f
        /\ \A m \in DOMAIN g : IF m \in D THEN g[m] \in {k.interval * OS_CYCLE_PER_TICK : k \in Kind}
                               ELSE g[m] = f[m]
    BY LeftByScan DEF f, g, D
  <2>10. r \in q..LIMIT
    BY <1>5, <1>9
  <2>11. D = {m \in DOMAIN TimeLeft : TimeLeft[m] <= 0}
    BY <1>6 DEF D
  <2> HIDE DEF f, g
  <2>12. /\ \A m \in DOMAIN TimeLeft' :
              IF m \in D THEN TimeLeft'[m] \in {k.interval * OS_CYCLE_PER_TICK : k \in Kind}
              ELSE TimeLeft'[m] = TimeLeft[m]
         /\ DOMAIN TimeLeft \ D \subseteq DOMAIN TimeLeft' /\ DOMAIN TimeLeft' \subseteq DOMAIN TimeLeft
    BY <2>9, <1>6
  <2> HIDE DEF q, r
  <2>13. Abstract!Expire <=>
           /\ D # {} /\ r \in q..LIMIT /\ SubSeq(handlerQueue', 1, q) = handlerQueue
           /\ Range(came) \subseteq D /\ Abstract!InTurn(came)
           /\ Range(came) = D \/ r = LIMIT
           /\ DOMAIN TimeLeft \ D \subseteq DOMAIN TimeLeft' /\ DOMAIN TimeLeft' \subseteq DOMAIN TimeLeft
           /\ \A m \in DOMAIN TimeLeft' :
                IF m \in D THEN TimeLeft'[m] \in {k.interval * OS_CYCLE_PER_TICK : k \in Kind}
                ELSE TimeLeft'[m] = TimeLeft[m]
    BY <2>11 DEF Abstract!Expire, Abstract!Range, Range, came, q, r
  <2> QED BY <2>1, <2>2, <2>6, <2>7, <2>8, <2>10, <2>12, <2>13
<1> QED BY <1>10, <1>11

\* Every step is one of the timer service, or changes nothing of it.
LEMMA StepRefines ==
  ASSUME SwtmrInv, SwtmrInv', [Next]_vars
  PROVE  [Abstract!Next]_(Abstract!vars)
<1>1. Parts(cb', freeList', swtmrLink', handlerQueue', creating')
  BY DEF SwtmrInv, PoolInv
<1>2. Entries(swtmrLink) \subseteq EntryOf(Index) /\ cb \in [Index -> ControlBlock]
      /\ \A x \in Entries(swtmrLink) : x.node \in Index /\ x.node \notin creating
  <2>1. Entries(swtmrLink) \subseteq EntryOf(Index) /\ Nodes(swtmrLink) = {x.node : x \in Entries(swtmrLink)}
    BY InvParts, NodesAreEntries
  <2>2. \A x \in Entries(swtmrLink) : x.node \in Index /\ x.node \in Nodes(swtmrLink)
    BY <2>1 DEF EntryOf
  <2> QED BY <2>1, <2>2, InvParts DEF Parts
<1>3. ASSUME UNCHANGED <<cb, swtmrLink, handlerQueue>> PROVE UNCHANGED Abstract!vars
  BY <1>3 DEF Abstract!vars, TimeLeft
<1>4. CASE SwtmrCreateTake \/ OsSchedTaskSwitch \/ (\E t \in Sleeper : OsSchedTaskWake(t))
           \/ UNCHANGED vars
  BY <1>3, <1>4 DEF SwtmrCreateTake, OsSchedTaskSwitch, OsSchedTaskWake, vars
<1>5. CASE \E i \in Index, kind \in Kind : SwtmrCreateFill(i, kind)
  <2>1. PICK i \in Index, kind \in Kind : SwtmrCreateFill(i, kind)
    BY <1>5
  <2>2. /\ i \in creating /\ cb' = [cb EXCEPT ![i].state = "CREATED", ![i].kind = kind]
        /\ UNCHANGED <<swtmrLink, handlerQueue>>
    BY <2>1 DEF SwtmrCreateFill
  <2>3. \A x \in Entries(swtmrLink) : cb'[x.node].id = cb[x.node].id
    <3>1. \A j \in Index : j # i => cb'[j] = cb[j]
      BY <2>2, <1>2
    <3> QED BY <3>1, <2>2, <1>2
  <2> QED BY <2>2, <2>3, <1>1, NothingElapses
<1>6. CASE \E id \in held : LOS_SwtmrStart(id)
  BY <1>1, <1>6, StartRefines DEF Abstract!Next
<1>7. CASE \E id \in held : LOS_SwtmrStop(id)
  BY <1>1, <1>7, StopRefines DEF Abstract!Next
<1>8. CASE \E id \in held : LOS_SwtmrDelete(id)
  BY <1>8, DeleteRefines DEF Abstract!Next
<1>9. CASE OsSwtmrTask
  <2>1. /\ handlerQueue # <<>> /\ handlerQueue' = Tail(handlerQueue) /\ UNCHANGED <<cb, swtmrLink>>
    BY <1>9 DEF OsSwtmrTask
  <2>2. TimeLeft' = TimeLeft
    BY <2>1 DEF TimeLeft
  <2> QED BY <2>1, <2>2 DEF Abstract!Next, Abstract!Handle
<1>10. CASE LOS_SchedTickHandler
  <2>1. CASE timer.slice
    <3>1. UNCHANGED <<cb, swtmrLink, handlerQueue>>
      BY <2>1, <1>10 DEF LOS_SchedTickHandler, SliceResponse
    <3> QED BY <3>1, <1>3
  <2>2. CASE ~timer.slice
    <3>1. SwtmrsBecome(OsSwtmrScan(Swtmrs))
      BY <2>2, <1>10 DEF LOS_SchedTickHandler, SliceResponse
    <3> QED BY <3>1, <1>1, ScanRefines DEF Abstract!Next
  <2> QED BY <2>1, <2>2
<1>11. CASE Elapse
  BY <1>11, ElapseRefines DEF Abstract!Next
<1> QED BY <1>4, <1>5, <1>6, <1>7, <1>8, <1>9, <1>10, <1>11 DEF Next

\* Nothing is timed at first.
LEMMA InitRefines == Init => Abstract!Init
<1> SUFFICES ASSUME Init PROVE Abstract!Init
  OBVIOUS
<1>1. handlerQueue = <<>> /\ \A i \in Index : cb[i].state # "TICKING"
  BY DEF Init
<1>2. {cb[i].id : i \in {j \in Index : cb[j].state = "TICKING"}} = {}
  BY <1>1
<1>3. TimeLeft = <<>>
  <2>1. 1..0 = {}
    OBVIOUS
  <2>2. DOMAIN TimeLeft = {} /\ TimeLeft = [n \in DOMAIN TimeLeft |-> TimeLeft[n]]
    BY <1>2 DEF TimeLeft
  <2>3. TimeLeft \in [1..0 -> Int]
    BY <2>1, <2>2
  <2>4. TimeLeft \in Seq(Int) /\ Len(TimeLeft) = 0
    BY <2>3
  <2> QED BY <2>4, EmptySeq
<1> QED BY <1>1, <1>3 DEF Abstract!Init

\* Software timers are a timer service: each expires once its time has come, in
\* its turn and at most LatestService cycles later, and an expiry is lost only if
\* as many as there are control blocks wait to be handled.
THEOREM SwtmrImplementsTimerService == Spec => ImplementsTimerService
<1>1. SwtmrInv /\ SwtmrInv' /\ [Next]_vars => [Abstract!Next]_(Abstract!vars)
  BY StepRefines
<1> QED BY SwtmrInvariant, InitRefines, <1>1, PTL DEF Spec, ImplementsTimerService

=============================================================================
