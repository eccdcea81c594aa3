----------------------------- MODULE Semaphore -----------------------------
(***************************************************************************)
(* What a counting semaphore promises, without a scheduler: every unit     *)
(* posted is either available or in the hands of exactly one taker, units  *)
(* go to the waiters in the order in which they came, and a waiter waits   *)
(* only while no unit is available.                                        *)
(***************************************************************************)
EXTENDS Naturals, Sequences

CONSTANTS Proc, Limits

VARIABLES limit,       \* most units the semaphore counts, 0 while it is deleted
          avail,       \* units free to take
          waiters,     \* who waits, in order of arrival
          served       \* waiters that were handed a unit and have not returned

vars == <<limit, avail, waiters, served>>

Elements(s) == {s[i] : i \in DOMAIN s}

WithoutAt(s, i) == SubSeq(s, 1, i - 1) \o SubSeq(s, i + 1, Len(s))

Init == limit = 0 /\ avail = 0 /\ waiters = <<>> /\ served = {}

Create == /\ limit = 0
          /\ limit' \in Limits /\ avail' \in 0..limit'
          /\ UNCHANGED <<waiters, served>>

Delete == /\ limit # 0 /\ waiters = <<>>
          /\ limit' = 0 /\ avail' = 0
          /\ UNCHANGED <<waiters, served>>

Take == avail > 0 /\ avail' = avail - 1 /\ UNCHANGED <<limit, waiters, served>>

Wait(p) == /\ limit # 0 /\ avail = 0 /\ p \notin Elements(waiters) \cup served
           /\ waiters' = Append(waiters, p)
           /\ UNCHANGED <<limit, avail, served>>

Post == /\ limit # 0
        /\ \/ waiters = <<>> /\ avail < limit /\ avail' = avail + 1
              /\ UNCHANGED <<waiters, served>>
           \/ waiters # <<>> /\ waiters' = Tail(waiters)
              /\ served' = served \cup {Head(waiters)} /\ UNCHANGED avail
        /\ UNCHANGED limit

\* A served waiter returns from its call; it can also be deleted before.
Return(p) == /\ p \in served /\ served' = served \ {p}
             /\ UNCHANGED <<limit, avail, waiters>>

\* A waiter gives up after its time, or is deleted.
Leave(p) == /\ \E i \in DOMAIN waiters : waiters[i] = p /\ waiters' = WithoutAt(waiters, i)
            /\ UNCHANGED <<limit, avail, served>>

Next == \/ Create \/ Delete \/ Take \/ Post
        \/ \E p \in Proc : Wait(p) \/ Return(p) \/ Leave(p)

Spec == Init /\ [][Next]_vars
=============================================================================
