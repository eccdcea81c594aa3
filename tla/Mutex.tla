------------------------------- MODULE Mutex -------------------------------
(***************************************************************************)
(* What a recursive mutex promises, without a scheduler: one owner at a    *)
(* time, which alone can lock it again or unlock it; released, it passes   *)
(* to the waiter that came first; nobody waits for an open mutex, and who  *)
(* gives up waiting does not own it.                                       *)
(***************************************************************************)
EXTENDS Naturals, Sequences

CONSTANTS Proc, None   \* None is no element of Proc

VARIABLES exists, owner, depth,
          waiters,     \* who waits, in order of arrival
          served       \* owners that have not returned from waiting yet

vars == <<exists, owner, depth, waiters, served>>

Elements(s) == {s[i] : i \in DOMAIN s}

WithoutAt(s, i) == SubSeq(s, 1, i - 1) \o SubSeq(s, i + 1, Len(s))

Init == exists = FALSE /\ owner = None /\ depth = 0 /\ waiters = <<>> /\ served = {}

Create == ~exists /\ exists' = TRUE /\ UNCHANGED <<owner, depth, waiters, served>>

Delete == /\ exists /\ owner = None /\ waiters = <<>>
          /\ exists' = FALSE
          /\ UNCHANGED <<owner, depth, waiters, served>>

Lock(p) == /\ exists /\ p \notin Elements(waiters) \cup served
           /\ \/ owner = None /\ owner' = p /\ depth' = 1
              \/ owner = p /\ depth' = depth + 1 /\ UNCHANGED owner
           /\ UNCHANGED <<exists, waiters, served>>

Wait(p) == /\ exists /\ owner \notin {None, p} /\ p \notin Elements(waiters) \cup served
           /\ waiters' = Append(waiters, p)
           /\ UNCHANGED <<exists, owner, depth, served>>

Unlock(p) ==
  /\ exists /\ owner = p /\ p \notin served
  /\ \/ depth > 1 /\ depth' = depth - 1 /\ UNCHANGED <<owner, waiters, served>>
     \/ /\ depth = 1 /\ waiters = <<>>
        /\ depth' = 0 /\ owner' = None /\ UNCHANGED <<waiters, served>>
     \/ /\ depth = 1 /\ waiters # <<>>
        /\ owner' = Head(waiters) /\ waiters' = Tail(waiters)
        /\ served' = served \cup {Head(waiters)} /\ UNCHANGED depth
  /\ UNCHANGED exists

\* A waiter returns as the owner ...
Return(p) == /\ owner = p /\ p \in served /\ served' = served \ {p}
             /\ UNCHANGED <<exists, owner, depth, waiters>>

\* ... or gives up after its time, or is deleted.
Leave(p) == /\ \E i \in DOMAIN waiters : waiters[i] = p /\ waiters' = WithoutAt(waiters, i)
            /\ UNCHANGED <<exists, owner, depth, served>>

Next == \/ Create \/ Delete
        \/ \E p \in Proc : Lock(p) \/ Wait(p) \/ Unlock(p) \/ Return(p) \/ Leave(p)

Spec == Init /\ [][Next]_vars
=============================================================================
