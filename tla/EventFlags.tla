----------------------------- MODULE EventFlags -----------------------------
(***************************************************************************)
(* What a group of event flags promises, without a scheduler: a write      *)
(* releases every reader it satisfies, and a reader waits only as long as  *)
(* the flags do not satisfy it.                                            *)
(***************************************************************************)
EXTENDS Naturals

CONSTANTS Proc, Bits

\* What a reader asks for: all the flags of mask or any of them, and whether
\* they are cleared by being read.
Request == [mask : (SUBSET Bits) \ {{}}, all : BOOLEAN, clear : BOOLEAN]

VARIABLES flags,
          waiting,     \* the requests of the readers that wait
          served       \* the requests of readers released and not returned yet

vars == <<flags, waiting, served>>

Satisfies(f, r) == IF r.all THEN r.mask \subseteq f ELSE r.mask \cap f # {}

Only(f, S)    == [p \in S |-> f[p]]
Without(f, p) == Only(f, DOMAIN f \ {p})

Init == flags = {} /\ waiting = <<>> /\ served = <<>>

Write(new) ==
  LET released == {p \in DOMAIN waiting : Satisfies(flags', waiting[p])} IN
  /\ flags' = flags \cup new
  /\ waiting' = Only(waiting, DOMAIN waiting \ released)
  /\ served' = [p \in DOMAIN served \cup released |->
                  IF p \in released THEN waiting[p] ELSE served[p]]

\* Reading what a request asks for, if it is there.
Taken(r) == IF Satisfies(flags, r) /\ r.clear THEN flags \ r.mask ELSE flags

Read(r) == flags' = Taken(r) /\ UNCHANGED <<waiting, served>>

Wait(p, r) == /\ ~Satisfies(flags, r) /\ p \notin DOMAIN waiting \cup DOMAIN served
              /\ waiting' = [q \in DOMAIN waiting \cup {p} |->
                               IF q = p THEN r ELSE waiting[q]]
              /\ UNCHANGED <<flags, served>>

\* A released reader takes what is left of its events.
Return(p) == /\ p \in DOMAIN served
             /\ flags' = Taken(served[p])
             /\ served' = Without(served, p)
             /\ UNCHANGED waiting

\* A reader gives up after its time, or is deleted, released or not.
Leave(p) == \/ p \in DOMAIN waiting /\ waiting' = Without(waiting, p) /\ UNCHANGED <<flags, served>>
            \/ p \in DOMAIN served /\ served' = Without(served, p) /\ UNCHANGED <<flags, waiting>>

Clear == flags' \subseteq flags /\ UNCHANGED <<waiting, served>>

Next == \/ \E new \in SUBSET Bits : Write(new)
        \/ \E r \in Request : Read(r)
        \/ \E p \in Proc : Return(p) \/ Leave(p) \/ \E r \in Request : Wait(p, r)
        \/ Clear

Spec == Init /\ [][Next]_vars
=============================================================================
