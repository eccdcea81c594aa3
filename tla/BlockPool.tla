----------------------------- MODULE BlockPool ------------------------------
(***************************************************************************)
(* What a pool of blocks promises: a block is with the pool or with who    *)
(* took it, an empty pool gives nothing, and what is given back twice is   *)
(* back once.                                                              *)
(***************************************************************************)
EXTENDS Naturals

CONSTANT Blocks

VARIABLES avail,       \* the blocks with the pool
          count        \* how many are not

Init == avail = Blocks /\ count = 0

Take == \E b \in avail : avail' = avail \ {b} /\ count' = count + 1

GiveBack == \E b \in Blocks \ avail : avail' = avail \cup {b} /\ count' = count - 1

Next == Take \/ GiveBack

Spec == Init /\ [][Next]_<<avail, count>>
=============================================================================
