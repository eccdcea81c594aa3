------------------------------ MODULE MCMemory ------------------------------
(***************************************************************************)
(* An instance of the two allocators (kernel/src/mm): a heap of 22 words,  *)
(* and a static pool.  They share nothing, so that a behaviour exercises   *)
(* one of them, chosen at its start.                                       *)
(***************************************************************************)
EXTENDS LosMemory, LosMembox, TLC

VARIABLE part

Init == part \in {"heap", "box"} /\ MemoryInit /\ MemboxInit

Next == \/ part = "heap" /\ MemoryNext /\ UNCHANGED <<part, memboxVars>>
        \/ part = "box"  /\ MemboxNext /\ UNCHANGED <<part, memoryVars>>

Spec == Init /\ [][Next]_<<part, memoryVars, memboxVars>>

OwnerSymmetry == Permutations(Owner)
=============================================================================
