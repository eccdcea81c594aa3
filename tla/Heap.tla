-------------------------------- MODULE Heap --------------------------------
(***************************************************************************)
(* What a heap promises its callers: the blocks that are out lie inside    *)
(* the pool, each in the place it was given, and no two of them share a    *)
(* word.                                                                   *)
(***************************************************************************)
EXTENDS Naturals

CONSTANTS Words,       \* the words of the pool are 0 to Words - 1
          Sizes        \* the sizes blocks are asked for

VARIABLE blocks        \* the size of each block that is out, by address

Extent(ptr, n) == ptr .. (ptr + n - 1)

\* A block of n words at ptr, and nobody else's word in it.
Fits(ptr, n, others) ==
  /\ Extent(ptr, n) \subseteq 0 .. (Words - 1)
  /\ \A q \in others : Extent(ptr, n) \cap Extent(q, blocks[q]) = {}

Init == blocks = <<>>

Place(ptr, n, others) ==
  blocks' = [q \in others \cup {ptr} |-> IF q = ptr THEN n ELSE blocks[q]]

Allocate(n) == \E ptr \in DOMAIN blocks' : /\ Place(ptr, n, DOMAIN blocks)
                                           /\ Fits(ptr, n, DOMAIN blocks)

\* In place, or at another one.
Resize(old, n) == \E ptr \in DOMAIN blocks' : /\ Place(ptr, n, DOMAIN blocks \ {old})
                                              /\ Fits(ptr, n, DOMAIN blocks \ {old})

Release(ptrs) == blocks' = [q \in DOMAIN blocks \ ptrs |-> blocks[q]]

Next == \/ \E n \in Sizes : \/ Allocate(n)
                            \/ \E ptr \in DOMAIN blocks : Resize(ptr, n)
        \/ Release(DOMAIN blocks \ DOMAIN blocks')

Spec == Init /\ [][Next]_blocks
=============================================================================
