----------------------------- MODULE LosMemory -----------------------------
(***************************************************************************)
(* Dynamic memory (mm/los_memory.c) with the configuration the repository  *)
(* builds: one pool that is not expanded, LOSCFG_MEM_WATERLINE and, for    *)
(* LOS_MemFreeByTaskID, LOSCFG_MEM_FREE_BY_TASKID.  Addresses and sizes    *)
(* count words of sizeof(UINTPTR) bytes from the pool's first node, and a  *)
(* node is named by its address.  Every operation runs under LOS_IntLock.  *)
(***************************************************************************)
EXTENDS Integers, SequencesExt

CONSTANTS PoolSize,    \* the words from the first node to the end of the pool
          Base,        \* the address of the first node
          SmallMax,    \* OS_MEM_SMALL_BUCKET_MAX_SIZE
          SLI,         \* OS_MEM_SLI
          UsedFlag,    \* OS_MEM_NODE_USED_FLAG, half the range of UINT32
          Request,     \* the sizes the application asks for
          Boundary,    \* the boundaries it asks for
          Owner        \* the tasks that use the heap

HeadSize == 2          \* OS_MEM_NODE_HEAD_SIZE
MinLeft  == 4          \* OS_MEM_MIN_LEFT_SIZE
MinAlloc == 2          \* OS_MEM_MIN_ALLOC_SIZE

ASSUME PoolAssumption == /\ PoolSize \in Nat /\ PoolSize >= HeadSize + MinLeft
                         /\ UsedFlag \in Nat /\ UsedFlag > PoolSize
                         /\ Base \in Nat
ASSUME ClassAssumption == SLI \in 0..30 /\ SmallMax \in {2^f : f \in 1..30}
\* Sizes have no more bits than sizeAndFlag leaves them; LOS_MemAlloc and
\* LOS_MemAllocAlign refuse others.
ASSUME RequestAssumption == /\ PoolSize < 2^30 /\ Request \subseteq 1 .. 2^29
                            /\ Boundary \subseteq {2^f : f \in 1..29}

VARIABLES heap,        \* the pool: node headers, free lists, bitmap, curUsedSize
          held         \* the blocks the application has, by the pointer it got

memoryVars == <<heap, held>>

EndNode == PoolSize - HeadSize          \* OS_MEM_END_NODE
NoNode  == -1

-----------------------------------------------------------------------------
\* Size classes.
Log2(w) == CHOOSE f \in 0..30 : 2^f <= w /\ w \div 2 < 2^f

OsMemFreeListIndexGet(w) ==
  IF w < SmallMax THEN w - 1
  ELSE LET f == Log2(w)
       IN  (SmallMax - 1) + (f - Log2(SmallMax)) * 2^SLI + (w * 2^SLI) \div 2^f - 2^SLI

Index == 0 .. OsMemFreeListIndexGet(PoolSize)

NodeHead == [size : 0..PoolSize, used : BOOLEAN, aligned : BOOLEAN,
             prev : 0..PoolSize, taskID : Owner \cup {"none"}]

Least(S) == CHOOSE x \in S : \A y \in S : x <= y

\* OsMemFindCurSuitableBlock: the first of the list that is large enough.  The
\* pool fills no list behind those of Index.
FirstFit(p, i, w) ==
  LET fits == {j \in IF i \in Index THEN DOMAIN p.free[i] ELSE {} :
                 p.node[p.free[i][j]].size >= w}
  IN  IF fits = {} THEN NoNode ELSE p.free[i][Least(fits)]

Fault_NoScanOfOwnClass(p, w) ==
  LET own   == OsMemFreeListIndexGet(w)
      above == {i \in p.bitmap : i >= IF w < SmallMax THEN own ELSE own + 1}
  IN  IF above # {} THEN Head(p.free[Least(above)]) ELSE NoNode

\* A small block has its exact class.  A large one comes from the classes
\* above its own, whose nodes are all large enough, or is searched in its own.
OsMemFindNextSuitableBlock(p, w) ==
  LET own   == OsMemFreeListIndexGet(w)
      above == {i \in p.bitmap : i >= IF w < SmallMax THEN own ELSE own + 1}
  IN  IF above # {} THEN Head(p.free[Least(above)])
      ELSE IF w < SmallMax THEN NoNode ELSE FirstFit(p, own, w)

-----------------------------------------------------------------------------
\* Free lists and node headers.
OsMemFreeNodeAdd(p, a) ==
  LET i == OsMemFreeListIndexGet(p.node[a].size)
  IN  [p EXCEPT !.free[i] = <<a>> \o @, !.bitmap = @ \cup {i}]

In(a, list) == \E j \in DOMAIN list : list[j] = a

Without(list, a) ==
  IF In(a, list) THEN RemoveAt(list, CHOOSE j \in DOMAIN list : list[j] = a) ELSE list

Fault_KeepsBit(p, a) ==
  LET i == OsMemFreeListIndexGet(p.node[a].size)
  IN  [p EXCEPT !.free[i] = Without(@, a)]

\* OsMemListDelete: the bit goes with the last node of its list.
OsMemFreeNodeDelete(p, a) ==
  LET i    == OsMemFreeListIndexGet(p.node[a].size)
      rest == Without(p.free[i], a)
  IN  [p EXCEPT !.free[i] = rest, !.bitmap = IF rest = <<>> THEN @ \ {i} ELSE @]

NextNode(p, a) == a + p.node[a].size

\* Node a becomes part of the node before it.
OsMemMergeNode(p, a) ==
  LET before == p.node[a].prev
  IN  [p EXCEPT !.node = [x \in DOMAIN p.node \ {a} |->
         IF x = before THEN [p.node[x] EXCEPT !.size = @ + p.node[a].size]
         ELSE IF x = NextNode(p, a) THEN [p.node[x] EXCEPT !.prev = before]
         ELSE p.node[x]]]

\* Node a keeps w words; what is left is a free node, together with the next
\* node if that is free.
OsMemSplitNode(p, a, w) ==
  LET rest == a + w
      next == NextNode(p, a)
      cut  == [p EXCEPT !.node = [x \in DOMAIN p.node \cup {rest} |->
                 IF x = a THEN [p.node[a] EXCEPT !.size = w]
                 ELSE IF x = rest THEN [size |-> p.node[a].size - w, used |-> FALSE,
                                        aligned |-> FALSE, prev |-> a, taskID |-> "none"]
                 ELSE IF x = next THEN [p.node[x] EXCEPT !.prev = rest]
                 ELSE p.node[x]]]
  IN  OsMemFreeNodeAdd(IF p.node[next].used THEN cut
                       ELSE OsMemMergeNode(OsMemFreeNodeDelete(cut, next), next), rest)

SplitIfWorth(p, a, w) ==
  IF w + MinLeft <= p.node[a].size THEN OsMemSplitNode(p, a, w) ELSE p

\* OsMemWaterUsedRecord, and the subtractions from curUsedSize, in UINT32.
Count(p, n) == [p EXCEPT !.curUsed = (@ + n) % (2 * UsedFlag)]

SetUsed(p, a, task) == [p EXCEPT !.node[a] = [@ EXCEPT !.used = TRUE, !.taskID = task]]

-----------------------------------------------------------------------------
\* OsMemPoolInit: one free node and the end node.
HeapInit ==
  LET first == [size |-> EndNode, used |-> FALSE, aligned |-> FALSE,
                prev |-> EndNode, taskID |-> "none"]
      last  == [size |-> 0, used |-> TRUE, aligned |-> FALSE, prev |-> 0, taskID |-> "none"]
  IN  heap = OsMemFreeNodeAdd([node    |-> [x \in {0, EndNode} |-> IF x = 0 THEN first ELSE last],
                               free    |-> [i \in Index |-> <<>>],
                               bitmap  |-> {},
                               curUsed |-> HeadSize], 0)

MemoryInit == HeapInit /\ held = <<>>

Fault_NoRoomForHead(n) == IF n < MinAlloc + HeadSize THEN MinAlloc + HeadSize ELSE n

\* The node and the pool after OsMemAlloc of n words, which must be there.
AllocSize(n) == (IF n < MinAlloc THEN MinAlloc ELSE n) + HeadSize
Suitable(p, n) == OsMemFindNextSuitableBlock(p, AllocSize(n))

OsMemAlloc(p, n, task) ==
  LET a     == Suitable(p, n)
      taken == SplitIfWorth(OsMemFreeNodeDelete(p, a), a, AllocSize(n))
  IN  SetUsed(Count(taken, taken.node[a].size), a, task)

Hold(ptrs, ptr, block) == [q \in ptrs \cup {ptr} |-> IF q = ptr THEN block ELSE held[q]]

\* LOS_MemAlloc that finds a node; without one nothing changes.
LOS_MemAlloc(task, n) ==
  LET a == Suitable(heap, n) IN
  /\ a # NoNode
  /\ heap' = OsMemAlloc(heap, n, task)
  /\ held' = Hold(DOMAIN held, a + HeadSize, [size |-> n, gap |-> 0, data |-> a + HeadSize])

\* The words from ptr to the next address that is a multiple of b.
Gap(ptr, b) == (b - ((Base + ptr) % b)) % b

\* LOS_MemAllocAlign: room for the gap, whose size goes to the word before the
\* pointer.
LOS_MemAllocAlign(task, n, b) ==
  LET use == (IF n < MinAlloc THEN MinAlloc ELSE n) + b - 1
      a   == Suitable(heap, use)
      gap == Gap(a + HeadSize, b)
      ptr == a + HeadSize + gap
  IN  /\ a # NoNode
      /\ heap' = [OsMemAlloc(heap, use, task) EXCEPT !.node[a].aligned = (gap # 0)]
      /\ held' = Hold(DOMAIN held, ptr, [size |-> n, gap |-> gap, data |-> ptr])

Fault_IgnoresGap(ptr) == ptr - HeadSize

\* OsGetRealPtr, by the gap stored before the pointer.
NodeOf(ptr) == ptr - held[ptr].gap - HeadSize

IsNodeValid(p, a) == a \in DOMAIN p.node /\ (p.node[a].used \/ p.node[a].prev \in 0..PoolSize)

OsMemCheckUsedNode(p, a) ==
  /\ IsNodeValid(p, a) /\ p.node[a].used
  /\ IsNodeValid(p, NextNode(p, a))
  /\ p.node[NextNode(p, a)].prev = a
  /\ a # 0 => IsNodeValid(p, p.node[a].prev) /\ NextNode(p, p.node[a].prev) = a

\* The node is merged with the free node before it, then with the one after.
\* The node before the first is the end node, which is never free.
OsMemFree(p, a) ==
  LET freed  == Count([p EXCEPT !.node[a] = [@ EXCEPT !.used = FALSE, !.aligned = FALSE,
                                                      !.taskID = "none"]],
                      2 * UsedFlag - p.node[a].size)
      before == freed.node[a].prev
      node   == IF freed.node[before].used THEN a ELSE before
      back   == IF freed.node[before].used THEN freed
                ELSE OsMemMergeNode(OsMemFreeNodeDelete(freed, before), a)
      next   == NextNode(back, node)
  IN  OsMemFreeNodeAdd(IF back.node[next].used THEN back
                       ELSE OsMemMergeNode(OsMemFreeNodeDelete(back, next), next), node)

LOS_MemFree(ptr) ==
  /\ OsMemCheckUsedNode(heap, NodeOf(ptr))
  /\ heap' = OsMemFree(heap, NodeOf(ptr))
  /\ held' = [q \in DOMAIN held \ {ptr} |-> held[q]]

Unflagged(p, a) == [p EXCEPT !.node[a] = [@ EXCEPT !.used = FALSE, !.aligned = FALSE]]

Fault_ShrinkCountsWhole(p, a, w) ==
  LET size == p.node[a].size
      kept == SplitIfWorth(Unflagged(p, a), a, w)
  IN  SetUsed(Count(kept, 2 * UsedFlag - (size - w)), a, p.node[a].taskID)

\* OsMemReAllocSmaller: in place, with the rest given back if it makes a node.
ReAllocSmaller(p, a, w) ==
  LET size == p.node[a].size
      kept == SplitIfWorth(Unflagged(p, a), a, w)
  IN  SetUsed(Count(kept, IF kept.node[a].size = size THEN 0
                          ELSE 2 * UsedFlag - (size - w)), a, p.node[a].taskID)

\* OsMemMergeNodeForReAllocBigger: in place, with the next node.  What is
\* counted is node->sizeAndFlag - nodeSize after the used flag has been set.
ReAllocBigger(p, a, w) ==
  LET size  == p.node[a].size
      next  == NextNode(p, a)
      grown == SplitIfWorth(OsMemMergeNode(OsMemFreeNodeDelete(Unflagged(p, a), next), next),
                            a, w)
  IN  SetUsed(Count(grown, grown.node[a].size + UsedFlag - size), a, p.node[a].taskID)

\* The three ways of OsMemRealloc; data says where the block's old contents
\* begin in what the caller gets back.
Smaller(p, a, w) == p.node[a].size >= w
Bigger(p, a, w)  == /\ ~Smaller(p, a, w)
                    /\ ~p.node[NextNode(p, a)].used
                    /\ p.node[NextNode(p, a)].size + p.node[a].size >= w

LOS_MemRealloc(task, ptr, n) ==
  LET a     == NodeOf(ptr)
      w     == AllocSize(n)
      other == Suitable(heap, n)
      real  == a + HeadSize
      at    == IF Smaller(heap, a, w) \/ Bigger(heap, a, w) THEN real ELSE other + HeadSize
  IN  /\ OsMemCheckUsedNode(heap, a)
      /\ \/ Smaller(heap, a, w) /\ heap' = ReAllocSmaller(heap, a, w)
         \/ Bigger(heap, a, w) /\ heap' = ReAllocBigger(heap, a, w)
         \/ /\ ~Smaller(heap, a, w) /\ ~Bigger(heap, a, w) /\ other # NoNode
            /\ heap' = OsMemFree(OsMemAlloc(heap, n, task), a)
      /\ held' = Hold(DOMAIN held \ {ptr}, at,
                      [size |-> n, gap |-> 0, data |-> at + (held[ptr].data - real)])

IsOf(p, a, task) == a \in DOMAIN p.node /\ p.node[a].used /\ p.node[a].taskID = task

FreeIfOf(p, a, task) == IF IsOf(p, a, task) THEN OsMemFree(p, a) ELSE p

\* LOS_MemFreeByTaskID: the walk goes on behind a node that has been merged
\* into the one before it.
LOS_MemFreeByTaskID(task) ==
  LET walk[a \in 0..EndNode] ==
        IF a = 0 THEN heap ELSE FreeIfOf(walk[a - 1], a - 1, task)
  IN  /\ heap' = walk[EndNode]
      /\ held' = [q \in {ptr \in DOMAIN held : ~IsOf(heap, NodeOf(ptr), task)} |-> held[q]]

MemoryNext ==
  \/ \E task \in Owner, n \in Request :
       \/ LOS_MemAlloc(task, n)
       \/ \E b \in Boundary : LOS_MemAllocAlign(task, n, b)
       \/ \E ptr \in DOMAIN held : LOS_MemRealloc(task, ptr, n)
  \/ \E ptr \in DOMAIN held : LOS_MemFree(ptr)
  \/ \E task \in Owner : LOS_MemFreeByTaskID(task)

MemorySpec == MemoryInit /\ [][MemoryNext]_memoryVars

-----------------------------------------------------------------------------
\* The words of the heap that belong to a used node.
InUse == UNION {a .. (NextNode(heap, a) - 1) : a \in {b \in DOMAIN heap.node : heap.node[b].used}}

\* The structure every operation relies on and the integrity check walks: the
\* nodes tile the pool, each knows the one before it, no two free nodes touch,
\* and the free lists hold each free node once, under its size's class, with
\* the bitmap telling which lists are empty (OsMemFree, OsMemSplitNode).
HeapAgrees ==
  /\ \A a \in DOMAIN heap.node \ {EndNode} :
       /\ NextNode(heap, a) \in DOMAIN heap.node
       /\ heap.node[NextNode(heap, a)].prev = a
       /\ heap.node[a].used \/ heap.node[NextNode(heap, a)].used
       /\ \A b \in DOMAIN heap.node : a < b => NextNode(heap, a) <= b
  /\ \A i \in Index :
       /\ \A j, k \in DOMAIN heap.free[i] : heap.free[i][j] = heap.free[i][k] => j = k
       /\ {heap.free[i][j] : j \in DOMAIN heap.free[i]} =
            {a \in DOMAIN heap.node : /\ ~heap.node[a].used
                                      /\ OsMemFreeListIndexGet(heap.node[a].size) = i}
       /\ i \in heap.bitmap <=> heap.free[i] # <<>>

\* A block that was handed out is always accepted back: the test OsMemFree
\* makes of the node and its neighbours never takes it for a broken one.
BlocksAreAccepted ==
  \A ptr \in DOMAIN held : OsMemCheckUsedNode(heap, NodeOf(ptr))

\* LOS_MemAlloc fails only when no stretch of free words is long enough for
\* the block and its header, whatever was allocated and freed before.
NoSpaceOverlooked ==
  \A n \in Request :
    Suitable(heap, n) = NoNode =>
      \A a \in 0 .. (EndNode - AllocSize(n)) : (a .. (a + AllocSize(n) - 1)) \cap InUse # {}

\* The words of the used nodes.  The end node, which is one, has none.
UsedAt(N, a) == IF a \in DOMAIN N /\ N[a].used THEN N[a].size ELSE 0

UsedWords(N) ==
  LET sum[a \in 0..EndNode] == IF a = 0 THEN 0 ELSE sum[a - 1] + UsedAt(N, a - 1)
  IN  sum[EndNode]

\* curUsedSize is the size of the used nodes in all bits below the used flag
\* (OsMemAlloc, OsMemFree, OsMemReAllocSmaller, OsMemMergeNodeForReAllocBigger).
UsedSizeAgrees == heap.curUsed % UsedFlag = HeadSize + UsedWords(heap.node)

\* "Current usage size in a memory pool" (los_memory.c:151).
UsedSizeIsCurrent == heap.curUsed = HeadSize + UsedWords(heap.node)

\* "The new memory block will copy the data in the original memory block of
\* which the address is specified by ptr" (los_memory.h:228).
DataIsKept == \A ptr \in DOMAIN held : held[ptr].data = ptr

AbstractHeap == INSTANCE Heap WITH
              Words  <- EndNode,
              Sizes  <- Request,
              blocks <- [ptr \in DOMAIN held |-> held[ptr].size]

\* Blocks never overlap, whatever the sequence of allocations, aligned or not,
\* reallocations and frees (los_memory.c).
ImplementsHeap == AbstractHeap!Spec
=============================================================================
