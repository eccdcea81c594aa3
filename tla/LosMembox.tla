----------------------------- MODULE LosMembox ------------------------------
(***************************************************************************)
(* Static memory pools (mm/los_membox.c).  The first word of a block       *)
(* (pstNext) links it into the free list or, while the block is out, holds *)
(* OS_MEMBOX_MAGIC and the low byte of the ID of the task that took it;    *)
(* LOS_MemboxFree goes by that word alone.  Every operation runs under     *)
(* HalIntLock.                                                             *)
(***************************************************************************)
EXTENDS Integers, Sequences, FiniteSets

CONSTANTS BlkNum,      \* uwBlkNum
          TskLimit,    \* LOSCFG_BASE_CORE_TSK_LIMIT
          IDRange      \* 2^OS_MEMBOX_TASKID_BITS

ASSUME MemboxAssumption == /\ BlkNum \in Nat \ {0}
                           /\ TskLimit \in Nat /\ IDRange \in Nat \ {0}

VARIABLES stFreeList,  \* the blocks from pstNext to pstNext
          magic,       \* the low byte of pstNext if the rest is the magic, else NoMagic
          uwBlkCnt,
          taken        \* the blocks the application has

memboxVars == <<stFreeList, magic, uwBlkCnt, taken>>

NoMagic == -1
Block   == 1..BlkNum

\* Of idle and the other tasks, and of g_taskCBArray[g_taskMaxNum], which is
\* the current task until the scheduler starts.
TaskID == 0 .. (TskLimit + 1)

MemboxInit == /\ stFreeList = [b \in Block |-> b]
              /\ magic = [b \in Block |-> NoMagic]
              /\ uwBlkCnt = 0
              /\ taken = {}

\* OsMemBoxSetMagic with the task that is current.
LOS_MemboxAlloc(id) ==
  LET b == Head(stFreeList) IN
  /\ stFreeList # <<>>
  /\ stFreeList' = Tail(stFreeList)
  /\ magic' = [magic EXCEPT ![b] = id % IDRange]
  /\ uwBlkCnt' = uwBlkCnt + 1
  /\ taken' = taken \cup {b}

Fault_TaskIDsBelowLimit(b) == magic[b] # NoMagic /\ magic[b] <= TskLimit

\* What OsCheckBoxMem asks of an address that is one of a block.
OsMemBoxCheckMagic(b) == magic[b] # NoMagic /\ magic[b] <= TskLimit + 1

Fault_CountsRefusals(b) ==
  /\ uwBlkCnt > 0 /\ uwBlkCnt' = uwBlkCnt - 1
  /\ stFreeList' = IF OsMemBoxCheckMagic(b) THEN <<b>> \o stFreeList ELSE stFreeList
  /\ magic' = [magic EXCEPT ![b] = NoMagic]
  /\ taken' = taken \ {b}

\* Anything is given back at any time; without the magic it is refused.
LOS_MemboxFree(b) ==
  /\ OsMemBoxCheckMagic(b)
  /\ stFreeList' = <<b>> \o stFreeList
  /\ magic' = [magic EXCEPT ![b] = NoMagic]
  /\ uwBlkCnt' = uwBlkCnt - 1
  /\ taken' = taken \ {b}

MemboxNext == \/ \E id \in TaskID : LOS_MemboxAlloc(id)
              \/ \E b \in Block : LOS_MemboxFree(b)

MemboxSpec == MemboxInit /\ [][MemboxNext]_memboxVars

-----------------------------------------------------------------------------
FreeBlocks == {stFreeList[i] : i \in DOMAIN stFreeList}

\* The blocks that are out are those LOS_MemboxFree accepts, whatever task took
\* them, and those that are not are in the free list, each once, so that a
\* block that is given back twice is refused the second time.
BoxesAgree ==
  /\ \A b \in Block : /\ b \in taken <=> b \notin FreeBlocks
                      /\ b \in taken <=> OsMemBoxCheckMagic(b)
  /\ \A i, j \in DOMAIN stFreeList : stFreeList[i] = stFreeList[j] => i = j

BoxPool == INSTANCE BlockPool WITH Blocks <- Block, avail <- FreeBlocks, count <- uwBlkCnt

\* A memory box is what the mail blocks of a queue take it for, a set of blocks
\* and their number (los_membox.c as a whole).
ImplementsBlockPool == BoxPool!Spec
=============================================================================
