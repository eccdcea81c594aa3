# LiteOS-M: a TLA+ model of the kernel

LiteOS-M is a single-core, priority-preemptive kernel for microcontrollers. This
directory models it from the C source: the scheduler, task management and the IPC
objects built on them, with the interrupts that preempt them; software timers and
the hardware timer; both allocators; and, of what is built on the kernel, the
virtual file system and the POSIX message queues. TLC checks the modules on small
instances; TLAPS proves for every instance the invariants of the scheduler and of task
management, that semaphores, mutexes, events, queues and static memory pools implement
their abstract specifications, and the invariants of the virtual file system and of the
POSIX queues.

## 1. The system

| component | source | state | operations |
|---|---|---|---|
| scheduler | `kernel/src/los_sched.c` | running task, ready queues and bitmap, status bits, task lock, time slices | enqueue, dequeue, wait, wake, delay, switch, tick handler |
| sort link | `kernel/src/los_sortlink.c` | tasks (and timers) sorted by the time they are due | insert, delete, next expiry |
| tasks | `kernel/src/los_task.c` | TCB array, free list, recycle list, spare TCB | create, delete, suspend, resume, priority, delay, yield, lock |
| semaphores | `kernel/src/los_sem.c` | count, maximum, wait list, pool | create, delete, pend, post |
| mutexes | `kernel/src/los_mux.c` | owner, nesting, saved priority, wait list, pool | create, delete, pend, post |
| events | `kernel/src/los_event.c` | bits, list of readers | init, destroy, read, write, clear, poll |
| queues, mail | `kernel/src/los_queue.c` | ring, two counters, three wait lists, pool | create, delete, read, write, mail allocation and release |
| software timers | `kernel/src/los_swtmr.c` | pool, sort link, handler queue, timer task | create, delete, start, stop, scan |
| tick, timer | `kernel/src/los_tick.c` | tick count, next response time and who it is for | set next expiry, update, scan |
| static pools | `kernel/src/mm/los_membox.c` | free list, a magic word per block, count | allocate, free |
| dynamic memory | `kernel/src/mm/los_memory.c` | nodes that tile the pool, free lists by size class, bitmap, counts | allocate, align, reallocate, free, free by task |
| VFS | `components/fs/vfs/los_vfs.c` | files, mount points, file systems, two levels of mutexes, reference counts | open, close, read and write, directories, mount, unmount |
| POSIX adapter | `kal/posix` | names and descriptors of message queues, a lazily made mutex; conditions, threads | open, close, unlink, send, receive |
| other | `kal/cmsis`, `kernel/arch`, `components` | context, CPU usage, exceptions, network | |

Components interact by direct calls under `LOS_IntLock`. Every service that
blocks or wakes calls the scheduler's `OsSchedTaskWait`/`OsSchedTaskWake`, so the
scheduler's data (a TCB's status bits, its one `pendList` node, its one sort-link
node) are shared by all of them; a timeout is decided by the tick interrupt and
learnt by the service when its task runs again.

What is hard here: a service is *not* atomic. It changes the kernel's state
under `LOS_IntLock`, restores interrupts, and calls `LOS_Schedule` afterwards; the
switch itself is an exception (PendSV) taken later still. Interrupts may post,
suspend, resume or delete in each of these gaps. A task that was served has not
run yet, and may be suspended, deleted or overtaken before it does. A task may
delete itself, be deleted in the middle of creating another, or time out while
suspended. The services above the kernel have a finer grain still: they hold one
mutex while they look something up, exchange it for another, and call on.

What makes each part correct: the scheduler's lists and the status bits agree,
and the highest priority ready task runs; a TCB is in one pool at a time, and its
stack is not freed under a running task; a semaphore, mutex, event or queue
behaves as its abstract specification says, whatever the interleaving; blocks of
memory do not overlap, no free memory is overlooked, and what was handed out is
accepted back once; what is open in a file system keeps it mounted, and a
descriptor names the queue it was opened for.

## 2. The modules

```
LosSched ── LosTask ──┬─ LosSem   ──implements── Semaphore
                      ├─ LosMux   ──implements── Mutex
                      ├─ LosEvent ──implements── EventFlags
                      └─ LosQueue ──implements── MessageQueue
                            └─ LosMail ─implements─ Semaphore (the pool's blocks)
LosTaskProofs ── LosWaitProofs ──┬─ LosLocksProofs (LosSem, LosMux)
                                 ├─ LosEventProofs
                                 └─ LosQueueProofs (LosQueue, LosMail)

LosSortLink ── LosSwtmr ──implements── TimerService
                  └─ LosSwtmrProofs

LosMemory ──implements── Heap
  └─ LosMemoryProofs
LosMembox ──implements── BlockPool ─┐
LosVfs      (over mutexes as Mutex) ├─ LosServicesProofs
LosMqueue   (over queues, mutexes) ─┘
```

**LosSched** has `los_sched.c` as operators from a kernel record to a kernel
record, as the C helpers are functions on globals called in sequence within one
critical section: `OsSchedTaskEnQueue`, `OsSchedTaskWait`, `OsSchedTaskWake`,
`OsSchedResume`, `OsSchedTaskSwitch`, .... A service composes them into one action.

**LosTask** adds the CPU. Its variables: `kern` (the record), `pc[t]` (where task
`t` is between the critical sections of the service it called), `child[t]` (the TCB
it is creating), `pendSV` (the switch is pending) and `tick` (where the tick
handler is). An operation is enabled for the running task or for an interrupt
("isr"); interrupts run to completion between any two steps. `LOS_Schedule` and
`HalPendSV` are separate actions. `LOS_TaskCreate` is three: taking a TCB,
allocating the stack with interrupts enabled, and enqueueing.

**LosSem, LosMux, LosEvent, LosQueue, LosMail** extend LosTask each, one action per
critical section of each service. LosEvent has a step more: `LOS_EventRead` and
`LOS_EventWrite` test with interrupts enabled whether the event has a list and lock
afterwards, so `EventCheck` is a step of its own, and `checked` says which
event a task, or an interrupt handler, has tested. Between the two anything may run,
for a handler other interrupts only. If the event is destroyed then, the call goes on with a
NULL list: `EventReadNoList` and `EventWriteNoList` are what may come of it.
A blocking call is a `...Wait` action, then
`LOS_Schedule`, then a `...Return` action that reads the result the task finds when
it runs again.

**Semaphore, Mutex, EventFlags, MessageQueue** say what the objects promise,
without a scheduler. Each detailed module instantiates its abstract one per
object with a refinement mapping; `served` there is the set of tasks that have
been handed what they waited for and have not run yet.

**LosSortLink and LosSwtmr** have what the modules above leave out, the times.
LosSortLink is the sort link with the time of each entry, and
`OsSchedSetNextExpireTime`, which programs the one hardware timer for whatever
comes first: an entry or the end of a slice. LosSwtmr adds the software timers and
the tick handler. Of the tasks it keeps only those that wait for a time: a context
switch there is any step that may delay a task and brings any remaining slice.
Its variables are `cb`, `freeList`, `creating` (taken by `LOS_SwtmrCreate`, not
filled in), `handlerQueue`, the two links, `timer` (`g_schedResponseTime` and
whether `g_schedResponseID` names a task), `switching` (`HalTaskSchedule` was
called) and `held`, the IDs the application knows. **TimerService** promises that
what is due expires, in order, never early, at most `Late` cycles late, and is lost
only if the handler queue is full.

**LosMemory** has the pool as one record: the node headers by address, the free
lists by class, the bitmap and `curUsedSize`. The C helpers (`OsMemSplitNode`,
`OsMemMergeNode`, `OsMemFreeNodeAdd`, ...) are operators on it, and an action is a call,
which is one critical section. `held` is what the application has, by the pointer it
got. **Heap** is a set of blocks that do not overlap. **LosMembox** is the free list and
the magic words of a static pool; **BlockPool** is what `LosMail` takes it for.

**LosVfs** has one step per change of mutex, because every call takes `fs_mutex`,
looks up, exchanges it for the mount point's mutex and calls the file system under
that alone. `call[t]` says where task `t` is; the file system below is a call that
succeeds or fails. **LosMqueue** has `mqueue.c` under `g_mqueueMutex`, which
`pthread_mutex_lock` makes at its first use, and the gap between taking a queue's ID
and calling the kernel with it.

The `MC...` modules hold the applications used for model checking, where the
full `Next` is too large. Definitions named `Fault_...` are seeded faults: variants
of the definition that follows them that the runs must tell apart from it.
Nothing else uses them.

### Abstractions

- *Time.* In LosSched the sort link keeps only the order of its entries. An entry is inserted
  anywhere, and any prefix is due at a tick. Of a time slice only "used up or
  not" is kept. So every relation of timeouts to other events is covered, but
  nothing is said of when a timeout comes. LosSwtmr says it: times count from now,
  and `Elapse` is a cycle.
- *Memory.* In LosTask, stack allocation succeeds or fails. Its failure is a choice of the
  action. Stacks and message buffers have no contents but the message.
- *Pools.* The application sees N TCBs; the idle task is TCB 0 and the spare TCB
  (`g_taskCBArray[g_taskMaxNum]`) is N+1. The software timer task is left out.
- *Merged critical sections.* `TaskCreateTake` recycles the finished tasks
  (`OsRecyleFinishedTask`, `los_task.c:692`, which locks for itself) and takes a TCB in one step:
  who comes in between could as well have come before. A task that is being created is
  nobody's target before `LOS_TaskCreate` has enqueued it (`Exists`), although its ID is
  stored at line 725 already: the application uses an ID when the call that gives it has returned.
  So it is with timers: `SwtmrCreateFill` stores the ID and the time of the entry
  in one step (`los_swtmr.c:475-477`). `MutexPend` of LosMqueue reads the handle again where
  `pthread_mutex.c:140` keeps the one it has; the handle changes in the first use only.
- *Parameters.* Calls that fail before they change anything are stuttering steps
  and are left out, unless they change state on the way.

### Assumptions on the environment

- `LOS_ASSERT` is enabled and halts: a step that would violate one is not taken,
  and that none is violated is a property (`AssertionsHold`).
- A task that owns a mutex is not deleted (`los_task.h:693` forbids it).
- For queues and mail, a task that was served and has not run is not deleted
  (`QueueTaskStep`): the node reserved for it would be lost, and the code has no way back.
- Nobody waits for mail under the task lock: `MaxLock` is 0 in the run `queues` (`mail_lock` is
  about what happens otherwise), and `MailNext` says so for the theorems.
- For `OwnPriority` and `LentUntilRelease`, in the run for mutexes and in their theorems,
  the priority of a mutex's owner is not changed by `LOS_TaskPriSet` and an owner does not ask
  for a second mutex: `LendingNext` in LosMux (section 4 says why).
- A pending switch is taken before time passes, and the tick interrupt is taken
  `Latency` cycles after its time at the latest. If the timer is not set again after
  it fired, the hardware may repeat the tick.
- `OS_US_PER_TICK` is at most `OS_CYCLE_PER_TICK`, and no slice has fewer cycles left
  (`SliceAssumption`). `los_sortlink.c:114` compares it with cycles, and the slice that
  is left when a task gets the CPU is more than 50 us (`OS_TIME_SLICE_MIN`): at 1000 ticks
  a second both hold from 20 MHz on. Two of the targets are slower (section 4, 16).
- The application forgets a timer's ID when it deletes the timer (the ID is used
  again at once), and by the time the ID numbers have gone round.
- `LOSCFG_BASE_CORE_SWTMR_ALIGN` and `LOSCFG_BASE_CORE_SCHED_SLEEP` are 0.
- In the run `services` nobody unmounts the mount point a path is being opened in
  (`CarefulVfsNext`; the run `vfs_unmount` does), and the first call that takes
  `g_mqueueMutex` is in progress alone until the mutex is made (`FirstUseAlone`). A POSIX
  queue's descriptor is used and closed by the thread that opened it.
- A pool is not expanded, `LOSCFG_MEM_WATERLINE` and `LOSCFG_MEM_FREE_BY_TASKID` are 1,
  and nobody writes outside the blocks. `curUsedSize` is counted without the header of
  the pool.
- The application does not initialise an event again while tasks wait for it, and
  uses one mail pool per queue.
- Nobody destroys an event between the test of a call and its `LOS_IntLock`: `CarefulEventsSpec`
  of LosEvent, in the run `locks` and in the theorems about events. The run `event_destroy` is
  without it and shows what happens then.

## 3. The runs

All runs but `slices` check safety only, without fairness.

| run | instance | what it asks |
|---|---|---|
| `tasks` | 3 TCBs, 2 priorities, lock depth 1; states that differ in the slice or priority of an unused TCB only count as one (`VIEW`) | do the scheduler's lists, pools and status bits agree; does the highest priority run; is a dead task's stack kept while it runs; no switch under the lock; does a suspension hold |
| `locks` | 2 tasks, 2 priorities; 1 binary semaphore and all of LosTask, or 1 mutex with nesting 2 and no task created after start-up; or 1 event with 2 bits, an OR and an AND-CLEAR reader, and besides no priority changed and no destruction between test and use | is it a Semaphore, a Mutex, an EventFlags; the pools; no stale timeout; a waiter's priority is lent until the release and then given back; no reader is left waiting for bits that are set, or off the list of its event, or with an event that has none |
| `switch_window` | the semaphore, with interrupts | *violated*: the assertion of `los_sched.c:280` |
| `mux_waiters` | 3 tasks, 3 priorities, 1 mutex | *violated*: does the next owner inherit from the tasks still waiting |
| `event_destroy` | the event, destroyed at any time | *violated*: is every reader on its event's list |
| `slices` | 2 tasks of one priority | *violated*: is the CPU shared |
| `queues` | 2 tasks, length 2: equal messages with interrupts, suspension and deletion; two different messages written to both ends; or 2 mail blocks | is it a MessageQueue; counters agree; not deleted in flight; are the blocks a Semaphore's units, each in one place, and is no task served empty-handed |
| `mail_lock` | the mail blocks, with the task lock | *violated*: see section 4 |
| `swtmr` | 2 timers (one-shot of 2 ticks, periodic of 1), each ID used twice, 1 delayed task, 2 cycles per tick, handler queue of 2 | is it a TimerService; the pool and the sort link; is no task later than `LatestService`; are IDs held by the application never given out again |
| `memory` | a heap of 22 words, requests of 2, 5 and 7 words, boundary 4, 2 tasks; or a static pool of 4 blocks for 4 tasks | do nodes, free lists, bitmap and count agree; is every block accepted back; is no free space overlooked; is it a Heap, a BlockPool |
| `services` | 3 tasks; 2 files, a mount point inside another; or 2 names, 2 queues, 3 descriptors | does what is open stay mounted and registered; is a file not closed under its user; do descriptors and messages under way keep their queue |
| `vfs_unmount` | the same, without the precaution | *violated*: is a mount point kept while a call is in it |

A run with an "or" decides at its start which of its instances a behaviour is
(`part`), since they share nothing but the scheduler.

Several properties one would expect follow from the refinements and are not checked
again: no wake-up, message or mail block is lost because `served` of the abstract
specification would grow and a unit would not be there; counts are within bounds;
nobody waits for a mutex he owns.

Why these bounds are enough to be of interest: two tasks and interrupts make a
waiter and a server that preempt each other; a third task makes an order of
waiters and a medium priority; three TCBs and one booted task exercise creation by
a creator that is itself deleted, with the pool running empty. Two priorities
separate "wakes a higher task" from "wakes an equal"; three are needed for
inheritance between waiters. Length 2 lets the ring wrap. MaxLock bounds the nesting of
`LOS_TaskLock`, MaxNest that of a mutex, MaxCount the semaphore; the code's own
bounds are larger, and the code treats nesting beyond 1 alike.

In `memory` small blocks have exact classes up to 7 words and larger ones two
classes for each power of two, so that the requests fall below, at and above the
boundary and a class holds nodes that are too small for a request of that class;
22 words hold up to four blocks, so that a free node has neighbours of every kind.
The magic's limit is reached with TskLimit = 2. In `services` three tasks are one more
than the two that race, and MaxRefs bounds what failing closes leave in `m_refs`.

In `swtmr` a tick of two cycles lets entries come due off the timer's beat, and a
slice of three ends between two ticks. The bound `LatestService`, two ticks less a
cycle at no latency, is exact: TLC violates any smaller one. The mode
`NO_SELFDELETE` and other intervals are in the module and not in this instance.

*Fairness.* Only `SliceSpec` states any: weak fairness of the running task's own
steps and of the pending switch (the CPU executes them), and that a task which
keeps the CPU uses up its slice (the hardware timer runs). The code's scheduling
justifies no more; a waiting task need not be served.

## 4. Disagreements found

Six are runs that TLC must find violated; PROJECT.json quotes the lines they
disagree with.

1. `switch_window`: between the wait and the `LOS_Schedule` of `LOS_SemPend`, an
   interrupt's post makes the running task READY; the switch enqueues it again.
2. `mux_waiters`: after a hand-over the new owner does not inherit the priority of
   the waiters left behind.
3. `slices`: the end of a slice does not reschedule, so equals do not rotate.
4. `mail_lock`: `OsQueueMailAlloc` ignores the task lock and returns NULL while the
   task stays on the wait list.
5. `vfs_unmount`: `los_open`, `los_opendir` and `los_mkdir` give `fs_mutex` back before the
   mount point's reference is counted, and `los_fs_unmount` frees it under them.
6. `event_destroy`: `LOS_EventRead` tests whether the event is initialised
   (`los_event.c:80`, called at 103) before it takes `LOS_IntLock` (111). If an interrupt or
   a preempting task destroys the event in between, the task is put on a list that is NULL:
   it faults, or waits where no write finds it, instead of returning
   `LOS_ERRNO_EVENT_NOT_INITIALIZED`. `LOS_EventWrite` (154, 160) then walks the NULL list.

More were met on the way, which no run is about. The run `locks` excludes the first
two by its application and does not ask the third:

7. `muxPriority` is the priority at the pend; with two mutexes released in another
   order than acquired, a task keeps a lent priority.
8. `LOS_TaskPriSet` while a mutex is held is undone by the post.
9. A post that only lowers the owner's priority does not reschedule, and a lower
   priority goes on running.
10. When `LOS_MemRealloc` grows a block in place, what is counted into `curUsedSize` is
   `sizeAndFlag` with the used flag set (`los_memory.c:1348`), so that it is no longer the
   "current usage size" (`los_memory.c:151`). `UsedSizeIsCurrent` in LosMemory is false;
   `UsedSizeAgrees`, which the run `memory` checks, is the part that holds.
11. `LOS_MemRealloc` of an aligned block goes on from the node, not from the pointer,
   and drops the gap: the caller's data is not where the new pointer says
   (`DataIsKept` in LosMemory is false).
12. Two threads in their first `pthread_mutex_lock` of a static mutex make a kernel
   mutex each, and the second replaces the first, which may be held
   (`pthread_mutex.c:134`; `MutexExcludes` in LosMqueue is false without `FirstUseAlone`).
13. A close that the file system refuses gives up the file but leaves `m_refs`: the
   mount point can never be unmounted. A `mq_open` without memory for the name
   leaves the kernel's queue in use.
14. An expiry that finds the handler queue full is dropped, and one that is in the
   queue is carried out after its timer has been stopped or deleted.
15. `OsNewTaskInit` failing in `LOS_TaskCreateOnly` gives back neither the TCB nor the
   stack, and a creator deleted in the middle of a creation leaves the TCB it took
   (`los_task.c:720`, `:751`).
16. `los_sortlink.c:114` compares cycles with `OS_US_PER_TICK`, microseconds. What is due may
   wait for that many cycles: more than a tick if the clock is below 1 MHz (32768 Hz in
   `riscv_nuclei_demo_soc_gcc`). Below 20 MHz (`riscv_sifive_fe310_gcc` has 10) the end of
   a slice may come before the entry that is waited for, the timer is set again, and each
   time a task is a tick later: `TasksNotTooLate` is false without `SliceAssumption` (with
   `Slice = {1}` in MCLosSwtmr.cfg TLC finds the execution).

## 5. What is proved

`LosTaskProofs` proves in its first part for every operator of LosSched that it preserves
the kernel invariant `KInv` (types; ready queues without duplicates that hold exactly
the READY tasks at their priority; the bitmap names the non-empty ones; statuses
that exclude each other). Its second part proves that `TaskInv` is inductive
for `TaskSpec`: `KInv`, what the running task may be (`RunsOK`), and the life of a
TCB (`Life`: which of the free pool, the recycle list, a creator's hands and use
it is in, and what `pc` and status go with each). The strengthening is needed
because the invariants of the runs do not say why, for example, a TCB taken from the
free list by a preempted creator is in no ready queue when it is enqueued.
There is one step per action, and under it one per part an action disturbs.

`LosWaitProofs` adds what TaskInv leaves out of a TCB: the sort link, the wait lists and
the flags. `WaitInv`, inductive with TaskInv, has three parts. `ListsOK` says which flags
a TCB may have together, and that they put it in the sort link and in one wait list, and
in nothing else. `Leaving` says that a task which blocked while it ran is on the way to a
switch, with the tasks not locked: without it a service could be entered by a task that is
already on a list. `Places` ties the flags to the place in a service: PEND and
TIMEOUT occur in a blocking call only, and what a creator has in its hands is suspended.
`Preempts` is HighestRuns with the moments in which a higher task may be ready and not
running. It is apart because it is not an invariant of LosMux: a post that only lowers its
owner's priority does not reschedule (section 4, 9). `TaskStepOK` collects what every step
of task management keeps; its `Waits` is what the modules of the objects need to know of
such a step: one task at most stops waiting, and does so because its time is over or
because it is deleted.

The proofs about the four objects use that and the last section of LosWaitProofs, which
proves once what a blocking call does to the kernel (`WaitStep`), what its return does
(`ReturnStep`), a post that wakes (`WakeStep`) and a change of priority (`RepriceStep`).
What is left is the object. `SemInv` says that a semaphore with units has no waiters, that
an unused one has none either, and which call a task on a wait list is in, so that the
abstract `served` (neither PEND nor TIMEOUT, and not returned) changes only where it should.
`MuxInv` adds who the owner is: a mutex is handed over before its new owner runs, so that
a task which was served, and has not looked at TIMEOUT yet, must be the owner. The
refinements are then shown step by step: `SemStepOK` and `MuxStepOK` say that a step keeps
the invariants and is a step or a stutter of the abstract object, for each object at once.

The last part of `LosLocksProofs` is about priorities, under `LendingSpec`. That a task without
a mutex has its own priority (`OwnPriority`) is kept by a post only if what the mutex saved
was the owner's own. `PriorityInv` says so, and why: a waiter owns no mutex, so that whoever a
mutex is handed to had its own priority when it asked, and owns no other. Without `LendingNext`
each of the two fails, in the ways section 4 lists. `LentPriorityIsKept` is the action property
that goes with it, proved from the same invariant, with a case for each way in which a task
comes onto the list or the owner's priority changes.

`LosEventProofs` has to say what one `LOS_EventWrite` does, which walks the list of readers and
takes off it those it wakes. The walk (`WakeEach`) is a recursive function on the
positions of the list; what it does after any number of readers is shown without an
induction principle, by the least position at which it would fail. `EventInv` then has one
line that matters: whoever is on an event's list polled in vain (`Polled(...) = {}`). It is what
makes a write right that tests the OR readers against the *new* bits only (`los_event.c:169`),
because none of the old ones can be among those such a reader asks for. An AND
reader is tested against all. The theorems are of `CarefulEventsSpec`. `CheckedInv` is what it is
for: an event that a call has tested is still initialised when the call locks
interrupts, so that no call comes to a NULL list (`InsideInitialised`). Without it
`ReadersAreListed`, and with it the agreement of lists and flags, is false, as the run
`event_destroy` shows; what else remains true then is neither proved nor checked.

`LosQueueProofs` starts with one ring: `Messages(cb, n)` reads n messages from the head on
around the end, and `RingOperates` says that the copying at the head, or at either end for a
write, does to that sequence what it should, and that the positions wrap once. `QueueInv` ties
each ring to its counts. A task that was woken for a message or a place has it *promised*: the
post that woke it counted nothing. So a queue in use holds as many messages as are counted or promised
(`Held`), the counts and both kinds of promises add up to its length, and nobody waits for what
is counted. From that a reader that was woken finds a message although others read before it
came to run, and the refinement's `served` changes with the lists. The step that is hard is the
operation of a task that was woken, which wakes another in its turn, on the other list.
`QueueSpec` deletes nobody who was served (`QueueTaskStep`), as section 2 says: a promise to the
dead is never kept, and the sum would be wrong from then on.

Its last section is about mail blocks. `MailInv` says that a task on a `memList` is in an allocation
from that queue's pool, that a task has a block (`msg`) exactly when it was woken in such an
allocation (`Given`), and that its block is neither in the pool nor another's. The block is taken out of the pool
by `OsQueueMailFree` after the wake-up and before the task runs, so that `Given` may
grow only in that one step: a timeout sets TIMEOUT, a deletion ends the allocation, and what
the queue does to its other two lists (`QueuesStand`) leaves `memList` alone. What a wake-up, a wait
and a return after a timeout do to the kernel comes from LosWaitProofs (`FirstWakes`,
`CallerWaits`, `TimedOutReturns`). `MailSpec` is the whole of LosQueue with the mail calls, but nobody waits for
a block while tasks are locked (`MailNext`): `OsQueueMailAlloc` would return without a block
and leave the task on the list (section 4, 4), and nobody is deleted who was given a block and has
not fetched it (`MailTaskStep`).

`LosSwtmrProofs` proves everything the run `swtmr` checks. `SwtmrInv` has four parts.
`Parts` is `SwtmrPoolAgrees` with the types, and that an ID says which control block it is of; with
`HeldOK` it is what the operations need. `LinkOK` says that a link is sorted and holds a
node once. `TimerInv` is why nobody is served too late, and is not local to any
operation: while the timer runs it is set at most `Slack` after every entry of
both links (a cycle less than a tick if it stands for the end of a slice; else two ticks less
a cycle, and the latency), and it is off only if nothing is linked or a switch is about
to set it. `TimerIsSet` is the lemma that carries it: whatever
`OsSchedSetNextExpireTime` does, returns without doing anything included, the invariant
holds for the entries linked by then. It needs `SliceAssumption`, and nothing else does.
The scan deletes and inserts in the link it walks: `Expired` says what it has done after
the first n of the entries due, `OneMoreExpired` that one more expiry does the next, and the
least n that fails leads to a contradiction, as in LosEventProofs. For the
refinement, `LeftBy` is the mapping as an operator of the control blocks and a link, so
that it can be compared before and after a step, and `EntriesAreLeft` says that it times
exactly the entries of the link, each ID once.

`LosMemoryProofs` proves everything the run `memory` checks of the heap. `HeapInv` says that the
nodes tile the pool (`Tiles`), that each free node is once in the list of its class and
the bitmap names the lists that are not empty (`Lists`), that no two free nodes touch
(`AltAway`), and that each block lies in a used node of its own, with its gap (`HeldInv`).
The last is what HeapAgrees lacks to be inductive: a free of a block is right only if its node
is used and nobody else's. Inside a call the pool is not in order. The middle of each is a pool with
one node that is free, in no list, and may lie beside another free node (`Open`), and the
lemmas say how the helpers of the C code lead there and back: `GiveUp`, `MergeNode`, `JoinNext`,
`SplitNode`, `CloseFree`, `SetUsedGood`. `Keeps(N, M, S)` says which used nodes they leave alone,
so that the refinement needs nothing but the one node a call is about. That the search
overlooks nothing rests on the classes being monotone in the size (`ClassGrows`), which is
shown from the least and the greatest of sets of numbers, powers of two and remainders.
`walk` in LOS_MemFreeByTaskID and `UsedWords` are recursive functions on the words of the
pool, and what they are is shown by the least word at which it would fail. curUsedSize is
congruent to the words in use modulo the used flag (`CountOK`); each operation counts
exactly what it changes at its one node, up to multiples of the flag (`Recounted`).

Of LosMembox, `LosServicesProofs` proves that a static pool of any size implements BlockPool. Its
invariant `BoxInv` is `BoxesAgree` with the types; the magic's type is what says that
the ID `LOS_MemboxAlloc` writes passes the test of `LOS_MemboxFree`, because the low
byte of an ID up to TskLimit + 1 is not larger (`LowByte`). `AllocTakes` and `FreePuts`
say what the two calls do to the free list as a set.

Of LosMqueue it adds to `DescriptorsKeepTheirQueue` why a message under way finds its
queue: the thread that carries it has a descriptor of the queue open, which only that
thread can close, and not while it is in the call (`SendersHaveDescriptor`). What is done
under `g_mqueueMutex` is one step of LosMqueue, so the theorem takes mutual exclusion for
granted; it fails in the first use alone (section 4).

Of LosVfs it has counts and mutexes in one invariant, because neither is right without
the other: `m_refs` keeps a mount point that is in use from being freed, so that the mutex
there is still the one the task holds, and the mutexes keep a file from being closed
under its user, so that `m_refs` counts what is open. `CallOK(t)` says what each place in
a call relies on; `Bystander` that a step of one task leaves it to the others;
`CallStep` and `AdminStep` reduce each operation to what it changes. The theorems are of
`CarefulVfsSpec`, which `los_fs_unmount` needs in three places only: where a path has been
found and is not counted yet (`Arriving`).

| theorem | says |
|---|---|
| `TaskInvariant` | `TaskSpec => []TaskInv` |
| `TaskTypes` | `TaskSpec => []TaskTypeOK` |
| `ReadyQueuesAlwaysAgree` | `TaskSpec => []ReadyQueuesAgree` |
| `PoolsAlwaysAgree` | `TaskSpec => []PoolsAgree` |
| `SortLinkAlwaysAgrees` | `TaskSpec => []SortLinkAgrees` |
| `StatusesAlwaysAgree` | `TaskSpec => []StatusesAgree` |
| `HighestAlwaysRuns` | `TaskSpec => []HighestRuns` |
| `FinishedStackAlwaysKept` | `TaskSpec => []FinishedStackKept` |
| `LockHoldsCPU` | `TaskSpec => NoSwitchUnderLock` |
| `SuspensionAlwaysHolds` | `TaskSpec => SuspensionHolds` |
| `SemWaitListsAgree` | `SemSpec => []WaitListsAgree` |
| `SemNoStaleTimeout` | `SemSpec => []NoStaleTimeout` |
| `SemHighestRuns` | `SemSpec => []HighestRuns` |
| `SemPoolAlwaysAgrees` | `SemSpec => []SemPoolAgrees` |
| `SemaphoresImplemented` | `SemSpec => ImplementsSemaphore` |
| `MuxWaitListsAgree` | `MuxSpec => []WaitListsAgree` |
| `MuxNoStaleTimeout` | `MuxSpec => []NoStaleTimeout` |
| `MuxPoolAlwaysAgrees` | `MuxSpec => []MuxPoolAgrees` |
| `MutexesImplemented` | `MuxSpec => ImplementsMutex` |
| `OwnersGetTheirPriorityBack` | `LendingSpec => []OwnPriority` |
| `LentPriorityIsKept` | `LendingSpec => LentUntilRelease` |
| `EventWaitListsAgree` | `CarefulEventsSpec => []WaitListsAgree` |
| `EventNoStaleTimeout` | `CarefulEventsSpec => []NoStaleTimeout` |
| `EventHighestRuns` | `CarefulEventsSpec => []HighestRuns` |
| `ReadersAlwaysListed` | `CarefulEventsSpec => []ReadersAreListed` |
| `NoEventIsLost` | `CarefulEventsSpec => []NoLostEvent` |
| `EventsAreImplemented` | `CarefulEventsSpec => ImplementsEventFlags` |
| `QueueWaitListsAgree` | `QueueSpec => []WaitListsAgree` |
| `QueueNoStaleTimeout` | `QueueSpec => []NoStaleTimeout` |
| `QueueHighestRuns` | `QueueSpec => []HighestRuns` |
| `QueueCountsAlwaysAgree` | `QueueSpec => []CountsAgree` |
| `QueueNeverDeletedInFlight` | `QueueSpec => NotDeletedInFlight` |
| `QueuesAreImplemented` | `QueueSpec => ImplementsMessageQueue` |
| `MailAlwaysInOnePlace` | `MailSpec => []MailInOnePlace` |
| `PoolsAreImplemented` | `MailSpec => PoolImplementsSemaphore` |
| `MailIsGranted` | `MailSpec => MailGranted` |
| `SwtmrInvariant` | `Spec => []SwtmrInv` |
| `PoolAgreesAlways` | `Spec => []SwtmrPoolAgrees` |
| `HandlesStayFresh` | `Spec => []HandlesAreFresh` |
| `TasksAreServedInTime` | `Spec => []TasksNotTooLate` |
| `SwtmrImplementsTimerService` | `Spec => ImplementsTimerService` |
| `HeapInvariant` | `MemorySpec => []HeapInv` |
| `HeapAgreesAlways` | `MemorySpec => []HeapAgrees` |
| `BlocksAlwaysAccepted` | `MemorySpec => []BlocksAreAccepted` |
| `NoSpaceIsOverlooked` | `MemorySpec => []NoSpaceOverlooked` |
| `UsedSizeAlwaysAgrees` | `MemorySpec => []UsedSizeAgrees` |
| `HeapImplementsHeap` | `MemorySpec => ImplementsHeap` |
| `BoxInvariant` | `MemboxSpec => []BoxInv` |
| `BoxesAlwaysAgree` | `MemboxSpec => []BoxesAgree` |
| `PoolRefined` | `MemboxSpec => ImplementsBlockPool` |
| `MqueueInvariant` | `MqueueSpec => []MqueueInv` |
| `DescriptorsAlwaysKeepTheirQueue` | `MqueueSpec => []DescriptorsKeepTheirQueue` |
| `VfsInvariant` | `CarefulVfsSpec => []VfsInv` |
| `OpenAlwaysKeepsMounted` | `CarefulVfsSpec => []OpenKeepsMounted` |
| `MountAlwaysStays` | `CarefulVfsSpec => []MountStays` |
| `FilesAlwaysStayOpen` | `CarefulVfsSpec => FileStaysOpen` |

Those of `TaskSpec` hold for any number of TCBs, any set of priorities and any lock
depth, from `NAssumption`, `PrioAssumption`, `BootAssumption` and `MaxLockAssumption`;
those of the objects also for any finite sets of semaphores, mutexes, events and queues, any
maxima, lengths, messages and requests, from the assumptions at the heads of their modules. One
in each says that what stands for no object is none of them (`NoSemAssumption`,
`NoMuxAssumption`, `NoEventAssumption`, `NoQueueAssumption`, `NoMailAssumption`). A mail pool has a block at
least (`MailAssumption`), since `LOS_MemboxInit` refuses one without (`los_membox.c:139`). `MuxSpec` is narrower than
the code as section 2 says: no mutex owner is deleted; `LendingSpec` is narrower again, and so is
`QueueSpec` by its `QueueTaskStep`. `CarefulEventsSpec` is that of LosEvent: nobody destroys an event
that a call has tested and is about to use. `Spec` in the table is that of LosSwtmr; its
theorems hold for any number of timers and
of waiting tasks, any intervals, delays, slices and latency, and any length of the tick, from
`TickAssumption`, `SwtmrAssumption` and `SliceAssumption`. HighestRuns is proved for TaskSpec and with semaphores,
events and queues, and is false for MuxSpec. Those of the heap hold for
any pool, base address, used flag, requests, boundaries, owners and division into classes, from
`PoolAssumption`, `ClassAssumption` (the small classes end at a power of two, as the code's
do at 128) and `RequestAssumption` (sizes are below 2^30, as in the code, which keeps flags in the
bits above and refuses sizes that have them). The three about boxes hold for
any number of blocks and any task limit, from `MemboxAssumption`; the others for any number
of threads, names, queues and descriptors (`MqueueAssumption`: Nil is not a name), and any
tasks, files, mount points and paths (`VfsAssumption`: the first three are finite sets, and
paths are sequences).

Otherwise only model-checked is liveness (`SlicesRotate`), a temporal property under fairness and out of
the prover's reach.

## 6. Not modelled, and the plan

In order:

1. POSIX conditions, whose broadcast may find that a waiter has counted itself and
   does not wait for the event yet; POSIX threads and timers.
2. The aligned software timers, the sleep mode of the scheduler, and heaps that are
   expanded (`LOS_MemExpandEnable`).

Left out for good: the assembly of the ports and the hardware stack protection;
FatFs, lwIP and the bounds-checking library (third-party); CPU usage, backtrace and
exception reports (statistics and printing); ramfs and the file systems' own data
(behind the VFS, a call that succeeds or fails); `LOS_MemboxClr`, the integrity check
and the statistics of the allocators (they change no state of a pool); the CMSIS
adapter (no state of its own); `LOS_KernelInit` (sequential; its result is the initial state).
