----------------------------- MODULE MCLosLocks -----------------------------
(***************************************************************************)
(* Instances of LosSem, LosMux and LosEvent: an application uses a         *)
(* semaphore, a mutex or an event, chosen at the start, while tasks are    *)
(* suspended, resumed, deleted and given other priorities; and             *)
(* applications that use nothing else.                                     *)
(***************************************************************************)
EXTENDS LosSem, LosMux, LosEvent

VARIABLE part

\* Two kinds of readers.
MCRequests == {[mask |-> {1, 2}, all |-> FALSE, clear |-> FALSE],
              [mask |-> {1, 2}, all |-> TRUE,  clear |-> TRUE]}

NoCreation == \A t \in Task : pc'[t] # "alloc"

\* For a mutex or an event, no task is created after start-up, and for an event
\* no priority is changed.
FixedMuxNext     == LendingNext /\ NoCreation
FixedPriorities  == NoCreation /\ kern'.priority = kern.priority

\* A step of CarefulEventsNext, which leaves NoListService nothing to do.
CarefulEventNext == (EventTaskStep \/ EventService) /\ DestroysUnchecked /\ FixedPriorities

MuxesIdle == /\ basePriority' = kern'.priority
             /\ UNCHANGED <<muxUsed, muxCount, muxOwner, muxPriority, unusedMux, muxPended>>

all == <<part, semAll, muxVars, eventVars>>

\* With an event, task 1, which runs first, is the less urgent one.
Init == /\ part \in {"sem", "mux", "event"}
        /\ TaskInit /\ SemInit /\ MuxInit /\ EventsInit
        /\ part = "event" => kern.priority[1] > kern.priority[2]

Next ==
  /\ UNCHANGED part
  /\ \/ part = "sem"   /\ SemNext          /\ MuxesIdle /\ UNCHANGED eventVars
     \/ part = "mux"   /\ FixedMuxNext     /\ UNCHANGED <<semVars, eventVars>>
     \/ part = "event" /\ CarefulEventNext /\ MuxesIdle /\ UNCHANGED semVars

Spec == Init /\ [][Next]_all

\* Semaphores or mutexes only, the boot tasks being resumed by task 1; and an
\* event that is destroyed at any time.
SemOnly == /\ part = "sem" /\ UNCHANGED <<part, muxVars, eventVars>>
           /\ \/ SemService
              \/ TaskSystem /\ UNCHANGED semVars

SemOnlySpec == part = "sem" /\ Init /\ [][SemOnly]_all

MuxOnly == /\ part = "mux" /\ UNCHANGED <<part, semVars, eventVars>>
           /\ \/ MuxService
              \/ /\ TaskSystem \/ \E t \in Task : LOS_TaskResume("task", t)
                 /\ UNCHANGED muxVars

MuxOnlySpec == part = "mux" /\ Init /\ [][MuxOnly]_all

EventOnly == /\ part = "event" /\ UNCHANGED <<part, semVars>>
             /\ EventsNext /\ FixedPriorities /\ MuxesIdle

EventOnlySpec == part = "event" /\ Init /\ [][EventOnly]_all
=============================================================================
