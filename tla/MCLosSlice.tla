----------------------------- MODULE MCLosSlice -----------------------------
(***************************************************************************)
(* Two tasks of equal priority that only compute: task 1 resumes task 2,   *)
(* and from then on nothing happens but ticks and context switches.  No    *)
(* task waits for a time, so the timer is always set for the end of the    *)
(* running task's slice.  The run asks whether time slices share the CPU.  *)
(***************************************************************************)
EXTENDS LosTask

Compute == \/ LOS_TaskResume("task", 2)
           \/ LOS_Schedule \/ HalPendSV
           \/ TickSliceEnd

SliceUsedUp(t) == TickSliceEnd /\ kern.run = t /\ ~kern'.slice[t]

\* The CPU executes the running task's code and takes a pended switch, and a
\* task that keeps the CPU uses its slice up.
Fairness == /\ WF_taskVars(LOS_TaskResume("task", 2))
            /\ WF_taskVars(LOS_Schedule)
            /\ WF_taskVars(HalPendSV)
            /\ \A t \in Task : WF_taskVars(SliceUsedUp(t))

SliceSpec == TaskInit /\ [][Compute]_taskVars /\ Fairness

\* Round robin among equals, as documented: a ready task of the running task's
\* priority gets the CPU once slices run out (LOS_SchedTickHandler and the
\* tail insertion of OsSchedTaskEnQueue).
SlicesRotate ==
  \A t \in Task :
    (kern.run \in Task /\ Has(kern, t, "READY") /\ kern.priority[t] = kern.priority[kern.run])
      ~> kern.run = t
=============================================================================
