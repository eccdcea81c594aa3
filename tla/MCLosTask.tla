----------------------------- MODULE MCLosTask -----------------------------
(* LosTask on three TCBs and two priorities; no IPC object.                *)
EXTENDS LosTask

\* The slice and the priority of a TCB that is not in use are never read:
\* OsNewTaskInit sets both.
LiveKern ==
  LET Left(t) == Has(kern, t, "UNUSED") /\ kern.run # t IN
  [kern EXCEPT !.slice    = [t \in Task |-> kern.slice[t] /\ ~Left(t)],
               !.priority = [t \in Task |-> IF Left(t) THEN 0 ELSE kern.priority[t]]]

LiveState == <<LiveKern, pc, child, pendSV, tick>>
=============================================================================
