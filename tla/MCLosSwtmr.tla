----------------------------- MODULE MCLosSwtmr -----------------------------
(* An instance of LosSwtmr: a one-shot and a periodic kind of timer.       *)
EXTENDS LosSwtmr

MCKind == {[mode |-> "ONCE", interval |-> 2], [mode |-> "PERIOD", interval |-> 1]}
=============================================================================
