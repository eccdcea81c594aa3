---------------------------- MODULE TimerService ----------------------------
(***************************************************************************)
(* What software timers promise, without lists or hardware: a running      *)
(* timer expires when its time has come and at most Late cycles after, the *)
(* timers that are due expire in the order of their times, and an expiry   *)
(* is lost only if Room others wait to be handled.                         *)
(***************************************************************************)
EXTENDS Integers, Sequences, Functions

CONSTANTS Times,       \* the times timers are started for, in cycles
          Late, Room

VARIABLES left,        \* the time each running timer has left
          expired      \* expiries to be handled, first come first

vars == <<left, expired>>

Init == left = <<>> /\ expired = <<>>

Start(n) == /\ \E t \in Times : left' = [m \in DOMAIN left \cup {n} |->
                                           IF m = n THEN t ELSE left[m]]
            /\ UNCHANGED expired

Stop(n) == /\ n \in DOMAIN left
           /\ left' = [m \in DOMAIN left \ {n} |-> left[m]]
           /\ UNCHANGED expired

InTurn(s) == \A i, j \in DOMAIN s : i < j => s[i] # s[j] /\ left[s[i]] <= left[s[j]]

\* Everything due expires; a periodic timer starts again.
Expire ==
  LET due  == {n \in DOMAIN left : left[n] <= 0}
      came == SubSeq(expired', Len(expired) + 1, Len(expired')) IN
  /\ due # {}
  /\ Len(expired') \in Len(expired)..Room
  /\ SubSeq(expired', 1, Len(expired)) = expired
  /\ Range(came) \subseteq due /\ InTurn(came)
  /\ Range(came) = due \/ Len(expired') = Room
  /\ DOMAIN left \ due \subseteq DOMAIN left' /\ DOMAIN left' \subseteq DOMAIN left
  /\ \A n \in DOMAIN left' : IF n \in due THEN left'[n] \in Times ELSE left'[n] = left[n]

Handle == expired # <<>> /\ expired' = Tail(expired) /\ UNCHANGED left

Elapse == /\ \A n \in DOMAIN left : left[n] > -Late
          /\ left' = [n \in DOMAIN left |-> left[n] - 1]
          /\ UNCHANGED expired

Next == Expire \/ Handle \/ Elapse \/ \E n \in DOMAIN left \cup DOMAIN left' : Start(n) \/ Stop(n)

Spec == Init /\ [][Next]_vars
=============================================================================
