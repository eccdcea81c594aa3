---------------------------- MODULE LosSortLink ----------------------------
(***************************************************************************)
(* The sort link (los_sortlink.c) with the times of its entries, and the   *)
(* programming of the hardware timer from it (los_sched.c).                *)
(*                                                                         *)
(* All times count from now, in cycles: an entry with time 0 is due, a     *)
(* negative one is late.  Definitions named Fault_... are seeded faults:   *)
(* variants of the definition that follows them, which the runs must tell  *)
(* apart from it.                                                          *)
(***************************************************************************)
EXTENDS Integers, Sequences, SequencesExt

CONSTANTS OS_CYCLE_PER_TICK,
          OS_US_PER_TICK,           \* compared with cycles, los_sortlink.c:114
          OS_TICK_RESPONSE_TIME_MAX, \* what the tick timer can count
          Never                     \* OS_SCHED_MAX_RESPONSE_TIME

ASSUME TickAssumption ==
  /\ OS_CYCLE_PER_TICK \in Nat \ {0} /\ OS_US_PER_TICK \in Nat
  /\ OS_TICK_RESPONSE_TIME_MAX \in Nat /\ OS_TICK_RESPONSE_TIME_MAX >= OS_CYCLE_PER_TICK
  /\ Never \in Nat /\ Never >= OS_TICK_RESPONSE_TIME_MAX + OS_CYCLE_PER_TICK

Entry(n, t) == [node |-> n, time |-> t]

Nodes(link) == {link[i].node : i \in DOMAIN link}

\* At the head if it is not later than the first entry, else behind the last
\* entry that is not later than it.
OsAddNode2SortLink(link, e) ==
  IF link = <<>> \/ Head(link).time >= e.time
  THEN <<e>> \o link
  ELSE LET last == CHOOSE i \in DOMAIN link :
                     /\ link[i].time <= e.time
                     /\ \A j \in DOMAIN link : j > i => link[j].time > e.time IN
       InsertAt(link, last + 1, e)

\* A node whose responseTime is OS_SORT_LINK_INVALID_TIME is in no link.
OsDeleteSortLink(link, n) ==
  IF n \in Nodes(link)
  THEN RemoveAt(link, CHOOSE i \in DOMAIN link : link[i].node = n)
  ELSE link

Fault_WaitsForCompany(link) ==
  LET toCome == {i \in DOMAIN link : link[i].time > 0} IN
  IF toCome = {} THEN Never ELSE link[CHOOSE i \in toCome : \A j \in toCome : i <= j].time

\* The first entry to come; what is due already counts as now, unless another
\* comes so soon that both may be served together.
OsGetSortLinkNextExpireTime(link) ==
  LET due    == {i \in DOMAIN link : link[i].time <= 0}
      toCome == DOMAIN link \ due
      next   == link[CHOOSE i \in toCome : \A j \in toCome : i <= j].time IN
  IF link = <<>> THEN Never
  ELSE IF toCome = {} THEN 0
  ELSE IF due = {} \/ next <= OS_US_PER_TICK THEN next
  ELSE 0

OsGetNextExpireTime(a, b) ==
  LET ta == OsGetSortLinkNextExpireTime(a)
      tb == OsGetSortLinkNextExpireTime(b) IN
  IF ta < tb THEN ta ELSE tb

-----------------------------------------------------------------------------
\* timer.time is g_schedResponseTime, from now; timer.slice says that
\* g_schedResponseID names a task, whose slice ends then, and is not OS_INVALID.
Timer == [time : Int, slice : BOOLEAN]

\* The hardware counts at most OS_TICK_RESPONSE_TIME_MAX and is never set for
\* less than a tick.
Reload(t) == IF t > OS_TICK_RESPONSE_TIME_MAX THEN OS_TICK_RESPONSE_TIME_MAX
             ELSE IF t < OS_CYCLE_PER_TICK THEN OS_CYCLE_PER_TICK
             ELSE t

\* taskEndTime is the end of the running task's slice.  The timer is set again
\* only if it gains a tick and ends up earlier than it was.
OsSchedSetNextExpireTime(timer, next, taskEndTime) ==
  LET isTimeSlice == taskEndTime < next
      t           == IF isTimeSlice THEN taskEndTime ELSE next
      gains       == timer.time > t /\ timer.time - t >= OS_CYCLE_PER_TICK
      tooSoon     == t < OS_CYCLE_PER_TICK /\ Reload(t) >= timer.time IN
  IF gains /\ ~tooSoon THEN [time |-> Reload(t), slice |-> isTimeSlice] ELSE timer
=============================================================================
