------------------------------- MODULE Latch -------------------------------
(***************************************************************************)
(* llrt_utils::latch::Latch: an atomic counter and a tokio Notify.  A      *)
(* latch is a record of its count and of the tasks whose Notified future   *)
(* exists and has not been notified.  notify_waiters() reaches exactly     *)
(* those: it leaves no permit behind for a Notified created later.         *)
(*                                                                         *)
(* Latch::decrement and Latch::wait are two steps each for a task on       *)
(* another thread: the atomic operation, and then the one on the Notify.   *)
(***************************************************************************)
EXTENDS Naturals

Default == [count |-> 0, waiters |-> {}]

increment(latch) == [latch EXCEPT !.count = @ + 1]

NotifiesFault(latch) == latch.count > 0

\* The test of decrement() on the count before the subtraction.
Notifies(latch) == latch.count = 1

fetch_sub(latch) == [latch EXCEPT !.count = @ - 1]

notify_waiters(latch) == [latch EXCEPT !.waiters = {}]

\* decrement() where nothing comes between its two steps.
decrement(latch) ==
  IF Notifies(latch) THEN notify_waiters(fetch_sub(latch))
                     ELSE fetch_sub(latch)

\* The test of wait().
MustWait(latch) == latch.count > 0

notified(latch, task) == [latch EXCEPT !.waiters = @ \cup {task}]

\* wait() where nothing comes between its two steps: the task goes on at once
\* or becomes a waiter.
wait(latch, task) ==
  IF MustWait(latch) THEN notified(latch, task) ELSE latch

Released(latch, task) == task \notin latch.waiters
=============================================================================
