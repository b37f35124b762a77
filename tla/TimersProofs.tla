---------------------------- MODULE TimersProofs ----------------------------
(* Proofs about Timers: no timer is left without a loop that will look at  *)
(* it, whatever the timers, the nesting of polls and the number of loops.  *)
EXTENDS Timers, FiniteSetTheorems, WellFoundedInduction, TLAPS

(* The types that the argument needs.                                      *)
Types ==
  /\ now \in 0 .. MaxTime
  /\ timers \subseteq Ids
  /\ timeout \in [Ids -> Timeouts]
  /\ running \in BOOLEAN
  /\ deadline \in Int
  /\ permits \in Nat
  /\ loops \subseteq Ids
  /\ sleep \in [Ids -> Int]
  /\ issued \in 0 .. MaxTimers

(* No loop sleeps beyond FAR_FUTURE and no deadline reaches it.            *)
Bounded ==
  /\ \A l \in loops : sleep[l] <= now + FarFuture
  /\ \A i \in timers : MaxTime + timeout[i].interval <= FarFuture
  /\ \A i \in timers : timeout[i].deadline <= FarFuture

(* set_timeout_interval stays silent when the new deadline is not before   *)
(* state.deadline: a loop wakes up by then anyway.                         *)
DeadlineCovered ==
  running /\ permits = 0 =>
    \E l \in loops : sleep[l] <= deadline + MinSleep

(* Without timers state.deadline is out of the way.                        *)
RestDeadline ==
  timers = {} => deadline >= FarFuture /\ \A l \in loops : sleep[l] <= deadline

Inv ==
  /\ Types
  /\ Bounded
  /\ RunningMeansLoop
  /\ NoLostWakeup
  /\ DeadlineCovered
  /\ RestDeadline

----------------------------------------------------------------------------
(* Every set of natural numbers that is not empty has a least element, and *)
(* Min names it.                                                           *)
LEMMA MinOfNaturals ==
  ASSUME NEW S, S \subseteq Nat, S # {}
  PROVE  Min(S) \in S /\ \A y \in S : Min(S) <= y
<1> DEFINE Less == {ss \in Nat \X Nat : ss[1] < ss[2]}
<1>1. IsWellFoundedOn(Less, Nat)
  BY NatLessThanWellFounded, Zenon DEF OpToRel
<1> HIDE DEF Less
<1>2. PICK x \in S : \A y \in S : ~(<<y, x>> \in Less)
  BY <1>1, WFMin, Zenon
<1>3. ASSUME NEW y \in S PROVE x <= y
  <2>1. x \in Nat /\ y \in Nat
    OBVIOUS
  <2>2. y < x => <<y, x>> \in Less
    BY <2>1 DEF Less
  <2> QED
    BY <1>2, <2>1, <2>2
<1> QED
  BY <1>3, Zenon DEF Min

(* A notification that is added is there.                                  *)
LEMMA CappedPositive ==
  ASSUME NEW n \in Nat, NEW W \in SUBSET Ids
  PROVE  /\ Capped(n, W) \in Nat
         /\ n > 0 => Capped(n, W) > 0
<1>1. IsFiniteSet(Ids)
  BY BoundsAssumption, FS_Interval DEF Ids
<1>2. Cardinality(W) \in Nat
  BY <1>1, FS_Subset, FS_CardinalityType
<1> DEFINE S == {n, Cardinality(W) + 1}
<1>3. Min(S) \in S
  BY <1>2, MinOfNaturals
<1> QED
  BY <1>2, <1>3 DEF Capped

(* What a poll does to the timers that stay: they are due now or later,    *)
(* and never earlier than before.                                          *)
LEMMA KeptTimers ==
  ASSUME Types
  PROVE  /\ Kept \subseteq timers
         /\ Rescheduled \in [Ids -> Timeouts]
         /\ Retained \in [Ids -> Timeouts]
         /\ \A i \in Kept :
              /\ Retained[i] = Rescheduled[i]
              /\ Rescheduled[i].deadline >= now
              /\ Rescheduled[i].deadline >= timeout[i].deadline
              /\ Rescheduled[i].interval = timeout[i].interval
              /\ Rescheduled[i].deadline
                   \in {timeout[i].deadline, now + timeout[i].interval}
<1> USE DEF Types, Expired, Due, Again, Kept
<1>1. Kept \subseteq timers
  OBVIOUS
<1>2. ASSUME NEW i \in Ids PROVE Rescheduled[i] \in Timeouts
  <2>1. timeout[i] \in Timeouts
    OBVIOUS
  <2> QED
    BY <2>1, BoundsAssumption DEF Rescheduled, Timeouts
<1>3. Rescheduled \in [Ids -> Timeouts]
  BY <1>2 DEF Rescheduled
<1>4. NoTimeout \in Timeouts
  BY DEF NoTimeout, Timeout, Timeouts
<1>5. Retained \in [Ids -> Timeouts]
  BY <1>3, <1>4 DEF Retained
<1>6. ASSUME NEW i \in Kept
      PROVE  /\ Retained[i] = Rescheduled[i]
             /\ Rescheduled[i].deadline >= now
             /\ Rescheduled[i].deadline >= timeout[i].deadline
             /\ Rescheduled[i].interval = timeout[i].interval
             /\ Rescheduled[i].deadline
                  \in {timeout[i].deadline, now + timeout[i].interval}
  <2>1. /\ i \in Ids /\ timeout[i] \in Timeouts
        /\ timeout[i].deadline \in Int /\ timeout[i].interval \in Nat
        /\ now \in Int
    BY DEF Timeouts
  <2>2. Retained[i] = Rescheduled[i]
    BY <2>1 DEF Retained
  <2>3. CASE i \in Again
    <3>1. /\ Rescheduled[i].deadline = now + timeout[i].interval
          /\ Rescheduled[i].interval = timeout[i].interval
      BY <2>1, <2>3 DEF Rescheduled, Timeouts
    <3>2. timeout[i].deadline < now
      BY <2>3
    <3> QED
      BY <2>1, <2>2, <3>1, <3>2
  <2>4. CASE i \notin Again
    <3>1. Rescheduled[i] = timeout[i]
      BY <2>1, <2>4 DEF Rescheduled
    <3>2. ~(timeout[i].deadline < now)
      BY <2>4
    <3> QED
      BY <2>1, <2>2, <3>1, <3>2
  <2> QED
    BY <2>3, <2>4
<1> QED
  BY <1>1, <1>3, <1>5, <1>6

(* The instant that a poll sleeps until comes no later than MIN_SLEEP      *)
(* after any deadline, and not before the first of them.                   *)
LEMMA LowestCovers ==
  ASSUME Types
  PROVE  /\ Lowest \in Int
         /\ Lowest <= now + FarFuture
         /\ \A i \in Kept : Lowest <= Rescheduled[i].deadline + MinSleep
         /\ \/ Lowest >= now + FarFuture
            \/ \E i \in Kept : Rescheduled[i].deadline <= Lowest
         /\ Kept = {} => Lowest = now + FarFuture
<1> DEFINE S == {Rescheduled[i].deadline : i \in Kept} \cup {now + FarFuture}
           next == Min(S)
<1>1. now \in Nat /\ now + FarFuture \in Nat /\ MinSleep \in Nat /\ FarFuture \in Nat
  BY SleepAssumption, BoundsAssumption DEF Types
<1>2. \A i \in Kept : Rescheduled[i].deadline \in Nat /\ Rescheduled[i].deadline >= now
  <2> TAKE i \in Kept
  <2>1. i \in Ids /\ Rescheduled[i] \in Timeouts /\ Rescheduled[i].deadline >= now
    BY KeptTimers DEF Types
  <2>2. Rescheduled[i].deadline \in Int
    BY <2>1 DEF Timeouts
  <2> QED
    BY <1>1, <2>1, <2>2
<1>3. S \subseteq Nat /\ S # {}
  BY <1>1, <1>2
<1>4. next \in S /\ \A y \in S : next <= y
  BY <1>3, MinOfNaturals, Zenon
<1>5. Lowest = IF next - now < MinSleep THEN now + MinSleep ELSE next
  BY DEF Lowest
<1>6. next \in Nat /\ next <= now + FarFuture
  BY <1>1, <1>3, <1>4
<1>7. \A i \in Kept : next <= Rescheduled[i].deadline
  BY <1>4
<1>8. next = now + FarFuture \/ \E i \in Kept : next = Rescheduled[i].deadline
  BY <1>4
<1>9. Kept = {} => next = now + FarFuture
  BY <1>8
<1> HIDE DEF next
<1>10. Lowest \in Int /\ Lowest <= now + FarFuture /\ Lowest >= next
  BY <1>1, <1>5, <1>6, FarAssumption
<1>11. \A i \in Kept : Lowest <= Rescheduled[i].deadline + MinSleep
  BY <1>1, <1>2, <1>5, <1>6, <1>7
<1>12. Kept = {} => Lowest = now + FarFuture
  BY <1>1, <1>5, <1>6, <1>9, <1>10
<1>13. Lowest >= now + FarFuture \/ \E i \in Kept : Rescheduled[i].deadline <= Lowest
  BY <1>8, <1>10
<1> QED
  BY <1>10, <1>11, <1>12, <1>13

----------------------------------------------------------------------------
(* The actions.  SetTimer finds a loop or starts one.                      *)
LEMMA SetTimerInv ==
  ASSUME Inv, NEW at \in Int, NEW repeating \in BOOLEAN, NEW interval \in Nat,
         at <= FarFuture, MaxTime + interval <= FarFuture,
         SetTimer(at, repeating, interval)
  PROVE  Inv'
<1> DEFINE id == issued + 1
           new == Timeout(at, repeating, interval)
<1>1. /\ id \in Ids /\ issued' = id /\ id \in 0 .. MaxTimers
      /\ timers' = timers \cup {id} /\ now' = now
      /\ timeout' = [timeout EXCEPT ![id] = new]
  BY BoundsAssumption DEF Inv, Types, SetTimer, Ids
<1>2. /\ new \in Timeouts /\ new.deadline = at /\ new.interval = interval
  BY DEF Timeout, Timeouts
<1> HIDE DEF new
<1>3. /\ timeout' \in [Ids -> Timeouts] /\ timeout'[id] = new
      /\ \A i \in Ids : i # id => timeout'[i] = timeout[i]
  BY <1>1, <1>2 DEF Inv, Types
<1>4. now \in Nat /\ MinSleep \in Nat /\ FarFuture \in Nat /\ deadline \in Int
  BY SleepAssumption, BoundsAssumption DEF Inv, Types
<1>5. \A l \in Ids : sleep[l] \in Int
  BY DEF Inv, Types
<1>6. \A i \in Ids : timeout[i].deadline \in Int /\ timeout[i].interval \in Nat
  BY DEF Inv, Types, Timeouts
<1>7. timers \subseteq Ids /\ loops \subseteq Ids
  BY DEF Inv, Types
<1> HIDE DEF id
<1>8. CASE running
  <2>1. running' = running /\ loops' = loops /\ sleep' = sleep
    BY <1>8 DEF SetTimer
  <2>2. loops # {}
    BY <1>8 DEF Inv, RunningMeansLoop
  <2>3. CASE at < deadline
    <3>1. deadline' = at /\ permits' = Capped(permits + 1, Waiting)
      BY <1>8, <2>3 DEF SetTimer, NotifyOne
    <3>2. permits' \in Nat /\ permits' > 0
      <4>1. Waiting \in SUBSET Ids /\ permits + 1 \in Nat /\ permits + 1 > 0
        BY DEF Inv, Types, Waiting
      <4> QED
        BY <3>1, <4>1, CappedPositive
    <3>3. Types'
      BY <1>1, <1>3, <2>1, <3>1, <3>2 DEF Inv, Types
    <3>4. Bounded'
      BY <1>1, <1>2, <1>3, <1>7, <2>1 DEF Inv, Bounded
    <3>5. NoLostWakeup' /\ DeadlineCovered' /\ RestDeadline' /\ RunningMeansLoop'
      BY <1>1, <1>8, <2>1, <2>2, <3>2
      DEF Inv, NoLostWakeup, DeadlineCovered, RestDeadline, RunningMeansLoop
    <3> QED
      BY <3>3, <3>4, <3>5 DEF Inv
  <2>4. CASE ~(at < deadline)
    <3>1. deadline' = deadline /\ permits' = permits
      BY <1>8, <2>4 DEF SetTimer
    <3>2. Types'
      BY <1>1, <1>3, <2>1, <3>1 DEF Inv, Types
    <3>3. Bounded'
      BY <1>1, <1>2, <1>3, <1>7, <2>1 DEF Inv, Bounded
    <3>4. DeadlineCovered' /\ RestDeadline' /\ RunningMeansLoop'
      BY <1>1, <1>8, <2>1, <2>2, <3>1
      DEF Inv, DeadlineCovered, RestDeadline, RunningMeansLoop
    <3>5. permits > 0 \/ \E l \in loops : sleep[l] <= at + MinSleep
      BY <1>4, <1>5, <1>7, <1>8, <2>4 DEF Inv, Types, DeadlineCovered
    <3>6. NoLostWakeup'
      BY <1>1, <1>2, <1>3, <1>7, <2>1, <2>2, <3>1, <3>5 DEF Inv, NoLostWakeup
    <3> QED
      BY <3>2, <3>3, <3>4, <3>6 DEF Inv
  <2> QED
    BY <2>3, <2>4
<1>9. CASE ~running
  <2>1. /\ running' = TRUE /\ loops' = loops \cup {id} /\ deadline' = deadline
        /\ sleep' = [sleep EXCEPT ![id] = at] /\ permits' = permits
    BY <1>9 DEF SetTimer, id
  <2>2. timers = {} /\ deadline >= FarFuture
    BY <1>9 DEF Inv, RunningMeansLoop, RestDeadline
  <2>3. /\ sleep' \in [Ids -> Int] /\ sleep'[id] = at
        /\ \A l \in Ids : l # id => sleep'[l] = sleep[l]
    BY <1>1, <2>1 DEF Inv, Types
  <2>4. Types'
    BY <1>1, <1>3, <2>1, <2>3 DEF Inv, Types
  <2>5. Bounded'
    BY <1>1, <1>2, <1>3, <1>4, <1>7, <2>1, <2>3 DEF Inv, Bounded
  <2>6. DeadlineCovered'
    BY <1>4, <2>1, <2>2, <2>3 DEF DeadlineCovered
  <2>7. NoLostWakeup'
    BY <1>1, <1>2, <1>3, <1>4, <2>1, <2>2, <2>3 DEF NoLostWakeup
  <2>8. RestDeadline' /\ RunningMeansLoop'
    BY <1>1, <2>1 DEF RestDeadline, RunningMeansLoop
  <2> QED
    BY <2>4, <2>5, <2>6, <2>7, <2>8 DEF Inv
<1> QED
  BY <1>8, <1>9

LEMMA ClearTimerInv ==
  ASSUME Inv, NEW id \in Ids, ClearTimer(id)
  PROVE  Inv'
<1>1. /\ now' = now /\ timers' = timers /\ running' = running /\ loops' = loops
      /\ deadline' = deadline /\ sleep' = sleep /\ issued' = issued
  BY DEF ClearTimer
<1>2. CASE id \notin timers
  BY <1>1, <1>2 DEF ClearTimer, Inv, Types, Bounded, RunningMeansLoop,
     NoLostWakeup, DeadlineCovered, RestDeadline
<1>3. CASE id \in timers
  <2>1. permits' = Capped(permits + 1, Waiting)
    BY <1>3 DEF ClearTimer, NotifyOne
  <2>2. permits' \in Nat /\ permits' > 0
    <3>1. Waiting \in SUBSET Ids /\ permits + 1 \in Nat /\ permits + 1 > 0
      BY DEF Inv, Types, Waiting
    <3> QED
      BY <2>1, <3>1, CappedPositive
  <2>3. loops # {}
    BY <1>3 DEF Inv, RunningMeansLoop
  <2> DEFINE old == timeout[id]
             before == now - 1
             new == [old EXCEPT !.cb = FALSE, !.repeating = FALSE, !.deadline = before]
  <2>4. now \in Nat /\ now <= MaxTime /\ MaxTime \in Nat /\ FarFuture \in Nat
    BY SleepAssumption, BoundsAssumption DEF Inv, Types
  <2>5. timeout' = [timeout EXCEPT ![id] = new]
    BY <1>3, Zenon DEF ClearTimer
  <2>6. old \in Timeouts
    BY DEF Inv, Types
  <2>12. before \in Int /\ before <= FarFuture
    BY <2>4, FarAssumption
  <2> HIDE DEF old, before
  <2>7. new \in Timeouts /\ new.deadline = before /\ new.interval = old.interval
    BY <2>6, <2>12, Zenon DEF Timeouts
  <2> HIDE DEF new
  <2>8. /\ timeout' \in [Ids -> Timeouts] /\ timeout'[id] = new
        /\ \A i \in Ids : i # id => timeout'[i] = timeout[i]
    BY <2>5, <2>7 DEF Inv, Types
  <2>9. Types'
    BY <1>1, <2>2, <2>8 DEF Inv, Types
  <2>10. Bounded'
    <3>1. timers \subseteq Ids
      BY DEF Inv, Types
    <3> QED
      BY <1>1, <2>7, <2>8, <2>12, <3>1 DEF Inv, Bounded, old
  <2>11. NoLostWakeup' /\ DeadlineCovered' /\ RestDeadline' /\ RunningMeansLoop'
    BY <1>1, <2>2, <2>3
    DEF Inv, NoLostWakeup, DeadlineCovered, RestDeadline, RunningMeansLoop
  <2> QED
    BY <2>9, <2>10, <2>11 DEF Inv
<1> QED
  BY <1>2, <1>3

(* A loop that wakes up takes the place of the notification and of the     *)
(* other loops: it will look at every timer in time.                       *)
LEMMA WakeInv ==
  ASSUME Inv, NEW l \in Ids, NEW notified \in BOOLEAN, Wake(l, notified)
  PROVE  Inv'
<1>1. /\ now' = now /\ running' = running /\ loops' = loops /\ issued' = issued
      /\ timers' = Kept /\ timeout' = Retained /\ l \in loops
      /\ deadline' = IF timers # {} THEN Lowest ELSE deadline
      /\ sleep' = IF timers # {} THEN [sleep EXCEPT ![l] = Lowest] ELSE sleep
  BY DEF Wake, StartPoll
<1>2. permits' \in Nat
  <2>1. notified => permits' \in Nat
    BY DEF Wake, Inv, Types
  <2>2. loops \ {l} \in SUBSET Ids /\ permits \in Nat
    BY DEF Inv, Types
  <2>3. ~notified => permits' = Capped(permits, loops \ {l})
    BY DEF Wake
  <2> QED
    BY <2>1, <2>2, <2>3, CappedPositive
<1>3. Types
  BY DEF Inv
<1>4. now \in Nat /\ now <= MaxTime /\ MaxTime \in Nat /\ MinSleep \in Nat /\ FarFuture \in Nat
  BY <1>3, SleepAssumption, BoundsAssumption DEF Types
<1>5. /\ Kept \subseteq timers /\ Retained \in [Ids -> Timeouts]
      /\ \A i \in Kept :
           /\ Retained[i] = Rescheduled[i]
           /\ Rescheduled[i].interval = timeout[i].interval
           /\ Rescheduled[i].deadline
                \in {timeout[i].deadline, now + timeout[i].interval}
  BY <1>3, KeptTimers
<1>6. /\ Lowest \in Int /\ Lowest <= now + FarFuture
      /\ \A i \in Kept : Lowest <= Rescheduled[i].deadline + MinSleep
      /\ Kept = {} => Lowest = now + FarFuture
  BY <1>3, LowestCovers
<1>7. \A i \in timers : timeout[i].interval \in Nat
  BY <1>3 DEF Types, Timeouts
<1>8. sleep' \in [Ids -> Int]
  BY <1>1, <1>3, <1>6 DEF Types
<1>9. Types'
  BY <1>1, <1>2, <1>3, <1>5, <1>6, <1>8 DEF Types
<1>10. \A i \in Kept : /\ MaxTime + Retained[i].interval <= FarFuture
                       /\ Retained[i].deadline <= FarFuture
  BY <1>4, <1>5, <1>7 DEF Inv, Bounded
<1>11. RunningMeansLoop'
  BY <1>1, <1>5 DEF Inv, RunningMeansLoop
<1>12. CASE timers = {}
  <2>1. Kept = {} /\ sleep' = sleep /\ deadline' = deadline
    BY <1>1, <1>5, <1>12
  <2>2. deadline >= FarFuture /\ sleep[l] <= deadline
    BY <1>1, <1>12 DEF Inv, RestDeadline
  <2>3. deadline \in Int /\ sleep[l] \in Int
    BY <1>3 DEF Types
  <2>4. Bounded' /\ NoLostWakeup' /\ RestDeadline'
    BY <1>1, <1>12, <2>1 DEF Inv, Bounded, NoLostWakeup, RestDeadline
  <2>5. DeadlineCovered'
    BY <1>1, <1>4, <2>1, <2>2, <2>3 DEF DeadlineCovered
  <2> QED
    BY <1>9, <1>11, <2>4, <2>5 DEF Inv
<1>13. CASE timers # {}
  <2>1. /\ sleep'[l] = Lowest /\ deadline' = Lowest
        /\ \A k \in Ids : k # l => sleep'[k] = sleep[k]
    BY <1>1, <1>3, <1>13 DEF Types
  <2>2. loops \subseteq Ids /\ \A k \in loops : sleep[k] <= now + FarFuture
    BY <1>3 DEF Types, Inv, Bounded
  <2>3. \A k \in loops : sleep'[k] <= now + FarFuture
    BY <1>6, <2>1, <2>2
  <2>4. Bounded'
    BY <1>1, <1>10, <2>3 DEF Bounded
  <2>5. NoLostWakeup'
    BY <1>1, <1>5, <1>6, <2>1 DEF NoLostWakeup
  <2>6. DeadlineCovered'
    BY <1>1, <1>4, <1>6, <2>1 DEF DeadlineCovered
  <2>7. RestDeadline'
    BY <1>1, <1>4, <1>6, <2>1, <2>3 DEF RestDeadline
  <2> QED
    BY <1>9, <1>11, <2>4, <2>5, <2>6, <2>7 DEF Inv
<1> QED
  BY <1>12, <1>13

(* require() polls without touching any loop's sleep; the loops wake up    *)
(* early enough because a poll never moves a deadline forward.             *)
LEMMA RequirePollsInv ==
  ASSUME Inv, RequirePolls
  PROVE  Inv'
<1>1. /\ now' = now /\ running' = running /\ loops' = loops /\ issued' = issued
      /\ timers' = Kept /\ timeout' = Retained
      /\ sleep' = sleep /\ permits' = permits
      /\ deadline' = IF timers # {} THEN Lowest ELSE deadline
  BY DEF RequirePolls, StartPoll
<1>3. Types
  BY DEF Inv
<1>4. /\ now \in Nat /\ now <= MaxTime /\ MaxTime \in Nat
      /\ MinSleep \in Nat /\ FarFuture \in Nat
  BY <1>3, SleepAssumption, BoundsAssumption DEF Types
<1>5. /\ Kept \subseteq timers /\ Retained \in [Ids -> Timeouts]
      /\ \A i \in Kept :
           /\ Retained[i] = Rescheduled[i]
           /\ Rescheduled[i].deadline >= timeout[i].deadline
           /\ Rescheduled[i].interval = timeout[i].interval
           /\ Rescheduled[i].deadline
                \in {timeout[i].deadline, now + timeout[i].interval}
  BY <1>3, KeptTimers
<1>6. /\ Lowest \in Int
      /\ Lowest >= now + FarFuture \/ \E i \in Kept : Rescheduled[i].deadline <= Lowest
      /\ Kept = {} => Lowest = now + FarFuture
  BY <1>3, LowestCovers
<1>7. /\ \A i \in timers : timeout[i].interval \in Nat /\ timeout[i].deadline \in Int
      /\ \A k \in loops : sleep[k] \in Int
  BY <1>3 DEF Types, Timeouts
<1>8. \A i \in Kept : Rescheduled[i].deadline \in Int
  BY <1>4, <1>5, <1>7
<1>9. Types'
  BY <1>1, <1>3, <1>5, <1>6 DEF Types
<1>10. Bounded'
  BY <1>1, <1>4, <1>5, <1>7 DEF Inv, Bounded
<1>11. RunningMeansLoop'
  BY <1>1, <1>5 DEF Inv, RunningMeansLoop
<1>12. NoLostWakeup'
  <2> SUFFICES ASSUME NEW i \in Kept, ~(permits > 0 /\ loops # {})
               PROVE  \E k \in loops : sleep[k] <= Retained[i].deadline + MinSleep
    BY <1>1 DEF NoLostWakeup
  <2>1. PICK k \in loops : sleep[k] <= timeout[i].deadline + MinSleep
    BY <1>5 DEF Inv, NoLostWakeup
  <2>2. sleep[k] <= Retained[i].deadline + MinSleep
    BY <1>4, <1>5, <1>7, <1>8, <2>1
  <2> QED
    BY <2>2
<1>13. CASE timers = {}
  BY <1>1, <1>5, <1>9, <1>10, <1>11, <1>12, <1>13
  DEF Inv, DeadlineCovered, RestDeadline
<1>14. CASE timers # {}
  <2>1. deadline' = Lowest
    BY <1>1, <1>14
  <2>2. \A k \in loops : sleep[k] <= now + FarFuture
    BY DEF Inv, Bounded
  <2>3. RestDeadline'
    BY <1>1, <1>4, <1>6, <2>1, <2>2 DEF RestDeadline
  <2>4. DeadlineCovered'
    <3> SUFFICES ASSUME running, permits = 0
                 PROVE  \E k \in loops : sleep[k] <= Lowest + MinSleep
      BY <1>1, <2>1 DEF DeadlineCovered
    <3>1. CASE Lowest >= now + FarFuture
      <4>1. PICK k \in loops : TRUE
        BY DEF Inv, RunningMeansLoop
      <4>2. sleep[k] <= Lowest + MinSleep
        BY <1>4, <1>6, <1>7, <2>2, <3>1
      <4> QED
        BY <4>2
    <3>2. CASE \E i \in Kept : Rescheduled[i].deadline <= Lowest
      <4>1. PICK i \in Kept : Rescheduled[i].deadline <= Lowest
        BY <3>2
      <4>2. PICK k \in loops : sleep[k] <= timeout[i].deadline + MinSleep
        BY <1>5 DEF Inv, NoLostWakeup
      <4>3. sleep[k] <= Lowest + MinSleep
        BY <1>4, <1>5, <1>6, <1>7, <1>8, <4>1, <4>2
      <4> QED
        BY <4>3
    <3> QED
      BY <1>6, <3>1, <3>2
  <2> QED
    BY <1>9, <1>10, <1>11, <1>12, <2>3, <2>4 DEF Inv
<1> QED
  BY <1>13, <1>14

LEMMA EndPollInv ==
  ASSUME Inv, EndPoll
  PROVE  Inv'
<1>1. /\ now' = now /\ timers' = timers /\ timeout' = timeout /\ issued' = issued
      /\ deadline' = deadline /\ permits' = permits
      /\ running' = IF Top.has_items THEN running ELSE timers # {}
      /\ loops' = IF Top.has_items \/ timers # {} THEN loops ELSE loops \ {Top.loop}
      /\ sleep' = [l \in Ids |-> IF l \in loops \ loops' THEN 0 ELSE sleep[l]]
  BY DEF EndPoll
<1>2. /\ loops' \subseteq loops /\ loops \subseteq Ids
      /\ sleep' \in [Ids -> Int] /\ \A l \in loops' : sleep'[l] = sleep[l]
  BY <1>1 DEF Inv, Types
<1>3. running' \in BOOLEAN
  BY <1>1, Zenon DEF Inv, Types
<1>4. Types'
  BY <1>1, <1>2, <1>3 DEF Inv, Types
<1>5. Bounded' /\ RestDeadline'
  BY <1>1, <1>2 DEF Inv, Bounded, RestDeadline
<1>6. CASE Top.has_items \/ timers # {}
  <2>1. loops' = loops /\ (running' => running) /\ (running => running' \/ timers = {})
    BY <1>1, <1>6, Zenon DEF Inv, RunningMeansLoop
  <2>2. timers # {} => running'
    BY <1>1, <1>6, Zenon DEF Inv, RunningMeansLoop
  <2>3. RunningMeansLoop'
    BY <1>1, <2>1, <2>2 DEF Inv, RunningMeansLoop
  <2>4. NoLostWakeup' /\ DeadlineCovered'
    BY <1>1, <1>2, <2>1 DEF Inv, NoLostWakeup, DeadlineCovered
  <2> QED
    BY <1>4, <1>5, <2>3, <2>4 DEF Inv
<1>7. CASE ~(Top.has_items \/ timers # {})
  <2>1. timers = {} /\ running' = FALSE
    BY <1>1, <1>7, Zenon
  <2> QED
    BY <1>1, <1>4, <1>5, <2>1
    DEF Inv, RunningMeansLoop, NoLostWakeup, DeadlineCovered
<1> QED
  BY <1>6, <1>7

LEMMA TickInv ==
  ASSUME Inv, Tick
  PROVE  Inv'
<1>1. now' = now + 1 /\ now < MaxTime /\ UNCHANGED <<state, loops, sleep, issued>>
  BY DEF Tick
<1>2. now \in Nat /\ FarFuture \in Nat /\ MaxTime \in Nat
      /\ \A l \in loops : sleep[l] \in Int
  BY SleepAssumption, BoundsAssumption DEF Inv, Types
<1>3. Types' /\ Bounded'
  BY <1>1, <1>2 DEF Inv, Types, Bounded, state
<1>4. RunningMeansLoop' /\ NoLostWakeup' /\ DeadlineCovered' /\ RestDeadline'
  BY <1>1 DEF Inv, RunningMeansLoop, NoLostWakeup, DeadlineCovered, RestDeadline, state
<1> QED
  BY <1>3, <1>4 DEF Inv

(* The other actions leave everything that Inv speaks of alone.            *)
LEMMA SameInv ==
  ASSUME Inv, UNCHANGED <<now, state, loops, sleep, issued>>
  PROVE  Inv'
BY DEF Inv, Types, Bounded, RunningMeansLoop, NoLostWakeup, DeadlineCovered,
       RestDeadline, state

LEMMA InitInv == Init => Inv
<1> SUFFICES ASSUME Init PROVE Inv
  OBVIOUS
<1>1. NoTimeout \in Timeouts
  BY DEF NoTimeout, Timeout, Timeouts
<1>2. Types
  <2>1. timeout \in [Ids -> Timeouts] /\ sleep \in [Ids -> Int]
    BY <1>1 DEF Init
  <2>2. now \in 0 .. MaxTime /\ issued \in 0 .. MaxTimers /\ deadline \in Int
    BY BoundsAssumption, SleepAssumption DEF Init
  <2> QED
    BY <2>1, <2>2, Zenon DEF Init, Types
<1> QED
  BY <1>2, SleepAssumption
  DEF Init, Inv, Bounded, RunningMeansLoop, NoLostWakeup, DeadlineCovered, RestDeadline

LEMMA NextInv == Inv /\ [Next]_vars => Inv'
<1> SUFFICES ASSUME Inv, [Next]_vars PROVE Inv'
  OBVIOUS
<1>1. now \in Nat /\ now <= MaxTime /\ FarFuture \in Nat /\ MaxTime \in Nat
      /\ ImmediateAge \in Nat
  BY SleepAssumption, BoundsAssumption DEF Inv, Types
<1>2. ASSUME NEW d \in Delays
      PROVE  d \in Nat /\ now + d \in Int /\ now + d <= FarFuture /\ MaxTime + d <= FarFuture
  BY <1>1, DelaysAssumption
<1>3. CASE SetTimeout
  BY <1>2, <1>3, SetTimerInv, Zenon DEF SetTimeout
<1>4. CASE SetInterval
  BY <1>2, <1>4, SetTimerInv, Zenon DEF SetInterval
<1>5. CASE SetImmediate
  <2>1. /\ now - ImmediateAge \in Int /\ now - ImmediateAge <= FarFuture
        /\ MaxTime + 0 <= FarFuture /\ 0 \in Nat
    BY <1>1, FarAssumption
  <2> QED
    BY <1>5, <2>1, SetTimerInv, Zenon DEF SetImmediate
<1>6. CASE \E id \in Ids : ClearTimer(id)
  BY <1>6, ClearTimerInv
<1>7. CASE \E l \in Ids, notified \in BOOLEAN : Wake(l, notified)
  BY <1>7, WakeInv
<1>8. CASE RequirePolls
  BY <1>8, RequirePollsInv
<1>9. CASE EndPoll
  BY <1>9, EndPollInv
<1>10. CASE Tick
  BY <1>10, TickInv
<1>11. CASE Require \/ RequireReturns \/ CallNext \/ CallbackReturns
              \/ CallbackThrowsInLoop \/ CallbackThrowsInRequire \/ UNCHANGED vars
  BY <1>11, SameInv, Zenon
  DEF Require, RequireReturns, CallNext, CallbackReturns, CallbackThrowsInLoop,
      CallbackThrowsInRequire, vars
<1> QED
  BY <1>3, <1>4, <1>5, <1>6, <1>7, <1>8, <1>9, <1>10, <1>11 DEF Next

(* No timer of llrt_timers is ever left behind: whatever the calls, the    *)
(* nesting of require() and the number of loops, each timer has a loop     *)
(* that wakes up in time or a notification on its way, and `running` tells *)
(* set_timeout_interval the truth.                                         *)
THEOREM TimersNeverLost == Spec => [](NoLostWakeup /\ RunningMeansLoop)
<1>1. Inv => NoLostWakeup /\ RunningMeansLoop
  BY DEF Inv
<1> QED
  BY <1>1, InitInv, NextInv, PTL DEF Spec
=============================================================================
