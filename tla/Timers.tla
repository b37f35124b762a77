------------------------------ MODULE Timers -------------------------------
(* setTimeout, setInterval, setImmediate and clearTimeout of llrt_timers,  *)
(* the spawned loop that sleeps until the next deadline, and the polling   *)
(* that a synchronous require() does while it waits for its module.        *)
(*                                                                         *)
(* A runtime runs one task at a time: `stack` holds the require() calls    *)
(* and the runs of poll_timers that are under way, innermost last.         *)
EXTENDS Integers, Sequences, FiniteSets, FiniteSetsExt

CONSTANTS
  MaxTimers,     \* bound: calls of set_timeout_interval
  MaxTime,       \* bound: ticks of the clock
  MaxRequires,   \* bound: calls of require()
  Delays,        \* delays, in ticks
  MinSleep,      \* MIN_SLEEP
  FarFuture,     \* FAR_FUTURE
  ImmediateAge   \* how far in the past the deadline of an immediate lies

ASSUME BoundsAssumption ==
  MaxTimers \in Nat /\ MaxTime \in Nat /\ MaxRequires \in Nat
ASSUME SleepAssumption ==
  MinSleep \in Nat /\ FarFuture \in Nat /\ ImmediateAge \in Nat

(* FAR_FUTURE, thirty years, lies beyond every deadline.                   *)
ASSUME DelaysAssumption ==
  Delays \subseteq Nat /\ \A d \in Delays : MaxTime + d <= FarFuture
ASSUME FarAssumption == MinSleep <= FarFuture /\ MaxTime <= FarFuture

VARIABLES
  now,       \* Instant::now()
  timers,    \* the ids in state.timers
  timeout,   \* id -> Timeout
  running,   \* state.running
  deadline,  \* state.deadline
  permits,   \* notifications of state.notify that no loop has taken
  loops,     \* the spawned loops that have not ended
  sleep,     \* loop -> the instant its Sleep is set to
  stack,     \* require() calls and poll_timers runs under way
  issued,    \* TIMER_ID
  requires,  \* require() calls so far
  stopped,   \* print_error_and_exit has ended the process
  fate       \* history: how a timer that is not repeating ended

state == <<timers, timeout, running, deadline, permits>>
vars == <<now, state, loops, sleep, stack, issued, requires, stopped, fate>>

Ids == 1 .. MaxTimers
NoLoop == 0

Timeout(at, repeating, interval) ==
  [cb |-> TRUE, deadline |-> at, repeating |-> repeating, interval |-> interval]

NoTimeout == Timeout(0, FALSE, 0)

PollFrame(l, batch, has_items) ==
  [kind |-> "poll", loop |-> l, batch |-> batch, has_items |-> has_items,
   js |-> IF batch = {} THEN "none" ELSE "jobs", deadline |-> 0]

RequireFrame(at) ==
  [kind |-> "require", loop |-> NoLoop, batch |-> {}, has_items |-> FALSE,
   js |-> "jobs", deadline |-> at]

Init ==
  /\ now = 0
  /\ timers = {}
  /\ timeout = [i \in Ids |-> NoTimeout]
  /\ running = FALSE
  /\ deadline = FarFuture + 1
  /\ permits = 0
  /\ loops = {}
  /\ sleep = [i \in Ids |-> 0]
  /\ stack = <<>>
  /\ issued = 0
  /\ requires = 0
  /\ stopped = FALSE
  /\ fate = [i \in Ids |-> "none"]

Top == stack[Len(stack)]
Pop == SubSeq(stack, 1, Len(stack) - 1)
WithTop(f) == Append(Pop, f)
Idle == stack = <<>>

(* JavaScript runs as a task of its own, in the callback of a timer, or as *)
(* a job that poll_timers or require() executes.                           *)
JsRuns ==
  /\ ~stopped
  /\ ~Idle => Top.js # "none"

Polling == {stack[i].loop : i \in DOMAIN stack} \ {NoLoop}
Waiting == loops \ Polling

(* Notify::notify_one wakes a waiting loop, or is kept for the next one.   *)
(* Only one notification is kept beyond those for the loops that wait.     *)
Capped(n, waiting) == Min({n, Cardinality(waiting) + 1})
NotifyOne == permits' = Capped(permits + 1, Waiting)

----------------------------------------------------------------------------
(* Calls from JavaScript.                                                  *)

(* Planted fault: a timer that is due earlier does not wake the loop. *)
SetTimerNotifyFault(at, repeating, interval) ==
  LET id == issued + 1
  IN  /\ JsRuns
      /\ issued < MaxTimers
      /\ issued' = id
      /\ timers' = timers \cup {id}
      /\ timeout' = [timeout EXCEPT ![id] = Timeout(at, repeating, interval)]
      /\ running' = TRUE
      /\ loops' = IF running THEN loops ELSE loops \cup {id}
      /\ sleep' = IF running THEN sleep ELSE [sleep EXCEPT ![id] = at]
      /\ deadline' = IF running /\ at < deadline THEN at ELSE deadline
      /\ UNCHANGED <<now, permits, stack, requires, stopped, fate>>

(* set_timeout_interval: an immediate is a timeout that is long overdue.   *)
SetTimer(at, repeating, interval) ==
  LET id == issued + 1
  IN  /\ JsRuns
      /\ issued < MaxTimers
      /\ issued' = id
      /\ timers' = timers \cup {id}
      /\ timeout' = [timeout EXCEPT ![id] = Timeout(at, repeating, interval)]
      /\ IF running
           THEN /\ IF at < deadline
                     THEN deadline' = at /\ NotifyOne
                     ELSE UNCHANGED <<deadline, permits>>
                /\ UNCHANGED <<running, loops, sleep>>
           ELSE /\ running' = TRUE
                /\ loops' = loops \cup {id}
                /\ sleep' = [sleep EXCEPT ![id] = at]
                /\ UNCHANGED <<deadline, permits>>
      /\ UNCHANGED <<now, stack, requires, stopped, fate>>

SetTimeout == \E d \in Delays : SetTimer(now + d, FALSE, d)
SetInterval == \E d \in Delays : SetTimer(now + d, TRUE, d)
SetImmediate == SetTimer(now - ImmediateAge, FALSE, 0)

ClearTimer(id) ==
  /\ JsRuns
  /\ id <= issued
  /\ fate' = IF fate[id] = "none" THEN [fate EXCEPT ![id] = "cleared"] ELSE fate
  /\ IF id \in timers
       THEN /\ timeout' = [timeout EXCEPT ![id].cb = FALSE,
                                          ![id].repeating = FALSE,
                                          ![id].deadline = now - 1]
            /\ NotifyOne
       ELSE UNCHANGED <<timeout, permits>>
  /\ UNCHANGED <<now, timers, running, deadline, loops, sleep, stack, issued,
                 requires, stopped>>

Require ==
  /\ JsRuns
  /\ requires < MaxRequires
  /\ requires' = requires + 1
  /\ stack' = Append(stack, RequireFrame(now))
  /\ UNCHANGED <<now, state, loops, sleep, issued, stopped, fate>>

----------------------------------------------------------------------------
(* poll_timers.                                                            *)
Expired == {i \in timers : timeout[i].deadline < now}
Due == {i \in Expired : timeout[i].cb}
Again == {i \in Due : timeout[i].repeating}
(* Planted fault: a timer that has expired stays in the list. *)
KeptFault == (timers \ Expired) \cup Due

Kept == (timers \ Expired) \cup Again

(* A repeating timer is scheduled anew before its callback runs.           *)
Rescheduled ==
  [i \in Ids |->
     IF i \in Again
       THEN [timeout[i] EXCEPT !.deadline = now + timeout[i].interval]
       ELSE timeout[i]]

(* The entries that leave the list are dropped.                            *)
Retained ==
  [i \in Ids |-> IF i \in timers \ Kept THEN NoTimeout ELSE Rescheduled[i]]

(* The instant to sleep until.                                             *)
Lowest ==
  LET next == Min({Rescheduled[i].deadline : i \in Kept} \cup {now + FarFuture})
  IN  IF next - now < MinSleep THEN now + MinSleep ELSE next

Executing(i) ==
  [id |-> i, key |-> Rescheduled[i].deadline, once |-> i \notin Again]

(* The part of poll_timers under the lock, for the loop l or for require().*)
StartPoll(l, below) ==
  /\ timers' = Kept
  /\ timeout' = Retained
  /\ deadline' = IF timers # {} THEN Lowest ELSE deadline
  /\ stack' = Append(below,
                PollFrame(l, {Executing(i) : i \in Due}, Kept # {}))

(* A loop wakes up for a notification or because its sleep is over.        *)
Wake(l, notified) ==
  /\ Idle /\ ~stopped
  /\ l \in loops
  /\ IF notified THEN permits > 0 ELSE sleep[l] <= now
  /\ permits' = IF notified THEN permits - 1 ELSE Capped(permits, loops \ {l})
  /\ sleep' = IF timers # {} THEN [sleep EXCEPT ![l] = Lowest] ELSE sleep
  /\ StartPoll(l, stack)
  /\ UNCHANGED <<now, running, loops, issued, requires, stopped, fate>>

RequirePolls ==
  /\ ~Idle /\ ~stopped
  /\ Top.kind = "require" /\ Top.deadline < now
  /\ StartPoll(NoLoop,
       IF timers # {} THEN WithTop([Top EXCEPT !.deadline = Lowest]) ELSE stack)
  /\ UNCHANGED <<now, running, permits, loops, sleep, issued, requires, stopped,
                 fate>>

InPoll == ~Idle /\ ~stopped /\ Top.kind = "poll"

(* The callbacks run in the order of their deadlines; pending jobs run     *)
(* before the first and after each.                                        *)
CallNext ==
  /\ InPoll /\ Top.js # "callback"
  /\ \E e \in Top.batch :
       /\ \A f \in Top.batch : e.key <= f.key
       /\ stack' = WithTop([Top EXCEPT !.batch = @ \ {e}, !.js = "callback"])
       /\ fate' = IF e.once THEN [fate EXCEPT ![e.id] = "ran"] ELSE fate
  /\ UNCHANGED <<now, state, loops, sleep, issued, requires, stopped>>

CallbackReturns ==
  /\ InPoll /\ Top.js = "callback"
  /\ stack' = WithTop([Top EXCEPT !.js = "jobs"])
  /\ UNCHANGED <<now, state, loops, sleep, issued, requires, stopped, fate>>

(* An exception ends the loop, and with it the process.                    *)
CallbackThrowsInLoop ==
  /\ InPoll /\ Top.js = "callback" /\ Top.loop # NoLoop
  /\ stopped' = TRUE
  /\ UNCHANGED <<now, state, loops, sleep, stack, issued, requires, fate>>

(* In require() it becomes the exception of require(), and the rest of the *)
(* batch is dropped.                                                       *)
CallbackThrowsInRequire ==
  /\ InPoll /\ Top.js = "callback" /\ Top.loop = NoLoop
  /\ stack' = SubSeq(stack, 1, Len(stack) - 2)
  /\ fate' = [i \in Ids |->
                IF \E e \in Top.batch : e.id = i /\ e.once
                  THEN "lost" ELSE fate[i]]
  /\ UNCHANGED <<now, state, loops, sleep, issued, requires, stopped>>

(* The end of poll_timers: the loop ends when there is nothing left.       *)
EndPoll ==
  LET again == Top.has_items \/ timers # {}
  IN  /\ InPoll /\ Top.js # "callback" /\ Top.batch = {}
      /\ running' = IF Top.has_items THEN running ELSE timers # {}
      /\ loops' = IF again THEN loops ELSE loops \ {Top.loop}
      /\ sleep' = [l \in Ids |-> IF l \in loops \ loops' THEN 0 ELSE sleep[l]]
      /\ stack' = Pop
      /\ UNCHANGED <<now, timers, timeout, deadline, permits, issued, requires,
                     stopped, fate>>

(* The module has been evaluated, or its evaluation has failed.            *)
RequireReturns ==
  /\ ~Idle /\ ~stopped
  /\ Top.kind = "require"
  /\ stack' = Pop
  /\ UNCHANGED <<now, state, loops, sleep, issued, requires, stopped, fate>>

Tick ==
  /\ ~stopped
  /\ now < MaxTime
  /\ now' = now + 1
  /\ UNCHANGED <<state, loops, sleep, stack, issued, requires, stopped, fate>>

Next ==
  \/ SetTimeout \/ SetInterval \/ SetImmediate
  \/ \E id \in Ids : ClearTimer(id)
  \/ Require \/ RequirePolls \/ RequireReturns
  \/ \E l \in Ids, notified \in BOOLEAN : Wake(l, notified)
  \/ CallNext \/ CallbackReturns
  \/ CallbackThrowsInLoop \/ CallbackThrowsInRequire
  \/ EndPoll
  \/ Tick

Spec == Init /\ [][Next]_vars

(* A task that can go on is polled again, callbacks return, and a module   *)
(* that require() waits for is evaluated in the end.                       *)
Owed ==
  \/ \E l \in Ids, notified \in BOOLEAN : Wake(l, notified)
  \/ CallNext \/ CallbackReturns \/ EndPoll \/ RequireReturns

FairSpec == Spec /\ WF_vars(Owed)

----------------------------------------------------------------------------
Frames ==
  [kind : {"poll", "require"}, loop : Ids \cup {NoLoop},
   batch : SUBSET [id : Ids, key : Int, once : BOOLEAN], has_items : BOOLEAN,
   js : {"none", "jobs", "callback"}, deadline : Int]

Timeouts ==
  [cb : BOOLEAN, deadline : Int, repeating : BOOLEAN, interval : Nat]

TypeOK ==
  /\ now \in 0 .. MaxTime
  /\ timers \subseteq 1 .. issued
  /\ timeout \in [Ids -> Timeouts]
  /\ running \in BOOLEAN
  /\ deadline \in Int
  /\ permits \in 0 .. Cardinality(Waiting) + 1
  /\ loops \subseteq 1 .. issued
  /\ sleep \in [Ids -> Int]
  /\ stack \in Seq(Frames)
  /\ issued \in 0 .. MaxTimers
  /\ requires \in 0 .. MaxRequires
  /\ stopped \in BOOLEAN
  /\ fate \in [Ids -> {"none", "ran", "cleared", "lost"}]

(* No lost wakeup.  For every timer in the list there is a loop that will  *)
(* look at it no later than MIN_SLEEP after its deadline, or a             *)
(* notification that a loop has still to take.                             *)
NoLostWakeup ==
  \A i \in timers :
    \/ permits > 0 /\ loops # {}
    \/ \E l \in loops : sleep[l] <= timeout[i].deadline + MinSleep

(* `running` is what set_timeout_interval goes by: when it is false there  *)
(* are no timers, and when it is true there is a loop.                     *)
RunningMeansLoop ==
  /\ ~running => timers = {}
  /\ running => loops # {}

(* `running` and the notifications agree with the loops there are.         *)
Consistent == TypeOK /\ RunningMeansLoop

(* The places where timer i can still be.                                  *)
Places(i) ==
  {n \in DOMAIN stack : \E e \in stack[n].batch : e.id = i}
    \cup (IF i \in timers THEN {0} ELSE {})

(* A timer that does not repeat is called once.  Until it is called,       *)
(* cleared away or dropped by an exception it is in exactly one place, and *)
(* after that nowhere: nested polls and a second loop never share it.      *)
OneShotOnce ==
  \A i \in 1 .. issued :
    ~timeout[i].repeating /\ fate[i] # "cleared" =>
      Cardinality(Places(i)) = IF fate[i] = "none" THEN 1 ELSE 0

(* A loop lives as long as there are timers: with no timers left and no    *)
(* callback under way nothing keeps the runtime from becoming idle, unless *)
(* require() has polled the timers inside a callback of the loop.          *)
LoopEndsWithTimers == requires = 0 /\ Idle /\ timers = {} => loops = {}

Overdue(i) == i \in timers /\ timeout[i].deadline + MinSleep < now

NoneOverdue == stopped \/ \A i \in Ids : ~Overdue(i)

(* A timer that is overdue is taken out of the list or scheduled anew.     *)
OverdueFires == []<>NoneOverdue
=============================================================================
