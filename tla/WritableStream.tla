--------------------------- MODULE WritableStream ---------------------------
(***************************************************************************)
(* The WritableStream of modules/llrt_stream_web: the stream, its default  *)
(* controller and its writers (writable/stream/mod.rs,                     *)
(* writable/default_controller.rs, writable/default_writer.rs).            *)
(*                                                                         *)
(* The objects are one record, `s`, because the Rust code hands them from  *)
(* function to function as one bundle (WritableStreamObjects).  A function *)
(* of the code is an operator from records to records; a method called by  *)
(* JavaScript, or a callback run from the microtask queue, is an action.   *)
(*                                                                         *)
(* The bundle carries a writer `w` beside the stream.  Some functions take *)
(* it from the stream again before they use it (refresh_writer), others    *)
(* keep the one they were called with; the operators take it as a          *)
(* parameter for that reason.                                              *)
(*                                                                         *)
(* JavaScript runs inside two calls: the strategy's size() during write(), *)
(* and the listeners of controller.signal during abort().  Both may call   *)
(* the stream again, so these calls are split in two around a frame of     *)
(* `frames`, the call stack.  The sink's own write, close and abort        *)
(* functions are called last in their Rust callers, so what they call is   *)
(* a call made just after.                                                 *)
(***************************************************************************)
EXTENDS Integers, Sequences, SequencesExt

CONSTANTS
  MaxCalls,   \* bound on the calls of write, close and abort
  Writers,    \* the writers that getWriter may create
  NoWriter,   \* Option::None for a writer
  Sizes,      \* what the strategy's size() may return for a chunk
  HWM,        \* strategy_hwm
  MaxDepth    \* bound on nested calls; 1: user code does not call back

ASSUME MaxCallsAssumption == MaxCalls \in Nat
ASSUME NoWriterAssumption == NoWriter \notin Writers
ASSUME SizesAssumption == Sizes \subseteq Nat
ASSUME HWMAssumption == HWM \in Nat
ASSUME MaxDepthAssumption == MaxDepth \in Nat \ {0}

Calls == 1 .. MaxCalls          \* each call of write, close, abort
NoCall == 0                     \* Option::None for a request's promise
CloseSentinel == 0              \* the queue entry that stands for close()

Promises == {"none", "pending", "fulfilled", "rejected"}
States == {"writable", "closed", "erroring", "errored"}
Errors == {"start", "write", "close", "abort", "size", "range", "controller"}
NoError == "no error"

(* What size() may do instead of returning a member of Sizes.              *)
Throws == -1
Invalid == -2

VARIABLES
  s,        \* the stream, its controller, its writers and their promises
  frames,   \* the Rust calls that wait for user code to return
  calls     \* how many calls of write, close and abort have been made

vars == <<s, frames, calls>>

Init ==
  /\ s = [ state |-> "writable", err |-> NoError, backpressure |-> HWM = 0,
           writer |-> NoWriter, write_requests |-> <<>>,
           close_request |-> NoCall, in_flight_write |-> NoCall,
           in_flight_close |-> NoCall, pending_abort |-> NoCall,
           was_already_erroring |-> FALSE,
           started |-> FALSE, queue |-> <<>>, total |-> 0,
           algorithms |-> TRUE, signalled |-> FALSE,
           start_cb |-> TRUE, write_cb |-> FALSE, close_cb |-> "idle",
           close_writer |-> NoWriter, abort_cb |-> NoCall,
           promise |-> [k \in Calls |-> "none"],
           ready |-> [w \in Writers |-> "none"],
           closed |-> [w \in Writers |-> "none"],
           panicked |-> FALSE ]
  /\ frames = <<>>
  /\ calls = 0

----------------------------------------------------------------------------
(* Promises.  Resolving or rejecting one that is settled has no effect.    *)
Settle(p, k, v) ==
  IF k \in DOMAIN p /\ p[k] = "pending" THEN [p EXCEPT ![k] = v] ELSE p

(* A value the code unwraps with expect(), or a branch that is panic!().   *)
Expect(t, ok) == [t EXCEPT !.panicked = @ \/ ~ok]

HasOperationInFlight(t) ==
  t.in_flight_write # NoCall \/ t.in_flight_close # NoCall

CloseQueuedOrInFlight(t) ==
  t.close_request # NoCall \/ t.in_flight_close # NoCall

GetBackpressure(t) == HWM - t.total <= 0

ClearAlgorithms(t) == [t EXCEPT !.algorithms = FALSE]

EnsureReadyPromiseRejected(t, w) ==
  IF w = NoWriter THEN t ELSE [t EXCEPT !.ready[w] = "rejected"]

RejectCloseAndClosedPromiseIfNeeded(t, w) ==
  [t EXCEPT !.promise = Settle(@, t.close_request, "rejected"),
            !.close_request = NoCall,
            !.closed = Settle(@, w, "rejected")]

(* Errors the queue and the requests out, and runs the sink's abort        *)
(* algorithm for an abort() that is waiting.                               *)
FinishErroring(t, w) ==
  LET u == [t EXCEPT
              !.state = "errored", !.queue = <<>>, !.total = 0,
              !.promise = [k \in Calls |->
                             IF \E i \in DOMAIN t.write_requests :
                                  t.write_requests[i] = k
                               THEN "rejected" ELSE t.promise[k]],
              !.write_requests = <<>>, !.pending_abort = NoCall]
  IN  IF t.pending_abort = NoCall
        THEN RejectCloseAndClosedPromiseIfNeeded(u, w)
      ELSE IF t.was_already_erroring
        THEN RejectCloseAndClosedPromiseIfNeeded(
               [u EXCEPT !.promise = Settle(@, t.pending_abort, "rejected")], w)
      ELSE ClearAlgorithms([Expect(u, t.algorithms) EXCEPT
                              !.abort_cb = t.pending_abort])

StartErroring(t, w, e) ==
  LET u == EnsureReadyPromiseRejected(
             [t EXCEPT !.state = "erroring", !.err = e], w)
  IN  IF ~HasOperationInFlight(u) /\ u.started
        THEN FinishErroring(u, w) ELSE u

DealWithRejection(t, w, e) ==
  CASE t.state = "writable" -> StartErroring(t, w, e)
    [] t.state = "erroring" -> FinishErroring(t, w)
    [] OTHER -> Expect(t, FALSE)

ControllerError(t, w, e) == StartErroring(ClearAlgorithms(t), w, e)
UpdateBackpressure(t, w) ==
  LET bp == GetBackpressure(t)
  IN  [t EXCEPT !.backpressure = bp,
                !.ready = IF w = NoWriter \/ bp = t.backpressure THEN @
                          ELSE IF bp THEN [@ EXCEPT ![w] = "pending"]
                          ELSE Settle(@, w, "fulfilled")]

(* How write() and the end of a sink write refresh the backpressure.       *)
RefreshBackpressure(t, w) ==
  IF ~CloseQueuedOrInFlight(t) /\ t.state = "writable"
    THEN UpdateBackpressure(t, w) ELSE t

(* Hands close to the sink.  The callback keeps the writer of this moment. *)
ProcessClose(t, w) ==
  ClearAlgorithms(
    [Expect(t, t.close_request # NoCall /\ t.algorithms) EXCEPT
       !.in_flight_close = t.close_request, !.close_request = NoCall,
       !.queue = Tail(@), !.close_cb = "waiting", !.close_writer = w])
(* Planted fault: the last write request is taken for the first. *)
ProcessWriteFault(t) ==
  IF t.write_requests = <<>> THEN Expect(t, FALSE)
  ELSE [Expect(t, t.algorithms) EXCEPT
          !.in_flight_write = Last(t.write_requests),
          !.write_requests = Front(@), !.write_cb = TRUE]

(* Hands the first chunk to the sink; it stays in the queue meanwhile.     *)
ProcessWrite(t) ==
  IF t.write_requests = <<>> THEN Expect(t, FALSE)
  ELSE [Expect(t, t.algorithms) EXCEPT
          !.in_flight_write = Head(t.write_requests),
          !.write_requests = Tail(@), !.write_cb = TRUE]

AdvanceQueueIfNeeded(t, w) ==
  IF ~t.started \/ t.in_flight_write # NoCall THEN t
  ELSE IF t.state = "erroring" THEN FinishErroring(t, w)
  ELSE IF t.queue = <<>> THEN t
  ELSE IF Head(t.queue).id = CloseSentinel THEN ProcessClose(t, w)
  ELSE ProcessWrite(t)

Enqueue(t, id, size) ==
  [t EXCEPT !.queue = Append(@, [id |-> id, size |-> size]),
            !.total = @ + size]
(* Planted fault: the chunk is read and not removed. *)
DequeuePeekFault(t) == Expect(t, t.queue # <<>>)

Dequeue(t) ==
  IF t.queue = <<>> THEN Expect(t, FALSE)
  ELSE [t EXCEPT !.queue = Tail(@),
                 !.total = IF @ < Head(t.queue).size THEN 0
                           ELSE @ - Head(t.queue).size]

----------------------------------------------------------------------------
(* Calls.  A call may be made from the top, or by user code that a Rust    *)
(* call of `frames` waits for.  Callbacks run when the stack is empty.     *)
CanCall == Len(frames) < MaxDepth
NewCall == CanCall /\ calls < MaxCalls
Idle == frames = <<>>
Top == frames[Len(frames)]
Frame(op, w, k) == [op |-> op, w |-> w, k |-> k]

GetWriter(w) ==
  /\ CanCall
  /\ s.writer = NoWriter
  /\ s.ready[w] = "none"
  /\ s' = [s EXCEPT
             !.writer = w,
             !.ready[w] =
               CASE s.state = "writable" ->
                      IF ~CloseQueuedOrInFlight(s) /\ s.backpressure
                        THEN "pending" ELSE "fulfilled"
                 [] s.state = "closed" -> "fulfilled"
                 [] OTHER -> "rejected",
             !.closed[w] =
               CASE s.state = "closed" -> "fulfilled"
                 [] s.state = "errored" -> "rejected"
                 [] OTHER -> "pending"]
  /\ UNCHANGED <<frames, calls>>

ReleaseLock(w) ==
  /\ CanCall
  /\ s.writer = w
  /\ s' = [EnsureReadyPromiseRejected(s, w) EXCEPT
             !.closed[w] = "rejected", !.writer = NoWriter]
  /\ UNCHANGED <<frames, calls>>

(* The rest of write(), once size() has returned `size`, thrown (Throws)   *)
(* or returned something that is not a size (Invalid).                     *)
WriteAfterSize(t, w, k, size) ==
  LET u == IF size = Throws /\ t.state = "writable"
             THEN ControllerError(t, w, "size") ELSE t
      accepted == [u EXCEPT !.promise[k] = "pending",
                            !.write_requests = Append(@, k)]
  IN  IF u.writer # w \/ u.state # "writable" \/ CloseQueuedOrInFlight(u)
        THEN [u EXCEPT !.promise[k] = "rejected"]
      ELSE IF size = Invalid THEN ControllerError(accepted, w, "range")
      ELSE AdvanceQueueIfNeeded(
             RefreshBackpressure(Enqueue(accepted, k, size), w), w)

(* A cleared size algorithm counts every chunk as 1 and runs no user code. *)
WriteWithoutSize(w) ==
  /\ NewCall
  /\ s.writer = w
  /\ ~s.algorithms
  /\ s' = WriteAfterSize(s, w, calls + 1, 1)
  /\ calls' = calls + 1
  /\ UNCHANGED frames

WriteCallsSize(w) ==
  /\ NewCall
  /\ s.writer = w
  /\ s.algorithms
  /\ frames' = Append(frames, Frame("write", w, calls + 1))
  /\ calls' = calls + 1
  /\ UNCHANGED s

SizeResult(result) ==
  /\ ~Idle
  /\ Top.op = "write"
  /\ s' = WriteAfterSize(s, Top.w, Top.k, result)
  /\ frames' = Front(frames)
  /\ UNCHANGED calls

SizeReturns == \E size \in Sizes : SizeResult(size)
SizeThrows == SizeResult(Throws)
SizeInvalid == SizeResult(Invalid)

WritableStreamClose(t, w, k) ==
  IF t.state \in {"closed", "errored"}
    THEN [t EXCEPT !.promise[k] = "rejected"]
  ELSE AdvanceQueueIfNeeded(
         Enqueue([t EXCEPT
                    !.promise[k] = "pending", !.close_request = k,
                    !.ready = IF t.backpressure /\ t.state = "writable"
                                THEN Settle(@, w, "fulfilled") ELSE @],
                 CloseSentinel, 0), w)

(* writer.close(), and stream.close() (w = NoWriter), which needs the      *)
(* stream unlocked.                                                        *)
Close(w) ==
  /\ NewCall
  /\ s.writer = w
  /\ s' = IF CloseQueuedOrInFlight(s)
            THEN [s EXCEPT !.promise[calls + 1] = "rejected"]
            ELSE WritableStreamClose(s, w, calls + 1)
  /\ calls' = calls + 1
  /\ UNCHANGED frames

(* Planted fault: the state is not read again after the listeners ran. *)
AbortStaleStateFault(t, w, k) ==
  IF t.pending_abort # NoCall THEN t
  ELSE StartErroring([t EXCEPT !.promise[k] = "pending", !.pending_abort = k,
                               !.was_already_erroring = FALSE], w, "abort")

(* The rest of abort(), once the listeners of the signal have run.  A call *)
(* that finds an abort pending returns that abort's promise.               *)
AbortAfterSignal(t, w, k) ==
  LET u == [t EXCEPT !.promise[k] = "pending", !.pending_abort = k,
                     !.was_already_erroring = t.state = "erroring"]
  IN  IF t.state \in {"closed", "errored"}
        THEN [t EXCEPT !.promise[k] = "fulfilled"]
      ELSE IF t.pending_abort # NoCall THEN t
      ELSE IF t.state = "erroring" THEN u
      ELSE StartErroring(u, w, "abort")

(* writer.abort(), and stream.abort() (w = NoWriter), when the signal has  *)
(* fired before, or is not fired at all.                                   *)
AbortSilent(w) ==
  /\ NewCall
  /\ s.writer = w
  /\ s.signalled \/ s.state \in {"closed", "errored"}
  /\ s' = AbortAfterSignal(s, w, calls + 1)
  /\ calls' = calls + 1
  /\ UNCHANGED frames

AbortSignals(w) ==
  /\ NewCall
  /\ s.writer = w
  /\ ~s.signalled
  /\ s.state \notin {"closed", "errored"}
  /\ s' = [s EXCEPT !.signalled = TRUE]
  /\ frames' = Append(frames, Frame("abort", w, calls + 1))
  /\ calls' = calls + 1

ListenersReturn ==
  /\ ~Idle
  /\ Top.op = "abort"
  /\ s' = AbortAfterSignal(s, Top.w, Top.k)
  /\ frames' = Front(frames)
  /\ UNCHANGED calls

(* A listener that throws makes abort() throw before it aborts anything.   *)
ListenerThrows ==
  /\ ~Idle
  /\ Top.op = "abort"
  /\ frames' = Front(frames)
  /\ UNCHANGED <<s, calls>>

(* controller.error(), which the sink may call at any time.                *)
ErrorCall ==
  /\ CanCall
  /\ s.state = "writable"
  /\ s' = ControllerError(s, s.writer, "controller")
  /\ UNCHANGED <<frames, calls>>

----------------------------------------------------------------------------
(* Callbacks of the sink's promises.                                       *)
Callback == Idle /\ UNCHANGED <<frames, calls>>

Started(t) == [t EXCEPT !.started = TRUE, !.start_cb = FALSE]
StartFulfilled ==
  /\ s.start_cb
  /\ Callback
  /\ s' = AdvanceQueueIfNeeded(Started(s), s.writer)

StartRejected ==
  /\ s.start_cb
  /\ Callback
  /\ s' = DealWithRejection(Started(s), s.writer, "start")

FinishInFlightWrite(t, v) ==
  [Expect(t, t.in_flight_write # NoCall) EXCEPT
     !.promise = Settle(@, t.in_flight_write, v),
     !.in_flight_write = NoCall, !.write_cb = FALSE]
(* Planted fault: the end of a write does not hand over the next chunk. *)
WriteFulfilledFault ==
  /\ s.write_cb
  /\ Callback
  /\ s' = RefreshBackpressure(
             Dequeue(FinishInFlightWrite(s, "fulfilled")), s.writer)

WriteFulfilled ==
  /\ s.write_cb
  /\ Callback
  /\ s' = AdvanceQueueIfNeeded(
             RefreshBackpressure(
               Dequeue(FinishInFlightWrite(s, "fulfilled")), s.writer),
             s.writer)

WriteRejected ==
  /\ s.write_cb
  /\ Callback
  /\ LET t == IF s.state = "writable" THEN ClearAlgorithms(s) ELSE s
     IN  s' = DealWithRejection(FinishInFlightWrite(t, "rejected"),
                                s.writer, "write")

FinishInFlightClose(t, v) ==
  [Expect(t, t.in_flight_close # NoCall) EXCEPT
     !.promise = Settle(@, t.in_flight_close, v),
     !.in_flight_close = NoCall, !.close_cb = "done"]
(* An abort() that came while close was in flight ends as the close does.  *)
SettlePendingAbort(t, v) ==
  [t EXCEPT !.promise = Settle(@, t.pending_abort, v),
            !.pending_abort = NoCall]

CloseFulfilled ==
  /\ s.close_cb = "waiting"
  /\ Callback
  /\ LET t == FinishInFlightClose(s, "fulfilled")
         u == IF t.state = "erroring"
                THEN SettlePendingAbort(t, "fulfilled") ELSE t
     IN  s' = [u EXCEPT !.state = "closed", !.err = NoError,
                        !.closed = Settle(@, s.close_writer, "fulfilled")]

CloseRejected ==
  /\ s.close_cb = "waiting"
  /\ Callback
  /\ LET t == SettlePendingAbort(FinishInFlightClose(s, "rejected"),
                                 "rejected")
     IN  s' = DealWithRejection(t, s.close_writer, "close")

AbortSettled(v) ==
  /\ s.abort_cb # NoCall
  /\ Callback
  /\ s' = RejectCloseAndClosedPromiseIfNeeded(
             [s EXCEPT !.promise = Settle(@, s.abort_cb, v),
                       !.abort_cb = NoCall], s.writer)

AbortFulfilled == AbortSettled("fulfilled")
AbortRejected == AbortSettled("rejected")

Callbacks ==
  \/ StartFulfilled \/ StartRejected
  \/ WriteFulfilled \/ WriteRejected
  \/ CloseFulfilled \/ CloseRejected
  \/ AbortFulfilled \/ AbortRejected

UserReturns ==
  \/ SizeReturns \/ SizeThrows \/ SizeInvalid
  \/ ListenersReturn \/ ListenerThrows

Next ==
  \/ \E w \in Writers :
       \/ GetWriter(w) \/ ReleaseLock(w)
       \/ WriteWithoutSize(w) \/ WriteCallsSize(w)
  \/ \E w \in Writers \cup {NoWriter} :
       \/ Close(w) \/ AbortSilent(w) \/ AbortSignals(w)
  \/ ErrorCall
  \/ UserReturns
  \/ Callbacks

Spec == Init /\ [][Next]_vars

(* The sink's promises settle, and a callback that is queued runs; user    *)
(* code that Rust calls returns: weak fairness, with the condition that    *)
(* enables the steps written out.                                          *)
Owing ==
  \/ frames # <<>> \/ s.start_cb \/ s.write_cb
  \/ s.close_cb = "waiting" \/ s.abort_cb # NoCall
Owed == UserReturns \/ Callbacks
FairSpec == Spec /\ (<>[]Owing => []<><<Owed>>_vars)

----------------------------------------------------------------------------
OptCalls == Calls \cup {NoCall}
OptWriters == Writers \cup {NoWriter}
Chunks == [id : OptCalls, size : Nat]
Streams ==
  [ state : States, err : Errors \cup {NoError}, backpressure : BOOLEAN,
    writer : OptWriters, write_requests : Seq(Calls),
    close_request : OptCalls, in_flight_write : OptCalls,
    in_flight_close : OptCalls, pending_abort : OptCalls,
    was_already_erroring : BOOLEAN, started : BOOLEAN,
    queue : Seq(Chunks),
    total : Nat, algorithms : BOOLEAN, signalled : BOOLEAN,
    start_cb : BOOLEAN, write_cb : BOOLEAN,
    close_cb : {"idle", "waiting", "done"}, close_writer : OptWriters,
    abort_cb : OptCalls, promise : [Calls -> Promises],
    ready : [Writers -> Promises], closed : [Writers -> Promises],
    panicked : BOOLEAN ]

Frames == [op : {"write", "abort"}, w : OptWriters, k : Calls]

(* The types of the stream's fields.                                       *)
TypeOK ==
  /\ s \in Streams
  /\ frames \in Seq(Frames)
  /\ calls \in 0 .. MaxCalls

(* No expect() of the writable code fails and its panic!() is not reached: *)
(* a callback finds the request it is about, a chunk its write request,    *)
(* and no algorithm of the sink is called after it was cleared.            *)
NoPanic == ~s.panicked

(* The promises that the stream or a callback still holds.                 *)
Owned(t) ==
  Range(t.write_requests) \cup
    {t.in_flight_write, t.in_flight_close, t.close_request,
     t.pending_abort, t.abort_cb}

(* Every pending promise of write(), close() or abort() is held by the     *)
(* stream or by a callback, and a request that is held is pending: no      *)
(* request is dropped, and none is settled twice.                          *)
NoOrphanPromise ==
  \A k \in Calls : s.promise[k] = "pending" <=> k \in Owned(s)

QueueMatches(t) ==
  LET first == IF t.in_flight_write = NoCall THEN 0 ELSE 1
      n == Len(t.write_requests)
      last == IF t.close_request = NoCall THEN 0 ELSE 1
  IN  /\ t.state = "writable" =>
           /\ Len(t.queue) = first + n + last
           /\ \A i \in 1 .. n : t.queue[first + i].id = t.write_requests[i]
           /\ last = 1 => t.queue[first + n + 1].id = CloseSentinel
      /\ first = 1 => t.queue # <<>> /\ t.queue[1].id = t.in_flight_write
      /\ t.state \in {"closed", "errored"} =>
           t.queue = <<>> /\ t.write_requests = <<>>

(* While the stream is writable the chunks in the controller's queue are   *)
(* those of the write in flight and of the write requests, in the order of *)
(* the writes, followed by the close sentinel when a close waits.  A       *)
(* stream that is not writable still has the chunk of the write in flight. *)
QueueMatchesRequests == QueueMatches(s)

(* Nothing is left behind: a started stream with no sink call under way    *)
(* has an empty queue, and is not in the middle of erroring.               *)
NothingStuck ==
  s.started /\ ~HasOperationInFlight(s) =>
    s.state # "erroring" /\ s.queue = <<>>

(* queue_total_size is the sum of the sizes in the queue.                  *)
TotalIsSum == s.total = FoldLeft(LAMBDA a, e : a + e.size, 0, s.queue)

(* The backpressure the stream shows is that of the queue as it is now,    *)
(* as long as writes are accepted.                                         *)
BackpressureReflectsQueue ==
  s.state = "writable" /\ ~CloseQueuedOrInFlight(s)
    => (s.backpressure <=> s.total >= HWM)

(* What the stream holds twice agrees: the chunks in the queue and the     *)
(* requests, the sizes and their sum, the sum and the backpressure.        *)
Consistent ==
  TypeOK /\ QueueMatchesRequests /\ TotalIsSum /\ BackpressureReflectsQueue

(* The end of the sink's close settles the promises of the writer it was   *)
(* started with; a writer that took the lock since then is not told.       *)
ToldOfClose == s.close_cb = "done" => s.close_writer = s.writer

(* writer.ready of the writer that holds the lock is pending exactly when  *)
(* backpressure asks it to wait, and rejected once the stream errors.      *)
ReadyReflectsState ==
  s.writer # NoWriter /\ ToldOfClose =>
    CASE s.state = "writable" ->
           s.ready[s.writer] = IF s.backpressure /\ ~CloseQueuedOrInFlight(s)
                                 THEN "pending" ELSE "fulfilled"
      [] s.state = "closed" -> s.ready[s.writer] # "pending"
      [] OTHER -> s.ready[s.writer] = "rejected"

(* Once the stream is errored and the sink's abort has ended, writer.closed *)
(* of the writer that holds the lock is rejected.                          *)
ClosedRejectedOnError ==
  ( /\ s.state = "errored" /\ s.abort_cb = NoCall
    /\ s.writer # NoWriter /\ ToldOfClose )
    => s.closed[s.writer] = "rejected"

(* What the writer that holds the lock is told by its two promises is how  *)
(* the stream stands.                                                      *)
WriterKnowsState == ReadyReflectsState /\ ClosedRejectedOnError

(* The lifecycle of the stream: a step changes the state only along        *)
(* writable -> erroring -> errored, or to closed by the sink's close; the  *)
(* stored error does not change while the stream is erroring or errored;   *)
(* and what has been settled stays settled.                                *)
LifecycleStep ==
  /\ s'.state # s.state =>
       \/ s.state = "writable"
       \/ s.state = "erroring" /\ s'.state \in {"errored", "closed"}
  /\ s'.state = "closed" /\ s.state # "closed" =>
       s.in_flight_close # NoCall /\ s.write_requests = <<>>
  /\ s.state \in {"erroring", "errored"} =>
       s'.err = s.err \/ s'.state = "closed"
  /\ \A k \in Calls :
       s.promise[k] \in {"fulfilled", "rejected"} => s'.promise[k] = s.promise[k]

Lifecycle == [][LifecycleStep]_vars

Backlog(t) ==
  (IF t.in_flight_write = NoCall THEN <<>> ELSE <<t.in_flight_write>>)
    \o t.write_requests

(* Chunks reach the sink in the order of the writes: a step adds one write *)
(* at the end, settles the first one, or errors out all that are left.     *)
WriteOrderStep ==
  LET old == Backlog(s)
      new == Backlog(s')
  IN  \/ new = old
      \/ \E k \in Calls : s.promise[k] = "none" /\ new = Append(old, k)
      \/ /\ old # <<>> /\ new = Tail(old)
         /\ s'.promise[Head(old)] # "pending"
      \/ /\ new = <<>>
         /\ \A i \in DOMAIN old :
              \/ s'.promise[old[i]] = "rejected"
              \/ i = 1 /\ s'.promise[old[i]] = "fulfilled"

WriteOrder == [][WriteOrderStep]_vars

NoCallWaits == \A k \in Calls : s.promise[k] # "pending"

(* Every promise that write(), close() and abort() return is settled.      *)
EveryCallSettles == []<>NoCallWaits

=============================================================================
