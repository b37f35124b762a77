--------------------------- MODULE TransformStream ---------------------------
(***************************************************************************)
(* TransformStream (transform/stream.rs, transform/controller.rs): a       *)
(* WritableStream whose sink feeds the controller of a ReadableStream.     *)
(* The two ends are records of WritableStream and ReadableStream and move  *)
(* by their operators; their algorithms (sink write, close and abort,      *)
(* source pull and cancel) are the operators below, called whenever an     *)
(* operator of an end has called for one.                                  *)
(*                                                                         *)
(* Each chain of reactions (of the write in flight, of the close, of the   *)
(* cancel, of the pull) is a field that tells how far it has come, and     *)
(* the next reaction is an action: the chains may overtake each other.     *)
(* The transformer's flush() and cancel() are called before the promise    *)
(* they return is stored, so `calling` says that one is on the stack.      *)
(***************************************************************************)
EXTENDS Integers, Sequences, SequencesExt

CONSTANTS
  MaxWrites,          \* bound on the calls of write()
  MaxReads,           \* bound on the calls of read()
  MaxChunks,          \* bound on the chunks the transformer enqueues
  Reader, NoReader,   \* the reader of the readable side; Option::None
  Writer, NoWriter,   \* the writer of the writable side; Option::None
  HWMs                \* high water marks of the readable side

VARIABLE
  w   \* wr: the writable side; rd: the readable side; ts: the transform
      \* stream, its controller, and the chains of reactions

wr == w.wr
rd == w.rd
ts == w.ts

R == INSTANCE ReadableStream WITH
       s <- w.rd, frames <- <<>>, hist <- <<>>, config <- [hwm |-> w.ts.hwm],
       Readers <- {Reader}, Sizes <- {1}
W == INSTANCE WritableStream WITH
       s <- w.wr, frames <- <<>>, calls <- 0, Writers <- {Writer},
       Sizes <- {1}, HWM <- 1, MaxDepth <- 1, MaxCalls <- MaxWrites + 2

(* new TransformStream(), with a writer and a reader taken at once.        *)
Init ==
  \E kind \in {"identity", "functions"}, hwm \in HWMs :
    /\ kind = "functions" => hwm = 0
    /\ w = [ wr |-> [ state |-> "writable", err |-> W!NoError,
                      backpressure |-> FALSE, writer |-> Writer,
                      write_requests |-> <<>>, close_request |-> W!NoCall,
                      in_flight_write |-> W!NoCall, in_flight_close |-> W!NoCall,
                      pending_abort |-> W!NoCall, was_already_erroring |-> FALSE,
                      started |-> FALSE, queue |-> <<>>, total |-> 0,
                      algorithms |-> TRUE, signalled |-> FALSE,
                      start_cb |-> TRUE, write_cb |-> FALSE, close_cb |-> "idle",
                      close_writer |-> NoWriter, abort_cb |-> W!NoCall,
                      promise |-> [k \in W!Calls |-> "none"],
                      ready |-> [x \in {Writer} |-> "fulfilled"],
                      closed |-> [x \in {Writer} |-> "pending"],
                      panicked |-> FALSE ],
             rd |-> R!AcquireReader(R!NewStream("starting"), Reader),
             ts |-> [ kind |-> kind, hwm |-> hwm, calls |-> 0, offered |-> 0,
                      backpressure |-> TRUE, change |-> "pending",
                      algorithms |-> TRUE, calling |-> "none",
                      write |-> "none", pull |-> "none",
                      flush |-> "none", flush_started |-> FALSE,
                      cancel |-> "none", cancel_by |-> "none",
                      cancel_started |-> FALSE, cancel_callback |-> FALSE,
                      cancel_error |-> FALSE, override |-> FALSE,
                      close_of |-> "none", abort_of |-> "none",
                      cancelled |-> "none", passed |-> <<>>, writes |-> {},
                      spoiled |-> FALSE ] ]

(* Nothing runs after a panic.                                             *)
Becomes(m) == ~wr.panicked /\ w' = m

----------------------------------------------------------------------------
(* backpressure_change_promise settles: the write that waits for it and    *)
(* the pull that returned it go on.                                        *)
ChangeSettles(m, v) ==
  IF m.ts.change = "none" THEN m
  ELSE [m EXCEPT !.ts.write = IF @ # "blocked" THEN @
                              ELSE IF v = "fulfilled" THEN "unblocked"
                              ELSE "refused",
                 !.ts.pull = IF @ = "waiting" THEN v ELSE @]

SetBackpressure(m, b) ==
  [ChangeSettles(m, "fulfilled") EXCEPT !.ts.change = "pending",
                                        !.ts.backpressure = b]

UnblockWrite(m) ==
  [ChangeSettles(m, "rejected") EXCEPT
     !.ts.algorithms = FALSE, !.ts.change = "none", !.ts.backpressure = FALSE]

(* The readable side is now t; source_pull_algorithm runs if t calls it.   *)
SetRd(m, t) ==
  LET n == [m EXCEPT !.rd = t]
      called == t.pull_cb = "called" /\ m.rd.pull_cb # "called"
  IN  IF called THEN [SetBackpressure(n, FALSE) EXCEPT !.ts.pull = "waiting"]
      ELSE n

(* WritableStream::error_stream: nothing is pending there that it calls.   *)
ErrorWritable(m) ==
  IF m.wr.state # "writable" THEN m
  ELSE [m EXCEPT !.wr = W!StartErroring(@, Writer, "controller")]

ErrorWritableAndUnblockWrite(m) == UnblockWrite(ErrorWritable(m))

(* Planted fault: the readable side is not told. *)
TransformStreamErrorFault(m) ==
  ErrorWritableAndUnblockWrite(
    [m EXCEPT !.ts.cancel_error = @ \/ m.ts.cancel_callback])

TransformStreamError(m) ==
  LET n == [m EXCEPT !.ts.cancel_error = @ \/ m.ts.cancel_callback]
  IN  ErrorWritableAndUnblockWrite(
        SetRd(n, R!ControllerError(n.rd, n.rd.reader)))

(* transform_stream_default_controller_enqueue: [ok, m].                   *)
Enqueue(m, c, size) ==
  IF ~R!CanCloseOrEnqueue(m.rd) THEN [ok |-> FALSE, m |-> ErrorWritable(m)]
  ELSE LET n == SetRd(m, IF R!Requested(m.rd, m.rd.reader)
                           THEN R!EnqueueFulfilling(m.rd, m.rd.reader, c)
                           ELSE R!EnqueueAfterSize(m.rd, m.rd.reader, c, size))
           full == n.ts.hwm - n.rd.total <= 0
       IN  IF n.rd.state # "readable"
             THEN [ok |-> FALSE,
                   m |-> [ErrorWritable(n) EXCEPT !.ts.spoiled = TRUE]]
           ELSE [ok |-> TRUE, m |-> IF full # n.ts.backpressure
                                      THEN SetBackpressure(n, full) ELSE n]

PerformTransform(m) ==
  IF ~m.ts.algorithms THEN [m EXCEPT !.ts.write = "failed"]
  ELSE IF m.ts.kind = "functions" THEN [m EXCEPT !.ts.write = "running"]
  ELSE LET r == Enqueue(m, m.wr.in_flight_write, 1)
       IN  [r.m EXCEPT !.ts.write = IF r.ok THEN "ok" ELSE "failed",
                       !.ts.passed = IF r.ok
                                       THEN Append(@, m.wr.in_flight_write)
                                       ELSE @]

----------------------------------------------------------------------------
(* The algorithms of the sink and of the source.                           *)
SinkWrite(m) ==
  IF m.ts.backpressure /\ m.ts.change # "none"
    THEN [m EXCEPT !.ts.write = "blocked"]
  ELSE PerformTransform(m)

(* `cancel` is "done ..." once the promise that cancel_promise holds, of   *)
(* the reaction to cancel(), is settled.                                   *)
CancelPromise(m) == m.ts.cancel \notin {"none", "calling"}

SinkClose(m) ==
  IF CancelPromise(m) THEN [m EXCEPT !.ts.close_of = "cancel"]
  ELSE IF m.ts.cancel_started THEN [m EXCEPT !.ts.close_of = "resolved"]
  ELSE LET n == [m EXCEPT !.ts.flush_started = TRUE, !.ts.close_of = "flush"]
       IN  IF m.ts.kind = "functions" /\ m.ts.algorithms
             THEN [n EXCEPT !.ts.calling = "flush"]
             ELSE [n EXCEPT !.ts.flush = "ok"]

(* perform_cancel, whose promise is resolved where there is no cancel().   *)
PerformCancel(m, by) ==
  LET n == [m EXCEPT !.ts.cancel_started = TRUE, !.ts.cancel_by = by]
  IN  IF m.ts.kind = "functions" /\ m.ts.algorithms
        THEN [n EXCEPT !.ts.calling = "cancel", !.ts.cancel = "calling",
                       !.ts.cancel_callback = TRUE]
        ELSE [n EXCEPT !.ts.cancel = "ok"]

SinkAbort(m) ==
  IF CancelPromise(m) THEN [m EXCEPT !.ts.abort_of = "cancel"]
  ELSE IF m.ts.cancel_started
    THEN [m EXCEPT !.ts.override = TRUE, !.ts.abort_of = "rejected"]
  ELSE PerformCancel([m EXCEPT !.ts.abort_of = "cancel"], "sink")

SourceCancel(m) ==
  IF m.ts.flush # "none" THEN [m EXCEPT !.ts.cancelled = "flush"]
  ELSE IF m.ts.flush_started \/ m.ts.cancel_started
    THEN [m EXCEPT !.ts.cancelled = "resolved"]
  ELSE PerformCancel([m EXCEPT !.ts.cancelled = "cancel"], "source")

(* The writable side is now e; the sink's algorithm that e calls runs.     *)
SetWr(m, e) ==
  LET n == [m EXCEPT !.wr = e]
  IN  CASE e.write_cb /\ ~m.wr.write_cb -> SinkWrite(n)
        [] e.close_cb = "waiting" /\ m.wr.close_cb # "waiting" -> SinkClose(n)
        [] e.abort_cb # W!NoCall /\ m.wr.abort_cb = W!NoCall -> SinkAbort(n)
        [] OTHER -> n

----------------------------------------------------------------------------
(* Calls of the program.  They may be made within flush() and cancel().    *)
NextCall == ts.calls + 1
Called(m) == [m EXCEPT !.ts.calls = @ + 1]

Write ==
  /\ ts.calls < MaxWrites
  /\ Becomes(SetWr([Called(w) EXCEPT !.ts.writes = @ \cup {NextCall}],
                   W!WriteAfterSize(wr, Writer, NextCall, 1)))

Close ==
  /\ ts.calls <= MaxWrites
  /\ ~W!CloseQueuedOrInFlight(wr)
  /\ Becomes(SetWr(Called(w), W!WritableStreamClose(wr, Writer, NextCall)))

Abort ==
  /\ ts.calls <= MaxWrites + 1
  /\ wr.state \in {"writable", "erroring"} /\ wr.pending_abort = W!NoCall
  /\ Becomes(SetWr(Called(w),
                   W!AbortAfterSignal([wr EXCEPT !.signalled = TRUE], Writer,
                                      NextCall)))

Read ==
  \E k \in R!Reads :
    /\ R!IsNextRead(rd, k)
    /\ Becomes(SetRd(w, R!DefaultReaderRead(rd, Reader, k)))

Cancel ==
  /\ rd.state = "readable" /\ ts.cancelled = "none"
  /\ Becomes(SourceCancel(SetRd(w, R!StreamCancel(rd, Reader))))

(* The controller, which transform() and flush() use, and others may.      *)
EnqueueCall ==
  /\ ts.kind = "functions" /\ ts.offered < MaxChunks
  /\ \E size \in {1, R!Throws} :
       Becomes(Enqueue([w EXCEPT !.ts.offered = @ + 1], NextCall, size).m)

ErrorCall ==
  /\ ts.kind = "functions"
  /\ Becomes(TransformStreamError(w))

TerminateCall ==
  /\ ts.kind = "functions"
  /\ Becomes(ErrorWritableAndUnblockWrite(
               SetRd(w, R!ControllerClose(rd, rd.reader))))

(* The transformer's functions answer.                                     *)
Outcomes == {"ok", "failed"}

FlushReturns ==
  /\ ts.calling = "flush"
  /\ Becomes([w EXCEPT !.ts.calling = "none", !.ts.flush = "pending"])

CancelReturns ==
  /\ ts.calling = "cancel"
  /\ Becomes([w EXCEPT !.ts.calling = "none", !.ts.cancel = "pending"])

Idle == ts.calling = "none"

TransformSettles ==
  /\ ts.write = "running"
  /\ \E v \in Outcomes : Becomes([w EXCEPT !.ts.write = v])

FlushSettles ==
  /\ ts.flush = "pending"
  /\ \E v \in Outcomes : Becomes([w EXCEPT !.ts.flush = v])

CancelSettles ==
  /\ ts.cancel = "pending"
  /\ \E v \in Outcomes : Becomes([w EXCEPT !.ts.cancel = v])

----------------------------------------------------------------------------
(* Reactions.                                                              *)
Start ==
  /\ Idle /\ wr.start_cb
  /\ LET e == [wr EXCEPT !.started = TRUE, !.start_cb = FALSE]
     IN  \/ Becomes(SetWr(w, W!AdvanceQueueIfNeeded(e, Writer)))
         \/ /\ ts.kind = "functions"
            /\ Becomes(TransformStreamError(
                         SetWr(w, W!DealWithRejection(e, Writer, "start"))))

ReadableStarts ==
  /\ Idle /\ rd.phase = "starting"
  /\ Becomes(SetRd(w, R!CallPullIfNeeded(
                        [rd EXCEPT !.phase = "open", !.started = TRUE],
                        Reader)))

PullSettles ==
  /\ Idle /\ ts.pull \in {"fulfilled", "rejected"}
  /\ LET m == [w EXCEPT !.ts.pull = "none"]
         t == [rd EXCEPT !.pull_cb = "none", !.pulling = FALSE,
                         !.pull_again = FALSE]
     IN  Becomes(
           IF ts.pull = "rejected"
             THEN SetRd(m, R!ControllerError([rd EXCEPT !.pull_cb = "none"],
                                             Reader))
           ELSE SetRd([m EXCEPT !.rd = t],
                      IF rd.pull_again THEN R!CallPullIfNeeded(t, Reader)
                      ELSE t))

(* The write that waited for the change of backpressure.                   *)
WriteUnblocks ==
  /\ Idle /\ ts.write \in {"unblocked", "refused"}
  /\ Becomes(IF ts.write = "refused" \/ wr.state \in {"erroring", "errored"}
               THEN [w EXCEPT !.ts.write = "failed"]
               ELSE PerformTransform(w))

(* The reaction to the transform, and that of the stream to the write.     *)
TransformReaction ==
  /\ Idle /\ ts.write \in Outcomes
  /\ Becomes(IF ts.write = "ok" THEN [w EXCEPT !.ts.write = "done ok"]
             ELSE [TransformStreamError(w) EXCEPT
                     !.ts.write = "done failed"])

WriteSettles ==
  /\ Idle /\ ts.write \in {"done ok", "done failed"}
  /\ LET m == [w EXCEPT !.ts.write = "none"]
         fulfilled == W!RefreshBackpressure(
                        W!Dequeue(W!FinishInFlightWrite(wr, "fulfilled")),
                        Writer)
         t == IF wr.state = "writable" THEN W!ClearAlgorithms(wr) ELSE wr
     IN  Becomes(IF ts.write = "done ok"
                   THEN SetWr([m EXCEPT !.wr = fulfilled],
                              W!AdvanceQueueIfNeeded(fulfilled, Writer))
                   ELSE SetWr(m, W!DealWithRejection(
                                   W!FinishInFlightWrite(t, "rejected"),
                                   Writer, "write")))

FinishCloseWithError(e, x) ==
  W!DealWithRejection(
    W!SettlePendingAbort(W!FinishInFlightClose(e, "rejected"), "rejected"),
    x, "close")

(* The reaction to flush().  With the readable side errored meanwhile the  *)
(* close in flight is ended here, and the sink's promise is fulfilled.     *)
FlushReaction ==
  /\ Idle /\ ts.flush \in Outcomes
  /\ LET m == [w EXCEPT !.ts.algorithms = FALSE]
         ended == IF wr.in_flight_close = W!NoCall THEN wr
                  ELSE [FinishCloseWithError(wr, NoWriter) EXCEPT
                          !.close_cb = wr.close_cb]
         closed == SetRd([ChangeSettles(m, "fulfilled") EXCEPT
                            !.ts.change = "none"],
                         R!ControllerClose(rd, rd.reader))
     IN  Becomes(
           IF ts.flush = "failed"
             THEN [TransformStreamError(m) EXCEPT !.ts.flush = "done failed"]
           ELSE IF rd.state = "errored" /\ wr.err # W!NoError
             THEN [SetWr(m, ended) EXCEPT !.ts.flush = "done ok"]
           ELSE [closed EXCEPT !.ts.flush = "done ok"])

(* The reaction to cancel(), called by the sink's abort or by the source's *)
(* cancel.                                                                 *)
CancelReaction ==
  /\ Idle /\ ts.cancel \in Outcomes
  /\ LET m == [w EXCEPT !.ts.algorithms = FALSE, !.ts.cancel_callback = FALSE]
         failed == ts.cancel = "failed"
         erred == ts.cancel_error \/ (ts.cancel_by = "source" /\ ts.override)
         n == IF ts.cancel_by = "sink" THEN TransformStreamError(m)
              ELSE ErrorWritableAndUnblockWrite(m)
         v == IF failed \/ erred THEN "done failed" ELSE "done ok"
     IN  Becomes([IF erred /\ ~failed THEN m ELSE n EXCEPT !.ts.cancel = v])

Answer(of) ==
  CASE of = "resolved" -> "done ok"
    [] of = "rejected" -> "done failed"
    [] of = "flush"    -> ts.flush
    [] of = "cancel"   -> ts.cancel
    [] OTHER -> "none"

Done == {"done ok", "done failed"}

(* The stream's reaction to the promise that the sink's close returned.    *)
CloseSettles ==
  /\ Idle /\ wr.close_cb = "waiting" /\ Answer(ts.close_of) \in Done
  /\ LET m == [w EXCEPT !.ts.close_of = "none"]
         t == W!FinishInFlightClose(wr, "fulfilled")
         u == IF t.state = "erroring"
                THEN W!SettlePendingAbort(t, "fulfilled") ELSE t
     IN  Becomes(IF Answer(ts.close_of) = "done ok"
                   THEN [m EXCEPT !.wr = [u EXCEPT
                           !.state = "closed", !.err = W!NoError,
                           !.closed = W!Settle(@, Writer, "fulfilled")]]
                   ELSE SetWr(m, FinishCloseWithError(wr, Writer)))

AbortSettles ==
  /\ Idle /\ wr.abort_cb # W!NoCall /\ Answer(ts.abort_of) \in Done
  /\ LET v == IF Answer(ts.abort_of) = "done ok" THEN "fulfilled"
              ELSE "rejected"
     IN  Becomes([w EXCEPT !.ts.abort_of = "none",
                    !.wr = W!RejectCloseAndClosedPromiseIfNeeded(
                             [wr EXCEPT !.promise = W!Settle(@, wr.abort_cb, v),
                                        !.abort_cb = W!NoCall], Writer)])

(* readable.cancel() answers its caller; flush_promise is the promise that *)
(* flush() returned, not that of the reaction to it.                       *)
CancelAnswered ==
  IF ts.cancelled = "flush" THEN ts.flush # "pending"
  ELSE Answer(ts.cancelled) \in Done

CancelAnswers ==
  /\ Idle /\ CancelAnswered
  /\ Becomes([w EXCEPT !.ts.cancelled = "answered"])

Program ==
  \/ Write \/ Close \/ Abort \/ Read \/ Cancel
  \/ EnqueueCall \/ ErrorCall \/ TerminateCall

Transformer ==
  \/ FlushReturns \/ CancelReturns
  \/ TransformSettles \/ FlushSettles \/ CancelSettles

Reactions ==
  \/ Start \/ ReadableStarts \/ PullSettles \/ WriteUnblocks
  \/ TransformReaction \/ WriteSettles \/ FlushReaction \/ CancelReaction
  \/ CloseSettles \/ AbortSettles \/ CancelAnswers

Next == Program \/ Transformer \/ Reactions

Spec == Init /\ [][Next]_w

(* The reactions that are due.                                             *)
Due ==
  \/ wr.start_cb \/ rd.phase = "starting"
  \/ ts.pull \in {"fulfilled", "rejected"}
  \/ ts.write \in {"unblocked", "refused"} \cup Outcomes \cup Done
  \/ ts.flush \in Outcomes \/ ts.cancel \in Outcomes
  \/ wr.close_cb = "waiting" /\ Answer(ts.close_of) \in Done
  \/ wr.abort_cb # W!NoCall /\ Answer(ts.abort_of) \in Done
  \/ CancelAnswered

Owes ==
  ts.calling # "none" \/ ts.write = "running" \/ ts.flush = "pending" \/
  ts.cancel = "pending"

(* Jobs run, and the transformer's functions return and settle their       *)
(* promises: weak fairness, with the enabling condition written out.       *)
Owing == (Due /\ Idle) \/ Owes
Owed == Reactions \/ Transformer
FairSpec == Spec /\ (<>[]Owing => []<><<Owed>>_w)

----------------------------------------------------------------------------
TypeOK ==
  /\ ts \in [ kind : {"identity", "functions"}, calls : 0..(MaxWrites + 2),
              offered : 0..MaxChunks, backpressure : BOOLEAN,
              change : {"none", "pending"}, algorithms : BOOLEAN,
              calling : {"none", "flush", "cancel"},
              write : {"none", "blocked", "unblocked", "refused", "running"}
                        \cup Outcomes \cup Done,
              pull : {"none", "waiting", "fulfilled", "rejected"},
              flush : {"none", "pending"} \cup Outcomes \cup Done,
              flush_started : BOOLEAN,
              cancel : {"none", "calling", "pending"} \cup Outcomes \cup Done,
              cancel_by : {"none", "sink", "source"},
              cancel_started : BOOLEAN, cancel_callback : BOOLEAN,
              cancel_error : BOOLEAN, override : BOOLEAN,
              close_of : {"none", "flush", "cancel", "resolved"},
              abort_of : {"none", "cancel", "rejected"},
              cancelled : {"none", "flush", "cancel", "resolved", "answered"},
              passed : Seq(1..(MaxWrites + 2)), hwm : HWMs,
              writes : SUBSET (1..(MaxWrites + 2)), spoiled : BOOLEAN ]
  /\ wr.state \in {"writable", "erroring", "errored", "closed"}
  /\ rd.state \in {"readable", "closed", "errored"}

(* The assertions of the two ends hold whatever the transform stream makes *)
(* them do (the expect() calls of writable/stream/mod.rs).                 *)
NoPanic == ~wr.panicked /\ ~rd.panicked

(* The close in flight was ended by the reaction to flush().               *)
EndedTwice == wr.close_cb = "waiting" /\ wr.in_flight_close = W!NoCall

(* cancel() and flush() never both run, and the two ends come to their end *)
(* together: with the readable side errored the writable side accepts      *)
(* nothing more; with the writable side closed, or errored and nothing     *)
(* left to run, the readable side is closed to the transformer             *)
(* (cancel_started, flush_started, transform_stream_error, terminate).     *)
EndsTogether ==
  /\ TypeOK
  /\ ~(ts.flush_started /\ ts.cancel_started)
  /\ rd.state = "errored" => wr.state # "writable"
  /\ wr.state = "closed" => ~R!CanCloseOrEnqueue(rd)
  /\ wr.state = "errored" /\ ~Due /\ ~Owes => ~R!CanCloseOrEnqueue(rd)

(* With the identity transform the chunks of the writes come out at the    *)
(* readable side once each and in order; a write that is fulfilled has     *)
(* passed its chunk on, and none is missing unless the readable side was   *)
(* errored or cancelled.  The wait for the change of backpressure in       *)
(* sink_write_algorithm keeps the queue within the high water mark.        *)
Arrived ==
  LET got == SelectSeq([k \in 1..MaxReads |-> rd.got[k]],
                       LAMBDA c : c # R!NoChunk)
  IN  got \o [i \in DOMAIN rd.queue |-> rd.queue[i].chunk]

PassedOn ==
  ts.kind = "identity" =>
    /\ IsPrefix(Arrived, ts.passed)
    /\ \A i, j \in DOMAIN ts.passed : i < j => ts.passed[i] < ts.passed[j]
    /\ rd.state # "errored" /\ ts.cancelled = "none" =>
         Arrived = ts.passed
    /\ \A k \in ts.writes :
         wr.promise[k] = "fulfilled" => Contains(ts.passed, k)
    /\ rd.total <= ts.hwm

(* No call waits for ever: each write, close and abort and the cancel of   *)
(* the readable side settles, or a write is held back and nobody reads     *)
(* (set_backpressure, error_writable_and_unblock_write).  Left out: a      *)
(* size() that throws in controller.enqueue() errors both sides, and does  *)
(* not unblock the write that is held back (`spoiled`).                    *)
HeldBack ==
  /\ ts.write = "blocked"
  /\ ~R!Requested(rd, Reader)
  /\ R!CanCloseOrEnqueue(rd) \/ ts.spoiled

NoCallWaits ==
  \/ wr.panicked
  \/ /\ ts.cancelled \notin {"flush", "cancel", "resolved"}
     /\ (\A k \in W!Calls : wr.promise[k] # "pending") \/ HeldBack

EveryCallSettles == []<>NoCallWaits
=============================================================================
