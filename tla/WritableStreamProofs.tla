------------------------ MODULE WritableStreamProofs ------------------------
(* Proofs about WritableStream, for every number of calls and writers.     *)
EXTENDS WritableStream, SequenceTheorems, TLAPS

USE DEF NoCall, CloseSentinel, OptCalls, OptWriters

(* How the callbacks, the requests in flight and the state hang together. *)
(* It holds between any two functions of the code.                         *)
Core(t) ==
  /\ t.panicked = FALSE
  /\ t.start_cb = TRUE <=> t.started = FALSE
  /\ t.write_cb = TRUE <=> t.in_flight_write # NoCall
  /\ t.close_cb = "waiting" <=> t.in_flight_close # NoCall
  /\ t.in_flight_write = NoCall \/ t.in_flight_close = NoCall
  /\ HasOperationInFlight(t) => t.started = TRUE
  /\ HasOperationInFlight(t) \/ t.started = FALSE =>
       t.state \in {"writable", "erroring"}
  /\ t.abort_cb # NoCall => t.state = "errored"
  /\ t.in_flight_close # NoCall =>
       t.queue = <<>> /\ t.write_requests = <<>> /\ t.close_request = NoCall
  /\ t.in_flight_write # NoCall =>
       t.queue # <<>> /\ t.queue[1].id = t.in_flight_write

(* A sink's abort that is due finds its algorithm.                         *)
AbortReady(t) ==
  t.pending_abort # NoCall /\ t.was_already_erroring = FALSE
    /\ t.in_flight_close = NoCall => t.algorithms = TRUE

(* With the algorithms and the queue: it holds between any two actions.    *)
Control(t) ==
  /\ Core(t)
  /\ AbortReady(t)
  /\ t.pending_abort # NoCall => t.state = "erroring"
  /\ t.state = "writable" /\ t.in_flight_close = NoCall =>
       t.algorithms = TRUE
  /\ QueueMatches(t)

(* What a stream looks like once the queue has been looked at.             *)
Rested(t) ==
  t.started = TRUE /\ ~HasOperationInFlight(t) =>
    t.state # "erroring" /\ t.queue = <<>>

----------------------------------------------------------------------------
(* Types.  Each function of the code yields a stream.                      *)

(* Settling a promise of a function of promises gives such a function.     *)
LEMMA SettleType ==
  ASSUME NEW D, NEW p \in [D -> Promises], NEW k, NEW v \in Promises
  PROVE  Settle(p, k, v) \in [D -> Promises]
  BY DEF Settle

LEMMA PromiseType ==
  ASSUME NEW t \in Streams, NEW p \in [Calls -> Promises]
  PROVE  [t EXCEPT !.promise = p] \in Streams
  BY ZenonT(60) DEF Streams

LEMMA SettlePromiseType ==
  ASSUME NEW t \in Streams, NEW k, NEW v \in Promises
  PROVE  Settle(t.promise, k, v) \in [Calls -> Promises]
<1>1. t.promise \in [Calls -> Promises]
  BY DEF Streams
<1> QED
  BY <1>1, SettleType

LEMMA ExpectType ==
  ASSUME NEW t \in Streams, NEW ok \in BOOLEAN
  PROVE  Expect(t, ok) \in Streams
<1> DEFINE b == t.panicked \/ ~ok
<1>1. b \in BOOLEAN
  OBVIOUS
<1>2. Expect(t, ok) = [t EXCEPT !.panicked = b]
  BY DEF Expect
<1> HIDE DEF b
<1> QED
  BY ZenonT(60), <1>1, <1>2 DEF Streams

LEMMA AbortCbType ==
  ASSUME NEW t \in Streams, NEW k \in OptCalls
  PROVE  [t EXCEPT !.abort_cb = k] \in Streams
  BY DEF Streams

LEMMA ClearAlgorithmsType ==
  ASSUME NEW t \in Streams
  PROVE  ClearAlgorithms(t) \in Streams
  BY ZenonT(60) DEF Streams, ClearAlgorithms

LEMMA EnsureReadyType ==
  ASSUME NEW t \in Streams, NEW w \in OptWriters
  PROVE  EnsureReadyPromiseRejected(t, w) \in Streams
<1>1. CASE w = NoWriter
  BY <1>1 DEF EnsureReadyPromiseRejected
<1>2. CASE w # NoWriter
  <2> DEFINE r == [t.ready EXCEPT ![w] = "rejected"]
  <2>1. r \in [Writers -> Promises]
    BY <1>2 DEF Streams, Promises
  <2>2. EnsureReadyPromiseRejected(t, w) = [t EXCEPT !.ready = r]
    BY <1>2 DEF EnsureReadyPromiseRejected
  <2> HIDE DEF r
  <2> QED
    BY ZenonT(60), <2>1, <2>2 DEF Streams
<1> QED
  BY <1>1, <1>2

LEMMA RejectCloseType ==
  ASSUME NEW t \in Streams, NEW w \in OptWriters
  PROVE  RejectCloseAndClosedPromiseIfNeeded(t, w) \in Streams
<1> DEFINE p == Settle(t.promise, t.close_request, "rejected")
           c == Settle(t.closed, w, "rejected")
<1>1. p \in [Calls -> Promises]
  BY SettleType DEF Streams, Promises
<1>2. c \in [Writers -> Promises]
  BY SettleType DEF Streams, Promises
<1> HIDE DEF p, c
<1>3. [t EXCEPT !.promise = p, !.close_request = NoCall, !.closed = c] \in Streams
  BY ZenonT(60), <1>1, <1>2 DEF Streams
<1> QED
  BY <1>3 DEF RejectCloseAndClosedPromiseIfNeeded, p, c

(* The first part of FinishErroring.                                       *)
Purged(t) ==
  [t EXCEPT !.state = "errored", !.queue = <<>>, !.total = 0,
            !.promise = [k \in Calls |->
                           IF \E i \in DOMAIN t.write_requests :
                                t.write_requests[i] = k
                             THEN "rejected" ELSE t.promise[k]],
            !.write_requests = <<>>, !.pending_abort = NoCall]

LEMMA PurgedType ==
  ASSUME NEW t \in Streams
  PROVE  Purged(t) \in Streams
<1> DEFINE p == [k \in Calls |->
                   IF \E i \in DOMAIN t.write_requests :
                        t.write_requests[i] = k
                     THEN "rejected" ELSE t.promise[k]]
<1>1. p \in [Calls -> Promises]
  BY DEF Streams, Promises
<1>2. <<>> \in Seq(Chunks) /\ <<>> \in Seq(Calls)
  OBVIOUS
<1> HIDE DEF p
<1>3. [t EXCEPT !.state = "errored", !.queue = <<>>, !.total = 0,
                !.promise = p, !.write_requests = <<>>,
                !.pending_abort = NoCall] \in Streams
  BY ZenonT(60), <1>1, <1>2 DEF Streams, States
<1> QED
  BY <1>3 DEF Purged, p

(* FinishErroring by cases.                                                *)
LEMMA FinishErroringCases ==
  ASSUME NEW t, NEW w
  PROVE  /\ t.pending_abort = NoCall =>
              FinishErroring(t, w) =
                RejectCloseAndClosedPromiseIfNeeded(Purged(t), w)
         /\ t.pending_abort # NoCall /\ t.was_already_erroring = TRUE =>
              FinishErroring(t, w) =
                RejectCloseAndClosedPromiseIfNeeded(
                  [Purged(t) EXCEPT
                     !.promise = Settle(@, t.pending_abort, "rejected")], w)
         /\ t.pending_abort # NoCall /\ t.was_already_erroring = FALSE =>
              FinishErroring(t, w) =
                ClearAlgorithms([Expect(Purged(t), t.algorithms) EXCEPT
                                   !.abort_cb = t.pending_abort])
  BY Zenon DEF FinishErroring, Purged

LEMMA FinishErroringType ==
  ASSUME NEW t \in Streams, NEW w \in OptWriters
  PROVE  FinishErroring(t, w) \in Streams
<1> DEFINE u == Purged(t)
<1>1. u \in Streams
  BY PurgedType
<1>2. /\ t.pending_abort \in OptCalls /\ t.algorithms \in BOOLEAN
      /\ t.was_already_erroring \in BOOLEAN
  BY DEF Streams
<1> HIDE DEF u
<1>3. CASE t.pending_abort = NoCall
  BY Zenon, <1>1, <1>3, FinishErroringCases, RejectCloseType DEF u
<1>4. CASE t.pending_abort # NoCall /\ t.was_already_erroring = TRUE
  <2>1. [u EXCEPT !.promise = Settle(@, t.pending_abort, "rejected")] \in Streams
    BY <1>1, SettlePromiseType, PromiseType, SMTT(20) DEF Promises
  <2> QED
    BY Zenon, <1>4, <2>1, FinishErroringCases, RejectCloseType DEF u
<1>5. CASE t.pending_abort # NoCall /\ t.was_already_erroring = FALSE
  <2> DEFINE e == Expect(u, t.algorithms)
  <2>1. e \in Streams
    BY <1>1, <1>2, ExpectType
  <2> HIDE DEF e
  <2>2. [e EXCEPT !.abort_cb = t.pending_abort] \in Streams
    BY <1>2, <2>1, AbortCbType
  <2> QED
    BY Zenon, <1>5, <2>2, FinishErroringCases, ClearAlgorithmsType DEF u, e
<1> QED
  BY Zenon, <1>2, <1>3, <1>4, <1>5

----------------------------------------------------------------------------
(* Control.                                                                *)

(* The fields of Control that errors leave alone.                          *)
SameCallbacks(u, t) ==
  /\ u.started = t.started /\ u.start_cb = t.start_cb
  /\ u.write_cb = t.write_cb /\ u.close_cb = t.close_cb
  /\ u.in_flight_write = t.in_flight_write
  /\ u.in_flight_close = t.in_flight_close

LEMMA RejectCloseFields ==
  ASSUME NEW t \in Streams, NEW w
  PROVE  LET u == RejectCloseAndClosedPromiseIfNeeded(t, w)
         IN  /\ SameCallbacks(u, t)
             /\ u.panicked = t.panicked /\ u.abort_cb = t.abort_cb
             /\ u.state = t.state /\ u.pending_abort = t.pending_abort
             /\ u.queue = t.queue /\ u.write_requests = t.write_requests
  BY DEF RejectCloseAndClosedPromiseIfNeeded, Streams, SameCallbacks

LEMMA PurgedFields ==
  ASSUME NEW t \in Streams
  PROVE  LET u == Purged(t)
         IN  /\ SameCallbacks(u, t)
             /\ u.state = "errored" /\ u.queue = <<>>
             /\ u.write_requests = <<>> /\ u.pending_abort = NoCall
             /\ u.panicked = t.panicked /\ u.abort_cb = t.abort_cb
  BY DEF Purged, Streams, SameCallbacks

LEMMA PromiseFields ==
  ASSUME NEW t \in Streams, NEW p
  PROVE  LET u == [t EXCEPT !.promise = p]
         IN  /\ SameCallbacks(u, t)
             /\ u.panicked = t.panicked /\ u.abort_cb = t.abort_cb
             /\ u.state = t.state /\ u.pending_abort = t.pending_abort
             /\ u.queue = t.queue /\ u.write_requests = t.write_requests
  BY DEF Streams, SameCallbacks

LEMMA AbortCallFields ==
  ASSUME NEW t \in Streams, NEW k
  PROVE  LET u == ClearAlgorithms([Expect(t, TRUE) EXCEPT !.abort_cb = k])
         IN  /\ SameCallbacks(u, t)
             /\ u.panicked = t.panicked /\ u.abort_cb = k
             /\ u.state = t.state /\ u.pending_abort = t.pending_abort
             /\ u.queue = t.queue /\ u.write_requests = t.write_requests
  BY DEF Streams, SameCallbacks, ClearAlgorithms, Expect

LEMMA FinishErroringFields ==
  ASSUME NEW t \in Streams, NEW w \in OptWriters,
         t.pending_abort # NoCall /\ t.was_already_erroring = FALSE
           => t.algorithms = TRUE
  PROVE  LET r == FinishErroring(t, w)
         IN  /\ SameCallbacks(r, t)
             /\ r.state = "errored" /\ r.queue = <<>>
             /\ r.write_requests = <<>> /\ r.pending_abort = NoCall
             /\ r.panicked = t.panicked
<1> DEFINE u == Purged(t)
<1>1. u \in Streams
  BY PurgedType
<1>2. t.was_already_erroring \in BOOLEAN
  BY DEF Streams
<1>6. /\ SameCallbacks(u, t)
      /\ u.state = "errored" /\ u.queue = <<>>
      /\ u.write_requests = <<>> /\ u.pending_abort = NoCall
      /\ u.panicked = t.panicked
  BY PurgedFields
<1>3. CASE t.pending_abort = NoCall
  <2>1. FinishErroring(t, w) = RejectCloseAndClosedPromiseIfNeeded(u, w)
    BY Zenon, <1>3, FinishErroringCases
  <2> HIDE DEF u
  <2> QED
    BY <1>1, <1>6, <2>1, RejectCloseFields DEF SameCallbacks
<1>4. CASE t.pending_abort # NoCall /\ t.was_already_erroring = TRUE
  <2> DEFINE q == Settle(u.promise, t.pending_abort, "rejected")
             x == [u EXCEPT !.promise = q]
  <2>1. x \in Streams
    BY <1>1, SettlePromiseType, PromiseType DEF Promises
  <2>2. /\ SameCallbacks(x, u)
        /\ x.panicked = u.panicked /\ x.state = u.state
        /\ x.pending_abort = u.pending_abort
        /\ x.queue = u.queue /\ x.write_requests = u.write_requests
    BY <1>1, PromiseFields
  <2>3. FinishErroring(t, w) = RejectCloseAndClosedPromiseIfNeeded(x, w)
    BY Zenon, <1>4, FinishErroringCases
  <2> HIDE DEF x
  <2> HIDE DEF u
  <2> QED
    BY <1>6, <2>1, <2>2, <2>3, RejectCloseFields, SMTT(20) DEF SameCallbacks
<1>5. CASE t.pending_abort # NoCall /\ t.was_already_erroring = FALSE
  <2> DEFINE y == ClearAlgorithms(
                    [Expect(u, TRUE) EXCEPT !.abort_cb = t.pending_abort])
  <2>1. FinishErroring(t, w) = y
    BY Zenon, <1>5, FinishErroringCases
  <2> HIDE DEF u
  <2>2. /\ SameCallbacks(y, u)
        /\ y.panicked = u.panicked /\ y.state = u.state
        /\ y.pending_abort = u.pending_abort
        /\ y.queue = u.queue /\ y.write_requests = u.write_requests
    BY Zenon, <1>1, AbortCallFields
  <2> HIDE DEF y
  <2> QED
    BY <1>6, <2>1, <2>2 DEF SameCallbacks
<1> QED
  BY Zenon, <1>2, <1>3, <1>4, <1>5

(* Erroring ends in a stream with nothing to do.                           *)
LEMMA FinishErroringControl ==
  ASSUME NEW t \in Streams, NEW w \in OptWriters, Core(t), AbortReady(t),
         ~HasOperationInFlight(t), t.started = TRUE
  PROVE  /\ Control(FinishErroring(t, w))
         /\ Rested(FinishErroring(t, w))
         /\ FinishErroring(t, w).state = "errored"
<1> DEFINE r == FinishErroring(t, w)
<1>1. t.pending_abort # NoCall /\ t.was_already_erroring = FALSE
        => t.algorithms = TRUE
  BY DEF AbortReady, HasOperationInFlight
<1>2. r \in Streams
  BY FinishErroringType
<1>3. /\ SameCallbacks(r, t)
      /\ r.state = "errored" /\ r.queue = <<>>
      /\ r.write_requests = <<>> /\ r.pending_abort = NoCall
      /\ r.panicked = t.panicked
  BY Zenon, <1>1, FinishErroringFields
<1> HIDE DEF r
<1>4. /\ t.in_flight_write = NoCall /\ t.in_flight_close = NoCall
      /\ t.panicked = FALSE
      /\ t.start_cb = TRUE <=> t.started = FALSE
      /\ t.write_cb = TRUE <=> t.in_flight_write # NoCall
      /\ t.close_cb = "waiting" <=> t.in_flight_close # NoCall
  BY DEF Core, HasOperationInFlight
<1>5. QueueMatches(r)
  BY <1>3, <1>4 DEF QueueMatches, SameCallbacks
<1> QED
  BY <1>3, <1>4, <1>5
  DEF Control, Core, AbortReady, Rested, HasOperationInFlight, SameCallbacks, r

(* Erroring starts from a writable stream, and ends at once when there is  *)
(* nothing to wait for.                                                    *)
LEMMA StartErroringControl ==
  ASSUME NEW t \in Streams, NEW w \in OptWriters, NEW e \in Errors,
         Core(t), AbortReady(t), t.state = "writable"
  PROVE  /\ StartErroring(t, w, e) \in Streams
         /\ Control(StartErroring(t, w, e))
         /\ Rested(StartErroring(t, w, e))
         /\ StartErroring(t, w, e).state # "writable"
<1> DEFINE v == [t EXCEPT !.state = "erroring", !.err = e]
           u == EnsureReadyPromiseRejected(v, w)
<1>1. v \in Streams
  BY Zenon DEF Streams, States
<1>2. /\ SameCallbacks(v, t) /\ v.state = "erroring"
      /\ v.panicked = t.panicked /\ v.abort_cb = t.abort_cb
      /\ v.pending_abort = t.pending_abort /\ v.algorithms = t.algorithms
      /\ v.was_already_erroring = t.was_already_erroring
      /\ v.queue = t.queue /\ v.write_requests = t.write_requests
      /\ v.close_request = t.close_request
  BY DEF Streams, SameCallbacks
<1> HIDE DEF v
<1>3. u \in Streams
  BY <1>1, EnsureReadyType
<1>4. /\ SameCallbacks(u, v) /\ u.state = v.state
      /\ u.panicked = v.panicked /\ u.abort_cb = v.abort_cb
      /\ u.pending_abort = v.pending_abort /\ u.algorithms = v.algorithms
      /\ u.was_already_erroring = v.was_already_erroring
      /\ u.queue = v.queue /\ u.write_requests = v.write_requests
      /\ u.close_request = v.close_request
  BY <1>1 DEF Streams, SameCallbacks, EnsureReadyPromiseRejected
<1>5. StartErroring(t, w, e) =
        IF ~HasOperationInFlight(u) /\ u.started = TRUE
          THEN FinishErroring(u, w) ELSE u
  BY <1>3 DEF StartErroring, v, Streams
<1> HIDE DEF u
<1>6. Core(u) /\ AbortReady(u)
  BY <1>2, <1>4 DEF Core, AbortReady, HasOperationInFlight, SameCallbacks
<1>7. CASE ~HasOperationInFlight(u) /\ u.started = TRUE
  BY Zenon, <1>3, <1>5, <1>6, <1>7, FinishErroringType, FinishErroringControl
<1>8. CASE ~(~HasOperationInFlight(u) /\ u.started = TRUE)
  <2>1. Control(u)
    BY <1>2, <1>4, <1>6 DEF Control, Core, QueueMatches
  <2> QED
    BY <1>2, <1>3, <1>4, <1>5, <1>8, <2>1, SMTT(20) DEF Rested
<1> QED
  BY Zenon, <1>7, <1>8

LEMMA DealWithRejectionControl ==
  ASSUME NEW t \in Streams, NEW w \in OptWriters, NEW e \in Errors,
         Core(t), AbortReady(t), t.state \in {"writable", "erroring"},
         ~HasOperationInFlight(t), t.started = TRUE
  PROVE  /\ DealWithRejection(t, w, e) \in Streams
         /\ Control(DealWithRejection(t, w, e))
         /\ Rested(DealWithRejection(t, w, e))
  BY Zenon, StartErroringControl, FinishErroringControl, FinishErroringType
  DEF DealWithRejection

(* A request is not confused with Option::None.                            *)
LEMMA NoCallIsNoCall == NoCall \notin Calls
  BY MaxCallsAssumption DEF Calls

LEMMA StreamFields ==
  ASSUME NEW t \in Streams
  PROVE  /\ t.state \in States /\ t.writer \in OptWriters
         /\ t.write_requests \in Seq(Calls) /\ t.queue \in Seq(Chunks)
         /\ t.total \in Nat
         /\ t.close_request \in OptCalls /\ t.in_flight_write \in OptCalls
         /\ t.in_flight_close \in OptCalls /\ t.pending_abort \in OptCalls
         /\ t.abort_cb \in OptCalls /\ t.close_writer \in OptWriters
         /\ t.algorithms \in BOOLEAN /\ t.started \in BOOLEAN
         /\ t.was_already_erroring \in BOOLEAN /\ t.start_cb \in BOOLEAN
         /\ t.write_cb \in BOOLEAN /\ t.backpressure \in BOOLEAN
         /\ t.promise \in [Calls -> Promises]
         /\ t.ready \in [Writers -> Promises]
         /\ t.closed \in [Writers -> Promises]
  BY DEF Streams

LEMMA TailSeq ==
  ASSUME NEW S, NEW q \in Seq(S), q # <<>>
  PROVE  /\ Tail(q) \in Seq(S) /\ Head(q) \in S /\ Head(q) = q[1]
         /\ Len(q) \in Nat \ {0} /\ Len(Tail(q)) = Len(q) - 1
         /\ \A i \in 1 .. Len(q) - 1 : Tail(q)[i] = q[i + 1]
         /\ Len(q) = 1 => Tail(q) = <<>>
<1>1. Len(q) \in Nat \ {0}
  OBVIOUS
<1>2. Tail(q) \in Seq(S) /\ Head(q) = q[1] /\ q[1] \in S
  BY <1>1
<1>3. Len(Tail(q)) = Len(q) - 1
  BY <1>1
<1>4. \A i \in 1 .. Len(q) - 1 : Tail(q)[i] = q[i + 1]
  BY <1>1
<1>5. Len(q) = 1 => Tail(q) = <<>>
  <2> SUFFICES ASSUME Len(q) = 1 PROVE Tail(q) = <<>>
    OBVIOUS
  <2>1. Len(Tail(q)) = 0
    BY <1>3
  <2> QED
    BY Zenon, <1>2, <2>1, EmptySeq
<1> QED
  BY <1>1, <1>2, <1>3, <1>4, <1>5, SMTT(20)

(* A condition that holds makes expect() do nothing.                       *)
LEMMA ExpectHolds ==
  ASSUME NEW t \in Streams, t.panicked = FALSE, NEW ok, ok = TRUE
  PROVE  Expect(t, ok) = t
<1>1. Expect(t, ok) = [t EXCEPT !.panicked = FALSE]
  BY Zenon DEF Expect
<1> QED
  BY <1>1 DEF Streams

(* A close in the queue of a writable stream is alone there when it comes  *)
(* first, and a chunk that comes first has its request first.              *)
LEMMA HeadOfQueue ==
  ASSUME NEW t \in Streams, QueueMatches(t), t.state = "writable",
         t.in_flight_write = NoCall, t.queue # <<>>
  PROVE  /\ Head(t.queue).id = CloseSentinel =>
              /\ t.write_requests = <<>> /\ t.close_request # NoCall
              /\ Len(t.queue) = 1
         /\ Head(t.queue).id # CloseSentinel =>
              /\ t.write_requests # <<>>
              /\ Head(t.write_requests) = Head(t.queue).id
<1> DEFINE n == Len(t.write_requests)
           last == IF t.close_request = NoCall THEN 0 ELSE 1
<1>1. /\ t.write_requests \in Seq(Calls) /\ t.queue \in Seq(Chunks)
      /\ t.close_request \in OptCalls
  BY StreamFields
<1>2. /\ n \in Nat /\ Len(t.queue) \in Nat \ {0} /\ Head(t.queue) = t.queue[1]
  BY <1>1
<1>3. /\ Len(t.queue) = n + last
      /\ \A i \in 1 .. n : t.queue[i].id = t.write_requests[i]
      /\ last = 1 => t.queue[n + 1].id = CloseSentinel
  <2>1. /\ Len(t.queue) = 0 + n + last
        /\ \A i \in 1 .. n : t.queue[0 + i].id = t.write_requests[i]
        /\ last = 1 => t.queue[0 + n + 1].id = CloseSentinel
    BY Zenon DEF QueueMatches
  <2>2. last \in Nat /\ 0 + n = n
    BY <1>2
  <2>3. \A i \in 1 .. n : 0 + i = i
    BY <1>2
  <2> QED
    BY <1>2, <2>1, <2>2, <2>3, SMTT(20)
<1>4. CASE n = 0
  BY <1>1, <1>2, <1>3, <1>4, SMTT(20)
<1>5. CASE n > 0
  <2>1. 1 \in 1 .. n /\ t.write_requests[1] \in Calls
    BY <1>1, <1>5
  <2>2. t.queue[1].id = t.write_requests[1]
    BY <1>3, <2>1
  <2> QED
    BY <1>1, <1>2, <1>5, <2>1, <2>2, NoCallIsNoCall, SMTT(20)
<1> QED
  BY <1>2, <1>4, <1>5

LEMMA ProcessCloseType ==
  ASSUME NEW t \in Streams, NEW w \in OptWriters, NEW k \in OptCalls
  PROVE  [t EXCEPT !.in_flight_close = k, !.close_request = NoCall,
                   !.queue = <<>>, !.close_cb = "waiting",
                   !.close_writer = w, !.algorithms = FALSE] \in Streams
<1>1. <<>> \in Seq(Chunks)
  OBVIOUS
<1> QED
  BY ZenonT(30), <1>1 DEF Streams

LEMMA ProcessCloseControl ==
  ASSUME NEW t \in Streams, NEW w \in OptWriters, Control(t),
         t.state = "writable", ~HasOperationInFlight(t), t.started = TRUE,
         t.queue # <<>>, Head(t.queue).id = CloseSentinel
  PROVE  /\ ProcessClose(t, w) \in Streams
         /\ Control(ProcessClose(t, w))
         /\ Rested(ProcessClose(t, w))
<1> DEFINE r == ProcessClose(t, w)
<1>1. /\ t.write_requests = <<>> /\ t.close_request # NoCall
      /\ Len(t.queue) = 1
  BY HeadOfQueue DEF Control, HasOperationInFlight
<1>2. Tail(t.queue) = <<>>
  BY <1>1, StreamFields, TailSeq, SMTT(20)
<1>3. t.algorithms = TRUE
  BY DEF Control, HasOperationInFlight
<1>4. r = [t EXCEPT !.in_flight_close = t.close_request,
                    !.close_request = NoCall, !.queue = <<>>,
                    !.close_cb = "waiting", !.close_writer = w,
                    !.algorithms = FALSE]
  <2>1. Expect(t, t.close_request # NoCall /\ t.algorithms) = t
    BY Zenon, <1>1, <1>3, ExpectHolds DEF Control, Core
  <2> QED
    BY Zenon, <1>2, <2>1 DEF ProcessClose, ClearAlgorithms
<1>5. r \in Streams
  <2>1. t.close_request \in OptCalls
    BY StreamFields
  <2> HIDE DEF r
  <2> QED
    BY Zenon, <1>4, <2>1, ProcessCloseType
<1>6. /\ r.in_flight_close = t.close_request /\ r.close_request = NoCall
      /\ r.queue = <<>> /\ r.close_cb = "waiting"
      /\ r.panicked = t.panicked
      /\ r.started = t.started /\ r.start_cb = t.start_cb
      /\ r.write_cb = t.write_cb /\ r.abort_cb = t.abort_cb
      /\ r.in_flight_write = t.in_flight_write /\ r.state = t.state
      /\ r.pending_abort = t.pending_abort
      /\ r.write_requests = t.write_requests
  BY <1>4 DEF Streams
<1> HIDE DEF r
<1> QED
  BY <1>1, <1>5, <1>6 DEF Control, Core, AbortReady, Rested, QueueMatches, HasOperationInFlight, r

LEMMA ProcessWriteType ==
  ASSUME NEW t \in Streams, NEW k \in OptCalls, NEW q \in Seq(Calls)
  PROVE  [t EXCEPT !.in_flight_write = k, !.write_requests = q,
                   !.write_cb = TRUE] \in Streams
  BY Zenon DEF Streams

LEMMA ProcessWriteControl ==
  ASSUME NEW t \in Streams, Control(t),
         t.state = "writable", ~HasOperationInFlight(t), t.started = TRUE,
         t.queue # <<>>, Head(t.queue).id # CloseSentinel
  PROVE  /\ ProcessWrite(t) \in Streams
         /\ Control(ProcessWrite(t))
         /\ Rested(ProcessWrite(t))
<1> DEFINE r == ProcessWrite(t)
           k == Head(t.write_requests)
           q == Tail(t.write_requests)
<1>1. t.write_requests # <<>> /\ k = Head(t.queue).id
  BY HeadOfQueue DEF Control, HasOperationInFlight
<1>2. /\ t.write_requests \in Seq(Calls) /\ t.queue \in Seq(Chunks)
      /\ t.close_request \in OptCalls
  BY StreamFields
<1>3. /\ k \in Calls /\ q \in Seq(Calls)
      /\ Len(q) = Len(t.write_requests) - 1
      /\ Len(t.write_requests) \in Nat \ {0}
      /\ \A i \in 1 .. Len(q) : q[i] = t.write_requests[i + 1]
  BY <1>1, <1>2, TailSeq, SMTT(20)
<1>4. Head(t.queue) = t.queue[1] /\ Len(t.queue) \in Nat
  BY <1>2, TailSeq, SMTT(20)
<1>5. r = [t EXCEPT !.in_flight_write = k, !.write_requests = q,
                    !.write_cb = TRUE]
  <2>1. t.algorithms = TRUE
    BY DEF Control, HasOperationInFlight
  <2>2. Expect(t, t.algorithms) = t
    BY Zenon, <2>1, ExpectHolds DEF Control, Core
  <2> QED
    BY <1>1, <2>2 DEF ProcessWrite
<1> HIDE DEF r, k, q
<1>6. r \in Streams
  BY Zenon, <1>3, <1>5, ProcessWriteType
<1>7. /\ r.in_flight_write = k /\ r.write_requests = q /\ r.write_cb = TRUE
      /\ r.panicked = t.panicked /\ r.started = t.started
      /\ r.start_cb = t.start_cb /\ r.close_cb = t.close_cb
      /\ r.abort_cb = t.abort_cb /\ r.in_flight_close = t.in_flight_close
      /\ r.state = t.state /\ r.pending_abort = t.pending_abort
      /\ r.queue = t.queue /\ r.close_request = t.close_request
      /\ r.algorithms = t.algorithms
      /\ r.was_already_erroring = t.was_already_erroring
  BY <1>5 DEF Streams
<1>8. k # NoCall
  BY <1>3, NoCallIsNoCall, SMTT(20)
<1>9. QueueMatches(r)
  <2> DEFINE n == Len(t.write_requests)
             last == IF t.close_request = NoCall THEN 0 ELSE 1
  <2>1. /\ Len(t.queue) = 0 + n + last
        /\ \A i \in 1 .. n : t.queue[0 + i].id = t.write_requests[i]
        /\ last = 1 => t.queue[0 + n + 1].id = CloseSentinel
    BY Zenon DEF QueueMatches, Control, HasOperationInFlight
  <2>2. n \in Nat \ {0} /\ last \in {0, 1}
    BY <1>3
  <2>3. Len(t.queue) = 1 + Len(q) + last
    BY <1>3, <2>1, <2>2, SMTT(20)
  <2>4. \A i \in 1 .. Len(q) : t.queue[1 + i].id = q[i]
    <3> TAKE i \in 1 .. Len(q)
    <3>1. i + 1 \in 1 .. n /\ 0 + (i + 1) = 1 + i
      BY <1>3, <2>2, SMTT(20)
    <3>2. t.queue[0 + (i + 1)].id = t.write_requests[i + 1]
      BY <2>1, <3>1, SMTT(20)
    <3> QED
      BY <1>3, <3>1, <3>2, SMTT(20)
  <2>5. last = 1 => t.queue[1 + Len(q) + 1].id = CloseSentinel
    <3>1. 0 + n + 1 = 1 + Len(q) + 1
      BY <1>3, <2>2
    <3> QED
      BY <2>1, <3>1, SMTT(20)
  <2> QED
    BY <1>1, <1>4, <1>7, <1>8, <2>3, <2>4, <2>5, SMTT(20) DEF QueueMatches
<1> QED
  BY <1>1, <1>4, <1>6, <1>7, <1>8, <1>9
  DEF Control, Core, AbortReady, Rested, HasOperationInFlight, r

(* Looking at the queue leaves nothing undone.                             *)
LEMMA AdvanceQueueControl ==
  ASSUME NEW t \in Streams, NEW w \in OptWriters, Control(t),
         t.in_flight_close = NoCall
  PROVE  /\ AdvanceQueueIfNeeded(t, w) \in Streams
         /\ Control(AdvanceQueueIfNeeded(t, w))
         /\ Rested(AdvanceQueueIfNeeded(t, w))
<1>1. t.started \in BOOLEAN /\ t.state \in States
  BY StreamFields
<1>2. CASE t.started = FALSE \/ t.in_flight_write # NoCall
  BY <1>2 DEF AdvanceQueueIfNeeded, Rested, HasOperationInFlight
<1> DEFINE Go == t.started = TRUE /\ t.in_flight_write = NoCall
<1>3. CASE Go /\ t.state = "erroring"
  <2>1. AdvanceQueueIfNeeded(t, w) = FinishErroring(t, w)
    BY <1>3 DEF AdvanceQueueIfNeeded
  <2>2. Core(t) /\ AbortReady(t) /\ ~HasOperationInFlight(t)
    BY <1>3, SMTT(20) DEF Control, HasOperationInFlight
  <2> QED
    BY Zenon, <1>3, <2>1, <2>2, FinishErroringType, FinishErroringControl
<1>4. CASE Go /\ t.state # "erroring" /\ t.queue = <<>>
  BY <1>4 DEF AdvanceQueueIfNeeded, Rested
<1>5. CASE Go /\ t.state # "erroring" /\ t.queue # <<>>
  <2>1. t.state = "writable" /\ ~HasOperationInFlight(t)
    BY <1>1, <1>5 DEF Control, QueueMatches, States, HasOperationInFlight
  <2>2. CASE Head(t.queue).id = CloseSentinel
    <3>1. AdvanceQueueIfNeeded(t, w) = ProcessClose(t, w)
      BY <1>5, <2>2 DEF AdvanceQueueIfNeeded
    <3> QED
      BY Zenon, <1>5, <2>1, <2>2, <3>1, ProcessCloseControl
  <2>3. CASE Head(t.queue).id # CloseSentinel
    <3>1. AdvanceQueueIfNeeded(t, w) = ProcessWrite(t)
      BY <1>5, <2>3 DEF AdvanceQueueIfNeeded
    <3> QED
      BY Zenon, <1>5, <2>1, <2>3, <3>1, ProcessWriteControl
  <2> QED
    BY <2>2, <2>3, SMTT(20)
<1> QED
  BY Zenon, <1>1, <1>2, <1>3, <1>4, <1>5

----------------------------------------------------------------------------
(* What the methods do to the stream before and after the queue moves.     *)

LEMMA ControllerErrorControl ==
  ASSUME NEW t \in Streams, NEW w \in OptWriters, NEW e \in Errors,
         Core(t), t.pending_abort = NoCall, t.state = "writable"
  PROVE  /\ ControllerError(t, w, e) \in Streams
         /\ Control(ControllerError(t, w, e))
         /\ Rested(ControllerError(t, w, e))
         /\ ControllerError(t, w, e).state # "writable"
<1> DEFINE c == ClearAlgorithms(t)
<1>1. c \in Streams
  BY ClearAlgorithmsType
<1>2. /\ SameCallbacks(c, t) /\ c.state = t.state
      /\ c.panicked = t.panicked /\ c.abort_cb = t.abort_cb
      /\ c.pending_abort = t.pending_abort
      /\ c.queue = t.queue /\ c.write_requests = t.write_requests
      /\ c.close_request = t.close_request
  BY DEF Streams, SameCallbacks, ClearAlgorithms
<1>3. ControllerError(t, w, e) = StartErroring(c, w, e)
  BY DEF ControllerError
<1> HIDE DEF c
<1>4. Core(c) /\ AbortReady(c)
  BY <1>2 DEF Core, AbortReady, HasOperationInFlight, SameCallbacks
<1> QED
  BY <1>1, <1>2, <1>3, <1>4, StartErroringControl, SMTT(20)

LEMMA QueueMatchesSame ==
  ASSUME NEW t, NEW u, QueueMatches(t),
         u.state = t.state, u.queue = t.queue,
         u.write_requests = t.write_requests,
         u.close_request = t.close_request,
         u.in_flight_write = t.in_flight_write
  PROVE  QueueMatches(u)
  BY Zenon DEF QueueMatches

LEMMA QueueMatchesWritable ==
  ASSUME NEW u, NEW first, NEW last, u.state = "writable",
         first = IF u.in_flight_write = NoCall THEN 0 ELSE 1,
         last = IF u.close_request = NoCall THEN 0 ELSE 1,
         Len(u.queue) = first + Len(u.write_requests) + last,
         \A i \in 1 .. Len(u.write_requests) :
           u.queue[first + i].id = u.write_requests[i],
         last = 1 =>
           u.queue[first + Len(u.write_requests) + 1].id = CloseSentinel,
         u.in_flight_write # NoCall =>
           u.queue # <<>> /\ u.queue[1].id = u.in_flight_write
  PROVE  QueueMatches(u)
<1>1. CASE u.in_flight_write = NoCall /\ u.close_request = NoCall
  BY <1>1 DEF QueueMatches
<1>2. CASE u.in_flight_write = NoCall /\ u.close_request # NoCall
  BY <1>2 DEF QueueMatches
<1>3. CASE u.in_flight_write # NoCall /\ u.close_request = NoCall
  BY <1>3 DEF QueueMatches
<1>4. CASE u.in_flight_write # NoCall /\ u.close_request # NoCall
  BY <1>4 DEF QueueMatches
<1> QED
  BY <1>1, <1>2, <1>3, <1>4, SMTT(20)

(* Backpressure touches nothing that Control is about.                     *)
LEMMA RefreshBackpressureControl ==
  ASSUME NEW t \in Streams, NEW w \in OptWriters, Control(t)
  PROVE  /\ RefreshBackpressure(t, w) \in Streams
         /\ Control(RefreshBackpressure(t, w))
         /\ RefreshBackpressure(t, w).in_flight_close = t.in_flight_close
<1> DEFINE b == GetBackpressure(t)
           r == IF w = NoWriter \/ b = t.backpressure THEN t.ready
                ELSE IF b THEN [t.ready EXCEPT ![w] = "pending"]
                ELSE Settle(t.ready, w, "fulfilled")
           u == [t EXCEPT !.backpressure = b, !.ready = r]
<1>1. b \in BOOLEAN
  BY DEF GetBackpressure
<1>2. r \in [Writers -> Promises]
  <2>1. t.ready \in [Writers -> Promises]
    BY StreamFields
  <2>2. Settle(t.ready, w, "fulfilled") \in [Writers -> Promises]
    BY <2>1, SettleType DEF Promises
  <2>3. w # NoWriter => [t.ready EXCEPT ![w] = "pending"] \in [Writers -> Promises]
    BY <2>1 DEF Promises
  <2> QED
    BY <2>1, <2>2, <2>3, SMTT(20)
<1>3. UpdateBackpressure(t, w) = u
  BY DEF UpdateBackpressure
<1> HIDE DEF b, r
<1>4. u \in Streams
  BY ZenonT(60), <1>1, <1>2 DEF Streams
<1>5. /\ SameCallbacks(u, t) /\ u.state = t.state
      /\ u.panicked = t.panicked /\ u.abort_cb = t.abort_cb
      /\ u.pending_abort = t.pending_abort /\ u.algorithms = t.algorithms
      /\ u.was_already_erroring = t.was_already_erroring
      /\ u.queue = t.queue /\ u.write_requests = t.write_requests
      /\ u.close_request = t.close_request
  BY DEF Streams, SameCallbacks
<1> HIDE DEF u
<1>6. QueueMatches(u)
  BY <1>5, QueueMatchesSame DEF Control, SameCallbacks
<1>7. Control(u)
  BY <1>5, <1>6 DEF Control, Core, AbortReady, HasOperationInFlight, SameCallbacks
<1> QED
  BY <1>3, <1>4, <1>5, <1>7, SMTT(20) DEF RefreshBackpressure, SameCallbacks

LEMMA EnqueueType ==
  ASSUME NEW t \in Streams, NEW q \in Seq(Chunks), NEW n \in Nat
  PROVE  [t EXCEPT !.queue = q, !.total = n] \in Streams
  BY ZenonT(60) DEF Streams

LEMMA AppendSeq ==
  ASSUME NEW S, NEW q \in Seq(S), NEW x \in S
  PROVE  /\ Append(q, x) \in Seq(S) /\ Len(q) \in Nat
         /\ Len(Append(q, x)) = Len(q) + 1
         /\ \A i \in 1 .. Len(q) : Append(q, x)[i] = q[i]
         /\ Append(q, x)[Len(q) + 1] = x
         /\ Append(q, x) # <<>>
  OBVIOUS

(* A chunk that is accepted goes to the end of the queue and of the        *)
(* requests.                                                               *)
LEMMA AcceptWriteControl ==
  ASSUME NEW t \in Streams, NEW k \in Calls, NEW n \in Nat, Control(t),
         t.state = "writable", ~CloseQueuedOrInFlight(t)
  PROVE  LET a == [t EXCEPT !.promise[k] = "pending",
                            !.write_requests = Append(@, k)]
             u == Enqueue(a, k, n)
         IN  /\ a \in Streams /\ Core(a)
             /\ a.pending_abort = NoCall /\ a.state = "writable"
             /\ u \in Streams /\ Control(u) /\ u.in_flight_close = NoCall
<1> DEFINE p == [t.promise EXCEPT ![k] = "pending"]
           wr == Append(t.write_requests, k)
           a == [t EXCEPT !.promise = p, !.write_requests = wr]
           x == [id |-> k, size |-> n]
           q == Append(t.queue, x)
           tot == t.total + n
           u == [a EXCEPT !.queue = q, !.total = tot]
<1>1. p \in [Calls -> Promises]
  BY StreamFields DEF Promises
<1>2. wr \in Seq(Calls) /\ x \in Chunks /\ x.id = k
  BY StreamFields DEF Chunks
<1>3. q \in Seq(Chunks) /\ tot \in Nat
  BY <1>2, StreamFields
<1>4. a = [t EXCEPT !.promise[k] = "pending", !.write_requests = Append(@, k)]
  OBVIOUS
<1>w. /\ Len(t.write_requests) \in Nat /\ Len(wr) = Len(t.write_requests) + 1
      /\ \A i \in 1 .. Len(t.write_requests) : wr[i] = t.write_requests[i]
      /\ wr[Len(t.write_requests) + 1] = k
  BY StreamFields, AppendSeq, SMTT(20)
<1>q. /\ Len(t.queue) \in Nat /\ Len(q) = Len(t.queue) + 1
      /\ \A i \in 1 .. Len(t.queue) : q[i] = t.queue[i]
      /\ q[Len(t.queue) + 1] = x /\ q # <<>>
  BY <1>2, StreamFields, AppendSeq, SMTT(20)
<1> HIDE DEF p, wr
<1>5. a \in Streams
  BY Zenon, <1>1, <1>2 DEF Streams
<1>6. /\ SameCallbacks(a, t) /\ a.state = t.state
      /\ a.panicked = t.panicked /\ a.abort_cb = t.abort_cb
      /\ a.pending_abort = t.pending_abort /\ a.algorithms = t.algorithms
      /\ a.was_already_erroring = t.was_already_erroring
      /\ a.queue = t.queue /\ a.write_requests = wr /\ a.total = t.total
      /\ a.close_request = t.close_request
  BY DEF Streams, SameCallbacks
<1>7. Enqueue(a, k, n) = u
  BY <1>6 DEF Enqueue
<1> HIDE DEF a, q, tot, x
<1>8. u \in Streams
  BY Zenon, <1>3, <1>5, EnqueueType
<1>9. /\ SameCallbacks(u, a) /\ u.state = a.state
      /\ u.panicked = a.panicked /\ u.abort_cb = a.abort_cb
      /\ u.pending_abort = a.pending_abort /\ u.algorithms = a.algorithms
      /\ u.was_already_erroring = a.was_already_erroring
      /\ u.queue = q /\ u.write_requests = a.write_requests
      /\ u.close_request = a.close_request
  BY <1>5 DEF Streams, SameCallbacks
<1> HIDE DEF u
<1>10. /\ t.close_request = NoCall /\ t.in_flight_close = NoCall
       /\ t.pending_abort = NoCall
  BY DEF CloseQueuedOrInFlight, Control
<1>11. Core(a)
  BY <1>6, <1>10 DEF Control, Core, HasOperationInFlight, SameCallbacks
<1>12. t.in_flight_write # NoCall => q # <<>> /\ q[1].id = t.in_flight_write
  <2> SUFFICES ASSUME t.in_flight_write # NoCall
               PROVE  q # <<>> /\ q[1].id = t.in_flight_write
    OBVIOUS
  <2>1. t.queue # <<>> /\ t.queue[1].id = t.in_flight_write
    BY DEF Control, Core
  <2>2. 1 \in 1 .. Len(t.queue)
    BY <2>1, StreamFields, TailSeq, SMTT(20)
  <2> QED
    BY <1>q, <2>1, <2>2, SMTT(20)
<1>13. QueueMatches(u)
  <2> DEFINE first == IF t.in_flight_write = NoCall THEN 0 ELSE 1
             m == Len(t.write_requests)
  <2>1. /\ Len(t.queue) = first + m + 0
        /\ \A i \in 1 .. m : t.queue[first + i].id = t.write_requests[i]
    BY Zenon, <1>10 DEF Control, QueueMatches
  <2>2. first \in {0, 1}
    OBVIOUS
  <2> HIDE DEF first
  <2>3. Len(q) = first + Len(wr) + 0
    BY <1>w, <1>q, <2>1, <2>2, SMTT(20)
  <2>4. \A i \in 1 .. Len(wr) : q[first + i].id = wr[i]
    <3> TAKE i \in 1 .. Len(wr)
    <3>1. CASE i \in 1 .. m
      <4>1. first + i \in 1 .. Len(t.queue)
        BY <1>w, <2>1, <2>2, <3>1, SMTT(20)
      <4> QED
        BY Zenon, <1>w, <1>q, <2>1, <3>1, <4>1
    <3>2. CASE i = m + 1
      <4>1. first + i = Len(t.queue) + 1
        BY <1>w, <2>1, <2>2, <3>2, SMTT(20)
      <4> QED
        BY <1>w, <1>q, <1>2, <3>2, <4>1, SMTT(20)
    <3> QED
      BY <1>w, <3>1, <3>2, SMTT(20)
  <2> QED
    BY <1>6, <1>9, <1>10, <1>12, <2>3, <2>4, SMTT(20) DEF QueueMatches, SameCallbacks, first
<1>14. Control(u)
  BY <1>6, <1>9, <1>10, <1>11, <1>12, <1>13, SMTT(20)
  DEF Control, Core, AbortReady, HasOperationInFlight, SameCallbacks
<1> QED
  BY <1>4, <1>5, <1>6, <1>7, <1>8, <1>9, <1>10, <1>11, <1>14 DEF SameCallbacks

(* A close that is accepted goes to the end of the queue.                  *)
LEMMA AcceptCloseControl ==
  ASSUME NEW t \in Streams, NEW k \in Calls, NEW r \in [Writers -> Promises],
         Control(t), t.state \in {"writable", "erroring"},
         ~CloseQueuedOrInFlight(t)
  PROVE  LET u == Enqueue([t EXCEPT !.promise[k] = "pending",
                                    !.close_request = k, !.ready = r],
                          CloseSentinel, 0)
         IN  u \in Streams /\ Control(u) /\ u.in_flight_close = NoCall
<1> DEFINE p == [t.promise EXCEPT ![k] = "pending"]
           a == [t EXCEPT !.promise = p, !.close_request = k, !.ready = r]
           x == [id |-> CloseSentinel, size |-> 0]
           q == Append(t.queue, x)
           tot == t.total + 0
           u == [a EXCEPT !.queue = q, !.total = tot]
<1>1. p \in [Calls -> Promises] /\ k # NoCall
  BY StreamFields, NoCallIsNoCall DEF Promises
<1>2. x \in Chunks /\ x.id = CloseSentinel
  BY DEF Chunks
<1>3. q \in Seq(Chunks) /\ tot \in Nat
  BY <1>2, StreamFields
<1>4. a = [t EXCEPT !.promise[k] = "pending", !.close_request = k, !.ready = r]
  OBVIOUS
<1>q. /\ Len(t.queue) \in Nat /\ Len(q) = Len(t.queue) + 1
      /\ \A i \in 1 .. Len(t.queue) : q[i] = t.queue[i]
      /\ q[Len(t.queue) + 1] = x /\ q # <<>>
  BY <1>2, StreamFields, AppendSeq
<1> HIDE DEF p
<1>5. a \in Streams
  BY Zenon, <1>1 DEF Streams
<1>6. /\ SameCallbacks(a, t) /\ a.state = t.state
      /\ a.panicked = t.panicked /\ a.abort_cb = t.abort_cb
      /\ a.pending_abort = t.pending_abort /\ a.algorithms = t.algorithms
      /\ a.was_already_erroring = t.was_already_erroring
      /\ a.queue = t.queue /\ a.write_requests = t.write_requests
      /\ a.total = t.total /\ a.close_request = k
  BY DEF Streams, SameCallbacks
<1>7. Enqueue(a, CloseSentinel, 0) = u
  BY <1>6 DEF Enqueue
<1> HIDE DEF a, q, tot, x
<1>8. u \in Streams
  BY Zenon, <1>3, <1>5, EnqueueType
<1>9. /\ SameCallbacks(u, a) /\ u.state = a.state
      /\ u.panicked = a.panicked /\ u.abort_cb = a.abort_cb
      /\ u.pending_abort = a.pending_abort /\ u.algorithms = a.algorithms
      /\ u.was_already_erroring = a.was_already_erroring
      /\ u.queue = q /\ u.write_requests = a.write_requests
      /\ u.close_request = a.close_request
  BY <1>5 DEF Streams, SameCallbacks
<1> HIDE DEF u
<1>10. t.close_request = NoCall /\ t.in_flight_close = NoCall
  BY DEF CloseQueuedOrInFlight
<1>12. t.in_flight_write # NoCall => q # <<>> /\ q[1].id = t.in_flight_write
  <2> SUFFICES ASSUME t.in_flight_write # NoCall
               PROVE  q # <<>> /\ q[1].id = t.in_flight_write
    OBVIOUS
  <2>1. t.queue # <<>> /\ t.queue[1].id = t.in_flight_write
    BY DEF Control, Core
  <2>2. 1 \in 1 .. Len(t.queue)
    BY <2>1, StreamFields, TailSeq
  <2> QED
    BY <1>q, <2>1, <2>2
<1>13. QueueMatches(u)
  <2>1. CASE t.state = "erroring"
    BY <1>6, <1>9, <1>12, <2>1, SMTT(20) DEF QueueMatches, SameCallbacks
  <2>2. CASE t.state = "writable"
    <3> DEFINE first == IF t.in_flight_write = NoCall THEN 0 ELSE 1
               m == Len(t.write_requests)
    <3>1. /\ Len(t.queue) = first + m + 0
          /\ \A i \in 1 .. m : t.queue[first + i].id = t.write_requests[i]
      BY Zenon, <1>10, <2>2 DEF Control, QueueMatches
    <3>2. first \in {0, 1} /\ m \in Nat
      BY StreamFields
    <3> HIDE DEF first
    <3>3. Len(q) = first + m + 1
      BY <1>q, <3>1, <3>2
    <3>4. \A i \in 1 .. m : q[first + i].id = t.write_requests[i]
      <4> TAKE i \in 1 .. m
      <4>1. first + i \in 1 .. Len(t.queue)
        BY <3>1, <3>2
      <4> QED
        BY Zenon, <1>q, <3>1, <4>1
    <3>5. q[first + m + 1].id = CloseSentinel
      <4>1. first + m + 1 = Len(t.queue) + 1
        BY <3>1, <3>2
      <4> QED
        BY <1>q, <1>2, <4>1
    <3>6. /\ u.state = "writable" /\ u.queue = q
          /\ u.write_requests = t.write_requests
          /\ u.close_request # NoCall /\ u.in_flight_write = t.in_flight_write
      BY <1>1, <1>6, <1>9, <2>2, SMTT(20) DEF SameCallbacks
    <3>7. first = IF u.in_flight_write = NoCall THEN 0 ELSE 1
      BY <3>6 DEF first
    <3>8. 1 = IF u.close_request = NoCall THEN 0 ELSE 1
      BY <3>6
    <3>9. u.in_flight_write # NoCall =>
            u.queue # <<>> /\ u.queue[1].id = u.in_flight_write
      BY <1>12, <3>6
    <3>10. /\ Len(u.queue) = first + Len(u.write_requests) + 1
           /\ \A i \in 1 .. Len(u.write_requests) :
                u.queue[first + i].id = u.write_requests[i]
           /\ u.queue[first + Len(u.write_requests) + 1].id = CloseSentinel
      BY <3>3, <3>4, <3>5, <3>6, SMTT(20)
    <3> QED
      BY ZenonT(30), <3>6, <3>7, <3>8, <3>9, <3>10, QueueMatchesWritable
  <2> QED
    BY <2>1, <2>2
<1>14. Control(u)
  BY <1>6, <1>9, <1>10, <1>12, <1>13, SMTT(20)
  DEF Control, Core, AbortReady, HasOperationInFlight, SameCallbacks
<1> QED
  BY <1>4, <1>6, <1>7, <1>8, <1>9, <1>10, <1>14, SMTT(20) DEF SameCallbacks

(* The end of a write leaves nothing in flight.                            *)
LEMMA FinishInFlightWriteCore ==
  ASSUME NEW t \in Streams, NEW v \in Promises, Core(t), AbortReady(t),
         t.write_cb = TRUE
  PROVE  LET f == FinishInFlightWrite(t, v)
         IN  /\ f \in Streams /\ Core(f) /\ AbortReady(f)
             /\ f.state = t.state /\ f.pending_abort = t.pending_abort
             /\ t.state \in {"writable", "erroring"}
             /\ f.in_flight_write = NoCall /\ f.in_flight_close = NoCall
             /\ f.started = TRUE /\ f.algorithms = t.algorithms
             /\ t.in_flight_write # NoCall /\ t.queue # <<>>
             /\ f.queue = t.queue /\ f.write_requests = t.write_requests
             /\ f.total = t.total /\ f.close_request = t.close_request
<1> DEFINE p == Settle(t.promise, t.in_flight_write, v)
           f == [t EXCEPT !.promise = p, !.in_flight_write = NoCall,
                          !.write_cb = FALSE]
<1>1. p \in [Calls -> Promises]
  BY SettlePromiseType
<1>2. /\ t.in_flight_write # NoCall /\ t.in_flight_close = NoCall
      /\ t.queue # <<>> /\ t.started = TRUE
      /\ t.state \in {"writable", "erroring"}
  BY DEF Core, HasOperationInFlight
<1>3. FinishInFlightWrite(t, v) = f
  <2>1. Expect(t, t.in_flight_write # NoCall) = t
    BY Zenon, <1>2, ExpectHolds DEF Core
  <2> QED
    BY Zenon, <2>1 DEF FinishInFlightWrite
<1> HIDE DEF p
<1>4. f \in Streams
  BY ZenonT(30), <1>1 DEF Streams
<1>5. /\ f.in_flight_write = NoCall /\ f.write_cb = FALSE
      /\ f.started = t.started /\ f.start_cb = t.start_cb
      /\ f.close_cb = t.close_cb /\ f.in_flight_close = t.in_flight_close
      /\ f.state = t.state
      /\ f.panicked = t.panicked /\ f.abort_cb = t.abort_cb
      /\ f.pending_abort = t.pending_abort /\ f.algorithms = t.algorithms
      /\ f.was_already_erroring = t.was_already_erroring
      /\ f.queue = t.queue /\ f.write_requests = t.write_requests
      /\ f.total = t.total /\ f.close_request = t.close_request
  BY DEF Streams
<1> HIDE DEF f
<1>6. Core(f) /\ AbortReady(f)
  BY <1>2, <1>5 DEF Core, AbortReady, HasOperationInFlight
<1> QED
  BY <1>2, <1>3, <1>4, <1>5, <1>6, SMTT(20)

(* The end of a write takes its chunk out of the queue.                    *)
LEMMA EndOfWriteControl ==
  ASSUME NEW t \in Streams, NEW v \in Promises, Control(t), t.write_cb = TRUE
  PROVE  LET u == Dequeue(FinishInFlightWrite(t, v))
         IN  u \in Streams /\ Control(u) /\ u.in_flight_close = NoCall
<1> DEFINE f == FinishInFlightWrite(t, v)
<1>2. /\ f \in Streams /\ Core(f) /\ AbortReady(f)
      /\ f.state = t.state /\ f.pending_abort = t.pending_abort
      /\ t.state \in {"writable", "erroring"}
      /\ f.in_flight_write = NoCall /\ f.in_flight_close = NoCall
      /\ f.started = TRUE /\ f.algorithms = t.algorithms
      /\ t.in_flight_write # NoCall /\ t.queue # <<>>
      /\ f.queue = t.queue /\ f.write_requests = t.write_requests
      /\ f.total = t.total /\ f.close_request = t.close_request
  BY Zenon, FinishInFlightWriteCore DEF Control
<1> HIDE DEF f
<1> DEFINE q == Tail(t.queue)
           tot == IF t.total < Head(t.queue).size THEN 0
                  ELSE t.total - Head(t.queue).size
           u == [f EXCEPT !.queue = q, !.total = tot]
<1>7. q \in Seq(Chunks) /\ tot \in Nat
  <2>1. q \in Seq(Chunks) /\ Head(t.queue) \in Chunks
    BY <1>2, StreamFields, TailSeq, SMTT(20)
  <2>2. Head(t.queue).size \in Nat /\ t.total \in Nat
    BY <2>1, StreamFields, SMTT(20) DEF Chunks
  <2> QED
    BY <2>1, <2>2, SMTT(20)
<1>8. Dequeue(f) = u
  BY <1>2, SMTT(20) DEF Dequeue
<1>q. /\ Len(t.queue) \in Nat \ {0} /\ Len(q) = Len(t.queue) - 1
      /\ \A i \in 1 .. Len(t.queue) - 1 : q[i] = t.queue[i + 1]
  BY <1>2, StreamFields, TailSeq, SMTT(20)
<1> HIDE DEF q, tot
<1>9. u \in Streams
  BY Zenon, <1>2, <1>7, EnqueueType
<1>10. /\ SameCallbacks(u, f) /\ u.state = f.state
       /\ u.panicked = f.panicked /\ u.abort_cb = f.abort_cb
       /\ u.pending_abort = f.pending_abort /\ u.algorithms = f.algorithms
       /\ u.was_already_erroring = f.was_already_erroring
       /\ u.queue = q /\ u.write_requests = f.write_requests
       /\ u.close_request = f.close_request
  BY <1>2 DEF Streams, SameCallbacks
<1> HIDE DEF u
<1>11. QueueMatches(u)
  <2>1. CASE t.state = "erroring"
    BY <1>2, <1>10, <2>1, SMTT(20) DEF QueueMatches, SameCallbacks
  <2>2. CASE t.state = "writable"
    <3> DEFINE last == IF t.close_request = NoCall THEN 0 ELSE 1
               m == Len(t.write_requests)
    <3>1. /\ Len(t.queue) = 1 + m + last
          /\ \A i \in 1 .. m : t.queue[1 + i].id = t.write_requests[i]
          /\ last = 1 => t.queue[1 + m + 1].id = CloseSentinel
      BY Zenon, <1>2, <2>2 DEF Control, QueueMatches
    <3>2. last \in {0, 1} /\ m \in Nat
      BY StreamFields
    <3> HIDE DEF last
    <3>3. Len(q) = 0 + m + last
      BY <1>q, <3>1, <3>2, SMTT(20)
    <3>4. \A i \in 1 .. m : q[0 + i].id = t.write_requests[i]
      <4> TAKE i \in 1 .. m
      <4>1. i \in 1 .. Len(t.queue) - 1 /\ 0 + i = i /\ i + 1 = 1 + i
        BY <3>1, <3>2, SMTT(20)
      <4>2. q[i] = t.queue[1 + i]
        BY <1>q, <4>1, SMTT(20)
      <4>3. t.queue[1 + i].id = t.write_requests[i]
        BY <3>1
      <4> QED
        BY <4>1, <4>2, <4>3, SMTT(20)
    <3>5. last = 1 => q[0 + m + 1].id = CloseSentinel
      <4> SUFFICES ASSUME last = 1 PROVE q[0 + m + 1].id = CloseSentinel
        OBVIOUS
      <4>1. /\ 0 + m + 1 = m + 1 /\ m + 1 \in 1 .. Len(t.queue) - 1
            /\ (m + 1) + 1 = 1 + m + 1
        BY <3>1, <3>2, SMTT(20)
      <4> QED
        BY <1>q, <3>1, <4>1, SMTT(20)
    <3>6. /\ u.state = "writable" /\ u.queue = q
          /\ u.write_requests = t.write_requests
          /\ u.close_request = t.close_request /\ u.in_flight_write = NoCall
      BY <1>2, <1>10, <2>2, SMTT(20) DEF SameCallbacks
    <3>7. last = IF u.close_request = NoCall THEN 0 ELSE 1
      BY <3>6 DEF last
    <3> DEFINE first == IF u.in_flight_write = NoCall THEN 0 ELSE 1
    <3>8. first = 0
      BY <3>6
    <3> HIDE DEF first
    <3>9. /\ Len(u.queue) = first + Len(u.write_requests) + last
          /\ \A i \in 1 .. Len(u.write_requests) :
               u.queue[first + i].id = u.write_requests[i]
          /\ last = 1 =>
               u.queue[first + Len(u.write_requests) + 1].id = CloseSentinel
      BY <3>3, <3>4, <3>5, <3>6, <3>8, SMTT(20)
    <3>10. first = IF u.in_flight_write = NoCall THEN 0 ELSE 1
      BY DEF first
    <3>11. u.in_flight_write # NoCall =>
             u.queue # <<>> /\ u.queue[1].id = u.in_flight_write
      BY <3>6
    <3>12. u.state = "writable"
      BY <3>6, SMTT(20)
    <3> HIDE DEF q
    <3> QED
      BY ONLY ZenonT(60), <3>7, <3>9, <3>10, <3>11, <3>12, QueueMatchesWritable
  <2> QED
    BY <1>2, <2>1, <2>2, SMTT(20)
<1>12. Control(u)
  BY <1>2, <1>10, <1>11, SMTT(20)
  DEF Control, Core, AbortReady, HasOperationInFlight, SameCallbacks
<1> QED
  BY <1>2, <1>8, <1>9, <1>10, <1>12, SMTT(20) DEF SameCallbacks, f

----------------------------------------------------------------------------
(* The actions.                                                            *)
Inv ==
  /\ TypeOK
  /\ Control(s)
  /\ Rested(s)

(* A frame of the stack is a frame, and so is what is left below it.       *)
LEMMA TopOfStack ==
  ASSUME TypeOK, ~Idle
  PROVE  Top \in Frames /\ Front(frames) \in Seq(Frames)
<1>1. Len(frames) \in Nat \ {0} /\ frames \in Seq(Frames)
  BY EmptySeq DEF TypeOK, Idle
<1>2. Front(frames) = SubSeq(frames, 1, Len(frames) - 1)
  BY DEF Front
<1> QED
  BY <1>1, <1>2, SMTT(20) DEF Top

(* A new call pushes a frame whose call is the next one.                   *)
LEMMA NewCallType ==
  ASSUME TypeOK, NewCall, NEW w \in OptWriters, NEW op \in {"write", "abort"}
  PROVE  /\ calls + 1 \in Calls /\ calls + 1 \in 0 .. MaxCalls
         /\ Append(frames, Frame(op, w, calls + 1)) \in Seq(Frames)
<1>1. calls + 1 \in Calls /\ calls + 1 \in 0 .. MaxCalls
  BY MaxCallsAssumption DEF TypeOK, NewCall, Calls
<1>2. Frame(op, w, calls + 1) \in Frames
  BY <1>1 DEF Frame, Frames
<1> QED
  BY <1>1, <1>2, SMTT(20) DEF TypeOK

(* A promise that is given its first value.                                *)
LEMMA SetPromiseKeeps ==
  ASSUME NEW t \in Streams, NEW k \in Calls, NEW v \in Promises
  PROVE  LET u == [t EXCEPT !.promise[k] = v]
         IN  /\ u \in Streams
             /\ Control(t) => Control(u)
             /\ Rested(t) => Rested(u)
<1> DEFINE p == [t.promise EXCEPT ![k] = v]
           u == [t EXCEPT !.promise = p]
<1>1. p \in [Calls -> Promises]
  BY StreamFields
<1> HIDE DEF p
<1>2. u \in Streams
  BY <1>1, PromiseType
<1>3. /\ SameCallbacks(u, t) /\ u.state = t.state
      /\ u.panicked = t.panicked /\ u.abort_cb = t.abort_cb
      /\ u.pending_abort = t.pending_abort /\ u.algorithms = t.algorithms
      /\ u.was_already_erroring = t.was_already_erroring
      /\ u.queue = t.queue /\ u.write_requests = t.write_requests
      /\ u.close_request = t.close_request
  BY DEF Streams, SameCallbacks
<1>4. u = [t EXCEPT !.promise[k] = v]
  BY DEF p
<1> HIDE DEF u
<1>5. QueueMatches(t) => QueueMatches(u)
  BY <1>3, QueueMatchesSame, SMTT(20) DEF SameCallbacks
<1>6. Control(t) => Control(u)
  BY <1>3, <1>5 DEF Control, Core, AbortReady, HasOperationInFlight, SameCallbacks
<1>7. Rested(t) => Rested(u)
  BY <1>3 DEF Rested, HasOperationInFlight, SameCallbacks
<1> QED
  BY <1>2, <1>4, <1>6, <1>7, SMTT(20)

LEMMA WriteAfterSizeControl ==
  ASSUME NEW t \in Streams, Control(t), Rested(t), NEW w \in OptWriters,
         NEW k \in Calls, NEW size \in Nat \cup {Throws, Invalid}
  PROVE  LET r == WriteAfterSize(t, w, k, size)
         IN  r \in Streams /\ Control(r) /\ Rested(r)
<1> DEFINE u == IF size = Throws /\ t.state = "writable"
                  THEN ControllerError(t, w, "size") ELSE t
           a == [u EXCEPT !.promise[k] = "pending",
                          !.write_requests = Append(@, k)]
           r == WriteAfterSize(t, w, k, size)
<1>1. u \in Streams /\ Control(u) /\ Rested(u)
  BY Zenon, ControllerErrorControl DEF Control, Errors
<1>2. size = Throws => u.state # "writable"
  BY Zenon, ControllerErrorControl DEF Control, Errors
<1>3. r = IF u.writer # w \/ u.state # "writable" \/ CloseQueuedOrInFlight(u)
            THEN [u EXCEPT !.promise[k] = "rejected"]
          ELSE IF size = Invalid THEN ControllerError(a, w, "range")
          ELSE AdvanceQueueIfNeeded(RefreshBackpressure(Enqueue(a, k, size), w), w)
  BY DEF WriteAfterSize
<1> HIDE DEF u, r
<1>4. CASE u.writer # w \/ u.state # "writable" \/ CloseQueuedOrInFlight(u)
  <2> DEFINE z == [u EXCEPT !.promise[k] = "rejected"]
  <2>1. z \in Streams /\ Control(z) /\ Rested(z)
    BY Zenon, <1>1, SetPromiseKeeps DEF Promises
  <2>2. r = z
    BY <1>3, <1>4
  <2> HIDE DEF z
  <2> QED
    BY <2>1, <2>2 DEF r
<1>5. CASE ~(u.writer # w \/ u.state # "writable" \/ CloseQueuedOrInFlight(u))
  <2>1. CASE size = Invalid
    <3>1. a \in Streams /\ Core(a) /\ a.pending_abort = NoCall /\ a.state = "writable"
      BY Zenon, <1>1, <1>5, AcceptWriteControl
    <3>2. r = ControllerError(a, w, "range")
      BY <1>3, <1>5, <2>1, SMTT(20)
    <3> HIDE DEF a
    <3> QED
      BY <3>1, <3>2, ControllerErrorControl DEF Errors, r
  <2>2. CASE size # Invalid
    <3> DEFINE x == Enqueue(a, k, size)
               y == RefreshBackpressure(x, w)
    <3>1. size \in Nat
      BY <1>2, <1>5, <2>2
    <3>2. x \in Streams /\ Control(x) /\ x.in_flight_close = NoCall
      BY Zenon, <1>1, <1>5, <3>1, AcceptWriteControl
    <3> HIDE DEF x
    <3>3. y \in Streams /\ Control(y) /\ y.in_flight_close = NoCall
      BY <3>2, RefreshBackpressureControl
    <3>4. r = AdvanceQueueIfNeeded(y, w)
      BY <1>3, <1>5, <2>2, SMTT(20) DEF x
    <3> HIDE DEF y
    <3> QED
      BY <3>3, <3>4, AdvanceQueueControl, SMTT(20) DEF r
  <2> QED
    BY <2>1, <2>2
<1> QED
  BY <1>4, <1>5 DEF r

LEMMA CloseControl ==
  ASSUME NEW t \in Streams, Control(t), Rested(t), NEW w \in OptWriters,
         NEW k \in Calls, ~CloseQueuedOrInFlight(t)
  PROVE  LET r == WritableStreamClose(t, w, k)
         IN  r \in Streams /\ Control(r) /\ Rested(r)
<1> DEFINE r == WritableStreamClose(t, w, k)
<1>1. CASE t.state \in {"closed", "errored"}
  <2> DEFINE z == [t EXCEPT !.promise[k] = "rejected"]
  <2>1. z \in Streams /\ Control(z) /\ Rested(z)
    BY Zenon, SetPromiseKeeps DEF Promises
  <2>2. r = z
    BY <1>1 DEF WritableStreamClose
  <2> HIDE DEF z
  <2> QED
    BY <2>1, <2>2
<1>2. CASE t.state \notin {"closed", "errored"}
  <2> DEFINE rd == IF t.backpressure /\ t.state = "writable"
                     THEN Settle(t.ready, w, "fulfilled") ELSE t.ready
             x == Enqueue([t EXCEPT !.promise[k] = "pending",
                                    !.close_request = k, !.ready = rd],
                          CloseSentinel, 0)
  <2>1. rd \in [Writers -> Promises]
    BY StreamFields, SettleType DEF Promises
  <2>2. r = AdvanceQueueIfNeeded(x, w)
    BY <1>2 DEF WritableStreamClose
  <2>3. t.state \in {"writable", "erroring"}
    BY <1>2, StreamFields DEF States
  <2> HIDE DEF rd
  <2>4. x \in Streams /\ Control(x) /\ x.in_flight_close = NoCall
    BY ZenonT(30), <2>1, <2>3, AcceptCloseControl
  <2> HIDE DEF x
  <2> QED
    BY <2>2, <2>4, AdvanceQueueControl, SMTT(20)
<1> QED
  BY <1>1, <1>2

LEMMA AbortControl ==
  ASSUME NEW t \in Streams, Control(t), Rested(t), NEW w \in OptWriters,
         NEW k \in Calls
  PROVE  LET r == AbortAfterSignal(t, w, k)
         IN  r \in Streams /\ Control(r) /\ Rested(r)
<1> DEFINE r == AbortAfterSignal(t, w, k)
           p == [t.promise EXCEPT ![k] = "pending"]
           b == t.state = "erroring"
           u == [t EXCEPT !.promise = p, !.pending_abort = k,
                          !.was_already_erroring = b]
<1>1. p \in [Calls -> Promises] /\ b \in BOOLEAN /\ k # NoCall
  BY StreamFields, NoCallIsNoCall DEF Promises
<1>2. r = IF t.state \in {"closed", "errored"}
            THEN [t EXCEPT !.promise[k] = "fulfilled"]
          ELSE IF t.pending_abort # NoCall THEN t
          ELSE IF t.state = "erroring" THEN u
          ELSE StartErroring(u, w, "abort")
  BY DEF AbortAfterSignal
<1>3. b = TRUE <=> t.state = "erroring"
  OBVIOUS
<1> HIDE DEF p, b
<1>4. u \in Streams
  BY ZenonT(60), <1>1 DEF Streams
<1>5. /\ SameCallbacks(u, t) /\ u.state = t.state
      /\ u.panicked = t.panicked /\ u.abort_cb = t.abort_cb
      /\ u.pending_abort = k /\ u.algorithms = t.algorithms
      /\ u.was_already_erroring = b
      /\ u.queue = t.queue /\ u.write_requests = t.write_requests
      /\ u.close_request = t.close_request
  BY DEF Streams, SameCallbacks
<1> HIDE DEF u, r
<1>6. CASE t.state \in {"closed", "errored"}
  <2> DEFINE z == [t EXCEPT !.promise[k] = "fulfilled"]
  <2>1. z \in Streams /\ Control(z) /\ Rested(z)
    BY Zenon, SetPromiseKeeps DEF Promises
  <2>2. r = z
    BY <1>2, <1>6
  <2> HIDE DEF z
  <2> QED
    BY <2>1, <2>2 DEF r
<1>7. CASE t.state \notin {"closed", "errored"} /\ t.pending_abort # NoCall
  BY <1>2, <1>7 DEF r
<1>8. CASE t.state = "erroring" /\ t.pending_abort = NoCall
  <2>1. r = u
    BY <1>2, <1>8
  <2>2. QueueMatches(u)
    BY <1>5, QueueMatchesSame, SMTT(20) DEF Control, SameCallbacks
  <2>3. Control(u)
    BY <1>1, <1>3, <1>5, <1>8, <2>2, SMTT(20)
    DEF Control, Core, AbortReady, HasOperationInFlight, SameCallbacks
  <2>4. Rested(u)
    BY <1>5 DEF Rested, HasOperationInFlight, SameCallbacks
  <2> QED
    BY <1>4, <2>1, <2>3, <2>4, SMTT(20) DEF r
<1>9. CASE t.state = "writable" /\ t.pending_abort = NoCall
  <2>1. r = StartErroring(u, w, "abort")
    BY <1>2, <1>9, SMTT(20)
  <2>2. Core(u) /\ AbortReady(u) /\ u.state = "writable"
    BY <1>5, <1>9, SMTT(20)
    DEF Control, Core, AbortReady, HasOperationInFlight, SameCallbacks
  <2> QED
    BY <1>4, <2>1, <2>2, StartErroringControl, SMTT(20) DEF Errors, r
<1> QED
  BY <1>6, <1>7, <1>8, <1>9, StreamFields, SMTT(20) DEF States

(* Locking and signalling touch nothing that Control is about.             *)
SameControl(u, t) ==
  /\ SameCallbacks(u, t) /\ u.state = t.state
  /\ u.panicked = t.panicked /\ u.abort_cb = t.abort_cb
  /\ u.pending_abort = t.pending_abort /\ u.algorithms = t.algorithms
  /\ u.was_already_erroring = t.was_already_erroring
  /\ u.queue = t.queue /\ u.write_requests = t.write_requests
  /\ u.close_request = t.close_request

LEMMA SameControlKeeps ==
  ASSUME NEW t, NEW u, SameControl(u, t), Control(t), Rested(t)
  PROVE  Control(u) /\ Rested(u)
<1>1. QueueMatches(u)
  BY QueueMatchesSame DEF Control, SameControl, SameCallbacks
<1> QED
  BY <1>1
  DEF Control, Core, AbortReady, Rested, HasOperationInFlight, SameControl, SameCallbacks

LEMMA LockFields ==
  ASSUME NEW t \in Streams, NEW w \in OptWriters,
         NEW r \in [Writers -> Promises], NEW c \in [Writers -> Promises]
  PROVE  LET u == [t EXCEPT !.writer = w, !.ready = r, !.closed = c]
         IN  u \in Streams /\ SameControl(u, t)
<1> DEFINE u == [t EXCEPT !.writer = w, !.ready = r, !.closed = c]
<1>1. u \in Streams
  BY Zenon DEF Streams
<1>2. SameControl(u, t)
  BY DEF Streams, SameControl, SameCallbacks
<1> QED
  BY <1>1, <1>2

LEMMA SignalFields ==
  ASSUME NEW t \in Streams
  PROVE  LET u == [t EXCEPT !.signalled = TRUE]
         IN  u \in Streams /\ SameControl(u, t)
<1> DEFINE u == [t EXCEPT !.signalled = TRUE]
<1>1. u \in Streams
  BY Zenon DEF Streams
<1>2. SameControl(u, t)
  BY DEF Streams, SameControl, SameCallbacks
<1> QED
  BY <1>1, <1>2

(* Methods called by JavaScript keep the invariant.                        *)
LEMMA CallsKeepInv ==
  ASSUME Inv
  PROVE  /\ \A w \in Writers :
              GetWriter(w) \/ ReleaseLock(w) \/ WriteWithoutSize(w)
                \/ WriteCallsSize(w) => Inv'
         /\ \A w \in OptWriters :
              Close(w) \/ AbortSilent(w) \/ AbortSignals(w) => Inv'
         /\ ErrorCall => Inv'
<1> USE DEF Inv
<1>1. s \in Streams
  BY DEF TypeOK
<1>2. ASSUME NEW w \in Writers, GetWriter(w) PROVE Inv'
  <2>1. PICK x \in Promises, y \in Promises :
          s' = [s EXCEPT !.writer = w, !.ready[w] = x, !.closed[w] = y]
    BY Zenon, <1>2 DEF GetWriter, Promises
  <2> DEFINE r == [s.ready EXCEPT ![w] = x]
             c == [s.closed EXCEPT ![w] = y]
  <2>2. r \in [Writers -> Promises] /\ c \in [Writers -> Promises]
    BY <1>1, StreamFields
  <2>3. s' = [s EXCEPT !.writer = w, !.ready = r, !.closed = c]
    BY <2>1
  <2> HIDE DEF r, c
  <2>4. s' \in Streams /\ SameControl(s', s)
    BY Zenon, <1>1, <2>2, <2>3, LockFields
  <2> QED
    BY <1>2, <2>4, SameControlKeeps DEF GetWriter, TypeOK
<1>3. ASSUME NEW w \in Writers, ReleaseLock(w) PROVE Inv'
  <2> DEFINE r == [s.ready EXCEPT ![w] = "rejected"]
             c == [s.closed EXCEPT ![w] = "rejected"]
  <2>1. w # NoWriter
    BY NoWriterAssumption
  <2>2. r \in [Writers -> Promises] /\ c \in [Writers -> Promises]
    BY <1>1, StreamFields DEF Promises
  <2>3. s' = [s EXCEPT !.writer = NoWriter, !.ready = r, !.closed = c]
    BY Zenon, <1>1, <1>3, <2>1 DEF ReleaseLock, EnsureReadyPromiseRejected, Streams
  <2> HIDE DEF r, c
  <2>4. s' \in Streams /\ SameControl(s', s)
    BY Zenon, <1>1, <2>2, <2>3, LockFields
  <2> QED
    BY <1>3, <2>4, SameControlKeeps, SMTT(20) DEF ReleaseLock, TypeOK
<1>4. ASSUME NEW w \in Writers, WriteWithoutSize(w) PROVE Inv'
  <2>1. calls + 1 \in Calls /\ calls + 1 \in 0 .. MaxCalls
    BY <1>4, NewCallType, SMTT(20) DEF WriteWithoutSize
  <2>2. s' \in Streams /\ Control(s') /\ Rested(s')
    BY <1>1, <1>4, <2>1, WriteAfterSizeControl, SMTT(20) DEF WriteWithoutSize
  <2> QED
    BY <1>4, <2>1, <2>2, SMTT(20) DEF WriteWithoutSize, TypeOK
<1>5. ASSUME NEW w \in Writers, WriteCallsSize(w) PROVE Inv'
  <2>1. /\ calls + 1 \in 0 .. MaxCalls
        /\ Append(frames, Frame("write", w, calls + 1)) \in Seq(Frames)
    BY <1>5, NewCallType DEF WriteCallsSize
  <2> QED
    BY <1>5, <2>1, SMTT(20) DEF WriteCallsSize, TypeOK
<1>6. ASSUME NEW w \in OptWriters, Close(w) PROVE Inv'
  <2>1. calls + 1 \in Calls /\ calls + 1 \in 0 .. MaxCalls
    BY <1>6, NewCallType, SMTT(20) DEF Close
  <2>2. s' \in Streams /\ Control(s') /\ Rested(s')
    <3>1. CASE CloseQueuedOrInFlight(s)
      <4> DEFINE z == [s EXCEPT !.promise[calls + 1] = "rejected"]
      <4>1. z \in Streams /\ Control(z) /\ Rested(z)
        BY Zenon, <1>1, <2>1, SetPromiseKeeps DEF Promises
      <4>2. s' = z
        BY <1>6, <3>1 DEF Close
      <4> HIDE DEF z
      <4> QED
        BY <4>1, <4>2
    <3>2. CASE ~CloseQueuedOrInFlight(s)
      BY Zenon, <1>1, <1>6, <2>1, <3>2, CloseControl DEF Close
    <3> QED
      BY <3>1, <3>2
  <2> QED
    BY <1>6, <2>1, <2>2, SMTT(20) DEF Close, TypeOK
<1>7. ASSUME NEW w \in OptWriters, AbortSilent(w) PROVE Inv'
  <2>1. calls + 1 \in Calls /\ calls + 1 \in 0 .. MaxCalls
    BY <1>7, NewCallType DEF AbortSilent
  <2>2. s' \in Streams /\ Control(s') /\ Rested(s')
    BY <1>1, <1>7, <2>1, AbortControl, SMTT(20) DEF AbortSilent
  <2> QED
    BY <1>7, <2>1, <2>2, SMTT(20) DEF AbortSilent, TypeOK
<1>8. ASSUME NEW w \in OptWriters, AbortSignals(w) PROVE Inv'
  <2>1. /\ calls + 1 \in 0 .. MaxCalls
        /\ Append(frames, Frame("abort", w, calls + 1)) \in Seq(Frames)
    BY <1>8, NewCallType DEF AbortSignals
  <2>2. s' \in Streams /\ SameControl(s', s)
    BY <1>1, <1>8, SignalFields, SMTT(20) DEF AbortSignals
  <2> QED
    BY <1>8, <2>1, <2>2, SameControlKeeps, SMTT(20) DEF AbortSignals, TypeOK
<1>9. ASSUME ErrorCall PROVE Inv'
  <2>1. s' = ControllerError(s, s.writer, "controller") /\ s.state = "writable"
    BY <1>9 DEF ErrorCall
  <2>2. s' \in Streams /\ Control(s') /\ Rested(s')
    BY Zenon, <1>1, <2>1, StreamFields, ControllerErrorControl DEF Errors, Control
  <2> QED
    BY <1>9, <2>2, SMTT(20) DEF ErrorCall, TypeOK
<1> QED
  BY <1>2, <1>3, <1>4, <1>5, <1>6, <1>7, <1>8, <1>9, SMTT(20)

(* The returns of user code keep the invariant.                            *)
LEMMA ReturnsKeepInv ==
  ASSUME Inv, UserReturns
  PROVE  Inv'
<1> USE DEF Inv
<1>1. s \in Streams
  BY DEF TypeOK
<1>2. ASSUME NEW size \in Nat \cup {Throws, Invalid}, SizeResult(size) PROVE Inv'
  <2>1. Top \in Frames /\ Front(frames) \in Seq(Frames)
    BY <1>2, TopOfStack DEF SizeResult
  <2>2. Top.w \in OptWriters /\ Top.k \in Calls
    BY <2>1 DEF Frames
  <2>3. s' \in Streams /\ Control(s') /\ Rested(s')
    BY Zenon, <1>1, <1>2, <2>2, WriteAfterSizeControl DEF SizeResult
  <2> QED
    BY <1>2, <2>1, <2>3, SMTT(20) DEF SizeResult, TypeOK
<1>3. ASSUME ListenersReturn PROVE Inv'
  <2>1. Top \in Frames /\ Front(frames) \in Seq(Frames)
    BY <1>3, TopOfStack DEF ListenersReturn
  <2>2. Top.w \in OptWriters /\ Top.k \in Calls
    BY <2>1 DEF Frames
  <2>3. s' \in Streams /\ Control(s') /\ Rested(s')
    BY Zenon, <1>1, <1>3, <2>2, AbortControl DEF ListenersReturn
  <2> QED
    BY <1>3, <2>1, <2>3, SMTT(20) DEF ListenersReturn, TypeOK
<1>4. ASSUME ListenerThrows PROVE Inv'
  <2>1. Front(frames) \in Seq(Frames)
    BY <1>4, TopOfStack, SMTT(20) DEF ListenerThrows
  <2> QED
    BY <1>4, <2>1, SMTT(20) DEF ListenerThrows, TypeOK
<1> QED
  BY Zenon, <1>2, <1>3, <1>4, SizesAssumption
  DEF UserReturns, SizeReturns, SizeThrows, SizeInvalid

LEMMA StartedControl ==
  ASSUME NEW t \in Streams, Control(t), t.start_cb = TRUE
  PROVE  LET u == Started(t)
         IN  /\ u \in Streams /\ Control(u)
             /\ u.state \in {"writable", "erroring"} /\ u.started = TRUE
             /\ u.in_flight_write = NoCall /\ u.in_flight_close = NoCall
<1> DEFINE u == [t EXCEPT !.started = TRUE, !.start_cb = FALSE]
<1>1. u \in Streams
  BY ZenonT(30) DEF Streams
<1>2. /\ u.started = TRUE /\ u.start_cb = FALSE /\ u.state = t.state
      /\ u.write_cb = t.write_cb /\ u.close_cb = t.close_cb
      /\ u.in_flight_write = t.in_flight_write
      /\ u.in_flight_close = t.in_flight_close
      /\ u.panicked = t.panicked /\ u.abort_cb = t.abort_cb
      /\ u.pending_abort = t.pending_abort /\ u.algorithms = t.algorithms
      /\ u.was_already_erroring = t.was_already_erroring
      /\ u.queue = t.queue /\ u.write_requests = t.write_requests
      /\ u.close_request = t.close_request
  BY DEF Streams
<1>3. Started(t) = u
  BY DEF Started
<1> HIDE DEF u
<1>4. /\ t.started = FALSE /\ t.in_flight_write = NoCall
      /\ t.in_flight_close = NoCall /\ t.state \in {"writable", "erroring"}
  BY DEF Control, Core, HasOperationInFlight
<1>5. QueueMatches(u)
  BY <1>2, QueueMatchesSame, SMTT(20) DEF Control
<1>6. Control(u)
  BY <1>2, <1>4, <1>5, SMTT(20) DEF Control, Core, AbortReady, HasOperationInFlight
<1> QED
  BY <1>1, <1>2, <1>3, <1>4, <1>6, SMTT(20)

LEMMA PendingAbortType ==
  ASSUME NEW t \in Streams, NEW p \in [Calls -> Promises]
  PROVE  [t EXCEPT !.promise = p, !.pending_abort = NoCall] \in Streams
  BY Zenon DEF Streams

LEMMA FinishInFlightCloseCore ==
  ASSUME NEW t \in Streams, NEW v \in Promises, Control(t),
         t.close_cb = "waiting"
  PROVE  LET f == FinishInFlightClose(t, v)
             g == SettlePendingAbort(f, v)
         IN  /\ f \in Streams /\ Core(f) /\ f.pending_abort = t.pending_abort
             /\ g \in Streams /\ Core(g) /\ g.pending_abort = NoCall
             /\ f.state = t.state /\ g.state = t.state
             /\ t.state \in {"writable", "erroring"}
             /\ f.started = TRUE /\ ~HasOperationInFlight(f)
             /\ g.started = TRUE /\ ~HasOperationInFlight(g)
             /\ f.queue = <<>> /\ f.write_requests = <<>>
             /\ g.queue = <<>> /\ g.write_requests = <<>>
<1> DEFINE p == Settle(t.promise, t.in_flight_close, v)
           f == [t EXCEPT !.promise = p, !.in_flight_close = NoCall,
                          !.close_cb = "done"]
           q == Settle(f.promise, f.pending_abort, v)
           g == [f EXCEPT !.promise = q, !.pending_abort = NoCall]
<1>1. p \in [Calls -> Promises]
  BY SettlePromiseType
<1>2. /\ t.in_flight_close # NoCall /\ t.in_flight_write = NoCall
      /\ t.queue = <<>> /\ t.write_requests = <<>> /\ t.started = TRUE
      /\ t.state \in {"writable", "erroring"}
  BY DEF Control, Core, HasOperationInFlight
<1>3. FinishInFlightClose(t, v) = f
  <2>1. Expect(t, t.in_flight_close # NoCall) = t
    BY Zenon, <1>2, ExpectHolds DEF Control, Core
  <2> QED
    BY Zenon, <2>1 DEF FinishInFlightClose
<1> HIDE DEF p
<1>4. f \in Streams
  BY ZenonT(60), <1>1 DEF Streams
<1>5. /\ f.in_flight_close = NoCall /\ f.close_cb = "done"
      /\ f.started = t.started /\ f.start_cb = t.start_cb
      /\ f.write_cb = t.write_cb /\ f.in_flight_write = t.in_flight_write
      /\ f.state = t.state
      /\ f.panicked = t.panicked /\ f.abort_cb = t.abort_cb
      /\ f.pending_abort = t.pending_abort
      /\ f.queue = t.queue /\ f.write_requests = t.write_requests
  BY SMTT(20) DEF Streams
<1> HIDE DEF f
<1>6. Core(f)
  BY <1>2, <1>5, SMTT(20) DEF Control, Core, HasOperationInFlight
<1>7. q \in [Calls -> Promises]
  BY <1>4, SettlePromiseType
<1>8. SettlePendingAbort(f, v) = g
  BY DEF SettlePendingAbort
<1> HIDE DEF q
<1>9. g \in Streams
  BY Zenon, <1>4, <1>7, PendingAbortType
<1>10. /\ SameCallbacks(g, f) /\ g.state = f.state
       /\ g.panicked = f.panicked /\ g.abort_cb = f.abort_cb
       /\ g.pending_abort = NoCall
       /\ g.queue = f.queue /\ g.write_requests = f.write_requests
       /\ g.close_request = f.close_request
  BY <1>4, SMTT(20) DEF Streams, SameCallbacks
<1> HIDE DEF g
<1>11. Core(g)
  BY <1>2, <1>5, <1>6, <1>10, SMTT(20) DEF Core, HasOperationInFlight, SameCallbacks
<1> QED
  BY <1>2, <1>3, <1>4, <1>5, <1>6, <1>8, <1>9, <1>10, <1>11, SMTT(20)
  DEF HasOperationInFlight, SameCallbacks

(* A stream that has closed has nothing left to do.                        *)
LEMMA ClosedControl ==
  ASSUME NEW t \in Streams, NEW c \in [Writers -> Promises], Core(t),
         t.pending_abort = NoCall, t.abort_cb = NoCall, t.started = TRUE,
         ~HasOperationInFlight(t), t.queue = <<>>, t.write_requests = <<>>
  PROVE  LET u == [t EXCEPT !.state = "closed", !.err = NoError, !.closed = c]
         IN  u \in Streams /\ Control(u) /\ Rested(u)
<1> DEFINE u == [t EXCEPT !.state = "closed", !.err = NoError, !.closed = c]
<1>1. u \in Streams
  BY ZenonT(30) DEF Streams, States, Errors
<1>2. /\ SameCallbacks(u, t) /\ u.state = "closed"
      /\ u.panicked = t.panicked /\ u.abort_cb = t.abort_cb
      /\ u.pending_abort = t.pending_abort
      /\ u.queue = t.queue /\ u.write_requests = t.write_requests
      /\ u.close_request = t.close_request
  BY DEF Streams, SameCallbacks
<1> HIDE DEF u
<1>3. Control(u) /\ Rested(u)
  BY <1>2 DEF Control, Core, AbortReady, Rested, QueueMatches,
              HasOperationInFlight, SameCallbacks
<1> QED
  BY <1>1, <1>3 DEF u

LEMMA AbortSettledControl ==
  ASSUME NEW t \in Streams, NEW w \in OptWriters, NEW v \in Promises,
         Control(t), Rested(t), t.abort_cb # NoCall
  PROVE  LET u == RejectCloseAndClosedPromiseIfNeeded(
                    [t EXCEPT !.promise = Settle(@, t.abort_cb, v),
                              !.abort_cb = NoCall], w)
         IN  u \in Streams /\ Control(u) /\ Rested(u)
<1> DEFINE p == Settle(t.promise, t.abort_cb, v)
           f == [t EXCEPT !.promise = p, !.abort_cb = NoCall]
           u == RejectCloseAndClosedPromiseIfNeeded(f, w)
<1>1. p \in [Calls -> Promises]
  BY SettlePromiseType, SMTT(20)
<1>2. t.state = "errored"
  BY DEF Control, Core
<1> HIDE DEF p
<1>3. f \in Streams
  BY Zenon, <1>1 DEF Streams
<1>4. /\ SameCallbacks(f, t) /\ f.state = t.state
      /\ f.panicked = t.panicked /\ f.abort_cb = NoCall
      /\ f.pending_abort = t.pending_abort
      /\ f.queue = t.queue /\ f.write_requests = t.write_requests
  BY DEF Streams, SameCallbacks
<1> HIDE DEF f
<1>5. u \in Streams
  BY <1>3, RejectCloseType
<1>6. /\ SameCallbacks(u, f) /\ u.state = f.state
      /\ u.panicked = f.panicked /\ u.abort_cb = f.abort_cb
      /\ u.pending_abort = f.pending_abort /\ u.close_request = NoCall
      /\ u.queue = f.queue /\ u.write_requests = f.write_requests
  BY <1>3, SMTT(20) DEF Streams, SameCallbacks, RejectCloseAndClosedPromiseIfNeeded
<1> HIDE DEF u
<1>7. Control(u) /\ Rested(u)
  BY <1>2, <1>4, <1>6, SMTT(20) DEF Control, Core, AbortReady, Rested, QueueMatches,
                          HasOperationInFlight, SameCallbacks
<1> QED
  BY <1>5, <1>7, SMTT(20) DEF u, f, p

LEMMA CallbacksKeepInv ==
  ASSUME Inv, Callbacks
  PROVE  Inv'
<1> USE DEF Inv
<1> DEFINE Good(u) == u \in Streams /\ Control(u) /\ Rested(u)
<1>1. s \in Streams /\ Control(s) /\ Rested(s)
  BY DEF TypeOK
<1>2. /\ s.writer \in OptWriters /\ s.close_writer \in OptWriters
      /\ s.start_cb \in BOOLEAN /\ s.write_cb \in BOOLEAN
  BY <1>1, StreamFields
<1>3. /\ "start" \in Errors /\ "write" \in Errors /\ "close" \in Errors
      /\ "fulfilled" \in Promises /\ "rejected" \in Promises
  BY DEF Errors, Promises
<1>4. ASSUME Good(s'), Callback PROVE Inv'
  BY <1>4 DEF TypeOK, Callback
<1>5. ASSUME StartFulfilled \/ StartRejected PROVE Inv'
  <2> DEFINE u == Started(s)
  <2>1. s.start_cb = TRUE /\ Callback
    BY <1>5 DEF StartFulfilled, StartRejected
  <2>2. /\ u \in Streams /\ Control(u)
        /\ u.state \in {"writable", "erroring"} /\ u.started = TRUE
        /\ u.in_flight_write = NoCall /\ u.in_flight_close = NoCall
    BY Zenon, <1>1, <2>1, StartedControl
  <2>3. s' = AdvanceQueueIfNeeded(u, s.writer)
          \/ s' = DealWithRejection(u, s.writer, "start")
    BY <1>5 DEF StartFulfilled, StartRejected
  <2> HIDE DEF u
  <2>4. Core(u) /\ AbortReady(u) /\ ~HasOperationInFlight(u)
    BY <2>2 DEF Control, HasOperationInFlight
  <2>5. Good(AdvanceQueueIfNeeded(u, s.writer))
    BY <1>2, <2>2, AdvanceQueueControl, SMTT(20)
  <2>6. Good(DealWithRejection(u, s.writer, "start"))
    BY Zenon, <1>2, <1>3, <2>2, <2>4, DealWithRejectionControl
  <2> QED
    BY <1>4, <2>1, <2>3, <2>5, <2>6, SMTT(20)
<1>6. ASSUME WriteFulfilled PROVE Inv'
  <2> DEFINE d == Dequeue(FinishInFlightWrite(s, "fulfilled"))
             r == RefreshBackpressure(d, s.writer)
  <2>1. s.write_cb = TRUE /\ Callback /\ s' = AdvanceQueueIfNeeded(r, s.writer)
    BY <1>6 DEF WriteFulfilled
  <2>2. d \in Streams /\ Control(d) /\ d.in_flight_close = NoCall
    BY Zenon, <1>1, <1>3, <2>1, EndOfWriteControl
  <2> HIDE DEF d
  <2>3. r \in Streams /\ Control(r) /\ r.in_flight_close = NoCall
    BY <1>2, <2>2, RefreshBackpressureControl, SMTT(20)
  <2> HIDE DEF r
  <2>4. Good(AdvanceQueueIfNeeded(r, s.writer))
    BY <1>2, <2>3, AdvanceQueueControl, SMTT(20)
  <2> QED
    BY <1>4, <2>1, <2>4, SMTT(20)
<1>7. ASSUME WriteRejected PROVE Inv'
  <2> DEFINE t == IF s.state = "writable" THEN ClearAlgorithms(s) ELSE s
             f == FinishInFlightWrite(t, "rejected")
  <2>1. s.write_cb = TRUE /\ Callback /\ s' = DealWithRejection(f, s.writer, "write")
    BY <1>7 DEF WriteRejected
  <2>2. t \in Streams
    BY <1>1, ClearAlgorithmsType
  <2>3. Core(t) /\ AbortReady(t) /\ t.write_cb = TRUE
    <3>1. CASE s.state # "writable"
      BY <1>1, <2>1, <3>1, SMTT(20) DEF Control
    <3>2. CASE s.state = "writable"
      <4> DEFINE z == ClearAlgorithms(s)
      <4>1. /\ z.state = s.state /\ z.panicked = s.panicked
            /\ z.abort_cb = s.abort_cb /\ z.pending_abort = s.pending_abort
            /\ SameCallbacks(z, s)
            /\ z.queue = s.queue /\ z.write_requests = s.write_requests
            /\ z.close_request = s.close_request
        BY <1>1 DEF Streams, ClearAlgorithms, SameCallbacks
      <4>2. t = z
        BY <3>2
      <4> HIDE DEF z, t
      <4>3. s.pending_abort = NoCall
        BY <1>1, <3>2, SMTT(20) DEF Control
      <4>4. Core(z) /\ AbortReady(z) /\ z.write_cb = TRUE
        BY <1>1, <2>1, <4>1, <4>3, SMTT(20)
        DEF Control, Core, AbortReady, HasOperationInFlight, SameCallbacks
      <4> QED
        BY <4>2, <4>4, SMTT(20)
    <3> QED
      BY Zenon, <3>1, <3>2
  <2> HIDE DEF t
  <2>4. /\ f \in Streams /\ Core(f) /\ AbortReady(f)
        /\ f.state \in {"writable", "erroring"}
        /\ ~HasOperationInFlight(f) /\ f.started = TRUE
    BY Zenon, <1>3, <2>2, <2>3, FinishInFlightWriteCore DEF HasOperationInFlight
  <2> HIDE DEF f
  <2>5. Good(DealWithRejection(f, s.writer, "write"))
    BY Zenon, <1>2, <1>3, <2>4, DealWithRejectionControl
  <2> QED
    BY <1>4, <2>1, <2>5, SMTT(20)
<1>8. ASSUME CloseFulfilled PROVE Inv'
  <2> DEFINE f == FinishInFlightClose(s, "fulfilled")
             g == SettlePendingAbort(f, "fulfilled")
             u == IF f.state = "erroring" THEN g ELSE f
             c == Settle(u.closed, s.close_writer, "fulfilled")
  <2>1. /\ s.close_cb = "waiting" /\ Callback
        /\ s' = [u EXCEPT !.state = "closed", !.err = NoError, !.closed = c]
    BY <1>8 DEF CloseFulfilled
  <2>2. /\ f \in Streams /\ Core(f) /\ f.pending_abort = s.pending_abort
        /\ g \in Streams /\ Core(g) /\ g.pending_abort = NoCall
        /\ f.state = s.state /\ g.state = s.state
        /\ s.state \in {"writable", "erroring"}
        /\ f.started = TRUE /\ ~HasOperationInFlight(f)
        /\ g.started = TRUE /\ ~HasOperationInFlight(g)
        /\ f.queue = <<>> /\ f.write_requests = <<>>
        /\ g.queue = <<>> /\ g.write_requests = <<>>
    BY Zenon, <1>1, <1>3, <2>1, FinishInFlightCloseCore
  <2> HIDE DEF f, g
  <2>3. /\ u \in Streams /\ Core(u) /\ u.pending_abort = NoCall
        /\ u.abort_cb = NoCall /\ u.started = TRUE
        /\ ~HasOperationInFlight(u) /\ u.queue = <<>> /\ u.write_requests = <<>>
    <3>1. s.state = "writable" => s.pending_abort = NoCall
      BY <1>1, SMTT(20) DEF Control
    <3>2. f.abort_cb = NoCall /\ g.abort_cb = NoCall
      BY <2>2, SMTT(20) DEF Core
    <3> QED
      BY <2>2, <3>1, <3>2, SMTT(20)
  <2> HIDE DEF u
  <2>4. c \in [Writers -> Promises]
    BY <1>3, <2>3, StreamFields, SettleType, SMTT(20)
  <2> HIDE DEF c
  <2>5. Good(s')
    BY Zenon, <2>1, <2>3, <2>4, ClosedControl
  <2> QED
    BY <1>4, <2>1, <2>5, SMTT(20)
<1>9. ASSUME CloseRejected PROVE Inv'
  <2> DEFINE g == SettlePendingAbort(FinishInFlightClose(s, "rejected"), "rejected")
  <2>1. /\ s.close_cb = "waiting" /\ Callback
        /\ s' = DealWithRejection(g, s.close_writer, "close")
    BY <1>9 DEF CloseRejected
  <2>2. /\ g \in Streams /\ Core(g) /\ g.pending_abort = NoCall
        /\ g.state \in {"writable", "erroring"}
        /\ g.started = TRUE /\ ~HasOperationInFlight(g)
    BY Zenon, <1>1, <1>3, <2>1, FinishInFlightCloseCore
  <2> HIDE DEF g
  <2>3. AbortReady(g)
    BY <2>2 DEF AbortReady
  <2>4. Good(DealWithRejection(g, s.close_writer, "close"))
    BY Zenon, <1>2, <1>3, <2>2, <2>3, DealWithRejectionControl
  <2> QED
    BY <1>4, <2>1, <2>4, SMTT(20)
<1>10. ASSUME NEW v \in Promises, AbortSettled(v) PROVE Inv'
  <2>1. Good(s') /\ Callback
    BY Zenon, <1>1, <1>2, <1>10, AbortSettledControl DEF AbortSettled
  <2> QED
    BY <1>4, <2>1
<1> QED
  BY <1>3, <1>5, <1>6, <1>7, <1>8, <1>9, <1>10, SMTT(20)
  DEF Callbacks, AbortFulfilled, AbortRejected

LEMMA InitInv == Init => Inv
<1> SUFFICES ASSUME Init PROVE Inv
  OBVIOUS
<1>1. s \in Streams
  <2>1. [k \in Calls |-> "none"] \in [Calls -> Promises]
    BY DEF Promises
  <2>2. [w \in Writers |-> "none"] \in [Writers -> Promises]
    BY DEF Promises
  <2>3. <<>> \in Seq(Calls) /\ <<>> \in Seq(Chunks)
    OBVIOUS
  <2> DEFINE p == [k \in Calls |-> "none"]
             r == [w \in Writers |-> "none"]
             b == HWM = 0
  <2>4. b \in BOOLEAN
    BY SMTT(20)
  <2>5. s = [ state |-> "writable", err |-> NoError, backpressure |-> b,
              writer |-> NoWriter, write_requests |-> <<>>,
              close_request |-> NoCall, in_flight_write |-> NoCall,
              in_flight_close |-> NoCall, pending_abort |-> NoCall,
              was_already_erroring |-> FALSE,
              started |-> FALSE, queue |-> <<>>, total |-> 0,
              algorithms |-> TRUE, signalled |-> FALSE,
              start_cb |-> TRUE, write_cb |-> FALSE, close_cb |-> "idle",
              close_writer |-> NoWriter, abort_cb |-> NoCall,
              promise |-> p, ready |-> r, closed |-> r, panicked |-> FALSE ]
    BY SMTT(20) DEF Init
  <2> HIDE DEF p, r, b
  <2> QED
    BY Zenon, <2>1, <2>2, <2>3, <2>4, <2>5 DEF Streams, States, Errors, NoError, p, r
<1>2. Control(s) /\ Rested(s)
  BY SMTT(20) DEF Init, Control, Core, AbortReady, Rested, QueueMatches,
         HasOperationInFlight
<1>3. frames \in Seq(Frames) /\ calls \in 0 .. MaxCalls
  BY MaxCallsAssumption DEF Init
<1> QED
  BY <1>1, <1>2, <1>3, SMTT(20) DEF Inv, TypeOK

LEMMA NextInv == Inv /\ [Next]_vars => Inv'
<1> SUFFICES ASSUME Inv, [Next]_vars PROVE Inv'
  OBVIOUS
<1>1. CASE UNCHANGED vars
  BY <1>1 DEF Inv, TypeOK, vars
<1>2. CASE Callbacks
  BY <1>2, CallbacksKeepInv, SMTT(20)
<1>3. CASE UserReturns
  BY <1>3, ReturnsKeepInv, SMTT(20)
<1>4. CASE Next /\ ~Callbacks /\ ~UserReturns
  BY <1>4, CallsKeepInv, SMTT(20) DEF Next
<1> QED
  BY <1>1, <1>2, <1>3, <1>4, SMTT(20)

(* Whatever the calls, the reentrant user code and the order in which the  *)
(* sink's promises settle: no expect() of the writable stream panics, the  *)
(* queue holds exactly the requests that wait plus the one in flight, and  *)
(* a stream that has started never rests with work it could do.            *)
THEOREM WritableStreamSafe ==
  Spec => [](TypeOK /\ NoPanic /\ QueueMatchesRequests /\ NothingStuck)
<1>1. Inv => TypeOK /\ NoPanic /\ QueueMatchesRequests /\ NothingStuck
  BY DEF Inv, NoPanic, QueueMatchesRequests, NothingStuck, Control, Core, Rested
<1> QED
  BY <1>1, InitInv, NextInv, PTL DEF Spec

=============================================================================
