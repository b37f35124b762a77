------------------------- MODULE ReadableByteStream -------------------------
(***************************************************************************)
(* A ReadableStream with a byte controller: the controller, its pull-into  *)
(* descriptors and its BYOB request (readable/byte_controller.rs), and the *)
(* default and BYOB readers that share it (readable/byob_reader.rs).       *)
(*                                                                         *)
(* The bytes of the source are numbered in the order it produces them,     *)
(* whether it enqueues them or writes them into the buffer of a BYOB       *)
(* request; a chunk, the filled part of a descriptor and the answer of a   *)
(* read are sequences of such numbers.  As in ReadableStream the source's  *)
(* pull() is called last, so what it calls is a call made just after.      *)
(***************************************************************************)
EXTENDS Integers, Sequences, SequencesExt, FiniteSetsExt

CONSTANTS
  MaxReads,    \* bound on the calls of read()
  MaxBytes,    \* bound on the bytes the source produces
  Readers,     \* the readers that getReader() may create
  NoReader,    \* Option::None for a reader
  Views,       \* the views given to read(view): [len, elem, min], in bytes
  AutoSizes,   \* the values of autoAllocateChunkSize; 0: undefined
  HWM          \* strategy_hwm

Reads == 1 .. MaxReads
NoRequest == [offset |-> -1, len |-> -1]

VARIABLES
  s,       \* the stream, its controller, its readers and their requests
  auto     \* autoAllocateChunkSize

vars == <<s, auto>>

NewStream ==
  [ state |-> "readable", reader |-> NoReader,
    kind |-> [r \in Readers |-> "none"],
    held |-> [r \in Readers |-> FALSE],
    closed |-> [r \in Readers |-> "none"],
    requests |-> [r \in Readers |-> <<>>],
    answer |-> [k \in Reads |-> "none"],
    bytes |-> [k \in Reads |-> 0], delivered |-> <<>>,
    asked |-> [k \in Reads |-> [elem |-> 1, min |-> 1]],
    queue |-> <<>>, total |-> 0, pending |-> <<>>, byob |-> NoRequest,
    started |-> FALSE, pulling |-> FALSE, pull_again |-> FALSE,
    close_requested |-> FALSE, algorithms |-> TRUE, pull_cb |-> FALSE,
    start_cb |-> TRUE, produced |-> 0, panicked |-> FALSE,
    surplus |-> FALSE ]

Init == auto \in AutoSizes /\ s = NewStream

----------------------------------------------------------------------------
Expect(t, ok) == [t EXCEPT !.panicked = @ \/ ~ok]
Settle(p, r, v) == IF p[r] = "pending" THEN [p EXCEPT ![r] = v] ELSE p

HasKind(t, r, kind) == r # NoReader /\ t.kind[r] = kind
Requested(t, r) == r # NoReader /\ t.requests[r] # <<>>

AnswerAll(t, r, v) ==
  [t EXCEPT !.answer = [k \in Reads |-> IF Contains(t.requests[r], k)
                                          THEN v ELSE t.answer[k]],
            !.requests[r] = <<>>]

ClosedPromise(t, r, v) ==
  IF r = NoReader THEN t ELSE [t EXCEPT !.closed = Settle(@, r, v)]

StreamError(t, r) ==
  LET u == ClosedPromise([t EXCEPT !.state = "errored"], r, "rejected")
  IN  IF r = NoReader THEN u ELSE AnswerAll(u, r, "error")

(* The reads of a BYOB reader wait for the source to give up the buffers.  *)
StreamClose(t, r) ==
  LET u == ClosedPromise([t EXCEPT !.state = "closed"], r, "fulfilled")
  IN  IF HasKind(t, r, "default") THEN AnswerAll(u, r, "done") ELSE u

Give(t, k, bytes, v) ==
  [t EXCEPT !.answer[k] = v, !.bytes[k] = Len(bytes),
            !.delivered = @ \o bytes]

Fulfill(t, r, bytes, done) ==
  IF ~Requested(t, r) THEN Expect(t, FALSE)
  ELSE Give([t EXCEPT !.requests[r] = Tail(@)], Head(t.requests[r]), bytes,
            IF done THEN "done" ELSE "chunk")

ResetQueue(t) == [t EXCEPT !.queue = <<>>, !.total = 0]
ClearAlgorithms(t) == [t EXCEPT !.algorithms = FALSE]
InvalidateByobRequest(t) == [t EXCEPT !.byob = NoRequest]

ShiftPendingPullInto(t) ==
  IF t.pending = <<>> THEN Expect(t, FALSE)
  ELSE [InvalidateByobRequest(t) EXCEPT !.pending = Tail(@)]

ClearPendingPullIntos(t) == [InvalidateByobRequest(t) EXCEPT !.pending = <<>>]

(* Asked of a readable stream only. *)
DesiredSize(t) == HWM - t.total

ShouldCallPull(t, r) ==
  /\ t.state = "readable" /\ ~t.close_requested /\ t.started
  /\ Requested(t, r) \/ DesiredSize(t) > 0

(* The algorithms are cleared when the stream ends: using one afterwards   *)
(* panics.                                                                 *)
PullAlgorithm(t) == [Expect(t, t.algorithms) EXCEPT !.pull_cb = TRUE]
CancelAlgorithm(t) == Expect(t, t.algorithms)

CallPullIfNeeded(t, r) ==
  IF ~ShouldCallPull(t, r) THEN t
  ELSE IF t.pulling THEN [t EXCEPT !.pull_again = TRUE]
  ELSE PullAlgorithm([t EXCEPT !.pulling = TRUE])

ControllerError(t, r) ==
  IF t.state # "readable" THEN t
  ELSE StreamError(ClearAlgorithms(ResetQueue(ClearPendingPullIntos(t))), r)

(* A close that finds half an element in the first buffer is an error.     *)
ControllerClose(t, r) ==
  IF t.close_requested \/ t.state # "readable" THEN t
  ELSE IF t.total > 0 THEN [t EXCEPT !.close_requested = TRUE]
  ELSE IF t.pending # <<>> /\
            Len(t.pending[1].filled) % t.pending[1].elem # 0
    THEN ControllerError(t, r)
  ELSE StreamClose(ClearAlgorithms(t), r)

HandleQueueDrain(t, r) ==
  IF t.total = 0 /\ t.close_requested
    THEN StreamClose(ClearAlgorithms(t), r)
    ELSE CallPullIfNeeded(t, r)

EnqueueChunkToQueue(t, bytes) ==
  [t EXCEPT !.queue = Append(@, bytes), !.total = @ + Len(bytes)]

(* Removes the first n bytes of the queue, entry by entry.                 *)
RECURSIVE DropBytes(_, _)
DropBytes(q, n) ==
  IF n = 0 THEN q
  ELSE IF Len(Head(q)) <= n THEN DropBytes(Tail(q), n - Len(Head(q)))
  ELSE <<SubSeq(Head(q), n + 1, Len(Head(q)))>> \o Tail(q)

(* How many bytes of the queue go into descriptor d, and whether it is     *)
(* ready then: whole elements, and no fewer than its minimum.              *)
Filling(total, d) ==
  LET copy == Min({total, d.len - Len(d.filled)})
      upTo == Len(d.filled) + copy
      aligned == upTo - (upTo % d.elem)
      ready == aligned >= d.min
  IN  [ready |-> ready, n |-> IF ready THEN aligned - Len(d.filled) ELSE copy]

Fill(t, d) ==
  LET n == Filling(t.total, d).n
  IN  [d EXCEPT !.filled = @ \o SubSeq(FlattenSeq(t.queue), 1, n)]

TakeFromQueue(t, n) ==
  [t EXCEPT !.queue = DropBytes(@, n), !.total = @ - n]

FillReadRequestFromQueue(t, r, k) ==
  LET u == HandleQueueDrain([t EXCEPT !.queue = Tail(@),
                                      !.total = @ - Len(Head(t.queue)),
                                      !.surplus = @ \/ t.pending # <<>>], r)
  IN  Give(u, k, Head(t.queue), "chunk")

RECURSIVE ProcessReadRequests(_, _)
ProcessReadRequests(t, r) ==
  IF t.requests[r] = <<>> \/ t.total = 0 THEN t
  ELSE ProcessReadRequests(
         FillReadRequestFromQueue([t EXCEPT !.requests[r] = Tail(@)], r,
                                  Head(t.requests[r])), r)

(* The view that answers a read holds whole elements only.                 *)
ConvertPullIntoDescriptor(d) ==
  SubSeq(d.filled, 1, Len(d.filled) - (Len(d.filled) % d.elem))

(* Answers the read of a descriptor that is ready.                         *)
Commit(t, r, d) ==
  Fulfill(Expect(t, HasKind(t, r, IF d.type = "default" THEN "default"
                                    ELSE "byob")),
          r, ConvertPullIntoDescriptor(d), t.state = "closed")

RECURSIVE ProcessPullIntos(_, _)
ProcessPullIntos(t, r) ==
  IF t.pending = <<>> \/ t.total = 0 \/ t.panicked THEN t
  ELSE LET d == t.pending[1]
           f == Filling(t.total, d)
           u == TakeFromQueue([t EXCEPT !.pending[1] = Fill(t, d)], f.n)
       IN  ProcessPullIntos(
             IF f.ready THEN Commit(ShiftPendingPullInto(u), r, Fill(t, d))
             ELSE u, r)

EnqueueClonedChunk(t, d, from) ==
  EnqueueChunkToQueue(t, SubSeq(d.filled, from, Len(d.filled)))

(* What a released reader left in its buffer goes back into the queue.     *)
EnqueueDetached(t) ==
  ShiftPendingPullInto(
    IF t.pending[1].filled = <<>> THEN t
    ELSE EnqueueClonedChunk(t, t.pending[1], 1))

ControllerEnqueue(t, r, bytes) ==
  LET u == IF t.pending = <<>> THEN t
           ELSE IF t.pending[1].type = "none"
             THEN EnqueueDetached(InvalidateByobRequest(t))
           ELSE InvalidateByobRequest(t)
      v == ProcessReadRequests(u, r)
  IN  CallPullIfNeeded(
        CASE HasKind(t, r, "default") ->
               IF v.requests[r] = <<>> THEN EnqueueChunkToQueue(v, bytes)
               ELSE Fulfill(IF v.pending = <<>> THEN v
                            ELSE ShiftPendingPullInto(v), r, bytes, FALSE)
          [] HasKind(t, r, "byob") ->
               ProcessPullIntos(EnqueueChunkToQueue(u, bytes), r)
          [] OTHER -> EnqueueChunkToQueue(u, bytes), r)

Descriptor(len, elem, min, type) ==
  [len |-> len, elem |-> elem, min |-> min, filled |-> <<>>, type |-> type]

(* read() of a default reader on a readable stream.                        *)
PullSteps(t, r, k) ==
  IF t.total > 0 THEN FillReadRequestFromQueue(t, r, k)
  ELSE CallPullIfNeeded(
         [t EXCEPT !.pending = IF auto = 0 THEN @
                               ELSE Append(@, Descriptor(auto, 1, 1,
                                                         "default")),
                   !.answer[k] = "pending",
                   !.requests[r] = Append(@, k)], r)

(* read(view) of a BYOB reader.                                            *)
PullInto(t, r, k, view) ==
  LET d == Descriptor(view.len, view.elem, view.min, "byob")
      f == Filling(t.total, d)
      Waiting(u, e) == [u EXCEPT !.pending = Append(@, e),
                                 !.answer[k] = "pending",
                                 !.requests[r] = Append(@, k)]
      taken == TakeFromQueue(t, f.n)
  IN  IF t.pending # <<>> THEN Waiting(t, d)
      ELSE IF t.state = "closed" THEN [t EXCEPT !.answer[k] = "done"]
      ELSE IF t.total > 0 /\ f.ready
        THEN Give(HandleQueueDrain(taken, r), k, Fill(t, d).filled, "chunk")
      ELSE IF t.total > 0 /\ t.close_requested
        THEN [ControllerError(taken, r) EXCEPT !.answer[k] = "error"]
      ELSE IF t.total > 0
        THEN CallPullIfNeeded(Waiting(taken, Fill(t, d)), r)
      ELSE CallPullIfNeeded(Waiting(t, d), r)

RECURSIVE CommitAll(_, _)
CommitAll(t, r) ==
  IF ~Requested(t, r) \/ t.panicked THEN t
  ELSE IF t.pending = <<>> THEN Expect(t, FALSE)
  ELSE CommitAll(Commit(ShiftPendingPullInto(t), r, t.pending[1]), r)

RespondInClosedState(t, r) ==
  LET u == IF t.pending[1].type = "none" THEN ShiftPendingPullInto(t) ELSE t
  IN  IF HasKind(t, r, "byob") THEN CommitAll(u, r) ELSE u

FillHead(t, bytes) == [t EXCEPT !.pending[1].filled = @ \o bytes]

(* Planted fault: the bytes beyond the last whole element are dropped. *)
RespondInReadableStateFault(t, r, bytes) ==
  LET u == FillHead(t, bytes)
      d == u.pending[1]
  IN  IF d.type = "none" THEN ProcessPullIntos(EnqueueDetached(u), r)
      ELSE IF Len(d.filled) < d.min THEN u
      ELSE ProcessPullIntos(Commit(ShiftPendingPullInto(u), r, d), r)

(* The source has written `bytes` into the first descriptor's buffer.  The *)
(* bytes beyond the last whole element go back into the queue.             *)
RespondInReadableState(t, r, bytes) ==
  LET u == FillHead(t, bytes)
      d == u.pending[1]
      rest == Len(d.filled) % d.elem
      v == ShiftPendingPullInto(u)
      w == IF rest = 0 THEN v
           ELSE EnqueueClonedChunk(v, d, Len(d.filled) - rest + 1)
  IN  IF d.type = "none" THEN ProcessPullIntos(EnqueueDetached(u), r)
      ELSE IF Len(d.filled) < d.min THEN u
      ELSE ProcessPullIntos(Commit(w, r, d), r)

RespondInternal(t, r, bytes) ==
  LET u == InvalidateByobRequest(t)
  IN  CallPullIfNeeded(IF t.state = "closed" THEN RespondInClosedState(u, r)
                       ELSE RespondInReadableState(u, r, bytes), r)

ReleaseSteps(t) ==
  IF t.pending = <<>> THEN t
  ELSE [t EXCEPT !.pending = <<[@[1] EXCEPT !.type = "none"]>>]

(* What the methods of the readers and of the stream do.                   *)
AcquireReader(t, r, kind) ==
  [t EXCEPT !.reader = r, !.kind[r] = kind, !.held[r] = TRUE,
            !.closed[r] = CASE t.state = "readable" -> "pending"
                            [] t.state = "closed" -> "fulfilled"
                            [] OTHER -> "rejected"]

DefaultReaderRead(t, r, k) ==
  CASE t.state = "closed" -> [t EXCEPT !.answer[k] = "done"]
    [] t.state = "errored" -> [t EXCEPT !.answer[k] = "error"]
    [] OTHER -> PullSteps(t, r, k)

ByobReaderRead(t, r, k, view) ==
  LET u == [t EXCEPT !.asked[k] = [elem |-> view.elem, min |-> view.min]]
  IN  IF u.state = "errored" THEN [u EXCEPT !.answer[k] = "error"]
      ELSE PullInto(u, r, k, view)

ReaderRelease(t, r) ==
  AnswerAll(ReleaseSteps([t EXCEPT !.closed[r] = "rejected",
                                   !.reader = NoReader, !.held[r] = FALSE]),
            r, "error")

StreamCancel(t, r) ==
  LET u == StreamClose(t, r)
      v == IF r = NoReader THEN u ELSE AnswerAll(u, r, "done")
  IN  ClearAlgorithms(CancelAlgorithm(ResetQueue(ClearPendingPullIntos(v))))

FirstUnfilled(t) ==
  LET d == t.pending[1]
  IN  [offset |-> Len(d.filled), len |-> d.len - Len(d.filled)]

GetByobRequest(t) ==
  IF t.byob = NoRequest /\ t.pending # <<>>
    THEN [t EXCEPT !.byob = FirstUnfilled(t)] ELSE t

PullEnds(t) ==
  LET u == [t EXCEPT !.pull_cb = FALSE, !.pulling = FALSE,
                     !.pull_again = FALSE]
  IN  IF t.pull_again THEN CallPullIfNeeded(u, u.reader) ELSE u

----------------------------------------------------------------------------
(* Calls by JavaScript.                                                    *)
IsNextRead(t, k) ==
  t.answer[k] = "none" /\ \A j \in 1 .. k - 1 : t.answer[j] # "none"

Becomes(t) == s' = t /\ UNCHANGED auto

GetReader(r, kind) ==
  /\ s.reader = NoReader /\ s.kind[r] = "none"
  /\ Becomes(AcquireReader(s, r, kind))

ReadDefault(r) ==
  /\ s.kind[r] = "default" /\ s.held[r]
  /\ \E k \in Reads : IsNextRead(s, k) /\ Becomes(DefaultReaderRead(s, r, k))

ReadByob(r) ==
  /\ s.kind[r] = "byob" /\ s.held[r]
  /\ \E k \in Reads, view \in Views :
       IsNextRead(s, k) /\ Becomes(ByobReaderRead(s, r, k, view))

ReleaseLock(r) == s.held[r] /\ Becomes(ReaderRelease(s, r))

(* reader.cancel(), and stream.cancel() (r = NoReader).                    *)
Cancel(r) ==
  s.reader = r /\ s.state = "readable" /\ Becomes(StreamCancel(s, r))

(* What the source calls: controller.byobRequest, respond(),               *)
(* respondWithNewView(), enqueue(), close() and error().                   *)
ByobRequest ==
  /\ s.byob = NoRequest /\ s.pending # <<>>
  /\ Becomes(GetByobRequest(s))

Produce(n) == [i \in 1 .. n |-> s.produced + i]

RespondAllowed(t, n) ==
  IF t.state = "closed" THEN n = 0
  ELSE n > 0 /\ Len(t.pending[1].filled) + n <= t.pending[1].len

(* A view of a buffer as long as the one that was given, that starts where *)
(* the part that is filled ends.                                           *)
NewViewAllowed(t, offset, n) ==
  /\ IF t.state = "closed" THEN n = 0 ELSE n > 0
  /\ offset = Len(t.pending[1].filled)
  /\ offset + n <= t.pending[1].len

Respond(n) ==
  /\ s.byob # NoRequest
  /\ RespondAllowed(s, n)
  /\ s.produced + n <= MaxBytes
  /\ Becomes(RespondInternal([s EXCEPT !.produced = @ + n], s.reader,
                             Produce(n)))

RespondWithNewView(offset, n) ==
  /\ s.byob # NoRequest
  /\ NewViewAllowed(s, offset, n)
  /\ s.produced + n <= MaxBytes
  /\ Becomes(RespondInternal([s EXCEPT !.produced = @ + n], s.reader,
                             Produce(n)))

Enqueue(n) ==
  /\ s.state = "readable" /\ ~s.close_requested
  /\ s.produced + n <= MaxBytes
  /\ Becomes(ControllerEnqueue([s EXCEPT !.produced = @ + n], s.reader,
                               Produce(n)))

CloseCall ==
  /\ s.state = "readable" /\ ~s.close_requested
  /\ Becomes(ControllerClose(s, s.reader))

ErrorCall ==
  /\ s.state = "readable"
  /\ Becomes(ControllerError(s, s.reader))

StartFulfilled ==
  /\ s.start_cb
  /\ Becomes(CallPullIfNeeded([s EXCEPT !.start_cb = FALSE,
                                        !.started = TRUE], s.reader))

StartRejected ==
  /\ s.start_cb
  /\ Becomes(ControllerError([s EXCEPT !.start_cb = FALSE], s.reader))

PullFulfilled == s.pull_cb /\ Becomes(PullEnds(s))

PullRejected ==
  /\ s.pull_cb
  /\ Becomes(ControllerError([s EXCEPT !.pull_cb = FALSE], s.reader))

Next ==
  \/ \E r \in Readers :
       \/ \E kind \in {"default", "byob"} : GetReader(r, kind)
       \/ ReadDefault(r) \/ ReadByob(r) \/ ReleaseLock(r)
  \/ \E r \in Readers \cup {NoReader} : Cancel(r)
  \/ ByobRequest
  \/ \E n \in 0 .. MaxBytes :
       Respond(n) \/ \E offset \in 0 .. MaxBytes : RespondWithNewView(offset, n)
  \/ \E n \in 1 .. MaxBytes : Enqueue(n)
  \/ CloseCall \/ ErrorCall
  \/ StartFulfilled \/ StartRejected \/ PullFulfilled \/ PullRejected

Spec == Init /\ [][Next]_vars

(* Buffers of one and of two bytes, for a value of Views.                  *)
BytesAndPairs ==
  {[len |-> 1, elem |-> 1, min |-> 1], [len |-> 2, elem |-> 2, min |-> 2]}

----------------------------------------------------------------------------
TypeOK ==
  /\ s.state \in {"readable", "closed", "errored"}
  /\ s.reader \in Readers \cup {NoReader}
  /\ \A r \in Readers : s.held[r] <=> s.reader = r
  /\ \A k \in Reads : s.answer[k] \in {"none", "pending", "chunk", "done",
                                       "error"}
  /\ s.total \in Nat /\ s.produced \in 0 .. MaxBytes
  /\ \A i \in DOMAIN s.pending :
       s.pending[i].type \in {"default", "byob", "none"}

(* No expect() or panic!() of the byte controller and its readers fails:   *)
(* "ReadableStreamFulfillReadRequest called with empty readRequests".      *)
NoPanic == ~s.panicked

(* A default read was answered out of the queue while a buffer allocated   *)
(* for it stays pending: the state that NoPanic is lost in.                *)
Surplus == s.surplus

(* No expect(), index or panic!() of the byte controller fails.  The total *)
(* is the length of the queue.  A BYOB request shows the part of the first *)
(* buffer that is still unfilled, so respond() never finds the descriptors *)
(* gone or changed.  The buffers that wait belong to the reads that wait,  *)
(* in their order, but for one that a released reader left behind.         *)
BuffersMatchReads ==
  /\ TypeOK
  /\ Surplus \/ ~s.panicked
  /\ s.total = Len(FlattenSeq(s.queue))
  /\ s.byob # NoRequest => s.pending # <<>> /\ s.byob = FirstUnfilled(s)
  /\ \A i \in DOMAIN s.pending : s.pending[i].type = "none" => i = 1
  /\ LET own == SelectSeq(s.pending, LAMBDA d : d.type # "none")
     IN  IF HasKind(s, s.reader, "byob")
           THEN Surplus \/ Len(own) = Len(s.requests[s.reader])
         ELSE s.state = "readable" /\ ~Surplus /\ auto # 0 /\ s.reader # NoReader =>
                Len(own) <= Len(s.requests[s.reader])

(* No byte is lost, doubled or reordered on its way through the queue and  *)
(* the buffers, whatever mix of enqueue(), respond(), default and BYOB     *)
(* reads and released readers it meets: what has been read, then what is   *)
(* in the first buffer, then what is queued, is what the source produced.  *)
BytesInOrder ==
  LET held == IF s.pending = <<>> THEN <<>> ELSE s.pending[1].filled
      all == s.delivered \o held \o FlattenSeq(s.queue)
  IN  Surplus \/
      /\ IsPrefix(s.delivered, [i \in 1 .. s.produced |-> i])
      /\ s.state = "readable" => all = [i \in 1 .. s.produced |-> i]
      /\ \A i \in DOMAIN s.pending : i > 1 => s.pending[i].filled = <<>>

(* A view that a BYOB read is answered with ends on a whole element and    *)
(* holds at least the minimum that was asked for.                          *)
WholeElements ==
  \A k \in Reads :
    /\ s.bytes[k] % s.asked[k].elem = 0
    /\ s.answer[k] = "chunk" => s.bytes[k] >= s.asked[k].min

=============================================================================
