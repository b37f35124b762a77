--------------------------- MODULE ReadableStream ---------------------------
(***************************************************************************)
(* The ReadableStream of modules/llrt_stream_web with a default            *)
(* controller: the stream, its controller and its default readers          *)
(* (readable/stream/mod.rs, readable/default_controller.rs,                *)
(* readable/default_reader.rs, readable/reader.rs).                        *)
(*                                                                         *)
(* As in WritableStream, the objects are one record `s`, a function of the *)
(* code is an operator on it, and the reader that the Rust code carries in *)
(* its bundle is a parameter `r`: enqueue() keeps, after the strategy's    *)
(* size() has run, the reader it had before.  size() is the one user       *)
(* function that is not called last, so enqueue() is split around a frame  *)
(* of `frames`.  pull() is called last by its Rust callers (what follows   *)
(* is the settling of a promise nobody else holds), and cancel() after the *)
(* stream is closed; what they call is a call made just after.             *)
(***************************************************************************)
EXTENDS Integers, Sequences, SequencesExt

CONSTANTS
  MaxReads,   \* bound on the calls of read()
  MaxChunks,  \* bound on the calls of controller.enqueue()
  Readers,    \* the readers that getReader() may create
  NoReader,   \* Option::None for a reader
  Sizes,      \* what the strategy's size() may return for a chunk
  HWMs        \* the high water marks

Reads == 1 .. MaxReads
Chunks == 1 .. MaxChunks
NoChunk == 0
Answers == {"none", "pending", "chunk", "done", "error"}

(* What size() may do instead of returning a member of Sizes.              *)
Throws == -1
Invalid == -2

VARIABLES
  s,        \* the stream, its controller, its readers and their promises
  frames,   \* the calls of enqueue() that wait for size()
  config,   \* hwm; source: "js", or "from" for ReadableStream.from();
            \* nested: size() calls the stream; steady: pull() delivers
  hist      \* what the properties refer to: chunks accepted, reads that a
            \* pull has been called for, what the pull under way has done

vars == <<s, frames, config, hist>>

NewStream(phase) ==
  [ state |-> "readable", disturbed |-> FALSE, reader |-> NoReader,
    held |-> [r \in Readers |-> FALSE],
    closed |-> [r \in Readers |-> "none"],
    requests |-> [r \in Readers |-> <<>>],
    answer |-> [k \in Reads |-> "none"],
    got |-> [k \in Reads |-> NoChunk],
    queue |-> <<>>, total |-> 0, started |-> FALSE, pulling |-> FALSE,
    pull_again |-> FALSE, close_requested |-> FALSE, algorithms |-> TRUE,
    pull_cb |-> "none", cancels |-> 0, phase |-> phase, panicked |-> FALSE ]

Init ==
  /\ config \in [hwm : HWMs, source : {"js"}, nested : BOOLEAN,
                 steady : BOOLEAN]
       \cup [hwm : {0}, source : {"from"}, nested : {FALSE}, steady : {TRUE}]
  /\ s = NewStream(IF config.source = "from" THEN "starting" ELSE "new")
  /\ frames = <<>>
  /\ hist = [ accepted |-> {}, offered |-> 0, drained |-> FALSE,
              pulled |-> {}, moved |-> FALSE ]

----------------------------------------------------------------------------
Expect(t, ok) == [t EXCEPT !.panicked = @ \/ ~ok]

Settle(p, r, v) == IF p[r] = "pending" THEN [p EXCEPT ![r] = v] ELSE p

AnswerAll(t, r, v) ==
  [t EXCEPT !.answer = [k \in Reads |-> IF Contains(t.requests[r], k)
                                          THEN v ELSE t.answer[k]],
            !.requests[r] = <<>>]

StreamError(t, r) ==
  IF r = NoReader THEN [t EXCEPT !.state = "errored"]
  ELSE AnswerAll([t EXCEPT !.state = "errored",
                           !.closed = Settle(@, r, "rejected")], r, "error")

StreamClose(t, r) ==
  IF r = NoReader THEN [t EXCEPT !.state = "closed"]
  ELSE AnswerAll([t EXCEPT !.state = "closed",
                           !.closed = Settle(@, r, "fulfilled")], r, "done")

ResetQueue(t) == [t EXCEPT !.queue = <<>>, !.total = 0]
ClearAlgorithms(t) == [t EXCEPT !.algorithms = FALSE]

CanCloseOrEnqueue(t) == t.state = "readable" /\ ~t.close_requested

Requested(t, r) == r # NoReader /\ t.requests[r] # <<>>

(* Asked of a readable stream only. *)
DesiredSize(t) == config.hwm - t.total

ShouldCallPull(t, r) ==
  /\ CanCloseOrEnqueue(t)
  /\ t.started
  /\ Requested(t, r) \/ DesiredSize(t) > 0

(* The algorithms are cleared when the stream ends: using one afterwards   *)
(* panics, and so does the second call of a native source's cancel().      *)
PullAlgorithm(t) == [Expect(t, t.algorithms) EXCEPT !.pull_cb = "called"]

CancelAlgorithm(t) ==
  [Expect(t, t.algorithms /\ t.cancels = 0) EXCEPT !.cancels = @ + 1]

StrategySizeAlgorithm(t) == Expect(t, t.algorithms)

(* Planted fault: a pull that is asked for during a pull is forgotten. *)
CallPullIfNeededFault(t, r) ==
  IF ~ShouldCallPull(t, r) \/ t.pulling THEN t
  ELSE PullAlgorithm([t EXCEPT !.pulling = TRUE])

CallPullIfNeeded(t, r) ==
  IF ~ShouldCallPull(t, r) THEN t
  ELSE IF t.pulling THEN [t EXCEPT !.pull_again = TRUE]
  ELSE PullAlgorithm([t EXCEPT !.pulling = TRUE])

ControllerError(t, r) ==
  IF t.state # "readable" THEN t
  ELSE StreamError(ClearAlgorithms(ResetQueue(t)), r)

ControllerClose(t, r) ==
  IF ~CanCloseOrEnqueue(t) THEN t
  ELSE LET u == [t EXCEPT !.close_requested = TRUE]
       IN  IF u.queue = <<>> THEN StreamClose(ClearAlgorithms(u), r) ELSE u

FulfillReadRequest(t, r, c) ==
  LET k == Head(t.requests[r])
  IN  [t EXCEPT !.requests[r] = Tail(@), !.answer[k] = "chunk",
                !.got[k] = c]

EnqueueFulfilling(t, r, c) ==
  CallPullIfNeeded(FulfillReadRequest(t, r, c), r)

EnqueueValueWithSize(t, c, size) ==
  [t EXCEPT !.queue = Append(@, [chunk |-> c, size |-> size]),
            !.total = @ + size]

DequeueValue(t) ==
  [t EXCEPT !.queue = Tail(@),
            !.total = IF @ < Head(t.queue).size THEN 0
                      ELSE @ - Head(t.queue).size]

(* The rest of enqueue(), once size() has returned `size`, thrown or       *)
(* returned something that is not a size.                                  *)
EnqueueAfterSize(t, r, c, size) ==
  IF size \in {Throws, Invalid} THEN ControllerError(t, r)
  ELSE CallPullIfNeeded(EnqueueValueWithSize(t, c, size), r)

(* What read() does on a readable stream.                                  *)
PullSteps(t, r, k) ==
  IF t.queue = <<>>
    THEN CallPullIfNeeded([t EXCEPT !.answer[k] = "pending",
                                    !.requests[r] = Append(@, k)], r)
  ELSE LET u == [DequeueValue(t) EXCEPT !.answer[k] = "chunk",
                                        !.got[k] = Head(t.queue).chunk]
       IN  IF u.close_requested /\ u.queue = <<>>
             THEN StreamClose(ClearAlgorithms(u), r)
             ELSE CallPullIfNeeded(u, r)

AcquireReader(t, r) ==
  [t EXCEPT !.reader = r, !.held[r] = TRUE,
            !.closed[r] = CASE t.state = "readable" -> "pending"
                            [] t.state = "closed" -> "fulfilled"
                            [] OTHER -> "rejected"]

IsNextRead(t, k) ==
  t.answer[k] = "none" /\ \A j \in 1 .. k - 1 : t.answer[j] # "none"

DefaultReaderRead(t, r, k) ==
  LET u == [t EXCEPT !.disturbed = TRUE]
  IN  CASE u.state = "closed"  -> [u EXCEPT !.answer[k] = "done"]
        [] u.state = "errored" -> [u EXCEPT !.answer[k] = "error"]
        [] OTHER -> PullSteps(u, r, k)

StreamCancel(t, r) ==
  LET u == [t EXCEPT !.disturbed = TRUE]
      v == ResetQueue(StreamClose(u, r))
  IN  IF t.state # "readable" THEN u
      ELSE ClearAlgorithms(CancelAlgorithm(v))

(* Planted fault: the reads that wait are left with the released reader. *)
DefaultReaderReleaseFault(t, r) ==
  [t EXCEPT !.closed[r] = "rejected", !.reader = NoReader, !.held[r] = FALSE]

DefaultReaderRelease(t, r) ==
  AnswerAll([t EXCEPT !.closed[r] = "rejected", !.reader = NoReader,
                      !.held[r] = FALSE], r, "error")

----------------------------------------------------------------------------
(* Calls by JavaScript, at the top or from within size().                  *)
Pending(t) == UNION {Range(t.requests[r]) : r \in Readers}

(* A pull that starts now has been called for all reads that wait.         *)
Noted(h, t) ==
  IF t.pull_cb = "called" /\ s.pull_cb # "called"
    THEN [h EXCEPT !.pulled = @ \cup Pending(t), !.moved = FALSE] ELSE h

Moved(h) == [h EXCEPT !.moved = TRUE]
Becomes(t, h) == s' = t /\ hist' = Noted(h, t) /\ UNCHANGED config

CanCall == Len(frames) <= IF config.nested THEN 1 ELSE 0
CanUse == CanCall /\ s.phase \in {"starting", "open"}
Controls == CanCall /\ config.source = "js" /\ s.phase # "failed"

GetReader(r) ==
  /\ CanUse
  /\ s.reader = NoReader
  /\ s.closed[r] = "none"
  /\ Becomes(AcquireReader(s, r), hist)
  /\ UNCHANGED frames

Read(r) ==
  /\ CanUse
  /\ s.closed[r] # "none"
  /\ \E k \in Reads :
       /\ IsNextRead(s, k)
       /\ Becomes(IF s.held[r] THEN DefaultReaderRead(s, r, k)
                  ELSE [s EXCEPT !.answer[k] = "error"], hist)
  /\ UNCHANGED frames

ReleaseLock(r) ==
  /\ CanUse
  /\ s.held[r]
  /\ Becomes(DefaultReaderRelease(s, r), hist)
  /\ UNCHANGED frames

(* reader.cancel(), and stream.cancel() (r = NoReader), which needs the    *)
(* stream unlocked.                                                        *)
Cancel(r) ==
  /\ CanUse
  /\ s.reader = r
  /\ Becomes(StreamCancel(s, r), hist)
  /\ UNCHANGED frames

(* A body that is closed before anyone has read it is taken at once.       *)
SyncDrain ==
  /\ CanUse
  /\ ~s.disturbed /\ s.reader = NoReader
  /\ s.state = "readable" /\ s.close_requested
  /\ Becomes([ResetQueue(s) EXCEPT !.disturbed = TRUE, !.state = "closed"],
             [hist EXCEPT !.drained = TRUE])
  /\ UNCHANGED frames

(* enqueue() of a chunk that a read waits for.                             *)
EnqueueDirect(h) ==
  /\ CanCloseOrEnqueue(s)
  /\ Requested(s, s.reader)
  /\ hist.offered < MaxChunks
  /\ LET c == hist.offered + 1
     IN  Becomes(EnqueueFulfilling(s, s.reader, c),
                 [h EXCEPT !.offered = c, !.accepted = @ \cup {c}])
  /\ UNCHANGED frames

EnqueueFulfils == Controls /\ EnqueueDirect(Moved(hist))

EnqueueCallsSize ==
  /\ Controls
  /\ CanCloseOrEnqueue(s)
  /\ ~Requested(s, s.reader)
  /\ hist.offered < MaxChunks
  /\ frames' = Append(frames, [r |-> s.reader, c |-> hist.offered + 1])
  /\ Becomes(StrategySizeAlgorithm(s),
             [Moved(hist) EXCEPT !.offered = @ + 1])

SizeResult(size) ==
  /\ frames # <<>>
  /\ LET f == Last(frames)
     IN  Becomes(EnqueueAfterSize(s, f.r, f.c, size),
                 IF size \in {Throws, Invalid} THEN hist
                 ELSE [hist EXCEPT !.accepted = @ \cup {f.c}])
  /\ frames' = Front(frames)

SizeReturns == \E size \in Sizes : SizeResult(size)
SizeFails == SizeResult(Throws) \/ SizeResult(Invalid)

CloseCall ==
  /\ Controls
  /\ CanCloseOrEnqueue(s)
  /\ Becomes(ControllerClose(s, s.reader), Moved(hist))
  /\ UNCHANGED frames

ErrorCall ==
  /\ Controls
  /\ s.state = "readable"
  /\ Becomes(ControllerError(s, s.reader), Moved(hist))
  /\ UNCHANGED frames

----------------------------------------------------------------------------
(* The constructor calls the source's start(), which has the controller    *)
(* and not yet the stream.                                                 *)
ConstructorReturns ==
  /\ s.phase = "new" /\ frames = <<>>
  /\ Becomes([s EXCEPT !.phase = "starting"], hist)
  /\ UNCHANGED frames

ConstructorThrows ==
  /\ s.phase = "new" /\ frames = <<>>
  /\ Becomes([s EXCEPT !.phase = "failed"], hist)
  /\ UNCHANGED frames

(* Callbacks of the source's promises run when no JavaScript runs.         *)
Callback == frames = <<>> /\ UNCHANGED frames

StartFulfilled ==
  /\ s.phase = "starting"
  /\ Callback
  /\ Becomes(CallPullIfNeeded([s EXCEPT !.phase = "open", !.started = TRUE],
                              s.reader), hist)

StartRejected ==
  /\ s.phase = "starting" /\ config.source = "js"
  /\ Callback
  /\ Becomes(ControllerError([s EXCEPT !.phase = "open"], s.reader), hist)

(* pull() of ReadableStream.from(): the iterator's next() has answered     *)
(* with a value, or that it is done.                                       *)
PullAnswered == [s EXCEPT !.pull_cb = "answered"]

NextGivesValue ==
  /\ config.source = "from" /\ s.pull_cb = "called"
  /\ Callback
  /\ hist.offered < MaxChunks
  /\ LET c == hist.offered + 1
         t == PullAnswered
         h == [Moved(hist) EXCEPT !.offered = c, !.accepted = @ \cup {c}]
     IN  IF ~CanCloseOrEnqueue(t) THEN Becomes(t, Moved(hist))
         ELSE IF Requested(t, t.reader)
           THEN Becomes(EnqueueFulfilling(t, t.reader, c), h)
         ELSE Becomes(EnqueueAfterSize(t, t.reader, c, 1), h)

NextIsDone ==
  /\ config.source = "from" /\ s.pull_cb = "called"
  /\ Callback
  /\ Becomes(ControllerClose(PullAnswered, s.reader), Moved(hist))

PullFulfilled ==
  /\ s.pull_cb = IF config.source = "from" THEN "answered" ELSE "called"
  /\ config.steady => hist.moved \/ s.state # "readable"
  /\ Callback
  /\ LET t == [s EXCEPT !.pull_cb = "none", !.pulling = FALSE,
                        !.pull_again = FALSE]
     IN  Becomes(IF s.pull_again THEN CallPullIfNeeded(t, t.reader) ELSE t,
                 IF s.pull_again /\ ShouldCallPull(t, t.reader)
                   THEN [hist EXCEPT !.pulled = @ \cup Pending(t),
                                     !.moved = FALSE]
                 ELSE hist)

PullRejected ==
  /\ s.pull_cb = "called"
  /\ Callback
  /\ Becomes(ControllerError([s EXCEPT !.pull_cb = "none"], s.reader), hist)

Source ==
  \/ EnqueueFulfils \/ EnqueueCallsSize \/ CloseCall \/ ErrorCall

Next ==
  \/ \E r \in Readers : GetReader(r) \/ Read(r) \/ ReleaseLock(r)
  \/ \E r \in Readers \cup {NoReader} : Cancel(r)
  \/ SyncDrain
  \/ Source
  \/ SizeReturns \/ SizeFails
  \/ ConstructorReturns \/ ConstructorThrows
  \/ StartFulfilled \/ StartRejected
  \/ NextGivesValue \/ NextIsDone
  \/ PullFulfilled \/ PullRejected

Spec == Init /\ [][Next]_vars

(* User code returns, promises of the source settle, and a pull() of a     *)
(* steady source leads to a call of the controller.                        *)
Owed ==
  \/ SizeReturns \/ SizeFails
  \/ ConstructorReturns \/ ConstructorThrows
  \/ StartFulfilled \/ StartRejected
  \/ NextGivesValue \/ NextIsDone
  \/ PullFulfilled \/ PullRejected
  \/ config.steady /\ s.pull_cb = "called" /\ Source

FairSpec == Spec /\ WF_vars(Owed)

----------------------------------------------------------------------------
OptReaders == Readers \cup {NoReader}

TypeOK ==
  /\ s \in [ state : {"readable", "closed", "errored"},
             disturbed : BOOLEAN, reader : OptReaders,
             held : [Readers -> BOOLEAN],
             closed : [Readers -> {"none", "pending", "fulfilled",
                                   "rejected"}],
             requests : [Readers -> Seq(Reads)],
             answer : [Reads -> Answers], got : [Reads -> 0 .. MaxChunks],
             queue : Seq([chunk : Chunks, size : Sizes]), total : Nat,
             started : BOOLEAN, pulling : BOOLEAN, pull_again : BOOLEAN,
             close_requested : BOOLEAN, algorithms : BOOLEAN,
             pull_cb : {"none", "called", "answered"}, cancels : Nat,
             phase : {"new", "failed", "starting", "open"},
             panicked : BOOLEAN ]
  /\ frames \in Seq([r : OptReaders, c : Chunks])

(* No expect() fails: no algorithm of the source is called after it was    *)
(* cleared, and cancel() is called once.  What is kept twice agrees: the   *)
(* lock in the stream and in the readers, the sum and the sizes, the pull  *)
(* under way and its callback; and a close that was asked for waits only   *)
(* for chunks.                                                             *)
Consistent ==
  /\ TypeOK
  /\ ~s.panicked
  /\ \A r \in Readers : s.held[r] <=> s.reader = r
  /\ s.total = FoldLeft(LAMBDA a, e : a + e.size, 0, s.queue)
  /\ s.pull_cb # "none" => s.pulling
  /\ s.state = "readable" =>
       /\ s.algorithms
       /\ s.pulling => s.pull_cb # "none"
       /\ s.close_requested /\ frames = <<>> => s.queue # <<>>
  /\ s.pull_again => s.pulling

(* No reader waits in vain.  A read that waits finds an empty queue, on a  *)
(* stream that is readable; it waits at the reader that holds the lock;    *)
(* and the closed promise of that reader tells the state of the stream.    *)
(* size() calling the stream is excepted: enqueue() then goes on with the  *)
(* reader it found before.                                                 *)
NoStaleWait ==
  ~config.nested =>
    /\ \A k \in Reads : s.answer[k] = "pending" <=> k \in Pending(s)
    /\ Pending(s) # {} =>
         s.state = "readable" /\ s.queue = <<>> /\ Requested(s, s.reader)
    /\ s.reader # NoReader =>
         s.closed[s.reader] = CASE s.state = "readable" -> "pending"
                                [] s.state = "closed" -> "fulfilled"
                                [] OTHER -> "rejected"

Delivered == {s.got[k] : k \in Reads} \ {NoChunk}

(* Chunks are read in the order they were enqueued, each once, and none is *)
(* lost: an accepted chunk is in the queue or has been read, unless the    *)
(* stream was errored or cancelled or drained at once.                     *)
ChunksInOrder ==
  ~config.nested =>
    /\ \A j, k \in Reads :
         j < k /\ s.got[j] # NoChunk /\ s.got[k] # NoChunk
           => s.got[j] < s.got[k]
    /\ s.state # "errored" /\ s.cancels = 0 /\ ~hist.drained =>
         hist.accepted = Delivered \cup {e.chunk : e \in Range(s.queue)}

(* Every read that waits on a started, open stream has a pull() that was   *)
(* called when it waited already, or will be called when the one under way *)
(* ends: pull_again loses no read.                                         *)
EveryReadIsPulledFor ==
  s.started /\ CanCloseOrEnqueue(s) /\ frames = <<>> =>
    \A k \in Pending(s) \ hist.pulled : s.pulling /\ s.pull_again

NoCallWaits ==
  config.steady /\ ~config.nested => \A k \in Reads : s.answer[k] # "pending"

(* Every read of a stream whose source is steady is answered.              *)
EveryReadIsAnswered == []<>NoCallWaits

=============================================================================
