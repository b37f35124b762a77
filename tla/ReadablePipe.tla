---------------------------- MODULE ReadablePipe ----------------------------
(***************************************************************************)
(* pipeTo() and pipeThrough() (readable/stream/pipe.rs): a ReadableStream, *)
(* a WritableStream, and the loop between them.  The two ends are records  *)
(* of ReadableStream and WritableStream and move by their operators; the   *)
(* sink's callbacks are the actions of WritableStream.                     *)
(*                                                                         *)
(* What the pipe does, it does in reactions of promises, so the order of   *)
(* the microtasks is the matter here: `jobs` is the queue of the reactions *)
(* of the pipe, first in first out.  The program, the source and the sink  *)
(* act at any time between two jobs.                                       *)
(***************************************************************************)
EXTENDS Integers, Sequences, SequencesExt

CONSTANTS
  MaxChunks,          \* bound on the chunks of the source
  Reader, NoReader,   \* the reader that the pipe acquires; Option::None
  Writer, NoWriter    \* the writer that the pipe acquires; Option::None

VARIABLES
  dst,   \* the destination, a record of WritableStream
  w      \* src: the source, a record of ReadableStream; pipe: the pipe

src == w.src
pipe == w.pipe

(* A read for each chunk, one for the end and one that is left waiting; a  *)
(* call for each write, and two of close() or abort().                     *)
R == INSTANCE ReadableStream WITH
       s <- w.src, frames <- <<>>, hist <- <<>>, config <- [hwm |-> 1],
       Readers <- {Reader}, Sizes <- {1}, HWMs <- {1},
       MaxReads <- MaxChunks + 2
W == INSTANCE WritableStream WITH
       s <- dst, frames <- <<>>, calls <- 0, Writers <- {Writer},
       Sizes <- {1}, HWM <- 1, MaxDepth <- 1, MaxCalls <- MaxChunks + 2

Options == [prevent_close : BOOLEAN, prevent_abort : BOOLEAN,
            prevent_cancel : BOOLEAN]
NoJob == 0

(* The streams exist; the source has started and its pull() is under way.  *)
Init ==
  /\ dst = [ state |-> "writable", err |-> W!NoError, backpressure |-> FALSE,
             writer |-> NoWriter, write_requests |-> <<>>,
             close_request |-> W!NoCall, in_flight_write |-> W!NoCall,
             in_flight_close |-> W!NoCall, pending_abort |-> W!NoCall,
             was_already_erroring |-> FALSE,
             started |-> FALSE, queue |-> <<>>, total |-> 0,
             algorithms |-> TRUE, signalled |-> FALSE,
             start_cb |-> TRUE, write_cb |-> FALSE, close_cb |-> "idle",
             close_writer |-> NoWriter, abort_cb |-> W!NoCall,
             promise |-> [k \in W!Calls |-> "none"],
             ready |-> [x \in {Writer} |-> "none"],
             closed |-> [x \in {Writer} |-> "none"], panicked |-> FALSE ]
  /\ \E o \in Options, signal \in {"none", "given", "aborted"} :
       w = [ src |-> [R!NewStream("open") EXCEPT !.started = TRUE,
                        !.pulling = TRUE, !.pull_cb = "called"],
             pipe |-> [ options |-> o, signal |-> signal, phase |-> "before",
                        loop |-> "over", read |-> "none", reads |-> 0,
                        adopted |-> FALSE, jobs |-> <<>>,
                        current_write |-> NoJob, caught |-> {NoJob},
                        writes |-> <<>>, calls |-> 0, offered |-> 0,
                        shutting_down |-> FALSE, action |-> "none",
                        error |-> FALSE, wait |-> [on |-> NoJob, depth |-> 0],
                        parts |-> 0, act |-> W!NoCall, cancel |-> "none",
                        promise |-> "pending", late |-> FALSE,
                        broken |-> FALSE, strays |-> {}, closed_before |-> FALSE ] ]

----------------------------------------------------------------------------
(* A step of the code is an operator on m = [src, dst, pipe].              *)
M == [src |-> src, dst |-> dst, pipe |-> pipe]
Becomes(m) ==
  \E n \in {m} : dst' = n.dst /\ w' = [src |-> n.src, pipe |-> n.pipe]

(* F(m, x), with m and x evaluated before.                                 *)
Apply(F(_, _), m, x) == CHOOSE r \in {F(n, y) : n \in {m}, y \in {x}} : TRUE

Queue(m, job, arg) ==
  [m EXCEPT !.pipe.jobs = Append(@, [job |-> job, arg |-> arg])]

When(cond, m, n) == IF cond THEN n ELSE m

(* read_promise, which the step of the loop has adopted or not yet.        *)
ReadSettled(m, v) ==
  LET n == [m EXCEPT !.pipe.read = v]
  IN  IF v = "error" THEN [n EXCEPT !.pipe.loop = "over"]
      ELSE When(m.pipe.adopted, n, Queue(n, "relay", NoJob))

(* The source is now t: the reactions to what has settled there.           *)
SrcReactions(m, t) ==
  LET old == m.src
      k == m.pipe.reads
      n0 == [m EXCEPT !.src = t]
      n1 == IF old.closed[Reader] # "pending" THEN n0
            ELSE CASE t.closed[Reader] = "fulfilled" ->
                        Queue(n0, "source closed", NoJob)
                   [] t.closed[Reader] = "rejected" ->
                        Queue(n0, "source errored", NoJob)
                   [] OTHER -> n0
      answer == IF k = 0 \/ t.answer[k] = old.answer[k] THEN "none"
                ELSE t.answer[k]
      n2 == When(old.held[Reader] /\ m.pipe.shutting_down, n1,
                 [n1 EXCEPT !.pipe.strays = @ \cup {t.got[k]}])
  IN  CASE answer = "chunk" -> Queue(n2, "write", t.got[k])
        [] answer = "done"  -> ReadSettled(n1, "done")
        [] answer = "error" -> ReadSettled(n1, "error")
        [] OTHER -> n1

SetSrc(m, t) == Apply(SrcReactions, m, t)

(* A promise of the shutdown's action has settled with v.                  *)
PartSettled(m, v) ==
  Queue(m, IF m.pipe.action = "both" THEN "part" ELSE "acted", v)

Settled(d, e, k) == d.promise[k] = "pending" /\ e.promise[k] # "pending"

(* The destination is now e: writes settle first, then the call of the     *)
(* action, then writer.ready and writer.closed.                            *)
DstReactions(m, e) ==
  LET d == m.dst
      n0 == [m EXCEPT !.dst = e]
      ends == SelectSeq(m.pipe.writes, LAMBDA x : Settled(d, e, x.call))
      n1 == FoldLeft(LAMBDA n, x : Queue(n, "caught", x.call), n0, ends)
      act == m.pipe.act
      n2 == IF act = W!NoCall \/ ~Settled(d, e, act) THEN n1
            ELSE PartSettled([n1 EXCEPT !.pipe.act = W!NoCall],
                             e.promise[act])
      n3 == IF m.pipe.loop # "ready" THEN n2
            ELSE CASE e.ready[Writer] = "fulfilled" ->
                        Queue([n2 EXCEPT !.pipe.loop = "go"], "go", NoJob)
                   [] e.ready[Writer] = "rejected" ->
                        [n2 EXCEPT !.pipe.loop = "over"]
                   [] OTHER -> n2
  IN  When(d.closed[Writer] = "pending" /\ e.closed[Writer] = "rejected",
           n3, Queue(n3, "destination errored", NoJob))

SetDst(m, e) == Apply(DstReactions, m, e)

----------------------------------------------------------------------------
(* Shutdown.                                                               *)
ReleaseWriter(d) ==
  [W!EnsureReadyPromiseRejected(d, Writer) EXCEPT
     !.closed[Writer] = "rejected", !.writer = NoWriter]

Unlock(m, failed) ==
  [SetSrc(m, R!DefaultReaderRelease(m.src, Reader)) EXCEPT
     !.pipe.promise = IF failed THEN "rejected" ELSE "fulfilled",
     !.pipe.signal = IF @ = "given" THEN "none" ELSE @]
Finalize(m, failed) == Apply(Unlock, SetDst(m, ReleaseWriter(m.dst)), failed)

(* The promise of a call k on the destination, which is now e.             *)
Acts(m, k) ==
  IF m.dst.promise[k] = "pending" THEN [m EXCEPT !.pipe.act = k]
  ELSE PartSettled(m, m.dst.promise[k])
DstAction(m, e, k) == Apply(Acts, SetDst([m EXCEPT !.pipe.calls = @ + 1], e), k)

AbortDst(m) ==
  LET d == [m.dst EXCEPT !.signalled = TRUE]
      k == IF d.pending_abort # W!NoCall THEN d.pending_abort
           ELSE m.pipe.calls + 1
  IN  DstAction(m, W!AbortAfterSignal(d, Writer, m.pipe.calls + 1), k)

CloseDst(m) ==
  IF W!CloseQueuedOrInFlight(m.dst) \/ m.dst.state = "closed"
    THEN PartSettled(m, "fulfilled")
  ELSE IF m.dst.state = "errored" THEN PartSettled(m, "rejected")
  ELSE DstAction(m, W!WritableStreamClose(m.dst, Writer, m.pipe.calls + 1),
                 m.pipe.calls + 1)

CancelSrc(m) ==
  CASE m.src.state = "closed"  -> PartSettled(m, "fulfilled")
    [] m.src.state = "errored" -> PartSettled(m, "rejected")
    [] OTHER -> SetSrc([m EXCEPT !.pipe.cancel = "pending"],
                       R!StreamCancel(m.src, Reader))

(* The abort algorithm's actions, whose promises Promise.all() takes.      *)
AbortPart(m, o) ==
  IF o.prevent_abort THEN m
  ELSE IF m.dst.state = "writable" THEN AbortDst(m)
  ELSE PartSettled(m, "fulfilled")
CancelPart(m, o) ==
  IF o.prevent_cancel THEN m
  ELSE IF m.src.state = "readable" THEN CancelSrc(m)
  ELSE PartSettled(m, "fulfilled")

BothActions(m) ==
  LET o == m.pipe.options
      n == [m EXCEPT !.pipe.parts = (IF o.prevent_abort THEN 0 ELSE 1) +
                                    (IF o.prevent_cancel THEN 0 ELSE 1)]
  IN  IF o.prevent_abort /\ o.prevent_cancel
        THEN Queue(n, "acted", "fulfilled")
      ELSE Apply(CancelPart, Apply(AbortPart, n, o), o)

DoTheRest(m) ==
  CASE m.pipe.action = "none"   -> Finalize(m, m.pipe.error)
    [] m.pipe.action = "abort"  -> AbortDst(m)
    [] m.pipe.action = "cancel" -> CancelSrc(m)
    [] m.pipe.action = "close"  -> CloseDst(m)
    [] OTHER -> BothActions(m)

(* current_write.then(...)                                                 *)
AwaitWrite(m, depth) ==
  LET k == m.pipe.current_write
      n == [m EXCEPT !.pipe.wait = [on |-> k, depth |-> depth]]
  IN  When(k \in m.pipe.caught, n, Queue(n, "waited", NoJob))

(* Planted fault: the writes are not waited for. *)
ShutdownWithActionFault(m, action, error) ==
  IF m.pipe.shutting_down THEN m
  ELSE DoTheRest([m EXCEPT !.pipe.shutting_down = TRUE,
                           !.pipe.action = action, !.pipe.error = error])

(* shutdown() (action "none") and shutdown_with_action().                  *)
ShutdownWithAction(m, action, error) ==
  LET n == [m EXCEPT !.pipe.shutting_down = TRUE, !.pipe.action = action,
                     !.pipe.error = error]
  IN  IF m.pipe.shutting_down THEN m
      ELSE IF m.dst.state = "writable" /\ ~W!CloseQueuedOrInFlight(m.dst)
        THEN AwaitWrite(n, 0)
      ELSE DoTheRest(n)

ErrorForward(m) ==
  ShutdownWithAction(m, IF m.pipe.options.prevent_abort THEN "none"
                        ELSE "abort", TRUE)
ErrorBackward(m) ==
  ShutdownWithAction(m, IF m.pipe.options.prevent_cancel THEN "none"
                        ELSE "cancel", TRUE)
CloseForward(m) ==
  ShutdownWithAction(m, IF m.pipe.options.prevent_close THEN "none"
                        ELSE "close", FALSE)
AbortAlgorithm(m) == ShutdownWithAction(m, "both", TRUE)

----------------------------------------------------------------------------
(* The loop.                                                               *)
PipeStep(m) ==
  IF m.pipe.shutting_down THEN [m EXCEPT !.pipe.loop = "over"]
  ELSE CASE m.dst.ready[Writer] = "fulfilled" ->
              Queue([m EXCEPT !.pipe.loop = "go"], "go", NoJob)
         [] m.dst.ready[Writer] = "pending" -> [m EXCEPT !.pipe.loop = "ready"]
         [] OTHER -> [m EXCEPT !.pipe.loop = "over"]

(* The reaction to writer.ready: reads the source, whatever has happened   *)
(* since the step.                                                         *)
Go(m) ==
  LET k == m.pipe.reads + 1
      n == [m EXCEPT !.pipe.loop = "reading", !.pipe.read = "pending",
                     !.pipe.adopted = FALSE, !.pipe.reads = k,
                     !.pipe.late = @ \/ m.pipe.shutting_down,
                     !.pipe.broken = @ \/ (m.src.state = "readable" /\
                                            ~m.src.held[Reader])]
  IN  Queue(SetSrc(n, R!DefaultReaderRead(m.src, Reader, k)), "adopt", NoJob)

(* The deferred part of the chunk steps.                                   *)
Wrote(m, write) ==
  LET n == [m EXCEPT !.pipe.writes = Append(@, write)]
      k == write.call
  IN  ReadSettled(When(m.dst.promise[k] = "rejected", n, Queue(n, "caught", k)),
                  "chunk")
WriteChunk(m, c) ==
  LET k == m.pipe.calls + 1
      n == [m EXCEPT !.pipe.calls = k, !.pipe.current_write = k]
  IN  Apply(Wrote, SetDst(n, W!WriteAfterSize(m.dst, Writer, k, 1)),
            [call |-> k, chunk |-> c, late |-> m.dst.writer = NoWriter])

(* wait_for_writes_to_finish: the write that was waited for has ended.     *)
Waited(m) ==
  IF m.pipe.current_write # m.pipe.wait.on
    THEN AwaitWrite(m, m.pipe.wait.depth + 1)
  ELSE Queue(m, "rest", m.pipe.wait.depth)

Part(m, v) ==
  CASE m.pipe.parts = 0 -> m
    [] v = "rejected" -> Queue([m EXCEPT !.pipe.parts = 0], "acted", v)
    [] m.pipe.parts = 1 -> Queue([m EXCEPT !.pipe.parts = 0], "acted", v)
    [] OTHER -> [m EXCEPT !.pipe.parts = @ - 1]

RunJob(m, job, arg) ==
  CASE job = "go"     -> Go(m)
    [] job = "adopt"  -> LET n == [m EXCEPT !.pipe.adopted = TRUE]
                         IN  When(n.pipe.read \in {"chunk", "done"}, n,
                                  Queue(n, "relay", NoJob))
    [] job = "relay"  -> Queue(m, "next", NoJob)
    [] job = "next"   -> IF m.pipe.read = "done"
                           THEN [m EXCEPT !.pipe.loop = "over"]
                           ELSE PipeStep(m)
    [] job = "write"  -> WriteChunk(m, arg)
    [] job = "caught" -> LET n == [m EXCEPT !.pipe.caught = @ \cup {arg}]
                         IN  When(n.pipe.shutting_down /\ n.pipe.wait.on = arg,
                                  n, Queue(n, "waited", NoJob))
    [] job = "waited" -> Waited(m)
    [] job = "rest"   -> IF arg > 0 THEN Queue(m, "rest", arg - 1)
                         ELSE DoTheRest(m)
    [] job = "part"   -> Part(m, arg)
    [] job = "acted"  -> Finalize(m, m.pipe.error \/ arg = "rejected")
    [] job = "source errored" -> ErrorForward(m)
    [] job = "source closed"  -> CloseForward(m)
    [] OTHER -> ErrorBackward(m)

Job ==
  /\ pipe.jobs # <<>>
  /\ LET j == Head(pipe.jobs)
     IN  \E m \in {[M EXCEPT !.pipe.jobs = Tail(@)]} :
           Becomes(RunJob(m, j.job, j.arg))

----------------------------------------------------------------------------
(* The calls of the program, the source and the sink.                      *)
AcquireWriter(d) ==
  [d EXCEPT
     !.writer = Writer,
     !.ready[Writer] =
       CASE d.state = "writable" ->
              IF ~W!CloseQueuedOrInFlight(d) /\ d.backpressure
                THEN "pending" ELSE "fulfilled"
         [] d.state = "closed" -> "fulfilled"
         [] OTHER -> "rejected",
     !.closed[Writer] = CASE d.state = "closed" -> "fulfilled"
                          [] d.state = "errored" -> "rejected"
                          [] OTHER -> "pending"]

(* Of the four conditions that end a pipe the first that holds counts: a   *)
(* shutdown that has begun ignores the others, and the loop.               *)
PipeTo ==
  /\ pipe.phase = "before"
  /\ LET dst_closing == W!CloseQueuedOrInFlight(dst) \/ dst.state = "closed"
     IN  \E m \in {[ src |-> [R!AcquireReader(src, Reader) EXCEPT
                               !.disturbed = TRUE],
                    dst |-> AcquireWriter(dst),
                    pipe |-> [pipe EXCEPT !.phase = "on"] ]} :
           Becomes(IF pipe.signal = "aborted" THEN AbortAlgorithm(m)
                   ELSE IF src.state = "errored" THEN ErrorForward(m)
                   ELSE IF dst.err # W!NoError THEN ErrorBackward(m)
                   ELSE IF src.state = "closed" THEN CloseForward(m)
                   ELSE IF dst_closing THEN ErrorBackward(m)
                   ELSE PipeStep(m))

SignalAborts ==
  /\ pipe.phase = "on" /\ pipe.signal = "given"
  /\ Becomes(AbortAlgorithm([M EXCEPT !.pipe.signal = "aborted"]))

SourceEnqueues ==
  /\ R!CanCloseOrEnqueue(src) /\ pipe.offered < MaxChunks
  /\ LET c == pipe.offered + 1
         m == [M EXCEPT !.pipe.offered = c]
     IN  Becomes(SetSrc(m, IF R!Requested(src, src.reader)
                             THEN R!EnqueueFulfilling(src, src.reader, c)
                             ELSE R!EnqueueAfterSize(src, src.reader, c, 1)))

SourceCloses ==
  /\ R!CanCloseOrEnqueue(src)
  /\ Becomes(SetSrc(M, R!ControllerClose(src, src.reader)))

SourceErrors ==
  /\ src.state = "readable"
  /\ Becomes(SetSrc(M, R!ControllerError(src, src.reader)))

(* The promise of the source's cancel() settles.                           *)
SourceCancelSettles ==
  /\ pipe.cancel = "pending"
  /\ \E v \in {"fulfilled", "rejected"} :
       Becomes(PartSettled([M EXCEPT !.pipe.cancel = "settled"], v))

(* close() and abort() of the destination before it is locked.             *)
DestinationCloses ==
  /\ pipe.phase = "before" /\ pipe.calls = 0
  /\ dst.state \in {"writable", "erroring"}
  /\ Becomes([M EXCEPT !.pipe.calls = 1, !.pipe.closed_before = TRUE,
                       !.dst = W!WritableStreamClose(dst, NoWriter, 1)])

DestinationAborts ==
  /\ pipe.phase = "before" /\ pipe.calls = 0
  /\ dst.state = "writable"
  /\ Becomes([M EXCEPT !.pipe.calls = 1,
                !.dst = W!AbortAfterSignal([dst EXCEPT !.signalled = TRUE],
                                           NoWriter, 1)])

DestinationErrors ==
  /\ dst.state = "writable"
  /\ Becomes(SetDst(M, W!ControllerError(dst, dst.writer, "controller")))

(* A callback of the sink, and what the pipe makes of it.                  *)
SinkCallback(Callback) ==
  /\ Callback
  /\ w' = LET m == SetDst(M, dst') IN [src |-> m.src, pipe |-> m.pipe]

SinkStarts == SinkCallback(W!StartFulfilled \/ W!StartRejected)
SinkWrites == SinkCallback(W!WriteFulfilled \/ W!WriteRejected)
SinkCloses == SinkCallback(W!CloseFulfilled \/ W!CloseRejected)
SinkAborts == SinkCallback(W!AbortFulfilled \/ W!AbortRejected)

Next ==
  \/ PipeTo \/ SignalAborts \/ Job
  \/ SourceEnqueues \/ SourceCloses \/ SourceErrors \/ SourceCancelSettles
  \/ DestinationCloses \/ DestinationAborts \/ DestinationErrors
  \/ SinkStarts \/ SinkWrites \/ SinkCloses \/ SinkAborts

vars == <<dst, w>>
Spec == Init /\ [][Next]_vars

SinkOwes ==
  dst.start_cb \/ dst.write_cb \/ dst.close_cb = "waiting" \/
  dst.abort_cb # W!NoCall

(* Jobs run, the promises of the sink and of the source's cancel() settle: *)
(* weak fairness, with the condition that enables the steps written out.   *)
Owing == pipe.jobs # <<>> \/ SinkOwes \/ pipe.cancel = "pending"
Owed ==
  \/ Job \/ SourceCancelSettles
  \/ SinkStarts \/ SinkWrites \/ SinkCloses \/ SinkAborts

FairSpec == Spec /\ (<>[]Owing => []<><<Owed>>_vars)

----------------------------------------------------------------------------
Written == [i \in DOMAIN pipe.writes |-> pipe.writes[i].chunk]
Held == {j.arg : j \in {j \in Range(pipe.jobs) : j.job = "write"}}
Taken == {src.got[k] : k \in R!Reads} \ {R!NoChunk}

(* Chunks that are written, or to be written, with a released writer.      *)
Overdue ==
  {x.chunk : x \in {x \in Range(pipe.writes) : x.late}} \cup
  (IF pipe.promise = "pending" THEN {} ELSE Held)

TypeOK ==
  /\ dst \in W!Streams
  /\ pipe.loop \in {"over", "ready", "go", "reading"}
  /\ pipe.promise \in {"pending", "fulfilled", "rejected"}

(* What is read is written: the chunks that the pipe has taken from the    *)
(* source are handed to the destination's writer once each and in order (a *)
(* microtask holds the last one meanwhile), and before the lock is given   *)
(* up, unless the destination has errored or the chunk came when the       *)
(* shutdown had begun; no readable source is read with a released reader;  *)
(* and no expect() of the two streams fails.                               *)
TakenIsWritten ==
  /\ TypeOK
  /\ ~dst.panicked /\ ~src.panicked /\ ~pipe.broken
  /\ Written = [i \in 1 .. Len(Written) |-> i]
  /\ Taken = Range(Written) \cup Held
  /\ Overdue \subseteq pipe.strays \/ dst.state \in {"erroring", "errored"}

(* The pipe's promise tells the truth.  When it is fulfilled the source    *)
(* has been read to its end, every chunk is written, and the destination   *)
(* is closed, unless preventClose was given or the program had called its  *)
(* close(); with preventClose, the destination may have errored meanwhile. *)
(* When it is settled the locks are free, and the signal no longer counts. *)
PromiseTells ==
  /\ pipe.promise = "fulfilled" =>
       /\ src.state = "closed"
       /\ \/ /\ Len(Written) = pipe.offered
             /\ \A x \in Range(pipe.writes) :
                  dst.promise[x.call] = "fulfilled"
          \/ pipe.options.prevent_close /\ dst.err # W!NoError
       /\ dst.state = "closed" \/ pipe.options.prevent_close \/
          pipe.closed_before
  /\ pipe.promise # "pending" =>
       /\ src.reader = NoReader /\ dst.writer = NoWriter
       /\ pipe.signal # "given"

(* "Shutdown must stop all activity": no read is made once it has begun.   *)
ShutdownStopsActivity == ~pipe.late

Ending ==
  /\ pipe.phase = "on"
  /\ src.state # "readable" \/ dst.state \in {"closed", "errored"} \/
     pipe.signal = "aborted"

NoCallWaits == Ending => pipe.promise # "pending"

(* The end of either stream, or the signal, ends the pipe.                 *)
PipeEnds == []<>NoCallWaits

=============================================================================
