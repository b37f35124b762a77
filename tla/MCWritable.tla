----------------------------- MODULE MCWritable -----------------------------
(***************************************************************************)
(* The writable streams of llrt_stream_web and what is built on them: a    *)
(* stream with its writers, a transform stream, and a pipe into a          *)
(* destination.  The first state says which one runs; the others stay as   *)
(* they are.                                                               *)
(***************************************************************************)
EXTENDS WritableStream

VARIABLES
  part,     \* the component that runs; s, frames, calls are WritableStream's
  tr,       \* TransformStream
  dst, w    \* ReadablePipe

(* Programs that do not call the stream from its size() or from a listener *)
(* of its signal; in their place, more calls.                              *)
Plain == INSTANCE WritableStream WITH
  MaxDepth <- 1, MaxCalls <- 4, Sizes <- {0, 1, 2}, HWM <- 2

Transform == INSTANCE TransformStream WITH
  w <- tr, MaxWrites <- 2, MaxReads <- 2, MaxChunks <- 1, HWMs <- {0, 1},
  Reader <- "r", NoReader <- "none", Writer <- "w", NoWriter <- "none"

Pipe == INSTANCE ReadablePipe WITH
  MaxChunks <- 2,
  Reader <- "r", NoReader <- "none", Writer <- "w", NoWriter <- "none"

all == <<part, vars, tr, dst, w>>

(* A pipe shuts down once, and only a close looks at prevent_close, so it  *)
(* need not vary by itself.                                                *)
MCInit ==
  /\ part \in {"writable", "plain", "transform", "pipe"}
  /\ IF part = "plain" THEN Plain!Init ELSE Init
  /\ Transform!Init /\ Pipe!Init
  /\ part # "transform" => tr.ts.kind = "functions"
  /\ part # "pipe" =>
       /\ w.pipe.options = [o \in DOMAIN w.pipe.options |-> FALSE]
       /\ w.pipe.signal = "none"
  /\ w.pipe.options.prevent_close = w.pipe.options.prevent_cancel

InWritable(A) == part = "writable" /\ A /\ UNCHANGED <<part, tr, dst, w>>
InPlain(A) == part = "plain" /\ A /\ UNCHANGED <<part, tr, dst, w>>
InTransform(A) == part = "transform" /\ A /\ UNCHANGED <<part, vars, dst, w>>
InPipe(A) == part = "pipe" /\ A /\ UNCHANGED <<part, vars, tr>>

MCNext ==
  \/ InWritable(Next) \/ InPlain(Plain!Next)
  \/ InTransform(Transform!Next) \/ InPipe(Pipe!Next)

(* The fairness of each component's FairSpec.                              *)
MCOwing ==
  \/ part \in {"writable", "plain"} /\ Owing
  \/ part = "transform" /\ Transform!Owing
  \/ part = "pipe" /\ Pipe!Owing
MCOwed ==
  \/ InWritable(Owed) \/ InPlain(Plain!Owed)
  \/ InTransform(Transform!Owed) \/ InPipe(Pipe!Owed)

MCSpec == MCInit /\ [][MCNext]_all /\ (<>[]MCOwing => []<><<MCOwed>>_all)

----------------------------------------------------------------------------
(* Properties; NoPanic is WritableStream's.                                *)

(* No promise of a writable stream is dropped or settled twice, however    *)
(* its calls are nested.  If they are not, its queue, its requests, its    *)
(* total size and its backpressure agree at every moment, its writer's     *)
(* promises tell how it stands, and it is never left standing with work to *)
(* do.                                                                     *)
WritableInStep ==
  /\ part = "writable" => NoOrphanPromise
  /\ part = "plain" =>
       /\ Plain!NoOrphanPromise /\ Plain!Consistent
       /\ Plain!WriterKnowsState /\ Plain!NothingStuck

(* The state of a writable stream only moves forward and what is settled   *)
(* stays so; writes that are not nested settle in the order of the calls.  *)
WritesInOrder ==
  [][ /\ part = "writable" => LifecycleStep
      /\ part = "plain" => Plain!LifecycleStep /\ Plain!WriteOrderStep ]_all

(* The two sides of a transform stream end together, and what its          *)
(* transformer enqueues reaches the readable side in the order of the      *)
(* writes.                                                                 *)
SidesInStep == part = "transform" => Transform!EndsTogether /\ Transform!PassedOn

(* A chunk that a pipe has read is written, once and in order, and is      *)
(* written before the pipe shuts down; the promise of pipeTo() tells how   *)
(* it went, and by then both locks are released.                           *)
PipeKeepsWord == part = "pipe" => Pipe!TakenIsWritten /\ Pipe!PromiseTells

(* Every promise of a writable stream, of a transform stream's writer and  *)
(* of cancel() on its readable side settles, and so does the promise of    *)
(* pipeTo() once either stream has ended.                                  *)
CallsSettle ==
  []<>( /\ part = "writable" => NoCallWaits
        /\ part = "plain" => Plain!NoCallWaits
        /\ part = "transform" => Transform!NoCallWaits
        /\ part = "pipe" => Pipe!NoCallWaits )
=============================================================================
