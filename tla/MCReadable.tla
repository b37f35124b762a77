----------------------------- MODULE MCReadable -----------------------------
(***************************************************************************)
(* The readable streams of llrt_stream_web and what is built on them: a    *)
(* stream with a default controller, its async iterator, tee() of such a   *)
(* stream and of a byte stream.  The first state says which one runs; the  *)
(* others stay as they are.                                                *)
(***************************************************************************)
EXTENDS Naturals

VARIABLES
  part,                      \* the component that runs
  s, frames, config, hist,   \* ReadableStream
  v,                         \* ReadableIterator
  tee,                       \* ReadableTee
  bytes                      \* ReadableByteTee

Stream == INSTANCE ReadableStream WITH
  MaxReads <- 3, MaxChunks <- 2, Readers <- {"r1", "r2"}, NoReader <- "none",
  Sizes <- {1, 2}, HWMs <- {0, 1}

Iterator == INSTANCE ReadableIterator WITH
  MaxCalls <- 4, MaxChunks <- 2, It <- "it", Other <- "other", NoReader <- "none"

Tee == INSTANCE ReadableTee WITH
  w <- tee, MaxReads <- 2, MaxChunks <- 2, Reader <- "r1", NoReader <- "none"

ByteTee == INSTANCE ReadableByteTee WITH
  w <- bytes, MaxReads <- 1, MaxBytes <- 2, Readers <- {"r1"}, NoReader <- "none",
  Views <- {[len |-> 1, elem |-> 1, min |-> 1], [len |-> 2, elem |-> 2, min |-> 2]}

stream == <<s, frames, config, hist>>
all == <<part, stream, v, tee, bytes>>

MCInit ==
  /\ part \in {"stream", "iterator", "tee", "byte tee"}
  /\ Stream!Init /\ Iterator!Init /\ Tee!Init /\ ByteTee!Init
  /\ part # "stream" => config.source = "from"
  /\ part # "iterator" => v.prevent_cancel

InStream(A) == part = "stream" /\ A /\ UNCHANGED <<part, v, tee, bytes>>
InIterator(A) == part = "iterator" /\ A /\ UNCHANGED <<part, stream, tee, bytes>>
InTee(A) == part = "tee" /\ A /\ UNCHANGED <<part, stream, v, bytes>>
InByteTee(A) == part = "byte tee" /\ A /\ UNCHANGED <<part, stream, v, tee>>

MCNext ==
  \/ InStream(Stream!Next) \/ InIterator(Iterator!Next)
  \/ InTee(Tee!Next) \/ InByteTee(ByteTee!Next)

(* The fairness of each component's FairSpec.                              *)
Owing == (part = "tee" /\ Tee!Owing) \/ (part = "byte tee" /\ ByteTee!Owing)

MCSpec ==
  /\ MCInit /\ [][MCNext]_all
  /\ WF_all(InStream(Stream!Owed) \/ InIterator(Iterator!Owed))
  /\ <>[]Owing => []<><<InTee(Tee!Owed) \/ InByteTee(ByteTee!Owed)>>_all

----------------------------------------------------------------------------
(* Properties *)

(* A reader's lock, its requests and its promises agree with the stream at *)
(* every moment, in the middle of size() and pull() too; once a stream is  *)
(* closed or errored, or a reader released, none of its reads waits.       *)
NoReadWaitsInVain == part = "stream" => Stream!Consistent /\ Stream!NoStaleWait

(* Chunks reach the reads in the order of enqueue(), each one once, and a  *)
(* read that waits has a pull() called for it (pull_again is not lost).    *)
ChunksReachReads ==
  part = "stream" => Stream!ChunksInOrder /\ Stream!EveryReadIsPulledFor

(* next() and return() of an async iterator, called without waiting for    *)
(* each other, leave the lock with the iterator until it has finished.     *)
IteratorHoldsLock == part = "iterator" => Iterator!LockInStep

(* Both branches of a tee get every chunk, or byte, that the tee has taken *)
(* from its source, and a branch that waits has a read of the source under *)
(* way or due (reading, read_again).                                       *)
BranchesGetAll ==
  /\ part = "tee" => Tee!BothGetAll /\ Tee!ReadIsUnderWay
  /\ part = "byte tee" => ByteTee!BothGetAll /\ ByteTee!ReadIsUnderWay

(* Every read() of a steady source, of a branch and every call of an       *)
(* iterator that has finished is answered; cancel() of both branches       *)
(* settles.                                                                *)
ReadsAreAnswered ==
  []<>( /\ part = "stream" => Stream!NoCallWaits
        /\ part = "iterator" => Iterator!NoCallWaits
        /\ part = "tee" => Tee!NoCallWaits
        /\ part = "byte tee" => ByteTee!NoCallWaits )
=============================================================================
