--------------------------- MODULE ReadableIterator ---------------------------
(***************************************************************************)
(* The asynchronous iterator of a ReadableStream (readable/iterator.rs,    *)
(* values() of readable/stream/mod.rs): next() and return() wait for the   *)
(* promise of the call before them, kept in ongoing_promise, and the       *)
(* iterator gives its reader back where the stream ends, where it fails    *)
(* and in return().                                                        *)
(*                                                                         *)
(* The stream is a record of ReadableStream.  The reaction to a read       *)
(* clears ongoing_promise even where a later call has stored its own there *)
(* and waits: the next call then does not wait for that one.               *)
(***************************************************************************)
EXTENDS Integers, Sequences, SequencesExt

CONSTANTS
  MaxCalls,           \* bound on the calls of next() and return()
  MaxChunks,          \* bound on the chunks of the source
  It, Other,          \* the iterator's reader; a reader taken later
  NoReader            \* Option::None

VARIABLE
  v   \* st: the stream; finished, ongoing: fields of the iterator;
      \* prevent_cancel; calls: how far each call of next() or return() is;
      \* cancel: the source's promise; chunks: chunks enqueued

R == INSTANCE ReadableStream WITH
       s <- v.st, frames <- <<>>, hist <- <<>>, config <- [hwm |-> 0],
       Readers <- {It, Other}, Sizes <- {1}, HWMs <- {0}, MaxReads <- MaxCalls

Calls == 1 .. MaxCalls
None == 0

(* values(): the stream is locked to the iterator's reader.                *)
Init ==
  \E pc \in BOOLEAN :
    v = [ st |-> R!AcquireReader(R!NewStream("open"), It),
          finished |-> FALSE, ongoing |-> None, prevent_cancel |-> pc,
          calls |-> [c \in Calls |-> [kind |-> "none", stage |-> "none",
                                      after |-> None]],
          cancel |-> "none", chunks |-> 0 ]

Becomes(m) == v' = m

Settled(m) == {c \in Calls : m.calls[c].stage = "settled"}

(* close_steps and error_steps of the reads release the reader.            *)
Ended(t, u) ==
  \E c \in Calls : u.answer[c] \in {"done", "error"} /\ t.answer[c] # u.answer[c]

SetStream(m, u) ==
  [m EXCEPT !.st = IF Ended(m.st, u) THEN R!DefaultReaderRelease(u, It) ELSE u]

Stage(m, c, x) == [m EXCEPT !.calls[c].stage = x]

(* Planted fault: the iterator does not look whether it is finished. *)
NextStepsFault(m, c) ==
  Stage(SetStream(m, R!DefaultReaderRead(m.st, It, c)), c, "reading")

NextSteps(m, c) ==
  IF m.finished THEN Stage(m, c, "settled")
  ELSE Stage(SetStream(m, R!DefaultReaderRead(m.st, It, c)), c, "reading")

(* Planted fault: the lock is kept. *)
ReturnStepsFault(m, c) ==
  IF m.finished THEN Stage(m, c, "settled")
  ELSE Stage([m EXCEPT !.finished = TRUE], c, "settled")

ReturnSteps(m, c) ==
  LET n == [m EXCEPT !.finished = TRUE]
      cancelled == SetStream(n, R!StreamCancel(n.st, n.st.reader))
      open == n.st.state = "readable"
  IN  IF m.finished THEN Stage(m, c, "settled")
      ELSE IF m.prevent_cancel
        THEN Stage([n EXCEPT !.st = R!DefaultReaderRelease(@, It)], c,
                   "settled")
      ELSE Stage([cancelled EXCEPT
                    !.st = R!DefaultReaderRelease(@, It),
                    !.cancel = IF open THEN "pending" ELSE "settled"],
                 c, "cancelling")

Steps(m, c) ==
  IF m.calls[c].kind = "next" THEN NextSteps(m, c) ELSE ReturnSteps(m, c)

(* A call of next() or return().                                           *)
Call(c, kind) ==
  /\ v.calls[c].kind = "none" /\ \A d \in 1 .. c - 1 : v.calls[d].kind # "none"
  /\ LET m == [v EXCEPT !.calls[c] = [kind |-> kind, stage |-> "waiting",
                                      after |-> v.ongoing],
                        !.ongoing = c]
     IN  Becomes(IF v.ongoing = None THEN Steps(m, c) ELSE m)

(* The promise of the call before is settled.                              *)
Chained(c) ==
  /\ v.calls[c].stage = "waiting" /\ v.calls[c].after \in Settled(v)
  /\ Becomes(Steps(v, c))

(* The reaction to the read of call c.                                     *)
Reaction(c) ==
  /\ v.calls[c].stage = "reading"
  /\ v.st.answer[c] \in {"chunk", "done", "error"}
  /\ Becomes(Stage([v EXCEPT !.ongoing = None,
                             !.finished = @ \/ v.st.answer[c] # "chunk"],
                   c, "settled"))

(* The promise of the source's cancel() settles, and with it return().     *)
CancelSettles ==
  /\ v.cancel = "pending"
  /\ Becomes([v EXCEPT !.cancel = "settled"])

Returned(c) ==
  /\ v.calls[c].stage = "cancelling" /\ v.cancel = "settled"
  /\ Becomes(Stage(v, c, "settled"))

(* The source, and another reader.                                         *)
Enqueue ==
  /\ R!CanCloseOrEnqueue(v.st) /\ v.chunks < MaxChunks
  /\ LET n == [v EXCEPT !.chunks = @ + 1]
     IN  Becomes(SetStream(n,
           IF R!Requested(v.st, v.st.reader)
             THEN R!EnqueueFulfilling(v.st, v.st.reader, n.chunks)
             ELSE R!EnqueueAfterSize(v.st, v.st.reader, n.chunks, 1)))

Close ==
  /\ R!CanCloseOrEnqueue(v.st)
  /\ Becomes(SetStream(v, R!ControllerClose(v.st, v.st.reader)))

Error ==
  /\ v.st.state = "readable"
  /\ Becomes(SetStream(v, R!ControllerError(v.st, v.st.reader)))

OtherReader ==
  \/ v.st.reader = NoReader /\ Becomes([v EXCEPT !.st =
                                          R!AcquireReader(@, Other)])
  \/ v.st.held[Other] /\ Becomes([v EXCEPT !.st =
                                    R!DefaultReaderRelease(@, Other)])

Reactions == \E c \in Calls : Chained(c) \/ Reaction(c) \/ Returned(c)

Next ==
  \/ \E c \in Calls, kind \in {"next", "return"} : Call(c, kind)
  \/ \E c \in Calls : Chained(c)
  \/ \E c \in Calls : Reaction(c)
  \/ \E c \in Calls : Returned(c)
  \/ CancelSettles \/ Enqueue \/ Close \/ Error \/ OtherReader

Spec == Init /\ [][Next]_v

(* Jobs run and the source's cancel() settles its promise.                 *)
Owed == Reactions \/ CancelSettles
FairSpec == Spec /\ WF_v(Owed)

----------------------------------------------------------------------------
TypeOK ==
  /\ v.finished \in BOOLEAN /\ v.ongoing \in Calls \cup {None}
  /\ v.prevent_cancel \in BOOLEAN /\ v.chunks \in 0 .. MaxChunks
  /\ v.cancel \in {"none", "pending", "settled"}
  /\ v.calls \in [Calls -> [kind : {"none", "next", "return"},
                            stage : {"none", "waiting", "reading",
                                     "cancelling", "settled"},
                            after : Calls \cup {None}]]

(* The lock is the iterator's for as long as it may read, and given back   *)
(* once it is finished; while the stream is open nobody else's lock is     *)
(* taken away (the release in close_steps, error_steps and return_steps of *)
(* iterator.rs).                                                           *)
LockInStep ==
  /\ TypeOK
  /\ v.st.state = "readable" /\ ~v.finished => v.st.reader = It
  /\ v.finished => v.st.reader # It
  /\ v.st.state = "readable" /\ v.st.held[Other] => v.st.reader = Other

NoCallWaits ==
  \A c \in Calls :
    v.finished /\ v.calls[c].kind # "none" => v.calls[c].stage = "settled"

(* Once the iterator is finished every call that was made is answered:     *)
(* none is left waiting for a read that can have no answer.                *)
AllAnswered == []<>NoCallWaits
=============================================================================
