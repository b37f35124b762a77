--------------------------- MODULE ReadableByteTee ---------------------------
(***************************************************************************)
(* tee() of a readable byte stream (readable/stream/tee.rs,                *)
(* readable_byte_stream_tee): the branches are byte streams, records of    *)
(* ReadableByteStream that move by its operators; the tee has one reader   *)
(* on the source, a default reader or a BYOB reader, and exchanges it when *)
(* a branch wants the other kind.  A branch with a buffer pending lends    *)
(* the buffer to the source; the other branch gets a copy of the bytes.    *)
(***************************************************************************)
EXTENDS Integers, Sequences, SequencesExt

CONSTANTS
  MaxReads,    \* bound on the reads of a branch
  MaxBytes,    \* bound on the bytes of the source
  Readers,     \* the readers of a branch
  NoReader,    \* Option::None for a reader
  Views        \* the views that are given to read(view) of a branch

Branches == {1, 2}
Other(b) == 3 - b
NoTask == [kind |-> "none", for |-> 0, n |-> 0, len |-> 0]

VARIABLE
  w   \* branch: the branches, records of ReadableByteStream;
      \* tee: reader (its kind), reading, read_again_for_branch_1 and _2,
      \*   canceled, cancel_promise, and what the microtask of the chunk
      \*   steps will hand on (task); thrown: close() of a branch has thrown;
      \* src: its state, the tee's read that waits there, the bytes it has
      \*   given, and the closed promises of the tee's readers whose
      \*   rejection has yet to be told ("old": of a released reader)

branch == w.branch
tee == w.tee
src == w.src

(* create_readable_byte_stream().                                          *)
B == INSTANCE ReadableByteStream WITH
       s <- w.branch[1], auto <- 0, AutoSizes <- {0}, HWM <- 0

Init ==
  w = [ branch |-> [b \in Branches |-> B!NewStream],
        tee |-> [ reader |-> "default", reading |-> FALSE,
                  read_again |-> [b \in Branches |-> FALSE],
                  canceled |-> [b \in Branches |-> FALSE],
                  cancel_promise |-> "pending", task |-> NoTask,
                  thrown |-> FALSE ],
        src |-> [ state |-> "readable", request |-> NoTask, given |-> 0,
                  rejections |-> {} ] ]

----------------------------------------------------------------------------
Becomes(m) == w' = m

(* Exchanges the tee's reader.  The promise of the released one rejects;   *)
(* a reader of an errored stream rejects from the start.                   *)
UseReader(m, kind) ==
  IF m.tee.reader = kind THEN m
  ELSE [m EXCEPT !.tee.reader = kind,
                 !.src.rejections =
                   {"old"} \cup IF m.src.state = "errored" THEN {"current"}
                                ELSE {}]

PullWithDefaultReader(m, b) ==
  [UseReader(m, "default") EXCEPT !.src.request =
     [kind |-> "default", for |-> b, n |-> 0, len |-> 0]]

PullWithByobReader(m, b) ==
  [UseReader(m, "byob") EXCEPT !.src.request =
     [kind |-> "byob", for |-> b, n |-> 0, len |-> m.branch[b].byob.len]]

(* pull1Algorithm and pull2Algorithm.                                      *)
TeePull(m, b) ==
  IF m.tee.reading THEN [m EXCEPT !.tee.read_again[b] = TRUE]
  ELSE LET n == [m EXCEPT !.tee.reading = TRUE,
                          !.branch[b] = B!GetByobRequest(@)]
       IN  IF n.branch[b].byob = B!NoRequest THEN PullWithDefaultReader(n, b)
           ELSE PullWithByobReader(n, b)

(* Puts branch b in state t, and runs its pull() if t has called it.       *)
SetBranch(m, b, t) ==
  LET n == [m EXCEPT !.branch[b] = t]
  IN  IF t.pull_cb /\ ~m.branch[b].pull_cb THEN TeePull(n, b) ELSE n

(* What JavaScript does with a branch.                                     *)
GetReader(b, r, kind) ==
  /\ branch[b].reader = NoReader /\ branch[b].kind[r] = "none"
  /\ Becomes([w EXCEPT !.branch[b] = B!AcquireReader(@, r, kind)])

Read(b, r) ==
  /\ branch[b].held[r]
  /\ \E k \in B!Reads :
       /\ B!IsNextRead(branch[b], k)
       /\ \/ /\ branch[b].kind[r] = "default"
             /\ Becomes(SetBranch(w, b,
                                  B!DefaultReaderRead(branch[b], r, k)))
          \/ /\ branch[b].kind[r] = "byob"
             /\ \E view \in Views :
                  Becomes(SetBranch(w, b,
                            B!ByobReaderRead(branch[b], r, k, view)))

ReleaseLock(b, r) ==
  /\ branch[b].held[r]
  /\ Becomes([w EXCEPT !.branch[b] = B!ReaderRelease(@, r)])

(* cancel() of branch b.  With both cancelled the source is: its read gets *)
(* the close steps, which find nothing to close.                           *)
Cancel(b) ==
  /\ branch[b].state = "readable"
  /\ LET t == B!StreamCancel(branch[b], branch[b].reader)
         m == [w EXCEPT !.branch[b] = B!Expect(t, ~tee.canceled[b]),
                        !.tee.canceled[b] = TRUE]
     IN  Becomes(IF ~tee.canceled[Other(b)] THEN m
                 ELSE [m EXCEPT
                   !.tee.cancel_promise = "resolved",
                   !.tee.reading = IF src.request # NoTask THEN FALSE ELSE @,
                   !.src.request = NoTask,
                   !.src.state = IF @ = "readable" THEN "closed" ELSE @])

StartFulfilled(b) ==
  /\ branch[b].start_cb
  /\ LET t == [branch[b] EXCEPT !.start_cb = FALSE, !.started = TRUE]
     IN  Becomes(SetBranch(w, b, B!CallPullIfNeeded(t, t.reader)))

PullFulfilled(b) ==
  /\ branch[b].pull_cb
  /\ LET m == [w EXCEPT !.branch[b].pull_cb = FALSE]
     IN  Becomes(SetBranch(m, b, B!PullEnds(branch[b])))

----------------------------------------------------------------------------
(* The source answers the tee's read with n bytes.                         *)
ChunkSteps ==
  /\ src.request # NoTask /\ src.state = "readable"
  /\ \E n \in 1 .. MaxBytes - src.given :
       /\ src.request.kind = "byob" => n <= src.request.len
       /\ Becomes([w EXCEPT !.src.request = NoTask, !.src.given = @ + n,
                            !.tee.task = [src.request EXCEPT !.n = n]])

Bytes(t, n) == [i \in 1 .. n |-> t.produced + i]

EnqueueTo(m, b, n) ==
  LET t == m.branch[b]
      u == [t EXCEPT !.produced = @ + n]
  IN  IF t.state # "readable" \/ t.close_requested THEN m
      ELSE SetBranch(m, b, B!ControllerEnqueue(u, u.reader, Bytes(t, n)))

(* respondWithNewView() on the branch that lent its buffer: it indexes the *)
(* first descriptor.                                                       *)
RespondTo(m, b, n) ==
  LET t == m.branch[b]
      u == [t EXCEPT !.produced = @ + n]
  IN  IF t.pending = <<>> THEN [m EXCEPT !.branch[b] = B!Expect(t, FALSE)]
      ELSE SetBranch(m, b, B!RespondInternal(u, u.reader, Bytes(t, n)))

UnlessCanceled(m, b, n) == IF m.tee.canceled[b] THEN m ELSE n

(* Planted fault: the branch that lent its buffer is served whether or not *)
(* it has been cancelled meanwhile.                                        *)
HandOnFault(m, b, task) ==
  IF task.kind = "byob"
    THEN UnlessCanceled(RespondTo(m, b, task.n), Other(b),
                        EnqueueTo(RespondTo(m, b, task.n), Other(b), task.n))
  ELSE LET n1 == UnlessCanceled(m, 1, EnqueueTo(m, 1, task.n))
       IN  UnlessCanceled(n1, 2, EnqueueTo(n1, 2, task.n))

(* A buffer that was lent goes back to branch b, filled, and the other     *)
(* branch gets a copy; else both are given the chunk.                      *)
HandOn(m, b, task) ==
  IF task.kind = "byob"
    THEN LET n == UnlessCanceled(m, b, RespondTo(m, b, task.n))
         IN  UnlessCanceled(n, Other(b), EnqueueTo(n, Other(b), task.n))
  ELSE LET n1 == UnlessCanceled(m, 1, EnqueueTo(m, 1, task.n))
       IN  UnlessCanceled(n1, 2, EnqueueTo(n1, 2, task.n))

(* The microtask of the chunk steps.                                       *)
Task ==
  /\ tee.task # NoTask
  /\ LET m == [w EXCEPT !.tee.task = NoTask,
                        !.tee.read_again = [b \in Branches |-> FALSE]]
         n == [HandOn(m, tee.task.for, tee.task) EXCEPT
                 !.tee.reading = FALSE]
     IN  Becomes(IF n.tee.read_again[1] THEN TeePull(n, 1)
                 ELSE IF n.tee.read_again[2] THEN TeePull(n, 2) ELSE n)

(* close() of a branch; a half-filled element makes it an error that is    *)
(* thrown, and the steps that follow it are not taken.                     *)
CloseBranch(m, b) ==
  LET t == m.branch[b]
      u == B!ControllerClose(t, t.reader)
  IN  IF m.tee.thrown \/ m.tee.canceled[b] THEN m
      ELSE [m EXCEPT !.branch[b] = u,
                     !.tee.thrown = t.state = "readable" /\
                                    u.state = "errored"]

RespondZero(m, b) ==
  IF m.tee.thrown \/ m.tee.canceled[b] \/ m.branch[b].pending = <<>> THEN m
  ELSE IF m.branch[b].state # "closed"
    THEN [m EXCEPT !.tee.thrown = TRUE]
  ELSE RespondTo(m, b, 0)

(* The source is closed: the close steps of either kind of read.           *)
CloseSteps ==
  /\ src.request # NoTask /\ src.state # "errored"
  /\ LET m == [w EXCEPT !.src.request = NoTask, !.src.state = "closed",
                        !.tee.reading = FALSE]
         b == IF src.request.kind = "byob" THEN src.request.for ELSE 1
         n == CloseBranch(CloseBranch(m, b), Other(b))
         z == RespondZero(RespondZero(n, b), Other(b))
     IN  Becomes(IF ~z.tee.thrown /\ \E c \in Branches : ~z.tee.canceled[c]
                   THEN [z EXCEPT !.tee.cancel_promise = "resolved"] ELSE z)

(* The source errors; a read of the tee that waits gets its error steps,   *)
(* and the reader's closed promise rejects.                                *)
SourceErrors ==
  /\ src.state = "readable"
  /\ Becomes([w EXCEPT !.src.state = "errored", !.src.request = NoTask,
                       !.src.rejections = @ \cup {"current"},
                       !.tee.reading = IF src.request # NoTask THEN FALSE
                                       ELSE @])

ErrorSteps ==
  /\ src.request # NoTask /\ src.state = "errored"
  /\ Becomes([w EXCEPT !.src.request = NoTask, !.tee.reading = FALSE])

(* forwardReaderError.                                                     *)
ForwardReaderError(m, who) ==
  LET Err(b) == B!ControllerError(m.branch[b], m.branch[b].reader)
      n == [m EXCEPT !.branch = [b \in Branches |-> Err(b)]]
  IN  IF who = "old" THEN m
      ELSE IF \E b \in Branches : ~n.tee.canceled[b]
        THEN [n EXCEPT !.tee.cancel_promise = "resolved"] ELSE n

(* Jobs run in the order they were queued: a microtask that is there was   *)
(* queued before the source errored.                                       *)
ClosedPromiseRejected ==
  \E who \in src.rejections :
    /\ who = "current" => tee.task = NoTask
    /\ Becomes(ForwardReaderError([w EXCEPT !.src.rejections = @ \ {who}],
                                  who))

Callbacks ==
  \/ \E b \in Branches : StartFulfilled(b) \/ PullFulfilled(b)
  \/ ClosedPromiseRejected \/ Task \/ ErrorSteps

Answers == ChunkSteps \/ CloseSteps

Next ==
  \/ \E b \in Branches :
       \/ \E r \in Readers :
            \/ \E kind \in {"default", "byob"} : GetReader(b, r, kind)
            \/ Read(b, r) \/ ReleaseLock(b, r)
       \/ Cancel(b)
  \/ Callbacks \/ Answers \/ SourceErrors

Spec == Init /\ [][Next]_w

CallbackWaits ==
  \/ \E b \in Branches : branch[b].start_cb \/ branch[b].pull_cb
  \/ src.rejections # {} \/ tee.task # NoTask
  \/ src.request # NoTask /\ src.state = "errored"

AnswerWaits == src.request # NoTask /\ src.state # "errored"

(* Callbacks run, and the source answers: weak fairness, with the          *)
(* condition that enables the steps written out.                           *)
Owing == CallbackWaits \/ AnswerWaits
Owed == Callbacks \/ Answers
FairSpec == Spec /\ (<>[]Owing => []<><<Owed>>_w)

----------------------------------------------------------------------------
Handed == src.given - tee.task.n

Reached(t) ==
  t.delivered \o (IF t.pending = <<>> THEN <<>> ELSE t.pending[1].filled)
              \o FlattenSeq(t.queue)

(* Each branch that was not cancelled gets every byte of the source once   *)
(* and in order, by whichever reader and in whichever buffer; a branch is  *)
(* errored only after its source has ended, whatever readers the tee has   *)
(* exchanged; and no expect() and no index of the branches fails.          *)
BothGetAll ==
  \A b \in Branches :
    /\ ~branch[b].panicked
    /\ ~tee.canceled[b] /\ branch[b].state = "readable" =>
         Reached(branch[b]) = [i \in 1 .. Handed |-> i]
    /\ branch[b].state = "errored" => src.state # "readable"

LeftBehind(b) == \E d \in Range(branch[b].pending) : d.type = "none"

(* One read of the source at a time, and it is there whenever a branch     *)
(* waits; excepted is a read behind the buffer of a reader that was        *)
(* released before the branch started, which nothing pulls for.  A buffer  *)
(* that is lent stays pending in its branch, unless the branch is          *)
(* cancelled or errored.                                                   *)
ReadIsUnderWay ==
  /\ tee.reading <=> src.request # NoTask \/ tee.task # NoTask
  /\ src.request = NoTask \/ tee.task = NoTask
  /\ \A b \in Branches :
       branch[b].started /\ branch[b].state = "readable" /\ ~tee.thrown /\
         B!Requested(branch[b], branch[b].reader) /\
         ~LeftBehind(b) =>
         tee.reading \/ branch[b].pulling \/ src.rejections # {}
  /\ LET lent == IF tee.task # NoTask THEN tee.task ELSE src.request
     IN  lent.kind = "byob" /\ branch[lent.for].state = "readable" =>
           branch[lent.for].pending # <<>>

NoCallWaits ==
  \A b \in Branches : \A k \in B!Reads :
    branch[b].answer[k] # "pending" \/ tee.thrown \/ LeftBehind(b)

(* Every read of a branch is answered, if the source answers, no close     *)
(* meets half an element and no reader is released with its buffer.        *)
EveryReadIsAnswered == []<>NoCallWaits

(* "If otherCanceled is false, perform ! ReadableByteStreamControllerClose *)
(* (otherBranch.[[controller]])": when the source is closed every branch   *)
(* that was not cancelled comes to its end, and so do its reads.           *)
(* It does not hold; no run checks it (README).                            *)
CloseReachesBoth ==
  \A b \in Branches : \A k \in B!Reads :
    src.state = "closed" /\ branch[b].answer[k] = "pending" ~>
      branch[b].answer[k] # "pending"

=============================================================================
