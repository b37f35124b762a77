----------------------------- MODULE ReadableTee -----------------------------
(***************************************************************************)
(* tee() of a ReadableStream with a default controller                     *)
(* (readable/stream/tee.rs): two branches that are streams of their own,   *)
(* one reader on the source, and the flags they share.  The branches are   *)
(* records of ReadableStream and move by its operators; the source is what *)
(* the tee sees of it: the answers to its one read.                        *)
(*                                                                         *)
(* pull_algorithm is called last by the branch that calls it, and what it  *)
(* reads is answered by an action of the source, which may be the next.    *)
(***************************************************************************)
EXTENDS Integers, Sequences, SequencesExt

CONSTANTS
  MaxReads,    \* bound on the reads of a branch
  MaxChunks,   \* bound on the chunks of the source
  Reader,      \* the reader of a branch
  NoReader     \* Option::None for a reader

Branches == {1, 2}
Other(b) == 3 - b

VARIABLE
  w   \* branch: the branches, records of ReadableStream;
      \* tee: reading, read_again, canceled (reason_1, reason_2),
      \*   cancel_promise, and the chunk that a microtask will hand on;
      \* src: the source: its state, whether the tee's read waits there, the
      \*   chunks it has given, whether its closed promise has yet to tell

branch == w.branch
tee == w.tee
src == w.src

(* create_readable_stream() with the high water mark and size by default.  *)
B == INSTANCE ReadableStream WITH
       s <- w.branch[1], frames <- <<>>, hist <- <<>>,
       config <- [hwm |-> 1], Readers <- {Reader}, Sizes <- {1}, HWMs <- {1}

Init ==
  w = [ branch |-> [b \in Branches |-> B!NewStream("starting")],
        tee |-> [ reading |-> FALSE, read_again |-> FALSE,
                  task |-> B!NoChunk,
                  canceled |-> [b \in Branches |-> FALSE],
                  cancel_promise |-> "pending" ],
        src |-> [ state |-> "readable", request |-> FALSE, given |-> 0,
                  rejection |-> FALSE ] ]

----------------------------------------------------------------------------
(* pull_algorithm of both branches: one read of the source at a time.      *)
TeePull(m) ==
  IF m.tee.reading THEN [m EXCEPT !.tee.read_again = TRUE]
  ELSE [m EXCEPT !.tee.reading = TRUE, !.src.request = TRUE]

Becomes(m) == w' = m

(* Puts branch b in state t, and runs its pull() if t has called it.       *)
SetBranch(m, b, t) ==
  LET n == [m EXCEPT !.branch[b] = t]
      called == t.pull_cb = "called" /\ m.branch[b].pull_cb # "called"
  IN  IF called THEN TeePull(n) ELSE n

Enqueue(m, b, c) ==
  LET t == m.branch[b]
  IN  SetBranch(m, b,
        IF ~B!CanCloseOrEnqueue(t) THEN t
        ELSE IF B!Requested(t, t.reader)
          THEN B!EnqueueFulfilling(t, t.reader, c)
        ELSE B!EnqueueAfterSize(t, t.reader, c, 1))

Unless(cond, m, n) == IF cond THEN m ELSE n

ResolveCancel(m) ==
  IF \E b \in Branches : ~m.tee.canceled[b]
    THEN [m EXCEPT !.tee.cancel_promise = "resolved"] ELSE m

(* What JavaScript does with a branch.                                     *)
GetReader(b) ==
  /\ branch[b].reader = NoReader
  /\ branch[b].closed[Reader] = "none"
  /\ Becomes([w EXCEPT !.branch[b] = B!AcquireReader(@, Reader)])

Read(b) ==
  /\ branch[b].held[Reader]
  /\ \E k \in B!Reads :
       /\ B!IsNextRead(branch[b], k)
       /\ Becomes(SetBranch(w, b,
                            B!DefaultReaderRead(branch[b], Reader, k)))

ReleaseLock(b) ==
  /\ branch[b].held[Reader]
  /\ Becomes(SetBranch(w, b, B!DefaultReaderRelease(branch[b], Reader)))

(* cancel_algorithm of branch b.  With both branches cancelled the source  *)
(* is, which closes it: the tee's read there gets its close steps, and     *)
(* cancel_promise takes over the source's answer.                          *)
TeeCancel(m, b) ==
  LET n == [m EXCEPT !.tee.canceled[b] = TRUE]
  IN  IF ~n.tee.canceled[Other(b)] THEN n
      ELSE [n EXCEPT !.tee.cancel_promise = "resolved",
                     !.tee.reading = IF m.src.request THEN FALSE ELSE @,
                     !.src.request = FALSE,
                     !.src.state = IF @ = "readable" THEN "closed" ELSE @]

(* cancel() of branch b, by its reader or by the stream.                   *)
Cancel(b) ==
  /\ branch[b].state = "readable"
  /\ LET t == B!StreamCancel(branch[b], branch[b].reader)
     IN  Becomes(TeeCancel([w EXCEPT !.branch[b] =
                              B!Expect(t, ~tee.canceled[b])], b))

(* Callbacks of a branch: its start and the end of a pull, whose promise   *)
(* is resolved from the start.                                             *)
StartFulfilled(b) ==
  /\ branch[b].phase = "starting"
  /\ LET t == [branch[b] EXCEPT !.phase = "open", !.started = TRUE]
     IN  Becomes(SetBranch(w, b, B!CallPullIfNeeded(t, t.reader)))

PullFulfilled(b) ==
  /\ branch[b].pull_cb = "called"
  /\ LET t == [branch[b] EXCEPT !.pull_cb = "none", !.pulling = FALSE,
                                !.pull_again = FALSE]
         m == [w EXCEPT !.branch[b] = t]
     IN  Becomes(IF branch[b].pull_again
                   THEN SetBranch(m, b, B!CallPullIfNeeded(t, t.reader))
                   ELSE m)

----------------------------------------------------------------------------
(* The source answers the tee's read: chunk steps, close steps or error    *)
(* steps.                                                                  *)
ChunkSteps ==
  /\ src.request /\ src.state = "readable" /\ src.given < MaxChunks
  /\ Becomes([w EXCEPT !.src.request = FALSE, !.src.given = @ + 1,
                           !.tee.task = src.given + 1])

CloseBranch(m, b) ==
  IF m.tee.canceled[b] THEN m
  ELSE SetBranch(m, b, B!ControllerClose(m.branch[b], m.branch[b].reader))

CloseSteps ==
  /\ src.request /\ src.state # "errored"
  /\ LET m == [w EXCEPT !.src.request = FALSE, !.src.state = "closed",
                            !.tee.reading = FALSE]
     IN  Becomes(ResolveCancel(CloseBranch(CloseBranch(m, 1), 2)))

(* The source errors, with the tee's read waiting or not; the rejection of *)
(* the reader's closed promise runs as a callback.                         *)
SourceErrors ==
  /\ src.state = "readable"
  /\ Becomes([w EXCEPT !.src.state = "errored", !.src.rejection = TRUE,
                           !.src.request = FALSE,
                           !.tee.reading = IF src.request THEN FALSE ELSE @])

(* A read of a source that has errored meanwhile: error_steps.             *)
ErrorSteps ==
  /\ src.request /\ src.state = "errored"
  /\ Becomes([w EXCEPT !.src.request = FALSE, !.tee.reading = FALSE])

(* Jobs run in the order they were queued: a microtask that is there was   *)
(* queued before the source errored.                                       *)
ClosedPromiseRejected ==
  /\ src.rejection /\ tee.task = B!NoChunk
  /\ LET Err(b) == B!ControllerError(branch[b], branch[b].reader)
     IN  Becomes(ResolveCancel([w EXCEPT
                   !.src.rejection = FALSE,
                   !.branch = [b \in Branches |-> Err(b)]]))

(* The microtask that chunk_steps queued: hands the chunk to the branches  *)
(* that are not cancelled, and reads again if one has pulled meanwhile.    *)
Task ==
  /\ tee.task # B!NoChunk
  /\ LET m0 == [w EXCEPT !.tee.task = B!NoChunk,
                             !.tee.read_again = FALSE]
         m1 == Unless(tee.canceled[1], m0, Enqueue(m0, 1, tee.task))
         m2 == Unless(tee.canceled[2], m1, Enqueue(m1, 2, tee.task))
         m3 == [m2 EXCEPT !.tee.reading = FALSE]
     IN  Becomes(IF m3.tee.read_again THEN TeePull(m3) ELSE m3)

Callbacks ==
  \/ \E b \in Branches : StartFulfilled(b) \/ PullFulfilled(b)
  \/ ClosedPromiseRejected \/ Task \/ ErrorSteps

Answers == ChunkSteps \/ CloseSteps

Next ==
  \/ \E b \in Branches :
       GetReader(b) \/ Read(b) \/ ReleaseLock(b) \/ Cancel(b)
  \/ Callbacks \/ Answers \/ SourceErrors

Spec == Init /\ [][Next]_w

CallbackWaits ==
  \/ \E b \in Branches : branch[b].phase = "starting" \/
                         branch[b].pull_cb = "called"
  \/ src.rejection \/ tee.task # B!NoChunk
  \/ src.request /\ src.state = "errored"

AnswerWaits == src.request /\ src.state # "errored"

(* Callbacks run, and the source answers: weak fairness, with the          *)
(* condition that enables the steps written out.                           *)
Owing == CallbackWaits \/ AnswerWaits
Owed == Callbacks \/ Answers
FairSpec == Spec /\ (<>[]Owing => []<><<Owed>>_w)

----------------------------------------------------------------------------
Taken(b) ==
  LET t == branch[b]
      read == SelectSeq(t.got, LAMBDA c : c # B!NoChunk)
  IN  read \o [i \in DOMAIN t.queue |-> t.queue[i].chunk]

Handed == IF tee.task = B!NoChunk THEN src.given ELSE src.given - 1

(* Each branch that was not cancelled gets every chunk of the source once  *)
(* and in order, however the two are read; and no expect() of the branches *)
(* fails (their algorithms are called while they are there, and the cancel *)
(* of a branch runs once).                                                 *)
BothGetAll ==
  /\ tee.reading \in BOOLEAN /\ tee.read_again \in BOOLEAN
  /\ tee.cancel_promise \in {"pending", "resolved"}
  /\ src.state \in {"readable", "closed", "errored"}
  /\ \A b \in Branches :
       /\ ~branch[b].panicked
       /\ ~tee.canceled[b] /\ branch[b].state # "errored" =>
            Taken(b) = [i \in 1 .. Handed |-> i]

(* One read of the source at a time, and it is there whenever a branch     *)
(* waits: the shared flag `reading` is true exactly while the tee's read   *)
(* or its microtask is under way, and a branch that has read in vain has   *)
(* made the tee read, or will when the pull it is in ends.                 *)
ReadIsUnderWay ==
  /\ tee.reading <=> src.request \/ tee.task # B!NoChunk
  /\ ~(src.request /\ tee.task # B!NoChunk)
  /\ \A b \in Branches :
       branch[b].started /\ B!Pending(branch[b]) # {} =>
         tee.reading \/ branch[b].pulling \/ src.rejection

NoCallWaits ==
  /\ \A b \in Branches : \A k \in B!Reads : branch[b].answer[k] # "pending"
  /\ (\A b \in Branches : tee.canceled[b]) \/ src.state = "errored" =>
       tee.cancel_promise = "resolved"

(* Every read of a branch is answered, if the source answers; cancel() of  *)
(* both branches, or of one when the source fails, settles.                *)
EveryCallSettles == []<>NoCallWaits

=============================================================================
