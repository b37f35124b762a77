------------------------------ MODULE FetchBody ------------------------------
(***************************************************************************)
(* The body of a fetched Response of modules/llrt_fetch (response.rs,      *)
(* body_helpers.rs): one hyper body behind an Option that text() and its   *)
(* relatives, the stream of the `body` getter, that stream's native        *)
(* fast path for read() (llrt_stream_web, readable/default_reader.rs) and  *)
(* the stream that clone() tees take out and put back.                     *)
(*                                                                         *)
(* The streams are records of ReadableStream and move by its operators; a  *)
(* chunk is the sequence of the frames it was coalesced from.  Of the tee  *)
(* only the outcome is kept (see ReadableTee): what it reads goes to both  *)
(* branches.  A future is first polled after the call that spawned it, in  *)
(* the order of the spawns (the scheduler of rquickjs is a FIFO queue).    *)
(***************************************************************************)
EXTENDS Integers, Sequences, SequencesExt

CONSTANTS
  MaxReads,   \* bound on the calls of read(), and on the tee's reads
  MaxTexts,   \* bound on the calls of text()
  MaxFrames,  \* bound on the frames of the body
  MaxDecoded, \* the same for one that is compressed
  Rd,         \* the reader of the body's stream, the tee's reader
  NoReader    \* Option::None for a reader

Reads == 1 .. MaxReads
Texts == 1 .. MaxTexts
Streams == {"A", "B"}         \* the getter's stream, the one clone() tees
Responses == {"orig", "copy"}
Rest == 0                     \* what the decoder gives when it is finished

VARIABLE v

R == INSTANCE ReadableStream WITH
       s <- v, frames <- <<>>, hist <- <<>>, config <- [hwm |-> 1],
       Readers <- {Rd}, MaxChunks <- 1, Sizes <- {1}, HWMs <- {1}

(* What the server sends: frames, of which a decoder makes data, nothing   *)
(* ("hollow") or an error ("bad"), then the end or an error of the         *)
(* connection; and what finishing the decoder gives.                       *)
Bodies ==
  [frames : UNION {[1 .. n -> {"data"}] : n \in 0 .. MaxFrames},
   ending : {"eof", "error"}, finish : {"none"}, decoder : {FALSE}]
  \cup
  {b \in [frames : UNION {[1 .. n -> {"data", "hollow", "bad"}] : n \in 1 .. MaxDecoded},
          ending : {"eof", "error"}, finish : {"none", "rest", "fails"},
          decoder : {TRUE}] :
     b.ending = "error" \/ "bad" \in Range(b.frames) => b.finish = "rest"}

Init ==
  \E b \in Bodies :
    v = [ net |-> b, arrived |-> 0, nxt |-> 1, slot |-> "here",
          finished |-> ~b.decoder, end_seen |-> FALSE,
          variant |-> [x \in Responses |->
                         IF x = "orig" THEN "Incoming" ELSE "absent"],
          consumed |-> [x \in Responses |-> FALSE],
          cached |-> [x \in Responses |-> "none"],
          st |-> [z \in Streams |-> R!NewStream("absent")],
          task |-> [z \in Streams |-> "none"],
          native |-> [k \in Reads |-> "none"],
          branch |-> <<>>, branch_end |-> "open",
          text |-> [c \in Texts |-> [on |-> "none", at |-> "none",
                                     data |-> <<>>]],
          spawned |-> <<>>, cancelled |-> FALSE, quirks |-> {} ]

Becomes(w) == v' = w

Spawn(w, f) == [w EXCEPT !.spawned = Append(@, f)]
IsNext(f) == v.spawned # <<>> /\ Head(v.spawned) = f
Polled == [v EXCEPT !.spawned = Tail(@)]

----------------------------------------------------------------------------
(* The hyper body (an external one): the frames from `nxt` on that have    *)
(* arrived, the end being the frame after the last.                        *)
LastFrame(w) == Len(w.net.frames)
Ready(w) == w.arrived >= w.nxt
AtEnd(w) == w.nxt > LastFrame(w)

Arrive ==
  /\ v.arrived <= LastFrame(v)
  /\ Becomes([v EXCEPT !.arrived = @ + 1])

DataOf(w, i, j) ==
  SelectSeq([n \in 1 .. j - i + 1 |-> i + n - 1],
            LAMBDA n : w.net.frames[n] = "data")
HasBad(w, i, j) == \E n \in i .. j : w.net.frames[n] = "bad"
Arrived(w) == IF w.arrived > LastFrame(w) THEN LastFrame(w) ELSE w.arrived

(* drain_ready() polls until something is not a frame: an error it meets   *)
(* is polled away.                                                         *)
Drained(w) ==
  LET lost == w.arrived > LastFrame(w) /\ w.net.ending = "error"
  IN  [w EXCEPT !.nxt = Arrived(w) + 1,
                !.net.ending = IF lost THEN "eof" ELSE @,
                !.quirks = IF lost THEN @ \cup {"error lost"} ELSE @]

Outcome(kind, data, w) == [kind |-> kind, data |-> data, w |-> w]
Quirk(w, q) == [w EXCEPT !.quirks = @ \cup {q}]

(* What it returns once a frame or the end is ready.                       *)
ReadBodyChunk(w) ==
  LET at_end == [w EXCEPT !.end_seen = TRUE, !.finished = TRUE]
      data == DataOf(w, w.nxt, Arrived(w))
  IN  CASE AtEnd(w) /\ w.net.ending = "error" -> Outcome("error", <<>>, w)
        [] AtEnd(w) /\ ~w.finished /\ w.net.finish = "rest" ->
             Outcome("some", <<Rest>>, at_end)
        [] AtEnd(w) /\ ~w.finished /\ w.net.finish = "fails" ->
             Outcome("none", <<>>, Quirk(at_end, "error lost"))
        [] AtEnd(w) -> Outcome("none", <<>>, at_end)
        [] ~AtEnd(w) /\ HasBad(w, w.nxt, Arrived(w)) ->
             Outcome("error", <<>>, Drained(w))
        [] ~AtEnd(w) /\ data = <<>> ->
             Outcome("none", <<>>, Quirk(Drained(w), "hollow"))
        [] OTHER -> Outcome("some", data, Drained(w))

(* The whole rest at once, decoded from its start.                         *)
Collected(w) ==
  LET all == [w EXCEPT !.nxt = LastFrame(w) + 1, !.end_seen = TRUE]
      bad == \/ w.net.ending = "error"
             \/ w.net.decoder /\ \/ HasBad(w, w.nxt, LastFrame(w))
                                 \/ w.nxt > 1
                                 \/ w.net.finish = "fails"
      rest == IF w.net.finish = "rest" THEN <<Rest>> ELSE <<>>
  IN  IF bad THEN Outcome("error", <<>>, all)
      ELSE Outcome("some", DataOf(w, w.nxt, LastFrame(w)) \o rest, all)

----------------------------------------------------------------------------
(* A stream of create_body_stream(): each pull spawns a task.              *)
SetSt(w, z, t) ==
  IF t.pull_cb = "called" /\ w.st[z].pull_cb # "called"
    THEN Spawn([w EXCEPT !.st[z] = t, !.task[z] = "spawned"], <<"pull", z>>)
  ELSE [w EXCEPT !.st[z] = t]

CreateBodyStream(w, z) == [w EXCEPT !.st[z].phase = "starting"]

StreamStarts(z) ==
  /\ v.st[z].phase = "starting"
  /\ LET t == [v.st[z] EXCEPT !.phase = "open", !.started = TRUE]
     IN  Becomes(SetSt(v, z, R!CallPullIfNeeded(t, t.reader)))

(* The task takes the body out; without one the pull is over at once.      *)
PullPolled(z) ==
  /\ IsNext(<<"pull", z>>)
  /\ IF v.slot = "here"
       THEN Becomes([Polled EXCEPT !.task[z] = "reading", !.slot = "out"])
     ELSE LET w == [Polled EXCEPT !.task[z] = "resolved"]
          IN  Becomes(IF R!Requested(v.st[z], v.st[z].reader)
                        THEN Quirk(w, "rivals") ELSE w)

EnqueueValue(t, c) ==
  IF ~R!CanCloseOrEnqueue(t) THEN t
  ELSE IF R!Requested(t, t.reader) THEN R!EnqueueFulfilling(t, t.reader, c)
  ELSE R!EnqueueAfterSize(t, t.reader, c, 1)

PullReads(z) ==
  /\ v.task[z] = "reading"
  /\ Ready(v)
  /\ LET o == ReadBodyChunk(v)
         t == v.st[z]
         u == CASE o.kind = "some" -> EnqueueValue(t, o.data)
                [] o.kind = "none" -> R!ControllerClose(t, t.reader)
                [] OTHER -> R!ControllerError(t, t.reader)
         w == [o.w EXCEPT !.task[z] = "resolved",
                          !.slot = IF o.kind = "some" THEN "here" ELSE "none"]
     IN  Becomes(SetSt(w, z, u))

PullFulfilled(z) ==
  /\ v.task[z] = "resolved"
  /\ LET t == [v.st[z] EXCEPT !.pull_cb = "none", !.pulling = FALSE,
                              !.pull_again = FALSE]
         w == [v EXCEPT !.task[z] = "none", !.st[z] = t]
     IN  Becomes(IF v.st[z].pull_again
                   THEN SetSt(w, z, R!CallPullIfNeeded(t, t.reader)) ELSE w)

----------------------------------------------------------------------------
(* res.body                                                                *)
Unusable(t) == t.disturbed \/ t.reader # NoReader

Disturbed(w, x) ==
  LET hides == \E c \in Texts : w.text[c].on = x /\ w.text[c].at = "called"
      u == [w EXCEPT !.cached[x] = "disturbed"]
  IN  IF hides THEN Quirk(u, "looked at") ELSE u

BodyGetter(x) ==
  /\ v.variant[x] # "absent"
  /\ IF v.consumed[x]
       THEN IF \/ v.cached[x] = "disturbed"
               \/ v.cached[x] = "A" /\ Unusable(v.st["A"])
              THEN UNCHANGED v ELSE Becomes(Disturbed(v, x))
     ELSE IF v.cached[x] # "none" THEN UNCHANGED v
     ELSE CASE v.variant[x] = "Incoming" /\ v.slot = "here" ->
                 Becomes([CreateBodyStream(v, "A") EXCEPT !.cached[x] = "A"])
            [] v.variant[x] = "Incoming" /\ v.slot # "here" ->
                 Becomes(Disturbed(v, x))
            [] v.variant[x] = "taken" -> Becomes(Disturbed(v, x))
            [] OTHER -> UNCHANGED v

(* The getter's stream stays free when text() takes the body.              *)
GetReader ==
  /\ v.st["A"].phase # "absent"
  /\ v.st["A"].reader = NoReader /\ v.st["A"].closed[Rd] = "none"
  /\ LET w == [v EXCEPT !.st["A"] = R!AcquireReader(v.st["A"], Rd)]
     IN  Becomes(IF v.consumed["orig"] THEN Quirk(w, "not locked") ELSE w)

(* The fast path of read(): a body that is ready is read here.             *)
NativePull(w, k) ==
  LET rival == \E j \in Reads : w.native[j] # "none"
      q == IF rival THEN Quirk(w, "rivals") ELSE w
      u == [q EXCEPT !.st["A"].disturbed = TRUE]
      Answer(w2, a, c) == [w2 EXCEPT !.st["A"].answer[k] = a,
                                     !.st["A"].got[k] = c]
      data == DataOf(u, u.nxt, Arrived(u))
      over == [u EXCEPT !.slot = "none", !.end_seen = TRUE, !.finished = TRUE]
  IN  CASE u.slot # "here" ->
             Answer(IF u.slot = "out" THEN Quirk(u, "rivals") ELSE u, "done", <<>>)
        [] u.slot = "here" /\ ~Ready(u) ->
             Spawn([u EXCEPT !.native[k] = "spawned",
                             !.st["A"].answer[k] = "pending"], <<"read", k>>)
        [] u.slot = "here" /\ Ready(u) /\ AtEnd(u) /\ u.net.ending = "error" ->
             Answer([u EXCEPT !.slot = "none"], "error", <<>>)
        [] u.slot = "here" /\ Ready(u) /\ AtEnd(u) /\ u.net.ending = "eof" ->
             IF u.finished \/ u.net.finish = "none" THEN Answer(over, "done", <<>>)
             ELSE IF u.net.finish = "rest" THEN Answer(over, "chunk", <<Rest>>)
             ELSE Answer(over, "error", <<>>)
        [] u.slot = "here" /\ Ready(u) /\ ~AtEnd(u) ->
             IF HasBad(u, u.nxt, Arrived(u))
               THEN Answer(Drained(u), "error", <<>>)
             ELSE Answer(Drained(u), "chunk", data)

Read(k) ==
  LET t == v.st["A"]
  IN  /\ t.held[Rd]
      /\ R!IsNextRead(t, k)
      /\ IF t.state = "readable" /\ t.queue = <<>> /\ ~t.pulling
           THEN Becomes(NativePull(v, k))
         ELSE Becomes(SetSt(v, "A", R!DefaultReaderRead(t, Rd, k)))

NativePolled(k) ==
  /\ IsNext(<<"read", k>>)
  /\ IF v.slot = "here"
       THEN Becomes([Polled EXCEPT !.native[k] = "reading", !.slot = "out"])
     ELSE LET w == [Polled EXCEPT !.native[k] = "none",
                             !.st["A"].answer[k] = "done"]
          IN  Becomes(IF v.slot = "out" \/ ~v.end_seen
                        THEN Quirk(w, "rivals") ELSE w)

(* Planted fault: the body is not put back after a chunk. *)
NativeReadsFault(k) ==
  /\ v.native[k] = "reading"
  /\ Ready(v)
  /\ LET o == ReadBodyChunk(v)
     IN  Becomes([o.w EXCEPT !.native[k] = "none", !.slot = "none",
            !.st["A"].answer[k] = CASE o.kind = "some" -> "chunk"
                                    [] o.kind = "none" -> "done"
                                    [] OTHER -> "error",
            !.st["A"].got[k] = o.data])

NativeReads(k) ==
  /\ v.native[k] = "reading"
  /\ Ready(v)
  /\ LET o == ReadBodyChunk(v)
     IN  Becomes([o.w EXCEPT !.native[k] = "none",
            !.slot = IF o.kind = "some" THEN "here" ELSE "none",
            !.st["A"].answer[k] = CASE o.kind = "some" -> "chunk"
                                    [] o.kind = "none" -> "done"
                                    [] OTHER -> "error",
            !.st["A"].got[k] = o.data])

CancelReader ==
  /\ v.st["A"].held[Rd] /\ ~v.cancelled
  /\ Becomes(SetSt([v EXCEPT !.cancelled = TRUE], "A",
                   R!StreamCancel(v.st["A"], Rd)))

ReleaseLock ==
  /\ v.st["A"].held[Rd]
  /\ Becomes([v EXCEPT !.st["A"] = R!DefaultReaderRelease(v.st["A"], Rd)])

----------------------------------------------------------------------------
(* text(), and the other methods that take the whole body                  *)
Text(x, c) ==
  /\ v.variant[x] # "absent"
  /\ v.text[c].at = "none" /\ \A d \in 1 .. c - 1 : v.text[d].at # "none"
  /\ Becomes(Spawn([v EXCEPT !.text[c].on = x, !.text[c].at = "called",
                             !.consumed[x] = TRUE], <<"text", c>>))

TextEnds(w, c, at, data) == [w EXCEPT !.text[c].at = at, !.text[c].data = data]

(* A stream that was made and not read may have taken some of the body.    *)
Partial(w) ==
  w.st["A"].phase # "absent" /\ (w.nxt > 1 \/ w.slot # "here" \/ w.end_seen)

TakeBytes(w, c) ==
  LET x == w.text[c].on
      stream == \/ w.cached[x] = "disturbed"
                \/ w.cached[x] = "A" /\ Unusable(w.st["A"])
      u == IF Partial(w) THEN Quirk(w, "partial") ELSE w
  IN  CASE stream -> TextEnds(w, c, "failed", <<>>)
        [] ~stream /\ w.variant[x] = "Incoming" /\ w.slot = "here" ->
             [u EXCEPT !.text[c].at = "collecting", !.slot = "none"]
        [] ~stream /\ w.variant[x] = "Incoming" /\ w.slot # "here" ->
             TextEnds(u, c, "failed", <<>>)
        [] ~stream /\ w.variant[x] = "stream" ->
             [w EXCEPT !.text[c].at = "draining", !.variant[x] = "taken"]
        [] OTHER -> TextEnds(w, c, "failed", <<>>)

TextPolled(c) == IsNext(<<"text", c>>) /\ Becomes(TakeBytes(Polled, c))

TextCollects(c) ==
  /\ v.text[c].at = "collecting"
  /\ v.arrived > LastFrame(v)
  /\ LET o == Collected(v)
     IN  Becomes(TextEnds(o.w, c, IF o.kind = "some" THEN "ok" ELSE "failed",
                          o.data))

(* collect_readable_stream() of a branch of the tee.                       *)
TextDrains(c) ==
  /\ v.text[c].at = "draining"
  /\ v.branch_end # "open"
  /\ Becomes(IF v.branch_end = "done" THEN TextEnds(v, c, "ok", v.branch)
             ELSE TextEnds(v, c, "failed", <<>>))

----------------------------------------------------------------------------
(* clone() looks at the body and not at the stream of the getter.          *)
Clone ==
  /\ v.variant["orig"] = "Incoming" /\ v.variant["copy"] = "absent"
  /\ v.slot = "here"
  /\ LET w == CreateBodyStream(v, "B")
         u == [w EXCEPT !.st["B"] = R!AcquireReader(w.st["B"], Rd),
                        !.variant = [x \in Responses |-> "stream"],
                        !.cached = [x \in Responses |-> "none"]]
     IN  Becomes(IF v.st["A"].phase # "absent" THEN Quirk(u, "partial") ELSE u)

TeeCanRead(k) ==
  LET t == v.st["B"]
  IN  /\ t.held[Rd] /\ v.branch_end = "open"
      /\ R!IsNextRead(t, k)
      /\ \A j \in 1 .. k - 1 : t.answer[j] # "pending"

TeeReads(k) ==
  /\ TeeCanRead(k)
  /\ Becomes(SetSt(v, "B", R!DefaultReaderRead(v.st["B"], Rd, k)))

(* Each chunk the tee has read is enqueued in both branches.               *)
TeeChunks ==
  FlattenSeq([k \in Reads |-> IF v.st["B"].answer[k] = "chunk"
                                THEN v.st["B"].got[k] ELSE <<>>])
TeeEnd ==
  IF \E k \in Reads : v.st["B"].answer[k] = "done" THEN "done"
  ELSE IF \E k \in Reads : v.st["B"].answer[k] = "error" THEN "error"
  ELSE "open"
TeeHasNews == v.branch # TeeChunks \/ v.branch_end # TeeEnd

ToBranches ==
  /\ TeeHasNews
  /\ Becomes([v EXCEPT !.branch = TeeChunks, !.branch_end = TeeEnd])

----------------------------------------------------------------------------
(* A bound: no further call once a part of the body has gone astray.       *)
Calm == v.quirks = {}

User ==
  \/ \E x \in Responses : Calm /\ BodyGetter(x)
  \/ \E x \in Responses, c \in Texts : Calm /\ Text(x, c)
  \/ \E k \in Reads : Calm /\ Read(k)
  \/ Calm /\ GetReader
  \/ Calm /\ CancelReader
  \/ Calm /\ ReleaseLock
  \/ Calm /\ Clone

Runtime ==
  \/ \E z \in Streams :
       StreamStarts(z) \/ PullPolled(z) \/ PullReads(z) \/ PullFulfilled(z)
  \/ \E k \in Reads : NativePolled(k) \/ NativeReads(k) \/ TeeReads(k)
  \/ \E c \in Texts : TextPolled(c) \/ TextCollects(c) \/ TextDrains(c)
  \/ ToBranches

Next == User \/ Runtime \/ Arrive

Spec == Init /\ [][Next]_v

----------------------------------------------------------------------------
TypeOK ==
  /\ v.slot \in {"here", "out", "none"}
  /\ Range(v.spawned) \subseteq ({"pull"} \X Streams) \cup ({"read"} \X Reads)
                             \cup ({"text"} \X Texts)
  /\ v.nxt \in 1 .. MaxFrames + 1 /\ v.arrived \in 0 .. MaxFrames + 1
  /\ v.variant \in [Responses -> {"absent", "Incoming", "stream", "taken"}]
  /\ v.cached \in [Responses -> {"none", "A", "disturbed"}]
  /\ v.task \in [Streams -> {"none", "spawned", "reading", "resolved"}]
  /\ v.native \in [Reads -> {"none", "spawned", "reading"}]
  /\ \A c \in Texts : v.text[c].at \in
       {"none", "called", "collecting", "draining", "ok", "failed"}
  /\ v.branch_end \in {"open", "done", "error"}
  /\ v.quirks \subseteq {"partial", "rivals", "hollow", "error lost",
                         "looked at", "not locked"}

Whole == DataOf(v, 1, LastFrame(v)) \o
           IF v.net.finish = "rest" THEN <<Rest>> ELSE <<>>
Broken == \/ v.net.ending = "error" \/ v.net.finish = "fails"
          \/ HasBad(v, 1, LastFrame(v))
NoErrorTo(k) == \A j \in 1 .. k : v.st["A"].answer[j] # "error"
Got(k) == IF v.st["A"].answer[k] = "chunk" THEN v.st["A"].got[k] ELSE <<>>
ReadSoFar == FlattenSeq([k \in Reads |-> Got(k)])
ReadBeforeError ==
  FlattenSeq([k \in Reads |-> IF NoErrorTo(k) THEN Got(k) ELSE <<>>])
ToldOfEnd ==
  \E k \in Reads : v.st["A"].answer[k] = "done" /\ NoErrorTo(k)
HadReader == v.st["A"].closed[Rd] # "none"

(* No part of the body reaches two consumers, clones apart.                *)
NoPartTwice ==
  LET ok(x) == {c \in Texts : v.text[c].at = "ok" /\ v.text[c].on = x}
      parts == Range(ReadSoFar) \ {Rest}
  IN  /\ \A x \in Responses : \A c, d \in ok(x) : c = d
      /\ \A x \in Responses : \A c \in ok(x) :
           Range(v.text[c].data) \cap parts = {}
      /\ Range(v.branch) \cap parts = {}

(* A consumer that is told that it has the body has all of it, in order:   *)
(* text() of the response or of its clone, and a reader whose read says    *)
(* done; and text() fails only if the body is broken, was taken by another *)
(* call, or is being read.  The exceptions are the six ways the code has   *)
(* to lose a part, each noted where it happens: a stream of the getter     *)
(* that was never read has taken a chunk when text() or clone() takes the  *)
(* rest, or competes with clone()'s stream ("partial"); two reads at once  *)
(* ("rivals"); a frame that decodes to nothing ("hollow"); an error that   *)
(* drain_ready() or unwrap_or_default() drops ("error lost"); a getter     *)
(* called before text() is polled ("looked at"); and a reader got after    *)
(* text() was called, which mark_consumed() does not keep out ("not        *)
(* locked").                                                               *)
WholeBody ==
  /\ TypeOK
  /\ NoPartTwice
  /\ v.quirks = {} =>
       /\ \A c \in Texts : v.text[c].at = "ok" => v.text[c].data = Whole
       /\ IsPrefix(ReadBeforeError, Whole)
       /\ ToldOfEnd /\ ~v.cancelled => ReadSoFar = Whole
       /\ \A c \in Texts : v.text[c].at = "failed" =>
            \/ Broken \/ HadReader
            \/ \E d \in Texts \ {c} : /\ v.text[d].on = v.text[c].on
                                      /\ v.text[d].at # "called"

CanMove ==
  \/ v.spawned # <<>> \/ v.arrived <= LastFrame(v) \/ TeeHasNews
  \/ \E z \in Streams : v.st[z].phase = "starting" \/ v.task[z] = "resolved"
  \/ \E z \in Streams : v.task[z] = "reading" /\ Ready(v)
  \/ \E k \in Reads : TeeCanRead(k) \/ (v.native[k] = "reading" /\ Ready(v))
  \/ \E c \in Texts : v.text[c].at = "collecting"
  \/ \E c \in Texts : v.text[c].at = "draining" /\ v.branch_end # "open"

(* Every read() and every text() is answered: once the server has sent all *)
(* and no future or reaction is left to run, none of them is open, if the  *)
(* body was left to one stream.                                            *)
NothingStuck ==
  v.quirks = {} /\ ~CanMove =>
    /\ \A k \in Reads : v.st["A"].answer[k] # "pending"
    /\ \A c \in Texts : v.text[c].at \in {"none", "ok", "failed"}

(* The stream of a body is closed only once the end of the body was seen:  *)
(* "Returns Ok(Some(bytes)) for data, Ok(None) for EOF." (read_body_chunk).*)
(* It does not hold; no run checks it (README).                            *)
EndsAtEof ==
  v.st["A"].state = "closed" /\ ~v.cancelled => v.end_seen

=============================================================================
