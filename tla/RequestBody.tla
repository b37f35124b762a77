---------------------------- MODULE RequestBody ----------------------------
(***************************************************************************)
(* The body of a Request (llrt_fetch/src/request.rs): made with a Request, *)
(* handed over by new Request(request), teed by clone(), taken at once by  *)
(* text() and fetch(), looked at with body and bodyUsed, and read through  *)
(* the stream that body gives.                                             *)
(*                                                                         *)
(* A stream is what its users see of it: who has its reader (the program   *)
(* or the code), whether it is disturbed, and whether its first part was   *)
(* read.  Branches of a tee are streams of their own.                      *)
(***************************************************************************)
EXTENDS Integers, Sequences, FiniteSets

CONSTANTS
  Requests,    \* the Request objects
  MaxStreams,  \* bound: streams that are made
  MaxTexts     \* bound: calls of text() and its like

VARIABLE q     \* the requests, their streams and the calls

Texts == 1 .. MaxTexts
Becomes(g) == Len(g.st) <= MaxStreams /\ q' = g

(* body: Empty, Provided(None), a value, or a stream.                      *)
Empty == <<"empty">>
Used == <<"used">>
Value == <<"value">>
Stream(s) == <<"stream", s>>
IsStream(b) == b[1] = "stream"

NoRequest == [made |-> FALSE, method |-> "GET", body |-> Empty, cached |-> {},
              cause |-> FALSE]   \* history: text() has a reason to fail
NewStream == [reader |-> "none", disturbed |-> FALSE, part |-> FALSE]
NoText == [at |-> "none", of |-> "none", body |-> Empty]

Init == q = [req |-> [r \in Requests |-> NoRequest], st |-> <<>>,
             text |-> [c \in Texts |-> NoText], quirks |-> {}]

Made(g) == {r \in Requests : g.req[r].made}
New(g) == [g EXCEPT !.st = Append(@, NewStream)]
Newest(g) == Len(g.st)
Locked(g, s) == g.st[s].reader # "none"
Unusable(g, s) == Locked(g, s) \/ g.st[s].disturbed
Quirk(g, x) == [g EXCEPT !.quirks = @ \cup {x}]

(* tee(): the two newest streams have what the stream had.                 *)
Tee(g, s) ==
  [g EXCEPT !.st = [@ EXCEPT ![s].reader = "code"] \o <<NewStream, NewStream>>]

----------------------------------------------------------------------------
(* new Request(url, init) and new Request({...}, init): the fields of both *)
(* are assigned in turn, each with its own check, and then checked once    *)
(* more together.                                                          *)
Given == [method : {"absent", "GET", "POST"}, body : {"absent", "value", "stream"}]

AssignMethod(k, o) == IF o.method = "absent" THEN k.method ELSE o.method
Refused(k, o) == o.body # "absent" /\ AssignMethod(k, o) = "GET"

(* The stream of the caller is new and usable, and it is cached.           *)
AssignRequest(g, r, o) ==
  LET h == IF o.body = "stream" THEN New(g) ELSE g
      k == [h.req[r] EXCEPT !.method = AssignMethod(h.req[r], o)]
  IN  [h EXCEPT !.req[r] =
         CASE o.body = "value" -> [k EXCEPT !.body = Value]
           [] o.body = "stream" -> [k EXCEPT !.body = Stream(Newest(h)),
                                             !.cached = {Newest(h)}]
           [] OTHER -> k]

HasBodyWithGet(g, k, bodies) == k.method = "GET" /\ ~(bodies \subseteq {Empty, Used})

Construct(r, a, o) ==
  /\ ~q.req[r].made
  /\ LET g0 == [q EXCEPT !.req[r].made = TRUE]
         g1 == AssignRequest(g0, r, a)
         g2 == AssignRequest(g1, r, o)
     IN  /\ ~Refused(g0.req[r], a) /\ ~Refused(g1.req[r], o)
         /\ ~HasBodyWithGet(g2, g2.req[r], {g2.req[r].body})
         /\ Becomes(g2)

----------------------------------------------------------------------------
(* body and bodyUsed                                                       *)
BodyUsed(g, r) ==
  \/ \E s \in g.req[r].cached : g.st[s].disturbed
  \/ g.req[r].body = Used

(* A stream is made of a value; one that is the body itself is not cached. *)
Body(g, r) ==
  IF g.req[r].cached = {} /\ g.req[r].body = Value
    THEN LET h == New(g) IN [h EXCEPT !.req[r].cached = {Newest(h)}]
  ELSE g
BodyOf(g, r) ==
  IF g.req[r].cached # {} THEN g.req[r].cached
  ELSE IF IsStream(g.req[r].body) THEN {g.req[r].body[2]} ELSE {}

BodyGetter(r) == r \in Made(q) /\ Becomes(Body(q, r))

(* A user reads the stream that body gives.                                *)
GetReader(r, s) ==
  /\ s \in BodyOf(q, r) /\ ~Locked(q, s)
  /\ Becomes([q EXCEPT !.st[s].reader = "program", !.req[r].cause = TRUE])

ReadPart(r, s) ==
  /\ s \in BodyOf(q, r) /\ q.st[s].reader = "program" /\ ~q.st[s].part
  /\ LET g == [q EXCEPT !.st[s].part = TRUE, !.st[s].disturbed = TRUE]
         late == \E c \in Texts : q.text[c].at = "collecting" /\ q.text[c].of = r
     IN  Becomes(IF late THEN Quirk(g, "overtaken")
                 ELSE IF s \notin q.req[r].cached THEN Quirk(g, "not seen") ELSE g)

ReleaseLock(r, s) ==
  /\ s \in BodyOf(q, r) /\ q.st[s].reader = "program"
  /\ Becomes([q EXCEPT !.st[s].reader = "none"])

----------------------------------------------------------------------------
(* take_body_sync()                                                        *)
Takes(g, r) ==
  /\ \A s \in g.req[r].cached : ~Unusable(g, s)
  /\ g.req[r].body # Used

(* Planted fault: the body is read and left where it is. *)
TakeBodySyncFault(g, r) == g

TakeBodySync(g, r) ==
  IF g.req[r].body = Empty THEN g ELSE [g EXCEPT !.req[r].body = Used]

(* text(), json(), ... and fetch(): the body is taken in the call, and a   *)
(* stream is collected by a future.                                        *)
Text(r, c) ==
  /\ r \in Made(q)
  /\ q.text[c].at = "none" /\ \A d \in 1 .. c - 1 : q.text[d].at # "none"
  /\ LET t == [at |-> IF ~Takes(q, r) THEN "failed"
                      ELSE IF IsStream(q.req[r].body) THEN "collecting" ELSE "ok",
               of |-> r, body |-> q.req[r].body]
         g == [q EXCEPT !.text[c] = t]
     IN  Becomes(IF Takes(q, r) THEN TakeBodySync(g, r) ELSE g)

(* It reads to the end through a reader that is never released or, if the  *)
(* stream has all of it and is closed, drains its queue.                   *)
CollectReadableStream(c, drains) ==
  /\ q.text[c].at = "collecting"
  /\ LET s == q.text[c].body[2]
         t == q.st[s]
     IN  Becomes(IF Locked(q, s) THEN [q EXCEPT !.text[c].at = "failed"]
                 ELSE [q EXCEPT !.text[c].at = IF t.part THEN "rest" ELSE "ok",
                                !.st[s] = [disturbed |-> TRUE, part |-> TRUE,
                                  reader |-> IF drains /\ ~t.disturbed
                                               THEN "none" ELSE "code"]])

----------------------------------------------------------------------------
(* new Request(input, init): the input's body goes to the new request as a *)
(* branch of a tee, and the input is used, also if it had no body or init  *)
(* brings another one.                                                     *)
IsUnusableBody(g, r) ==
  BodyUsed(g, r) \/ \E s \in g.req[r].cached : Locked(g, s)

HandOver(g, r, i, overrides) ==
  LET seen == Body(g, i)
      usable == {s \in BodyOf(seen, i) : ~Unusable(seen, s)}
      teed == Tee(seen, CHOOSE s \in usable : TRUE)
      h == IF usable = {} THEN seen
           ELSE IF overrides THEN teed
           ELSE [teed EXCEPT !.req[r].body = Stream(Newest(teed))]
      used == [h EXCEPT !.req[i].body = Used, !.req[i].cause = TRUE]
  IN  CASE overrides \/ g.req[i].body = Empty -> Quirk(used, "used for nothing")
        [] ~overrides /\ IsStream(g.req[i].body) /\ usable = {} -> Quirk(used, "lost")
        [] OTHER -> used

ConstructFrom(r, i, o) ==
  /\ ~q.req[r].made /\ i \in Made(q)
  /\ LET overrides == o.body # "absent"
         g0 == [q EXCEPT !.req[r].made = TRUE, !.req[r].method = q.req[i].method]
         g1 == AssignRequest(g0, r, o)
     IN  /\ overrides \/ ~IsUnusableBody(q, i)
         /\ ~Refused(g0.req[r], o)
         /\ ~HasBodyWithGet(g1, g1.req[r], {g1.req[r].body} \cup
                              (IF overrides THEN {} ELSE {q.req[i].body}))
         /\ Becomes(HandOver(g1, r, i, overrides))

(* clone(): a value is shared, a stream is teed.                           *)
Clone(r, i) ==
  /\ ~q.req[r].made /\ i \in Made(q)
  /\ q.req[i].body # Used
  /\ LET b == q.req[i].body
         copy == [q.req[i] EXCEPT !.cached = {}, !.cause = FALSE]
     IN  IF ~IsStream(b) THEN Becomes([q EXCEPT !.req[r] = copy])
         ELSE /\ ~Unusable(q, b[2])
              /\ LET g == Tee(q, b[2])
                 IN  Becomes([g EXCEPT
                       !.req[i] = [@ EXCEPT !.body = Stream(Newest(g) - 1),
                                            !.cached = {}],
                       !.req[r] = [copy EXCEPT !.body = Stream(Newest(g))]])

----------------------------------------------------------------------------
Next ==
  \/ \E r \in Requests, a, o \in Given : Construct(r, a, o)
  \/ \E r, i \in Requests, o \in Given : ConstructFrom(r, i, o)
  \/ \E r, i \in Requests : Clone(r, i)
  \/ \E r \in Requests : BodyGetter(r)
  \/ \E r \in Requests, s \in 1 .. MaxStreams :
       GetReader(r, s) \/ ReadPart(r, s) \/ ReleaseLock(r, s)
  \/ \E r \in Requests, c \in Texts : Text(r, c)
  \/ \E c \in Texts, drains \in BOOLEAN : CollectReadableStream(c, drains)

Spec == Init /\ [][Next]_q

----------------------------------------------------------------------------
TypeOK ==
  /\ \A r \in Requests :
       /\ q.req[r].method \in {"GET", "POST"}
       /\ q.req[r].body \in {Empty, Used, Value} \cup {Stream(s) : s \in 1 .. Len(q.st)}
       /\ q.req[r].cached \subseteq 1 .. Len(q.st)
  /\ \A c \in Texts : q.text[c].at \in {"none", "failed", "collecting", "ok", "rest"}
  /\ q.quirks \subseteq {"not seen", "used for nothing", "lost",
                         "overtaken"}

(* Whatever Requests are made of one another: a GET has no body            *)
(* (the checks of new Request); a body is taken once (take_body_sync), as  *)
(* a whole, and then bodyUsed says so; text() fails only if the body was   *)
(* taken before, handed over or locked by a reader.  The exceptions are    *)
(* noted where they happen: clone() leaves a stream that is not cached, so *)
(* that neither bodyUsed nor text() sees that it was read ("not seen"),    *)
(* and new Request(input) then loses it ("lost").  And a reader may take a *)
(* part between text() and the future that collects ("overtaken").         *)
BodyTakenOnce ==
  /\ TypeOK
  /\ \A r \in Made(q) : q.req[r].method = "GET" => q.req[r].body \in {Empty, Used}
  /\ \A c, d \in Texts :
       /\ q.text[c].at \in {"ok", "rest", "collecting"}
       /\ q.text[c].body # Empty
       => /\ c < d /\ q.text[d].of = q.text[c].of => q.text[d].at \in {"none", "failed"}
          /\ BodyUsed(q, q.text[c].of)
  /\ q.quirks \subseteq {"used for nothing"} =>
       \A c \in Texts :
         /\ q.text[c].at # "rest"
         /\ q.text[c].at = "failed" =>
              \/ q.req[q.text[c].of].cause
              \/ \E d \in 1 .. c - 1 : q.text[d].of = q.text[c].of
       /\ \A r \in Made(q) : \A s \in BodyOf(q, r) : q.st[s].part => BodyUsed(q, r)

=============================================================================
