---------------------------- MODULE ResponseBody ----------------------------
(***************************************************************************)
(* The body of a Response that the program makes (llrt_fetch/src/          *)
(* response.rs): new Response(), Response.json(), error() and redirect(),  *)
(* and what fetch() makes of bytes it has verified; body, bodyUsed, text() *)
(* and its relatives, textStream() and clone().  The body of a Response    *)
(* that arrives is in FetchBody.                                           *)
(*                                                                         *)
(* A stream is what its users see of it: who has its reader (the program   *)
(* or the code), whether it is disturbed, whether its first part was read, *)
(* and whether it is a byte stream.  A future is first polled after the    *)
(* call that spawned it, in the order of the spawns.                       *)
(***************************************************************************)
EXTENDS Integers, Sequences, FiniteSets

CONSTANTS
  MaxResponses,  \* bound: Response objects
  MaxStreams,    \* bound: streams that are made
  MaxCalls       \* bound: calls of text(), formData(), textStream()

VARIABLE p     \* the responses, their streams, the calls and their futures

Responses == 1 .. MaxResponses
Calls == 1 .. MaxCalls
Becomes(g) == Len(g.st) <= MaxStreams /\ p' = g

(* BodyVariant: Empty, Provided(None), or Provided(Some) of a value or of  *)
(* a stream.                                                               *)
Empty == <<"empty">>
Used == <<"used">>
Value == <<"value">>
Stream(s) == <<"stream", s>>
IsStream(b) == b[1] = "stream"

(* shared (history): another Response was made with the stream of this one.*)
NoResponse == [made |-> FALSE, status |-> 200, type |-> "none", body |-> Empty,
               cached |-> {}, consumed |-> FALSE, shared |-> FALSE]
NewStream(bytes) == [reader |-> "none", disturbed |-> FALSE, part |-> FALSE,
                     bytes |-> bytes]
NoCall == [kind |-> "text", of |-> 0, at |-> "none", had |-> Empty]

Init == p = [res |-> [r \in Responses |-> NoResponse], st |-> <<>>,
             call |-> [c \in Calls |-> NoCall], spawned |-> <<>>,
             read |-> FALSE,      \* history: the program has had a reader
             quirks |-> {}]

Made(g) == {r \in Responses : g.res[r].made}
IsNew(r) == ~p.res[r].made /\ \A i \in 1 .. r - 1 : p.res[i].made
New(g, stream) == [g EXCEPT !.st = Append(@, stream)]
Newest(g) == Len(g.st)
Locked(g, s) == g.st[s].reader # "none"
Unusable(g, s) == Locked(g, s) \/ g.st[s].disturbed
Quirk(g, x) == [g EXCEPT !.quirks = @ \cup {x}]
Pending(g, r) == {c \in Calls : g.call[c].of = r /\ g.call[c].at \in {"starting", "called"}}

----------------------------------------------------------------------------
StatusCode(n) == n \in 200 .. 599
IsNullBody(n) == n \in {101, 103, 204, 205, 304}

NullBodyRefuses(status, body) == body # "absent" /\ IsNullBody(status)

(* The Content-Type that a body brings; a header of the program's wins.    *)
TypeOf(body, header) ==
  IF header # "absent" THEN header
  ELSE CASE body = "form" -> "form" [] body = "text" -> "text" [] OTHER -> "none"

BodyOf(g, r) ==
  IF g.res[r].cached # {} THEN g.res[r].cached
  ELSE IF IsStream(g.res[r].body) THEN {g.res[r].body[2]} ELSE {}

(* new Response(body, {status, headers}) with a value or nothing           *)
Construct(r, body, status, header) ==
  /\ IsNew(r)
  /\ StatusCode(status) /\ ~NullBodyRefuses(status, body)
  /\ Becomes([p EXCEPT !.res[r] =
       [NoResponse EXCEPT !.made = TRUE, !.status = status,
                          !.type = TypeOf(body, header),
                          !.body = IF body = "absent" THEN Empty ELSE Value]])

(* ... and with a stream: one of the program's, or the body of another     *)
(* Response (s is then among its streams).  The stream is cached.          *)
ConstructStream(r, s, status, header) ==
  /\ IsNew(r)
  /\ StatusCode(status) /\ ~NullBodyRefuses(status, "stream")
  /\ LET g == IF s = Newest(p) + 1 THEN New(p, NewStream(FALSE)) ELSE p
         others == {i \in Made(p) : s \in BodyOf(p, i)}
     IN  /\ s \in 1 .. Newest(g) /\ ~Unusable(g, s)
         /\ Becomes([g EXCEPT !.res = [i \in Responses |->
              IF i = r THEN [NoResponse EXCEPT
                               !.made = TRUE, !.status = status,
                               !.type = TypeOf("stream", header),
                               !.body = Stream(s), !.cached = {s},
                               !.shared = others # {}]
              ELSE [g.res[i] EXCEPT !.shared = @ \/ i \in others]]])

(* Response.json(): no status without a body, and bytes.                   *)
JsonStatic(r, status, header) ==
  /\ IsNew(r)
  /\ StatusCode(status) /\ ~IsNullBody(status)
  /\ Becomes([p EXCEPT !.res[r] =
       [NoResponse EXCEPT !.made = TRUE, !.status = status, !.body = Value,
                          !.type = IF header = "absent" THEN "json" ELSE header]])

Error(r) ==
  /\ IsNew(r)
  /\ Becomes([p EXCEPT !.res[r] = [NoResponse EXCEPT !.made = TRUE, !.status = 0]])

Redirect(r, status) ==
  /\ IsNew(r)
  /\ status \in {301, 302, 303, 307, 308}
  /\ Becomes([p EXCEPT !.res[r] = [NoResponse EXCEPT !.made = TRUE, !.status = status]])

(* fetch() with integrity: what it has read and verified becomes the body. *)
FromVerifiedBytes(r, status, head) ==
  /\ IsNew(r)
  /\ Becomes([p EXCEPT !.res[r] =
       [NoResponse EXCEPT !.made = TRUE, !.status = status,
          !.body = IF IsNullBody(status) \/ head THEN Empty ELSE Value]])

----------------------------------------------------------------------------
BodyUsed(g, r) ==
  \/ g.res[r].consumed
  \/ \E s \in g.res[r].cached : g.st[s].disturbed
  \/ g.res[r].body = Used

(* create_disturbed_stream()                                               *)
Disturbed(g, r) ==
  LET h == New(g, [NewStream(FALSE) EXCEPT !.reader = "code", !.disturbed = TRUE])
      u == [h EXCEPT !.res[r].cached = {Newest(h)}]
  IN  IF Pending(g, r) # {} THEN Quirk(u, "looked at") ELSE u

(* body: a stream that is the body itself is not cached.                   *)
Body(g, r) ==
  LET k == g.res[r]
      h == New(g, NewStream(TRUE))
  IN  CASE k.consumed /\ \E s \in k.cached : Unusable(g, s) -> g
        [] k.consumed /\ \A s \in k.cached : ~Unusable(g, s) -> Disturbed(g, r)
        [] ~k.consumed /\ k.cached = {} /\ k.body = Used -> Disturbed(g, r)
        [] ~k.consumed /\ k.cached = {} /\ k.body = Value ->
             [h EXCEPT !.res[r].cached = {Newest(h)}]
        [] OTHER -> g

BodyGetter(r) == r \in Made(p) /\ Becomes(Body(p, r))

(* A textStream() that has not been pulled knows of no other call.         *)
Rivals(g, s, c) ==
  \E d \in Calls \ {c} : /\ g.call[d].kind = "textStream"
                         /\ g.call[d].at \in {"starting", "called"}
                         /\ g.call[d].had = Stream(s)

(* bodyUsed does not see what happens to a stream that is not cached.      *)
Noted(g, s, c) ==
  LET blind == \E i \in Made(g) : s \in BodyOf(g, i) \ g.res[i].cached
      h == IF blind THEN Quirk(g, "not seen") ELSE g
  IN  IF Rivals(g, s, c) THEN Quirk(h, "rivals") ELSE h

(* The program reads the stream that body gave.                            *)
GetReader(r, s) ==
  /\ s \in BodyOf(p, r) /\ ~Locked(p, s)
  /\ Becomes([p EXCEPT !.st[s].reader = "program", !.read = TRUE])

ReadPart(r, s) ==
  /\ s \in BodyOf(p, r) /\ p.st[s].reader = "program" /\ ~p.st[s].disturbed
  /\ Becomes(Noted([p EXCEPT !.st[s].part = TRUE, !.st[s].disturbed = TRUE], s, 0))

ReleaseLock(r, s) ==
  /\ s \in BodyOf(p, r) /\ p.st[s].reader = "program"
  /\ Becomes([p EXCEPT !.st[s].reader = "none"])

----------------------------------------------------------------------------
IsNextCall(c) == p.call[c].at = "none" /\ \A d \in 1 .. c - 1 : p.call[d].at # "none"
Call(kind, r, at) == [kind |-> kind, of |-> r, at |-> at, had |-> p.res[r].body]

(* Planted fault: the body is not marked as used by the call. *)
MarkConsumedFault(g, r) == g

(* mark_consumed(): a null body is never used.                             *)
MarkConsumed(g, r) ==
  IF g.res[r].body = Empty THEN g ELSE [g EXCEPT !.res[r].consumed = TRUE]

(* text(), json(), ... ("text"), and formData(), which wants a type        *)
Text(r, c, kind) ==
  /\ r \in Made(p) /\ IsNextCall(c)
  /\ Becomes(MarkConsumed([p EXCEPT !.call[c] = Call(kind, r, "called"),
                                    !.spawned = Append(@, c)], r))

(* textStream(): a stream that collects the body when it is first pulled,  *)
(* and does not take it.                                                   *)
TextStream(r, c) ==
  /\ r \in Made(p) /\ IsNextCall(c)
  /\ ~p.res[r].consumed /\ \A s \in p.res[r].cached : ~p.st[s].disturbed
  /\ IF p.res[r].body = Empty
       THEN Becomes([p EXCEPT !.call[c] = Call("textStream", r, "ok")])
     ELSE LET g == Body(p, r)
          IN  /\ \A s \in BodyOf(g, r) : ~Unusable(g, s)
              /\ \E s \in BodyOf(g, r) : Becomes(MarkConsumed([g EXCEPT
                   !.call[c] = [Call("textStream", r, "starting") EXCEPT
                                  !.had = Stream(s)]], r))

TextStreamPulls(c) ==
  /\ p.call[c].at = "starting"
  /\ Becomes([p EXCEPT !.call[c].at = "called", !.spawned = Append(@, c)])

(* collect_readable_stream(): through a reader that is never released, or, *)
(* of a stream that has all of it and is closed, from its queue.           *)
Collect(g, c, s, drains) ==
  LET t == g.st[s]
      h == Noted(g, s, c)
  IN  IF Locked(g, s) THEN [g EXCEPT !.call[c].at = "failed"]
      ELSE [h EXCEPT !.call[c].at = IF t.part THEN "rest" ELSE "ok",
                     !.st[s] = [t EXCEPT !.disturbed = TRUE, !.part = TRUE,
                        !.reader = IF drains /\ ~t.disturbed /\ ~t.bytes
                                     THEN "none" ELSE "code"]]

(* The stream made of a value stays as it was when the value is taken.     *)
TakeProvided(g, r, c, drains) ==
  LET h == [g EXCEPT !.res[r].body = Used]
      taken == [h EXCEPT !.call[c].at = "ok"]
  IN  CASE IsStream(g.res[r].body) -> Collect(h, c, g.res[r].body[2], drains)
        [] g.res[r].body = Value /\ g.res[r].cached = {} -> taken
        [] g.res[r].body = Value /\ g.res[r].cached # {} -> Quirk(taken, "not locked")

(* take_bytes(), and what formData() makes of the bytes                    *)
TakeBytes(g, r, c, drains) ==
  LET k == g.res[r]
      u == IF (\E s \in k.cached : Unusable(g, s)) \/ k.body = Used
             THEN [g EXCEPT !.call[c].at = "failed"]
           ELSE IF k.body = Empty THEN [g EXCEPT !.call[c].at = "ok"]
           ELSE TakeProvided(g, r, c, drains)
  IN  IF g.call[c].kind = "formData" /\ k.type # "form"
        THEN [u EXCEPT !.call[c].at = "failed"] ELSE u

Poll(c, drains) ==
  /\ p.spawned # <<>> /\ Head(p.spawned) = c
  /\ LET g == [p EXCEPT !.spawned = Tail(@)]
     IN  Becomes(IF p.call[c].kind = "textStream"
                   THEN Collect(g, c, p.call[c].had[2], drains)
                 ELSE TakeBytes(g, p.call[c].of, c, drains))

(* clone() looks at the body and not at whether it is consumed: a value is *)
(* shared, a stream teed, which takes one that is usable.                  *)
Clone(r, i) ==
  /\ IsNew(r) /\ i \in Made(p)
  /\ p.res[i].body # Used
  /\ LET b == p.res[i].body
         copy == [p.res[i] EXCEPT !.cached = {}, !.consumed = FALSE]
         u == IF p.res[i].consumed THEN Quirk(p, "cloned in use") ELSE p
     IN  IF ~IsStream(b) THEN Becomes([u EXCEPT !.res[r] = copy])
         ELSE /\ ~Unusable(p, b[2])
              /\ LET branch == NewStream(p.st[b[2]].bytes)
                     h == New(New(u, branch), branch)
                 IN  Becomes([h EXCEPT
                       !.st[b[2]].reader = "code",
                       !.res[i] = [@ EXCEPT !.body = Stream(Newest(h) - 1),
                                            !.cached = {}],
                       !.res[r] = [copy EXCEPT !.body = Stream(Newest(h))]])

----------------------------------------------------------------------------
Statuses == {199, 200, 204}
Types == {"absent", "form"}

Makes(r) ==
  \/ \E status \in Statuses, header \in Types :
       \/ \E body \in {"absent", "text", "form"} : Construct(r, body, status, header)
       \/ \E s \in 1 .. MaxStreams : ConstructStream(r, s, status, header)
       \/ JsonStatic(r, status, header)
  \/ Error(r)
  \/ \E status \in {200, 302} : Redirect(r, status)
  \/ \E status \in {200, 204}, head \in BOOLEAN : FromVerifiedBytes(r, status, head)
  \/ \E i \in Responses : Clone(r, i)

(* Bounds: no further call once a body has gone astray, and formData() is  *)
(* the first of the calls.                                                 *)
Calm == p.quirks = {}

Next ==
  \/ \E r \in Responses : Calm /\ (Makes(r) \/ BodyGetter(r))
  \/ \E r \in Responses, s \in 1 .. MaxStreams :
       Calm /\ (GetReader(r, s) \/ ReadPart(r, s) \/ ReleaseLock(r, s))
  \/ \E r \in Responses, c \in Calls :
       Calm /\ ( \/ Text(r, c, "text")
                 \/ c = 1 /\ Text(r, c, "formData")
                 \/ TextStream(r, c) )
  \/ \E c \in Calls : TextStreamPulls(c) \/ \E drains \in BOOLEAN : Poll(c, drains)

Spec == Init /\ [][Next]_p

----------------------------------------------------------------------------
TypeOK ==
  /\ \A r \in Responses :
       /\ p.res[r].status \in {0, 200, 204, 302}
       /\ p.res[r].type \in {"none", "text", "form", "json"}
       /\ p.res[r].body \in {Empty, Used, Value} \cup {Stream(s) : s \in 1 .. Newest(p)}
       /\ p.res[r].cached \subseteq 1 .. Newest(p)
  /\ \A c \in Calls :
       p.call[c].at \in {"none", "starting", "called", "ok", "rest", "failed"}
  /\ p.quirks \subseteq {"looked at", "not seen", "not locked", "rivals",
                         "cloned in use"}

Delivered(c) == p.call[c].at \in {"ok", "rest"} /\ p.call[c].had # Empty

(* However Responses are made, of one another's streams too: one whose     *)
(* status allows no body, an error and a redirect have none; a body is     *)
(* given to one call, as a whole, and bodyUsed says so from the call on;   *)
(* and a call fails only for a reason: another call, a reader, a stream    *)
(* that two Responses have, or a type that is not a form's.  The           *)
(* exceptions are noted where they happen: the getter called before a      *)
(* future is polled ("looked at"); a branch of a tee that was read, which  *)
(* is not cached ("not seen"); a stream made of a value, which still gives *)
(* it when text() has taken it ("not locked"); textStream(), which does    *)
(* not take the body, and then text() or a reader ("rivals"); and clone()  *)
(* of a body that is being read ("cloned in use").                         *)
ResponseTakenOnce ==
  /\ TypeOK
  /\ \A r \in Made(p) : IsNullBody(p.res[r].status) => p.res[r].body = Empty
  /\ \A c \in Calls : p.call[c].at # "none" /\ p.call[c].had # Empty =>
       BodyUsed(p, p.call[c].of)
  /\ p.quirks = {} =>
       /\ \A c, d \in Calls : Delivered(c) /\ Delivered(d) /\ c # d =>
            p.call[c].of # p.call[d].of
       /\ \A c \in Calls : p.call[c].at # "rest"
       /\ \A c \in Calls : p.call[c].at = "failed" =>
            \/ p.call[c].kind = "formData" /\ p.res[p.call[c].of].type # "form"
            \/ p.read \/ p.res[p.call[c].of].shared
            \/ \E d \in Calls \ {c} : p.call[d].of = p.call[c].of
       /\ \A r \in Made(p) : \A s \in BodyOf(p, r) : p.st[s].part => BodyUsed(p, r)
=============================================================================
