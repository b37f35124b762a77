------------------------------- MODULE Fetch -------------------------------
(***************************************************************************)
(* fetch() of llrt_fetch/src/fetch.rs: the options of the call and of the  *)
(* Request it is given, the permits that bound the calls under way, the    *)
(* redirects of send(), its retry after 421, the race of the signal with   *)
(* the response in dispatch(), the connections hyper keeps for the next    *)
(* call and poisons, the upload of a stream by send_stream(), and the      *)
(* check of the integrity metadata.                                        *)
(*                                                                         *)
(* The server, hyper and its pool of connections are external.  Statuses   *)
(* are classes: "empty" is 204, "reset" 205, "notmod" 304, "moved" 301 or  *)
(* 302, "see" 303, "keep" 307 or 308, "misdirected" 421; a payload is what *)
(* the headers announce of one.                                            *)
(***************************************************************************)
EXTENDS Integers, Sequences, FiniteSets

CONSTANTS
  First, Others,  \* the calls: the first has any options, the others few
  Permits,        \* the permits of the semaphore (500 in the code)
  MaxRedirects,   \* MAX_REDIRECT_COUNT (20 in the code)
  MaxChunks,      \* bound: chunks of a stream that is uploaded
  Room            \* the capacity of the upload's channel (128 in the code)

VARIABLE f        \* the calls and what they share

Calls == {First} \cup Others
Origins == {"A", "B"}      \* every call starts at A
Becomes(g) == ~f.exited /\ f' = g

----------------------------------------------------------------------------
(* The options                                                             *)
Args == {a \in [method : {"absent", "GET", "POST"},
                body : {"absent", "bytes", "stream", "locked"},
                half : BOOLEAN, bad : {"none", "priority", "late"}] :
           a.half => a.body \in {"stream", "locked"}}
Resources == {r \in [method : {"absent", "GET", "POST"},
                     body : {"absent", "bytes", "stream", "used"}] :
                r.body # "absent" => r.method = "POST"}
NoOptions == [ok |-> FALSE, method |-> "GET", body |-> "absent"]

(* The body of a Request is taken before the options that may still fail.  *)
GetFetchOptions(a, r) ==
  LET method == IF a.method # "absent" THEN a.method ELSE r.method
      takes == a.body = "absent" /\ r.body # "absent"
      body == IF a.body # "absent" THEN a.body ELSE r.body
      ok == /\ a.bad = "none"
            /\ body # "used"
            /\ ~takes /\ body # "absent" => method # "GET"
            /\ ~takes /\ body \in {"stream", "locked"} => a.half
  IN  [took |-> takes /\ body # "used" /\ a.bad # "priority",
       opts |-> IF ok THEN [ok |-> TRUE, body |-> body,
                            method |-> IF method = "absent" THEN "GET" ELSE method]
                ELSE NoOptions]

----------------------------------------------------------------------------
NoReply == [status |-> "none", loc |-> "none", payload |-> FALSE]
NoRequest == [to |-> "A", method |-> "GET", body |-> FALSE, ctype |-> FALSE,
              auth |-> FALSE, zero |-> FALSE]
NoCall == [at |-> "none", opts |-> NoOptions, redirect |-> "follow",
           signal |-> FALSE, integrity |-> FALSE, conditional |-> FALSE,
           to |-> "A", prev |-> "none", hops |-> 0, req |-> NoRequest,
           requests |-> 0, conn |-> "none", reply |-> NoReply,
           result |-> "none", stolen |-> FALSE, took |-> FALSE]
NoUpload == [task |-> "none", channel |-> <<>>, open |-> FALSE, read |-> 0,
             source |-> "open", error |-> FALSE, got |-> <<>>, ended |-> FALSE]

Init ==
  f = [call |-> [c \in Calls |-> NoCall], up |-> [c \in Calls |-> NoUpload],
       waiting |-> <<>>, aborted |-> {}, exited |-> FALSE,
       pool |-> [o \in Origins |-> {}]]

Holds(g, c) == g.call[c].at \notin {"none", "permit", "settled"}
Free(g) == Permits - Cardinality({c \in Calls : Holds(g, c)})

(* The call settles and its permit goes to the first that waits.  What it  *)
(* was called with, but for its body, is forgotten with it.                *)
Settled(g, c, result) ==
  [g EXCEPT !.call[c] = [@ EXCEPT !.at = "settled", !.result = result,
                          !.req = NoRequest, !.conn = "none", !.prev = "none",
                          !.signal = FALSE, !.integrity = FALSE,
                          !.conditional = FALSE, !.took = FALSE]]

(* Bounds: what the code does not look at together is not varied together. *)
Choices ==
  {x \in [got : {GetFetchOptions(a, r) : a \in Args, r \in Resources},
          redirect : {"follow", "manual", "error"},
          signal : BOOLEAN, integrity : BOOLEAN, conditional : BOOLEAN] :
     /\ x.integrity \/ x.conditional => x.got.opts.body = "absent"
     /\ x.redirect # "follow" => /\ ~x.integrity /\ ~x.conditional
                                /\ x.got.opts.body \notin {"stream", "locked"}
     /\ ~(x.integrity /\ x.conditional)}
Plain == {x \in Choices : /\ x.got.opts = [ok |-> TRUE, method |-> "GET", body |-> "absent"]
                         /\ x.redirect = "follow" /\ ~x.got.took
                         /\ ~x.integrity /\ ~x.conditional /\ ~x.signal}

Fetch(c) ==
  /\ f.call[c].at = "none"
  /\ \E x \in IF c = First THEN Choices ELSE Plain :
       Becomes([f EXCEPT !.waiting = Append(@, c),
          !.call[c] = [NoCall EXCEPT !.at = "permit", !.opts = x.got.opts,
             !.took = x.got.took, !.redirect = x.redirect, !.signal = x.signal,
             !.integrity = x.integrity, !.conditional = x.conditional]])

Abort(c) ==
  /\ f.call[c].signal
  /\ c \notin f.aborted
  /\ Becomes([f EXCEPT !.aborted = @ \cup {c}])

----------------------------------------------------------------------------
(* One request                                                             *)
ShouldChangeMethod(prev, method) ==
  \/ prev = "moved" /\ method = "POST"
  \/ prev = "see" /\ method # "GET"

BuildRequest(k) ==
  LET change == ShouldChangeMethod(k.prev, k.opts.method)
      body == k.opts.body = "bytes" /\ ~change
  IN  [to |-> k.to, method |-> IF change THEN "GET" ELSE k.opts.method,
       body |-> body, ctype |-> k.opts.body = "bytes" /\ ~change,
       auth |-> k.to = "A", zero |-> ~body /\ k.opts.method = "POST"]

(* hyper takes a connection of its pool or opens one.                      *)
Request(g, c, at, conn) ==
  LET k == g.call[c]
  IN  [g EXCEPT !.call[c] = [k EXCEPT !.at = at, !.req = BuildRequest(k),
                                      !.requests = @ + 1, !.conn = conn,
                                      !.reply = NoReply],
                !.pool[k.to] = @ \ {conn}]

Conns(g, c) == g.pool[g.call[c].to] \cup {"clean"}

(* The head of the queue gets a permit.  The upload's reader is spawned.   *)
Acquired(c) ==
  /\ f.waiting # <<>> /\ c = Head(f.waiting)
  /\ Free(f) > 0
  /\ LET g == [f EXCEPT !.waiting = Tail(@)]
         k == f.call[c]
     IN  IF ~k.opts.ok THEN Becomes(Settled(g, c, "options"))
         ELSE \/ \E r \in {"refused", "data"} :  \* the scheme, the access lists
                   Becomes(Settled(g, c, r))
              \/ /\ k.opts.body \in {"stream", "locked"}
                 /\ \E conn \in Conns(g, c) :
                      Becomes([Request(g, c, "upload", conn) EXCEPT
                                 !.up[c].task = "spawned", !.up[c].open = TRUE])
              \/ /\ k.opts.body \notin {"stream", "locked"}
                 /\ \E conn \in Conns(g, c) :
                      Becomes(Request(g, c, "dispatch", conn))

Awaited == {"dispatch", "retry", "upload"}

(* The server answers; leftovers of an earlier response come first.        *)
Replies == [status : {"ok", "failed", "misdirected"}, loc : {"none"}, payload : {FALSE}]
           \cup [status : {"empty", "reset", "notmod"}, loc : {"none"}, payload : BOOLEAN]
           \cup [status : {"moved", "see", "keep"}, payload : {FALSE},
                 loc : {"none", "A", "B", "garbled", "denied"}]

(* A bound: the others are not redirected.                                 *)
Answers(c, r) ==
  /\ c \in Others => r.status \in {"ok", "empty", "failed"}
  /\ f.call[c].at \in Awaited /\ f.call[c].reply = NoReply
  /\ Becomes([f EXCEPT !.call[c].reply = r,
                       !.call[c].stolen = f.call[c].conn = "dirty"])

(* hyper reads no body of a 204 or a 304 and has the connection back while *)
(* a payload, which should not be there, is still to come.  That of a 304  *)
(* to a condition is the one of the resource and does not come.            *)
LeavesPayload(k) ==
  \/ k.reply.status = "empty" /\ k.reply.payload
  \/ /\ k.reply.status = "notmod" /\ k.reply.payload
     /\ (k.req.method # "GET" \/ ~k.conditional)

ShouldPoisonConnection(k) ==
  /\ k.reply.payload
  /\ \/ k.reply.status \in {"empty", "reset"}
     \/ k.reply.status = "notmod" /\ (k.req.method # "GET" \/ ~k.conditional)

(* The client of a retry has a pool of its own.                            *)
Returned(g, c) ==
  LET k == g.call[c]
      kind == IF LeavesPayload(k) THEN "dirty" ELSE "clean"
  IN  IF k.at = "retry" \/ ShouldPoisonConnection(k) \/ k.reply.status = "failed"
        THEN g
      ELSE [g EXCEPT !.pool[k.req.to] = @ \cup {kind}]

----------------------------------------------------------------------------
(* send(): what follows a response                                         *)
Response(g, c) ==
  IF g.call[c].integrity THEN [g EXCEPT !.call[c].at = "collect"]
  ELSE Settled(g, c, "response")

Redirection == {"moved", "see", "keep", "notmod"}

(* Planted fault: the redirect past the limit is followed. *)
FollowsFault(g, c) ==
  LET k == g.call[c]
      to == IF k.reply.loc \in Origins THEN k.reply.loc ELSE k.to
  IN  IF k.hops >= MaxRedirects THEN Settled(g, c, "too many")
      ELSE [g EXCEPT !.call[c] = [k EXCEPT !.to = to, !.hops = @ + 1,
                                    !.prev = k.reply.status, !.at = "again"]]

(* A location that is no text leads to the same address again.             *)
Follows(g, c) ==
  LET k == g.call[c]
      to == IF k.reply.loc \in Origins THEN k.reply.loc ELSE k.to
  IN  IF k.hops + 1 >= MaxRedirects THEN Settled(g, c, "too many")
      ELSE [g EXCEPT !.call[c] = [k EXCEPT !.to = to, !.hops = @ + 1,
                                    !.prev = k.reply.status, !.at = "again"]]

Located(g, c) ==
  LET k == g.call[c]
      to == IF k.reply.loc \in Origins THEN k.reply.loc ELSE k.to
  IN  CASE k.reply.loc = "denied" -> Settled(g, c, "refused")
        [] k.reply.loc # "denied" /\ k.redirect = "manual" ->
             Response([g EXCEPT !.call[c].to = to], c)
        [] k.reply.loc # "denied" /\ k.redirect = "error" ->
             Settled(g, c, "redirect")
        [] OTHER -> Follows(g, c)

AfterResponse(g, c) ==
  LET k == g.call[c]
  IN  CASE k.reply.status = "failed" -> Settled(g, c, "Failed to fetch")
        [] k.at = "dispatch" /\ k.reply.status = "misdirected"
                             /\ k.opts.method # "GET" ->
             [g EXCEPT !.call[c].at = "new client"]
        [] k.at = "dispatch" /\ k.reply.status \in Redirection
                             /\ k.reply.loc # "none" -> Located(g, c)
        [] OTHER -> Response(g, c)

(* The response and the signal race; when both are ready either may win.   *)
Dispatched(c) ==
  /\ f.call[c].at \in {"dispatch", "retry"} /\ f.call[c].reply # NoReply
  /\ Becomes(AfterResponse(Returned(f, c), c))

(* Planted fault: the signal is not looked at while a retry is under way. *)
AbortWinsFault(c) ==
  /\ f.call[c].at = "dispatch" /\ c \in f.aborted
  /\ Becomes(Settled(f, c, "aborted"))

AbortWins(c) ==
  /\ f.call[c].at \in {"dispatch", "retry"} /\ c \in f.aborted
  /\ Becomes(Settled(f, c, "aborted"))

(* The next turn of the loop, and the retry on a new client.               *)
SendAgain(c) ==
  /\ f.call[c].at = "again"
  /\ \E conn \in Conns(f, c) : Becomes(Request(f, c, "dispatch", conn))

Retry(c) ==
  /\ f.call[c].at = "new client"
  /\ Becomes(Request(f, c, "retry", "clean"))

(* The whole body, and its hash; the signal is not looked at.              *)
Collected(c, outcome) ==
  /\ f.call[c].at = "collect"
  /\ Becomes(Settled(f, c, outcome))

----------------------------------------------------------------------------
(* send_stream()                                                           *)
SetUp(g, c, u) == [g EXCEPT !.up[c] = u]
Ended(u) == [u EXCEPT !.task = "ended"]

(* A stream that is locked makes the task fail, which ends the process.    *)
ReaderStarts(c) ==
  /\ f.up[c].task = "spawned"
  /\ Becomes(IF f.call[c].opts.body = "locked" THEN [f EXCEPT !.exited = TRUE]
             ELSE [f EXCEPT !.up[c].task = "reading"])

SendChunk(u) ==
  IF ~u.open THEN Ended(u)
  ELSE IF Len(u.channel) < Room
    THEN [u EXCEPT !.channel = Append(@, u.read), !.task = "reading"]
  ELSE [u EXCEPT !.task = "sending"]

(* A read is answered: a chunk, something that is no Uint8Array, the end   *)
(* or an error of the stream.                                              *)
ReadAnswered(c, what) ==
  LET u == f.up[c]
  IN  /\ u.task = "reading"
      /\ what = "chunk" => u.read < MaxChunks
      /\ Becomes(SetUp(f, c,
           CASE what = "chunk" -> SendChunk([u EXCEPT !.read = @ + 1])
             [] what = "done" -> [Ended(u) EXCEPT !.source = "done"]
             [] OTHER -> [Ended(u) EXCEPT !.source = "failed", !.error = TRUE]))

SendGoesOn(c) ==
  /\ f.up[c].task = "sending"
  /\ ~f.up[c].open \/ Len(f.up[c].channel) < Room
  /\ Becomes(SetUp(f, c, SendChunk(f.up[c])))

(* hyper polls the body, and drops it with the request or the connection.  *)
PollFrame(c) ==
  LET u == f.up[c]
  IN  /\ u.open
      /\ u.channel # <<>> \/ u.task = "ended"
      /\ Becomes(SetUp(f, c,
           IF u.channel # <<>>
             THEN [u EXCEPT !.channel = Tail(@), !.got = Append(@, Head(u.channel))]
           ELSE [u EXCEPT !.open = FALSE, !.ended = TRUE]))

ConnectionLost(c) ==
  /\ f.up[c].open /\ f.call[c].reply # NoReply
  /\ Becomes([f EXCEPT !.up[c].open = FALSE])

(* The error of the stream is looked at before the response.               *)
UploadPolled(c) ==
  LET k == f.call[c]
      u == f.up[c]
  IN  /\ k.at = "upload"
      /\ u.error \/ k.reply # NoReply
      /\ Becomes(IF u.error
                   THEN [Settled(f, c, "stream error") EXCEPT !.up[c].open = FALSE]
                 ELSE IF k.reply.status = "failed"
                   THEN [Settled(f, c, "Error") EXCEPT !.up[c].open = FALSE]
                 ELSE Settled(Returned(f, c), c, "response"))

----------------------------------------------------------------------------
Runtime(c) ==
  \/ Acquired(c) \/ Dispatched(c) \/ AbortWins(c) \/ SendAgain(c) \/ Retry(c)
  \/ ReaderStarts(c) \/ SendGoesOn(c) \/ UploadPolled(c)
  \/ PollFrame(c)

External(c) ==
  \/ \E r \in Replies : Answers(c, r)
  \/ \E o \in {"response", "integrity", "Fetch failed"} : Collected(c, o)
  \/ \E x \in {"chunk", "bad", "done", "error"} : ReadAnswered(c, x)
  \/ ConnectionLost(c)

Next == \E c \in Calls :
  Fetch(c) \/ Abort(c) \/ Runtime(c) \/ External(c)

Spec == Init /\ [][Next]_f

(* The futures run; the server, the streams and the users owe nothing.     *)
Owed == \E c \in Calls : Runtime(c)
FairSpec == Spec /\ WF_f(Owed)

----------------------------------------------------------------------------
TypeOK ==
  /\ \A c \in Calls :
       /\ f.call[c].at \in {"none", "permit", "dispatch", "retry", "again",
                            "new client", "collect", "upload", "settled"}
       /\ f.call[c].opts.body # "used" /\ f.call[c].req.method \in {"GET", "POST"}
       /\ f.call[c].prev \in {"none", "moved", "see", "keep"}
       /\ f.up[c].task \in {"none", "spawned", "reading", "sending", "ended"}
       /\ Len(f.up[c].channel) <= Room
  /\ Free(f) \in 0 .. Permits /\ f.aborted \subseteq Calls
  /\ \A o \in Origins : f.pool[o] \subseteq {"clean", "dirty"}

(* Along any chain of redirects (send, build_request): the authorization   *)
(* header goes to the origin of the call only; a content type is never     *)
(* sent without its content, nor the content in a request that a redirect  *)
(* made a GET; "manual" and "error" calls make one request, and no call    *)
(* more than the limit, which it uses up before it gives up; a retry after *)
(* 421 adds one.                                                           *)
RedirectsKeepWithin ==
  /\ TypeOK
  /\ \A c \in Calls :
       LET k == f.call[c]
           retried == IF k.at = "retry" \/ k.reply.status = "misdirected"
                        \/ k.requests > k.hops + 1 THEN 1 ELSE 0
       IN  /\ k.req.auth => k.req.to = "A"
           /\ k.req.ctype => k.req.body
           /\ k.req.body /\ k.req.method = "GET" => k.opts.method = "GET"
           /\ k.redirect # "follow" => k.requests <= 1 + retried
           /\ k.requests <= MaxRedirects + retried
           /\ k.result = "too many" => k.requests = MaxRedirects

(* The response a call gets answers its own request: no connection with    *)
(* the rest of another response goes back to the pool                      *)
(* (poison_malformed_null_body_connection).                                *)
OwnResponse == \A c \in Calls : ~f.call[c].stolen

(* An upload reaches the server in order, and as a whole when the body     *)
(* ends after a stream that closed; a call fails with an error of the      *)
(* stream only if the stream failed (send_stream).                         *)
UploadWhole ==
  \A c \in Calls :
    LET u == f.up[c]
    IN  /\ u.got = [i \in 1 .. Len(u.got) |-> i] /\ Len(u.got) <= u.read
        /\ u.ended /\ u.source = "done" => Len(u.got) = u.read
        /\ f.call[c].result = "stream error" => u.source = "failed"

Heard ==
  \A c \in Calls :
    \/ c \notin f.aborted \/ f.exited
    \/ f.call[c].at \notin {"dispatch", "again", "new client", "retry"}

(* A signal that aborts while a request, its retry or a redirect is under  *)
(* way ends the call though no server answers; only the body that is       *)
(* collected for its integrity, and an upload, go on (dispatch).           *)
AbortIsHeard == []<>Heard

(* "a network/connection failure rejects with exactly `TypeError: Failed   *)
(* to fetch`" (comment of throw_fetch_failed).                             *)
(* It does not hold; no run checks it (README).                            *)
FailsToFetch ==
  \A c \in Calls :
    f.call[c].at = "settled" /\ f.call[c].reply.status = "failed"
      => f.call[c].result \in {"Failed to fetch", "aborted", "stream error"}

=============================================================================
