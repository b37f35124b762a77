----------------------------- MODULE MCContent -----------------------------
(***************************************************************************)
(* What carries content: the body of a fetched Response, the bodies of     *)
(* Requests and of Responses that a program makes, Headers, and byte       *)
(* streams with their buffers.  The first state says which one runs; the   *)
(* others stay as they are.                                                *)
(***************************************************************************)
EXTENDS Naturals

VARIABLES
  part,      \* the component that runs
  v,         \* FetchBody
  q,         \* RequestBody
  p,         \* ResponseBody
  h,         \* Headers
  s, auto    \* ReadableByteStream

Body == INSTANCE FetchBody WITH
  MaxReads <- 3, MaxTexts <- 1, MaxFrames <- 2, MaxDecoded <- 1,
  Rd <- "r", NoReader <- "none"

Request == INSTANCE RequestBody WITH
  Requests <- {"r1", "r2"}, MaxStreams <- 5, MaxTexts <- 2

Response == INSTANCE ResponseBody WITH
  MaxResponses <- 2, MaxStreams <- 4, MaxCalls <- 2

Header == INSTANCE Headers WITH MaxPieces <- 3

Bytes == INSTANCE ReadableByteStream WITH
  MaxReads <- 3, MaxBytes <- 3, Readers <- {"r1", "r2"}, NoReader <- "none",
  Views <- {[len |-> 1, elem |-> 1, min |-> 1], [len |-> 4, elem |-> 2, min |-> 2],
            [len |-> 3, elem |-> 1, min |-> 2]},
  AutoSizes <- {0, 2}, HWM <- 0

all == <<part, v, q, p, h, s, auto>>

MCInit ==
  /\ part \in {"body", "request", "response", "headers", "bytes"}
  /\ IF part = "body" THEN Body!Init ELSE v = 0
  /\ IF part = "request" THEN Request!Init ELSE q = 0
  /\ IF part = "response" THEN Response!Init ELSE p = 0
  /\ IF part = "headers" THEN Header!Init ELSE h = 0
  /\ IF part = "bytes" THEN Bytes!Init ELSE s = 0 /\ auto = 0

MCNext ==
  \/ part = "body" /\ Body!Next /\ UNCHANGED <<part, q, p, h, s, auto>>
  \/ part = "request" /\ Request!Next
     /\ UNCHANGED <<part, v, p, h, s, auto>>
  \/ part = "response" /\ Response!Next
     /\ UNCHANGED <<part, v, q, h, s, auto>>
  \/ part = "headers" /\ Header!Next /\ UNCHANGED <<part, v, q, p, s, auto>>
  \/ part = "bytes" /\ Bytes!Next /\ UNCHANGED <<part, v, q, p, h>>

MCSpec == MCInit /\ [][MCNext]_all

----------------------------------------------------------------------------
(* Properties *)

(* Who is told that they have the body of a Response, by text(), by a      *)
(* clone or by a reader, has all of it and in order, and every read() and  *)
(* text() is answered, but for the ways to lose a part that FetchBody      *)
(* notes.                                                                  *)
WholeBody == part = "body" => Body!WholeBody /\ Body!NothingStuck

(* However Requests are made of one another, a body is taken once and as a *)
(* whole, and bodyUsed says so.                                            *)
BodyTakenOnce == part = "request" => Request!BodyTakenOnce

(* Among the Responses a program makes, one of the calls that take a body  *)
(* has it, and bodyUsed says so, but for the ways around it that           *)
(* ResponseBody notes.                                                     *)
ResponseTakenOnce == part = "response" => Response!ResponseTakenOnce

(* Headers stand for a map from names to joined values, their guards hold, *)
(* and an iteration that is not disturbed gives every entry once.          *)
HeadersAreAMap == part = "headers" => Header!HeadersAreAMap

(* No byte is lost, doubled or reordered between the source of a byte      *)
(* stream and its reads, and a BYOB read gets whole elements, at least as  *)
(* many as it asked for; the buffers that wait belong to the reads that    *)
(* wait, in their order, and a BYOB request shows the unfilled part of the *)
(* first of them.                                                          *)
BytesInOrder ==
  part = "bytes" => Bytes!BytesInOrder /\ Bytes!WholeElements /\ Bytes!BuffersMatchReads
=============================================================================
