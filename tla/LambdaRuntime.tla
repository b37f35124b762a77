--------------------------- MODULE LambdaRuntime ---------------------------
(***************************************************************************)
(* The Lambda runtime client.  start_with_cfg imports the handler module,  *)
(* waits on a latch for the SDK connections whose warm-up that import has  *)
(* started, and then runs the event loop of a custom runtime: fetch an     *)
(* invocation, call the handler, post the response or the error.           *)
(*                                                                         *)
(* The client and all JavaScript run on one task ("main").  A warm-up is a *)
(* tokio task and runs on another thread: its steps fall between any two   *)
(* steps of the client.  The Lambda service is the environment: a request  *)
(* to it can fail before it has an effect, after it, or be refused.        *)
(***************************************************************************)
EXTENDS Naturals, Sequences, FiniteSets, Latch

CONSTANTS
  Endpoints,       \* SDK endpoints a program may import a client for
  Iterations,      \* values of RuntimeConfig::iterations; 0: run forever
  MaxInvocations,  \* bound: invocations the service hands out
  Adversities      \* what may go wrong around the client

\* "none": nothing besides requests and handlers that fail.
\* "gap": a warm-up ends between the two steps of Latch::wait.
\* "stall": the body of a warm-up's reply never ends.
\* "noclient": the shared HTTP client could not be built.
\* "lost": a request reaches the service, and its reply gets lost.
AllAdversities == {"none", "gap", "stall", "noclient", "lost"}

VARIABLES
  config,      \* the run: its iterations, whether LLRT_REGISTER_HOOKS names
               \* a file to run first, and what goes wrong
  pc,          \* where start_runtime and start_with_cfg stand
  latch,       \* SdkClientInitState::latch
  endpoints,   \* SdkClientInitState::endpoints
  warm,        \* the warm-up task of each endpoint
  waitedFor,   \* history: the endpoints registered when wait() was called
  request_id,  \* the loop's request_id; 0 when empty
  iterations,  \* the loop's counter
  delivered,   \* the service: invocations handed out
  answers,     \* the service: what it accepted for each invocation
  init_error   \* the service: accepted posts to /init/error

aside == <<config, waitedFor>>
client == <<pc, aside, request_id, iterations>>
sdk == <<latch, endpoints, warm>>
service == <<delivered, answers, init_error>>
vars == <<client, sdk, service>>

Invocations == 1..MaxInvocations

Stages ==
  {"hooks", "import", "gap", "waiting", "awaitImport", "next", "handler",
   "respond", "postError", "initError", "done", "exit", "undefined"}

\* A warm-up: not started, waiting for the reply's head, then for its body,
\* between the two steps of Latch::decrement, finished.
WarmStates == {"none", "get", "body", "marking", "done"}

Configs ==
  [iterations : Iterations, hooks : BOOLEAN, adversity : Adversities]

Init ==
  /\ config \in Configs
  /\ pc = IF config.hooks THEN "hooks" ELSE "import"
  /\ latch = Default
  /\ endpoints = {}
  /\ warm = [e \in Endpoints |-> "none"]
  /\ waitedFor = {}
  /\ request_id = 0
  /\ iterations = 0
  /\ delivered = 0
  /\ answers = [i \in Invocations |-> <<>>]
  /\ init_error = 0

---------------------------------------------------------------------------
(* SDK connections *)

\* The write lock on SDK_CONNECTION_INIT_LATCH, which mark_client_inited
\* holds from the subtraction to the notification.
Unlocked == \A e \in Endpoints : warm[e] # "marking"

\* JavaScript runs inside Module::import and whenever the client awaits it.
JavaScriptRuns == pc \in {"import", "waiting", "awaitImport", "handler"}

\* A program imports an SDK client: init_client_connection registers the
\* endpoint on the first import, increments the latch, and spawns the warm-up
\* (or throws, when there is no HTTP client).
ImportClient(e) ==
  /\ JavaScriptRuns
  /\ Unlocked
  /\ e \notin endpoints
  /\ endpoints' = endpoints \cup {e}
  /\ latch' = increment(latch)
  /\ warm' = IF config.adversity = "noclient" THEN warm
                                           ELSE [warm EXCEPT ![e] = "get"]
  /\ UNCHANGED <<client, service>>

\* The same in the file of LLRT_REGISTER_HOOKS: SDK_CONNECTION_INIT_LATCH has
\* no state for the runtime yet, and unwrap_unchecked() is undefined on None.
ImportUnregistered ==
  /\ pc = "hooks"
  /\ pc' = "undefined"
  /\ UNCHANGED <<aside, request_id, iterations, sdk, service>>

\* The head of the reply arrives within the second allowed for it.
ReplyArrives(e) ==
  /\ warm[e] = "get"
  /\ warm' = [warm EXCEPT ![e] = "body"]
  /\ UNCHANGED <<client, latch, endpoints, service>>

\* mark_client_inited, first step: the subtraction of Latch::decrement.
MarkClientInited(e) ==
  /\ Unlocked
  /\ latch' = fetch_sub(latch)
  /\ warm' = [warm EXCEPT ![e] = IF Notifies(latch) THEN "marking" ELSE "done"]
  /\ UNCHANGED <<client, endpoints, service>>

\* The request fails, or its second is over.
RequestFails(e) == warm[e] = "get" /\ MarkClientInited(e)

\* The body has been collected, or collecting it failed.
BodyEnds(e) == warm[e] = "body" /\ MarkClientInited(e)

\* mark_client_inited, second step: the notification.
NotifyWaiters(e) ==
  /\ warm[e] = "marking"
  /\ latch' = notify_waiters(latch)
  /\ warm' = [warm EXCEPT ![e] = "done"]
  /\ UNCHANGED <<client, endpoints, service>>

---------------------------------------------------------------------------
(* start_with_cfg, up to the handler *)

\* start_runtime goes on to start_with_cfg, which registers the runtime.
HooksEnd ==
  /\ pc = "hooks"
  /\ pc' = "import"
  /\ UNCHANGED <<aside, request_id, iterations, sdk, service>>

\* Module::import throws.
ImportThrows ==
  /\ pc = "import"
  /\ pc' = "exit"
  /\ UNCHANGED <<aside, request_id, iterations, sdk, service>>

\* Latch::wait, first step.
LoadCount ==
  /\ pc = "import"
  /\ config.adversity = "gap"
  /\ waitedFor' = endpoints
  /\ pc' = IF MustWait(latch) THEN "gap" ELSE "awaitImport"
  /\ UNCHANGED <<config, request_id, iterations, sdk, service>>

\* Latch::wait, second step.
CreateNotified ==
  /\ pc = "gap"
  /\ pc' = "waiting"
  /\ latch' = notified(latch, "main")
  /\ UNCHANGED <<aside, request_id, iterations, endpoints, warm, service>>

\* Latch::wait when no other thread gets between its steps.
Wait ==
  /\ pc = "import"
  /\ config.adversity # "gap"
  /\ waitedFor' = endpoints
  /\ pc' = IF MustWait(latch) THEN "waiting" ELSE "awaitImport"
  /\ latch' = wait(latch, "main")
  /\ UNCHANGED <<config, request_id, iterations, endpoints, warm, service>>

Woken ==
  /\ pc = "waiting"
  /\ Released(latch, "main")
  /\ pc' = "awaitImport"
  /\ UNCHANGED <<aside, request_id, iterations, sdk, service>>

\* The import settles.  A module that throws, a handler that is no function
\* and a missing HTTP client end the process.
ImportSettles ==
  /\ pc = "awaitImport"
  /\ \E ok \in BOOLEAN :
       /\ ok => config.adversity # "noclient"
       /\ pc' = IF ok THEN "next" ELSE "exit"
  /\ UNCHANGED <<aside, request_id, iterations, sdk, service>>

---------------------------------------------------------------------------
(* The event loop *)

\* The outcome of a POST: accepted; refused or never sent; accepted with the
\* reply lost.
Outcomes == {"accepted", "refused"} \cup ({config.adversity} \cap {"lost"})

\* The end of the loop's body.
NextIteration ==
  /\ pc' = IF config.iterations > 0 /\ iterations >= config.iterations - 1
             THEN "done" ELSE "next"
  /\ iterations' = IF config.iterations > 0 /\ pc' = "next"
                     THEN iterations + 1 ELSE iterations
  /\ request_id' = IF pc' = "next" THEN 0 ELSE request_id

\* process_event has failed: without a request_id the loop returns the error.
ProcessEventFails ==
  /\ pc' = IF request_id = 0 THEN "initError" ELSE "postError"
  /\ UNCHANGED <<request_id, iterations>>

\* next_invocation fails: no request, no reply, a reply that is not 200, or
\* an invocation handed out whose headers or body cannot be read.
NextInvocationFails ==
  /\ pc = "next"
  /\ ProcessEventFails
  /\ \/ UNCHANGED delivered
     \/ delivered < MaxInvocations /\ delivered' = delivered + 1
  /\ UNCHANGED <<aside, sdk, answers, init_error>>

\* next_invocation succeeds: the handler is called.
NextInvocation ==
  /\ pc = "next"
  /\ delivered < MaxInvocations
  /\ delivered' = delivered + 1
  /\ request_id' = delivered + 1
  /\ pc' = "handler"
  /\ UNCHANGED <<aside, iterations, sdk, answers, init_error>>

\* The handler returns, or its promise resolves.
HandlerReturns ==
  /\ pc = "handler"
  /\ pc' = "respond"
  /\ UNCHANGED <<aside, request_id, iterations, sdk, service>>

\* The handler throws, or its promise rejects.
HandlerThrows ==
  /\ pc = "handler"
  /\ ProcessEventFails
  /\ UNCHANGED <<aside, sdk, service>>

\* What the service records of a POST for the invocation of request_id.
Accept(outcome, answer) ==
  answers' = IF outcome = "refused" THEN answers
             ELSE [answers EXCEPT ![request_id] = Append(@, answer)]

\* invoke_response, and what the loop does with its result.
InvokeResponse(outcome) ==
  /\ pc = "respond"
  /\ Accept(outcome, "response")
  /\ IF outcome = "accepted" THEN NextIteration ELSE ProcessEventFails
  /\ UNCHANGED <<aside, sdk, delivered, init_error>>

\* post_error for an invocation; when it fails the loop returns the failure.
PostError(outcome) ==
  /\ pc = "postError"
  /\ Accept(outcome, "error")
  /\ IF outcome = "accepted"
       THEN NextIteration
       ELSE pc' = "initError" /\ UNCHANGED <<request_id, iterations>>
  /\ UNCHANGED <<aside, sdk, delivered, init_error>>

\* post_error to /init/error; when it fails too, start_runtime prints the
\* failure and ends the process.
InitError(outcome) ==
  /\ pc = "initError"
  /\ init_error' = IF outcome = "refused" THEN init_error ELSE init_error + 1
  /\ pc' = IF outcome = "accepted" THEN "done" ELSE "exit"
  /\ UNCHANGED <<aside, request_id, iterations, sdk, delivered, answers>>

---------------------------------------------------------------------------

WarmUp(e) ==
  \/ ReplyArrives(e)
  \/ RequestFails(e)
  \/ BodyEnds(e)
  \/ NotifyWaiters(e)

Startup ==
  \/ HooksEnd
  \/ ImportThrows
  \/ LoadCount
  \/ CreateNotified
  \/ Wait
  \/ Woken
  \/ ImportSettles

EventLoop ==
  \/ NextInvocationFails
  \/ NextInvocation
  \/ HandlerReturns
  \/ HandlerThrows
  \/ \E outcome \in Outcomes :
       InvokeResponse(outcome) \/ PostError(outcome) \/ InitError(outcome)

Next ==
  \/ \E e \in Endpoints : ImportClient(e) \/ WarmUp(e)
  \/ ImportUnregistered
  \/ Startup
  \/ EventLoop

Spec == Init /\ [][Next]_vars

\* tokio runs a task that is ready.  The request of a warm-up ends with its
\* second; its body has no such limit.  Nothing is assumed of the handler and
\* of the service.
Owed ==
  \/ Startup
  \/ \E e \in Endpoints :
       \/ ReplyArrives(e) \/ RequestFails(e) \/ NotifyWaiters(e)
       \/ config.adversity # "stall" /\ BodyEnds(e)

FairSpec == Spec /\ WF_vars(Owed)

---------------------------------------------------------------------------
(* Properties *)

TypeOK ==
  /\ config \in Configs
  /\ pc \in Stages
  /\ latch \in [count : Nat, waiters : SUBSET {"main"}]
  /\ endpoints \in SUBSET Endpoints
  /\ warm \in [Endpoints -> WarmStates]
  /\ waitedFor \in SUBSET Endpoints
  /\ request_id \in 0..MaxInvocations
  /\ iterations \in Nat
  /\ delivered \in 0..MaxInvocations
  /\ answers \in [Invocations -> Seq({"response", "error"})]
  /\ init_error \in 0..1

\* The latch counts the warm-ups that have not marked their client as
\* initialised: whatever the order of imports and replies, the wait of
\* start_with_cfg neither ends early nor counts below zero.
LatchCountsWarmUps ==
  /\ TypeOK
  /\ config.adversity # "noclient" =>
       latch.count = Cardinality({e \in Endpoints : warm[e] \in {"get", "body"}})

\* The handler is looked up only when every connection whose warm-up had been
\* started before the wait has been warmed up, or has failed to be.
WarmBeforeHandler ==
  pc \in {"awaitImport", "next", "handler", "respond", "postError"} =>
    \A e \in waitedFor : warm[e] \in {"marking", "done"}

\* The loop asks for the next invocation only when the service has an answer
\* for every invocation it has handed out: a failing handler, response or
\* error post never leaves one behind; and start_with_cfg returns without an
\* error only when it has reported one to /init/error, or has answered all the
\* configured iterations.  No invocation is answered twice: an error is posted
\* only where the response was not accepted, and never for the invocation of an
\* earlier round; but a reply that gets lost leaves the client no way to know.
AnsweredOnce ==
  /\ pc = "next" \/ (pc = "done" /\ init_error = 0) =>
       \A i \in 1..delivered : answers[i] # <<>>
  /\ pc = "done" /\ init_error = 0 =>
       config.iterations > 0 /\ delivered = config.iterations
  /\ config.adversity # "lost" => \A i \in Invocations : Len(answers[i]) <= 1

PastLatch ==
  config.adversity \in {"none", "lost"} =>
    pc \notin {"hooks", "import", "gap", "waiting"}

\* The wait for the warm-ups ends, start_with_cfg gets past its latch: after
\* warm-ups that fail, time out or succeed, and with clients that are imported
\* while it waits, provided that nothing goes wrong around the latch.
StartupEnds == []<>PastLatch
=============================================================================
