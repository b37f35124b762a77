----------------------------- MODULE MCRuntime -----------------------------
(***************************************************************************)
(* What the runtime does behind a program: timers, the Lambda client with  *)
(* its warm-ups, and fetch().  The first state says which one runs; the    *)
(* others stay as they are.                                                *)
(***************************************************************************)
EXTENDS Timers

VARIABLES
  part,   \* the component that runs; Timers has variables of its own
  config, pc, latch, endpoints, warm, waitedFor, request_id, iterations,
  delivered, answers, init_error,   \* LambdaRuntime
  f                                 \* Fetch

Lambda == INSTANCE LambdaRuntime WITH
  Endpoints <- {"e1", "e2"}, Iterations <- {0, 2}, MaxInvocations <- 3,
  Adversities <- {"none", "gap", "stall", "noclient", "lost"}

Fetching == INSTANCE Fetch WITH
  First <- "c1", Others <- {"c2"}, Permits <- 1, MaxRedirects <- 2,
  MaxChunks <- 2, Room <- 1

lambda ==
  <<config, pc, latch, endpoints, warm, waitedFor, request_id, iterations,
    delivered, answers, init_error>>
all == <<part, vars, lambda, f>>

MCInit ==
  /\ part \in {"timers", "lambda", "fetch"}
  /\ Init /\ Lambda!Init /\ Fetching!Init
  /\ part # "lambda" =>
       config = [iterations |-> 0, hooks |-> FALSE, adversity |-> "stall"]

InTimers(A) == part = "timers" /\ A /\ UNCHANGED <<part, lambda, f>>
InLambda(A) == part = "lambda" /\ A /\ UNCHANGED <<part, vars, f>>
InFetch(A) == part = "fetch" /\ A /\ UNCHANGED <<part, vars, lambda>>

MCNext == InTimers(Next) \/ InLambda(Lambda!Next) \/ InFetch(Fetching!Next)

(* The fairness of each component's FairSpec.                              *)
MCSpec ==
  /\ MCInit /\ [][MCNext]_all
  /\ WF_all(InTimers(Owed) \/ InLambda(Lambda!Owed) \/ InFetch(Fetching!Owed))

----------------------------------------------------------------------------
(* Properties; NoLostWakeup is Timers'.                                    *)

(* A timer that does not repeat runs once and not after clearTimeout(); a  *)
(* loop of poll_timers lives only as long as there are timers.             *)
TimersEndInOrder ==
  part = "timers" => Consistent /\ OneShotOnce /\ LoopEndsWithTimers

(* The latch counts the warm-ups under way, no handler starts before the   *)
(* warm-ups of the clients imported until then have ended, and the service *)
(* gets one answer for an invocation.                                      *)
InvocationsInOrder ==
  part = "lambda" =>
    Lambda!LatchCountsWarmUps /\ Lambda!WarmBeforeHandler /\ Lambda!AnsweredOnce

(* Along any chain of redirects the headers, the method and the content    *)
(* that a request carries are those it may carry, and the requests keep    *)
(* within their number; a call gets the answer to its own request, though  *)
(* connections are pooled; an upload arrives in order and as a whole.      *)
FetchKeepsApart ==
  part = "fetch" =>
    Fetching!RedirectsKeepWithin /\ Fetching!OwnResponse /\ Fetching!UploadWhole

(* An overdue timer runs or is cleared, the wait for the warm-ups ends,    *)
(* and an aborted call of fetch() ends though no server answers.           *)
RuntimeGoesOn ==
  []<>( /\ part = "timers" => NoneOverdue
        /\ part = "lambda" => Lambda!PastLatch
        /\ part = "fetch" => Fetching!Heard )
=============================================================================
