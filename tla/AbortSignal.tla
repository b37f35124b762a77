----------------------------- MODULE AbortSignal -----------------------------
(***************************************************************************)
(* AbortController and AbortSignal.  An abort is seen in three ways: the   *)
(* fields `aborted` and `reason`, the "abort" event, by which              *)
(* AbortSignal.any() makes one signal follow others, and the one-shot      *)
(* channel `sender` (mc_oneshot), on which a fetch waits.                  *)
(*                                                                         *)
(* Listeners run one after the other.  Between two of them the program's   *)
(* own listeners may call anything, so the listeners that any() has added  *)
(* and that are still to run are kept in `calls`.                          *)
(***************************************************************************)
EXTENDS Naturals, Sequences, SequencesExt, FiniteSets

CONSTANTS
  Signal,     \* the signals that the program may create
  MaxSources  \* bound: the length of the argument of any()

VARIABLES
  kind,      \* how a signal was created; "unborn" before
  aborted,
  reason,
  sent,      \* the value of the channel; "none" before send()
  followers, \* the signals that any() has made follow this one, in order
  sources,   \* what a signal was made to follow
  calls,     \* the listeners of any() that are to run: <<source, follower>>
  plain      \* history: the signal's reason was never assigned to, and if any()
             \* made it, it was from one signal, not aborted yet

abort_signal == <<kind, aborted, reason, sent, followers, sources, calls, plain>>

\* What the program passes as a reason, and the exceptions made for it.
Given == {"given", "undefined"}
Reason == {"given", "AbortError", "TimeoutError"}
Live == {s \in Signal : kind[s] # "unborn"}

SignalInit ==
  /\ kind = [s \in Signal |-> "unborn"]
  /\ aborted = [s \in Signal |-> FALSE]
  /\ reason = [s \in Signal |-> "undefined"]
  /\ sent = [s \in Signal |-> "none"]
  /\ followers = [s \in Signal |-> <<>>]
  /\ sources = [s \in Signal |-> {}]
  /\ calls = <<>>
  /\ plain = [s \in Signal |-> TRUE]

get_reason_or_dom_exception(r, name) == IF r = "undefined" THEN name ELSE r

\* mc_oneshot::Sender::send: only the first value counts.
send(s, value) == sent' = [sent EXCEPT ![s] = IF @ = "none" THEN value ELSE @]

\* The calls of the listeners that follow s.
Listeners(s, following) == [i \in DOMAIN following |-> <<s, following[i]>>]

\* Signal s, whose reason has been set to r, is aborted: the listeners of any(),
\* which are removed as they are called, run before the rest.
send_aborted(s, r, rest) ==
  LET why == get_reason_or_dom_exception(r, "AbortError")
  IN  /\ aborted' = [aborted EXCEPT ![s] = TRUE]
      /\ reason' = [reason EXCEPT ![s] = why]
      /\ send(s, why)
      /\ calls' = Listeners(s, followers[s]) \o rest
      /\ followers' = [followers EXCEPT ![s] = <<>>]

Born(s, how) == kind[s] = "unborn" /\ kind' = [kind EXCEPT ![s] = how]

\* new AbortController() or new AbortSignal(), and the signal of timeout().
new(s, how) ==
  /\ Born(s, how)
  /\ UNCHANGED <<aborted, reason, sent, followers, sources, calls, plain>>

AbortFault(s, r) ==
  /\ kind[s] = "controller"
  /\ send_aborted(s, r, calls)
  /\ UNCHANGED <<kind, sources, plain>>

\* AbortController.abort(): only once.
Abort(s, r) ==
  /\ kind[s] = "controller"
  /\ ~aborted[s]
  /\ send_aborted(s, r, calls)
  /\ UNCHANGED <<kind, sources, plain>>

\* AbortSignal.abort()
AbortedSignal(s, r) ==
  /\ Born(s, "aborted")
  /\ send_aborted(s, r, calls)
  /\ UNCHANGED <<sources, plain>>

\* The timer of AbortSignal.timeout() fires; it is a one-shot, and the loop of
\* the timers runs no callback inside another.
TimeoutFires(s) ==
  /\ kind[s] = "timeout"
  /\ calls = <<>>
  /\ kind' = [kind EXCEPT ![s] = "timed out"]
  /\ send_aborted(s, "TimeoutError", calls)
  /\ UNCHANGED <<sources, plain>>

\* How often a signal is among the arguments of any().
Times(x, signals) == Cardinality({i \in DOMAIN signals : signals[i] = x})

AnySignalFault(s, signals) ==
  /\ Born(s, "any")
  /\ sources' = [sources EXCEPT ![s] = ToSet(signals)]
  /\ plain' = [plain EXCEPT ![s] = Len(signals) = 1 /\ ~aborted[signals[1]]]
  /\ LET first == SelectInSeq(signals, LAMBDA x : aborted[x])
     IN  IF first # 0
         THEN /\ aborted' = [aborted EXCEPT ![s] = TRUE]
              /\ reason' = [reason EXCEPT ![s] = reason[signals[first]]]
              /\ UNCHANGED followers
         ELSE /\ followers' = [followers EXCEPT ![signals[1]] = Append(@, s)]
              /\ UNCHANGED <<aborted, reason>>
  /\ UNCHANGED <<sent, calls>>

\* AbortSignal.any(): aborted at once, with the reason of the first signal that
\* is, but without a send(); else a listener is added to each of the signals,
\* also twice to one that is given twice.
AnySignal(s, signals) ==
  /\ Born(s, "any")
  /\ sources' = [sources EXCEPT ![s] = ToSet(signals)]
  /\ plain' = [plain EXCEPT ![s] = Len(signals) = 1 /\ ~aborted[signals[1]]]
  /\ LET first == SelectInSeq(signals, LAMBDA x : aborted[x])
     IN  IF first # 0
         THEN /\ aborted' = [aborted EXCEPT ![s] = TRUE]
              /\ reason' = [reason EXCEPT ![s] = reason[signals[first]]]
              /\ UNCHANGED followers
         ELSE /\ followers' = [x \in Signal |-> followers[x] \o
                                   [i \in 1..Times(x, signals) |-> s]]
              /\ UNCHANGED <<aborted, reason>>
  /\ UNCHANGED <<sent, calls>>

\* The next listener of any() runs: the follower takes the reason that its
\* source has now, and is aborted in turn, whether it already was or not.
Follow ==
  /\ calls # <<>>
  /\ LET source == Head(calls)[1]
         follower == Head(calls)[2]
     IN  send_aborted(follower, reason[source], Tail(calls))
  /\ UNCHANGED <<kind, sources, plain>>

\* The program assigns to `reason`.
set_reason(s, r) ==
  /\ s \in Live
  /\ plain' = [plain EXCEPT ![s] = FALSE]
  /\ reason' = [reason EXCEPT ![s] = r]
  /\ UNCHANGED <<kind, aborted, sent, followers, sources, calls>>

SignalNext ==
  \/ \E s \in Signal, how \in {"controller", "timeout"} : new(s, how)
  \/ \E s \in Signal, r \in Given : Abort(s, r)
  \/ \E s \in Signal, r \in Given : AbortedSignal(s, r)
  \/ \E s \in Signal : TimeoutFires(s)
  \/ \E s \in Signal : \E n \in 1..MaxSources : \E signals \in [1..n -> Live] : AnySignal(s, signals)
  \/ Follow
  \/ \E s \in Signal, r \in Given : set_reason(s, r)

SignalSpec == SignalInit /\ [][SignalNext]_abort_signal

---------------------------------------------------------------------------

SignalTypeOK ==
  /\ kind \in [Signal -> {"unborn", "controller", "timeout", "timed out", "aborted", "any"}]
  /\ aborted \in [Signal -> BOOLEAN]
  /\ reason \in [Signal -> Reason \cup {"undefined"}]
  /\ sent \in [Signal -> Reason \cup {"none"}]
  /\ \A s \in Signal : followers[s] \in Seq(Live)
  /\ sources \in [Signal -> SUBSET Signal]
  /\ calls \in Seq(Live \X Live)
  /\ plain \in [Signal -> BOOLEAN]

\* Once the listeners have run, a signal made by any() is aborted if one of the
\* signals it was made from is, through any chain of them, also when listeners
\* abort other signals meanwhile.
FollowersAborted ==
  /\ SignalTypeOK
  /\ calls = <<>> =>
       \A s \in Signal : (\E x \in sources[s] : aborted[x]) => aborted[s]

\* The reason of a signal is settled when it is aborted, for a signal that
\* follows one other at most and is not assigned to: it is not aborted again.
\* And a fetch that waits on the channel of any signal is given one reason.
ReasonStable ==
  [][\A s \in Signal :
       /\ plain'[s] /\ aborted[s] => reason'[s] = reason[s]
       /\ sent[s] # "none" => sent'[s] = sent[s]]_abort_signal

\* Such a signal, when it is aborted, has told those who wait on its channel,
\* with the reason that it shows: a fetch with this signal is aborted.
ObserversSee == \A s \in Signal : plain[s] /\ aborted[s] => sent[s] = reason[s]

\* An abort reaches the signals that any() made, through any chain of them, and
\* a fetch that waits on the channel of an aborted signal has been told, with the
\* reason that the signal shows.
AbortReachesFollowers == FollowersAborted /\ ObserversSee
=============================================================================
