------------------------- MODULE ChildProcessProofs -------------------------
(* Proofs about ChildProcess, for every amount of output and every size of *)
(* the pipe and of the stream's buffer.                                    *)
EXTENDS ChildProcess, SequenceTheorems, TLAPS

Types ==
  /\ exec \in BOOLEAN /\ on_error \in BOOLEAN
  /\ mode \in [Output -> Modes]
  /\ child \in {"running", "exited", "reaped", "failed"}
  /\ forked \in BOOLEAN /\ cause \in Cause \cup {"none"}
  /\ wrote \in [Output -> Nat] /\ taken \in [Output -> Nat]
  /\ queued \in [Output -> Nat] /\ got \in [Output -> Nat]
  /\ reader \in [Output -> {"none", "run", "ended", "destroyed"}]
  /\ stdin \in {"open", "ended"}
  /\ runtime \in {"alive", "dead"}

(* The chunks that were taken from the pipe are with the program or in the *)
(* buffer; a stream that has ended was read to its end.                    *)
Counted ==
  \A o \in Output :
    /\ taken[o] <= wrote[o] /\ wrote[o] <= MaxChunks
    /\ got[o] + queued[o] = taken[o] /\ queued[o] <= BufferSize
    /\ mode[o] = "data" => queued[o] = 0
    /\ reader[o] = "ended" => taken[o] = wrote[o]
    /\ reader[o] = "ended" => child # "running" /\ forked = FALSE

(* What the task has emitted at each of its points, how often the callback *)
(* was called, and which of the streams it has seen end.                   *)
AfterClose == {<<"exit", "close">>, <<"exit", "close", "error">>}
Called(n) == calls \in [1 .. n -> {"null", "error"}]
BeforeExit == task \in {"error", "wait"} /\ events = <<>> /\ calls = <<>>
AfterExit ==
  /\ task \in {"stderr", "stdout"} /\ events = <<"exit">> /\ calls = <<>>
  /\ task = "stdout" => reader["stderr"] # "run"
EndedEarly ==
  /\ task = "done" /\ (calls = <<>> \/ Called(1))
  /\ events \in {<<>>, <<"error">>, <<"exit">>, <<"exit", "error">>}
AllEnded ==
  /\ task = "done" /\ \A o \in Output : reader[o] # "run"
  /\ \/ events = <<"exit", "close">> /\ (calls = <<>> \/ Called(1))
     \/ events = <<"exit", "close", "error">> /\ (calls = <<>> \/ Called(2))
Stages ==
  /\ child = "failed" => task \in {"error", "done"}
  /\ child \in {"running", "exited"} => task = "wait"
  /\ BeforeExit \/ AfterExit \/ EndedEarly \/ AllEnded

Inv == Types /\ (exec = TRUE => on_error = TRUE) /\ Counted /\ Stages

----------------------------------------------------------------------------
(* A callback that was called once: its calls are a sequence of one.       *)
LEMMA OneCall ==
  ASSUME NEW S, NEW q \in [1 .. 1 -> S]
  PROVE  Len(q) = 1
BY SMT

LEMMA InitInv ==
  ASSUME MaxChunks \in Nat, BufferSize \in Nat, ChildInit
  PROVE  Inv
<1>1. Types
  <2>1. mode \in [Output -> Modes]
    BY DEF ChildInit, New, Modes
  <2>2. reader \in [Output -> {"none", "run", "ended", "destroyed"}]
    BY DEF ChildInit, New
  <2> QED
    BY <2>1, <2>2, Zenon DEF ChildInit, New, Types
<1>2. Counted
  <2>1. \A o \in Output : reader[o] # "ended"
    BY DEF ChildInit, New
  <2> QED
    BY <2>1 DEF ChildInit, New, Counted
<1>3. Stages
  BY DEF ChildInit, New, Stages, BeforeExit
<1> QED
  BY <1>1, <1>2, <1>3 DEF Inv, ChildInit

(* The steps of the process and of the streams leave the task alone.  They *)
(* may end a stream, never restart one.                                    *)
LEMMA StagesKept ==
  ASSUME Stages, UNCHANGED <<task, events, calls>>,
         \/ child' = child
         \/ child = "running" /\ child' = "exited",
         \A o \in Output : reader[o] # "run" => reader'[o] # "run"
  PROVE  Stages'
<1>1. (child' = "failed" => task \in {"error", "done"})
      /\ (child' \in {"running", "exited"} => task = "wait")
  BY DEF Stages
<1> QED
  BY <1>1 DEF Stages, BeforeExit, AfterExit, EndedEarly, AllEnded, Called, Output

(* A failure of the task emits "error" or ends the program.                *)
LEMMA ErrorEmitted ==
  ASSUME NEW before, EmitError(before)
  PROVE  /\ task' = "done" /\ runtime' \in {"alive", "dead"}
         /\ \/ on_error /\ events' = before \o <<"error">>
            \/ ~on_error /\ events' = before
  BY DEF EmitError

(* The sequences the task puts together.                                   *)
LEMMA ConcatTwo ==
  ASSUME NEW S, NEW a \in S, NEW b \in S
  PROVE  <<a>> \o <<b>> = <<a, b>>
<1> DEFINE s == <<a>>
           r == <<b>>
           t == s \o r
           u == <<a, b>>
<1>1. s \in Seq(S) /\ Len(s) = 1 /\ s[1] = a /\ r \in Seq(S) /\ Len(r) = 1 /\ r[1] = b
  OBVIOUS
<1>2. u \in Seq(S) /\ Len(u) = 2 /\ u[1] = a /\ u[2] = b
  OBVIOUS
<1> HIDE DEF s, r, u
<1>3. t \in Seq(S) /\ Len(t) = 2 /\ t[1] = a /\ t[2] = b
  BY <1>1, ConcatProperties
<1> HIDE DEF t
<1>4. t = u
  BY <1>2, <1>3, SeqEqual
<1> QED
  BY <1>4 DEF s, r, t, u

LEMMA ConcatThree ==
  ASSUME NEW S, NEW a \in S, NEW b \in S, NEW c \in S
  PROVE  <<a, b>> \o <<c>> = <<a, b, c>>
<1> DEFINE s == <<a, b>>
           r == <<c>>
           t == s \o r
           u == <<a, b, c>>
<1>1. /\ s \in Seq(S) /\ Len(s) = 2 /\ s[1] = a /\ s[2] = b
      /\ r \in Seq(S) /\ Len(r) = 1 /\ r[1] = c
  OBVIOUS
<1>2. u \in Seq(S) /\ Len(u) = 3 /\ u[1] = a /\ u[2] = b /\ u[3] = c
  OBVIOUS
<1> HIDE DEF s, r, u
<1>3. t \in Seq(S) /\ Len(t) = 3 /\ t[1] = a /\ t[2] = b /\ t[3] = c
  <2>1. /\ t \in Seq(S) /\ Len(t) = 3
        /\ \A i \in 1 .. 3 : t[i] = IF i <= 2 THEN s[i] ELSE r[i - 2]
    <3>1. s \in Seq(S) /\ r \in Seq(S)
      BY <1>1
    <3>2. /\ t \in Seq(S) /\ Len(t) = Len(s) + Len(r)
          /\ \A i \in 1 .. Len(s) + Len(r) :
               t[i] = IF i <= Len(s) THEN s[i] ELSE r[i - Len(s)]
      BY <3>1, ConcatProperties, Zenon
    <3>3. Len(s) = 2 /\ Len(r) = 1 /\ 2 + 1 = 3
      BY <1>1
    <3> HIDE DEF t
    <3> QED
      BY <3>2, <3>3, Zenon
  <2>2. t[1] = s[1] /\ t[2] = s[2] /\ t[3] = r[1]
    BY <2>1
  <2> QED
    BY <1>1, <2>1, <2>2
<1> HIDE DEF t
<1>4. t = u
  BY <1>2, <1>3, SeqEqual
<1> QED
  BY <1>4 DEF s, r, t, u

LEMMA AppendTwo ==
  ASSUME NEW S, NEW a \in S, NEW b \in S
  PROVE  Append(<<a>>, b) = <<a, b>>
<1>1. <<a>> \in Seq(S)
  OBVIOUS
<1> QED
  BY <1>1, AppendIsConcat, ConcatTwo, Zenon

LEMMA Exited == Append(<<>>, "exit") = <<"exit">>
  OBVIOUS

LEMMA Failed == <<>> \o <<"error">> = <<"error">>
  OBVIOUS

LEMMA ExitedFailed == <<"exit">> \o <<"error">> = <<"exit", "error">>
<1>1. "exit" \in {"exit", "error"} /\ "error" \in {"exit", "error"}
  OBVIOUS
<1> QED
  BY <1>1, ConcatTwo, Zenon

LEMMA ExitedClosed == Append(<<"exit">>, "close") = <<"exit", "close">>
<1>1. "exit" \in {"exit", "close"} /\ "close" \in {"exit", "close"}
  OBVIOUS
<1> QED
  BY <1>1, AppendTwo, Zenon

LEMMA ClosedFailed == <<"exit", "close">> \o <<"error">> = <<"exit", "close", "error">>
<1> DEFINE S == {"exit", "close", "error"}
<1>1. "exit" \in S /\ "close" \in S /\ "error" \in S
  OBVIOUS
<1> HIDE DEF S
<1> QED
  BY <1>1, ConcatThree, Zenon

LEMMA CalledOnce ==
  ASSUME NEW x \in {"null", "error"}
  PROVE  Append(<<>>, x) \in [1 .. 1 -> {"null", "error"}]
<1>1. Append(<<>>, x) = <<x>>
  OBVIOUS
<1>2. <<x>> \in [1 .. 1 -> {"null", "error"}]
  OBVIOUS
<1> QED
  BY <1>1, <1>2

LEMMA CalledTwice ==
  ASSUME NEW x \in {"null", "error"}
  PROVE  Append(Append(<<>>, x), "error") \in [1 .. 2 -> {"null", "error"}]
<1>1. Append(<<>>, x) = <<x>>
  OBVIOUS
<1>2. "error" \in {"null", "error"}
  OBVIOUS
<1>3. Append(<<x>>, "error") = <<x, "error">>
  BY <1>2, AppendTwo, Zenon
<1>4. <<x, "error">> \in [1 .. 2 -> {"null", "error"}]
  OBVIOUS
<1> QED
  BY <1>1, <1>3, <1>4, Zenon

LEMMA StepInv ==
  ASSUME MaxChunks \in Nat, BufferSize \in Nat, Inv, [ChildNext]_child_process
  PROVE  Inv'
<1> USE DEF program, process, stream, object
<1>1. ASSUME Fork PROVE Inv'
  <2>1. Types' /\ Counted'
    BY <1>1 DEF Fork, Inv, Types, Counted
  <2>2. Stages'
    BY <1>1, StagesKept DEF Fork, Inv
  <2> QED
    BY <1>1, <2>1, <2>2 DEF Fork, Inv
<1>2. ASSUME ForkExits PROVE Inv'
  <2>1. Types' /\ Counted'
    BY <1>2, Zenon DEF ForkExits, Inv, Types, Counted
  <2>2. Stages'
    BY <1>2, StagesKept DEF ForkExits, Inv
  <2> QED
    BY <1>2, <2>1, <2>2 DEF ForkExits, Inv
<1>3. ASSUME NEW o \in Output, Write(o) PROVE Inv'
  <2>1. Types'
    BY <1>3 DEF Write, Inv, Types
  <2>2. Counted'
    BY <1>3 DEF Write, Inv, Types, Counted
  <2>3. Stages'
    BY <1>3, StagesKept DEF Write, Inv
  <2> QED
    BY <1>3, <2>1, <2>2, <2>3, SMTT(20) DEF Write, Inv
<1>4. ASSUME NEW why \in Cause, Exit(why) PROVE Inv'
  <2>1. Types' /\ Counted'
    BY <1>4 DEF Exit, Inv, Types, Counted
  <2>2. Stages'
    BY <1>4, StagesKept DEF Exit, Inv
  <2> QED
    BY <1>4, <2>1, <2>2 DEF Exit, Inv
<1>5. ASSUME NEW o \in Output, ReaderMoves(o) PROVE Inv'
  <2>1. Types'
    BY <1>5 DEF ReaderMoves, Inv, Types
  <2>2. Counted'
    BY <1>5 DEF ReaderMoves, Inv, Types, Counted
  <2>3. Stages'
    BY <1>5, StagesKept DEF ReaderMoves, Inv
  <2> QED
    BY <1>5, <2>1, <2>2, <2>3 DEF ReaderMoves, Inv
<1>6. ASSUME NEW o \in Output, ReaderEnds(o) PROVE Inv'
  <2>1. Types'
    BY <1>6 DEF ReaderEnds, Inv, Types
  <2>2. Counted'
    BY <1>6 DEF ReaderEnds, Inv, Types, Counted, Writers
  <2>3. \A p \in Output : reader[p] # "run" => reader'[p] # "run"
    BY <1>6 DEF ReaderEnds, Inv, Types
  <2>4. Stages'
    BY <1>6, <2>3, StagesKept DEF ReaderEnds, Inv
  <2> QED
    BY <1>6, <2>1, <2>2, <2>4 DEF ReaderEnds, Inv
<1>7. ASSUME NEW o \in Output, DestroyOutput(o) PROVE Inv'
  <2>1. Types'
    BY <1>7 DEF DestroyOutput, Inv, Types
  <2>2. Counted'
    BY <1>7 DEF DestroyOutput, Inv, Types, Counted
  <2>3. \A p \in Output : reader[p] # "run" => reader'[p] # "run"
    BY <1>7 DEF DestroyOutput, Inv, Types
  <2>4. Stages'
    BY <1>7, <2>3, StagesKept DEF DestroyOutput, Inv
  <2> QED
    BY <1>7, <2>1, <2>2, <2>4 DEF DestroyOutput, Inv
<1>8. ASSUME NEW o \in Output, Read(o) PROVE Inv'
  <2>1. Types'
    BY <1>8 DEF Read, Inv, Types
  <2>2. Counted'
    BY <1>8 DEF Read, Inv, Types, Counted
  <2>3. Stages'
    BY <1>8, StagesKept DEF Read, Inv
  <2> QED
    BY <1>8, <2>1, <2>2, <2>3 DEF Read, Inv
<1>9. ASSUME Kill PROVE Inv'
  <2>1. Types' /\ Counted'
    BY <1>9 DEF Kill, Inv, Types, Counted, Cause
  <2>2. Stages'
    BY <1>9, StagesKept DEF Kill, Inv
  <2> QED
    BY <1>9, <2>1, <2>2 DEF Kill, Inv
<1>10. ASSUME SpawnError PROVE Inv'
  <2>1. task = "error" /\ events = <<>> /\ calls = <<>> /\ child \notin {"running", "exited"}
    BY <1>10 DEF SpawnError, Inv, Stages, BeforeExit, AfterExit, EndedEarly, AllEnded
  <2>2. Types' /\ Counted'
    BY <1>10, ErrorEmitted DEF SpawnError, Inv, Types, Counted
  <2>3. task' = "done" /\ events' \in {<<>>, <<"error">>}
    BY <1>10, <2>1, ErrorEmitted, Failed DEF SpawnError
  <2>4. calls' = <<>> \/ Called(1)'
    BY <1>10, <2>1, CalledOnce DEF SpawnError, CallbackAfterError, Called
  <2>5. EndedEarly'
    BY <2>3, <2>4 DEF EndedEarly
  <2>6. child' \notin {"running", "exited"}
    BY <1>10, <2>1 DEF SpawnError
  <2>7. Stages'
    BY <2>3, <2>5, <2>6 DEF Stages
  <2> QED
    BY <1>10, <2>2, <2>7 DEF SpawnError, Inv
<1>11. ASSUME Wait PROVE Inv'
  <2>1. events = <<>> /\ calls = <<>> /\ child' = "reaped"
    BY <1>11 DEF Wait, Inv, Stages, BeforeExit, AfterExit, EndedEarly, AllEnded
  <2>2. Types' /\ Counted'
    BY <1>11, ErrorEmitted DEF Wait, Inv, Types, Counted
  <2>3. ASSUME events' = Append(events, "exit"), task' = "stderr", calls' = calls
        PROVE  Stages'
    <3>1. AfterExit'
      <4>1. events' = <<"exit">> /\ calls' = <<>> /\ task' = "stderr"
        BY <2>1, <2>3, Exited
      <4> QED
        BY <4>1 DEF AfterExit
    <3> QED
      BY <2>1, <2>3, <3>1 DEF Stages
  <2>4. ASSUME EmitError(Append(events, "exit")), calls' = CallbackAfterError(calls)
        PROVE  Stages'
    <3>1. task' = "done" /\ events' \in {<<"exit">>, <<"exit", "error">>}
      <4>1. Append(events, "exit") = <<"exit">>
        BY <2>1, Exited
      <4>2. /\ task' = "done"
            /\ events' = <<"exit">> \o <<"error">> \/ events' = <<"exit">>
        BY <4>1, <2>4, ErrorEmitted, Zenon
      <4> QED
        BY <4>2, ExitedFailed
    <3>2. calls' = <<>> \/ Called(1)'
      BY <2>1, <2>4, CalledOnce DEF CallbackAfterError, Called
    <3>3. EndedEarly'
      BY <3>1, <3>2 DEF EndedEarly
    <3> QED
      BY <2>1, <3>1, <3>3 DEF Stages
  <2>5. Stages'
    BY <1>11, <2>3, <2>4 DEF Wait
  <2> QED
    BY <1>11, <2>2, <2>5 DEF Wait, Inv
<1>12. ASSUME AwaitStderr PROVE Inv'
  <2>1. events = <<"exit">> /\ calls = <<>> /\ child \notin {"running", "exited", "failed"}
    BY <1>12 DEF AwaitStderr, Inv, Stages, BeforeExit, AfterExit, EndedEarly, AllEnded
  <2>2. Types' /\ Counted'
    BY <1>12 DEF AwaitStderr, Inv, Types, Counted
  <2>3. Stages'
    BY <1>12, <2>1 DEF AwaitStderr, Stages, AfterExit
  <2> QED
    BY <1>12, <2>2, <2>3 DEF AwaitStderr, Inv
<1>13. ASSUME Close PROVE Inv'
  <2>1. /\ events = <<"exit">> /\ calls = <<>> /\ child \notin {"running", "exited", "failed"}
        /\ \A o \in Output : reader[o] # "run"
    BY <1>13 DEF Close, Inv, Stages, BeforeExit, AfterExit, EndedEarly, AllEnded, Output
  <2>2. UNCHANGED <<exec, on_error, mode, child, forked, cause, wrote, taken, reader>>
    BY <1>13 DEF Close
  <2>3. PICK reads \in SUBSET {o \in Output : mode[o] = "readable" /\ queued[o] > 0} :
          /\ queued' = [o \in Output |-> IF o \in reads THEN 0 ELSE queued[o]]
          /\ got' = [o \in Output |-> IF o \in reads THEN got[o] + queued[o] ELSE got[o]]
    BY <1>13, Zenon DEF Close, Drain
  <2>4. runtime' \in {"alive", "dead"} /\ stdin' = "ended"
    BY <1>13, ErrorEmitted DEF Close, Inv, Types
  <2>5. Types'
    BY <2>2, <2>3, <2>4 DEF Inv, Types
  <2>6. Counted'
    BY <2>2, <2>3 DEF Inv, Types, Counted
  <2> DEFINE called == IF exec THEN Append(calls, CallbackError(cause)) ELSE calls
  <2>7. CallbackError(cause) \in {"null", "error"}
    BY DEF CallbackError
  <2>8. ASSUME events' = Append(events, "close"), task' = "done", calls' = called
        PROVE  Stages'
    <3>1. calls' = <<>> \/ Called(1)'
      BY <2>1, <2>7, <2>8, CalledOnce DEF Called
    <3> QED
      <4>1. AllEnded'
        <5>1. events' = <<"exit", "close">> /\ task' = "done"
          BY <2>1, <2>8, ExitedClosed
        <5>2. \A o \in Output : reader'[o] # "run"
          BY <2>1, <2>2
        <5> QED
          BY <3>1, <5>1, <5>2 DEF AllEnded
      <4> QED
        BY <4>1, <2>1, <2>2, <2>8, SMTT(20) DEF Stages
  <2>9. ASSUME EmitError(Append(events, "close")), calls' = CallbackAfterError(called)
        PROVE  Stages'
    <3>1. CASE on_error = TRUE
      <4>1. task' = "done" /\ events' = <<"exit", "close", "error">>
        <5>1. Append(events, "close") = <<"exit", "close">>
          BY <2>1, ExitedClosed
        <5>2. task' = "done" /\ events' = <<"exit", "close">> \o <<"error">>
          BY <5>1, <2>9, <3>1, ErrorEmitted, Zenon
        <5> QED
          BY <5>2, ClosedFailed
      <4>2. calls' = <<>> \/ Called(2)'
        BY <2>1, <2>7, <2>9, CalledTwice DEF CallbackAfterError, Called
      <4> QED
        <5>1. \A o \in Output : reader'[o] # "run"
          BY <2>1, <2>2
        <5>2. AllEnded'
          BY <4>1, <4>2, <5>1 DEF AllEnded
        <5> QED
          BY <4>1, <5>2, <2>1, <2>2, SMTT(20) DEF Stages
    <3>2. CASE on_error = FALSE
      <4>1. task' = "done" /\ events' = <<"exit", "close">>
        <5>1. Append(events, "close") = <<"exit", "close">>
          BY <2>1, ExitedClosed
        <5> QED
          BY <5>1, <2>9, <3>2, ErrorEmitted, Zenon
      <4>2. calls' = <<>>
        BY <2>1, <2>9, <3>2 DEF CallbackAfterError, Inv, Types
      <4> QED
        <5>1. \A o \in Output : reader'[o] # "run"
          BY <2>1, <2>2
        <5>2. AllEnded'
          BY <4>1, <4>2, <5>1 DEF AllEnded
        <5> QED
          BY <4>1, <5>2, <2>1, <2>2, SMTT(20) DEF Stages
    <3> QED
      BY <3>1, <3>2, Zenon DEF Inv, Types
  <2>10. Stages'
    BY <1>13, <2>8, <2>9 DEF Close
  <2> QED
    BY <2>2, <2>5, <2>6, <2>10 DEF Inv
<1>14. CASE UNCHANGED child_process
  <2>1. Types'
    BY <1>14 DEF child_process, Inv, Types
  <2>2. Counted'
    BY <1>14 DEF child_process, Inv, Counted
  <2>3. /\ BeforeExit' <=> BeforeExit
        /\ AfterExit' <=> AfterExit
    BY <1>14 DEF child_process, BeforeExit, AfterExit
  <2>4. /\ EndedEarly' <=> EndedEarly
        /\ AllEnded' <=> AllEnded
    BY <1>14 DEF child_process, EndedEarly, AllEnded, Called
  <2>5. Stages'
    BY <1>14, <2>3, <2>4 DEF child_process, Inv, Stages
  <2> QED
    BY <1>14, <2>1, <2>2, <2>5 DEF child_process, Inv
<1> QED
  BY <1>1, <1>2, <1>3, <1>4, <1>5, <1>6, <1>7, <1>8, <1>9, <1>10, <1>11, <1>12, <1>13,
     <1>14, SMTT(20) DEF ChildNext

----------------------------------------------------------------------------
LEMMA InvImplies ==
  ASSUME MaxChunks \in Nat, BufferSize \in Nat, Inv
  PROVE  OutputBeforeClose /\ CallbackOnce
<1>1. events \in {<<>>, <<"error">>, <<"exit">>, <<"exit", "error">>} \cup AfterClose
  BY DEF Inv, Stages, BeforeExit, AfterExit, EndedEarly, AllEnded, AfterClose
<1>2. events \in BoundedSeq({"exit", "close", "error"}, 3)
  <2> DEFINE E == {"exit", "close", "error"}
  <2>1. <<>> \in [1 .. 0 -> E]
    OBVIOUS
  <2>2. <<"error">> \in [1 .. 1 -> E] /\ <<"exit">> \in [1 .. 1 -> E]
    OBVIOUS
  <2>3. <<"exit", "error">> \in [1 .. 2 -> E]
    OBVIOUS
  <2>4. <<"exit", "close">> \in [1 .. 2 -> E]
    OBVIOUS
  <2>5. <<"exit", "close", "error">> \in [1 .. 3 -> E]
    OBVIOUS
  <2> HIDE DEF E
  <2>6. \E n \in 0 .. 3 : events \in [1 .. n -> E]
    <3>1. CASE events = <<>>
      BY <3>1, <2>1
    <3>2. CASE events \in {<<"error">>, <<"exit">>}
      BY <3>2, <2>2
    <3>3. CASE events = <<"exit", "error">>
      BY <3>3, <2>3
    <3>4. CASE events = <<"exit", "close">>
      BY <3>4, <2>4
    <3>5. CASE events = <<"exit", "close", "error">>
      BY <3>5, <2>5
    <3> QED
      BY <1>1, <3>1, <3>2, <3>3, <3>4, <3>5, Zenon DEF AfterClose
  <2>7. events \in BoundedSeq(E, 3)
    BY <2>6 DEF BoundedSeq, SeqOf
  <2> QED
    BY <2>7 DEF E
<1>3. calls \in BoundedSeq({"null", "error"}, 2)
  <2>1. calls = <<>> \/ Called(1) \/ Called(2)
    BY DEF Inv, Stages, BeforeExit, AfterExit, EndedEarly, AllEnded
  <2> QED
    <3>1. <<>> \in [1 .. 0 -> {"null", "error"}]
      OBVIOUS
    <3>2. \E n \in 0 .. 2 : calls \in [1 .. n -> {"null", "error"}]
      <4>1. CASE calls = <<>>
        BY <4>1, <3>1
      <4>2. CASE Called(1)
        BY <4>2 DEF Called
      <4>3. CASE Called(2)
        BY <4>3 DEF Called
      <4> QED
        BY <2>1, <4>1, <4>2, <4>3
    <3> QED
      BY <3>2 DEF BoundedSeq, SeqOf
<1>4. /\ wrote \in [Output -> 0 .. MaxChunks] /\ taken \in [Output -> 0 .. MaxChunks]
      /\ got \in [Output -> 0 .. MaxChunks] /\ queued \in [Output -> 0 .. BufferSize]
  BY DEF Inv, Types, Counted
<1>5. task \in {"error", "wait", "stderr", "stdout", "done"}
  BY DEF Inv, Stages, BeforeExit, AfterExit, EndedEarly, AllEnded
<1>6. ChildTypeOK
  BY <1>2, <1>3, <1>4, <1>5 DEF Inv, Types, ChildTypeOK
<1>7. "close" \in Range(events) => events \in AfterClose
  BY <1>1 DEF Range
<1>8. ASSUME events \in AfterClose, NEW o \in Output
      PROVE  /\ reader[o] # "run"
             /\ reader[o] = "ended" =>
                  /\ ~Writers
                  /\ got[o] + queued[o] = wrote[o]
                  /\ mode[o] = "data" => got[o] = wrote[o]
  <2>1. reader[o] # "run"
    BY <1>8 DEF Inv, Stages, BeforeExit, AfterExit, EndedEarly, AllEnded, AfterClose
  <2> QED
    BY <2>1 DEF Inv, Types, Counted, Writers
<1>9. OutputBeforeClose
  BY <1>6, <1>7, <1>8 DEF OutputBeforeClose
<1>10. CallbackOnce
  <2>1. ASSUME calls = <<>> PROVE ~(Len(calls) > 1)
    BY <2>1
  <2>2. ASSUME Called(1) PROVE ~(Len(calls) > 1)
    <3>1. Len(calls) = 1
      BY <2>2, OneCall, Zenon DEF Called
    <3> QED
      BY <3>1
  <2> QED
    BY <2>1, <2>2 DEF Inv, Stages, BeforeExit, AfterExit, EndedEarly, AllEnded, CallbackOnce
<1> QED
  BY <1>9, <1>10

(* "close" comes when the output is complete: nothing is lost between the  *)
(* pipe, the buffer and the listeners, whatever holds the pipe open; and   *)
(* execFile() calls back once, unless a listener of "close" throws.        *)
THEOREM ChildProcessSafe ==
  ASSUME MaxChunks \in Nat, BufferSize \in Nat
  PROVE  ChildSpec => []CloseMeansAll
<1>1. ChildInit => Inv
  BY InitInv
<1>2. Inv /\ [ChildNext]_child_process => Inv'
  BY StepInv
<1>3. Inv => CloseMeansAll
  BY InvImplies DEF CloseMeansAll
<1> QED
  BY <1>1, <1>2, <1>3, PTL DEF ChildSpec
=============================================================================
