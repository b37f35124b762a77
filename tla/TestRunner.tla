---------------------------- MODULE TestRunner -----------------------------
(***************************************************************************)
(* The test runner of llrt_core/src/modules/js/@llrt/test: the TestServer  *)
(* of index.ts, one worker process per test file (worker.ts), and the      *)
(* socket on which a worker asks and waits for each answer                 *)
(* (SocketClient.ts).                                                      *)
(*                                                                         *)
(* A file has a suite "root" with a test "t" and a suite "s" with a test   *)
(* "u".  A test stands for its body and the hooks around it.  Times are    *)
(* left out: a timer may fire whenever what it watches takes long.         *)
(***************************************************************************)
EXTENDS Integers, Sequences, SequencesExt, FiniteSets

CONSTANTS FileList,      \* the test files, in order
          WorkerCount,
          MaxFaults      \* bound: tests and hooks that go wrong, crashes

VARIABLES wk,   \* the workers
          sv,   \* what the server keeps of each worker
          g     \* the server

vars == <<wk, sv, g>>
Files == Range(FileList)

Send(type, of) == [do |-> "send", type |-> type, of |-> of, fail |-> 0]
Run(of, fail) == [do |-> "run", type |-> "", of |-> of, fail |-> fail]

(* start(), runRootSuite(), runSuite() and runTests(), with the step that  *)
(* follows the error message when a step throws.                           *)
Script ==
  << Send("ready", ""), Run("import", 18), Send("module", ""), Send("start", "root"),
     Run("root", 18), Send("start", "t"), Run("t", 9), Send("end", "t"),
     Send("start", "s"), Run("s", 16), Send("start", "u"), Run("u", 14), Send("end", "u"),
     Run("s", 16), Send("end", "s"), Run("root", 18), Send("end", "root"),
     Send("completed", "") >>
Completed == 18
Closing == 19
Tests == {"t", "u"}
IsSuite(x) == x \in {"root", "s"}

NoMsg == [type |-> "none", of |-> ""]

NewWorker == [pc |-> 1, state |-> "none", error |-> 0, wire |-> NoMsg, waits |-> FALSE,
              code |-> 0, bad |-> FALSE, quits |-> FALSE]
NewData == [spawned |-> FALSE, completed |-> FALSE, success |-> TRUE, watched |-> FALSE,
            test |-> "none", result |-> <<>>, child |-> FALSE, writing |-> FALSE,
            conn |-> FALSE, exitTimer |-> FALSE, onExit |-> FALSE, exited |-> FALSE,
            misplaced |-> FALSE]

(* spawnWorkers()                                                          *)
Active(s) == Cardinality({f \in Files : s[f].spawned /\ ~s[f].completed})
ToSpawn(s) == LET waiting == SelectSeq(FileList, LAMBDA f : ~s[f].spawned)
                  room == WorkerCount - Active(s)
              IN  Range(SubSeq(waiting, 1, IF room < Len(waiting) THEN room ELSE Len(waiting)))
Spawned(s) ==
  [f \in Files |-> IF f \in ToSpawn(s)
                   THEN [s[f] EXCEPT !.spawned = TRUE, !.watched = TRUE, !.child = TRUE,
                                     !.conn = TRUE]
                   ELSE s[f]]
Started(w, s) ==
  [f \in Files |-> IF s[f].spawned /\ w[f].state = "none"
                   THEN [w[f] EXCEPT !.state = "alive"] ELSE w[f]]

NewServer == [printed |-> FALSE, pending |-> FALSE, over |-> "no", faults |-> 0]

Init ==
  /\ g = NewServer
  /\ sv = Spawned([f \in Files |-> NewData])
  /\ wk = Started([f \in Files |-> NewWorker], sv)

Becomes(w, s, h) == g.over = "no" /\ wk' = Started(w, s) /\ sv' = s /\ g' = h

----------------------------------------------------------------------------
(* The worker.                                                             *)

Alive(f) == wk[f].state = "alive"
Step(f) == Script[wk[f].pc]
AtRun(f) == Alive(f) /\ wk[f].pc < Closing /\ ~wk[f].waits /\ wk[f].error = 0
            /\ Step(f).do = "run"
Fault == [g EXCEPT !.faults = @ + 1]

WorkerSends(f) ==
  /\ Alive(f) /\ ~wk[f].waits /\ wk[f].pc < Closing
  /\ wk[f].error # 0 \/ Step(f).do = "send"
  /\ LET msg == IF wk[f].error # 0 THEN [type |-> "error", of |-> Step(f).of]
                ELSE [type |-> Step(f).type, of |-> Step(f).of]
     IN  Becomes([wk EXCEPT ![f].wire = msg, ![f].waits = TRUE], sv, g)

(* A test or hook returns, throws (or runs into its own timeout), or never *)
(* gives way to its timers.                                                *)
RunOk(f) == AtRun(f) /\ Becomes([wk EXCEPT ![f].pc = @ + 1], sv, g)
RunFails(f) ==
  /\ AtRun(f) /\ g.faults < MaxFaults
  /\ Becomes([wk EXCEPT ![f].error = Step(f).fail, ![f].bad = TRUE], sv, Fault)
RunHangs(f) ==
  /\ AtRun(f) /\ g.faults < MaxFaults
  /\ Becomes([wk EXCEPT ![f].state = "hung", ![f].bad = TRUE], sv, Fault)

(* The process may end at any time once test code has run; after the last  *)
(* answer it ends by itself.                                               *)
Dies(f, code) ==
  /\ Alive(f) /\ wk[f].pc \in 2 .. Completed /\ g.faults < MaxFaults
  /\ Becomes([wk EXCEPT ![f].state = "dead", ![f].code = code,
                        ![f].quits = @ \/ code = 0,
                        ![f].bad = @ \/ wk[f].pc < Completed], sv, Fault)
Ends(f) ==
  /\ Alive(f) /\ wk[f].pc = Closing
  /\ Becomes([wk EXCEPT ![f].state = "dead"], sv, g)
Lingers(f) ==
  /\ Alive(f) /\ wk[f].pc = Closing /\ g.faults < MaxFaults
  /\ Becomes([wk EXCEPT ![f].state = "hung"], sv, Fault)

Killed(w, f) == IF w[f].state \in {"alive", "hung"}
                THEN [w EXCEPT ![f].state = "dead", ![f].code = 1] ELSE w

----------------------------------------------------------------------------
(* The server.  Its callbacks are operators on the server's state.         *)

S(s, h) == [sv |-> s, g |-> h]

(* Planted fault: a failure between tests does not mark the file.          *)
HandleTestErrorFault(x, f, of) ==
  S([x.sv EXCEPT ![f].success = x.sv[f].test = "none",
                 ![f].test = "none"], x.g)

(* The error of a test is the test's; any other is that of the suite the   *)
(* server holds open.                                                      *)
HandleTestError(x, f, of) ==
  LET d == x.sv[f]
  IN  S([x.sv EXCEPT ![f].success = FALSE, ![f].test = "none",
                     ![f].misplaced = @ \/ (d.test = "none" /\ d.result # <<>>
                                            /\ IsSuite(of) /\ Last(d.result) # of)], x.g)

ShutdownOrPrint(x, f) ==
  IF x.g.printed \/ \E e \in Files : ~x.sv[e].completed THEN x
  ELSE S(x.sv, [x.g EXCEPT !.printed = TRUE, !.pending = x.sv[f].writing,
                           !.over = IF x.sv[f].writing THEN @ ELSE "closed"])

(* Planted fault: the report waits for an exit that has been seen.         *)
HandleWorkerCompletedFault(x, f) ==
  IF x.sv[f].completed THEN x
  ELSE LET s == [x.sv EXCEPT ![f].completed = TRUE, ![f].exitTimer = x.sv[f].child,
                             ![f].onExit = TRUE]
       IN  S(Spawned(s), x.g)

HandleWorkerCompleted(x, f) ==
  IF x.sv[f].completed THEN x
  ELSE LET s == [x.sv EXCEPT ![f].completed = TRUE, ![f].exitTimer = x.sv[f].child,
                             ![f].onExit = x.sv[f].child]
           y == IF x.sv[f].child THEN S(s, x.g) ELSE ShutdownOrPrint(S(s, x.g), f)
       IN  S(Spawned(y.sv), y.g)

Crashed(x) == S(x.sv, [x.g EXCEPT !.over = "crashed"])

(* handleData(): a message that finds no test running is a TypeError,      *)
(* which ends the runner.                                                  *)
Start(x, f, of) ==
  IF IsSuite(of) THEN S([x.sv EXCEPT ![f].result = Append(@, of)], x.g)
  ELSE S([x.sv EXCEPT ![f].test = of], x.g)

End(x, f, of) ==
  LET y == S([x.sv EXCEPT ![f].watched = FALSE], x.g)
  IN  CASE IsSuite(of) -> S([y.sv EXCEPT ![f].result = Front(@)], y.g)
        [] ~IsSuite(of) /\ x.sv[f].test = "none" -> Crashed(y)
        [] OTHER -> S([y.sv EXCEPT ![f].test = "none"], y.g)

HandleData(x, f, msg) ==
  LET y == S([x.sv EXCEPT ![f].watched = TRUE], x.g)
  IN  CASE msg.type = "ready" -> S([y.sv EXCEPT ![f].conn = FALSE], y.g)
        [] msg.type = "start" -> Start(y, f, msg.of)
        [] msg.type = "end" -> End(y, f, msg.of)
        [] msg.type = "error" -> HandleTestError(y, f, msg.of)
        [] msg.type = "completed" -> HandleWorkerCompleted(y, f)
        [] OTHER -> y

Data(f) ==
  /\ wk[f].wire # NoMsg
  /\ LET x == HandleData(S(sv, g), f, wk[f].wire)
     IN  Becomes([wk EXCEPT ![f].wire = NoMsg],
                 [x.sv EXCEPT ![f].writing = TRUE], x.g)

(* The answer is written; a shutdown that waited for it goes on.           *)
Answered(f) ==
  /\ sv[f].writing
  /\ LET w == IF Alive(f) THEN [wk EXCEPT ![f].waits = FALSE, ![f].error = 0,
                                  ![f].pc = IF wk[f].error # 0 THEN wk[f].error ELSE @ + 1]
              ELSE wk
     IN  Becomes(w, [sv EXCEPT ![f].writing = FALSE],
                 IF g.pending THEN [g EXCEPT !.pending = FALSE, !.over = "closed"] ELSE g)

(* The process is gone before the answer: a socket error ends the runner.  *)
WriteFails(f) ==
  /\ sv[f].writing /\ wk[f].state = "dead"
  /\ Becomes(wk, [sv EXCEPT ![f].writing = FALSE], [g EXCEPT !.over = "crashed"])

Exit(f) ==
  /\ wk[f].state = "dead" /\ ~sv[f].exited
  /\ LET s == [sv EXCEPT ![f].child = FALSE, ![f].exited = TRUE, ![f].exitTimer = FALSE,
                         ![f].onExit = FALSE]
         x == IF ~sv[f].completed /\ wk[f].code # 0 THEN HandleTestError(S(s, g), f, "")
              ELSE S(s, g)
         y == IF sv[f].completed THEN x ELSE HandleWorkerCompleted(x, f)
         z == IF sv[f].onExit THEN ShutdownOrPrint(y, f) ELSE y
     IN  Becomes(wk, z.sv, z.g)

(* What tick() watches may be slow wherever the worker runs test code, and *)
(* its next message may already be on the way.                             *)
Slow(f) == wk[f].state = "hung" \/ wk[f].wire.type \in {"end", "error"} \/ AtRun(f)

TickFinds(f) ==
  /\ sv[f].spawned /\ ~sv[f].completed /\ sv[f].watched /\ Slow(f)
  /\ LET x == HandleTestError(S(sv, g), f, "")
         y == HandleWorkerCompleted(S([x.sv EXCEPT ![f].child = FALSE], x.g), f)
     IN  Becomes([Killed(wk, f) EXCEPT ![f].bad = TRUE], y.sv, y.g)

ConnectionTimeout(f) ==
  /\ sv[f].conn /\ Alive(f) /\ wk[f].pc = 1 /\ g.faults < MaxFaults
  /\ Becomes([Killed(wk, f) EXCEPT ![f].bad = TRUE], [sv EXCEPT ![f].conn = FALSE], Fault)

ExitTimeout(f) ==
  /\ sv[f].exitTimer /\ wk[f].state # "dead"
  /\ LET x == HandleTestError(S([sv EXCEPT ![f].exitTimer = FALSE], g), f, "")
         y == ShutdownOrPrint(x, f)
     IN  Becomes(Killed(wk, f), y.sv, y.g)

Next ==
  \E f \in Files :
    \/ WorkerSends(f) \/ RunOk(f) \/ RunFails(f) \/ RunHangs(f)
    \/ Dies(f, 0) \/ Dies(f, 1) \/ Ends(f) \/ Lingers(f)
    \/ Data(f) \/ Answered(f) \/ WriteFails(f) \/ Exit(f)
    \/ TickFinds(f) \/ ConnectionTimeout(f) \/ ExitTimeout(f)

Spec == Init /\ [][Next]_vars

----------------------------------------------------------------------------
TypeOK ==
  /\ g.over \in {"no", "closed", "crashed"} /\ g.faults \in 0 .. MaxFaults
  /\ \A f \in Files : wk[f].pc \in 1 .. Closing
                      /\ wk[f].state \in {"none", "alive", "hung", "dead"}
                      /\ sv[f].test \in Tests \cup {"none"}

(* A file is reported as passed only if its worker ran to the end and      *)
(* nothing in it failed, hung or crashed, whatever the order of messages,  *)
(* exits and timeouts; the exception is test code that ends its process    *)
(* with code 0.  No more than WorkerCount files are worked on at a time,   *)
(* and a report is only printed when every file is done.                   *)
PassMeansPassed ==
  /\ TypeOK
  /\ Active(sv) <= WorkerCount
  /\ g.printed => \A f \in Files :
       /\ sv[f].completed
       /\ sv[f].success => wk[f].quits \/ (~wk[f].bad /\ wk[f].pc >= Completed)

(* A worker that hangs after an "end" is not watched: the time of its last *)
(* message has been reset.                                                 *)
Unwatched(f) == wk[f].state = "hung" /\ ~sv[f].watched /\ ~sv[f].completed

Moves(f) ==
  \/ Alive(f) /\ ~wk[f].waits
  \/ wk[f].wire # NoMsg \/ sv[f].writing
  \/ wk[f].state = "dead" /\ ~sv[f].exited
  \/ wk[f].state = "hung" /\ (sv[f].exitTimer \/ (sv[f].watched /\ ~sv[f].completed))

(* The runner never comes to a stop before its report, however its workers *)
(* fail: some message, answer, exit or timeout is always to come.  One gap *)
(* is left, a worker that hangs outside of a test.  As a worker only goes  *)
(* forward, the runner ends.                                               *)
RunnerGoesOn == g.over = "no" => \E f \in Files : Moves(f) \/ Unwatched(f)

(* handleTestError(), "Mark the currently-open suite as failed": the error *)
(* of a hook is put on the suite whose hook it is.                         *)
(* It does not hold; no run checks it (README).                            *)
HookErrorsInPlace == \A f \in Files : ~sv[f].misplaced
============================================================================
