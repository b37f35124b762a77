---------------------------- MODULE ChildProcess ----------------------------
(***************************************************************************)
(* A process started by spawn() or execFile(): the task of                 *)
(* ChildProcess::new, which waits for the process, emits "exit", waits for *)
(* the tasks that read its output and emits "close".  The process, what it *)
(* has forked, and the operating system's pipes are the environment.       *)
(*                                                                         *)
(* Output is counted in chunks.  A chunk is written to the pipe, taken by  *)
(* the reading task, and handed to the program: at once when it listens to *)
(* "data", through the stream's buffer otherwise.  NodeReadable has the    *)
(* detail of that task; here a chunk that it holds is still in the pipe.   *)
(***************************************************************************)
EXTENDS Naturals, Sequences, SequencesExt

CONSTANTS
  MaxChunks,  \* bound: the chunks written to one output
  PipeSize,   \* the chunks that fit between the writer and the buffer
  BufferSize  \* the chunks that fit in the stream's buffer

VARIABLES
  exec,      \* started by execFile(), which adds listeners of its own
  on_error,  \* the process object has an "error" listener
  mode,      \* per output: the listener that the program has added
  child,     \* "running", "exited" (a zombie), "reaped", or "failed" to start
  forked,    \* a process that the child started holds its outputs open
  cause,     \* why the child has ended
  wrote, taken, queued, got, \* per output, in chunks
  reader,    \* per output: the task of do_process; "none" when not piped
  task,      \* where the task of ChildProcess::new stands
  events,    \* the events of the process object
  calls,     \* the arguments `error` of execFile's callback
  stdin,     \* "open", then "ended" by the task
  runtime    \* "dead" when an error has ended the whole program

Output == {"stdout", "stderr"}
Modes == {"data", "readable", "none"}
Cause == {"zero", "nonzero", "signal"}

program == <<exec, on_error, mode>>
process == <<child, forked, cause>>
stream == <<wrote, taken, queued, got, reader>>
object == <<task, events, calls, stdin, runtime>>
child_process ==
  <<exec, on_error, mode, child, forked, cause, wrote, taken, queued, got,
    reader, task, events, calls, stdin, runtime>>

Alive == runtime = "alive"
Writers == child = "running" \/ forked

\* ChildProcess::new: the outputs that are piped get a reading task each, and
\* a task waits for the process, or says that it has not started.
New ==
  /\ reader \in IF child = "failed" THEN [Output -> {"none"}] ELSE [Output -> {"none", "run"}]
  /\ task = IF child = "failed" THEN "error" ELSE "wait"
  /\ stdin = "open"

\* spawn().  execFile() adds a "data" listener to both outputs, and listens to
\* "close" and "error".
ChildInit ==
  /\ exec \in BOOLEAN /\ on_error \in BOOLEAN
  /\ mode \in [Output -> IF exec THEN {"data"} ELSE Modes]
  /\ exec => on_error
  /\ child \in {"running", "failed"}
  /\ forked = FALSE /\ cause = "none"
  /\ wrote = [o \in Output |-> 0] /\ taken = wrote /\ queued = wrote /\ got = wrote
  /\ New
  /\ events = <<>> /\ calls = <<>> /\ runtime = "alive"

---------------------------------------------------------------------------
(* The process and its descendants *)

Fork ==
  /\ child = "running" /\ ~forked /\ cause = "none"
  /\ forked' = TRUE
  /\ UNCHANGED <<program, child, cause, stream, object>>

ForkExits ==
  /\ forked
  /\ forked' = FALSE
  /\ UNCHANGED <<program, child, cause, stream, object>>

\* A write waits while the pipe is full.
Write(o) ==
  /\ Writers
  /\ reader[o] = "run"
  /\ wrote[o] < MaxChunks
  /\ wrote[o] - taken[o] < PipeSize
  /\ wrote' = [wrote EXCEPT ![o] = @ + 1]
  /\ UNCHANGED <<program, process, taken, queued, got, reader, object>>

Exit(why) ==
  /\ child = "running"
  /\ child' = "exited" /\ cause' = why
  /\ UNCHANGED <<program, forked, stream, object>>

---------------------------------------------------------------------------
(* The reading tasks and the program's read() *)

\* A chunk for a "data" listener is delivered; else it goes to the buffer, if
\* that has room.
ReaderMoves(o) ==
  /\ Alive
  /\ reader[o] = "run"
  /\ taken[o] < wrote[o]
  /\ taken' = [taken EXCEPT ![o] = @ + 1]
  /\ \/ /\ mode[o] = "data"
        /\ got' = [got EXCEPT ![o] = @ + 1]
        /\ UNCHANGED queued
     \/ /\ mode[o] # "data"
        /\ queued[o] < BufferSize
        /\ queued' = [queued EXCEPT ![o] = @ + 1]
        /\ UNCHANGED got
  /\ UNCHANGED <<program, process, wrote, reader, object>>

\* End of file: nobody holds the pipe open and it is empty.
ReaderEnds(o) ==
  /\ Alive
  /\ reader[o] = "run"
  /\ ~Writers /\ taken[o] = wrote[o]
  /\ reader' = [reader EXCEPT ![o] = "ended"]
  /\ UNCHANGED <<program, process, wrote, taken, queued, got, object>>

\* The program destroys the stream: its task ends wherever it is.
DestroyOutput(o) ==
  /\ Alive
  /\ reader[o] = "run"
  /\ reader' = [reader EXCEPT ![o] = "destroyed"]
  /\ UNCHANGED <<program, process, wrote, taken, queued, got, object>>

\* read()
Read(o) ==
  /\ Alive
  /\ mode[o] = "readable"
  /\ queued[o] > 0
  /\ queued' = [queued EXCEPT ![o] = 0]
  /\ got' = [got EXCEPT ![o] = @ + queued[o]]
  /\ UNCHANGED <<program, process, wrote, taken, reader, object>>

---------------------------------------------------------------------------
(* The process object *)

\* kill() with a signal that ends the process.  To a process that is gone, and
\* with signal 0, kill() returns or throws without any effect.
Kill ==
  /\ Alive
  /\ child = "running"
  /\ child' = "exited" /\ cause' = "signal"
  /\ UNCHANGED <<program, forked, stream, object>>

\* The code in the arguments of "exit" and "close".
ExitCode(why) ==
  CASE why = "zero" -> "0" [] why = "nonzero" -> "nonzero" [] why = "signal" -> "null"

\* execFile's "close" listener: an error for a code other than 0.
CallbackError(why) == IF ExitCode(why) = "nonzero" THEN "error" ELSE "null"

\* A failure of the task: "error" is emitted, or the program ends.
EmitError(before) ==
  /\ task' = "done"
  /\ \/ /\ on_error
        /\ events' = before \o <<"error">>
        /\ \/ runtime' = "alive"
           \/ runtime' = "dead"
     \/ ~on_error /\ events' = before /\ runtime' = "dead"

\* execFile's "error" listener.
CallbackAfterError(before) == IF exec THEN Append(before, "error") ELSE before

\* The task when the process could not be started.
SpawnError ==
  /\ Alive /\ task = "error"
  /\ EmitError(events)
  /\ calls' = CallbackAfterError(calls)
  /\ UNCHANGED <<program, process, stream, stdin>>

WaitFault ==
  /\ Alive /\ task = "wait"
  /\ child = "exited"
  /\ child' = "reaped"
  /\ events' = Append(events, "exit")
  /\ task' = "stdout"
  /\ UNCHANGED <<runtime, calls, program, forked, cause, stream, stdin>>

\* wait_for_process returns, and "exit" is emitted.  When a listener throws the
\* task ends in an error.
Wait ==
  /\ Alive /\ task = "wait"
  /\ child = "exited"
  /\ child' = "reaped"
  /\ \/ /\ events' = Append(events, "exit")
        /\ task' = "stderr"
        /\ UNCHANGED <<runtime, calls>>
     \/ /\ EmitError(Append(events, "exit"))
        /\ calls' = CallbackAfterError(calls)
  /\ UNCHANGED <<program, forked, cause, stream, stdin>>

\* stderr_join_receiver.await: there is none when stderr is not piped, and a
\* stream that was destroyed also ends its task.
AwaitStderr ==
  /\ Alive /\ task = "stderr"
  /\ reader["stderr"] # "run"
  /\ task' = "stdout"
  /\ UNCHANGED <<program, process, stream, events, calls, stdin, runtime>>

\* drain(): a "readable" listener is told once more about what is buffered, and
\* may read it.
Drain ==
  \E reads \in SUBSET {o \in Output : mode[o] = "readable" /\ queued[o] > 0} :
    /\ queued' = [o \in Output |-> IF o \in reads THEN 0 ELSE queued[o]]
    /\ got' = [o \in Output |-> IF o \in reads THEN got[o] + queued[o] ELSE got[o]]

\* stdout_join_receiver.await, then in one go: end stdin, drain the streams,
\* emit "close", where execFile() calls back.
Close ==
  /\ Alive /\ task = "stdout"
  /\ reader["stdout"] # "run"
  /\ stdin' = "ended"
  /\ Drain
  /\ LET called == IF exec THEN Append(calls, CallbackError(cause)) ELSE calls
     IN  \/ /\ events' = Append(events, "close") /\ task' = "done"
            /\ calls' = called
            /\ UNCHANGED runtime
         \/ /\ EmitError(Append(events, "close"))
            /\ calls' = CallbackAfterError(called)
  /\ UNCHANGED <<program, process, wrote, taken, reader>>

ChildNext ==
  \/ Fork
  \/ ForkExits
  \/ \E o \in Output : Write(o)
  \/ \E why \in Cause : Exit(why)
  \/ \E o \in Output : ReaderMoves(o)
  \/ \E o \in Output : ReaderEnds(o)
  \/ \E o \in Output : DestroyOutput(o)
  \/ \E o \in Output : Read(o)
  \/ Kill
  \/ SpawnError
  \/ Wait
  \/ AwaitStderr
  \/ Close

ChildSpec == ChildInit /\ [][ChildNext]_child_process

\* The process and what it forked end at some time, a program that listens to
\* "readable" reads, and a task that can run does.
Exits == \E why \in Cause : Exit(why)
ChildOwed ==
  \/ ForkExits
  \/ \E o \in Output : ReaderMoves(o) \/ ReaderEnds(o) \/ Read(o)
  \/ SpawnError \/ Wait \/ AwaitStderr \/ Close

ChildFairSpec == ChildSpec /\ WF_child_process(Exits) /\ WF_child_process(ChildOwed)

---------------------------------------------------------------------------

ChildTypeOK ==
  /\ exec \in BOOLEAN /\ on_error \in BOOLEAN
  /\ mode \in [Output -> Modes]
  /\ child \in {"running", "exited", "reaped", "failed"}
  /\ forked \in BOOLEAN /\ cause \in Cause \cup {"none"}
  /\ wrote \in [Output -> 0..MaxChunks]
  /\ taken \in [Output -> 0..MaxChunks] /\ got \in [Output -> 0..MaxChunks]
  /\ queued \in [Output -> 0..BufferSize]
  /\ reader \in [Output -> {"none", "run", "ended", "destroyed"}]
  /\ task \in {"error", "wait", "stderr", "stdout", "done"}
  /\ events \in BoundedSeq({"exit", "close", "error"}, 3)
  /\ calls \in BoundedSeq({"null", "error"}, 2)
  /\ stdin \in {"open", "ended"}
  /\ runtime \in {"alive", "dead"}

\* "close" comes when the output is complete: no stream is still being read, so
\* "data" and "end" have all been emitted; every chunk that the process, or
\* one that it forked, wrote to a stream nobody destroyed has reached the
\* program or lies in the buffer for it, nobody can write any more, and a "data"
\* listener has been given all of it.
OutputBeforeClose ==
  /\ ChildTypeOK
  /\ "close" \in Range(events) =>
       \A o \in Output :
         /\ reader[o] # "run"
         /\ reader[o] = "ended" =>
              /\ ~Writers
              /\ got[o] + queued[o] = wrote[o]
              /\ mode[o] = "data" => got[o] = wrote[o]

\* execFile() calls back once: the listeners of "close" and "error" never both
\* get their event, unless a listener of "close", such as the callback itself,
\* has thrown.
CallbackOnce == Len(calls) > 1 => events = <<"exit", "close", "error">>

\* "close" comes after everything the process has written has been handed to
\* the program, and execFile()'s callback is called once.
CloseMeansAll == OutputBeforeClose /\ CallbackOnce

Closed ==
  (\A o \in Output : mode[o] # "none") =>
    runtime = "dead" \/ Range(events) \cap {"close", "error"} # {}

\* Once the process has ended, and everything that holds its output open,
\* "close" is emitted; one that could not be started reports an error.  An
\* output that the program does not consume may keep it from ending.
Closes == []<>Closed
=============================================================================
