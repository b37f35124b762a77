---------------------------- MODULE NodeWritable ----------------------------
(***************************************************************************)
(* The writable half of the Node-style streams (sockets, the input of      *)
(* child processes).  write() and end() put commands on an unbounded       *)
(* channel; the task of WritableStream::process takes them off one by one, *)
(* writes the data through a BufWriter to the sink and calls the callback  *)
(* of each write.  destroy() reaches the task over a channel of its own.   *)
(*                                                                         *)
(* Writes are numbered in the order of the calls; the data of a write is   *)
(* its number.  NetSocket joins this half to the readable one.             *)
(***************************************************************************)
EXTENDS Naturals, Sequences, SequencesExt

CONSTANTS
  MaxWrites,  \* bound: calls of write()
  Flushed     \* is every write flushed (sockets) or not (child processes)?

VARIABLES
  is_finished,
  is_destroyed,
  commands,     \* the channel: write numbers, and 0 for WriteCommand::End
  receiver,     \* its receiver: "inner", "task" or "dropped"
  destroy_rx,   \* the message that waits in the task's receiver
  task,         \* where process() stands
  skipped,      \* is_finished when process() was called
  buffered,     \* the BufWriter
  sink,         \* what has reached the sink
  issued,       \* writes so far
  callbacks,    \* how the callback of each write was called
  ended_at,     \* writes issued when end() was called
  finish        \* "finish" has been emitted

program == <<is_finished, issued, ended_at>>
output == <<buffered, sink>>
vars == <<is_finished, is_destroyed, commands, receiver, destroy_rx, task,
          skipped, buffered, sink, issued, callbacks, ended_at, finish>>

Writes == 1..MaxWrites

\* WritableStreamInner::new.
Init ==
  /\ is_finished = FALSE /\ is_destroyed = FALSE
  /\ commands = <<>> /\ receiver = "inner" /\ destroy_rx = "empty"
  /\ task = "none" /\ skipped = FALSE
  /\ buffered = <<>> /\ sink = <<>>
  /\ issued = 0
  /\ callbacks = [w \in Writes |-> "none"]
  /\ ended_at = 0
  /\ finish = FALSE

---------------------------------------------------------------------------
(* The program's calls *)

\* write(): queued, or its callback called with an error at once when the
\* receiver is gone.
Write ==
  /\ issued < MaxWrites
  /\ issued' = issued + 1
  /\ IF receiver = "dropped"
     THEN /\ callbacks' = [callbacks EXCEPT ![issued'] = "error"]
          /\ UNCHANGED commands
     ELSE /\ commands' = Append(commands, issued')
          /\ UNCHANGED callbacks
  /\ UNCHANGED <<is_finished, is_destroyed, receiver, destroy_rx, task, skipped,
                 output, ended_at, finish>>

\* end(): once.
End ==
  /\ ~is_finished
  /\ is_finished' = TRUE
  /\ ended_at' = issued
  /\ commands' = IF receiver = "dropped" THEN commands ELSE Append(commands, 0)
  /\ UNCHANGED <<is_destroyed, receiver, destroy_rx, task, skipped, output, issued,
                 callbacks, finish>>

\* destroy(): has no effect after end().
Destroy(err) ==
  /\ ~is_finished
  /\ is_finished' = TRUE
  /\ is_destroyed' = TRUE
  /\ destroy_rx' = IF receiver = "task" THEN err ELSE destroy_rx
  /\ UNCHANGED <<commands, receiver, task, skipped, output, issued, callbacks,
                 ended_at, finish>>

\* process(): takes the receiver, notes whether the stream is finished, and
\* spawns the task.
Process ==
  /\ task = "none"
  /\ receiver = "inner"
  /\ receiver' = "task"
  /\ task' = "spawned"
  /\ skipped' = is_finished
  /\ UNCHANGED <<program, is_destroyed, commands, destroy_rx, output, callbacks, finish>>

---------------------------------------------------------------------------
(* The task *)

\* The writer is dropped with what it still holds, and "finish" is emitted
\* unless the stream was destroyed.
Leave(destroyed) ==
  /\ task' = IF destroyed /\ destroy_rx = "error" THEN "failing" ELSE "leaving"
  /\ finish' = ~destroyed

\* A stream that was finished when process() was called is left at once.
StartTask ==
  /\ task = "spawned"
  /\ IF skipped
     THEN Leave(is_destroyed)
     ELSE task' = "select" /\ UNCHANGED finish
  /\ UNCHANGED <<program, is_destroyed, commands, receiver, destroy_rx, skipped,
                 output, callbacks>>

\* The branch of the commands.  While a command is carried out nothing else
\* is looked at.
TakeCommand ==
  /\ task = "select"
  /\ commands # <<>>
  /\ task' = IF Head(commands) = 0 THEN "shutdown" ELSE "writing"
  /\ UNCHANGED <<program, is_destroyed, commands, receiver, destroy_rx, skipped,
                 output, callbacks, finish>>

\* The first n pieces of the BufWriter go to the sink.
FlushOut(pieces, n) ==
  /\ sink' = sink \o SubSeq(pieces, 1, n)
  /\ buffered' = SubSeq(pieces, n + 1, Len(pieces))

\* write_all, and flush() for a socket; the callback is called.  A BufWriter
\* passes on what it has no room for.
WriteSucceeds ==
  LET pieces == Append(buffered, Head(commands))
  IN /\ task = "writing"
     /\ \E n \in 0..Len(pieces) :
          /\ Flushed => n = Len(pieces)
          /\ FlushOut(pieces, n)
     /\ callbacks' = [callbacks EXCEPT ![Head(commands)] = "ok"]
     /\ commands' = Tail(commands)
     /\ task' = "select"
     /\ UNCHANGED <<program, is_destroyed, receiver, destroy_rx, skipped, finish>>

\* The callback is called with the error, which then ends the task.
WriteFails ==
  /\ task = "writing"
  /\ callbacks' = [callbacks EXCEPT ![Head(commands)] = "error"]
  /\ commands' = Tail(commands)
  /\ task' = "failing"
  /\ UNCHANGED <<program, is_destroyed, receiver, destroy_rx, skipped, output, finish>>

\* WriteCommand::End: the writer is flushed and shut down.
Shutdown ==
  /\ task = "shutdown"
  /\ FlushOut(buffered, Len(buffered))
  /\ Leave(FALSE)
  /\ commands' = Tail(commands)
  /\ UNCHANGED <<program, is_destroyed, receiver, destroy_rx, skipped, callbacks>>

\* The sink fails while it is shut down.
ShutdownFails ==
  /\ task = "shutdown"
  /\ task' = "failing"
  /\ commands' = Tail(commands)
  /\ UNCHANGED <<program, is_destroyed, receiver, destroy_rx, skipped, output,
                 callbacks, finish>>

\* The branch of destroy().
MeetsDestroy ==
  /\ task = "select"
  /\ destroy_rx # "empty"
  /\ Leave(TRUE)
  /\ UNCHANGED <<program, is_destroyed, commands, receiver, destroy_rx, skipped,
                 output, callbacks>>

\* After "finish" and its listeners: the receiver goes with the task, and the
\* commands left in the channel with the receiver; an error is emitted.
EndTask ==
  /\ task \in {"leaving", "failing"}
  /\ task' = IF task = "leaving" THEN "ended" ELSE "failed"
  /\ receiver' = "dropped"
  /\ commands' = <<>>
  /\ UNCHANGED <<program, is_destroyed, destroy_rx, skipped, output, callbacks, finish>>

Task ==
  \/ StartTask \/ TakeCommand \/ WriteSucceeds \/ WriteFails \/ Shutdown
  \/ ShutdownFails \/ MeetsDestroy \/ EndTask

---------------------------------------------------------------------------
(* Properties *)

TypeOK ==
  /\ {is_finished, is_destroyed, skipped, finish} \subseteq BOOLEAN
  /\ commands \in Seq(0..MaxWrites)
  /\ receiver \in {"inner", "task", "dropped"}
  /\ destroy_rx \in {"empty", "plain", "error"}
  /\ task \in {"none", "spawned", "select", "writing", "shutdown", "leaving",
               "failing", "ended", "failed"}
  /\ buffered \in Seq(Writes) /\ sink \in Seq(Writes)
  /\ issued \in 0..MaxWrites /\ ended_at \in 0..MaxWrites
  /\ callbacks \in [Writes -> {"none", "ok", "error"}]

\* The sink gets the data in the order of the write() calls, with no gap.  The
\* callback of a socket's write is called without an error only when the data
\* has left the process; and "finish" means that everything written before
\* end() has, unless end() came before process().
WritesArrive ==
  /\ IsPrefix(sink \o buffered, [w \in Writes |-> w])
  /\ Flushed => \A w \in Writes : callbacks[w] = "ok" => w \in ToSet(sink)
  /\ (finish /\ ~skipped) => \A w \in 1..ended_at : w \in ToSet(sink)
=============================================================================
