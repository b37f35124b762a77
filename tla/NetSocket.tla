------------------------------ MODULE NetSocket ------------------------------
(***************************************************************************)
(* A socket of the net module: the two halves of a Node-style stream, the  *)
(* task that connects it or the server's task that accepted it, and the    *)
(* "close" event that follows the end of both halves.                      *)
(*                                                                         *)
(* The halves meet in three places.  Both tasks are started by             *)
(* process_stream; the end of the reading half ends the writing half,      *)
(* unless the socket may stay half open; destroy() is called on both.      *)
(* The program is supposed to listen to "error": without a listener the    *)
(* process ends with the first error, and there is nothing left to show.   *)
(* It calls connect() once.                                                *)
(***************************************************************************)
EXTENDS Naturals, Sequences

CONSTANTS
  SourceLen,   \* bound: the bytes that the peer sends
  Capacity,    \* the initial capacity of the reading buffer
  MaxCapacity, \* bound: the capacity that read(size) may ask for
  MaxWrites    \* bound: calls of write()

ASSUME BoundsAssumption ==
  /\ SourceLen \in Nat /\ Capacity \in Nat \ {0} /\ MaxCapacity \in Nat
  /\ Capacity <= MaxCapacity
  /\ MaxWrites \in Nat

VARIABLES
  \* The socket.
  connect,          \* where the task of connect(), or of the server, stands
  destroyed,        \* Socket.destroyed
  allow_half_open,
  had_error,        \* the argument of "close"
  \* The reading half.
  r_state, r_listening, r_is_destroyed, r_queue, r_max_capacity, r_closed,
  r_permit, r_taken, r_task, r_chunk, r_slice_index, r_polled, r_last_state,
  r_destroy_rx, r_attached_rx, r_delivered, r_switched,
  \* The writing half.
  w_is_finished, w_is_destroyed, w_commands, w_receiver, w_destroy_rx, w_task,
  w_skipped, w_buffered, w_sink, w_issued, w_callbacks, w_ended_at, w_finish

R == INSTANCE NodeReadable WITH
       state <- r_state, listening <- r_listening,
       is_destroyed <- r_is_destroyed, queue <- r_queue,
       max_capacity <- r_max_capacity, closed <- r_closed, permit <- r_permit,
       taken <- r_taken, task <- r_task, chunk <- r_chunk,
       slice_index <- r_slice_index, polled <- r_polled,
       last_state <- r_last_state, destroy_rx <- r_destroy_rx,
       attached_rx <- r_attached_rx, delivered <- r_delivered,
       switched <- r_switched

\* Socket::write is write_flushed.
W == INSTANCE NodeWritable WITH
       Flushed <- TRUE,
       is_finished <- w_is_finished, is_destroyed <- w_is_destroyed,
       commands <- w_commands, receiver <- w_receiver,
       destroy_rx <- w_destroy_rx, task <- w_task, skipped <- w_skipped,
       buffered <- w_buffered, sink <- w_sink, issued <- w_issued,
       callbacks <- w_callbacks, ended_at <- w_ended_at, finish <- w_finish

socket == <<connect, destroyed, allow_half_open, had_error>>
readable ==
  <<r_state, r_listening, r_is_destroyed, r_queue, r_max_capacity, r_closed,
    r_permit, r_taken, r_task, r_chunk, r_slice_index, r_polled, r_last_state,
    r_destroy_rx, r_attached_rx, r_delivered, r_switched>>

writable ==
  <<w_is_finished, w_is_destroyed, w_commands, w_receiver, w_destroy_rx, w_task,
    w_skipped, w_buffered, w_sink, w_issued, w_callbacks, w_ended_at, w_finish>>

vars == <<socket, readable, writable>>

\* Socket::new, by the program or by the server for a connection it accepted.
Init ==
  /\ connect \in {"new", "accepted"}
  /\ destroyed = FALSE
  /\ allow_half_open \in BOOLEAN
  /\ had_error = FALSE
  /\ R!Init
  /\ W!Init

---------------------------------------------------------------------------
(* The program's calls *)

\* connect(): refused when the socket is destroyed, else the task is spawned.
Connect ==
  /\ connect = "new"
  /\ ~destroyed
  /\ connect' = "spawned"
  /\ UNCHANGED <<destroyed, allow_half_open, had_error, readable, writable>>

\* on("data"), on("readable"), read().
UseReadable == R!Calls /\ UNCHANGED <<socket, writable>>

\* write(), end().
UseWritable == (W!Write \/ W!End) /\ UNCHANGED <<socket, readable>>

\* destroy(): both halves, the error goes to the writing one.
Destroy(err) ==
  /\ destroyed' = TRUE
  /\ R!Destroy("plain")
  /\ IF w_is_finished THEN UNCHANGED writable ELSE W!Destroy(err)
  /\ UNCHANGED <<connect, allow_half_open, had_error>>

---------------------------------------------------------------------------
(* The tasks *)

\* The task of connect() finds the socket destroyed, and only emits "close";
\* or it starts to connect.
StartConnect ==
  /\ connect = "spawned"
  /\ connect' = IF destroyed THEN "closed" ELSE "connecting"
  /\ UNCHANGED <<destroyed, allow_half_open, had_error, readable, writable>>

\* The stream is there: process_stream spawns the tasks of both halves.
Established ==
  /\ connect \in {"connecting", "accepted"}
  /\ connect' = "open"
  /\ W!Process
  /\ UNCHANGED <<destroyed, allow_half_open, had_error, readable>>

\* "error" is emitted, and no "close".
ConnectFails ==
  /\ connect = "connecting"
  /\ connect' = "failed"
  /\ UNCHANGED <<destroyed, allow_half_open, had_error, readable, writable>>

\* A step of the reading half.  At its end on_end() ends the writing half,
\* unless the socket may be half open.
ReaderTask ==
  /\ connect = "open"
  /\ R!Task
  /\ IF /\ r_task' = "ended" /\ r_task # "ended"
        /\ ~allow_half_open /\ ~w_is_finished
     THEN W!End
     ELSE UNCHANGED writable
  /\ UNCHANGED socket

\* The reading half fails; on_end() is not called.
ReaderFails ==
  /\ connect = "open"
  /\ R!SourceFails
  /\ UNCHANGED <<socket, writable>>

\* A step of the writing half.
WriterTask ==
  /\ W!Task
  /\ UNCHANGED <<socket, readable>>

\* rw_join: both halves are over, and "close" is emitted.
Join ==
  /\ connect = "open"
  /\ r_task \in {"ended", "destroyed", "destroyed with error", "failed"}
  /\ w_task \in {"ended", "failed"}
  /\ connect' = "closed"
  /\ had_error' = (r_task \in {"failed", "destroyed with error"} \/ w_task = "failed")
  /\ UNCHANGED <<destroyed, allow_half_open, readable, writable>>

---------------------------------------------------------------------------

\* Bound: destroy() is called once.  A second call leads to no new state.
Next ==
  \/ Connect \/ UseReadable \/ UseWritable
  \/ \E err \in {"plain", "error"} : ~destroyed /\ Destroy(err)
  \/ StartConnect \/ Established \/ ConnectFails
  \/ ReaderTask \/ ReaderFails \/ WriterTask \/ Join

Spec == Init /\ [][Next]_vars

\* The runtime polls every task that can go on.  The peer sends its bytes and
\* closes; the program goes on to read what is in the buffer.
KeepsReading == R!Read /\ UNCHANGED <<socket, writable>>

Owed ==
  \/ StartConnect \/ Established \/ Join
  \/ ReaderTask \/ WriterTask \/ KeepsReading

FairSpec == Spec /\ WF_vars(Owed)

---------------------------------------------------------------------------
(* Properties *)

TypeOK ==
  /\ connect \in {"new", "accepted", "spawned", "connecting", "open", "closed",
                  "failed"}
  /\ {destroyed, allow_half_open, had_error} \subseteq BOOLEAN
  /\ R!TypeOK
  /\ W!TypeOK

\* The reading buffer never holds more than its capacity, whatever read(size)
\* asks for: BytearrayBuffer::write subtracts the one from the other unchecked.
WithinCapacity == TypeOK /\ R!WithinCapacity

\* Every byte that the reading task took from the peer is, once and in order,
\* with the program, in the buffer or in the chunk being written to it, and at
\* "end" that is all the peer sent; unless a "data" listener came to a stream
\* that was being read in paused mode.
NothingLost == R!NothingLost

\* The peer gets the data of write() in the order of the calls, with no gap,
\* whenever end(), destroy() and the end of the reading half come; a callback
\* without an error, and "finish", mean that the data has left the process,
\* unless end() came before the stream was there.
WritesArrive == W!WritesArrive

SocketClosed ==
  connect = "open" /\ (destroyed \/ w_is_finished \/ ~allow_half_open) =>
    r_task = "failed" /\ ~destroyed /\ ~w_is_finished

\* An open socket that is destroyed, that the program ends, or that may not be
\* half open, comes to its "close"; unless it is left open by a failure of the
\* reading half, which does not end the writing half.
SocketCloses == []<>SocketClosed
=============================================================================
