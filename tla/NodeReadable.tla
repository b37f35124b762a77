---------------------------- MODULE NodeReadable ----------------------------
(***************************************************************************)
(* The readable half of the Node-style streams (sockets, the output of     *)
(* child processes): the task of ReadableStream::do_process, which moves   *)
(* bytes from a source to the program, and the BytearrayBuffer between     *)
(* them.  In flowing mode a chunk is handed to the "data" listeners; in    *)
(* paused mode it is copied into the buffer, as far as that has room, and  *)
(* the program takes it out with read().                                   *)
(*                                                                         *)
(* The bytes of the source are numbered, so a sequence of bytes shows what *)
(* has been lost, repeated or reordered.  The task runs alone between two  *)
(* awaits; the program's calls come in between, or from a listener that    *)
(* the task is calling.  NetSocket puts the two together.                  *)
(***************************************************************************)
EXTENDS Naturals, Sequences, SequencesExt

CONSTANTS
  SourceLen,   \* bound: the bytes of the source
  Capacity,    \* the initial capacity of the buffer
  MaxCapacity  \* bound: the capacity that read(size) may ask for

VARIABLES
  state,        \* ReadableState
  listening,    \* the events ("data", "readable") that have a listener
  is_destroyed, \* destroy() has been called
  queue,        \* BytearrayBuffer.inner; its length is BytearrayBuffer.len
  max_capacity,
  closed,
  permit,       \* the permit of BytearrayBuffer.notify
  taken,        \* bytes taken from the source so far
  task,         \* where do_process stands
  chunk,        \* the task's own buffer
  slice_index,  \* how much of chunk the pending write has copied
  polled,       \* the pending write has been polled, and waits for a permit
  last_state,
  destroy_rx,   \* the broadcast receivers of the task
  attached_rx,
  delivered,    \* the bytes the program has got, in order
  switched      \* history: a "data" listener was added to a stream that was
                \* paused with its task running

buffer == <<queue, max_capacity, closed, permit>>
inner == <<state, listening, is_destroyed>>
local == <<task, chunk, slice_index, polled, last_state>>
vars == <<state, listening, is_destroyed, queue, max_capacity, closed, permit,
          taken, task, chunk, slice_index, polled, last_state, destroy_rx,
          attached_rx, delivered, switched>>

Byte == 1..SourceLen

\* The source's bytes m+1 to n.
Source(m, n) == [i \in 1..(n - m) |-> m + i]

Running == task \in {"select", "write"}

\* ReadableStreamInner::new and BytearrayBuffer::new, and the task spawned.
Init ==
  /\ state = "Init"
  /\ listening = {}
  /\ is_destroyed = FALSE
  /\ queue = <<>> /\ max_capacity = Capacity /\ closed = FALSE /\ permit = FALSE
  /\ taken = 0
  /\ task = "spawned" /\ chunk = <<>> /\ slice_index = 0 /\ polled = FALSE
  /\ last_state = "Init"
  /\ destroy_rx = "empty" /\ attached_rx = FALSE
  /\ delivered = <<>>
  /\ switched = FALSE

---------------------------------------------------------------------------
(* The program's calls *)

\* on("data"): the first listener sets the stream flowing, and tells the task
\* when it was paused.
OnData ==
  /\ "data" \notin listening
  /\ listening' = listening \cup {"data"}
  /\ attached_rx' = (attached_rx \/ (state = "Paused" /\ Running))
  /\ switched' = (switched \/ (state = "Paused" /\ Running))
  /\ state' = "Flowing"
  /\ UNCHANGED <<is_destroyed, buffer, taken, local, destroy_rx, delivered>>

\* on("readable"): the first listener pauses the stream.
OnReadable ==
  /\ "readable" \notin listening
  /\ listening' = listening \cup {"readable"}
  /\ state' = "Paused"
  /\ UNCHANGED <<is_destroyed, buffer, taken, local, destroy_rx, attached_rx,
                 delivered, switched>>

\* The bytes b leave the buffer for the program, and a writer is notified.
Take(b) ==
  /\ delivered' = delivered \o b
  /\ queue' = SubSeq(queue, Len(b) + 1, Len(queue))

\* read(): drains the buffer.
Read ==
  /\ Take(queue)
  /\ permit' = TRUE
  /\ UNCHANGED <<inner, max_capacity, closed, taken, local, destroy_rx, attached_rx, switched>>

\* read(size): all that is left once the buffer is closed; nothing, but a
\* larger buffer, when size is beyond the capacity; nothing when there is less
\* than size; else size bytes.
ReadSize(size) ==
  /\ permit' = TRUE
  /\ \/ closed /\ Take(queue) /\ UNCHANGED max_capacity
     \/ /\ ~closed /\ size > max_capacity
        /\ max_capacity' \in size..MaxCapacity
        /\ UNCHANGED <<queue, delivered>>
     \/ /\ ~closed /\ size <= max_capacity /\ size > Len(queue)
        /\ UNCHANGED <<queue, delivered, max_capacity>>
     \/ /\ ~closed /\ size <= max_capacity /\ size <= Len(queue)
        /\ Take(SubSeq(queue, 1, size))
        /\ UNCHANGED max_capacity
  /\ UNCHANGED <<inner, closed, taken, local, destroy_rx, attached_rx, switched>>

\* destroy(), with or without an error.  The channel holds one message: a
\* second one makes the receiver lag, and the error is lost.
Destroy(err) ==
  /\ is_destroyed' = TRUE
  /\ destroy_rx' = IF ~Running THEN destroy_rx
                   ELSE IF destroy_rx = "empty" THEN err ELSE "plain"
  /\ UNCHANGED <<state, listening, buffer, taken, local, attached_rx, delivered, switched>>

---------------------------------------------------------------------------
(* The task *)

\* How the task ends: the buffer is closed, and "end" emitted unless the
\* stream has been destroyed; an error given to destroy() is emitted.
Finish(how) ==
  /\ closed' = TRUE
  /\ permit' = TRUE
  /\ task' = how
  /\ is_destroyed' = (is_destroyed \/ how # "ended")

\* First step: subscribes, and ends at once for a stream already destroyed.
StartTask ==
  /\ task = "spawned"
  /\ IF is_destroyed
     THEN Finish("destroyed")
     ELSE task' = "select" /\ UNCHANGED <<closed, permit, is_destroyed>>
  /\ UNCHANGED <<state, listening, queue, max_capacity, taken, chunk, slice_index,
                 polled, last_state, destroy_rx, attached_rx, delivered, switched>>

\* The state in which a chunk is handled: the first bytes pause a stream that
\* nobody listens to.
StateForChunk == IF state = "Init" THEN "Paused" ELSE state

\* The source yields k bytes, none at its end, and the stream flows.  After a
\* pause the bytes left in the buffer are added behind the new ones.  With no
\* byte at all the source has ended; otherwise "data" is emitted.
ChunkFlows(k) ==
  LET data == chunk \o Source(taken, taken + k)
              \o (IF last_state = "Paused" THEN queue ELSE <<>>)
  IN /\ task = "select"
     /\ StateForChunk = "Flowing"
     /\ k \in 1..(SourceLen - taken) \/ (k = 0 /\ taken = SourceLen)
     /\ taken' = taken + k
     /\ delivered' = delivered \o data
     /\ queue' = IF last_state = "Paused" THEN <<>> ELSE queue
     /\ IF data = <<>>
        THEN Finish("ended")
        ELSE /\ permit' = (permit \/ last_state = "Paused")
             /\ UNCHANGED <<closed, task, is_destroyed>>
     /\ chunk' = <<>>
     /\ last_state' = "Flowing"
     /\ UNCHANGED <<state, listening, max_capacity, slice_index, polled,
                    destroy_rx, attached_rx, switched>>

ChunkPausedFault(k) ==
  /\ task = "select"
  /\ StateForChunk = "Paused"
  /\ state' = "Paused"
  /\ k \in 1..(SourceLen - taken) \/ (k = 0 /\ taken = SourceLen)
  /\ taken' = taken + k
  /\ IF taken' = SourceLen
     THEN Finish("ended") /\ UNCHANGED <<chunk, slice_index, polled>>
     ELSE /\ chunk' = chunk \o Source(taken, taken + k)
          /\ slice_index' = 0 /\ polled' = FALSE
          /\ task' = "write"
          /\ UNCHANGED <<closed, permit, is_destroyed>>
  /\ UNCHANGED <<listening, queue, max_capacity, last_state, destroy_rx,
                 attached_rx, delivered, switched>>

\* The same for a paused stream: the end of the source ends the task, whatever
\* is in its chunk; otherwise "readable" is emitted, and the write to the
\* buffer has not begun yet.
ChunkPaused(k) ==
  /\ task = "select"
  /\ StateForChunk = "Paused"
  /\ state' = "Paused"
  /\ k \in 1..(SourceLen - taken) \/ (k = 0 /\ taken = SourceLen)
  /\ taken' = taken + k
  /\ IF k = 0
     THEN Finish("ended") /\ UNCHANGED <<chunk, slice_index, polled>>
     ELSE /\ chunk' = chunk \o Source(taken, taken + k)
          /\ slice_index' = 0 /\ polled' = FALSE
          /\ task' = "write"
          /\ UNCHANGED <<closed, permit, is_destroyed>>
  /\ UNCHANGED <<listening, queue, max_capacity, last_state, destroy_rx,
                 attached_rx, delivered, switched>>

\* The source fails: the error leaves read_function at once.
SourceFails ==
  /\ task = "select"
  /\ task' = "failed"
  /\ UNCHANGED <<inner, buffer, taken, chunk, slice_index, polled, last_state,
                 destroy_rx, attached_rx, delivered, switched>>

Room == max_capacity - Len(queue)

\* What the pending write copies when it is polled: as much as there is room.
Copied == LET n == Len(chunk) - slice_index IN IF n <= Room THEN n ELSE Room

\* The inner select, branch of the write: BytearrayBuffer::write is polled and
\* copies what fits.  With the whole chunk copied the branch completes, and
\* the task reads on; otherwise the write waits to be notified.
WriteProgress ==
  /\ task = "write"
  /\ ~polled \/ permit
  /\ queue' = queue \o SubSeq(chunk, slice_index + 1, slice_index + Copied)
  /\ permit' = FALSE
  /\ IF slice_index + Copied = Len(chunk)
     THEN /\ task' = "select" /\ chunk' = <<>> /\ last_state' = "Paused"
          /\ slice_index' = 0 /\ polled' = FALSE
     ELSE /\ slice_index' = slice_index + Copied /\ polled' = TRUE
          /\ UNCHANGED <<task, chunk, last_state>>
  /\ UNCHANGED <<inner, max_capacity, closed, taken, destroy_rx, attached_rx,
                 delivered, switched>>

\* The inner select, branch of the new "data" listener: the buffer is cleared,
\* the chunk is kept for the next round.
WriteMeetsListener ==
  /\ task = "write"
  /\ attached_rx
  /\ attached_rx' = FALSE
  /\ queue' = <<>>
  /\ permit' = TRUE
  /\ task' = "select"
  /\ last_state' = "Paused"
  /\ slice_index' = 0 /\ polled' = FALSE
  /\ UNCHANGED <<inner, max_capacity, closed, taken, chunk, destroy_rx, delivered, switched>>

\* Either select, branch of destroy(): both loops are left.
MeetsDestroy ==
  /\ task \in {"select", "write"}
  /\ destroy_rx # "empty"
  /\ Finish(IF destroy_rx = "error" THEN "destroyed with error" ELSE "destroyed")
  /\ UNCHANGED <<state, listening, queue, max_capacity, taken, chunk, slice_index,
                 polled, last_state, destroy_rx, attached_rx, delivered, switched>>

Task ==
  \/ StartTask \/ WriteProgress \/ WriteMeetsListener \/ MeetsDestroy
  \/ \E k \in 0..SourceLen : ChunkFlows(k) \/ ChunkPaused(k)

\* What the program calls, besides destroy().
Calls ==
  \/ OnData \/ OnReadable \/ Read
  \/ \E size \in 1..MaxCapacity : ReadSize(size)

---------------------------------------------------------------------------
(* Properties *)

TypeOK ==
  /\ state \in {"Init", "Flowing", "Paused"}
  /\ listening \subseteq {"data", "readable"}
  /\ {is_destroyed, closed, permit, polled, attached_rx} \subseteq BOOLEAN
  /\ queue \in Seq(Byte) /\ chunk \in Seq(Byte) /\ delivered \in Seq(Byte)
  /\ max_capacity \in Capacity..MaxCapacity
  /\ taken \in 0..SourceLen
  /\ task \in {"spawned", "select", "write", "ended", "destroyed",
               "destroyed with error", "failed"}
  /\ slice_index \in 0..SourceLen
  /\ last_state \in {"Init", "Flowing", "Paused"}
  /\ destroy_rx \in {"empty", "plain", "error"}
  /\ switched \in BOOLEAN

\* The buffer never holds more than its capacity: what write() subtracts from
\* max_capacity without a check.
WithinCapacity == Len(queue) <= max_capacity

\* Every byte taken from the source is, exactly once and in order, with the
\* program, in the buffer, or in the part of the chunk not yet written; and at
\* "end" it is the whole source.  This is so unless a "data" listener came to a
\* stream that was being read in paused mode.
NothingLost ==
  ~switched =>
    /\ delivered \o queue \o SubSeq(chunk, slice_index + 1, Len(chunk))
         = Source(0, taken)
    /\ task = "ended" => delivered \o queue = Source(0, SourceLen)
=============================================================================
