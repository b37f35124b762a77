------------------------------ MODULE FileHandle ------------------------------
(***************************************************************************)
(* fs.open, fs.writeFile and the FileHandle class                          *)
(* (modules/llrt_fs/src/open.rs, write_file.rs, file_handle.rs) over       *)
(* tokio's File.  A method of the handle is an async function that holds   *)
(* the handle borrowed until it settles: a method that borrows it mutably  *)
(* makes every other call on the handle fail meanwhile.  tokio's File does *)
(* its I/O on another thread: write_all returns as soon as the bytes are   *)
(* copied, the write itself lands later, and every later operation first   *)
(* waits for it.  A write that fails is reported by the write after it.    *)
(*                                                                         *)
(* One path is modelled, with the files it has named so far.  The bytes of *)
(* the n-th call are numbers no other call writes; 0 is the byte of a hole.*)
(***************************************************************************)
EXTENDS Integers, Sequences, SequencesExt, FiniteSets

CONSTANTS Handles,     \* the FileHandle objects, numbered
          Modes,       \* the flags that files are opened with
          MaxOps,      \* bound: calls made
          MaxFaults    \* bound: system calls that fail

VARIABLE s

Absent == -1
Idle == [kind |-> "idle"]
NoFly == <<>>

Flags ==
  [r    |-> [read |-> TRUE,  write |-> FALSE, append |-> FALSE, create |-> FALSE, fresh |-> FALSE, truncate |-> FALSE],
   rw   |-> [read |-> TRUE,  write |-> TRUE,  append |-> FALSE, create |-> FALSE, fresh |-> FALSE, truncate |-> FALSE],
   a    |-> [read |-> FALSE, write |-> TRUE,  append |-> TRUE,  create |-> TRUE,  fresh |-> FALSE, truncate |-> FALSE],
   ap   |-> [read |-> TRUE,  write |-> TRUE,  append |-> TRUE,  create |-> FALSE, fresh |-> FALSE, truncate |-> FALSE],
   w    |-> [read |-> FALSE, write |-> TRUE,  append |-> FALSE, create |-> TRUE,  fresh |-> FALSE, truncate |-> TRUE],
   wx   |-> [read |-> FALSE, write |-> TRUE,  append |-> FALSE, create |-> TRUE,  fresh |-> TRUE,  truncate |-> FALSE],
   wp   |-> [read |-> TRUE,  write |-> TRUE,  append |-> FALSE, create |-> TRUE,  fresh |-> FALSE, truncate |-> TRUE]]

NewHandle ==
  [state |-> "none", flags |-> "r", pos |-> 0, fly |-> NoFly, err |-> FALSE,
   op |-> Idle, syncing |-> FALSE,
   want |-> 0,          \* history: the cursor its sequential calls lead to
   sound |-> TRUE]      \* history: no call of it has failed half-way

Init == \E old \in {<<>>, <<1, 2>>} :
        s = [exists |-> old # <<>>, data |-> old,
             h |-> [i \in Handles |-> NewHandle], n |-> 0, faults |-> 0,
             ref |-> old,                   \* history: what the calls that fulfilled should have left
             sole |-> TRUE,                 \* history: one handle at a time has written
             misread |-> FALSE,             \* history: a read gave other bytes than those
             holed |-> FALSE,               \* history: a writeFile did not start at the file's start
             panicked |-> FALSE]

Becomes(t) == ~s.panicked /\ s' = t

Set(t, i, r) == [t EXCEPT !.h[i] = r]

-------------------------------------------------------------------------------
\* Files (external): write at, cut and extend.

Put(f, at, bytes) ==
  LET size == IF bytes = <<>> THEN Len(f)
              ELSE IF at + Len(bytes) > Len(f) THEN at + Len(bytes) ELSE Len(f)
  IN [k \in 1..size |-> IF k > at /\ k <= at + Len(bytes) THEN bytes[k - at]
                        ELSE IF k <= Len(f) THEN f[k] ELSE 0]

Cut(f, size) == [k \in 1..size |-> IF k <= Len(f) THEN f[k] ELSE 0]

From(f, at, size) == SubSeq(f, at + 1, IF at + size < Len(f) THEN at + size ELSE Len(f))

-------------------------------------------------------------------------------
\* tokio's File (external): the write that is under way.

\* The write lands on the thread that does it, at the cursor or, when the
\* file is open for appending, at its end.  A failure is left
\* to the next write.
FlyLands(i) ==
  LET h == s.h[i]
      at == IF Flags[h.flags].append THEN Len(s.data) ELSE h.pos
  IN /\ h.fly # NoFly
     /\ \/ /\ Flags[h.flags].write
           /\ Becomes([Set(s, i, [h EXCEPT !.fly = NoFly, !.pos = at + Len(h.fly)])
                         EXCEPT !.data = Put(@, at, h.fly)])
        \/ /\ ~Flags[h.flags].write \/ s.faults < MaxFaults
           /\ Becomes([Set(s, i, [h EXCEPT !.fly = NoFly, !.err = TRUE, !.sound = FALSE])
                         EXCEPT !.faults = @ + IF Flags[h.flags].write THEN 1 ELSE 0])

\* complete_inflight: the write before has landed.
Drained(h) == h.fly = NoFly

-------------------------------------------------------------------------------
\* open(path, flags) and writeFile's File::create.

\* The calls made and the handles opened, which MaxOps bounds together.
Calls == s.n + Cardinality({i \in Handles : s.h[i].state # "none"})

\* Handles are taken in their order.
Unused(i) ==
  s.h[i].state = "none" /\ \A j \in Handles : s.h[j].state = "none" => i <= j

Opens(f) == IF s.exists THEN ~Flags[f].fresh ELSE Flags[f].create

Writers(t) == {j \in Handles : t.h[j].state \in {"open", "temporary", "closing"} /\ Flags[t.h[j].flags].write}

\* The calls of two handles that write the file have no common order.
Alone(t) == [t EXCEPT !.sole = @ /\ Cardinality(Writers(t)) <= 1]

Opened(t, i, f, state) ==
  LET cut == [t EXCEPT !.exists = TRUE,
                       !.data = IF Flags[f].truncate THEN <<>> ELSE @,
                       !.ref = IF Flags[f].truncate THEN <<>> ELSE @]
  IN Alone(Set(cut, i, [NewHandle EXCEPT !.state = state, !.flags = f, !.op = t.h[i].op,
                                         !.pos = 0, !.want = 0]))

Open(i, f) ==
  /\ Unused(i) /\ Calls < MaxOps
  /\ Opens(f)
  /\ Becomes(Opened(s, i, f, "open"))

-------------------------------------------------------------------------------
\* Calls.

Busy(h) == h.op # Idle \/ h.syncing

\* The arguments of read and write: the bytes of the buffer, an offset, a
\* length and a position (Absent: not given).
Arg(offset, length, position) == [size |-> 2, offset |-> offset, length |-> length, position |-> position]

Args == {Arg(0, Absent, Absent), Arg(0, Absent, 0), Arg(0, Absent, 3), Arg(0, 1, Absent),
         Arg(1, Absent, 0), Arg(3, Absent, Absent), Arg(0, 3, Absent)}

\* write(string, position): the number after a string is not looked at.
StringArgs == {Arg(0, Absent, Absent)}

Bytes(n, size) == [k \in 1..size |-> 10 * n + k]

\* length.unwrap_or(buffer.len() - offset), and validate_length_offset.
Length(a) == IF a.length = Absent THEN a.size - a.offset ELSE a.length

ValidateLengthOffset(a) == a.offset <= a.size /\ Length(a) <= a.size - a.offset

Job(kind, a) == [kind |-> kind, a |-> a, step |-> "io", cursor |-> Absent, n |-> s.n + 1, got |-> 0]

\* The call borrows the handle; in the first poll the arguments are checked,
\* then that the handle is open.
Start(t, i, op) ==
  LET h == [t.h[i] EXCEPT !.op = op]
  IN CASE op.kind = "close" ->
            Set(t, i, [h EXCEPT !.op.step = "closing", !.state = IF @ = "open" THEN "closing" ELSE @])
       [] op.kind \in {"read", "write"} /\ ~ValidateLengthOffset(op.a) -> t
       [] h.state = "closed" -> t
       [] op.kind \in {"read", "write"} ->
            Set(t, i, [h EXCEPT !.op.step = IF op.a.position # Absent THEN "cursor" ELSE "io"])
       [] op.kind \in {"writeFile", "truncate"} -> Set(t, i, [h EXCEPT !.op.step = "set_len"])
       [] OTHER -> Set(t, i, h)

Call(i, op) ==
  /\ s.h[i].state \in {"open", "closed"} /\ ~Busy(s.h[i])
  /\ Calls < MaxOps
  /\ Becomes(Start([s EXCEPT !.n = @ + 1], i, op))

CallRead(i) == \E a \in Args : Call(i, Job("read", a))

CallWrite(i) == \E a \in Args \cup StringArgs : Call(i, Job("write", a))

NoArgs == Arg(0, Absent, Absent)

CallOther(i) == \E kind \in {"readFile", "writeFile", "close"} : Call(i, Job(kind, NoArgs))

CallTruncate(i) == \E size \in {1, 3} : Call(i, Job("truncate", [NoArgs EXCEPT !.size = size]))

\* sync, datasync: they borrow the handle without changing it.
CallSync(i) ==
  /\ s.h[i].state = "open" /\ s.h[i].op = Idle /\ ~s.h[i].syncing /\ Calls < MaxOps
  /\ Becomes(Set([s EXCEPT !.n = @ + 1], i, [s.h[i] EXCEPT !.syncing = TRUE]))

SyncEnds(i) ==
  /\ s.h[i].syncing /\ Drained(s.h[i])
  /\ Becomes(Set(s, i, [s.h[i] EXCEPT !.syncing = FALSE]))

-------------------------------------------------------------------------------
\* The steps of a call.

Rejected(t, i) ==
  Set(t, i, [t.h[i] EXCEPT !.op = Idle,
                           !.sound = @ /\ t.h[i].op.cursor = Absent])

\* A system call the handle makes fails.
Fault(i) == [s EXCEPT !.faults = @ + 1]

\* What a call that fulfils should have done, with the file as the calls
\* before left it.
WriteAt(h) ==
  IF Flags[h.flags].append THEN Len(s.ref)
  ELSE IF h.op.a.position # Absent THEN h.op.a.position ELSE h.want

Slice(op) == SubSeq(Bytes(op.n, op.a.size), op.a.offset + 1, op.a.offset + Length(op.a))

Fulfilled(t, i) ==
  LET h == t.h[i]
      op == h.op
      idle == [h EXCEPT !.op = Idle]
  IN CASE op.kind \in {"read", "readFile"} ->
            Set(t, i, [idle EXCEPT !.want = IF op.a.position # Absent THEN @ ELSE @ + op.got])
       [] op.kind = "write" /\ ~Flags[h.flags].write -> Set(t, i, idle)
       [] op.kind = "write" ->
            [Set(t, i, [idle EXCEPT !.want = IF op.a.position # Absent \/ Slice(op) = <<>> THEN @
                                             ELSE WriteAt(h) + Len(Slice(op)),
                                    !.sound = @ /\ op.a.offset = 0])
               EXCEPT !.ref = Put(@, WriteAt(h), Slice(op))]
       [] op.kind \in {"writeFile", "fs.writeFile"} ->
            [Set(t, i, [idle EXCEPT !.want = WriteAt(h) + op.a.size])
               EXCEPT !.ref = Put(@, WriteAt(h), Bytes(op.n, op.a.size)), !.holed = @ \/ WriteAt(h) # 0]
       [] op.kind = "truncate" -> [Set(t, i, idle) EXCEPT !.ref = Cut(@, op.a.size)]
       [] OTHER -> Set(t, i, idle)

At(i, step) == s.h[i].op # Idle /\ s.h[i].op.step = step

Goto(h, step) == [h EXCEPT !.op.step = step]

\* read: dst_buf[offset..].copy_from_slice(&buf) needs the length to reach
\* the end of the buffer.
Settled(t, i) ==
  LET op == t.h[i].op
  IN IF op.kind = "read" /\ Length(op.a) # op.a.size - op.a.offset THEN [t EXCEPT !.panicked = TRUE]
     ELSE Fulfilled(t, i)

\* After the read or the write: back to the cursor, or the end of the call.
After(t, i) ==
  IF t.h[i].op.cursor # Absent THEN Set(t, i, Goto(t.h[i], "back"))
  ELSE IF t.h[i].op.kind = "fs.writeFile" THEN Set(t, i, Goto(t.h[i], "flush"))
  ELSE Settled(t, i)

\* Planted fault: the cursor is asked for after the seek.
CursorFault(i) ==
  /\ At(i, "cursor") /\ Drained(s.h[i])
  /\ Becomes(Set(s, i, [Goto(s.h[i], "seek") EXCEPT !.op.cursor = s.h[i].op.a.position]))

\* file.seek(SeekFrom::Current(0)), then file.seek(SeekFrom::Start(position)).
Cursor(i) ==
  /\ At(i, "cursor") /\ Drained(s.h[i])
  /\ \/ Becomes(Set(s, i, [Goto(s.h[i], "seek") EXCEPT !.op.cursor = s.h[i].pos]))
     \/ s.faults < MaxFaults /\ Becomes(Rejected(Set(Fault(i), i, s.h[i]), i))

Seek(i) ==
  /\ At(i, "seek")
  /\ \/ Becomes(Set(s, i, [Goto(s.h[i], "io") EXCEPT !.pos = s.h[i].op.a.position]))
     \/ s.faults < MaxFaults /\ Becomes(Rejected(Fault(i), i))

\* file.read(&mut buf) and read_to_end: from the cursor.
\* What the read should give: no other handle has the file open for writing.
Due(h, size) == From(s.ref, IF h.op.a.position # Absent THEN h.op.a.position ELSE h.want, size)

Known(i) == s.sole /\ Writers(s) \subseteq {i} /\ \A j \in Handles : s.h[j].sound

ReadIo(i) ==
  LET h == s.h[i]
      size == IF h.op.kind = "read" THEN Length(h.op.a) ELSE Len(s.data)
      bytes == From(s.data, h.pos, size)
  IN /\ At(i, "io") /\ h.op.kind \in {"read", "readFile"} /\ Drained(s.h[i])
     /\ \/ /\ Flags[h.flags].read
           /\ Becomes(After([Set(s, i, [h EXCEPT !.op.got = Len(bytes), !.pos = @ + Len(bytes)])
                                EXCEPT !.misread = @ \/ (Known(i) /\ bytes # Due(h, size))], i))
        \/ /\ ~Flags[h.flags].read \/ s.faults < MaxFaults
           /\ Becomes(Rejected(Set(IF Flags[h.flags].read THEN Fault(i) ELSE s, i, h), i))

\* file.write_all(&buffer[offset..length]): the bounds of the slice are the
\* offset and the length, so the slice is short by the offset, and there is
\* none when the offset is the greater.
Slices(op) == IF op.kind = "write" THEN SubSeq(Bytes(op.n, op.a.size), op.a.offset + 1, Length(op.a))
              ELSE Bytes(op.n, op.a.size)

\* The bytes are handed to the thread, or the error of the write before is
\* given.
WriteIo(i) ==
  LET h == s.h[i]
      bytes == Slices(h.op)
  IN /\ At(i, "io") /\ h.op.kind \in {"write", "writeFile", "fs.writeFile"}
     /\ IF h.op.kind = "write" /\ h.op.a.offset > Length(h.op.a)
        THEN Becomes([s EXCEPT !.panicked = TRUE])
        ELSE IF bytes = <<>> THEN Becomes(After(s, i))
        ELSE /\ Drained(s.h[i])
             /\ Becomes(IF h.err THEN Rejected(Set(s, i, [h EXCEPT !.err = FALSE]), i)
                        ELSE After(Set(s, i, [h EXCEPT !.fly = bytes,
                                                       !.sound = @ /\ Flags[h.flags].write]), i))

\* The data of a writeFile are no bytes, are detached or of an unknown
\* encoding, or fs.writeFile cannot set the mode: the file is cut by then.
WriteFileFails(i) ==
  /\ At(i, "io") /\ s.h[i].op.kind \in {"writeFile", "fs.writeFile"}
  /\ Becomes(IF s.h[i].op.kind = "writeFile" THEN Rejected(s, i) ELSE Set(s, i, NewHandle))

\* file.set_len(len), for truncate and for writeFile.
SetLen(i) ==
  LET h == s.h[i]
      cut == [s EXCEPT !.data = Cut(@, IF h.op.kind = "truncate" THEN h.op.a.size ELSE 0),
                       !.ref = IF h.op.kind = "truncate" THEN @ ELSE <<>>]
  IN /\ At(i, "set_len") /\ Drained(s.h[i])
     /\ \/ Flags[h.flags].write /\ Becomes(IF h.op.kind = "truncate" THEN Settled(cut, i) ELSE Set(cut, i, Goto(h, "io")))
        \/ /\ ~Flags[h.flags].write \/ s.faults < MaxFaults
           /\ Becomes(Rejected(Set(IF Flags[h.flags].write THEN Fault(i) ELSE s, i, h), i))

\* The cursor is put back; when that fails the handle is closed.
Back(i) ==
  LET h == s.h[i]
  IN /\ At(i, "back") /\ Drained(s.h[i])
     /\ \/ Becomes(Settled(Set(s, i, [h EXCEPT !.pos = h.op.cursor]), i))
        \/ /\ s.faults < MaxFaults
           /\ Becomes(Rejected(Set(Fault(i), i, [h EXCEPT !.state = "closed"]), i))

\* close(): drop(file.into_std().await), which waits for the write.
Closing(i) ==
  /\ At(i, "closing") /\ Drained(s.h[i])
  /\ Becomes(Set(s, i, [s.h[i] EXCEPT !.op = Idle, !.state = "closed", !.err = FALSE]))

-------------------------------------------------------------------------------
\* fs.writeFile(path, data): create or cut the file, write, flush.

CallWriteFile(i) ==
  /\ Unused(i) /\ Calls < MaxOps
  /\ LET t == Set(s, i, [s.h[i] EXCEPT !.op = Job("fs.writeFile", NoArgs)])
     IN Becomes(Opened([t EXCEPT !.n = @ + 1], i, "w", "temporary"))

Flushed(i) ==
  LET h == s.h[i]
  IN /\ At(i, "flush") /\ Drained(s.h[i])
     /\ Becomes(IF h.err THEN Set(s, i, NewHandle)
                ELSE Set(Fulfilled(s, i), i, NewHandle))

Next ==
  \E i \in Handles :
    \/ FlyLands(i) \/ SyncEnds(i)
    \/ \E f \in Modes : Open(i, f)
    \/ CallRead(i) \/ CallWrite(i) \/ CallOther(i) \/ CallTruncate(i) \/ CallSync(i) \/ CallWriteFile(i)
    \/ Cursor(i) \/ Seek(i) \/ ReadIo(i) \/ WriteIo(i) \/ SetLen(i) \/ Back(i)
    \/ WriteFileFails(i) \/ Closing(i) \/ Flushed(i)

Spec == Init /\ [][Next]_s

-------------------------------------------------------------------------------
TypeOK ==
  /\ s.data \in Seq(Nat) /\ s.ref \in Seq(Nat)
  /\ \A i \in Handles :
       LET h == s.h[i]
       IN /\ h.state \in {"none", "open", "temporary", "closing", "closed"}
          /\ h.pos \in Nat /\ h.want \in Nat
          /\ (h.state \in {"none", "closed"} => h.fly = NoFly)

\* The file and the cursor once the write under way has landed.
LandedAt(h) == IF Flags[h.flags].append THEN Len(s.data) ELSE h.pos

Landed(i) ==
  LET h == s.h[i]
  IN IF Drained(h) THEN s.data ELSE Put(s.data, LandedAt(h), h.fly)

LandedPos(h) == IF Drained(h) THEN h.pos ELSE LandedAt(h) + Len(h.fly)

\* A handle behaves as a file its calls are applied to in order: although a
\* write fulfils before it lands, and read and write at a position move the
\* one cursor there and back, a read by the handle that writes gives what
\* the calls before it left; a call leaves the cursor where the calls
\* without position lead; and when the calls are over the file holds what
\* they wrote, at once when the handle is closed or was fs.writeFile's.
\* Excepted: a call that failed half-way, a write with an offset, and two
\* handles that write.
HandleIsSequential ==
  /\ TypeOK
  /\ ~s.misread
  /\ \A i \in Handles :
       s.h[i].state = "open" /\ s.h[i].op = Idle /\ s.h[i].sound
       /\ (~Flags[s.h[i].flags].append \/ (s.sole /\ \A j \in Handles : s.h[j].sound))
         => LandedPos(s.h[i]) = s.h[i].want
  /\ s.sole /\ (\A i \in Handles : s.h[i].op = Idle /\ s.h[i].sound)
       => \A i \in Handles : Writers(s) \subseteq {i} => Landed(i) = s.ref

\* file_handle.rs: "Always overwrite the whole file".  After writeFile the
\* file holds its data from the start.
\* It does not hold; no run checks it (README).
WriteFileReplaces == ~s.holed
================================================================================
