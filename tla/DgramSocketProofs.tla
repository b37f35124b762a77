------------------------- MODULE DgramSocketProofs -------------------------
(* Proofs about DgramSocket, for any number of bindings and of sends.      *)
EXTENDS DgramSocket, FiniteSetTheorems, SequenceTheorems, TLAPS

Types ==
  /\ early \subseteq {"start", "close"}
  /\ is_bound \in BOOLEAN
  /\ is_closed \in BOOLEAN
  /\ receiver_running \in BOOLEAN
  /\ send_tx \in 0..MaxBinds
  /\ local \in 0..MaxBinds
  /\ ready_latch \in [count : Nat, waiters : SUBSET Sends]
  /\ binds \in [Binds -> BindTask]
  /\ sends \in [Sends -> SendTask]
  /\ exited \in BOOLEAN

(* Tasks are taken in order, so the next number is that of a new task.     *)
UsedBinds == {c \in Binds : binds[c].pc # "none"}
UsedSends == {t \in Sends : sends[t].pc # "none"}
InOrder ==
  /\ \A b \in UsedBinds : \A c \in Binds : c < b => c \in UsedBinds
  /\ \A s \in UsedSends : \A t \in Sends : t < s => t \in UsedSends

Failed == \E b \in Binds : binds[b].pc = "failed"

(* The count of the latch is the number of bindings in progress.  A send   *)
(* that has been woken had one of them end.                                *)
Latched ==
  /\ ready_latch.count = Cardinality(Binding)
  /\ \A s \in ready_latch.waiters : sends[s].pc = "waiting"
  /\ ready_latch.waiters # {} => Binding # {}
  /\ \A s \in Sends : sends[s].pc = "waiting" /\ s \notin ready_latch.waiters =>
       is_bound = TRUE \/ Failed

(* An open socket that is bound has the channel of a sender loop that      *)
(* runs.  A send was preceded by a binding.  What is in a channel has gone *)
(* through the latch.                                                      *)
Channel ==
  /\ is_closed = FALSE /\ is_bound = TRUE =>
       send_tx \in Binds /\ binds[send_tx].sender = "running"
  /\ \A b \in Binds : binds[b].sender_close = TRUE => is_closed = TRUE
  /\ \A b \in Binds : binds[b].receiver # "none" => is_bound = TRUE
  /\ \A s \in Sends : sends[s].pc # "none" => is_bound = TRUE \/ Binding # {} \/ Failed
  /\ \A s \in Sends : sends[s].pc = "errorEvent" => is_closed = TRUE \/ Failed
  /\ \A b \in Binds : \A i \in 1 .. Len(binds[b].queue) :
       sends[binds[b].queue[i]].pc \in {"queued", "answered", "dropped"}

(* The program that lets one binding end before it starts another.         *)
OneBinding ==
  "start" \notin early =>
    /\ \A b, c \in Binding : b = c
    /\ is_bound = TRUE => /\ Binding = {}
                          /\ local \in Binds
                          /\ binds[local].receiver # "none"
    /\ is_bound = FALSE => receiver_running = FALSE

Inv == Types /\ InOrder /\ Latched /\ Channel /\ OneBinding

----------------------------------------------------------------------------
(* Where the first k of N numbers are taken, 1 + k is the first free one.  *)
LEMMA NextIsFirstFree ==
  ASSUME NEW N \in Nat, NEW U \in SUBSET (1 .. N), NEW b \in 1 .. N,
         \A x \in U : \A y \in 1 .. N : y < x => y \in U,
         b = 1 + Cardinality(U)
  PROVE  b \notin U /\ \A y \in 1 .. N : y < b => y \in U
<1>1. IsFiniteSet(1 .. N) /\ IsFiniteSet(U) /\ Cardinality(U) \in Nat
  <2>1. IsFiniteSet(1 .. N)
    BY FS_Interval
  <2>2. IsFiniteSet(U)
    BY <2>1, FS_Subset, Zenon
  <2> QED
    BY <2>1, <2>2, FS_CardinalityType
<1>2. ASSUME b \in U PROVE FALSE
  <2>1. 1 .. b \in SUBSET U
    BY <1>2
  <2>2. Cardinality(1 .. b) <= Cardinality(U)
    BY <2>1, <1>1, FS_Subset
  <2>3. Cardinality(1 .. b) = b
    BY FS_Interval
  <2> QED
    BY <2>2, <2>3, <1>1
<1>3. ASSUME NEW y \in 1 .. N, y < b, y \notin U PROVE FALSE
  <2>1. U \in SUBSET (1 .. (y - 1))
    BY <1>3
  <2>2. IsFiniteSet(1 .. (y - 1)) /\ Cardinality(1 .. (y - 1)) = y - 1
    <3> DEFINE z == y - 1
    <3>1. 1 \in Int /\ z \in Int /\ z >= 0
      OBVIOUS
    <3> HIDE DEF z
    <3>2. IsFiniteSet(1 .. z) /\ Cardinality(1 .. z) = IF 1 > z THEN 0 ELSE z - 1 + 1
      BY <3>1, FS_Interval, Zenon
    <3>3. Cardinality(1 .. z) = z
      BY <3>1, <3>2
    <3> QED
      BY <3>2, <3>3 DEF z
  <2>3. Cardinality(U) <= y - 1
    BY <2>1, <2>2, FS_Subset, Zenon
  <2> QED
    BY <2>3, <1>1, <1>3
<1> QED
  BY <1>2, <1>3

LEMMA BindingFinite ==
  ASSUME MaxBinds \in Nat
  PROVE  /\ IsFiniteSet(Binding) /\ Cardinality(Binding) \in 0 .. MaxBinds
         /\ Cardinality(Binding) = 0 <=> Binding = {}
<1>1. IsFiniteSet(Binds) /\ Cardinality(Binds) = MaxBinds
  BY FS_Interval DEF Binds
<1>2. Binding \in SUBSET Binds
  BY DEF Binding
<1>3. IsFiniteSet(Binding) /\ Cardinality(Binding) <= MaxBinds
  BY <1>1, <1>2, FS_Subset
<1> QED
  BY <1>3, FS_CardinalityType, FS_EmptySet

(* One binding's record is replaced.                                       *)
LEMMA Replaced ==
  ASSUME binds \in [Binds -> BindTask], NEW b \in Binds, NEW task \in BindTask,
         binds' = [binds EXCEPT ![b] = task]
  PROVE  /\ binds' \in [Binds -> BindTask]
         /\ binds'[b] = task
         /\ \A c \in Binds : c # b => binds'[c] = binds[c]
  OBVIOUS

(* A binding is started: it is a new one, and counted.                     *)
LEMMA Starts ==
  ASSUME MaxBinds \in Nat, Inv, NEW b \in Binds, start_listening(b)
  PROVE  /\ binds[b].pc = "none"
         /\ binds' \in [Binds -> BindTask]
         /\ binds' = [binds EXCEPT ![b].pc = "binding"]
         /\ UsedBinds' = UsedBinds \cup {b}
         /\ \A x \in UsedBinds' : \A y \in Binds : y < x => y \in UsedBinds'
         /\ Binding' = Binding \cup {b}
         /\ ready_latch' \in [count : Nat, waiters : SUBSET Sends]
         /\ ready_latch'.count = Cardinality(Binding')
         /\ ready_latch'.waiters = ready_latch.waiters
<1>1. /\ binds' = [binds EXCEPT ![b].pc = "binding"]
      /\ ready_latch' = [ready_latch EXCEPT !.count = @ + 1]
      /\ b = 1 + Cardinality(UsedBinds)
  BY DEF start_listening, NextBind, increment, UsedBinds
<1>2. b \notin UsedBinds /\ \A y \in Binds : y < b => y \in UsedBinds
  <2>1. UsedBinds \in SUBSET (1 .. MaxBinds) /\ b \in 1 .. MaxBinds
    BY DEF UsedBinds, Binds
  <2>2. \A x \in UsedBinds : \A y \in 1 .. MaxBinds : y < x => y \in UsedBinds
    BY DEF Inv, InOrder, Binds
  <2> HIDE DEF UsedBinds
  <2> QED
    BY <1>1, <2>1, <2>2, NextIsFirstFree DEF Binds
<1>3. binds[b].pc = "none" /\ b \notin Binding
  BY <1>2 DEF UsedBinds, Binding
<1>4. binds' \in [Binds -> BindTask]
  <2> DEFINE task == [binds[b] EXCEPT !.pc = "binding"]
  <2>1. binds \in [Binds -> BindTask] /\ binds[b] \in BindTask
    BY DEF Inv, Types
  <2>2. task \in BindTask
    BY <2>1, Zenon DEF BindTask
  <2>3. binds' = [binds EXCEPT ![b] = task]
    BY <1>1
  <2> HIDE DEF task
  <2> QED
    BY <2>1, <2>2, <2>3, Replaced
<1>5. \A c \in Binds : binds'[c].pc = IF c = b THEN "binding" ELSE binds[c].pc
  BY <1>1 DEF Inv, Types, BindTask
<1>6. UsedBinds' = UsedBinds \cup {b} /\ Binding' = Binding \cup {b}
  BY <1>5 DEF UsedBinds, Binding
<1>7. \A x \in UsedBinds' : \A y \in Binds : y < x => y \in UsedBinds'
  BY <1>2, <1>6 DEF Inv, InOrder
<1>8. Cardinality(Binding') = Cardinality(Binding) + 1
  BY <1>3, <1>6, BindingFinite, FS_AddElement, Zenon
<1>9. ready_latch'.count = ready_latch.count + 1 /\ ready_latch'.waiters = ready_latch.waiters
      /\ ready_latch' \in [count : Nat, waiters : SUBSET Sends]
  BY <1>1 DEF Inv, Types
<1> QED
  BY <1>1, <1>3, <1>4, <1>6, <1>7, <1>8, <1>9 DEF Inv, Latched

(* A binding ends, and the last one wakes the sends.                       *)
LEMMA Ends ==
  ASSUME MaxBinds \in Nat, Inv, NEW b \in Binding,
         ready_latch' = decrement(ready_latch),
         Binding' = Binding \ {b}
  PROVE  /\ ready_latch' \in [count : Nat, waiters : SUBSET Sends]
         /\ ready_latch'.count = Cardinality(Binding')
         /\ ready_latch'.waiters = IF Binding' = {} THEN {} ELSE ready_latch.waiters
<1>1. /\ Cardinality(Binding') = Cardinality(Binding) - 1
      /\ Cardinality(Binding') \in Nat /\ IsFiniteSet(Binding')
      /\ Cardinality(Binding) \in Nat
  BY BindingFinite, FS_RemoveElement, FS_CardinalityType
<1>2. Cardinality(Binding') = 0 <=> Binding' = {}
  BY <1>1, FS_EmptySet
<1>3. ready_latch \in [count : Nat, waiters : SUBSET Sends]
      /\ ready_latch.count = Cardinality(Binding)
  BY DEF Inv, Types, Latched
<1> DEFINE less == fetch_sub(ready_latch)
           woken == notify_waiters(less)
<1>4. /\ less \in [count : Nat, waiters : SUBSET Sends]
      /\ less.count = ready_latch.count - 1 /\ less.waiters = ready_latch.waiters
  BY <1>1, <1>3 DEF fetch_sub
<1>5. ready_latch' = IF ready_latch.count = 1 THEN woken ELSE less
  BY DEF decrement, Notifies
<1> HIDE DEF less
<1>6. /\ woken \in [count : Nat, waiters : SUBSET Sends]
      /\ woken.count = less.count /\ woken.waiters = {}
  BY <1>4 DEF notify_waiters
<1> HIDE DEF woken
<1> QED
  BY <1>1, <1>2, <1>3, <1>4, <1>5, <1>6, SMTT(20)

----------------------------------------------------------------------------
LEMMA InitInv ==
  ASSUME MaxBinds \in Nat, MaxSends \in Nat, DgramInit
  PROVE  Inv
<1>1. \A b \in Binds : /\ binds[b].pc = "none" /\ binds[b].sender_close = FALSE
                       /\ binds[b].queue = <<>> /\ binds[b].receiver = "none"
  BY DEF DgramInit
<1>2. \A s \in Sends : sends[s].pc = "none"
  BY DEF DgramInit
<1>3. Binding = {} /\ Cardinality(Binding) = 0
  BY <1>1, FS_EmptySet, Zenon DEF Binding
<1>4. Types
  <2>1. binds \in [Binds -> BindTask]
    <3>1. [pc |-> "none", receiver |-> "none", sender |-> "none",
           receiver_close |-> FALSE, sender_close |-> FALSE, queue |-> <<>>] \in BindTask
      BY DEF BindTask
    <3> QED
      BY <3>1 DEF DgramInit
  <2>2. sends \in [Sends -> SendTask]
    BY DEF DgramInit, SendTask
  <2>3. ready_latch \in [count : Nat, waiters : SUBSET Sends]
    BY DEF DgramInit, Default
  <2>4. send_tx \in 0 .. MaxBinds /\ local \in 0 .. MaxBinds
    BY DEF DgramInit
  <2> QED
    BY <2>1, <2>2, <2>3, <2>4, Zenon DEF DgramInit, Types
<1>5. InOrder
  BY <1>1, <1>2 DEF InOrder, UsedBinds, UsedSends
<1>6. Latched
  BY <1>2, <1>3 DEF DgramInit, Latched, Default
<1>7. Channel
  BY <1>1, <1>2 DEF DgramInit, Channel
<1>8. OneBinding
  BY <1>3 DEF DgramInit, OneBinding
<1> QED
  BY <1>4, <1>5, <1>6, <1>7, <1>8, SMTT(20) DEF Inv

(* bind(): the sends are left alone.                                       *)
LEMMA BindInv ==
  ASSUME MaxBinds \in Nat, Inv, NEW b \in Binds, Bind(b)
  PROVE  Inv'
<1>1. /\ UNCHANGED <<early, exited, is_bound, is_closed, receiver_running, send_tx,
                     local, sends>>
      /\ is_bound = FALSE /\ May("start") /\ start_listening(b)
  BY DEF Bind, Continues, flags, Inv, Types
<1>2. /\ binds[b].pc = "none"
      /\ binds' \in [Binds -> BindTask]
      /\ binds' = [binds EXCEPT ![b].pc = "binding"]
      /\ \A x \in UsedBinds' : \A y \in Binds : y < x => y \in UsedBinds'
      /\ Binding' = Binding \cup {b}
      /\ ready_latch' \in [count : Nat, waiters : SUBSET Sends]
      /\ ready_latch'.count = Cardinality(Binding')
      /\ ready_latch'.waiters = ready_latch.waiters
  BY <1>1, Starts
<1>3. \A c \in Binds : /\ binds'[c].sender = binds[c].sender
                       /\ binds'[c].receiver = binds[c].receiver
                       /\ binds'[c].sender_close = binds[c].sender_close
                       /\ binds'[c].queue = binds[c].queue
                       /\ binds'[c].pc = IF c = b THEN "binding" ELSE binds[c].pc
  BY <1>2 DEF Inv, Types, BindTask
<1>4. Failed' <=> Failed
  BY <1>2, <1>3 DEF Failed
<1>5. Types'
  BY <1>1, <1>2 DEF Inv, Types
<1>6. InOrder'
  BY <1>1, <1>2 DEF Inv, InOrder, UsedSends
<1>7. Latched'
  BY <1>1, <1>2, <1>4, SMTT(20) DEF Inv, Latched
<1>8. Channel'
  BY <1>1, <1>2, <1>3, <1>4 DEF Inv, Channel
<1>9. OneBinding'
  <2> SUFFICES ASSUME "start" \notin early PROVE OneBinding'
    BY <1>1, Zenon DEF OneBinding
  <2>1. Binding = {}
    BY <1>1 DEF May
  <2> QED
    BY <2>1, <1>1, <1>2 DEF OneBinding, Inv
<1> QED
  BY <1>5, <1>6, <1>7, <1>8, <1>9, SMTT(20) DEF Inv

(* send(): a new task, and a binding if there is none yet.                 *)
LEMMA SendInv ==
  ASSUME MaxBinds \in Nat, MaxSends \in Nat, Inv,
         NEW s \in Sends, NEW b \in Binds, NEW callback \in BOOLEAN,
         Send(s, b, callback)
  PROVE  Inv'
<1>1. /\ UNCHANGED <<early, exited, is_bound, is_closed, receiver_running, send_tx,
                     local>>
      /\ s = 1 + Cardinality(UsedSends)
      /\ sends' = [sends EXCEPT ![s] = [pc |-> "spawned", callback |-> callback]]
  BY DEF Send, ensure_listening, NextSend, Continues, flags, UsedSends
<1>2. s \notin UsedSends /\ \A y \in Sends : y < s => y \in UsedSends
  <2>1. UsedSends \in SUBSET (1 .. MaxSends) /\ s \in 1 .. MaxSends
    BY DEF UsedSends, Sends
  <2>2. \A x \in UsedSends : \A y \in 1 .. MaxSends : y < x => y \in UsedSends
    BY DEF Inv, InOrder, Sends
  <2> HIDE DEF UsedSends
  <2> QED
    BY <1>1, <2>1, <2>2, NextIsFirstFree DEF Sends
<1>3. /\ sends' \in [Sends -> SendTask]
      /\ sends[s].pc = "none" /\ sends'[s].pc = "spawned"
      /\ \A t \in Sends : t # s => sends'[t] = sends[t]
  BY <1>1, <1>2 DEF Inv, Types, SendTask, UsedSends
<1>4. /\ UsedSends' = UsedSends \cup {s}
      /\ \A x \in UsedSends' : \A y \in Sends : y < x => y \in UsedSends'
  <2>1. UsedSends' = UsedSends \cup {s}
    BY <1>3 DEF UsedSends
  <2> QED
    BY <2>1, <1>2 DEF Inv, InOrder
<1>5. CASE is_bound = TRUE
  <2>1. UNCHANGED <<binds, ready_latch>>
    BY <1>5 DEF Send, ensure_listening
  <2>2. Binding' = Binding /\ (Failed' <=> Failed) /\ UsedBinds' = UsedBinds
    BY <2>1 DEF Binding, Failed, UsedBinds
  <2>3. Types'
    BY <2>1, <1>1, <1>3 DEF Inv, Types
  <2>4. InOrder'
    BY <2>2, <1>4 DEF Inv, InOrder
  <2>5. Latched'
    BY <2>1, <2>2, <1>1, <1>3, <1>5, SMTT(20) DEF Inv, Latched
  <2>6. Channel'
    <3>1. \A c \in Binds : \A i \in 1 .. Len(binds[c].queue) : binds[c].queue[i] \in Sends
      BY DEF Inv, Types, BindTask
    <3> QED
      BY <3>1, <2>1, <2>2, <1>1, <1>3, <1>5, SMTT(20) DEF Inv, Channel
  <2>7. OneBinding'
    BY <2>1, <2>2, <1>1, SMTT(20) DEF Inv, OneBinding
  <2> QED
    BY <2>3, <2>4, <2>5, <2>6, <2>7 DEF Inv
<1>6. CASE is_bound = FALSE
  <2>1. start_listening(b) /\ May("start")
    BY <1>6 DEF Send, ensure_listening
  <2>2. /\ binds[b].pc = "none"
        /\ binds' \in [Binds -> BindTask]
        /\ binds' = [binds EXCEPT ![b].pc = "binding"]
        /\ \A x \in UsedBinds' : \A y \in Binds : y < x => y \in UsedBinds'
        /\ Binding' = Binding \cup {b}
        /\ ready_latch' \in [count : Nat, waiters : SUBSET Sends]
        /\ ready_latch'.count = Cardinality(Binding')
        /\ ready_latch'.waiters = ready_latch.waiters
    BY <2>1, Starts
  <2>3. \A c \in Binds : /\ binds'[c].sender = binds[c].sender
                         /\ binds'[c].receiver = binds[c].receiver
                         /\ binds'[c].sender_close = binds[c].sender_close
                         /\ binds'[c].queue = binds[c].queue
                         /\ binds'[c].pc = IF c = b THEN "binding" ELSE binds[c].pc
    BY <2>2 DEF Inv, Types, BindTask
  <2>4. Failed' <=> Failed
    BY <2>2, <2>3 DEF Failed
  <2>5. Types'
    BY <2>2, <1>1, <1>3, SMTT(20) DEF Inv, Types
  <2>6. InOrder'
    BY <2>2, <1>4 DEF Inv, InOrder
  <2>7. Latched'
    BY <2>2, <2>4, <1>1, <1>3, <1>6, SMTT(20) DEF Inv, Latched
  <2>8. Channel'
    <3>1. \A c \in Binds : \A i \in 1 .. Len(binds[c].queue) : binds[c].queue[i] \in Sends
      BY DEF Inv, Types, BindTask
    <3> QED
      BY <3>1, <2>2, <2>3, <2>4, <1>1, <1>3, <1>6, SMTT(20) DEF Inv, Channel
  <2>9. OneBinding'
    <3> SUFFICES ASSUME "start" \notin early PROVE OneBinding'
      BY <1>1, Zenon DEF OneBinding
    <3>1. Binding = {}
      BY <2>1 DEF May
    <3> QED
      BY <3>1, <2>2, <1>1, <1>6 DEF OneBinding, Inv
  <2> QED
    BY <2>5, <2>6, <2>7, <2>8, <2>9 DEF Inv
<1> QED
  BY <1>5, <1>6, Zenon DEF Inv, Types

(* close(): no binding and no send moves.                                  *)
LEMMA CloseInv ==
  ASSUME MaxBinds \in Nat, Inv, CloseDgram
  PROVE  Inv'
<1>1. /\ UNCHANGED <<early, exited, is_bound, receiver_running, local, ready_latch, sends>>
      /\ is_closed' = TRUE /\ send_tx' = 0
      /\ binds' = [b \in Binds |->
                     [binds[b] EXCEPT !.receiver_close = binds[b].pc = "bound",
                                      !.sender_close = binds[b].pc = "bound"]]
  BY Zenon DEF CloseDgram, Continues
<1>2. /\ binds' \in [Binds -> BindTask]
      /\ \A b \in Binds : /\ binds'[b].pc = binds[b].pc
                           /\ binds'[b].receiver = binds[b].receiver
                           /\ binds'[b].queue = binds[b].queue
  <2>1. ASSUME NEW b \in Binds
        PROVE  /\ binds'[b] \in BindTask
               /\ binds'[b].pc = binds[b].pc
               /\ binds'[b].receiver = binds[b].receiver
               /\ binds'[b].queue = binds[b].queue
    <3> DEFINE signal == binds[b].pc = "bound"
    <3>1. signal \in BOOLEAN
      OBVIOUS
    <3>2. binds[b] \in BindTask
      BY DEF Inv, Types
    <3>3. binds'[b] = [binds[b] EXCEPT !.receiver_close = signal, !.sender_close = signal]
      BY <1>1, Zenon
    <3> HIDE DEF signal
    <3> QED
      BY <3>1, <3>2, <3>3, Zenon DEF BindTask
  <2>2. binds' = [b \in Binds |-> binds'[b]]
    BY <1>1, Zenon
  <2> QED
    BY <2>1, <2>2
<1>3. Binding' = Binding /\ (Failed' <=> Failed) /\ UsedBinds' = UsedBinds
  BY <1>2 DEF Binding, Failed, UsedBinds
<1>4. Types'
  <2>1. send_tx' = 0 /\ is_closed' = TRUE
    BY Zenon DEF CloseDgram
  <2>2. send_tx' \in 0 .. MaxBinds /\ is_closed' \in BOOLEAN
    BY <2>1
  <2>3. UNCHANGED <<early, exited, is_bound, receiver_running, local, ready_latch, sends>>
    BY <1>1, Zenon
  <2> QED
    BY <2>2, <2>3, <1>2 DEF Inv, Types
<1>5. InOrder'
  BY <1>1, <1>3, Zenon DEF Inv, InOrder, UsedSends
<1>6. Latched'
  BY <1>1, <1>3, Zenon DEF Inv, Latched
<1>7. Channel'
  <2>1. \A b \in Binds : binds'[b].receiver # "none" => is_bound' = TRUE
    BY <1>1, <1>2, Zenon DEF Inv, Channel
  <2>2. \A s \in Sends : sends'[s].pc # "none" =>
          is_bound' = TRUE \/ Binding' # {} \/ Failed'
    BY <1>1, <1>3, Zenon DEF Inv, Channel
  <2>3. \A b \in Binds : \A i \in 1 .. Len(binds'[b].queue) :
          sends'[binds'[b].queue[i]].pc \in {"queued", "answered", "dropped"}
    BY <1>1, <1>2, Zenon DEF Inv, Channel
  <2> QED
    BY <1>1, <2>1, <2>2, <2>3, Zenon DEF Channel
<1>8. OneBinding'
  BY <1>1, <1>2, <1>3, Zenon DEF Inv, OneBinding
<1> QED
  BY <1>4, <1>5, <1>6, <1>7, <1>8 DEF Inv

(* The binding succeeds.                                                   *)
LEMMA BindSucceedsInv ==
  ASSUME MaxBinds \in Nat, Inv, NEW b \in Binds, BindingSucceeds(b)
  PROVE  Inv'
<1>1. /\ UNCHANGED <<early, exited, is_closed, sends>>
      /\ binds[b].pc = "binding"
      /\ is_bound' = TRUE /\ local' = b /\ send_tx' = b /\ receiver_running' = TRUE
      /\ ready_latch' = decrement(ready_latch)
      /\ binds' = [binds EXCEPT
                     ![b].pc = "bound",
                     ![b].sender = "running",
                     ![b].receiver = IF receiver_running THEN @ ELSE "running"]
  BY DEF BindingSucceeds, Continues
<1>2. /\ binds' \in [Binds -> BindTask]
      /\ binds'[b].pc = "bound" /\ binds'[b].sender = "running"
      /\ receiver_running = FALSE => binds'[b].receiver = "running"
      /\ binds'[b].queue = binds[b].queue
      /\ binds'[b].sender_close = binds[b].sender_close
      /\ \A c \in Binds : c # b => binds'[c] = binds[c]
  <2> DEFINE to == IF receiver_running THEN binds[b].receiver ELSE "running"
             task == [binds[b] EXCEPT !.pc = "bound", !.sender = "running", !.receiver = to]
  <2>1. binds \in [Binds -> BindTask] /\ binds[b] \in BindTask
    BY DEF Inv, Types
  <2>2. to \in {"none", "running", "ended"} /\ (receiver_running = FALSE => to = "running")
    BY <2>1, Zenon DEF BindTask
  <2>3. binds' = [binds EXCEPT ![b] = task]
    BY <1>1, <2>1, Zenon
  <2> HIDE DEF to
  <2>4. /\ task \in BindTask
        /\ task.pc = "bound" /\ task.sender = "running" /\ task.receiver = to
        /\ task.queue = binds[b].queue /\ task.sender_close = binds[b].sender_close
    BY <2>1, <2>2, Zenon DEF BindTask
  <2> HIDE DEF task
  <2> QED
    BY <2>1, <2>2, <2>3, <2>4, Replaced
<1>3. Binding' = Binding \ {b} /\ b \in Binding /\ (Failed' <=> Failed)
      /\ UsedBinds' = UsedBinds
  BY <1>1, <1>2 DEF Binding, Failed, UsedBinds
<1>4. /\ ready_latch' \in [count : Nat, waiters : SUBSET Sends]
      /\ ready_latch'.count = Cardinality(Binding')
      /\ ready_latch'.waiters = IF Binding' = {} THEN {} ELSE ready_latch.waiters
  BY <1>1, <1>3, Ends, Zenon
<1>5. Types'
  BY <1>1, <1>2, <1>4 DEF Inv, Types, Binds
<1>6. InOrder'
  BY <1>1, <1>3 DEF Inv, InOrder, UsedSends
<1>7. Latched'
  BY <1>1, <1>4 DEF Inv, Latched
<1>8. Channel'
  BY <1>1, <1>2, <1>3, ZenonT(30) DEF Inv, Channel
<1>9. OneBinding'
  <2> SUFFICES ASSUME "start" \notin early PROVE OneBinding'
    BY <1>1 DEF OneBinding
  <2>1. Binding' = {} /\ receiver_running = FALSE
    BY <1>3, SMTT(20) DEF Inv, OneBinding, Types
  <2> QED
    BY <2>1, <1>1, <1>2 DEF OneBinding
<1> QED
  BY <1>5, <1>6, <1>7, <1>8, <1>9 DEF Inv

(* The binding fails.                                                      *)
LEMMA BindFailsInv ==
  ASSUME MaxBinds \in Nat, Inv, NEW b \in Binds, BindingFails(b)
  PROVE  Inv'
<1>1. /\ UNCHANGED <<early, exited, is_bound, is_closed, receiver_running, send_tx,
                     local, sends>>
      /\ binds[b].pc = "binding"
      /\ ready_latch' = decrement(ready_latch)
      /\ binds' = [binds EXCEPT ![b].pc = "failed"]
  BY DEF BindingFails, Continues, flags
<1>2. /\ binds' \in [Binds -> BindTask]
      /\ \A c \in Binds : /\ binds'[c].sender = binds[c].sender
                           /\ binds'[c].receiver = binds[c].receiver
                           /\ binds'[c].sender_close = binds[c].sender_close
                           /\ binds'[c].queue = binds[c].queue
                           /\ binds'[c].pc = IF c = b THEN "failed" ELSE binds[c].pc
  <2> DEFINE task == [binds[b] EXCEPT !.pc = "failed"]
  <2>1. binds \in [Binds -> BindTask]
    BY DEF Inv, Types
  <2>2. binds' = [binds EXCEPT ![b] = task]
    BY <1>1
  <2>3. /\ task \in BindTask /\ task.pc = "failed"
        /\ task.sender = binds[b].sender /\ task.receiver = binds[b].receiver
        /\ task.sender_close = binds[b].sender_close /\ task.queue = binds[b].queue
    <3>1. binds[b] \in BindTask
      BY <2>1
    <3> QED
      BY <3>1, Zenon DEF BindTask
  <2> HIDE DEF task
  <2>4. /\ binds' \in [Binds -> BindTask] /\ binds'[b] = task
        /\ \A c \in Binds : c # b => binds'[c] = binds[c]
    BY <2>1, <2>2, <2>3, Replaced
  <2> QED
    BY <2>3, <2>4, Zenon
<1>3. Binding' = Binding \ {b} /\ b \in Binding /\ Failed' /\ UsedBinds' = UsedBinds
  BY <1>1, <1>2 DEF Binding, Failed, UsedBinds
<1>4. /\ ready_latch' \in [count : Nat, waiters : SUBSET Sends]
      /\ ready_latch'.count = Cardinality(Binding')
      /\ ready_latch'.waiters = IF Binding' = {} THEN {} ELSE ready_latch.waiters
  BY <1>1, <1>3, Ends, Zenon
<1>5. Types'
  BY <1>1, <1>2, <1>4 DEF Inv, Types
<1>6. InOrder'
  BY <1>1, <1>3 DEF Inv, InOrder, UsedSends
<1>7. Latched'
  BY <1>1, <1>3, <1>4, SMTT(20) DEF Inv, Latched
<1>8. Channel'
  BY <1>1, <1>2, <1>3 DEF Inv, Channel
<1>9. OneBinding'
  BY <1>1, <1>2, <1>3 DEF Inv, OneBinding
<1> QED
  BY <1>5, <1>6, <1>7, <1>8, <1>9 DEF Inv

----------------------------------------------------------------------------
(* The steps of the loops and of the sends leave the bindings and the      *)
(* count of the latch alone.  They keep the invariant if the loop that has *)
(* the channel goes on while the socket is open, and the sends move as the *)
(* last four conditions say.                                               *)
Onward ==
  /\ UNCHANGED <<early, is_bound, is_closed, send_tx, local>>
  /\ receiver_running' \in BOOLEAN /\ exited' \in BOOLEAN
  /\ is_bound = FALSE => receiver_running' = receiver_running
  /\ binds' \in [Binds -> BindTask] /\ sends' \in [Sends -> SendTask]
  /\ ready_latch' \in [count : Nat, waiters : SUBSET Sends]
  /\ ready_latch'.count = ready_latch.count
  /\ \A b \in Binds :
       /\ binds'[b].pc = binds[b].pc /\ binds'[b].sender_close = binds[b].sender_close
       /\ binds'[b].receiver = "none" <=> binds[b].receiver = "none"
       /\ b = send_tx /\ is_closed = FALSE => binds'[b].sender = binds[b].sender
       /\ \A i \in 1 .. Len(binds'[b].queue) :
            sends'[binds'[b].queue[i]].pc \in {"queued", "answered", "dropped"}
  /\ \A s \in Sends :
       /\ sends'[s].pc = "none" <=> sends[s].pc = "none"
       /\ sends'[s].pc = "errorEvent" =>
            sends[s].pc = "errorEvent" \/ is_closed = TRUE \/ Failed
       /\ sends'[s].pc = "waiting" /\ s \notin ready_latch'.waiters =>
            sends[s].pc = "waiting" /\ s \notin ready_latch.waiters
       /\ s \in ready_latch'.waiters => sends'[s].pc = "waiting" /\ Binding # {}

LEMMA OnwardInv ==
  ASSUME Inv, Onward
  PROVE  Inv'
<1>1. Binding' = Binding /\ (Failed' <=> Failed) /\ UsedBinds' = UsedBinds
      /\ UsedSends' = UsedSends
  BY DEF Onward, Binding, Failed, UsedBinds, UsedSends
<1>2. Types'
  BY DEF Onward, Inv, Types
<1>3. InOrder'
  BY <1>1 DEF Inv, InOrder
<1>4. Latched'
  BY <1>1, <1>2, SMTT(20) DEF Onward, Inv, Latched, Types
<1>5. Channel'
  BY <1>1 DEF Onward, Inv, Channel
<1>6. OneBinding'
  BY <1>1 DEF Onward, Inv, OneBinding
<1> QED
  BY <1>2, <1>3, <1>4, <1>5, <1>6, SMTT(20) DEF Inv

(* A send whose datagram is in a channel does not wait.                    *)
LEMMA QueuedSends ==
  ASSUME Inv, NEW b \in Binds
  PROVE  /\ binds[b].queue \in Seq(Sends)
         /\ \A i \in 1 .. Len(binds[b].queue) :
              /\ binds[b].queue[i] \in Sends
              /\ sends[binds[b].queue[i]].pc \in {"queued", "answered", "dropped"}
              /\ binds[b].queue[i] \notin ready_latch.waiters
<1>1. binds[b].queue \in Seq(Sends)
  BY DEF Inv, Types, BindTask
<1> QED
  BY <1>1 DEF Inv, Channel, Latched

LEMMA ReceiverInv ==
  ASSUME Inv, NEW b \in Binds, ReceiverEnds(b) \/ ReceiverFails(b)
  PROVE  Inv'
<1>1. /\ UNCHANGED <<early, exited, is_bound, is_closed, send_tx, local, ready_latch, sends>>
      /\ binds[b].receiver = "running"
      /\ binds' = [binds EXCEPT ![b].receiver = "ended"]
      /\ receiver_running' \in BOOLEAN
  BY Zenon DEF ReceiverEnds, ReceiverFails, Continues, Inv, Types
<1>2. is_bound = TRUE
  BY <1>1 DEF Inv, Channel
<1>3. /\ binds' \in [Binds -> BindTask]
      /\ \A c \in Binds : /\ binds'[c].pc = binds[c].pc
                           /\ binds'[c].sender = binds[c].sender
                           /\ binds'[c].sender_close = binds[c].sender_close
                           /\ binds'[c].queue = binds[c].queue
                           /\ binds'[c].receiver = IF c = b THEN "ended" ELSE binds[c].receiver
  <2> DEFINE task == [binds[b] EXCEPT !.receiver = "ended"]
  <2>1. binds \in [Binds -> BindTask]
    BY DEF Inv, Types
  <2>2. binds' = [binds EXCEPT ![b] = task]
    BY <1>1
  <2>3. /\ task \in BindTask /\ task.receiver = "ended"
        /\ task.pc = binds[b].pc /\ task.sender = binds[b].sender
        /\ task.sender_close = binds[b].sender_close /\ task.queue = binds[b].queue
    <3>1. binds[b] \in BindTask
      BY <2>1
    <3> QED
      BY <3>1, Zenon DEF BindTask
  <2> HIDE DEF task
  <2>4. /\ binds' \in [Binds -> BindTask] /\ binds'[b] = task
        /\ \A c \in Binds : c # b => binds'[c] = binds[c]
    BY <2>1, <2>2, <2>3, Replaced, SMTT(20)
  <2> QED
    BY <2>3, <2>4, Zenon
<1>4. Onward
  BY <1>1, <1>2, <1>3, SMTT(20) DEF Onward, Inv, Types, Channel, Latched
<1> QED
  BY <1>4, OnwardInv

(* The sender loop takes a datagram, and its send is answered.             *)
LEMMA AnswerInv ==
  ASSUME Inv, NEW b \in Binds,
         binds[b].queue # <<>>,
         UNCHANGED <<early, is_bound, is_closed, receiver_running, send_tx, local,
                     ready_latch>>,
         exited' \in BOOLEAN,
         binds' = [binds EXCEPT ![b].queue = Tail(@)],
         sends' = [sends EXCEPT ![Head(binds[b].queue)].pc = "answered"]
  PROVE  Inv'
<1> DEFINE q == binds[b].queue
           h == Head(q)
<1>1. q \in Seq(Sends) /\ Len(q) \in Nat /\ Len(q) > 0
  BY QueuedSends
<1>2. /\ h = q[1] /\ Tail(q) \in Seq(Sends) /\ Len(Tail(q)) = Len(q) - 1
      /\ \A i \in 1 .. Len(Tail(q)) : Tail(q)[i] = q[i + 1] /\ i + 1 \in 1 .. Len(q)
      /\ 1 \in 1 .. Len(q)
  BY <1>1, SMTT(20)
<1>3. /\ h \in Sends /\ sends[h].pc \in {"queued", "answered", "dropped"}
      /\ h \notin ready_latch.waiters
  BY <1>2, QueuedSends
<1>4. /\ sends' \in [Sends -> SendTask]
      /\ sends'[h].pc = "answered"
      /\ \A t \in Sends : t # h => sends'[t] = sends[t]
  BY <1>3 DEF Inv, Types, SendTask
<1>5. /\ binds' \in [Binds -> BindTask]
      /\ \A c \in Binds : /\ binds'[c].pc = binds[c].pc
                           /\ binds'[c].sender = binds[c].sender
                           /\ binds'[c].receiver = binds[c].receiver
                           /\ binds'[c].sender_close = binds[c].sender_close
                           /\ c # b => binds'[c].queue = binds[c].queue
      /\ binds'[b].queue = Tail(q)
  <2> DEFINE rest == Tail(q)
             task == [binds[b] EXCEPT !.queue = rest]
  <2>1. binds \in [Binds -> BindTask] /\ binds[b] \in BindTask
    BY DEF Inv, Types
  <2>2. rest \in Seq(Sends)
    BY <1>2
  <2>3. binds' = [binds EXCEPT ![b] = task]
    OBVIOUS
  <2> HIDE DEF rest, q
  <2>4. /\ task \in BindTask /\ task.queue = rest
        /\ task.pc = binds[b].pc /\ task.sender = binds[b].sender
        /\ task.receiver = binds[b].receiver /\ task.sender_close = binds[b].sender_close
    BY <2>1, <2>2, Zenon DEF BindTask
  <2> HIDE DEF task
  <2>5. /\ binds' \in [Binds -> BindTask] /\ binds'[b] = task
        /\ \A c \in Binds : c # b => binds'[c] = binds[c]
    BY <2>1, <2>3, <2>4, Replaced, Zenon
  <2> QED
    BY <2>4, <2>5, Zenon DEF rest
<1> HIDE DEF q, h
<1>6. ASSUME NEW c \in Binds, NEW i \in 1 .. Len(binds'[c].queue)
      PROVE  sends'[binds'[c].queue[i]].pc \in {"queued", "answered", "dropped"}
  <2>1. CASE c = b
    <3>1. binds'[c].queue[i] = q[i + 1] /\ i + 1 \in 1 .. Len(binds[b].queue)
      BY <2>1, <1>2, <1>5, SMTT(20) DEF q
    <3> QED
      BY <3>1, <1>4, QueuedSends, SMTT(20) DEF q
  <2>2. CASE c # b
    BY <2>2, <1>4, <1>5, QueuedSends, SMTT(20)
  <2> QED
    BY <2>1, <2>2, ZenonT(30)
<1>7. ASSUME NEW s \in Sends
      PROVE  /\ sends'[s].pc = "none" <=> sends[s].pc = "none"
             /\ sends'[s].pc = "errorEvent" => sends[s].pc = "errorEvent"
             /\ sends'[s].pc = "waiting" => sends[s].pc = "waiting"
             /\ s \in ready_latch.waiters => sends'[s].pc = "waiting" /\ Binding # {}
  BY <1>3, <1>4, ZenonT(30) DEF Inv, Latched
<1>8. Onward
  BY <1>4, <1>5, <1>6, <1>7, SMTT(20) DEF Onward, Inv, Types
<1> QED
  BY <1>8, OnwardInv, SMTT(20)

LEMMA SenderEndsInv ==
  ASSUME Inv, NEW b \in Binds, SenderEnds(b)
  PROVE  Inv'
<1>1. /\ UNCHANGED <<early, exited, is_bound, is_closed, receiver_running, send_tx,
                     local, ready_latch>>
      /\ binds[b].sender_close \/ send_tx # b
      /\ binds' = [binds EXCEPT ![b].sender = "ended", ![b].queue = <<>>]
      /\ sends' = [s \in Sends |->
                     IF s \in ToSet(binds[b].queue)
                       THEN [sends[s] EXCEPT !.pc = IF sends[s].callback
                                                      THEN "answered"
                                                      ELSE "dropped"]
                       ELSE sends[s]]
  BY DEF SenderEnds, Continues, flags
<1>2. b = send_tx => is_closed = TRUE
  BY <1>1 DEF Inv, Channel, Types, BindTask
<1>3. /\ binds' \in [Binds -> BindTask]
      /\ \A c \in Binds : /\ binds'[c].pc = binds[c].pc
                           /\ binds'[c].receiver = binds[c].receiver
                           /\ binds'[c].sender_close = binds[c].sender_close
      /\ \A c \in Binds : c # b => binds'[c] = binds[c]
      /\ binds'[b].queue = <<>>
  <2> DEFINE task == [binds[b] EXCEPT !.sender = "ended", !.queue = <<>>]
  <2>1. binds \in [Binds -> BindTask] /\ binds[b] \in BindTask
    BY DEF Inv, Types
  <2>2. binds' = [binds EXCEPT ![b] = task]
    BY <1>1, <2>1, Zenon
  <2>3. /\ task \in BindTask /\ task.queue = <<>>
        /\ task.pc = binds[b].pc
        /\ task.receiver = binds[b].receiver /\ task.sender_close = binds[b].sender_close
    <3>1. <<>> \in Seq(Sends)
      OBVIOUS
    <3> QED
      BY <2>1, <3>1, Zenon DEF BindTask
  <2> HIDE DEF task
  <2>4. /\ binds' \in [Binds -> BindTask] /\ binds'[b] = task
        /\ \A c \in Binds : c # b => binds'[c] = binds[c]
    BY <2>1, <2>2, <2>3, Replaced, SMTT(20)
  <2> QED
    BY <2>3, <2>4
<1>4. ASSUME NEW s \in Sends, s \in ToSet(binds[b].queue)
      PROVE  /\ sends[s].pc \in {"queued", "answered", "dropped"}
             /\ s \notin ready_latch.waiters
  <2>1. PICK i \in DOMAIN binds[b].queue : s = binds[b].queue[i]
    BY <1>4 DEF ToSet
  <2>2. i \in 1 .. Len(binds[b].queue)
    BY <2>1, QueuedSends
  <2> QED
    BY <2>1, <2>2, QueuedSends, SMTT(20)
<1>5. /\ sends' \in [Sends -> SendTask]
      /\ \A s \in Sends : \/ sends'[s] = sends[s]
                           \/ /\ sends'[s].pc \in {"answered", "dropped"}
                              /\ sends[s].pc \in {"queued", "answered", "dropped"}
                              /\ s \notin ready_latch.waiters
  BY <1>1, <1>4 DEF Inv, Types, SendTask
<1>6. ASSUME NEW c \in Binds, NEW i \in 1 .. Len(binds'[c].queue)
      PROVE  sends'[binds'[c].queue[i]].pc \in {"queued", "answered", "dropped"}
  <2>1. c # b
    BY <1>3, <1>6
  <2>2. binds'[c] = binds[c]
    BY <2>1, <1>3
  <2>3. /\ binds[c].queue[i] \in Sends
        /\ sends[binds[c].queue[i]].pc \in {"queued", "answered", "dropped"}
    BY <2>2, QueuedSends
  <2> QED
    BY <2>2, <2>3, <1>5
<1>7. ASSUME NEW s \in Sends
      PROVE  /\ sends'[s].pc = "none" <=> sends[s].pc = "none"
             /\ sends'[s].pc = "errorEvent" => sends[s].pc = "errorEvent"
             /\ sends'[s].pc = "waiting" => sends[s].pc = "waiting"
             /\ s \in ready_latch.waiters => sends'[s].pc = "waiting" /\ Binding # {}
  BY <1>5 DEF Inv, Latched
<1>8. /\ receiver_running' \in BOOLEAN /\ exited' \in BOOLEAN
      /\ ready_latch' \in [count : Nat, waiters : SUBSET Sends]
      /\ ready_latch'.count = ready_latch.count
  BY <1>1 DEF Inv, Types
<1>9. ASSUME NEW c \in Binds
      PROVE  /\ binds'[c].pc = binds[c].pc /\ binds'[c].sender_close = binds[c].sender_close
             /\ binds'[c].receiver = "none" <=> binds[c].receiver = "none"
             /\ c = send_tx /\ is_closed = FALSE => binds'[c].sender = binds[c].sender
  BY <1>2, <1>3
<1>10. UNCHANGED <<early, is_bound, is_closed, send_tx, local>>
       /\ receiver_running' = receiver_running /\ ready_latch' = ready_latch
  BY <1>1
<1>11. Onward
  BY <1>3, <1>5, <1>6, <1>7, <1>8, <1>9, <1>10, Zenon DEF Onward
<1> QED
  BY <1>11, OnwardInv

(* A send goes on through the latch after a binding has ended.             *)
LEMMA EnqueueInv ==
  ASSUME Inv, NEW s \in Sends, Enqueue(s), sends[s].pc \in {"spawned", "waiting"},
         s \notin ready_latch.waiters, is_bound = TRUE \/ Failed,
         UNCHANGED <<early, exited, is_bound, is_closed, receiver_running, send_tx,
                     local, ready_latch>>
  PROVE  Inv'
<1>1. CASE send_tx = 0 \/ (send_tx # 0 /\ binds[send_tx].sender = "ended")
  <2>1. sends' = [sends EXCEPT ![s].pc = "errorEvent"] /\ binds' = binds
    BY <1>1 DEF Enqueue
  <2>2. is_closed = TRUE \/ Failed
    <3>1. CASE is_closed = FALSE /\ is_bound = TRUE
      <4>1. send_tx \in Binds /\ binds[send_tx].sender = "running"
        BY <3>1 DEF Inv, Channel
      <4>2. send_tx # 0
        BY <4>1 DEF Binds
      <4> QED
        BY <4>1, <4>2, <1>1, SMTT(20)
    <3> QED
      BY <3>1, Zenon DEF Inv, Types
  <2>3. /\ sends' \in [Sends -> SendTask] /\ sends'[s].pc = "errorEvent"
        /\ \A t \in Sends : t # s => sends'[t] = sends[t]
    BY <2>1 DEF Inv, Types, SendTask
  <2>4. \A c \in Binds : \A i \in 1 .. Len(binds[c].queue) :
          sends'[binds[c].queue[i]].pc \in {"queued", "answered", "dropped"}
    BY <2>3, QueuedSends
  <2>5. Onward
    BY <2>1, <2>2, <2>3, <2>4, SMTT(20) DEF Onward, Inv, Types, Latched
  <2> QED
    BY <2>5, OnwardInv
<1>2. CASE ~(send_tx = 0 \/ (send_tx # 0 /\ binds[send_tx].sender = "ended"))
  <2>1. /\ sends' = [sends EXCEPT ![s].pc = "queued"]
        /\ binds' = [binds EXCEPT ![send_tx].queue = Append(@, s)]
        /\ send_tx \in Binds
    BY <1>2 DEF Enqueue, Inv, Types, Binds
  <2>2. /\ sends' \in [Sends -> SendTask] /\ sends'[s].pc = "queued"
        /\ \A t \in Sends : t # s => sends'[t] = sends[t]
    BY <2>1 DEF Inv, Types, SendTask
  <2> DEFINE q == binds[send_tx].queue
  <2>3. /\ q \in Seq(Sends) /\ Append(q, s) \in Seq(Sends) /\ Len(q) \in Nat
        /\ Len(Append(q, s)) = Len(q) + 1
        /\ \A i \in 1 .. Len(q) : Append(q, s)[i] = q[i]
        /\ Append(q, s)[Len(q) + 1] = s
    BY <2>1, QueuedSends, AppendProperties, SMTT(20)
  <2>4. /\ binds' \in [Binds -> BindTask]
        /\ \A c \in Binds : /\ binds'[c].pc = binds[c].pc
                             /\ binds'[c].sender = binds[c].sender
                             /\ binds'[c].receiver = binds[c].receiver
                             /\ binds'[c].sender_close = binds[c].sender_close
        /\ \A c \in Binds : c # send_tx => binds'[c] = binds[c]
        /\ binds'[send_tx].queue = Append(q, s)
    <3> DEFINE more == Append(q, s)
               task == [binds[send_tx] EXCEPT !.queue = more]
    <3>1. binds \in [Binds -> BindTask] /\ binds[send_tx] \in BindTask
      BY <2>1 DEF Inv, Types
    <3>2. more \in Seq(Sends)
      BY <2>3
    <3>3. binds' = [binds EXCEPT ![send_tx] = task]
      BY <2>1
    <3> HIDE DEF more, q
    <3>4. /\ task \in BindTask /\ task.queue = more
          /\ task.pc = binds[send_tx].pc /\ task.sender = binds[send_tx].sender
          /\ task.receiver = binds[send_tx].receiver
          /\ task.sender_close = binds[send_tx].sender_close
      BY <3>1, <3>2, Zenon DEF BindTask
    <3> HIDE DEF task
    <3>5. /\ binds' \in [Binds -> BindTask] /\ binds'[send_tx] = task
          /\ \A c \in Binds : c # send_tx => binds'[c] = binds[c]
      BY <2>1, <3>1, <3>3, <3>4, Replaced, SMTT(20)
    <3> QED
      BY <3>4, <3>5 DEF more
  <2> HIDE DEF q
  <2>5. ASSUME NEW c \in Binds, NEW i \in 1 .. Len(binds'[c].queue)
        PROVE  sends'[binds'[c].queue[i]].pc \in {"queued", "answered", "dropped"}
    <3>1. CASE c = send_tx /\ i = Len(q) + 1
      BY <3>1, <2>2, <2>3, <2>4, SMTT(20)
    <3>2. CASE c = send_tx /\ i # Len(q) + 1
      <4>1. i \in 1 .. Len(q)
        BY <3>2, <2>3, <2>4, SMTT(20)
      <4>2. binds'[c].queue[i] = binds[c].queue[i] /\ i \in 1 .. Len(binds[c].queue)
        BY <4>1, <3>2, <2>3, <2>4, SMTT(20) DEF q
      <4> QED
        BY <4>2, <2>2, QueuedSends, SMTT(20)
    <3>3. CASE c # send_tx
      <4>1. binds'[c] = binds[c]
        BY <3>3, <2>4, SMTT(20)
      <4>2. /\ binds[c].queue[i] \in Sends
            /\ sends[binds[c].queue[i]].pc \in {"queued", "answered", "dropped"}
        BY <4>1, QueuedSends, SMTT(20)
      <4> QED
        BY <4>1, <4>2, <2>2, SMTT(20)
    <3> QED
      BY <3>1, <3>2, <3>3, SMTT(20)
  <2>6. Onward
    <3>1. \A t \in Sends :
            /\ sends'[t].pc = "none" <=> sends[t].pc = "none"
            /\ sends'[t].pc = "errorEvent" => sends[t].pc = "errorEvent"
            /\ sends'[t].pc = "waiting" => sends[t].pc = "waiting"
            /\ t \in ready_latch.waiters => sends'[t].pc = "waiting" /\ Binding # {}
      BY <2>2 DEF Inv, Latched
    <3>2. \A c \in Binds :
            /\ binds'[c].pc = binds[c].pc /\ binds'[c].sender_close = binds[c].sender_close
            /\ binds'[c].receiver = binds[c].receiver /\ binds'[c].sender = binds[c].sender
      BY <2>4
    <3>3. binds' \in [Binds -> BindTask] /\ sends' \in [Sends -> SendTask]
      BY <2>2, <2>4
    <3>4. /\ receiver_running \in BOOLEAN /\ exited \in BOOLEAN
          /\ ready_latch \in [count : Nat, waiters : SUBSET Sends]
      BY DEF Inv, Types
    <3> QED
      BY <3>1, <3>2, <3>3, <3>4, <2>5, SMTT(20) DEF Onward
  <2> QED
    BY <2>6, OnwardInv
<1> QED
  BY <1>1, <1>2

----------------------------------------------------------------------------
LEMMA SendStartsInv ==
  ASSUME MaxBinds \in Nat, Inv, NEW s \in Sends, SendStarts(s)
  PROVE  Inv'
<1>1. /\ UNCHANGED <<early, exited, is_bound, is_closed, receiver_running, send_tx, local>>
      /\ sends[s].pc = "spawned"
      /\ ready_latch' = wait(ready_latch, s)
  BY DEF SendStarts, Continues, flags
<1>2. s \notin ready_latch.waiters
  BY <1>1 DEF Inv, Latched
<1>3. /\ ready_latch \in [count : Nat, waiters : SUBSET Sends]
      /\ ready_latch.count = Cardinality(Binding)
      /\ ready_latch.count = 0 <=> Binding = {}
  BY BindingFinite DEF Inv, Types, Latched
<1>4. CASE ready_latch.count > 0
  <2>1. /\ sends' = [sends EXCEPT ![s].pc = "waiting"] /\ binds' = binds
        /\ ready_latch' = [ready_latch EXCEPT !.waiters = @ \cup {s}]
    BY <1>1, <1>4 DEF SendStarts, MustWait, wait, notified
  <2>2. /\ ready_latch' \in [count : Nat, waiters : SUBSET Sends]
        /\ ready_latch'.count = ready_latch.count
        /\ ready_latch'.waiters = ready_latch.waiters \cup {s}
    BY <2>1, <1>3
  <2>3. /\ sends' \in [Sends -> SendTask] /\ sends'[s].pc = "waiting"
        /\ \A t \in Sends : t # s => sends'[t] = sends[t]
    BY <2>1 DEF Inv, Types, SendTask
  <2>4. \A c \in Binds : \A i \in 1 .. Len(binds[c].queue) :
          sends'[binds[c].queue[i]].pc \in {"queued", "answered", "dropped"}
    BY <2>3, <1>1, QueuedSends
  <2>5. Binding # {}
    BY <1>3, <1>4, SMTT(20)
  <2>6. Onward
    BY <2>1, <2>2, <2>3, <2>4, <2>5, <1>1, SMTT(20) DEF Onward, Inv, Types, Latched
  <2> QED
    BY <2>6, OnwardInv
<1>5. CASE ~(ready_latch.count > 0)
  <2>1. Enqueue(s) /\ ready_latch' = ready_latch
    BY <1>1, <1>5 DEF SendStarts, MustWait, wait
  <2>2. Binding = {}
    BY <1>3, <1>5
  <2>3. is_bound = TRUE \/ Failed
    BY <2>2, <1>1 DEF Inv, Channel
  <2> QED
    BY <2>1, <2>3, <1>1, <1>2, EnqueueInv, Zenon
<1> QED
  BY <1>4, <1>5

LEMMA SendWakesInv ==
  ASSUME Inv, NEW s \in Sends, SendWakes(s)
  PROVE  Inv'
<1>1. /\ UNCHANGED <<early, exited, is_bound, is_closed, receiver_running, send_tx,
                     local, ready_latch>>
      /\ sends[s].pc = "waiting" /\ s \notin ready_latch.waiters /\ Enqueue(s)
  BY DEF SendWakes, Continues, flags, Released
<1>2. is_bound = TRUE \/ Failed
  BY <1>1 DEF Inv, Latched
<1> QED
  BY <1>1, <1>2, EnqueueInv, Zenon

LEMMA StepInv ==
  ASSUME MaxBinds \in Nat, MaxSends \in Nat, Inv, [DgramNext]_dgram
  PROVE  Inv'
<1>1. ASSUME NEW b \in Binds, SenderSends(b) PROVE Inv'
  <2>1. exited' = exited /\ exited \in BOOLEAN
    BY <1>1 DEF SenderSends, Continues, Inv, Types
  <2> QED
    BY <1>1, <2>1, AnswerInv, Zenon DEF SenderSends, Continues, flags
<1>2. ASSUME NEW b \in Binds, SenderFails(b) PROVE Inv'
  <2>1. CASE sends[Head(binds[b].queue)].callback
    BY <1>2, <2>1, AnswerInv, Zenon DEF SenderFails, flags
  <2>2. CASE ~sends[Head(binds[b].queue)].callback
    <3>1. /\ UNCHANGED <<early, is_bound, is_closed, receiver_running, send_tx, local,
                         ready_latch, binds, sends>>
          /\ exited' = TRUE
      BY <1>2, <2>2, SMTT(20) DEF SenderFails, flags
    <3> QED
      BY <3>1 DEF Inv, Types, InOrder, Latched, Channel, OneBinding, UsedBinds,
                  UsedSends, Binding, Failed
  <2> QED
    BY <2>1, <2>2
<1>3. CASE UNCHANGED dgram
  BY <1>3 DEF dgram, flags, Inv, Types, InOrder, Latched, Channel, OneBinding, UsedBinds,
              UsedSends, Binding, Failed
<1> QED
  BY <1>1, <1>2, <1>3, BindInv, SendInv, CloseInv, BindSucceedsInv, BindFailsInv,
     ReceiverInv, SenderEndsInv, SendStartsInv, SendWakesInv, SMTT(20)
     DEF DgramNext, Calls, BindSteps, SenderSteps, SendSteps

LEMMA InvImplies ==
  ASSUME MaxBinds \in Nat, Inv
  PROVE  LatchGuardsChannel /\ ReceivesOnItsAddress
<1>1. DgramTypeOK
  BY BindingFinite DEF Inv, Types, DgramTypeOK, Latched
<1>2. \A s \in ready_latch.waiters : sends[s].pc = "waiting" /\ Binding # {}
  BY DEF Inv, Latched
<1>3. (\E s \in Sends : sends[s].pc = "errorEvent") =>
        is_closed \/ \E b \in Binds : binds[b].pc = "failed"
  BY DEF Inv, Channel, Failed
<1>4. ReceivesOnItsAddress
  BY DEF Inv, OneBinding, ReceivesOnItsAddress, Types
<1> QED
  BY <1>1, <1>2, <1>3, <1>4, SMTT(20) DEF LatchGuardsChannel

(* A send that sleeps on the latch has a binding that will wake it, one    *)
(* that is let through finds the channel unless a binding has failed or    *)
(* the socket is closed, and the socket receives on the address that it    *)
(* reports: however bindings, loops, sends and close() interleave.         *)
THEOREM DgramSocketSafe ==
  ASSUME MaxBinds \in Nat, MaxSends \in Nat
  PROVE  DgramSpec => []DgramIsReady
<1>1. DgramInit => Inv
  BY InitInv
<1>2. Inv /\ [DgramNext]_dgram => Inv'
  BY StepInv
<1>3. Inv => DgramIsReady
  BY InvImplies DEF DgramIsReady
<1> QED
  BY <1>1, <1>2, <1>3, PTL DEF DgramSpec
=============================================================================
