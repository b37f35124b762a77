------------------------------ MODULE MCEvents ------------------------------
(***************************************************************************)
(* Objects whose methods are called while earlier calls are under way:     *)
(* AbortSignal, EventEmitter, FileHandle, URL with its URLSearchParams, and *)
(* the list that hands out slots, ReuseList.  The first state says which   *)
(* one runs; the others stay as they are.                                  *)
(***************************************************************************)
EXTENDS ReuseList, AbortSignal, TLC

VARIABLES
  part,   \* the component that runs; ReuseList and AbortSignal have variables
          \* of their own
  \* EventEmitter
  events, attached, adds, emits, stack, history, removed,
  file,   \* FileHandle
  u       \* Url

Emitter == INSTANCE EventEmitter WITH Key <- 1..2, Callback <- 1..2, MaxAdds <- 3, MaxEmits <- 2
File == INSTANCE FileHandle WITH
  s <- file, Handles <- {1, 2}, Modes <- {"r", "rw", "ap", "w", "wx"},
  MaxOps <- 4, MaxFaults <- 1
Address == INSTANCE Url WITH Keys <- {1, 2}, Values <- {1, 2}, MaxPairs <- 3, MaxSearch <- 2

emitter == <<events, attached, adds, emits, stack, history, removed>>
all == <<part, vars, abort_signal, emitter, file, u>>

(* Keys and callbacks are numbered as they are first used.                 *)
Numbered ==
  adds = 1 /\ events # <<>> =>
    events[1].key = 1 /\ \A item \in Range(events[1].items) : item.callback = 1

MCInit ==
  /\ part \in {"list", "abort", "events", "file", "url"}
  /\ Init /\ SignalInit /\ Emitter!Init
  /\ IF part = "file" THEN File!Init ELSE file = 0
  /\ IF part = "url" THEN Address!Init ELSE u = 0

MCNext ==
  \/ part = "list" /\ Next /\ UNCHANGED <<part, abort_signal, emitter, file, u>>
  \/ part = "abort" /\ SignalNext /\ UNCHANGED <<part, vars, emitter, file, u>>
  \/ part = "events" /\ Emitter!Next /\ Numbered'
     /\ UNCHANGED <<part, vars, abort_signal, file, u>>
  \/ part = "file" /\ File!Next /\ UNCHANGED <<part, vars, abort_signal, emitter, u>>
  \/ part = "url" /\ Address!Next /\ UNCHANGED <<part, vars, abort_signal, emitter, file>>

MCSpec == MCInit /\ [][MCNext]_all

(* Signals are only compared.                                              *)
Symmetry == Permutations(Signal)

----------------------------------------------------------------------------
(* Properties; SlotsAreFree and ImplementsSlotMap are ReuseList's,         *)
(* AbortReachesFollowers and ReasonStable are AbortSignal's.               *)

(* The list of listeners stands for what the program has added and not     *)
(* removed, and the native class knows for which events there are any,     *)
(* although listeners add, remove and emit while they are called.          *)
ListMatchesListeners ==
  part = "events" => Emitter!ListMatchesListeners /\ Emitter!ClassKnowsListeners

(* A once() listener is called at most once, though the event is emitted   *)
(* again from inside; an emit calls the listeners in their order.          *)
CalledInOrder == part = "events" => Emitter!OnceOnlyOnce /\ Emitter!CalledInOrder

(* A file handle behaves as if its calls were applied in their order.      *)
HandleIsSequential == part = "file" => File!HandleIsSequential

(* A URL and its parameters stay in step: walks along the parameters see   *)
(* all of them, the search is what they spell, set() works in place, and   *)
(* no space, host or view gets lost.                                       *)
UrlKeepsWord == part = "url" => Address!UrlKeepsWord
=============================================================================
