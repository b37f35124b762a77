------------------------------ MODULE SlotMap ------------------------------
(***************************************************************************)
(* What a slot-reusing list promises its caller, without saying how free   *)
(* cells are found: a handle returned by `append` names its item, and no   *)
(* other, until that handle is removed or the whole list is cleared or     *)
(* compacted.                                                              *)
(***************************************************************************)
EXTENDS Integers

CONSTANT T

VARIABLE held   \* the live handles and the item each one names

MapInit == held = [i \in {} |-> 0]

Handles == DOMAIN held

(* A new item gets a handle nobody holds. *)
MapAppend ==
  \E i \in DOMAIN held' \ Handles, x \in T :
    held' = [j \in Handles \cup {i} |-> IF j = i THEN x ELSE held[j]]

(* Removing gives up exactly one handle; the others are undisturbed. *)
MapRemove ==
  \E i \in Handles : held' = [j \in Handles \ {i} |-> held[j]]

(* Clearing gives up all of them. *)
MapClear == held' = [i \in {} |-> 0]

(* Compacting renumbers: every item keeps its place in the order. *)
MapOptimize ==
  \E f \in [DOMAIN held' -> Handles] :
    /\ \A i \in Handles : \E j \in DOMAIN held' : f[j] = i
    /\ \A i, j \in DOMAIN held' : i < j => f[i] < f[j]
    /\ \A j \in DOMAIN held' : held'[j] = held[f[j]]

MapNext == MapAppend \/ MapRemove \/ MapClear \/ MapOptimize

MapSpec == MapInit /\ [][MapNext]_held
=============================================================================
