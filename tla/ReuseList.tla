----------------------------- MODULE ReuseList -----------------------------
(***************************************************************************)
(* The slot-reusing list of libs/llrt_utils/src/reuse_list.rs.             *)
(*                                                                         *)
(* A ReuseList hands out stable indices: `append` returns the index of the *)
(* cell it filled, `remove` empties a cell, and an emptied cell is meant   *)
(* to be given out again.  Free cells are remembered in the vector `slots` *)
(* (cell index + 1, with 0 for an entry that has been consumed);           *)
(* `last_slot_idx` is the (1-based) entry of `slots` looked at next.       *)
(*                                                                         *)
(* Rust indices start at 0 and TLA+ sequences at 1, so the Rust cell i is  *)
(* items[i + 1] here, and the value i + 1 kept in `slots` is the TLA+      *)
(* index itself.                                                           *)
(***************************************************************************)
EXTENDS Integers, Sequences, FiniteSets

CONSTANTS
  T,        \* the values stored in the list
  None,     \* an empty cell (Option::None)
  MaxItems  \* bound on Len(items): the list itself is unbounded

ASSUME NoneAssumption == None \notin T
ASSUME MaxItemsAssumption == MaxItems \in Nat

VARIABLES
  items,          \* Vec<Option<T>>
  slots,          \* Vec<usize>
  last_slot_idx,
  len,
  slot_size

vars == <<items, slots, last_slot_idx, len, slot_size>>

Occupied == {i \in 1 .. Len(items) : items[i] # None}

Init ==
  /\ items = <<>>
  /\ slots = <<>>
  /\ last_slot_idx = 0
  /\ len = 0
  /\ slot_size = 0

(* `append` takes the cell named by the current entry of slots when that   *)
(* entry is not consumed, and otherwise pushes a new cell.                 *)
CanReuse == slot_size > 0 /\ slots[last_slot_idx] > 0

(* Planted fault: the consumed entry of slots is not zeroed. *)
AppendReuseSlotFault(x) ==
  /\ CanReuse
  /\ items' = [items EXCEPT ![slots[last_slot_idx]] = x]
  /\ last_slot_idx' = IF last_slot_idx > 1 THEN last_slot_idx - 1
                                           ELSE last_slot_idx
  /\ len' = len + 1
  /\ UNCHANGED <<slots, slot_size>>

AppendReuse(x) ==
  /\ CanReuse
  /\ LET slot == slots[last_slot_idx]
     IN /\ items' = [items EXCEPT ![slot] = x]
        /\ slots' = [slots EXCEPT ![last_slot_idx] = 0]
  /\ last_slot_idx' = IF last_slot_idx > 1 THEN last_slot_idx - 1
                                           ELSE last_slot_idx
  /\ len' = len + 1
  /\ UNCHANGED slot_size

AppendPush(x) ==
  /\ ~CanReuse
  /\ Len(items) < MaxItems
  /\ items' = Append(items, x)
  /\ len' = len + 1
  /\ UNCHANGED <<slots, last_slot_idx, slot_size>>

(* Planted fault: remove remembers `index` where append expects `index+1`. *)
RemoveItemFault(i) ==
  /\ i \in Occupied
  /\ items' = [items EXCEPT ![i] = None]
  /\ IF slot_size > 0 /\ slots[last_slot_idx] = 0
       THEN /\ slots' = [slots EXCEPT ![last_slot_idx] = i - 1]
            /\ UNCHANGED <<last_slot_idx, slot_size>>
       ELSE /\ slots' = Append(slots, i - 1)
            /\ last_slot_idx' = last_slot_idx + 1
            /\ slot_size' = slot_size + 1
  /\ len' = len - 1

(* `remove` takes the item out of its cell and remembers the cell: in the  *)
(* entry of slots that append consumed last if that entry is still the     *)
(* current one, at the end of slots otherwise.  An index past the end and  *)
(* an empty cell both return None and change nothing.                      *)
RemoveItem(i) ==
  /\ i \in Occupied
  /\ items' = [items EXCEPT ![i] = None]
  /\ IF slot_size > 0 /\ slots[last_slot_idx] = 0
       THEN /\ slots' = [slots EXCEPT ![last_slot_idx] = i]
            /\ UNCHANGED <<last_slot_idx, slot_size>>
       ELSE /\ slots' = Append(slots, i)
            /\ last_slot_idx' = last_slot_idx + 1
            /\ slot_size' = slot_size + 1
  /\ len' = len - 1

RemoveNothing(i) ==
  /\ i \notin Occupied
  /\ UNCHANGED vars

Clear ==
  /\ items' = <<>>
  /\ slots' = <<>>
  /\ last_slot_idx' = 0
  /\ len' = 0
  /\ slot_size' = 0

(* `optimize` keeps the occupied cells, in order, and forgets the slots;   *)
(* every index handed out before is invalid afterwards.  `from` is the     *)
(* increasing enumeration of the occupied cells that its loop walks.       *)
IsEnumeration(from) ==
  /\ \A i \in Occupied : \E k \in DOMAIN from : from[k] = i
  /\ \A j, k \in DOMAIN from : j < k => from[j] < from[k]

Optimize ==
  /\ \E from \in [1 .. Cardinality(Occupied) -> Occupied] :
       /\ IsEnumeration(from)
       /\ items' = [k \in 1 .. Cardinality(Occupied) |-> items[from[k]]]
  /\ slots' = <<>>
  /\ last_slot_idx' = 0
  /\ slot_size' = 0
  /\ UNCHANGED len

Next ==
  \/ \E x \in T : AppendReuse(x) \/ AppendPush(x)
  \/ \E i \in 1 .. MaxItems + 1 : RemoveItem(i) \/ RemoveNothing(i)
  \/ Clear
  \/ Optimize

Spec == Init /\ [][Next]_vars
----------------------------------------------------------------------------
(* Type correctness of the five fields of ReuseList<T>.                    *)
TypeOK ==
  /\ items \in Seq(T \cup {None})
  /\ slots \in Seq(Nat)
  /\ last_slot_idx \in Nat
  /\ len \in Nat
  /\ slot_size \in Nat

(* The indexing `self.slots[self.last_slot_idx - 1]` in append and remove  *)
(* never leaves the vector: slot_size mirrors its length and the cursor    *)
(* points into it whenever it is not empty.                                *)
CursorInBounds ==
  /\ slot_size = Len(slots)
  /\ slot_size > 0 => last_slot_idx \in 1 .. slot_size
  /\ slot_size = 0 => last_slot_idx = 0

(* Every remembered slot names an empty cell of items, and no cell is      *)
(* remembered twice; so `append` never writes over a live item.            *)
SlotsAreFree ==
  \A k \in 1 .. Len(slots) :
    slots[k] > 0 =>
      /\ slots[k] \in 1 .. Len(items)
      /\ items[slots[k]] = None
      /\ \A m \in 1 .. Len(slots) : slots[m] = slots[k] => m = k

(* len() counts the live items, so `self.len -= 1` cannot underflow and    *)
(* is_empty(), which Server.listen uses to decide whether to wait for its  *)
(* sockets, tells the truth.                                               *)
LenCountsItems == len = Cardinality(Occupied)

(* The counters that append and remove go by are in step with the two      *)
(* vectors, so neither an index nor a subtraction goes wrong.              *)
Consistent == TypeOK /\ CursorInBounds /\ LenCountsItems

(* The list is an implementation of SlotMap, with the occupied cells as    *)
(* the live handles.                                                       *)
Held == [i \in Occupied |-> items[i]]

Map == INSTANCE SlotMap WITH held <- Held

(* Every operation of the list is an operation of SlotMap or changes no    *)
(* handle: a caller's index keeps naming the caller's item.                *)
ImplementsSlotMap == Map!MapSpec
=============================================================================
