-------------------------- MODULE ReuseListProofs --------------------------
(***************************************************************************)
(* ReuseList, proved for every item type, every bound on the number of     *)
(* cells and every sequence of calls: the four invariants are inductive    *)
(* together, and the list implements SlotMap.                              *)
(***************************************************************************)
EXTENDS ReuseList, FiniteSetTheorems, TLAPS

(* The inductive invariant: neither SlotsAreFree nor LenCountsItems is     *)
(* preserved without the bounds of CursorInBounds.                         *)
Inv == TypeOK /\ CursorInBounds /\ SlotsAreFree /\ LenCountsItems

(* The occupied cells are finitely many. *)
LEMMA OccupiedFinite ==
  ASSUME TypeOK
  PROVE  /\ IsFiniteSet(Occupied)
         /\ Cardinality(Occupied) \in Nat
<1>1. Len(items) \in Nat
  BY DEF TypeOK
<1>2. IsFiniteSet(1 .. Len(items))
  BY <1>1, FS_Interval
<1>3. Occupied \in SUBSET (1 .. Len(items))
  BY DEF Occupied
<1>4. IsFiniteSet(Occupied)
  BY <1>2, <1>3, FS_Subset, Zenon
<1> QED
  BY <1>4, FS_CardinalityType

(* A fresh list satisfies the invariant. *)
LEMMA InitInv == Init => Inv
<1> SUFFICES ASSUME Init PROVE Inv
  OBVIOUS
<1>1. Occupied = {}
  BY DEF Init, Occupied
<1>2. LenCountsItems
  BY <1>1, FS_EmptySet DEF Init, LenCountsItems
<1> QED
  BY <1>2 DEF Init, Inv, TypeOK, CursorInBounds, SlotsAreFree

(* Filling a remembered cell. *)
LEMMA AppendReuseInv ==
  ASSUME Inv, NEW x \in T, AppendReuse(x)
  PROVE  Inv'
<1> DEFINE s == slots[last_slot_idx]
<1>1. /\ last_slot_idx \in 1 .. Len(slots)
      /\ s \in 1 .. Len(items)
      /\ items[s] = None
  BY DEF Inv, TypeOK, CursorInBounds, SlotsAreFree, AppendReuse, CanReuse
<1>2. TypeOK'
  BY <1>1 DEF Inv, TypeOK, AppendReuse
<1>3. CursorInBounds'
  BY <1>1 DEF Inv, TypeOK, CursorInBounds, AppendReuse
<1>4. SlotsAreFree'
  <2> SUFFICES ASSUME NEW k \in 1 .. Len(slots'), slots'[k] > 0
               PROVE  /\ slots'[k] \in 1 .. Len(items')
                      /\ items'[slots'[k]] = None
                      /\ \A m \in 1 .. Len(slots') :
                           slots'[m] = slots'[k] => m = k
    BY DEF SlotsAreFree
  <2>1. /\ Len(slots') = Len(slots)
        /\ Len(items') = Len(items)
        /\ \A m \in 1 .. Len(slots) :
             slots'[m] = IF m = last_slot_idx THEN 0 ELSE slots[m]
        /\ \A i \in 1 .. Len(items) :
             items'[i] = IF i = s THEN x ELSE items[i]
    BY <1>1 DEF Inv, TypeOK, AppendReuse
  <2>2. k \in 1 .. Len(slots) /\ k # last_slot_idx /\ slots'[k] = slots[k]
    BY <2>1
  <2>3. slots[k] > 0 /\ slots[k] # s
    BY <2>2, <1>1 DEF Inv, SlotsAreFree
  <2> QED
    BY <1>1, <2>1, <2>2, <2>3 DEF Inv, SlotsAreFree
<1>5. LenCountsItems'
  <2>1. Occupied' = Occupied \cup {s}
    BY <1>1, NoneAssumption DEF Inv, TypeOK, AppendReuse, Occupied
  <2>2. s \notin Occupied
    BY <1>1 DEF Occupied
  <2> QED
    BY <2>1, <2>2, OccupiedFinite, FS_AddElement, Zenon
       DEF Inv, LenCountsItems, AppendReuse
<1> QED
  BY <1>2, <1>3, <1>4, <1>5 DEF Inv

(* Pushing a new cell. *)
LEMMA AppendPushInv ==
  ASSUME Inv, NEW x \in T, AppendPush(x)
  PROVE  Inv'
<1>1. /\ Len(items') = Len(items) + 1
      /\ items'[Len(items) + 1] = x
      /\ \A i \in 1 .. Len(items) : items'[i] = items[i]
  BY DEF Inv, TypeOK, AppendPush
<1>2. TypeOK'
  BY DEF Inv, TypeOK, AppendPush
<1>3. CursorInBounds'
  BY DEF Inv, CursorInBounds, AppendPush
<1>4. SlotsAreFree'
  BY <1>1 DEF Inv, TypeOK, SlotsAreFree, AppendPush
<1>5. LenCountsItems'
  <2>1. Occupied' = Occupied \cup {Len(items) + 1}
    BY <1>1, NoneAssumption DEF Inv, TypeOK, Occupied
  <2>2. Len(items) + 1 \notin Occupied
    BY DEF Inv, TypeOK, Occupied
  <2> QED
    BY <2>1, <2>2, OccupiedFinite, FS_AddElement, Zenon
       DEF Inv, LenCountsItems, AppendPush
<1> QED
  BY <1>2, <1>3, <1>4, <1>5 DEF Inv

(* Emptying a cell and remembering it. *)
LEMMA RemoveItemInv ==
  ASSUME Inv, NEW i \in Nat, RemoveItem(i)
  PROVE  Inv'
<1>1. /\ i \in 1 .. Len(items)
      /\ items[i] # None
      /\ Len(items') = Len(items)
      /\ \A j \in 1 .. Len(items) :
           items'[j] = IF j = i THEN None ELSE items[j]
      /\ items' \in Seq(T \cup {None})
  BY DEF Inv, TypeOK, RemoveItem, Occupied
<1>2. \A k \in 1 .. Len(slots) : slots[k] # i
  BY <1>1 DEF Inv, SlotsAreFree
<1>3. LenCountsItems' /\ len' \in Nat
  <2>1. Occupied' = Occupied \ {i}
    BY <1>1 DEF Occupied
  <2>2. i \in Occupied
    BY DEF RemoveItem
  <2>3. IsFiniteSet(Occupied) /\ Cardinality(Occupied) \in Nat
    BY OccupiedFinite DEF Inv
  <2>4. Cardinality(Occupied) # 0
    BY <2>2, <2>3, FS_EmptySet
  <2>5. Cardinality(Occupied') = Cardinality(Occupied) - 1
    BY <2>1, <2>2, <2>3, FS_RemoveElement
  <2> QED
    BY <2>3, <2>4, <2>5 DEF Inv, LenCountsItems, RemoveItem
<1>4. CASE slot_size > 0 /\ slots[last_slot_idx] = 0
  <2>1. /\ last_slot_idx \in 1 .. Len(slots)
        /\ slots' = [slots EXCEPT ![last_slot_idx] = i]
        /\ last_slot_idx' = last_slot_idx /\ slot_size' = slot_size
    BY <1>4 DEF Inv, CursorInBounds, RemoveItem
  <2>2. /\ slots' \in Seq(Nat)
        /\ Len(slots') = Len(slots)
        /\ \A k \in 1 .. Len(slots) :
             slots'[k] = IF k = last_slot_idx THEN i ELSE slots[k]
    BY <2>1 DEF Inv, TypeOK
  <2>3. TypeOK' /\ CursorInBounds'
    BY <1>1, <1>3, <2>1, <2>2 DEF Inv, TypeOK, CursorInBounds
  <2>4. SlotsAreFree'
    BY <1>1, <1>2, <2>1, <2>2 DEF Inv, SlotsAreFree
  <2> QED
    BY <1>3, <2>3, <2>4 DEF Inv
<1>5. CASE ~(slot_size > 0 /\ slots[last_slot_idx] = 0)
  <2>1. /\ slots' = Append(slots, i)
        /\ last_slot_idx' = last_slot_idx + 1
        /\ slot_size' = slot_size + 1
    BY <1>5 DEF RemoveItem
  <2>2. /\ slots' \in Seq(Nat)
        /\ Len(slots') = Len(slots) + 1
        /\ slots'[Len(slots) + 1] = i
        /\ \A k \in 1 .. Len(slots) : slots'[k] = slots[k]
    BY <2>1 DEF Inv, TypeOK
  <2>3. TypeOK' /\ CursorInBounds'
    BY <1>1, <1>3, <2>1, <2>2 DEF Inv, TypeOK, CursorInBounds
  <2>4. SlotsAreFree'
    <3> SUFFICES ASSUME NEW k \in 1 .. Len(slots'), slots'[k] > 0
                 PROVE  /\ slots'[k] \in 1 .. Len(items')
                        /\ items'[slots'[k]] = None
                        /\ \A m \in 1 .. Len(slots') :
                             slots'[m] = slots'[k] => m = k
      BY DEF SlotsAreFree
    <3>1. \A m \in 1 .. Len(slots') :
             m \in 1 .. Len(slots) \/ m = Len(slots) + 1
      BY <2>2 DEF Inv, TypeOK
    <3>2. CASE k = Len(slots) + 1
      <4>1. slots'[k] = i
        BY <2>2, <3>2
      <4>2. \A m \in 1 .. Len(slots') : slots'[m] = i => m = k
        BY <1>2, <2>2, <3>1, <3>2
      <4> QED
        BY <1>1, <4>1, <4>2
    <3>3. CASE k \in 1 .. Len(slots)
      <4>1. slots'[k] = slots[k] /\ slots[k] # i
        BY <1>2, <2>2, <3>3
      <4>2. /\ slots[k] \in 1 .. Len(items) /\ items[slots[k]] = None
            /\ \A m \in 1 .. Len(slots) : slots[m] = slots[k] => m = k
        BY <3>3, <4>1 DEF Inv, SlotsAreFree
      <4>3. \A m \in 1 .. Len(slots') : slots'[m] = slots[k] => m = k
        BY <2>2, <3>1, <4>1, <4>2
      <4> QED
        BY <1>1, <4>1, <4>2, <4>3
    <3> QED
      BY <3>1, <3>2, <3>3
  <2> QED
    BY <1>3, <2>3, <2>4 DEF Inv
<1> QED
  BY <1>4, <1>5

(* Compacting: the new cells are exactly the occupied ones, all filled. *)
LEMMA OptimizeInv ==
  ASSUME Inv, Optimize
  PROVE  Inv'
<1> DEFINE n == Cardinality(Occupied)
<1>1. n \in Nat
  BY OccupiedFinite DEF Inv
<1>2. PICK from \in [1 .. n -> Occupied] :
        items' = [k \in 1 .. n |-> items[from[k]]]
  BY Zenon DEF Optimize
<1>3. \A k \in 1 .. n : items'[k] \in T \cup {None} /\ items'[k] # None
  BY <1>2 DEF Inv, TypeOK, Occupied
<1>4. items' \in Seq(T \cup {None}) /\ Len(items') = n
  BY <1>1, <1>2, <1>3
<1>5. Occupied' = 1 .. n
  BY <1>3, <1>4 DEF Occupied
<1>6. Cardinality(Occupied') = n
  BY <1>1, <1>5, FS_Interval
<1> QED
  BY <1>4, <1>6
     DEF Inv, TypeOK, CursorInBounds, SlotsAreFree, LenCountsItems, Optimize

(* Every call of the list's interface preserves the invariant. *)
LEMMA NextInv == Inv /\ [Next]_vars => Inv'
<1> SUFFICES ASSUME Inv, [Next]_vars PROVE Inv'
  OBVIOUS
<1>1. ASSUME NEW x \in T, AppendReuse(x) \/ AppendPush(x) PROVE Inv'
  BY <1>1, AppendReuseInv, AppendPushInv
<1>2. ASSUME NEW i \in 1 .. MaxItems + 1, RemoveItem(i) PROVE Inv'
  BY <1>2, RemoveItemInv, MaxItemsAssumption
<1>3. ASSUME UNCHANGED vars PROVE Inv'
  BY <1>3 DEF vars, Inv, TypeOK, CursorInBounds, SlotsAreFree,
              LenCountsItems, Occupied
<1>4. CASE Clear
  <2>1. Occupied' = {}
    BY <1>4 DEF Clear, Occupied
  <2>2. LenCountsItems'
    BY <1>4, <2>1, FS_EmptySet DEF Clear, LenCountsItems
  <2> QED
    BY <1>4, <2>2 DEF Clear, Inv, TypeOK, CursorInBounds, SlotsAreFree
<1>5. CASE Optimize
  BY <1>5, OptimizeInv
<1> QED
  BY <1>1, <1>2, <1>3, <1>4, <1>5 DEF Next, RemoveNothing

(* Whatever a program does with a ReuseList, the cursor stays inside       *)
(* slots, remembered slots name distinct empty cells, and len counts the   *)
(* live items.                                                             *)
THEOREM ReuseListSafe ==
  Spec => [](TypeOK /\ CursorInBounds /\ SlotsAreFree /\ LenCountsItems)
<1>1. Spec => []Inv
  BY InitInv, NextInv, PTL DEF Spec
<1> QED
  BY <1>1, PTL DEF Inv

(* Adding one cell that was not occupied is an append of the abstract map. *)
LEMMA FillIsMapAppend ==
  ASSUME NEW c, NEW x \in T, c \notin Occupied,
         Occupied' = Occupied \cup {c}, items'[c] = x,
         \A i \in Occupied : items'[i] = items[i]
  PROVE  Map!MapAppend
<1>1. Held' = [j \in Occupied \cup {c} |-> IF j = c THEN x ELSE Held[j]]
  BY DEF Held
<1>2. DOMAIN Held = Occupied /\ c \in DOMAIN Held' \ DOMAIN Held
  BY <1>1 DEF Held
<1> QED
  BY <1>1, <1>2 DEF Map!MapAppend, Map!Handles

(* Every step of the list is a step of the abstract map. *)
LEMMA NextRefines == Inv /\ [Next]_vars => [Map!MapNext]_Held
<1> SUFFICES ASSUME Inv, [Next]_vars PROVE Map!MapNext \/ UNCHANGED Held
  OBVIOUS
<1>1. ASSUME NEW x \in T, AppendReuse(x) PROVE Map!MapAppend
  <2> DEFINE s == slots[last_slot_idx]
  <2>1. s \in 1 .. Len(items) /\ items[s] = None
    BY <1>1 DEF Inv, TypeOK, CursorInBounds, SlotsAreFree, AppendReuse, CanReuse
  <2>2. /\ Len(items') = Len(items)
        /\ \A i \in 1 .. Len(items) :
             items'[i] = IF i = s THEN x ELSE items[i]
    BY <1>1, <2>1 DEF Inv, TypeOK, AppendReuse
  <2>3. Occupied' = Occupied \cup {s} /\ s \notin Occupied
    BY <2>1, <2>2, NoneAssumption DEF Occupied
  <2>4. items'[s] = x /\ \A i \in Occupied : items'[i] = items[i]
    BY <2>1, <2>2 DEF Occupied
  <2> QED
    BY <2>3, <2>4, FillIsMapAppend
<1>2. ASSUME NEW x \in T, AppendPush(x) PROVE Map!MapAppend
  <2>1. /\ Len(items) \in Nat
        /\ Len(items') = Len(items) + 1
        /\ items'[Len(items) + 1] = x
        /\ \A i \in 1 .. Len(items) : items'[i] = items[i]
    BY <1>2 DEF Inv, TypeOK, AppendPush
  <2>2. /\ Occupied' = Occupied \cup {Len(items) + 1}
        /\ Len(items) + 1 \notin Occupied
    BY <2>1, NoneAssumption DEF Occupied
  <2>3. \A i \in Occupied : items'[i] = items[i]
    BY <2>1 DEF Occupied
  <2> QED
    BY <2>1, <2>2, <2>3, FillIsMapAppend
<1>3. ASSUME NEW i \in 1 .. MaxItems + 1, RemoveItem(i) PROVE Map!MapRemove
  <2>1. /\ Len(items') = Len(items)
        /\ \A j \in 1 .. Len(items) :
             items'[j] = IF j = i THEN None ELSE items[j]
    BY <1>3 DEF Inv, TypeOK, RemoveItem
  <2>2. Occupied' = Occupied \ {i} /\ i \in Occupied
    BY <1>3, <2>1 DEF Occupied, RemoveItem
  <2>3. \A j \in Occupied' : items'[j] = items[j]
    BY <2>1, <2>2 DEF Occupied
  <2>4. Held' = [j \in Occupied \ {i} |-> Held[j]] /\ DOMAIN Held = Occupied
    BY <2>2, <2>3 DEF Held
  <2> QED
    BY <2>2, <2>4 DEF Map!MapRemove, Map!Handles
<1>4. CASE Clear
  <2>1. Occupied' = {}
    BY <1>4 DEF Clear, Occupied
  <2>2. Held' = [i \in {} |-> 0]
    BY <2>1 DEF Held
  <2> QED
    BY <2>2 DEF Map!MapNext, Map!MapClear
<1>5. CASE Optimize
  <2> DEFINE n == Cardinality(Occupied)
  <2>1. PICK from \in [1 .. n -> Occupied] :
          /\ IsEnumeration(from)
          /\ items' = [k \in 1 .. n |-> items[from[k]]]
    BY <1>5, Zenon DEF Optimize
  <2>2. n \in Nat /\ Len(items') = n
    BY <2>1, OccupiedFinite DEF Inv
  <2>3. Occupied' = 1 .. n
    BY <2>1, <2>2 DEF Occupied
  <2>4. /\ DOMAIN Held = Occupied
        /\ DOMAIN Held' = 1 .. n
        /\ \A k \in 1 .. n : Held'[k] = Held[from[k]]
    BY <2>1, <2>3 DEF Held
  <2>5. /\ \A i \in Occupied : \E j \in 1 .. n : from[j] = i
        /\ \A i, j \in 1 .. n : i < j => from[i] < from[j]
    BY <2>1 DEF IsEnumeration
  <2>6. Map!MapOptimize
    <3>1. from \in [DOMAIN Held' -> DOMAIN Held]
      BY <2>1, <2>4
    <3>2. /\ \A i \in DOMAIN Held : \E j \in DOMAIN Held' : from[j] = i
          /\ \A i, j \in DOMAIN Held' : i < j => from[i] < from[j]
          /\ \A j \in DOMAIN Held' : Held'[j] = Held[from[j]]
      BY <2>4, <2>5
    <3> QED
      BY <3>1, <3>2, Zenon DEF Map!MapOptimize, Map!Handles
  <2> QED
    BY <2>6 DEF Map!MapNext
<1>6. ASSUME UNCHANGED vars PROVE UNCHANGED Held
  BY <1>6 DEF vars, Held, Occupied
<1> QED
  BY <1>1, <1>2, <1>3, <1>4, <1>5, <1>6 DEF Next, RemoveNothing, Map!MapNext

(* A ReuseList is a SlotMap: an index returned by append names the item    *)
(* given to that append until the index is removed or the list is cleared  *)
(* or compacted, whatever else is appended and removed meanwhile.          *)
THEOREM ReuseListImplementsSlotMap == Spec => ImplementsSlotMap
<1>1. Init => Map!MapInit
  <2> SUFFICES ASSUME Init PROVE Held = [i \in {} |-> 0]
    BY DEF Map!MapInit
  <2>1. Occupied = {}
    BY DEF Init, Occupied
  <2> QED
    BY <2>1 DEF Held
<1>2. Spec => []Inv
  BY InitInv, NextInv, PTL DEF Spec
<1> QED
  BY <1>1, <1>2, NextRefines, PTL DEF Spec, ImplementsSlotMap, Map!MapSpec
=============================================================================
