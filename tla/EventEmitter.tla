---------------------------- MODULE EventEmitter ----------------------------
(***************************************************************************)
(* The Emitter trait behind EventEmitter, EventTarget and every native     *)
(* class that emits events: the list of listeners, and do_emit, which      *)
(* calls a copy of them while they add, remove and emit themselves.        *)
(*                                                                         *)
(* A listener may do anything at each of its steps, so its body is every   *)
(* sequence of calls.  Emissions that are under way form a stack.          *)
(***************************************************************************)
EXTENDS Naturals, Sequences, SequencesExt, FiniteSetsExt

CONSTANTS
  Key,      \* event names
  Callback, \* functions of the program
  MaxAdds,  \* bound: registrations in all
  MaxEmits  \* bound: emissions in all, nested ones included

VARIABLES
  events,   \* the EventList: a sequence of keys, each with its items
  attached, \* what on_event_changed last told the native class, per key
  adds,     \* registrations so far; each item has its number as its id
  emits,
  stack,    \* emissions under way: the callbacks that are left, and whether
            \* one of them is running
  history,  \* per id: how often it was called, and whether it was once()
  removed   \* history: per key, whether listeners of it were removed by a call

vars == <<events, attached, adds, emits, stack, history, removed>>

Entry == 1..Len(events)
Index(k) == SelectInSeq(events, LAMBDA e : e.key = k)   \* 0 when there is none
Items(k) == IF Index(k) = 0 THEN <<>> ELSE events[Index(k)].items
Ids(s) == {s[i].id : i \in DOMAIN s}
has_key(k) == Index(k) # 0
listener_count(k) == Len(Items(k))
event_names == [i \in Entry |-> events[i].key]

\* The program runs: at top level, or in the callback on top of the stack.
Running == stack # <<>> => Last(stack).running

Init ==
  /\ events = <<>>
  /\ attached = [k \in Key |-> FALSE]
  /\ adds = 0 /\ emits = 0
  /\ stack = <<>>
  /\ history = <<>>
  /\ removed = [k \in Key |-> FALSE]

\* on(), once(), prependListener(), prependOnceListener() and
\* addEventListener(): the class is told of the first listener of a key.
add_event_listener(k, cb, prepend, once) ==
  /\ Running
  /\ adds < MaxAdds
  /\ adds' = adds + 1
  /\ LET item == [id |-> adds + 1, callback |-> cb, once |-> once]
         items == IF prepend THEN <<item>> \o Items(k) ELSE Append(Items(k), item)
     IN  /\ events' = IF has_key(k) THEN [events EXCEPT ![Index(k)].items = items]
                                    ELSE Append(events, [key |-> k, items |-> items])
         /\ history' = Append(history, [once |-> once, prepend |-> prepend, called |-> 0])
  /\ attached' = IF has_key(k) THEN attached ELSE [attached EXCEPT ![k] = TRUE]
  /\ UNCHANGED <<emits, stack, removed>>

\* off(): the first item with the callback is removed, and its key when that
\* was the last item.  The class is not told.
remove_event_listener(k, cb) ==
  /\ Running
  /\ LET items == Items(k)
         pos == SelectInSeq(items, LAMBDA item : item.callback = cb)
     IN  /\ pos # 0
         /\ events' = IF Len(items) = 1 THEN RemoveAt(events, Index(k))
                      ELSE [events EXCEPT ![Index(k)].items = RemoveAt(items, pos)]
  /\ removed' = [removed EXCEPT ![k] = TRUE]
  /\ UNCHANGED <<attached, adds, emits, stack, history>>

\* removeAllListeners(), of one key or of all; the class is not told.
remove_all_listeners(keys) ==
  /\ Running
  /\ events' = SelectSeq(events, LAMBDA e : e.key \notin keys)
  /\ removed' = [k \in Key |-> removed[k] \/ k \in keys]
  /\ UNCHANGED <<attached, adds, emits, stack, history>>

Retained(k) == SelectSeq(Items(k), LAMBDA item : ~item.once)

do_emitFault(k) ==
  /\ Running
  /\ emits < MaxEmits
  /\ emits' = emits + 1
  /\ has_key(k)
  /\ stack' = Append(stack, [key |-> k, pending |-> Items(k), running |-> FALSE])
  /\ UNCHANGED <<events, attached, adds, history, removed>>

do_emitSilent(k) ==
  /\ Running
  /\ emits < MaxEmits
  /\ emits' = emits + 1
  /\ has_key(k)
  /\ stack' = Append(stack, [key |-> k, pending |-> Items(k), running |-> FALSE])
  /\ events' = IF Retained(k) = <<>> THEN RemoveAt(events, Index(k))
               ELSE [events EXCEPT ![Index(k)].items = Retained(k)]
  /\ UNCHANGED <<attached, adds, history, removed>>

\* do_emit up to its loop: the callbacks are copied, once() listeners leave the
\* list, a key without listeners goes and the class is told.
do_emit(k) ==
  /\ Running
  /\ emits < MaxEmits
  /\ emits' = emits + 1
  /\ has_key(k)
  /\ stack' = Append(stack, [key |-> k, pending |-> Items(k), running |-> FALSE])
  /\ IF Retained(k) = <<>>
     THEN /\ events' = RemoveAt(events, Index(k))
          /\ attached' = [attached EXCEPT ![k] = FALSE]
     ELSE /\ events' = [events EXCEPT ![Index(k)].items = Retained(k)]
          /\ UNCHANGED attached
  /\ UNCHANGED <<adds, history, removed>>

\* The loop calls the next callback.
call ==
  /\ stack # <<>>
  /\ LET frame == Last(stack)
     IN  /\ ~frame.running
         /\ frame.pending # <<>>
         /\ stack' = [stack EXCEPT ![Len(stack)].running = TRUE]
         /\ history' = [history EXCEPT ![frame.pending[1].id].called = @ + 1]
  /\ UNCHANGED <<events, attached, adds, emits, removed>>

\* The callback returns.
callback_returns ==
  /\ stack # <<>> /\ Last(stack).running
  /\ stack' = [stack EXCEPT ![Len(stack)].running = FALSE, ![Len(stack)].pending = Tail(@)]
  /\ UNCHANGED <<events, attached, adds, emits, history, removed>>

\* The callback throws: the `?` leaves the loop, and emit() throws in turn in
\* the callback below, which may catch it.
callback_throws ==
  /\ stack # <<>> /\ Last(stack).running
  /\ stack' = Front(stack)
  /\ UNCHANGED <<events, attached, adds, emits, history, removed>>

\* do_emit returns.
emit_returns ==
  /\ stack # <<>> /\ ~Last(stack).running /\ Last(stack).pending = <<>>
  /\ stack' = Front(stack)
  /\ UNCHANGED <<events, attached, adds, emits, history, removed>>

Next ==
  \/ \E k \in Key, cb \in Callback, prepend, once \in BOOLEAN :
       add_event_listener(k, cb, prepend, once)
  \/ \E k \in Key, cb \in Callback : remove_event_listener(k, cb)
  \/ \E keys \in {{k} : k \in Key} \cup {Key} : remove_all_listeners(keys)
  \/ \E k \in Key : do_emit(k)
  \/ call
  \/ callback_returns
  \/ callback_throws
  \/ emit_returns

Spec == Init /\ [][Next]_vars

---------------------------------------------------------------------------

Item == [id : 1..MaxAdds, callback : Callback, once : BOOLEAN]

\* The EventList is a sequence of keys with items, and the stack is no deeper
\* than the emissions that began.
TypeOK ==
  /\ \A i \in Entry : /\ events[i].key \in Key
                      /\ Len(events[i].items) \in 1..MaxAdds
                      /\ Range(events[i].items) \subseteq Item
  /\ attached \in [Key -> BOOLEAN] /\ removed \in [Key -> BOOLEAN]
  /\ adds \in 0..MaxAdds /\ emits \in 0..MaxEmits
  /\ Len(history) = adds
  /\ Len(stack) <= emits
  /\ \A f \in Range(stack) : f.key \in Key /\ Ids(f.pending) \subseteq 1..adds

\* A key that is in the list has a listener, and is there once: has_listener_str,
\* by which an "error" event is emitted or thrown, and eventNames() are right.
ListMatchesListeners ==
  /\ TypeOK
  /\ \A i, j \in Entry : event_names[i] = event_names[j] => i = j
  /\ \A k \in Key : has_key(k) <=> listener_count(k) > 0

\* A listener added by once() is called at most once, also when a listener emits
\* the same event again while the first emission is still calling.
OnceOnlyOnce ==
  \A id \in DOMAIN history : history[id].once => history[id].called <= 1

\* Listeners are called in the order they were added, those that were prepended
\* before all others and latest first, whatever was removed in between.
CalledInOrder ==
  LET Before(x, y) ==
        \/ history[x].prepend /\ (history[y].prepend => x > y)
        \/ ~history[x].prepend /\ ~history[y].prepend /\ x < y
      Ordered(s) == \A i, j \in DOMAIN s : i < j => Before(s[i].id, s[j].id)
  IN  /\ \A i \in Entry : Ordered(events[i].items)
      /\ \A f \in Range(stack) : Ordered(f.pending)

\* A native class that follows its listeners through on_event_changed (a
\* readable stream starts to flow with the first "data" listener) never takes a
\* key that has listeners for one that has none, and knows when the last one is
\* gone, as long as listeners leave the list only by being called.
ClassKnowsListeners ==
  \A k \in Key : /\ has_key(k) => attached[k]
                 /\ ~removed[k] /\ attached[k] => has_key(k)
=============================================================================
