------------------------------ MODULE Headers ------------------------------
(***************************************************************************)
(* The header list of llrt_fetch/src/headers.rs under each guard: how it   *)
(* is made of an array, an object or the headers of a response, append(),  *)
(* set(), delete(), get(), the sorted entries and the live iterator.       *)
(*                                                                         *)
(* A name stands for its class; a value is the sequence of the pieces that *)
(* are joined in it.                                                       *)
(***************************************************************************)
EXTENDS Integers, Sequences, SequencesExt

CONSTANT MaxPieces   \* bound: pieces in the list

VARIABLE h     \* the list, its guard, an iterator, and what the list stands for

(* A name that no-cors allows, a forbidden one, the one that is not        *)
(* joined, any other, and a method override, in their order.               *)
Order == <<"accept", "host", "set-cookie", "x-a", "x-http-method">>
Names == Range(Order)
Rank(n) == CHOOSE i \in DOMAIN Order : Order[i] = n

(* TRACE is a forbidden method, a byte of "unsafe" is not safelisted, and  *)
(* "invalid" holds a line break or a control character.                    *)
Pieces == {"v", "w", "TRACE", "unsafe", "invalid"}
PiecesOf(n) == CASE n = "accept" -> {"v", "unsafe"}
                 [] n = "host" -> {"v"}
                 [] n = "x-http-method" -> {"v", "TRACE"}
                 [] OTHER -> {"v", "w", "invalid"}
Guards == {"none", "request", "request-no-cors", "response", "immutable"}

Becomes(g) == h' = g

----------------------------------------------------------------------------
ForRequest(guard) == guard \in {"request", "request-no-cors"}
IsForbiddenRequestHeader(n) == n \in {"host", "set-cookie"}
IsForbiddenMethodOverride(n, v) == n = "x-http-method" /\ v = "TRACE"
IsCorsSafelistedRequestHeader(n, v) == n = "accept" /\ v # "unsafe"

(* What a guard leaves out without an error.                               *)
Ignored(guard, n, v) ==
  \/ ForRequest(guard) /\ (IsForbiddenRequestHeader(n)
                           \/ IsForbiddenMethodOverride(n, v))
  \/ guard = "request-no-cors" /\ ~IsCorsSafelistedRequestHeader(n, v)

Has(list, n) == \E i \in DOMAIN list : list[i].name = n
First(list, n) == CHOOSE i \in DOMAIN list :
                    list[i].name = n /\ \A j \in 1 .. i - 1 : list[j].name # n
Entry(n, value) == [name |-> n, value |-> value]
Without(list, n) == SelectSeq(list, LAMBDA e : e.name # n)
Sorted(list) == SortSeq(list, LAMBDA a, b : Rank(a.name) < Rank(b.name))

Join(list, n, v) ==
  IF n = "set-cookie" \/ ~Has(list, n) THEN Append(list, Entry(n, <<v>>))
  ELSE [list EXCEPT ![First(list, n)].value = Append(@, v)]

(* from_array() joins the values of a name; the list is sorted at the end. *)
FromArray(pairs, guard) ==
  LET keep == SelectSeq(pairs, LAMBDA p : ~Ignored(guard, p[1], p[2]))
  IN  Sorted(FoldLeft(LAMBDA l, p : Join(l, p[1], p[2]), <<>>, keep))

(* An object may spell a name twice; its values are not joined.            *)
FromRecord(pairs, guard) ==
  LET keep == SelectSeq(pairs, LAMBDA p : ~Ignored(guard, p[1], p[2]))
  IN  Sorted([i \in DOMAIN keep |-> Entry(keep[i][1], <<keep[i][2]>>)])

(* The headers of a response: each name once, set-cookie as often as it    *)
(* came.                                                                   *)
FromHttpHeaders(pairs) == FoldLeft(LAMBDA l, p : Join(l, p[1], p[2]), <<>>, pairs)

Means(pairs, guard) ==
  [n \in Names |-> LET its == SelectSeq(pairs, LAMBDA p :
                                p[1] = n /\ ~Ignored(guard, p[1], p[2]))
                   IN  [i \in DOMAIN its |-> its[i][2]]]

----------------------------------------------------------------------------
NoIterator == [index |-> 0, seen |-> <<>>, over |-> <<>>, at |-> "none"]
Valid == {p \in Names \X (Pieces \ {"invalid"}) : p[2] \in PiecesOf(p[1])}
Pairs == UNION {[1 .. k -> Valid] : k \in 0 .. 2}
Twice(pairs) == \E i, j \in DOMAIN pairs :
                  i < j /\ pairs[i][1] = pairs[j][1] /\ pairs[i][1] # "set-cookie"

Init ==
  \E guard \in Guards, pairs \in Pairs, how \in {"array", "record", "http"} :
    /\ how = "http" <=> guard = "immutable"
    /\ h = [list |-> CASE how = "array" -> FromArray(pairs, guard)
                       [] how = "record" -> FromRecord(pairs, guard)
                       [] OTHER -> FromHttpHeaders(pairs),
            guard |-> guard, iter |-> NoIterator,
            stands |-> Means(pairs, guard),
            spelled_twice |-> how = "record" /\ Twice(pairs)]

Size(list) == FoldLeft(LAMBDA k, e : k + Len(e.value), 0, list)

(* The errors of append(), set() and delete().                             *)
Throws(n, v) == h.guard = "immutable" \/ v = "invalid"

(* What the guards make these methods ignore.                              *)
Kept(n) ==
  /\ ~(ForRequest(h.guard) /\ IsForbiddenRequestHeader(n))
  /\ ~(h.guard = "response" /\ n = "set-cookie")

Changes(list, stands) ==
  Becomes([h EXCEPT !.list = list, !.stands = stands,
                    !.iter = IF @.at = "none" THEN @
                             ELSE [NoIterator EXCEPT !.index = h.iter.index, !.at = "changed"]])

AppendValue(n, v) ==
  /\ ~Throws(n, v)
  /\ Size(h.list) < MaxPieces
  /\ Kept(n) /\ ~Ignored(h.guard, n, v)
  /\ ~(h.guard = "request-no-cors" /\ Has(h.list, n))
  /\ Changes(Join(h.list, n, v), [h.stands EXCEPT ![n] = Append(@, v)])

(* Planted fault: set() of set-cookie replaces the first one. *)
ReplaceFault(list, n, v) ==
  IF ~Has(list, n) THEN Append(list, Entry(n, <<v>>))
  ELSE [list EXCEPT ![First(list, n)].value = <<v>>]

Replace(list, n, v) ==
  IF n = "set-cookie" THEN Append(Without(list, n), Entry(n, <<v>>))
  ELSE IF ~Has(list, n) THEN Append(list, Entry(n, <<v>>))
  ELSE [list EXCEPT ![First(list, n)].value = <<v>>]

SetValue(n, v) ==
  /\ ~Throws(n, v)
  /\ Size(h.list) < MaxPieces
  /\ Kept(n) /\ ~Ignored(h.guard, n, v)
  /\ Changes(Replace(h.list, n, v), [h.stands EXCEPT ![n] = <<v>>])

Delete(n) ==
  /\ ~Throws(n, "none")
  /\ Kept(n)
  /\ Changes(Without(h.list, n), [h.stands EXCEPT ![n] = <<>>])

----------------------------------------------------------------------------
(* get(): the first entry of the name, all of them of set-cookie.          *)
Get(n) ==
  IF n = "set-cookie"
    THEN FlattenSeq([i \in DOMAIN h.list |->
           IF h.list[i].name = n THEN h.list[i].value ELSE <<>>])
  ELSE IF Has(h.list, n) THEN h.list[First(h.list, n)].value ELSE <<>>

(* The first entry of each name and every set-cookie, in order.            *)
SortedEntries(list) ==
  Sorted(SelectSeq(list, LAMBDA e : e.name = "set-cookie"
                                    \/ e = list[First(list, e.name)]))

(* The iterator looks at the list anew for each entry.                     *)
Entries ==
  /\ h.iter.at = "none"
  /\ Becomes([h EXCEPT !.iter = [NoIterator EXCEPT !.at = "open",
                                   !.over = SortedEntries(h.list)]])

IterNext ==
  LET entries == SortedEntries(h.list)
      i == h.iter.index + 1
  IN  /\ h.iter.at \in {"open", "changed"}
      /\ Becomes(IF i \in DOMAIN entries
                   THEN [h EXCEPT !.iter.index = i, !.iter.seen =
                           IF h.iter.at = "open" THEN Append(@, entries[i]) ELSE @]
                 ELSE IF h.iter.at = "changed" THEN [h EXCEPT !.iter = NoIterator]
                 ELSE [h EXCEPT !.iter.at = "done"])

Next ==
  \/ \E n \in Names : \E v \in PiecesOf(n) : AppendValue(n, v) \/ SetValue(n, v)
  \/ \E n \in Names : Delete(n)
  \/ Entries \/ IterNext

Spec == Init /\ [][Next]_h

----------------------------------------------------------------------------
TypeOK ==
  /\ h.guard \in Guards
  /\ \A i \in DOMAIN h.list : /\ h.list[i].name \in Names
                              /\ h.list[i].value \in Seq(Pieces) \ {<<>>}
  /\ h.iter.at \in {"none", "open", "changed", "done"}

(* An iteration during which the list was left alone gave all, in order.   *)
IterationSeesAll ==
  h.iter.at = "done" =>
    /\ h.iter.seen = h.iter.over
    /\ \A i, j \in DOMAIN h.iter.seen :
         i < j => Rank(h.iter.seen[i].name) <= Rank(h.iter.seen[j].name)
    /\ ~h.spelled_twice => \A n \in Names :
         FlattenSeq([i \in DOMAIN h.iter.seen |->
           IF h.iter.seen[i].name = n THEN h.iter.seen[i].value ELSE <<>>]) = h.stands[n]

(* Through any calls the list stands for a map from names to what was      *)
(* joined under them since the name was set or deleted last: get() gives   *)
(* it, an entry exists for nothing else, and no guard lets in what it      *)
(* keeps out; an iteration during which the list was left alone gave every *)
(* entry once and in order (sorted_entries, HeadersIter).  An object that  *)
(* spells a name twice makes two entries of which get() sees one           *)
(* (from_value).                                                           *)
HeadersAreAMap ==
  /\ TypeOK
  /\ IterationSeesAll
  /\ ~h.spelled_twice =>
       /\ \A n \in Names : Get(n) = h.stands[n]
       /\ \A i, j \in DOMAIN h.list :
            i < j /\ h.list[i].name = h.list[j].name => h.list[i].name = "set-cookie"
  /\ \A i \in DOMAIN h.list : \A k \in DOMAIN h.list[i].value :
       ~Ignored(h.guard, h.list[i].name, h.list[i].value[k])

=============================================================================
