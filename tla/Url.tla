-------------------------------- MODULE Url --------------------------------
(***************************************************************************)
(* URL and URLSearchParams (llrt_url): two objects on one Url of the url    *)
(* crate.  The setters of the one and the methods of the other change it in *)
(* turn, while an iterator or a forEach() of the parameters is under way.   *)
(*                                                                         *)
(* A Url is a record of its components.  Its query is what query_pairs()    *)
(* reads from it, and whether it is spelled the way form_urlencoded spells  *)
(* these pairs.  Paths are members of a small set: opaque ones ("x", with a *)
(* space or its code at the end), and those with a Windows drive letter, a  *)
(* double slash or nothing at all.  What the crate does is external, as the *)
(* code's comments and uses tell.                                           *)
(***************************************************************************)
EXTENDS Naturals, Sequences, SequencesExt

CONSTANTS
  Keys,      \* names of parameters, numbers in their UTF-16 order
  Values,    \* values of parameters
  MaxPairs,  \* bound on the number of parameters on their own
  MaxSearch  \* bound on the number of parameters of a URL

VARIABLE u  \* url: the shared Url; uses: what the program does with it;
            \* walk: an iterator or a forEach(); last: who changed url last;
            \* history: lost, a space went from an opaque path; base: the host
            \* of the file URL that url was resolved against

Pair == Keys \X Values

NoQuery == [some |-> FALSE, pairs |-> <<>>, canonical |-> TRUE]
Query(pairs, canonical) == [some |-> TRUE, pairs |-> pairs, canonical |-> canonical]

query_pairs(x) == x.query.pairs

Opaque == {"x", "x ", "x%20"}

is_special_scheme(scheme) == scheme \in {"http", "file"}

(* The elements of s at the indices in I, in their order.                   *)
At(s, I) == FlattenSeq([i \in DOMAIN s |-> IF i \in I THEN <<s[i]>> ELSE <<>>])

----------------------------------------------------------------------------
(* The url crate.                                                           *)

(* An opaque path that nothing follows any more loses its space.            *)
Stripped(x) ==
  IF ~x.query.some /\ x.fragment = "none" /\ x.path = "x "
  THEN [x EXCEPT !.path = "x"] ELSE x

set_query(x, query) == Stripped([x EXCEPT !.query = query])

set_fragment(x, fragment) == Stripped([x EXCEPT !.fragment = fragment])

set_path(x, path) == [x EXCEPT !.path = path, !.sentinel = path = "//p" /\ ~x.authority]

(* A `/.` that stands before a path with a double slash stays.              *)
WithHost(x, host) ==
  IF x.path \in Opaque \/ (host = "" /\ x.scheme = "http") THEN x
  ELSE [x EXCEPT !.host = host, !.authority = TRUE]

Parsed(scheme, authority, host, path, query, fragment) ==
  [scheme |-> scheme, authority |-> authority, host |-> host, path |-> path,
   query |-> query, fragment |-> fragment, username |-> "", password |-> "", port |-> "",
   sentinel |-> path = "//p" /\ ~authority]

Example == Parsed("http", TRUE, "h", "/p", NoQuery, "none")

(* The Urls that strings parse to.  A file URL with a drive letter loses    *)
(* its host.                                                                *)
Texts ==
  [query |-> {Parsed("http", TRUE, "h", "/p", q, "none") :
                q \in {NoQuery, Query(<<>>, TRUE), Query(<<<<1, 1>>, <<2, 1>>>>, FALSE)}}
             \cup {Parsed("data", FALSE, "", "x ", q, f) :
                q \in {NoQuery, Query(<<>>, TRUE), Query(<<<<1, 1>>>>, FALSE)},
                f \in {"none", "f"}},
   parts |-> {Example, Parsed("file", TRUE, "", "/C|/p", NoQuery, "none"),
              Parsed("file", TRUE, "", "/C:/p", NoQuery, "none"),
              Parsed("data", TRUE, "", "/", NoQuery, "none"),
              Parsed("data", FALSE, "", "//p", NoQuery, "none")}]

(* Space at the end of the input is not part of a URL.                      *)
Inputs(uses) ==
  {x \in Texts[uses] : ~(x.path = "x " /\ ~x.query.some /\ x.fragment = "none")}

(* base.join() of a relative path; the host is lost behind a drive letter.  *)
join(base) ==
  [Parsed(base.scheme, TRUE, base.host, "/p", NoQuery, "none") EXCEPT
     !.host = IF base.path = "/C:/p" THEN "" ELSE @,
     !.path = IF base.path = "/C:/p" THEN base.path ELSE @]

----------------------------------------------------------------------------
(* The corrections that are made before and after the crate's work.         *)

convert_trailing_space(x) ==
  IF /\ ~is_special_scheme(x.scheme)
     /\ x.path = "x " /\ (x.query.some \/ x.fragment # "none")
  THEN set_path(x, "x%20") ELSE x

preserve_file_url_host(source, x) ==
  IF x.scheme = "file" /\ x.host = "" /\ source # "" THEN WithHost(x, source) ELSE x

restore_file_url_host(base, x) ==
  IF /\ base.scheme = "file" /\ x.scheme = "file"
     /\ base.host # "" /\ x.host = "" /\ base.path = "/C:/p"
  THEN WithHost(x, base.host) ELSE x

normalize_windows_drive_letter(x) ==
  IF x.scheme = "file" /\ x.path = "/C|/p" THEN set_path(x, "/C:/p") ELSE x

erase_empty_host_path(x) ==
  IF /\ ~is_special_scheme(x.scheme)
     /\ x.path = "/" /\ x.authority
     /\ x.username = "" /\ x.password = "" /\ x.host = "" /\ x.port = ""
     /\ ~x.query.some /\ x.fragment = "none"
  THEN [x EXCEPT !.path = ""] ELSE x

strip_path_sentinel(x) ==
  IF ~is_special_scheme(x.scheme) /\ x.path = "//p" /\ x.authority
  THEN [x EXCEPT !.sentinel = FALSE] ELSE x

from_url(x) == convert_trailing_space(normalize_windows_drive_letter(x))

----------------------------------------------------------------------------
(* Constructors: of a URL, with or without a base (whose source names the   *)
(* host that parsing loses), and of URLSearchParams on their own.           *)

NoWalk == [kind |-> "none", index |-> 0, seen |-> <<>>, calm |-> TRUE, calling |-> FALSE]

Made(uses, x, base) ==
  u = [url |-> x, uses |-> uses, walk |-> NoWalk, last |-> "new", lost |-> FALSE, base |-> base]

new ==
  \E uses \in {"query", "parts"}, input \in UNION {Inputs(k) : k \in {"query", "parts"}} :
    /\ input \in Inputs(uses)
    /\ \/ Made(uses, from_url(input), "")
       \/ \E source \in {"", "h"} :
            LET base == preserve_file_url_host(source, input)
            IN  /\ base.path \notin Opaque
                /\ Made(uses, from_url(restore_file_url_host(base, join(base))),
                        IF base.scheme = "file" THEN base.host ELSE "")

(* from_str: the query as it was written.                                   *)
from_str(pairs) == Query(pairs, FALSE)

(* from_array: the pairs as they come, the way the crate spells them.       *)
from_array(pairs) == Query(pairs, FALSE)

(* from_object: of keys that become the same string, the last value at the  *)
(* first place.                                                             *)
from_object(pairs) ==
  LET Same(i) == {j \in DOMAIN pairs : pairs[j][1] = pairs[i][1]}
      Latest(i) == CHOOSE j \in Same(i) : \A k \in Same(i) : k <= j
  IN  from_array(At([i \in DOMAIN pairs |-> pairs[Latest(i)]],
                    {i \in DOMAIN pairs : \A j \in Same(i) : i <= j}))

newParams ==
  \E pairs \in UNION {[1..n -> Pair] : n \in 0..2} :
    \E query \in {from_str(pairs), from_array(pairs), from_object(pairs)} :
      Made("params", [Example EXCEPT !.query = query], "")

Init == new \/ newParams

----------------------------------------------------------------------------
(* The setters of URL.                                                      *)

Disturbed(walk) == [walk EXCEPT !.calm = FALSE, !.seen = <<>>]

Becomes(by, x, walk) ==
  u' = [u EXCEPT !.url = x, !.last = by, !.walk = walk,
                 !.lost = @ \/ (by # "sort" /\ u.url.path = "x " /\ x.path = "x")]

before_mutation(x) == convert_trailing_space(x)

(* quirks::set_*: what the crate makes of a new value; "" clears.           *)
quirks(x, attr, v) ==
  CASE attr = "hash" -> set_fragment(x, IF v = "" THEN "none" ELSE v)
    [] attr \in {"host", "hostname"} -> WithHost(x, v)
    [] attr \in {"username", "password", "port"} ->
         IF x.host = "" \/ x.scheme = "file" THEN x ELSE [x EXCEPT ![attr] = v]
    [] attr = "protocol" ->
         IF /\ is_special_scheme(x.scheme) /\ x.host # "" /\ x.port = ""
            /\ x.username = "" /\ x.password = ""
         THEN [x EXCEPT !.scheme = v] ELSE x

(* The setters that leave the rest to the crate.                            *)
Assign(attr, v) == Becomes("url", quirks(before_mutation(u.url), attr, v), u.walk)

set_hash(v) == u.uses # "params" /\ Assign("hash", v)
set_host(v) == u.uses = "parts" /\ Assign("host", v)
set_password(v) == u.uses = "parts" /\ Assign("password", v)
set_protocol(v) == u.uses = "parts" /\ Assign("protocol", v)
set_username(v) == u.uses = "parts" /\ Assign("username", v)

set_hostname(v) ==
  /\ u.uses = "parts"
  /\ Becomes("url", strip_path_sentinel(quirks(before_mutation(u.url), "hostname", v)), u.walk)

set_pathname(v) ==
  /\ u.uses # "params"
  /\ LET x == before_mutation(u.url)
         y == IF x.path \in Opaque THEN x ELSE set_path(x, IF v = "" THEN "/" ELSE v)
     IN  Becomes("url", IF v = "" THEN erase_empty_host_path(y) ELSE y, u.walk)

(* null, undefined and negative numbers are passed over; a string of tabs   *)
(* and line ends alone changes no port, though the path may be converted.   *)
set_port(v) ==
  /\ u.uses = "parts"
  /\ v # "null"
  /\ LET x == before_mutation(u.url)
     IN  Becomes("url", IF v = "tab" THEN x ELSE quirks(x, "port", v), u.walk)

set_search(query) ==
  /\ u.uses = "query"
  /\ Becomes("url", set_query(before_mutation(u.url), query), Disturbed(u.walk))

(* A text that parses takes the place of all, with no corrections made; one *)
(* that does not leaves the Url, whose path may have been converted.        *)
set_href(parsed) ==
  /\ u.uses # "params"
  /\ IF parsed = <<>> THEN Becomes("url", before_mutation(u.url), u.walk)
     ELSE Becomes("href", parsed[1], Disturbed(u.walk))

----------------------------------------------------------------------------
(* URLSearchParams.                                                         *)

(* The query is spelled anew, from what it says.                            *)
sync_query(x) ==
  set_query(x, IF query_pairs(x) = <<>> THEN NoQuery ELSE Query(query_pairs(x), TRUE))

Room == IF u.uses = "params" THEN MaxPairs ELSE MaxSearch

(* query_pairs_mut().clear().extend_pairs(), or no query.                   *)
Replaced(x, pairs) ==
  set_query(x, IF pairs = <<>> THEN NoQuery ELSE Query(pairs, FALSE))

append(k, v) ==
  LET x == convert_trailing_space(u.url)
  IN  /\ Len(query_pairs(x)) < Room
      /\ Becomes("params",
           sync_query(set_query(x, Query(Append(query_pairs(x), <<k, v>>), x.query.canonical))),
           u.walk)

(* delete(k), or delete(k, v) with one value.                               *)
delete(k, vs) ==
  LET x == convert_trailing_space(u.url)
      kept == SelectSeq(query_pairs(x), LAMBDA p : ~(p[1] = k /\ p[2] \in vs))
  IN  Becomes("params", sync_query(Replaced(x, kept)), Disturbed(u.walk))

(* Getters: the first value of a key or nothing, all of its values, and     *)
(* whether it is there, with one of the values vs.                          *)
get(pairs, k) ==
  LET i == SelectInSeq(pairs, LAMBDA p : p[1] = k) IN IF i = 0 THEN <<>> ELSE <<pairs[i][2]>>

get_all(pairs, k) ==
  LET own == SelectSeq(pairs, LAMBDA p : p[1] = k) IN [i \in DOMAIN own |-> own[i][2]]

has(pairs, k, vs) == \E i \in DOMAIN pairs : pairs[i][1] = k /\ pairs[i][2] \in vs

(* set: the value goes to every pair of the key, and then only the first of *)
(* equal pairs is kept, also of those that have another key.                *)
WithSet(pairs, k, v) ==
  LET all == Append([i \in DOMAIN pairs |-> IF pairs[i][1] = k THEN <<k, v>> ELSE pairs[i]],
                    <<k, v>>)
  IN  At(all, {i \in DOMAIN all : \A j \in 1..(i - 1) : all[j] # all[i]})

set(k, v) ==
  LET x == convert_trailing_space(u.url)
      pairs == WithSet(query_pairs(x), k, v)
  IN  /\ Len(pairs) <= Room
      /\ Becomes("params", sync_query(Replaced(x, pairs)), Disturbed(u.walk))

(* sort: stable, by key; a trailing space is not converted.                 *)
Sorted(pairs) ==
  LET order == SetToSortSeq(DOMAIN pairs,
        LAMBDA i, j : pairs[i][1] < pairs[j][1] \/ (pairs[i][1] = pairs[j][1] /\ i < j))
  IN  [i \in DOMAIN pairs |-> pairs[order[i]]]

sort == Becomes("sort", sync_query(Replaced(u.url, Sorted(query_pairs(u.url)))),
                Disturbed(u.walk))

----------------------------------------------------------------------------
(* Iterators and forEach(), one at a time.                                  *)

entries ==
  /\ u.walk.kind = "none"
  /\ u' = [u EXCEPT !.walk = [NoWalk EXCEPT !.kind = "iterator"]]

for_each ==
  /\ u.walk.kind = "none"
  /\ u' = [u EXCEPT !.walk = [NoWalk EXCEPT !.kind = "forEach"]]

(* The pair at an index, if there is one.                                   *)
read_entry(index) ==
  LET pairs == query_pairs(u.url) IN IF index < Len(pairs) THEN <<pairs[index + 1]>> ELSE <<>>

Seen(walk) == IF walk.calm THEN walk.seen \o read_entry(walk.index) ELSE <<>>

(* Planted fault: the index moves on though there was no entry.             *)
nextFault ==
  /\ u.walk.kind = "iterator"
  /\ u.walk.index < MaxPairs
  /\ u' = [u EXCEPT !.walk.seen = Seen(u.walk), !.walk.index = @ + 1]

(* next(): the index moves on only where there was an entry.                *)
next ==
  /\ u.walk.kind = "iterator"
  /\ u' = [u EXCEPT !.walk.seen = Seen(u.walk), !.walk.index = @ + Len(read_entry(@))]

(* forEach() reads the next pair and calls back, or ends.                   *)
for_each_calls ==
  /\ u.walk.kind = "forEach" /\ ~u.walk.calling
  /\ u' = [u EXCEPT !.walk = IF read_entry(u.walk.index) = <<>> THEN NoWalk
                             ELSE [u.walk EXCEPT !.seen = Seen(u.walk), !.calling = TRUE]]

callback_returns ==
  /\ u.walk.calling
  /\ u' = [u EXCEPT !.walk.calling = FALSE, !.walk.index = @ + 1]

callback_throws ==
  /\ u.walk.calling
  /\ u' = [u EXCEPT !.walk = NoWalk]

Next ==
  \/ \E v \in {"", "f"} : set_hash(v)
  \/ \E v \in {"", "g"} : set_host(v) \/ set_hostname(v) \/ set_username(v) \/ set_password(v)
  \/ \E v \in {"http", "file"} : set_protocol(v)
  \/ \E v \in {"", "/p", "//p"} : set_pathname(v)
  \/ \E v \in {"null", "tab", "", "1"} : set_port(v)
  \/ \E query \in {NoQuery, Query(<<>>, TRUE), Query(<<<<2, 1>>, <<1, 1>>>>, FALSE)} :
       set_search(query)
  \/ u.uses # "params" /\ (set_href(<<>>) \/ \E x \in Inputs(u.uses) : set_href(<<x>>))
  \/ /\ u.uses # "parts"
     /\ \/ \E k \in Keys, v \in Values : append(k, v) \/ set(k, v)
        \/ \E k \in Keys, vs \in {Values} \cup {{v} : v \in Values} : delete(k, vs)
        \/ sort
        \/ entries \/ next
        \/ for_each \/ for_each_calls \/ callback_returns \/ callback_throws

Spec == Init /\ [][Next]_u

----------------------------------------------------------------------------
(* Views.                                                                   *)

(* href: the serialization of the Url.                                      *)
href(x) ==
  [scheme |-> x.scheme, slashes |-> x.authority, username |-> x.username,
   password |-> x.password, host |-> x.host, port |-> x.port, sentinel |-> x.sentinel,
   path |-> x.path, query |-> x.query, fragment |-> x.fragment]

(* The getters search and hash give "" for an empty query or fragment.      *)
search(x) == IF query_pairs(x) = <<>> THEN NoQuery ELSE x.query
hash(x) == x.fragment

(* format(): always with the two slashes, and a password only behind a name.*)
url_format(x, include_auth, include_fragment, include_search) ==
  [scheme |-> x.scheme, slashes |-> TRUE,
   username |-> IF include_auth THEN x.username ELSE "",
   password |-> IF include_auth /\ x.username # "" THEN x.password ELSE "",
   host |-> x.host, port |-> x.port, sentinel |-> FALSE, path |-> x.path,
   query |-> IF include_search THEN search(x) ELSE NoQuery,
   fragment |-> IF include_fragment THEN hash(x) ELSE "none"]

(* urlToHttpOptions(): auth is there with a name only.                      *)
url_to_http_options(x) ==
  [hostname |-> x.host, port |-> x.port, path |-> <<x.path, search(x)>>,
   auth |-> IF x.username # "" THEN <<x.username, x.password>> ELSE <<>>]

----------------------------------------------------------------------------
(* Properties.                                                              *)

TypeOK ==
  /\ u.url.scheme \in {"http", "file", "data"}
  /\ u.url.path \in Opaque \cup {"", "/", "/p", "//p", "/C|/p", "/C:/p"}
  /\ query_pairs(u.url) \in BoundedSeq(Pair, MaxPairs)
  /\ u.walk.index \in 0..MaxPairs

(* An iterator or a forEach() that nothing but append() disturbs has given  *)
(* exactly the pairs up to where it is: none twice, none left out, also one *)
(* that is appended when it had come to the end.                            *)
WalkSeesAll ==
  u.walk.calm =>
    /\ Len(u.walk.seen) = u.walk.index + (IF u.walk.calling THEN 1 ELSE 0)
    /\ IsPrefix(u.walk.seen, query_pairs(u.url))

(* After a method of URLSearchParams the URL's search is what the           *)
(* parameters' toString() gives, and there is none without parameters.      *)
SearchInStep ==
  u.last \in {"params", "sort"} =>
    u.url.query = IF query_pairs(u.url) = <<>> THEN NoQuery ELSE Query(query_pairs(u.url), TRUE)

(* No change through a setter or a method but sort() costs an opaque path   *)
(* its trailing space: it is encoded first.                                 *)
SpaceKept == ~u.lost

(* set(k, v) puts the value where the key first was, or at the end, takes   *)
(* the key's other pairs away and leaves the rest, as long as none of the   *)
(* rest is there twice.                                                     *)
SetsInPlace ==
  \A k \in Keys, v \in Values :
    LET pairs == query_pairs(u.url)
        first == SelectInSeq(pairs, LAMBDA p : p[1] = k)
        others == {i \in DOMAIN pairs : pairs[i][1] # k}
    IN  /\ get_all(WithSet(pairs, k, v), k) = <<v>>
        /\ get(WithSet(pairs, k, v), k) = <<v>>
        /\ \A w \in Values : has(WithSet(pairs, k, v), k, {w}) <=> w = v
        /\ (\A i, j \in others : pairs[i] = pairs[j] => i = j) =>
             WithSet(pairs, k, v) =
               IF first = 0 THEN Append(pairs, <<k, v>>)
               ELSE At([pairs EXCEPT ![first] = <<k, v>>], others \cup {first})

(* A URL that is resolved against a file URL with a host keeps the host.    *)
HostKept == u.last = "new" /\ u.base # "" => u.url.host = u.base

(* format() gives the href of a URL that has a host, but for an empty query,*)
(* a password without a name, and the `/.` that set_host leaves.            *)
FormatIsHref ==
  LET x == u.url
  IN  /\ x.authority /\ ~x.sentinel /\ (x.username # "" \/ x.password = "")
      /\ (x.query.some => query_pairs(x) # <<>>)
      => /\ url_format(x, TRUE, TRUE, TRUE) = href(x)
         /\ url_to_http_options(x).path = <<href(x).path, href(x).query>>

(* What a URL and its parameters promise together: complete walks, one      *)
(* query, no lost space or host, set() in place, and views that agree.      *)
UrlKeepsWord ==
  TypeOK /\ WalkSeesAll /\ SearchInStep /\ SpaceKept /\ SetsInPlace /\ HostKept /\ FormatIsHref
=============================================================================
