--------------------------- MODULE ModuleRequire ---------------------------
(***************************************************************************)
(* require() of llrt_modules/src/module/require.rs with the loader of      *)
(* package/loader.rs and the "exports" accessor of module/mod.rs: the      *)
(* cache of values, the objects of modules in progress, the modules of the *)
(* engine shared by import and require(), and the loop in which require()  *)
(* runs jobs until an asynchronous module is done.                         *)
(*                                                                         *)
(* A file is known by its resolved path.  What a file exports is one name  *)
(* of its own, so an object is the set of the files whose exports it has.  *)
(***************************************************************************)
EXTENDS Integers, Sequences, SequencesExt, FiniteSets

CONSTANTS C1, C2, E,     \* two CommonJS files and an ECMAScript module
          MaxCalls       \* bound: calls from the program and from its jobs

VARIABLE m     \* RequireState, ModuleCache, the engine's modules, the stack

Files == {C1, C2, E}
Obj(f) == <<"obj", f>>          \* made by require() for a module in progress
ExportsObj(f) == <<"exports", f>>
Fn(f) == <<"function", f>>
Default(f) == <<"default", f>>  \* the object of "export default"
Values == {Obj(f) : f \in Files} \cup {ExportsObj(f) : f \in Files}
          \cup {Fn(f) : f \in Files} \cup {Default(E)}
Nil == <<>>

Script(deps, gives, throws, waits) ==
  [deps |-> deps, gives |-> gives, throws |-> throws, waits |-> waits]

(* A CommonJS file sets names of exports, or replaces module.exports by a  *)
(* function or by what its last require() gave.                            *)
Scripts(f) ==
  IF f = E THEN {s \in {Script(<<>>, g, t, w) : g \in {"named", "default"},
                          t \in BOOLEAN, w \in {"no", "job", "io"}} :
                   s.throws => s.gives = "named"}
  ELSE {s \in {Script(d, g, t, "no") :
                 d \in UNION {[1 .. k -> Files \ {f}] : k \in 0 .. 2},
                 g \in {"nothing", "names", "function", "again"}, t \in BOOLEAN} :
          /\ s.gives = "again" => s.deps # <<>>
          /\ f = C2 => Len(s.deps) < 2}

Body(f) == [kind |-> "body", f |-> f, pc |-> 1, got |-> Nil, thrown |-> FALSE]
Loop(f) == [kind |-> "loop", f |-> f, pc |-> 0, got |-> Nil, thrown |-> FALSE]

Init ==
  \E c1 \in Scripts(C1), c2 \in Scripts(C2), e \in Scripts(E) :
    m = [script |-> [f \in Files |-> CASE f = C1 -> c1 [] f = C2 -> c2 [] OTHER -> e],
         cache |-> [f \in Files |-> Nil], progress |-> {},
         exports |-> [f \in Files |-> Nil], props |-> [v \in Values |-> {}],
         mod |-> [f \in Files |-> "none"], evals |-> [f \in Files |-> 0],
         stack |-> <<>>, calls |-> 0, whole |-> {}, early |-> {}]

Becomes(n) == m' = n
Top(n) == Last(n.stack)
Pop(n) == [n EXCEPT !.stack = Front(@)]
Push(n, frame) == [n EXCEPT !.stack = Append(@, frame)]

----------------------------------------------------------------------------
(* A value or an exception goes to the body that called require(), or to a *)
(* job or the program, which ignore it.                                    *)
FromBody(n) == n.stack # <<>> /\ Top(n).kind = "body"
Return(n, v) ==
  IF ~FromBody(n) THEN n
  ELSE [n EXCEPT !.stack[Len(n.stack)].got = v, !.stack[Len(n.stack)].pc = @ + 1]
Throw(n) == IF FromBody(n) THEN [n EXCEPT !.stack[Len(n.stack)].thrown = TRUE] ELSE n

(* Planted fault: the modules of import and of require() are kept apart.   *)
LoadModuleFault(n, f) ==
  IF n.mod[f] \in {"none", "done"}
  THEN Push([n EXCEPT !.mod[f] = "evaluating", !.evals[f] = @ + 1], Body(f)) ELSE n

(* load_module() and the engine: the module of the path is declared and    *)
(* evaluated once, whatever name it is loaded by.                          *)
LoadModule(n, f) ==
  IF n.mod[f] = "none"
  THEN Push([n EXCEPT !.mod[f] = "evaluating", !.evals[f] = @ + 1], Body(f)) ELSE n

(* require() up to the loop.                                               *)
Require(n, f) ==
  CASE n.cache[f] # Nil -> Return([n EXCEPT !.whole = @ \cup {<<f, n.cache[f]>>}], n.cache[f])
    [] n.cache[f] = Nil /\ f \in n.progress ->
         Return([n EXCEPT !.early = @ \cup {<<f, Obj(f)>>}], Obj(f))
    [] OTHER -> LoadModule(Push([n EXCEPT !.progress = @ \cup {f}], Loop(f)), f)

Cached(n, f, v) ==
  Return([n EXCEPT !.cache[f] = v, !.whole = @ \cup {<<f, v>>}], v)

(* The names of the module itself, on its default object if it has one.    *)
AttachNames(n, f) ==
  CASE f = E /\ n.script[f].gives = "default" ->
         Cached([n EXCEPT !.props[Default(f)] = {f}], f, Default(f))
    [] f = E /\ n.script[f].gives # "default" ->
         Cached([n EXCEPT !.props[Obj(f)] = @ \cup {f}], f, Obj(f))
    [] OTHER -> Cached(n, f, Obj(f))

(* require() after the loop.  An object that is that of another module in  *)
(* progress, and what is not an object, is the value itself.               *)
Finish(n, f) ==
  LET ex == n.exports[f]
      o == [n EXCEPT !.progress = @ \ {f}]
  IN  CASE ex = Nil -> AttachNames(o, f)
        [] ex # Nil /\ (ex[1] = "function" \/ ex \in {Obj(g) : g \in o.progress}) ->
             Cached(o, f, ex)
        [] OTHER -> AttachNames([o EXCEPT !.props[Obj(f)] = @ \cup n.props[ex]], f)

----------------------------------------------------------------------------
(* The setter of "exports"; the getter makes the object.                   *)
SetExports(n, f, got) ==
  CASE n.script[f].gives = "names" ->
         [n EXCEPT !.exports[f] = ExportsObj(f), !.props[ExportsObj(f)] = {f}]
    [] n.script[f].gives = "function" ->
         [n EXCEPT !.exports[f] = Fn(f), !.props[Fn(f)] = {f}]
    [] n.script[f].gives = "again" -> [n EXCEPT !.exports[f] = got]
    [] OTHER -> n

Running == m.stack # <<>>
InBody == Running /\ Top(m).kind = "body"
InLoop == Running /\ Top(m).kind = "loop"

BodyRequires ==
  /\ InBody /\ ~Top(m).thrown
  /\ LET t == Top(m) IN t.pc <= Len(m.script[t.f].deps)
                        /\ Becomes(Require(m, m.script[t.f].deps[t.pc]))

BodyEnds ==
  /\ InBody /\ ~Top(m).thrown /\ Top(m).pc > Len(m.script[Top(m).f].deps)
  /\ LET f == Top(m).f
         s == m.script[f]
         done == SetExports(Pop(m), f, Top(m).got)
     IN  Becomes(IF s.waits # "no" THEN [Pop(m) EXCEPT !.mod[f] = "waiting"]
                 ELSE IF s.throws THEN [Pop(m) EXCEPT !.mod[f] = "failed"]
                 ELSE [done EXCEPT !.mod[f] = "done"])

BodyThrows ==
  /\ InBody /\ Top(m).thrown
  /\ Becomes([Pop(m) EXCEPT !.mod[Top(m).f] = "failed"])

LoopEnds ==
  /\ InLoop /\ m.mod[Top(m).f] = "done"
  /\ Becomes(Finish(Pop(m), Top(m).f))

(* The error leaves the object in progress.                                *)
LoopFails ==
  /\ InLoop /\ m.mod[Top(m).f] = "failed"
  /\ Becomes(Throw(Pop(m)))

(* Only jobs and timers run inside the loop; what waits for I/O goes on    *)
(* when the event loop is back.                                            *)
Goes(f) ==
  /\ m.mod[f] = "waiting"
  /\ m.script[f].waits = "io" => m.stack = <<>>
AwaitSettles(f) ==
  /\ Goes(f) /\ ~InBody
  /\ Becomes([m EXCEPT !.mod[f] = IF m.script[f].throws THEN "failed" ELSE "done"])

(* A call of the program, or of a job that runs inside a loop.             *)
CanCall == m.calls < MaxCalls /\ ~InBody /\ (InLoop => m.mod[Top(m).f] = "waiting")
Called == [m EXCEPT !.calls = @ + 1]
CallRequire(f) == CanCall /\ Becomes(Require(Called, f))

(* import: a CommonJS file goes through require().                         *)
CallImport(f) ==
  /\ CanCall
  /\ Becomes(IF f = E THEN LoadModule(Called, f) ELSE Require(Called, f))

Next ==
  \/ BodyRequires \/ BodyEnds \/ BodyThrows \/ LoopEnds \/ LoopFails
  \/ \E f \in Files : AwaitSettles(f) \/ CallRequire(f) \/ CallImport(f)

Spec == Init /\ [][Next]_m

----------------------------------------------------------------------------
TypeOK ==
  /\ m.progress \subseteq Files
  /\ \A f \in Files : m.cache[f] \in Values \cup {Nil} /\ m.exports[f] \in Values \cup {Nil}
  /\ \A f \in Files : m.mod[f] \in {"none", "evaluating", "waiting", "done", "failed"}

(* The object handed out before the end stays apart from the value when    *)
(* the module replaces its exports or has a default object.                *)
Apart(f) == m.script[f].gives \in {"function", "again", "default"}

(* require() and import share modules: a file is evaluated at most once,   *)
(* whatever the order and the nesting of the calls; the calls that end     *)
(* return one value, with all the file exports; and the object a cycle or  *)
(* a job got while the file was in progress is that same object, except    *)
(* where the file replaced its exports, so what it exports shows up there. *)
(* The loop of require() never waits for a module it is itself inside of,  *)
(* and hangs only where the module waits for I/O: it runs jobs and timers  *)
(* but not the event loop.                                                 *)
ModulesAreShared ==
  /\ TypeOK
  /\ \A f \in Files :
       /\ m.evals[f] <= 1
       /\ \A v, w \in {p[2] : p \in {p \in m.whole : p[1] = f}} : v = w
       /\ \A p \in m.early : p[1] = f /\ m.cache[f] # Nil /\ ~Apart(f) => p[2] = m.cache[f]
       /\ m.cache[f] # Nil /\ m.script[f].gives \in {"names", "function", "named", "default"}
            => f \in m.props[m.cache[f]]
  /\ InLoop => \/ m.mod[Top(m).f] \in {"done", "failed"}
               \/ m.mod[Top(m).f] = "waiting"
                  /\ (Goes(Top(m).f) \/ m.script[Top(m).f].waits = "io")
============================================================================
