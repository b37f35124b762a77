-------------------------- MODULE PackageResolver --------------------------
(***************************************************************************)
(* require_resolve() of llrt_modules/src/package/resolver.rs: which file a *)
(* specifier names for a module in a directory, and the process-wide cache *)
(* of the node_modules directories above a directory.                      *)
(*                                                                         *)
(* A path is the sequence of its names below "/" with its extension apart, *)
(* so that joining strings is joining sequences; the module that asks is   *)
(* known by its directory, links followed.  A package.json is a record,    *)
(* its "exports" and "imports" functions from the keys on the way to a     *)
(* target.                                                                 *)
(***************************************************************************)
EXTENDS Integers, Sequences, SequencesExt, FiniteSets

CONSTANT MaxInstalls   \* bound: packages that appear while the program runs

VARIABLE r     \* the file system, the cache, and the last answer

N == "node_modules"
JsExts == <<".js", ".mjs", ".cjs">>
Supported == Append(JsExts, ".lrt")
Platform == "node"

File(at, ext) == [at |-> at, ext |-> ext]
None == File(<<>>, "none")
Or(f, g) == IF f # None THEN f ELSE g
Under(dir, f) == [f EXCEPT !.at = dir \o @]
Parent(dir) == SubSeq(dir, 1, Len(dir) - 1)

(* A directory and those above it, nearest first.                          *)
Ancestors(dir) == [i \in 1 .. Len(dir) + 1 |-> SubSeq(dir, 1, Len(dir) + 1 - i)]

IsDir(t, dir) == \E f \in t.files : IsStrictPrefix(dir, f.at)
FirstOf(s, Test(_)) == LET i == SelectInSeq(s, Test)
                       IN  IF i = 0 THEN None ELSE s[i]
Probe(t, at, exts) ==
  FirstOf([i \in DOMAIN exts |-> File(at, exts[i])], LAMBDA f : f \in t.files)

----------------------------------------------------------------------------
(* The search inside a directory.  An error (a package.json that does not  *)
(* parse) and "not found" are the same to every caller.                    *)

FindTheClosestPackageScope(t, dir) ==
  SelectInSeq(Ancestors(dir), LAMBDA d : d \in DOMAIN t.json)
ScopeOf(t, dir) == Ancestors(dir)[FindTheClosestPackageScope(t, dir)]
ScopeParses(t, dir) ==
  FindTheClosestPackageScope(t, dir) # 0 => t.json[ScopeOf(t, dir)].ok

(* No file of the model has two extensions.                                *)
LoadAsFile(t, f) ==
  LET g == Probe(t, f.at, Supported)
  IN  CASE f \in t.files -> f
        [] f \notin t.files /\ f.ext # "" -> None
        [] OTHER -> IF g # None THEN IF ScopeParses(t, f.at) THEN g ELSE None
                    ELSE Probe(t, f.at, <<".json">>)

LoadIndex(t, f) ==
  LET g == Probe(t, f.at \o <<"index">>, Supported)
  IN  CASE f.ext # "" -> None
        [] f.ext = "" /\ g # None -> IF ScopeParses(t, f.at) THEN g ELSE None
        [] OTHER -> Probe(t, f.at \o <<"index">>, <<".json">>)

(* A "main" that leads nowhere ends the search of the directory.           *)
LoadAsDirectory(t, f) ==
  IF f.ext # "" \/ f.at \notin DOMAIN t.json THEN LoadIndex(t, f)
  ELSE LET j == t.json[f.at]
           m == Under(f.at, j.main)
       IN  CASE ~j.ok -> None
             [] j.ok /\ j.main # None -> Or(LoadAsFile(t, m), LoadIndex(t, m))
             [] OTHER -> LoadIndex(t, f)

(* A target that is not there is answered all the same.                    *)
CorrectExtensions(t, f) ==
  LET base == IF IsDir(t, f.at) THEN f.at \o <<"index">> ELSE f.at
  IN  IF f \in t.files \/ f.ext # "" THEN f ELSE Or(Probe(t, base, JsExts), f)

----------------------------------------------------------------------------
(* package.json                                                            *)

NoMap == [k \in {} |-> None]
Json == [ok |-> TRUE, type |-> "", name |-> "", main |-> None, module |-> None,
         platform |-> None, exports |-> NoMap, imports |-> NoMap]

(* The name below a package, as "exports" spells it.                       *)
NameOf(sub) == CASE sub = <<>> -> "."
                 [] Len(sub) = 1 -> sub[1]
                 [] OTHER -> "d/s"
Wildcard == "d/*"
Star(f, sub) == [f EXCEPT !.at = [i \in DOMAIN @ |-> IF @[i] = "*" THEN Last(sub) ELSE @[i]]]

ExportKeys(name, ident) ==
  << <<name, Platform, ident>>, <<name, ident, "default">>, <<name, Platform>>,
     <<name, ident>>, <<name, "default">> >>

(* The pattern is only tried for a name in a directory of the package.     *)
PackageExportsResolve(j, sub, esm) ==
  LET ident == IF esm THEN "import" ELSE "require"
      keys == ExportKeys(NameOf(sub), ident)
              \o (IF Len(sub) = 2 THEN ExportKeys(Wildcard, ident) ELSE <<>>)
              \o << <<ident, "default">>, <<ident>> >>
              \o (IF esm THEN <<>> ELSE << <<"default">> >>)
      i == SelectInSeq(keys, LAMBDA k : k \in DOMAIN j.exports)
      cjs == j.type # "module"
  IN  CASE i # 0 -> [f |-> IF keys[i][1] = Wildcard THEN Star(j.exports[keys[i]], sub)
                           ELSE j.exports[keys[i]], cjs |-> cjs]
        [] i = 0 /\ j.platform # None -> [f |-> j.platform, cjs |-> cjs]
        [] i = 0 /\ j.platform = None /\ esm /\ j.module # None ->
             [f |-> j.module, cjs |-> FALSE]
        [] OTHER -> IF j.main # None THEN [f |-> j.main, cjs |-> cjs]
                    ELSE [f |-> File(<<"index">>, ".js"), cjs |-> TRUE]

PackageImportsResolve(j, x) ==
  LET keys == << <<x, Platform>>, <<x, "require">>, <<x, "module-sync">>,
                 <<x, "default">>, <<x>> >>
      i == SelectInSeq(keys, LAMBDA k : k \in DOMAIN j.imports)
  IN  IF i = 0 THEN None ELSE j.imports[keys[i]]

----------------------------------------------------------------------------
(* The searches for packages.  An answer tells whether a static import has *)
(* to go through require().                                                *)

Answer(f, cjs) == [f |-> f, cjs |-> cjs]
NoAnswer == Answer(None, FALSE)
Else(a, b) == IF a # NoAnswer THEN a ELSE b

LoadPackageImports(t, x, dir) ==
  IF FindTheClosestPackageScope(t, dir) = 0 \/ ~ScopeParses(t, dir) THEN NoAnswer
  ELSE LET f == PackageImportsResolve(t.json[ScopeOf(t, dir)], x)
       IN  IF f = None THEN NoAnswer
           ELSE Answer(CorrectExtensions(t, Under(ScopeOf(t, dir), f)), FALSE)

(* The longest beginning of x that has a package.json, or all of x.  A     *)
(* file of that name comes before what "exports" says.                     *)
LoadPackageExports(t, x, dir, esm) ==
  LET heads == {i \in 1 .. Len(x) - 1 : dir \o SubSeq(x, 1, i) \in DOMAIN t.json}
      n == IF heads = {} THEN Len(x) ELSE CHOOSE i \in heads : \A k \in heads : k <= i
      scope == dir \o SubSeq(x, 1, n)
      file == Probe(t, dir \o x, JsExts)
      j == t.json[scope]
      e == PackageExportsResolve(j, SubSeq(x, n + 1, Len(x)), esm)
  IN  CASE file.ext = ".mjs" -> Answer(file, FALSE)
        [] file.ext # ".mjs" /\ (scope \notin DOMAIN t.json \/ ~j.ok) -> NoAnswer
        [] OTHER -> IF file # None THEN Answer(file, esm /\ j.type # "module")
                    ELSE Answer(CorrectExtensions(t, Under(scope, e.f)), esm /\ e.cjs)

LoadPackageSelf(t, x, dir, esm) ==
  IF FindTheClosestPackageScope(t, dir) = 0 \/ ~ScopeParses(t, dir) THEN NoAnswer
  ELSE LET scope == ScopeOf(t, dir)
           j == t.json[scope]
           e == PackageExportsResolve(j, Tail(x), esm)
       IN  IF j.exports = NoMap \/ j.name # x[1] THEN NoAnswer
           ELSE Answer(CorrectExtensions(t, Under(scope, e.f)), FALSE)

SearchDir(t, dir, x, esm) ==
  Else(LoadPackageExports(t, x, dir, esm),
       Answer(Or(LoadAsFile(t, File(dir \o x, "")),
                 LoadAsDirectory(t, File(dir \o x, ""))), FALSE))

----------------------------------------------------------------------------
(* The cache: for a directory the list that was found from some directory  *)
(* at or below it, or that there is nothing at or above it.                *)

Known(list) == [some |-> TRUE, list |-> list]
Nothing == [some |-> FALSE, list |-> <<>>]

HasModules(t, dir) == dir # <<>> /\ Last(dir) # N /\ IsDir(t, dir \o <<N>>)
ModulesOf(dirs) == [i \in DOMAIN dirs |-> Append(dirs[i], N)]

(* The way up from a directory ends at the first one that is cached.       *)
Hit(cache, start) == SelectInSeq(Ancestors(start), LAMBDA d : d \in DOMAIN cache)
Walked(cache, start) ==
  IF Hit(cache, start) = 0 THEN Ancestors(start)
  ELSE SubSeq(Ancestors(start), 1, Hit(cache, start) - 1)
Results(t, cache, start) ==
  ModulesOf(SelectSeq(Walked(cache, start), LAMBDA d : HasModules(t, d)))
    \o (IF Hit(cache, start) = 0 THEN <<>>
        ELSE cache[Ancestors(start)[Hit(cache, start)]].list)
LastFound(t, cache, start) ==
  LET found == {i \in DOMAIN Ancestors(start) : HasModules(t, Ancestors(start)[i])}
  IN  IF Hit(cache, start) # 0 THEN Hit(cache, start)
      ELSE IF found = {} THEN 1 ELSE CHOOSE i \in found : \A k \in found : k <= i

(* Planted fault: the entry that ends the search is put where the last     *)
(* node_modules was found.                                                 *)
CacheAfterFault(t, cache, start) ==
  LET up == Walked(cache, start)
      last == LastFound(t, cache, start)
      new == {i \in DOMAIN up : i <= last}
  IN  [d \in DOMAIN cache \cup {up[i] : i \in new} |->
         IF d \in DOMAIN cache THEN cache[d]
         ELSE IF d = Ancestors(start)[last] THEN Nothing
         ELSE Known(Results(t, cache, start))]

(* Every directory up to the last one that counted gets the whole list,    *)
(* the next one the entry that ends a search.                              *)
CacheAfter(t, cache, start) ==
  LET up == Walked(cache, start)
      last == LastFound(t, cache, start)
      new == {i \in DOMAIN up : i <= last + 1}
  IN  [d \in DOMAIN cache \cup {up[i] : i \in new} |->
         IF d \in DOMAIN cache THEN cache[d]
         ELSE IF d \in {up[i] : i \in {k \in new : k <= last}}
              THEN Known(Results(t, cache, start))
         ELSE Nothing]

(* HOME_NODE_MODULES is read once.                                         *)
LoadNodeModules(t, dirs, x, esm) ==
  LET all == dirs \o t.home
      i == SelectInSeq(all, LAMBDA d : SearchDir(t, d, x, esm) # NoAnswer)
  IN  IF i = 0 THEN NoAnswer ELSE SearchDir(t, all[i], x, esm)

----------------------------------------------------------------------------
Base(dir, x) == CASE x.kind = "here" -> dir \o x.at
                  [] x.kind = "up" -> Parent(dir) \o x.at
                  [] x.kind = "abs" -> x.at
                  [] OTHER -> dir \o x.at

(* The first test takes x as a path from the working directory.            *)
FileExists(t, x) ==
  LET f == File(Base(t.cwd, x), x.ext)
  IN  IF x.ext \in Range(Supported) /\ f \in t.files THEN f ELSE None

Relative(t, x, y) ==
  LET f == File(Base(y, x), x.ext)
  IN  Answer(Or(LoadAsFile(t, f), LoadAsDirectory(t, f)), FALSE)

(* Steps 3 to 7 for a module in directory y.                               *)
RequireResolveFrom(t, x, y, esm, dirs) ==
  IF x.kind \in {"here", "up", "abs"} THEN Relative(t, x, y)
  ELSE Else(IF x.kind = "hash" THEN LoadPackageImports(t, x.at[1], y) ELSE NoAnswer,
       Else(LoadPackageSelf(t, x.at, y, esm),
       Else(LoadNodeModules(t, dirs, x.at, esm),
            Answer(LoadAsFile(t, File(Base(t.cwd, x), x.ext)), FALSE))))

(* load_node_modules() is reached when nothing before it answers.          *)
Reaches(t, x, y, esm) ==
  /\ x.kind \in {"bare", "hash"}
  /\ x.kind = "hash" => LoadPackageImports(t, x.at[1], y) = NoAnswer
  /\ LoadPackageSelf(t, x.at, y, esm) = NoAnswer

----------------------------------------------------------------------------
(* The directories of the program and of a package it uses, and the file   *)
(* systems: one package "q" in several node_modules, or of several shapes  *)
(* in one of them.                                                         *)

A == <<"a">>
AB == <<"a", "b">>
AD == <<"a", "d">>
AP == <<"a", N, "p">>
Starts == {A, AB, AD, AP}
Program == {File(d \o <<"main">>, ".js") : d \in Starts}

QIn(dir, how) ==
  LET q == dir \o <<N, "q">>
  IN  CASE how = "none" -> {}
        [] how = "empty" -> {File(dir \o <<N, "other">>, ".js")}
        [] how = "file" -> {File(q, ".js")}
        [] OTHER -> {File(q \o <<"package">>, ".json"), File(q \o <<"index">>, ".js")}

Ask(kind, at, ext) == [kind |-> kind, at |-> at, ext |-> ext]
Bare(at) == Ask("bare", at, "")
Tree(files, json, cwd, asks, ways) ==
  [files |-> files, json |-> json, cwd |-> cwd, home |-> <<>>, asks |-> asks \X ways]

Spread ==
  {Tree(Program \cup UNION {QIn(d, has[d]) : d \in Starts},
        [d \in {s \o <<N, "q">> : s \in {s \in Starts : has[s] = "package"}} |-> Json],
        A, {Bare(<<"q">>)}, {FALSE}) :
     has \in [Starts -> {"none", "empty", "file", "package"}]}

(* The package.json of "q" and the files of "q".                           *)
Lib == File(<<"lib">>, "")
LibJs == File(<<"lib">>, ".js")
InDir == File(<<"d", "s">>, ".js")
Exports(keys, f) == [Json EXCEPT !.exports = [k \in keys |-> f], !.main = Lib]
Shapes ==
  { Json, [Json EXCEPT !.ok = FALSE], [Json EXCEPT !.main = Lib],
    [Json EXCEPT !.main = LibJs, !.type = "module"],
    [Json EXCEPT !.main = Lib, !.module = InDir], [Json EXCEPT !.platform = InDir],
    Exports({<<".", "import">>, <<"sub", "default">>}, InDir),
    Exports({<<".", Platform, "require">>, <<"d/s", "import", "default">>}, LibJs),
    Exports({<<Wildcard, "default">>, <<"require">>}, File(<<"d", "*">>, ".js")),
    Exports({<<"import", "default">>, <<"default">>}, InDir) }
Contents == { {}, {LibJs, File(<<"sub">>, ".mjs")}, {InDir, File(<<"index">>, ".cjs")},
              {LibJs, InDir, File(<<"sub">>, ".js"), File(<<"lib", "index">>, ".js")} }
Shaped ==
  {Tree(Program \cup {Under(A \o <<N, "q">>, f) : f \in {File(<<"package">>, ".json")} \cup files},
        [d \in {A \o <<N, "q">>} |-> j], A,
        {Bare(<<"q">>), Bare(<<"q", "sub">>), Bare(<<"q", "d", "s">>)}, BOOLEAN) :
     j \in Shapes, files \in Contents}

(* The program's own files, and its own package.json.                      *)
M == <<"m">>
OwnFiles == {File(A \o M, ".js"), File(AB \o M, ".js"), File(AB \o M, ".json"),
             File(AB \o M \o <<"index">>, ".js")}
Own == { Json, [Json EXCEPT !.ok = FALSE],
         [Json EXCEPT !.name = "q", !.exports = [k \in {<<".", "default">>} |-> File(M, "")]],
         [Json EXCEPT !.imports = [k \in {<<"#i", "require">>, <<"#i">>} |-> File(M, "")]] }
Local ==
  {Tree(Program \cup files \cup {File(A \o <<"package">>, ".json")}, [d \in {A} |-> j], cwd,
        {Ask("here", M, ""), Ask("here", M, ".js"), Ask("up", M, ""), Ask("up", M, ".js"),
         Ask("abs", AB \o M, ""), Ask("hash", <<"#i">>, ""), Bare(<<"q">>), Bare(M)}, {FALSE}) :
     files \in SUBSET OwnFiles, j \in Own, cwd \in {A, AB}}

NoLast == [got |-> NoAnswer, ref |-> NoAnswer, from |-> <<>>, dirs |-> <<>>, quick |-> FALSE]

Init ==
  \E t \in Spread \cup Shaped \cup Local :
    r = [tree |-> t, cache |-> [d \in {} |-> Nothing], last |-> NoLast,
         installed |-> 0, late |-> {}]

(* What the list for a directory should be.                                *)
NodeModulesPaths(t, start) ==
  ModulesOf(SelectSeq(Ancestors(start), LAMBDA d : HasModules(t, d)))

(* A hook (the embedded bytecode) that knows x would answer before all of  *)
(* this; the model has none.                                               *)
RequireResolve(x, y, esm) ==
  LET t == r.tree
      quick == FileExists(t, x)
      dirs == Results(t, r.cache, y)
      got == IF quick # None THEN Answer(quick, FALSE)
             ELSE RequireResolveFrom(t, x, y, esm, dirs)
      walks == quick = None /\ Reaches(t, x, y, esm)
  IN  r' = [r EXCEPT
             !.cache = IF walks THEN CacheAfter(t, @, y) ELSE @,
             !.last = [got |-> got, from |-> y, quick |-> quick # None,
                       dirs |-> IF walks THEN dirs ELSE <<>>,
                       ref |-> RequireResolveFrom(t, x, y, esm, NodeModulesPaths(t, y))]]

Resolve ==
  /\ r.last = NoLast
  /\ \E ask \in r.tree.asks, y \in Starts : RequireResolve(ask[1], y, ask[2])

(* The caller takes the answer.                                            *)
Returns == r.last # NoLast /\ r' = [r EXCEPT !.last = NoLast]

(* A package manager puts "q" below a directory while the program runs.    *)
Install(d) ==
  /\ r.last = NoLast
  /\ r.tree.asks = {Bare(<<"q">>)} \X {FALSE}
  /\ r.installed < MaxInstalls
  /\ ~\E f \in r.tree.files : IsPrefix(d \o <<N, "q">>, f.at)
  /\ r' = [r EXCEPT !.tree.files = @ \cup QIn(d, "file"), !.last = NoLast,
                    !.installed = @ + 1,
                    !.late = IF HasModules(r.tree, d) THEN @ ELSE @ \cup {d}]

Next == Resolve \/ Returns \/ \E d \in Starts : Install(d)

Spec == Init /\ [][Next]_r

----------------------------------------------------------------------------
TypeOK ==
  /\ r.installed \in 0 .. MaxInstalls /\ r.late \subseteq Starts
  /\ \A d \in DOMAIN r.cache : r.cache[d].some \/ r.cache[d].list = <<>>

InModules(f, d) == IsPrefix(d \o <<N>>, f.at)
Foreign(dirs, y) == {i \in DOMAIN dirs : ~IsPrefix(Parent(dirs[i]), y)}

(* The cache of node_modules directories changes no answer of              *)
(* require_resolve(), whatever was resolved before and from where: the     *)
(* file is the one a walk up from the module's own directory finds.  The   *)
(* answers that differ are told apart exactly: x is the name of a file of  *)
(* the working directory (the test before step 2), the file lies in a      *)
(* node_modules that is not above the module (an ancestor is given the     *)
(* list of the directory below it), or the right one lies in a             *)
(* node_modules made after the directory was cached.  What is answered is  *)
(* a file that is there or one its package.json names.                     *)
CacheIsTransparent ==
  LET l == r.last
  IN  /\ TypeOK
      /\ \/ l.got = l.ref
         \/ l.quick
         \/ \E i \in Foreign(l.dirs, l.from) : IsPrefix(l.dirs[i], l.got.f.at)
         \/ \E d \in r.late : InModules(l.ref.f, d)
      /\ \/ l.got.f \in r.tree.files \cup {None}
         \/ \E d \in DOMAIN r.tree.json : IsStrictPrefix(d, l.got.f.at)

(* load_node_modules() step 1, "let DIRS = NODE_MODULES_PATHS(START)": the *)
(* directories searched for a module lie on the way up from it.            *)
SearchesItsOwnPaths == Foreign(r.last.dirs, r.last.from) = {}
============================================================================
