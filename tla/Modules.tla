------------------------------ MODULE Modules ------------------------------
(***************************************************************************)
(* A developer edits the modules of a program and compiles it again and      *)
(* again in one process: build, check and analysis share the cache of stage   *)
(* results.  What a module may name, and what each name stands for, is        *)
(* defined here from the sources alone; the linked program, the errors and    *)
(* the editor's analysis are held against it.                                *)
(***************************************************************************)
EXTENDS ModuleBuild

CONSTANTS Families,   \* the projects that are edited
          MaxEdits    \* edits of a project

VARIABLES
  family,    \* the project
  sources,   \* its modules as they are now
  edits,     \* how often they were edited
  cache,     \* the stage cache of the process
  last       \* the last operation: [op, sources, err, program, modules, diagnostics]

vars == <<family, sources, edits, cache, last>>
-----------------------------------------------------------------------------
(* What names stand for: sets of declarations, empty for a name that is not   *)
(* in scope.                                                                 *)

Decl(k, path, name) == [k |-> k, path |-> path, name |-> name]
Imports(src) == ItemSet(src, "import")
WholeImports(src) == {i \in Imports(src) : i.whole}
LetNames(src) == UNION {Range(x.names) : x \in ItemSet(src, "let")}

Declared(ss, p, n) ==
  {Decl("fn", p, n) : f \in {g \in ItemSet(ss[p], "fn") : g.name = n}}
    \union {Decl("value", p, n) : m \in {n} \cap LetNames(ss[p])}

Exported(ss, p, n) ==
  {Decl("fn", p, n) : f \in {g \in Visible(ss[p], "fn") : g.name = n}}
    \union {Decl("value", p, n) : x \in {y \in Visible(ss[p], "let") : n \in Range(y.names)}}

Preludes(ss) == Range(PreludePaths) \cap DOMAIN ss
BuiltinFunctions(ss, n) ==
  {Decl("intrinsic", "", m) : m \in {n} \cap DOMAIN Builtins}
    \union {Decl("fn", q, n[2]) :
              q \in {r \in Preludes(ss) : n[1] = "Vector" /\
                       \E f \in Visible(ss[r], "fn") : f.name = n[2] /\ f.recv = <<"Vector">>}}

HostFunctions(ss, p, n) ==
  {Decl("extern", "", n) :
     x \in {y \in ItemSet(ss[p], "extern")
                  \union UNION {Visible(ss[i.mod], "extern") : i \in WholeImports(ss[p])} :
              <<y.host, y.name>> = n}}

Denoted(ss, p, n) ==
  IF Len(n) = 1
  THEN IF Declared(ss, p, n[1]) # {} THEN Declared(ss, p, n[1])
       ELSE UNION {UNION {Exported(ss, i.mod, i.items[k].name) :
                            k \in {j \in DOMAIN i.items : i.items[j].as = n[1] /\ ~i.items[j].type}} :
                     i \in Imports(ss[p])}
  ELSE UNION {Exported(ss, i.mod, n[2]) : i \in {j \in WholeImports(ss[p]) : j.alias = n[1]}}
         \union HostFunctions(ss, p, n) \union BuiltinFunctions(ss, n)

BuiltinType == <<"", "Vector">>
TypeExported(ss, p, n) == {<<p, n>> : t \in {u \in Visible(ss[p], "type") : u.name = n}}

TypeDenoted(ss, p, n) ==
  IF n = <<"Vector">> THEN {BuiltinType}
  ELSE IF Len(n) = 1
  THEN {<<p, n[1]>> : t \in {u \in ItemSet(ss[p], "type") : u.name = n[1]}}
         \union UNION {UNION {TypeExported(ss, i.mod, i.items[k].name) :
                                k \in {j \in DOMAIN i.items : i.items[j].as = n[1] /\ i.items[j].type}} :
                         i \in Imports(ss[p])}
  ELSE UNION {TypeExported(ss, i.mod, n[2]) : i \in {j \in WholeImports(ss[p]) : j.alias = n[1]}}

FnItem(ss, d) == CHOOSE f \in ItemSet(ss[d.path], "fn") : f.name = d.name

ReceiverDenoted(ss, p, ref) ==
  IF ref.name = <<"Vector">> THEN {BuiltinType}
  ELSE UNION {IF d.k = "fn" /\ FnItem(ss, d).ret # <<>> THEN TypeDenoted(ss, d.path, FnItem(ss, d).ret) ELSE {} :
                d \in Denoted(ss, p, ref.name)}

MethodsOf(ss, p, ty, m) ==
  IF ty = BuiltinType THEN BuiltinFunctions(ss, <<"Vector", m>>)
  ELSE {Decl("fn", ty[1], m) :
          f \in {g \in ItemSet(ss[ty[1]], "fn") :
                   /\ g.name = m /\ g.recv # <<>> /\ ty \in TypeDenoted(ss, ty[1], g.recv)
                   /\ p = ty[1] \/ (g.pub /\ TypeExported(ss, ty[1], ty[2]) # {})}}

RefDenoted(ss, p, ref) ==
  IF ref.k = "name" THEN Denoted(ss, p, ref.name)
  ELSE UNION {MethodsOf(ss, p, ty, ref.method) : ty \in ReceiverDenoted(ss, p, ref)}
-----------------------------------------------------------------------------
(* Programs that must compile.                                               *)

Needs(ss, p) ==
  {i.mod : i \in Imports(ss[p])} \union (IF p \in Internal THEN {} ELSE Preludes(ss))

RECURSIVE NeededBy(_, _)
NeededBy(ss, ps) ==
  LET more == ps \union UNION {Needs(ss, p) \cap DOMAIN ss : p \in ps}
  IN IF more = ps THEN ps ELSE NeededBy(ss, more)

Program(ss) == NeededBy(ss, {"Main"})

WellScoped(ss, p) ==
  LET src == ss[p]
  IN /\ ~Duplicates(src)
     /\ \A i \in Imports(src) : \A k \in DOMAIN i.items :
          (IF i.items[k].type THEN TypeExported(ss, i.mod, i.items[k].name)
           ELSE Exported(ss, i.mod, i.items[k].name)) # {}
     /\ \A f \in ItemSet(src, "fn") : \A n \in {f.recv, f.ret} \ {<<>>} : TypeDenoted(ss, p, n) # {}
     /\ \A i \in DOMAIN src : \A j \in DOMAIN RefsOf(src[i]) : RefDenoted(ss, p, RefsOf(src[i])[j]) # {}

WellFormed(ss) ==
  LET ps == Program(ss)
  IN /\ \A p \in ps : parse_source_module(ss[p]) /\ Needs(ss, p) \subseteq DOMAIN ss
     /\ \A p \in ps : p \notin NeededBy(ss, Needs(ss, p))
     /\ \A p \in ps : WellScoped(ss, p)
-----------------------------------------------------------------------------
(* Projects.  What a module may be edited to is listed after what it is at    *)
(* first.                                                                    *)

Item(n) == [name |-> n, as |-> n, type |-> FALSE]
ItemAs(n, as) == [name |-> n, as |-> as, type |-> FALSE]
TypeAs(n, as) == [name |-> n, as |-> as, type |-> TRUE]
Plain(name, pub, refs) == Fn(name, pub, <<>>, <<>>, refs)

(* Main sees C through A and B; C's type travels to Main as A's result.       *)
DiamondC ==
  LET make == Fn("make", TRUE, <<>>, <<"T">>, <<>>)
      get == Fn("get", TRUE, <<"T">>, <<>>, <<Ref(<<"help">>)>>)
      help == Plain("help", FALSE, <<Ref(<<"limit">>)>>)
      limit == Let("limit", TRUE, <<>>)
      T == TypeDecl("T", TRUE)
  IN <<<<T, make, get, help, limit>>,
       <<Let("first", FALSE, <<>>), limit, help, TypeDecl("Other", FALSE), T, get, make>>,
       <<T, make, [get EXCEPT !.pub = FALSE], help, limit>>>>

DiamondA ==
  LET c == Import("C", "c")
      mk == Fn("mk", TRUE, <<>>, <<"c", "T">>, <<Ref(<<"c", "make">>)>>)
      a == Let("a", TRUE, <<Ref(<<"c", "limit">>)>>)
      dead == Plain("dead", FALSE, <<Ref(<<"mk">>)>>)
  IN <<<<c, mk, a>>,
       <<c, TypeDecl("T", FALSE), dead, a, Let("b", FALSE, <<Ref(<<"a">>), MethodOf(<<"mk">>, "get")>>), mk>>,
       <<c, Import("B", "b"), mk, a, Do(<<Ref(<<"b", "use">>)>>)>>,
       <<c, TypeDecl("T", TRUE), Fn("get", TRUE, <<"T">>, <<>>, <<>>), [mk EXCEPT !.ret = <<"T">>], a>>>>

DiamondB ==
  LET items == ImportItems("C", "c", <<ItemAs("make", "build"), TypeAs("T", "U"), Item("limit")>>)
      use == Fn("use", TRUE, <<>>, <<>>, <<MethodOf(<<"build">>, "get"), Ref(<<"limit">>)>>)
      get == Fn("get", TRUE, <<"W">>, <<>>, <<>>)
  IN <<<<items, TypeDecl("W", TRUE), get, use>>,
       <<items, GenericFn("spare", <<Ref(<<"limit">>)>>), use, Do(<<Ref(<<"use">>)>>)>>,
       <<items, Import("A", "a"), use>>,
       <<use>>,
       <<Garbage>>>>

DiamondMain ==
  LET ab == <<Import("A", "a"), Import("B", "b")>>
      run == Plain("run", FALSE, <<MethodOf(<<"a", "mk">>, "get"), Ref(<<"a", "a">>), Ref(<<"b", "use">>)>>)
      go == Do(<<Ref(<<"run">>)>>)
  IN <<ab \o <<run, go>>,
       ab \o <<TypeDecl("T", FALSE), Let("z", FALSE, <<Ref(<<"b", "use">>)>>), go, run>>,
       ab \o <<run, Do(<<Ref(<<"c", "make">>)>>)>>,
       ab \o <<go, Plain("run", FALSE, <<Ref(<<"build">>)>>)>>,
       <<Import("A", "a"), Import("D", "d"), run>>>>

(* Prelude modules P and Q add methods to vectors; P needs the library        *)
(* module S, and S calls a prelude method.                                   *)
PreludeP == <<<<Import("S", "S"), Fn("map", TRUE, <<"Vector">>, <<>>, <<Ref(<<"S", "view">>)>>),
                Fn("fold", TRUE, <<"Vector">>, <<>>, <<Ref(<<"map">>), MethodOf(<<"Vector">>, "zip")>>)>>>>
PreludeQ == <<<<Fn("unused", TRUE, <<"Vector">>, <<>>, <<>>),
                Fn("zip", TRUE, <<"Vector">>, <<>>, <<MethodOf(<<"Vector">>, "len")>>)>>>>
PreludeS ==
  LET view == Fn("view", TRUE, <<>>, <<>>, <<MethodOf(<<"Vector">>, "fold")>>)
  IN <<<<view>>, <<Let("depth", TRUE, <<>>), Plain("inner", FALSE, <<Ref(<<"depth">>)>>), view>>,
       <<view, Do(<<Ref(<<"Vector", "none">>)>>)>>>>
PreludeMain ==
  LET host == Extern("console", "log", TRUE)
  IN <<<<host, Import("S", "S"), Do(<<MethodOf(<<"Vector">>, "map"), Ref(<<"Vector", "zip">>),
                                      Ref(<<"console", "log">>), Ref(<<"S", "view">>)>>)>>,
       <<Import("A", "a"), Do(<<Ref(<<"String", "get">>), Ref(<<"console", "log">>), Ref(<<"a", "f">>)>>)>>,
       <<Do(<<Ref(<<"__prelude_P", "map">>)>>)>>>>
PreludeA ==
  <<<<Extern("console", "log", TRUE), Plain("f", TRUE, <<Ref(<<"console", "log">>), MethodOf(<<"Vector">>, "fold")>>)>>,
    <<Plain("g", FALSE, <<>>), Extern("console", "log", TRUE), Import("S", "lib"),
      Plain("f", TRUE, <<Ref(<<"lib", "view">>)>>)>>>>

(* Modules for single questions.                                             *)
TupleA == <<<<LetTuple(<<"x", "y">>, <<>>), Let("pubz", TRUE, <<>>)>>>>
ValueMain == <<<<Import("A", "a"), Do(<<Ref(<<"a", "pubz">>)>>)>>>>

SwapMain == <<<<Import("A", "a"), Import("B", "b"), Import("C", "c"), Do(<<Ref(<<"c", "f">>)>>)>>,
              <<Import("B", "b"), Import("A", "a"), Import("C", "c"), Do(<<Ref(<<"c", "f">>)>>)>>>>
SwapC == <<<<Import("A", "a"), Import("B", "b"), Plain("f", TRUE, <<Ref(<<"a", "v">>)>>)>>>>
SwapLeaf == <<<<Let("v", TRUE, <<>>)>>>>

StemA == <<<<Import("B", "A"), Plain("g", TRUE, <<>>), Plain("f", TRUE, <<Ref(<<"g">>)>>)>>>>
StemB == <<<<Plain("f", TRUE, <<>>)>>>>
StemMain == <<<<Import("A", "A"), Do(<<Ref(<<"A", "f">>)>>)>>>>

AliasLeaf == <<<<TypeDecl("T", TRUE), Fn("make", TRUE, <<>>, <<"T">>, <<>>), Fn("get", TRUE, <<"T">>, <<>>, <<>>)>>>>
AliasUser(m) == <<<<Import(m, "util"), Fn("mk", TRUE, <<>>, <<"util", "T">>, <<Ref(<<"util", "make">>)>>)>>>>
AliasMain == <<<<Import("A", "a"), Import("B", "b"), Do(<<MethodOf(<<"a", "mk">>, "get")>>)>>>>

FailedA == <<<<TypeDecl("T", TRUE)>>>>
FailedB == <<<<Do(<<Ref(<<"nothing">>)>>)>>>>
FailedMain == <<<<Import("A", "a"), Import("B", "b"), TypeDecl("U", FALSE)>>>>

Projects ==
  [diamond |-> [A |-> DiamondA, B |-> DiamondB, C |-> DiamondC, Main |-> DiamondMain],
   prelude |-> [A |-> PreludeA, Main |-> PreludeMain, P |-> PreludeP, Q |-> PreludeQ, S |-> PreludeS],
   tuple |-> [A |-> TupleA, Main |-> ValueMain],
   swap |-> [A |-> SwapLeaf, B |-> SwapLeaf, C |-> SwapC, Main |-> SwapMain],
   stem |-> [A |-> StemA, B |-> StemB, Main |-> StemMain],
   alias |-> [A |-> AliasUser("C"), B |-> AliasUser("D"), C |-> AliasLeaf, D |-> AliasLeaf, Main |-> AliasMain],
   failed |-> [A |-> FailedA, B |-> FailedB, Main |-> FailedMain]]
-----------------------------------------------------------------------------
NoResult == [op |-> "none", sources |-> Empty, err |-> "", program |-> <<>>,
             modules |-> Empty, diagnostics |-> Empty]

Init ==
  /\ family \in Families
  /\ sources = [p \in DOMAIN Projects[family] |-> Projects[family][p][1]]
  /\ edits = 0 /\ cache = EmptyCache /\ last = NoResult

Edit ==
  /\ edits < MaxEdits
  /\ \E p \in DOMAIN sources : \E i \in DOMAIN Projects[family][p] :
       /\ sources[p] # Projects[family][p][i]
       /\ sources' = [sources EXCEPT ![p] = Projects[family][p][i]]
  /\ edits' = edits + 1
  /\ UNCHANGED <<family, cache, last>>

Entry(op, r) ==
  /\ cache' = r.cache
  /\ last' = [NoResult EXCEPT !.op = op, !.sources = sources, !.err = r.err, !.program = r.program]
  /\ UNCHANGED <<family, sources, edits>>

Build == Entry("build", compile_entry(sources, cache))
Check == Entry("check", check_entry(sources, cache))

Analysis(r) ==
  /\ cache' = r.cache
  /\ last' = [NoResult EXCEPT !.op = "analyze", !.sources = sources, !.modules = r.modules,
                              !.diagnostics = r.diagnostics]
  /\ UNCHANGED <<family, sources, edits>>

Analyze == Analysis(analyze_entry(sources, cache))

set_cache_puts_enabled ==
  /\ cache' = [cache EXCEPT !.puts = FALSE]
  /\ UNCHANGED <<family, sources, edits, last>>

reset_global_cache ==
  /\ cache' = EmptyCache
  /\ UNCHANGED <<family, sources, edits, last>>

Next == Edit \/ Build \/ Check \/ Analyze \/ set_cache_puts_enabled \/ reset_global_cache

Spec == Init /\ [][Next]_vars
-----------------------------------------------------------------------------
SourceRefs(ss, d) ==
  IF d[2] = "__init__" THEN FlattenSeq([i \in DOMAIN Statements(ss[d[1]]) |-> Statements(ss[d[1]])[i].refs])
  ELSE FnItem(ss, Decl("fn", d[1], d[2])).refs

Holders(prog, id) == {prog.functions[i].decl : i \in {j \in DOMAIN prog.functions : prog.functions[j].id = id}}
Slot(prog, d) ==
  LET inits == {i \in DOMAIN prog.functions : prog.functions[i].decl = <<d.path, "__init__">>}
  IN {prog.functions[i].slots[<<d.name>>] : i \in inits}

Reaches(prog, ref, d) ==
  CASE d.k = "fn" -> ref.k = "func" /\ Holders(prog, ref.id) = {<<d.path, d.name>>}
    [] d.k = "value" -> ref.k = "global" /\ Slot(prog, d) = {ref.id}
    [] d.k = "extern" -> ref.k = "func" /\ Holders(prog, ref.id) = {}
                         /\ \E x \in prog.externs : x.id = ref.id /\ x.name = d.name
    [] d.k = "intrinsic" -> ref.k = "func" /\ ref.id = Builtins[d.name] /\ Holders(prog, ref.id) = {}

Built == last.op = "build" /\ last.err = ""
Prog == last.program[1]

(* Every reference of the linked program is to the function, the host         *)
(* function, the intrinsic or the global slot that the name stands for in the *)
(* source: through exports, stand-ins of other modules, linking and           *)
(* renumbering (mod.rs, lower.rs:572-611, dce.rs).                            *)
LinksToDenoted ==
  Built => \A i \in DOMAIN Prog.functions :
    LET f == Prog.functions[i]
        refs == SourceRefs(last.sources, f.decl)
    IN /\ Len(refs) = Len(f.refs)
       /\ \A j \in DOMAIN refs :
            \A d \in RefDenoted(last.sources, f.decl[1], refs[j]) : Reaches(Prog, f.refs[j], d)

(* A build or a check succeeds exactly for a program whose imports exist and  *)
(* are not circular and whose names are all in scope: nothing leaks from one  *)
(* module into another through the shared environment                        *)
(* (env_integration.rs, cleanup_module_local_bindings) or the cache.         *)
AcceptsWellScoped ==
  last.op \in {"build", "check"} => (last.err = "" <=> WellFormed(last.sources))

(* A build in a process that has compiled earlier versions gives the program  *)
(* that a new process gives (query/cache.rs, the keys of query/keys.rs).      *)
CacheIsInvisible ==
  last.op = "build" => LET Agrees(r) == last.err = r.err /\ last.program = r.program
                       IN Agrees(compile_entry(last.sources, EmptyCache))

InitsFollowImports ==
  Built =>
    LET order == [i \in DOMAIN Prog.inits |-> CHOOSE d \in Holders(Prog, Prog.inits[i]) : TRUE]
        ss == last.sources
    IN /\ \A i \in DOMAIN order : order[i][2] = "__init__"
       /\ {order[i][1] : i \in DOMAIN order} = {p \in Program(ss) : Statements(ss[p]) # <<>>}
       /\ \A i, j \in DOMAIN order : i < j => /\ order[i] # order[j]
                                              /\ order[j][1] \notin NeededBy(ss, Needs(ss, order[i][1]))

RECURSIVE Used(_, _)
Used(ss, ds) ==
  LET more == ds \union UNION {UNION {{<<e.path, e.name>> : e \in {c \in RefDenoted(ss, d[1], SourceRefs(ss, d)[j]) :
                                                                    c.k = "fn"}} :
                                 j \in DOMAIN SourceRefs(ss, d)} : d \in ds}
  IN IF more = ds THEN ds ELSE Used(ss, more)

KeepsWhatIsUsed ==
  Built =>
    LET ss == last.sources
        roots == {<<p, "__init__">> : p \in {q \in Program(ss) : Statements(ss[q]) # <<>>}}
                 \union UNION {{<<p, f.name>> : f \in {g \in ItemSet(ss[p], "fn") : g.generic}} : p \in Program(ss)}
        ids == [i \in DOMAIN Prog.functions |-> Prog.functions[i].id]
    IN /\ {Prog.functions[i].decl : i \in DOMAIN Prog.functions} = Used(ss, roots)
       /\ \A i, j \in DOMAIN ids : i # j => ids[i] # ids[j]
       /\ SparseId \notin Range(ids)
       /\ {x.name : x \in Prog.externs} =
            UNION {{<<x.host, x.name>> : x \in ItemSet(ss[p], "extern")} : p \in Program(ss)}

(* A linked program is whole: every module with top-level statements is       *)
(* initialised once, after the modules it imports (topo_sort_modules,         *)
(* all_init_func_ids), and dead-code elimination keeps exactly what the       *)
(* initialisers and the generic functions use, each under an id of its own,   *)
(* and every host import (dce.rs:24-142).                                    *)
ProgramIsWhole == InitsFollowImports /\ KeepsWhatIsUsed

(* The dependency graph of the cache knows every edge from both ends, over    *)
(* any order of builds, edits and invalidations, and keeps no empty entry    *)
(* (query/graph.rs).                                                         *)
GraphIsInverse ==
  /\ \A p \in DOMAIN cache.forward : \A d \in cache.forward[p] :
       d \in DOMAIN cache.reverse /\ p \in cache.reverse[d]
  /\ \A d \in DOMAIN cache.reverse : cache.reverse[d] # {} /\ \A p \in cache.reverse[d] :
       p \in DOMAIN cache.forward /\ d \in cache.forward[p]

TypesKept(ss) ==
  \A p \in DOMAIN last.modules : \A n \in DOMAIN last.modules[p].type_names :
    LET env == last.modules[p]
        def == env.types[env.type_names[n]]
    IN \A ty \in TypeDenoted(ss, p, n) : ty = BuiltinType \/ ty = <<def.owner, def.name>>

(* A program without errors is analysed whole and without diagnostics, and in *)
(* the analysis a type name of a module is the type declared under it: type   *)
(* ids are never given out twice (restore_bindings keeps the definitions of   *)
(* compiled modules).                                                        *)
AnalysisKeepsTypes ==
  last.op = "analyze" /\ WellFormed(last.sources) =>
    /\ last.diagnostics = Empty /\ DOMAIN last.modules = Program(last.sources)
    /\ TypesKept(last.sources)

(* The same of a module that was analysed in a program where other modules    *)
(* have errors: an analysis goes on after a dependency that failed            *)
(* (mod.rs:971-976).                                                         *)
FailureKeepsTypes == last.op = "analyze" => TypesKept(last.sources)
=============================================================================
