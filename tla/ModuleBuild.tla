---------------------------- MODULE ModuleBuild ----------------------------
(***************************************************************************)
(* Compiling the modules of a program (src/src/module/mod.rs with planner.rs, *)
(* stage_runner.rs, dce.rs, and src/src/query): dependencies first, each      *)
(* stage answered from the cache of earlier builds when its key is there,     *)
(* then linking and dead-code elimination.                                   *)
(*                                                                          *)
(* A build is one value w threaded through the recursion of                  *)
(* compile_module_with_adapter: the compile state st, the exports of finished *)
(* modules, the stage cache, the stack of modules being compiled, what the   *)
(* analysis collects, and the error that stopped it ("" when none did).      *)
(* 64-bit hashes are taken to be collision free: a hash is what was hashed.  *)
(***************************************************************************)
EXTENDS ModuleEnv

(* Paths in the order of their names; the prelude and the standard library.  *)
PathOrder == <<"A", "B", "C", "D", "Main", "P", "Q", "S">>
PreludePaths == <<"P", "Q">>
Internal == {"P", "Q", "S"}
Stem == [p \in Range(PathOrder) |-> IF p = "Main" THEN "main" ELSE p]
PreludeAlias == [p \in Range(PreludePaths) |-> IF p = "P" THEN "__prelude_P" ELSE "__prelude_Q"]
Rank(p) == CHOOSE i \in DOMAIN PathOrder : PathOrder[i] = p

(* The n-th FuncId a linked program hands out: the sparse intrinsic is left   *)
(* out.                                                                      *)
NthGlobal(n) == LET id == UserFuncStart + n - 1 IN IF id < SparseId THEN id ELSE id + 1

(* The members of a finite set in the order of their keys.                   *)
Sorted(s, Key(_)) == [n \in 1..Cardinality(s) |-> CHOOSE x \in s : Cardinality({y \in s : Key(y) < Key(x)}) = n - 1]
Ascending(s) == LET Self(n) == n IN Sorted(s, Self)
-----------------------------------------------------------------------------
(* Stages of one module.  Each answers [ok, env] and what else it makes.     *)

parse_source_module(src) == \A i \in DOMAIN src : src[i].k # "garbage"

Duplicates(src) ==
  \E i, j \in DOMAIN src :
    /\ i < j /\ src[i].k = src[j].k
    /\ src[i].k \in {"type", "fn", "extern"} /\ src[i].name = src[j].name

resolve_type_references(env, src, path) ==
  FoldLeft(LAMBDA e, t :
             [e EXCEPT !.types = Append(@, [name |-> t.name, owner |-> path]),
                       !.type_names = Put(@, <<t.name>>, Len(e.types) + 1)],
           env, Items(src, "type"))

TypeNamed(env, name) == IF name = <<>> THEN NoType ELSE env.type_names[name]

(* The types a module declares itself own the methods it declares; internal   *)
(* modules may add methods to builtin types.                                 *)
OwnTypes(env, src) == {env.type_names[<<t.name>>] : t \in ItemSet(src, "type")}
IsMethod(sig, own, internal) == sig.recv # NoType /\ (sig.recv \in own \/ internal)

resolve_function_signatures(env, src, own, internal) ==
  FoldLeft(LAMBDA e, f :
             LET sig == Sig(TypeNamed(e, f.recv), TypeNamed(e, f.ret), FALSE)
                 with == IF IsMethod(sig, own, internal) THEN add_method(e, sig.recv, f.name, <<f.name>>, sig)
                         ELSE e
             IN [with EXCEPT !.functions = Put(@, <<f.name>>, sig)],
           env, Items(src, "fn"))

resolve_extern_function_signatures(env, src) ==
  LET externs == ItemSet(src, "extern")
  IN [env EXCEPT !.functions = [n \in {<<x.host, x.name>> : x \in externs} |-> Sig(NoType, NoType, TRUE)] @@ @,
                 !.namespaces = @ \union {x.host : x \in externs}]

resolve_with_options(env, src, path, internal) ==
  LET typed == resolve_type_references(env, src, path)
      known == \A f \in ItemSet(src, "fn") : {f.recv, f.ret} \subseteq {<<>>} \union DOMAIN typed.type_names
  IN IF Duplicates(src) \/ ~known THEN [ok |-> FALSE, env |-> env]
     ELSE [ok |-> TRUE,
           env |-> resolve_extern_function_signatures(
                     resolve_function_signatures(typed, src, OwnTypes(typed, src), internal), src)]

register_inherent_methods(src, alias, env, internal) ==
  LET own == OwnTypes(env, src)
      sigs == [n \in {f.name : f \in ItemSet(src, "fn")} |-> env.functions[<<n>>]]
      methods == {n \in DOMAIN sigs : IsMethod(sigs[n], own, internal)}
      builtin == {n \in methods : sigs[n].recv = Vector}
  IN [env EXCEPT
       !.methods = [k \in {<<sigs[n].recv, n>> : n \in methods} |->
                      [func |-> <<alias, k[2]>>, sig |-> sigs[k[2]]]] @@ @,
       !.functions = [k \in {<<alias, n>> : n \in methods} |-> sigs[k[2]]]
                       @@ [k \in {<<"Vector", n>> : n \in builtin} |-> sigs[k[2]]] @@ @]

ReceiverType(env, ref) == IF ref.name = <<"Vector">> THEN Vector ELSE env.functions[ref.name].ret

(* A name resolves if a function or value has it; a qualified one also needs  *)
(* its first part to be an alias that no value hides.                        *)
NameResolves(env, aliases, name) ==
  /\ name \in DOMAIN env.functions \union env.values
  /\ Len(name) = 2 => name[1] \in aliases \union env.namespaces /\ <<name[1]>> \notin env.values

RefChecks(env, aliases, ref) ==
  \/ ref.k = "name" /\ NameResolves(env, aliases, ref.name)
  \/ /\ ref.k = "method"
     /\ \/ ref.name = <<"Vector">>
        \/ NameResolves(env, aliases, ref.name) /\ ref.name \in DOMAIN env.functions
     /\ <<ReceiverType(env, ref), ref.method>> \in DOMAIN env.methods

RefsOf(item) == IF item.k \in {"fn", "let", "do"} THEN item.refs ELSE <<>>

(* The type map keeps the receiver of every method call.                     *)
check_module(env0, src, aliases) ==
  LET lets == ItemSet(src, "let")
      env == [env0 EXCEPT !.values = @ \union UNION {{<<x.names[i]>> : i \in DOMAIN x.names} : x \in lets}]
  IN IF \E i \in DOMAIN src : \E j \in DOMAIN RefsOf(src[i]) : ~RefChecks(env, aliases, RefsOf(src[i])[j])
     THEN [ok |-> FALSE, env |-> env0, type_map |-> <<>>]
     ELSE [ok |-> TRUE, env |-> env,
           type_map |-> [i \in DOMAIN src |->
                           [j \in DOMAIN RefsOf(src[i]) |->
                              IF RefsOf(src[i])[j].k = "method" THEN ReceiverType(env, RefsOf(src[i])[j])
                              ELSE NoType]]]

(* FuncIds of a module's own functions, in source order.  A name that the     *)
(* table already has keeps its id.                                           *)
preassign_module_function_ids(src, alias, table, next) ==
  FoldLeft(LAMBDA s, x :
             IF x.k = "fn"
             THEN LET q == <<alias, x.name>>
                      known == q \in DOMAIN s.table
                      id == IF known THEN s.table[q] ELSE s.next
                  IN [table |-> (<<x.name>> :> id) @@ (q :> id) @@ s.table,
                      next |-> IF id >= s.next THEN id + 1 ELSE s.next]
             ELSE IF x.k = "extern" /\ <<x.host, x.name>> \notin DOMAIN s.table
             THEN [table |-> Put(s.table, <<x.host, x.name>>, s.next), next |-> s.next + 1]
             ELSE s,
           [table |-> table, next |-> next], src)
-----------------------------------------------------------------------------
(* Lowering one module: ids for its functions and its top-level bindings,     *)
(* stand-ins for the functions of other modules.                             *)

(* A slot for every binding of a top-level let, in source order.             *)
collect_module_globals(src, start) ==
  LET names == FlattenSeq([i \in DOMAIN Items(src, "let") |-> Items(src, "let")[i].names])
  IN [slots |-> [n \in {<<names[i]>> : i \in DOMAIN names} |->
                   start + (CHOOSE i \in DOMAIN names : <<names[i]>> = n) - 1],
      next |-> start + Len(names)]

resolve_named_func_idOwnFirst(in, name) ==
  IF name \in DOMAIN in.table THEN [k |-> "func", id |-> in.table[name], path |-> ""]
  ELSE IF name \in DOMAIN in.targets
  THEN [k |-> "external", id |-> in.targets[name].id, path |-> in.targets[name].path]
  ELSE [k |-> "missing", id |-> 0, path |-> ""]

(* What a reference names: a function of another module, one of this module   *)
(* or an intrinsic, or a top-level binding.                                  *)
resolve_named_func_id(in, name) ==
  IF name \in DOMAIN in.targets
  THEN [k |-> "external", id |-> in.targets[name].id, path |-> in.targets[name].path]
  ELSE IF name \in DOMAIN in.table THEN [k |-> "func", id |-> in.table[name], path |-> ""]
  ELSE [k |-> "missing", id |-> 0, path |-> ""]

LowerRef(in, globals, ref, ty) ==
  IF ref.k = "method" THEN resolve_named_func_id(in, in.env.methods[<<ty, ref.method>>].func)
  ELSE IF ref.name \in DOMAIN in.targets \union DOMAIN in.table THEN resolve_named_func_id(in, ref.name)
  ELSE IF ref.name \in DOMAIN globals THEN [k |-> "global", id |-> globals[ref.name], path |-> ""]
  ELSE IF ref.name \in DOMAIN in.values THEN [k |-> "global", id |-> in.values[ref.name], path |-> ""]
  ELSE [k |-> "missing", id |-> 0, path |-> ""]

LoweredRefs(in, globals, src, type_map, i) ==
  [j \in DOMAIN RefsOf(src[i]) |-> LowerRef(in, globals, RefsOf(src[i])[j], type_map[i][j])]

(* One stand-in per external function, in the order of first use.            *)
alloc_external_func_ids(refs) ==
  LET externals == [i \in DOMAIN refs |-> [path |-> refs[i].path, id |-> refs[i].id]]
      first == SelectSeq([i \in DOMAIN refs |-> i],
                 LAMBDA i : refs[i].k = "external" /\ \A j \in 1..(i - 1) : refs[j] # refs[i])
  IN [id \in {ExternalFuncStart + n - 1 : n \in DOMAIN first} |-> externals[first[id - ExternalFuncStart + 1]]]

StandIn(ext, ref) ==
  IF ref.k # "external" THEN [k |-> ref.k, id |-> ref.id]
  ELSE [k |-> "func", id |-> CHOOSE id \in DOMAIN ext : ext[id] = [path |-> ref.path, id |-> ref.id]]

lower_module_funcs(in, src, type_map) ==
  LET g == collect_module_globals(src, in.next_global)
      fns == SelectSeq([i \in DOMAIN src |-> i], LAMBDA i : src[i].k = "fn")
      inits == SelectSeq([i \in DOMAIN src |-> i], LAMBDA i : src[i].k \in {"let", "do"})
      Refs(i) == LoweredRefs(in, g.slots, src, type_map, i)
      init == FlattenSeq([n \in DOMAIN inits |-> Refs(inits[n])])
      all == FlattenSeq([n \in DOMAIN fns |-> Refs(fns[n])]) \o init
      ext == alloc_external_func_ids(all)
      Stand(refs) == [j \in DOMAIN refs |-> StandIn(ext, refs[j])]
  IN [ok |-> \A i \in DOMAIN all : all[i].k # "missing",
      path |-> "", dependencies |-> <<>>,
      functions |->
        [n \in DOMAIN fns |->
           [name |-> src[fns[n]].name, id |-> in.table[<<src[fns[n]].name>>], refs |-> Stand(Refs(fns[n])),
            generic |-> src[fns[n]].generic, slots |-> Empty]]
        \o (IF inits = <<>> THEN <<>>
            ELSE <<[name |-> "__init__", id |-> in.next, refs |-> Stand(init), generic |-> FALSE,
                    slots |-> g.slots]>>),
      init |-> IF inits = <<>> THEN 0 ELSE in.next,
      ext |-> ext,
      externs |-> [id \in {in.table[<<x.host, x.name>>] : x \in ItemSet(src, "extern")} |->
                     CHOOSE n \in {<<x.host, x.name>> : x \in ItemSet(src, "extern")} : in.table[n] = id],
      next_global |-> g.next]

lower_stage(in, src, type_map, alias) ==
  LET pre == preassign_module_function_ids(src, alias, in.table, in.next)
  IN lower_module_funcs([in EXCEPT !.table = pre.table, !.next = pre.next], src, type_map)
-----------------------------------------------------------------------------
(* The cache of stage results, kept between builds.                          *)

EmptyCache == [parse |-> Empty, resolve |-> Empty, typecheck |-> Empty, lower |-> Empty,
               forward |-> Empty, reverse |-> Empty, puts |-> TRUE]

Hit(table, p, key) == p \in DOMAIN table /\ table[p].key = key
Stored(cache, table, p, key, value) ==
  IF cache.puts THEN Put(table, p, [key |-> key, value |-> value]) ELSE table

set_dependenciesStaleReverse(cache, p, deps) ==
  LET Dependents(d) == IF d \in DOMAIN cache.reverse THEN cache.reverse[d] ELSE {}
  IN [cache EXCEPT
       !.reverse = [d \in deps |-> Dependents(d) \union {p}] @@ @,
       !.forward = IF deps = {} THEN Without(@, {p}) ELSE Put(@, p, deps)]

set_dependencies(cache, p, deps) ==
  LET prev == IF p \in DOMAIN cache.forward THEN cache.forward[p] ELSE {}
      Dependents(d) == IF d \in DOMAIN cache.reverse THEN cache.reverse[d] ELSE {}
      next == [d \in DOMAIN cache.reverse \union deps |->
                 IF d \in deps THEN Dependents(d) \union {p}
                 ELSE IF d \in prev THEN Dependents(d) \ {p} ELSE Dependents(d)]
  IN [cache EXCEPT
       !.reverse = Only(next, {d \in DOMAIN next : next[d] # {}}),
       !.forward = IF deps = {} THEN Without(@, {p}) ELSE Put(@, p, deps)]

RECURSIVE Closure(_, _)
Closure(reverse, found) ==
  LET more == found \union UNION {reverse[m] : m \in found \cap DOMAIN reverse}
  IN IF more = found THEN found ELSE Closure(reverse, more)

reverse_dependents_closure(reverse, changed) == Closure(reverse, {changed})

invalidate_changed_module(cache, p) ==
  LET affected == reverse_dependents_closure(cache.reverse, p)
  IN [cache EXCEPT !.resolve = Without(@, affected), !.typecheck = Without(@, affected),
                   !.lower = Without(@, affected)]

NoHash == [src |-> <<>>, deps |-> Empty]
module_hash(src, deps_hash) == [src |-> src, deps |-> deps_hash]
deps_hash(hashes, deps) == [d \in deps |-> IF d \in DOMAIN hashes THEN hashes[d] ELSE NoHash]
context_hash(hashes) == hashes

with_contextIgnored(base, context) == [base |-> base, context |-> Empty]
with_context(base, context) == [base |-> base, context |-> context]

stage_key(src, deps) == [src |-> src, deps |-> deps]
lower_key(src, deps, next_global) == [src |-> src, deps |-> deps, next_global |-> next_global]
-----------------------------------------------------------------------------
(* Dependencies of a module: its imports in source order, then the prelude    *)
(* modules it does not import itself.                                        *)

plan_module_dependencies(sources, p) ==
  LET imports == Items(sources[p], "import")
      imported == {imports[i].mod : i \in DOMAIN imports}
      auto == IF p \in Internal THEN <<>>
              ELSE SelectSeq(PreludePaths, LAMBDA q : q \in DOMAIN sources \ imported)
  IN [ok |-> imported \subseteq DOMAIN sources,
      deps |-> [i \in DOMAIN imports |->
                  [path |-> imports[i].mod, alias |-> imports[i].alias, kind |-> "import",
                   whole |-> imports[i].whole, items |-> imports[i].items]]
               \o [i \in DOMAIN auto |->
                     [path |-> auto[i], alias |-> PreludeAlias[auto[i]], kind |-> "prelude",
                      whole |-> TRUE, items |-> <<>>]]]

project_dependency_exports(st, dep, ex) ==
  IF dep.kind = "prelude" THEN register_prelude_exports(st, ex)
  ELSE IF dep.whole THEN register_module_exports(st, dep.alias, ex)
  ELSE register_import_items(st, dep.alias, ex, dep.items)

Visible(src, kind) == {x \in ItemSet(src, kind) : x.pub}

(* Slots of exported values are counted from the next free slot.             *)
ExportedSlots(src, start) ==
  LET lets == SelectSeq(Items(src, "let"), LAMBDA x : ~x.tuple)
  IN [n \in {<<x.names[1]>> : x \in {lets[i] : i \in {j \in DOMAIN lets : lets[j].pub}}} |->
        start + (CHOOSE i \in DOMAIN lets : <<lets[i].names[1]>> = n) - 1]

build_module_exports(src, p, alias, st) ==
  LET fns == {x.name : x \in Visible(src, "fn")}
      externs == {<<x.host, x.name>> : x \in Visible(src, "extern")}
  IN [path |-> p,
      types |-> [n \in {<<t.name>> : t \in Visible(src, "type")} |-> st.env.type_names[n]],
      funs |-> [n \in {<<f>> : f \in fns} \union externs |-> st.env.functions[n]],
      ids |-> [n \in {<<f>> : f \in fns} \union externs |->
                 IF Len(n) = 2 THEN st.func_table[n] ELSE st.func_table[<<alias, n[1]>>]],
      values |-> ExportedSlots(src, st.next_global_local_id)]

cleanup_module_local_bindings(src, alias, st) ==
  LET fns == {f.name : f \in ItemSet(src, "fn")}
      recv == [n \in fns |-> st.env.functions[<<n>>].recv]
      gone == {<<n>> : n \in fns} \union {<<alias, n>> : n \in fns}
              \union {<<"Vector", n>> : n \in {m \in fns : recv[m] = Vector}}
  IN [st EXCEPT
       !.env.type_names = Without(@, {<<t.name>> : t \in ItemSet(src, "type")}),
       !.env.functions = Without(@, gone), !.func_table = Without(@, gone),
       !.qualified_func_targets = Without(@, gone \ {<<n>> : n \in fns}),
       !.env.methods = Without(@, {<<recv[n], n>> : n \in fns}),
       !.env.values = @ \ {<<x.names[1]>> : x \in {y \in ItemSet(src, "let") : ~y.tuple}}]
-----------------------------------------------------------------------------
(* The prelude's method signatures, known to every module before any prelude  *)
(* module is compiled.                                                       *)

compute_prelude_method_exports(st, sources) ==
  LET paths == SelectSeq(PreludePaths, LAMBDA q : q \in DOMAIN sources)
      resolved == [q \in Range(paths) |-> resolve_with_options(st.env, sources[q], q, TRUE)]
      ids == [q \in Range(paths) |->
                preassign_module_function_ids(sources[q], PreludeAlias[q], Empty, UserFuncStart).table]
      Names(q) == {<<f.name>> : f \in Visible(sources[q], "fn")}
  IN [ok |-> \A q \in Range(paths) : parse_source_module(sources[q]) /\ resolved[q].ok,
      exports |-> [i \in DOMAIN paths |->
                     [path |-> paths[i], types |-> Empty, values |-> Empty,
                      funs |-> Only(resolved[paths[i]].env.functions, Names(paths[i])),
                      ids |-> Only(ids[paths[i]], Names(paths[i]))]]]

Failed(w, err) == [w EXCEPT !.err = err]

(* A step of a build is taken when none before it failed.                    *)
Then(w, Step(_)) == IF w.err # "" THEN w ELSE Step(w)

ensure_prelude_method_signatures_registered(w, sources) ==
  IF w.st.prelude_registered THEN w
  ELSE LET st == [w.st EXCEPT !.prelude_registered = TRUE]
           pre == IF w.prelude.ok THEN w.prelude ELSE compute_prelude_method_exports(st, sources)
       IN IF ~pre.ok THEN Failed([w EXCEPT !.st = st], "prelude")
          ELSE [w EXCEPT
                 !.prelude = pre,
                 !.st = FoldLeft(LAMBDA s, ex : pre_register_prelude_exports(s, PreludeAlias[ex.path], ex),
                                 st, pre.exports)]
-----------------------------------------------------------------------------
(* A module: dependencies, then resolve, typecheck and lower, each from the   *)
(* cache if its key is there.                                                *)

Diagnosed(w, p, code) ==
  [w EXCEPT !.err = code,
            !.diagnostics = IF w.analysis THEN Put(@, p, (IF p \in DOMAIN @ THEN @[p] ELSE {}) \union {code})
                            ELSE @]

StageParse(w, p, src) ==
  IF Hit(w.cache.parse, p, src) THEN w
  ELSE LET cache == IF p \in DOMAIN w.cache.parse THEN invalidate_changed_module(w.cache, p) ELSE w.cache
       IN IF ~parse_source_module(src) THEN Diagnosed([w EXCEPT !.cache = cache], p, "parse")
          ELSE [w EXCEPT !.cache = [cache EXCEPT !.parse = Stored(cache, @, p, src, src)]]

(* The environment is taken out of the state while it is resolved, and is the *)
(* empty one if that fails.                                                  *)
StageResolve(w, p, src, key) ==
  LET hit == ~w.analysis /\ Hit(w.cache.resolve, p, key)
      r == IF hit THEN w.cache.resolve[p].value ELSE resolve_with_options(w.st.env, src, p, p \in Internal)
  IN IF ~r.ok THEN Diagnosed([w EXCEPT !.st.env = NewEnv, !.stack = Front(@)], p, "resolve")
     ELSE [w EXCEPT !.st.env = r.env,
                    !.cache.resolve = IF hit \/ w.analysis THEN @ ELSE Stored(w.cache, @, p, key, r)]

StageTypecheckFromCache(w, p, src, key) ==
  LET hit == Hit(w.cache.typecheck, p, key)
      t == IF hit THEN w.cache.typecheck[p].value ELSE check_module(w.st.env, src, w.st.module_aliases)
  IN IF ~t.ok THEN Diagnosed([w EXCEPT !.st.env = NewEnv, !.stack = Front(@)], p, "typecheck")
     ELSE [w EXCEPT !.st.env = t.env, !.type_map = t.type_map,
                    !.cache.typecheck = IF hit \/ w.analysis THEN @ ELSE Stored(w.cache, @, p, key, t),
                    !.modules = IF w.analysis /\ ~hit THEN Put(@, p, t.env) ELSE @]

StageTypecheck(w, p, src, key) ==
  LET hit == ~w.analysis /\ Hit(w.cache.typecheck, p, key)
      t == IF hit THEN w.cache.typecheck[p].value ELSE check_module(w.st.env, src, w.st.module_aliases)
  IN IF ~t.ok THEN Diagnosed([w EXCEPT !.st.env = NewEnv, !.stack = Front(@)], p, "typecheck")
     ELSE [w EXCEPT !.st.env = t.env, !.type_map = t.type_map,
                    !.cache.typecheck = IF hit \/ w.analysis THEN @ ELSE Stored(w.cache, @, p, key, t),
                    !.modules = IF w.analysis THEN Put(@, p, t.env) ELSE @]

StoreLowered(w, p, deps, key, l) ==
  IF ~l.ok THEN Failed([w EXCEPT !.stack = Front(@)], "lower")
  ELSE [w EXCEPT
         !.st.lowered_modules = Append(@, [l EXCEPT !.path = p, !.dependencies = deps]),
         !.st.next_global_local_id = l.next_global,
         !.cache.lower = IF Hit(@, p, key) THEN @ ELSE Stored(w.cache, @, p, key, l)]

maybe_lower_module(w, p, src, alias, next, deps, key) ==
  LET targets == w.st.qualified_func_targets @@ w.st.method_func_targets
      others == {n \in DOMAIN targets : targets[n].path # p}
      in == [env |-> w.st.env, table |-> w.st.func_table, targets |-> Only(targets, others),
             values |-> w.st.qualified_value_globals, next |-> next,
             next_global |-> w.st.next_global_local_id]
  IN IF ~w.lowering THEN w
     ELSE StoreLowered(w, p, deps, key,
                       IF Hit(w.cache.lower, p, key) THEN w.cache.lower[p].value
                       ELSE lower_stage(in, src, w.type_map, alias))

(* What is left once the dependencies are compiled and projected.            *)
FinishModule(w0, p, src, alias, deps) ==
  LET dset == {deps[i] : i \in DOMAIN deps}
      dh == deps_hash(w0.st.module_hashes, dset)
      ctx == context_hash(w0.st.module_hashes)
      key == with_context(stage_key(src, dh), ctx)
      pre == preassign_module_function_ids(src, alias, w0.st.func_table, UserFuncStart)
  IN Then(StageResolve([w0 EXCEPT !.cache = set_dependencies(@, p, dset), !.st.func_table = pre.table],
                       p, src, key), LAMBDA w1 :
     Then(StageTypecheck([w1 EXCEPT !.st.env = register_inherent_methods(src, alias, @, p \in Internal)],
                         p, src, key), LAMBDA w2 :
     Then(maybe_lower_module(w2, p, src, alias, pre.next, deps,
                             with_context(lower_key(src, dh, w2.st.next_global_local_id), ctx)), LAMBDA w3 :
     [w3 EXCEPT
       !.st = cleanup_module_local_bindings(src, alias,
                [@ EXCEPT !.module_hashes = Put(@, p, module_hash(src, dh))]),
       !.stack = Front(@),
       !.exports = Put(@, p, build_module_exports(src, p, alias, w2.st))])))

RECURSIVE compile_module(_, _, _, _)
RECURSIVE compile_planned_dependencies(_, _, _, _, _)

(* A dependency that is already compiled is only projected.  In an analysis a *)
(* dependency that fails is left out and the others go on.                   *)
ProjectDependency(done, known, sources, deps, base, projected) ==
  LET dep == Head(deps)
      back == IF known THEN done ELSE [done EXCEPT !.st = restore_compile_env(@, projected)]
      missing == dep.kind = "import" /\ ~dep.whole /\ MissingItems(done.exports[dep.path], dep.items) # {}
      st == project_dependency_exports(back.st, dep, done.exports[dep.path])
      next == IF dep.kind = "prelude" THEN cleanup_pre_registered_prelude_targets(st, dep.alias) ELSE st
  IN IF done.err # "" /\ done.analysis
     THEN compile_planned_dependencies(Failed(back, ""), sources, Tail(deps), base, projected)
     ELSE IF done.err # "" THEN [back EXCEPT !.stack = Front(@)]
     ELSE IF missing THEN Failed(back, "items")
     ELSE compile_planned_dependencies([back EXCEPT !.st = next], sources, Tail(deps), base, next)

compile_planned_dependencies(w, sources, deps, base, projected) ==
  IF deps = <<>> THEN w
  ELSE LET dep == Head(deps)
           known == dep.path \in DOMAIN w.exports
           fresh == [w EXCEPT !.st = restore_compile_env(@, base)]
       IN Then(IF known THEN w
               ELSE IF dep.kind = "prelude"
               THEN ensure_prelude_method_signatures_registered(
                      [fresh EXCEPT !.st.prelude_registered = FALSE], sources)
               ELSE fresh, LAMBDA ready :
          ProjectDependency(compile_module(ready, sources, dep.path, dep.alias),
                            known, sources, deps, base, projected))

compile_module(w, sources, p, alias) ==
  IF p \in DOMAIN w.exports THEN w
  ELSE IF \E i \in DOMAIN w.stack : w.stack[i] = p THEN Failed(w, "cycle")
  ELSE LET src == sources[p]
           plan == plan_module_dependencies(sources, p)
       IN Then(StageParse(w, p, src), LAMBDA parsed :
          Then(IF w.stack = <<>> \/ p \in Range(PreludePaths)
               THEN ensure_prelude_method_signatures_registered(parsed, sources) ELSE parsed, LAMBDA based :
          IF ~plan.ok THEN Failed(based, "unresolved")
          ELSE Then(compile_planned_dependencies([based EXCEPT !.stack = Append(@, p)], sources, plan.deps,
                                                 based.st, based.st), LAMBDA ready :
          FinishModule(ready, p, src, alias, [i \in DOMAIN plan.deps |-> plan.deps[i].path]))))
-----------------------------------------------------------------------------
(* Linking: module-local FuncIds become ids of the program.                  *)

topo_sort_modulesByPath(ms) ==
  LET RankOf(i) == Rank(ms[i].path) IN Sorted(DOMAIN ms, RankOf)

(* Dependencies first; of the modules that are ready, the first by path.     *)
topo_sort_modules(ms) ==
  LET Index(p) == {i \in DOMAIN ms : ms[i].path = p}
      Waits(i, done) == \E d \in DOMAIN ms[i].dependencies : ~(Index(ms[i].dependencies[d]) \subseteq Range(done))
      First(s) == CHOOSE i \in s : \A j \in s : Rank(ms[i].path) <= Rank(ms[j].path)
      order == FoldLeft(LAMBDA done, n :
                 LET ready == {i \in DOMAIN ms \ Range(done) : ~Waits(i, done)}
                 IN IF ready = {} THEN done ELSE Append(done, First(ready)),
                 <<>>, [i \in DOMAIN ms |-> i])
      RankOf(i) == Rank(ms[i].path)
  IN order \o Sorted(DOMAIN ms \ Range(order), RankOf)

LocalIds(m) ==
  Ascending({id \in {m.functions[i].id : i \in DOMAIN m.functions} \union DOMAIN m.externs :
               id >= UserFuncStart})

GlobalIds(ms, order) ==
  LET pairs == FlattenSeq([n \in DOMAIN order |->
                 [k \in DOMAIN LocalIds(ms[order[n]]) |-> <<order[n], LocalIds(ms[order[n]])[k]>>]])
  IN [q \in Range(pairs) |-> NthGlobal(CHOOSE n \in DOMAIN pairs : pairs[n] = q)]

remap_func_id(id, idx, ms, global) ==
  LET ext == ms[idx].ext
      there == IF id \in DOMAIN ext
               THEN {<<i, ext[id].id>> : i \in {j \in DOMAIN ms : ms[j].path = ext[id].path}} \cap DOMAIN global
               ELSE {}
  IN IF id < UserFuncStart THEN id
     ELSE IF there # {} THEN global[CHOOSE q \in there : TRUE]
     ELSE IF <<idx, id>> \in DOMAIN global THEN global[<<idx, id>>]
     ELSE id

remap_expr_func_ids(refs, idx, ms, global) ==
  [j \in DOMAIN refs |-> IF refs[j].k = "func" THEN [refs[j] EXCEPT !.id = remap_func_id(@, idx, ms, global)]
                         ELSE refs[j]]

link(ms) ==
  LET order == topo_sort_modules(ms)
      global == GlobalIds(ms, order)
      Placed(idx) == [n \in DOMAIN ms[idx].functions |->
                        LET f == ms[idx].functions[n]
                        IN [decl |-> <<ms[idx].path, f.name>>, id |-> remap_func_id(f.id, idx, ms, global),
                            refs |-> remap_expr_func_ids(f.refs, idx, ms, global), generic |-> f.generic,
                            slots |-> f.slots]]
      inits == SelectSeq(order, LAMBDA idx : ms[idx].init # 0)
  IN [functions |-> FlattenSeq([n \in DOMAIN order |-> Placed(order[n])]),
      inits |-> [n \in DOMAIN inits |-> remap_func_id(ms[inits[n]].init, inits[n], ms, global)],
      externs |-> {[id |-> remap_func_id(id, idx, ms, global), name |-> ms[idx].externs[id]] :
                     <<idx, id>> \in {q \in DOMAIN global : q[2] \in DOMAIN ms[q[1]].externs}}]
-----------------------------------------------------------------------------
(* Dead-code elimination: what no __init__ reaches is dropped and the ids     *)
(* are made compact.                                                         *)

collect_func_refs(f) == {f.refs[j].id : j \in {i \in DOMAIN f.refs : f.refs[i].k = "func"}}

ReachableFrom(fns, roots) ==
  FoldLeft(LAMBDA found, n :
             found \union UNION {{id \in collect_func_refs(fns[i]) : id >= UserFuncStart} :
                                   i \in {j \in DOMAIN fns : fns[j].id \in found}},
           roots, [i \in DOMAIN fns |-> i])

remap_expr(refs, new) ==
  [j \in DOMAIN refs |-> IF refs[j].k = "func" /\ refs[j].id \in DOMAIN new
                         THEN [refs[j] EXCEPT !.id = new[@]] ELSE refs[j]]

eliminate_dead_code(prog) ==
  LET fns == prog.functions
      generic == {fns[i].id : i \in {j \in DOMAIN fns : fns[j].generic}}
      live == ReachableFrom(fns, Range(prog.inits) \union generic)
      kept == SelectSeq(fns, LAMBDA f : f.id \in live)
      ids == Ascending({id \in {kept[i].id : i \in DOMAIN kept} \union {x.id : x \in prog.externs} :
                          id >= UserFuncStart})
      new == [id \in Range(ids) |-> NthGlobal(CHOOSE n \in DOMAIN ids : ids[n] = id)]
      New(id) == IF id \in DOMAIN new THEN new[id] ELSE id
  IN [functions |-> [i \in DOMAIN kept |-> [kept[i] EXCEPT !.id = New(@), !.refs = remap_expr(@, new)]],
      inits |-> [i \in DOMAIN prog.inits |-> New(prog.inits[i])],
      externs |-> {[x EXCEPT !.id = New(@)] : x \in prog.externs}]
-----------------------------------------------------------------------------
(* Entry points.                                                             *)

Start(cache, lowering, analysis) ==
  [st |-> initial, exports |-> Empty, prelude |-> [ok |-> FALSE, exports |-> <<>>], cache |-> cache,
   stack |-> <<>>, lowering |-> lowering, analysis |-> analysis, type_map |-> <<>>,
   modules |-> Empty, diagnostics |-> Empty, err |-> ""]

Main(sources, w) == compile_module(w, sources, "Main", Stem["Main"])

Linked(w) ==
  [cache |-> w.cache, err |-> w.err,
   program |-> IF w.err = "" THEN <<eliminate_dead_code(link(w.st.lowered_modules))>> ELSE <<>>]
Checked(w) == [cache |-> w.cache, err |-> w.err, program |-> <<>>]
Analyzed(w) == [cache |-> w.cache, modules |-> w.modules, diagnostics |-> w.diagnostics]

compile_entry(sources, cache) == Linked(Main(sources, Start(cache, TRUE, FALSE)))
check_entry(sources, cache) == Checked(Main(sources, Start(cache, FALSE, FALSE)))
analyze_entry(sources, cache) == Analyzed(Main(sources, Start(cache, FALSE, TRUE)))
=============================================================================
