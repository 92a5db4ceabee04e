----------------------------- MODULE ModuleEnv -----------------------------
(***************************************************************************)
(* What a module of a program sees while it is compiled                      *)
(* (src/src/module/context.rs, env_integration.rs, types/env.rs): the        *)
(* environment that the modules of one build share, what is exported from a  *)
(* module, how exports are projected into an importer, and how the           *)
(* environment is saved before a dependency and restored after it.           *)
(*                                                                          *)
(* A name is a sequence of strings, <<"f">> or <<"alias", "f">>.  A TypeId   *)
(* is an index into the type definitions.  A signature keeps what the module *)
(* system looks at: the receiver, the result, whether it is a host function. *)
(***************************************************************************)
EXTENDS Naturals, Sequences, FiniteSets, TLC, SequencesExt

CONSTANTS UserFuncStart,     \* the first FuncId of a module's own functions
          SparseId,          \* an intrinsic whose FuncId lies above it
          ExternalFuncStart  \* the first stand-in for a function of another module

ASSUME FuncIdRanges == /\ {UserFuncStart, SparseId, ExternalFuncStart} \subseteq Nat
                       /\ 0 < UserFuncStart /\ UserFuncStart < SparseId
                       /\ SparseId < ExternalFuncStart

NoType == 0
Vector == 1        \* the TypeId of the builtin receiver type

Empty == [k \in {} |-> k]
Put(f, k, v) == (k :> v) @@ f
Without(f, ks) == [k \in DOMAIN f \ ks |-> f[k]]

(* The function with the keys renamed.                                       *)
Renamed(f, To(_)) == [k \in {To(j) : j \in DOMAIN f} |-> f[CHOOSE j \in DOMAIN f : To(j) = k]]

Only(f, ks) == [k \in DOMAIN f \cap ks |-> f[k]]
-----------------------------------------------------------------------------
(* A project's sources: a module is a sequence of items.                     *)

Import(mod, alias) == [k |-> "import", mod |-> mod, alias |-> alias, whole |-> TRUE, items |-> <<>>]
ImportItems(mod, alias, items) ==
  [k |-> "import", mod |-> mod, alias |-> alias, whole |-> FALSE, items |-> items]
TypeDecl(name, pub) == [k |-> "type", name |-> name, pub |-> pub]
Fn(name, pub, recv, ret, refs) ==
  [k |-> "fn", name |-> name, pub |-> pub, recv |-> recv, ret |-> ret, refs |-> refs, generic |-> FALSE]
GenericFn(name, refs) ==
  [k |-> "fn", name |-> name, pub |-> FALSE, recv |-> <<>>, ret |-> <<>>, refs |-> refs, generic |-> TRUE]
Extern(host, name, pub) == [k |-> "extern", host |-> host, name |-> name, pub |-> pub]
Let(name, pub, refs) == [k |-> "let", names |-> <<name>>, tuple |-> FALSE, pub |-> pub, refs |-> refs]
LetTuple(names, refs) == [k |-> "let", names |-> names, tuple |-> TRUE, pub |-> FALSE, refs |-> refs]
Do(refs) == [k |-> "do", refs |-> refs]
Garbage == [k |-> "garbage"]      \* text that does not parse

(* A reference: a name, or a method of what a named function returns; a      *)
(* method of <<"Vector">> is one of a vector literal.                        *)
Ref(name) == [k |-> "name", name |-> name, method |-> ""]
MethodOf(name, method) == [k |-> "method", name |-> name, method |-> method]

Items(src, kind) == SelectSeq(src, LAMBDA i : i.k = kind)
ItemSet(src, kind) == {src[i] : i \in {j \in DOMAIN src : src[j].k = kind}}
Statements(src) == SelectSeq(src, LAMBDA i : i.k \in {"let", "do"})
-----------------------------------------------------------------------------
(* Environments.  Of the builtins one intrinsic method and one intrinsic     *)
(* with a FuncId above UserFuncStart are kept.                               *)

Sig(recv, ret, host) == [recv |-> recv, ret |-> ret, host |-> host]
Builtins == (<<"Vector", "len">> :> 5) @@ (<<"String", "get">> :> SparseId)

BuiltinSignatures ==
  (<<"Vector", "len">> :> Sig(Vector, NoType, FALSE)) @@ (<<"String", "get">> :> Sig(NoType, NoType, FALSE))

NewEnv ==
  [types |-> <<[name |-> "Vector", owner |-> "builtin"]>>,
   type_names |-> <<"Vector">> :> Vector,
   methods |-> <<Vector, "len">> :> [func |-> <<"Vector", "len">>, sig |-> Sig(Vector, NoType, FALSE)],
   functions |-> BuiltinSignatures, values |-> {},
   namespaces |-> {}]

initial ==
  [env |-> NewEnv, func_table |-> Builtins, module_aliases |-> {"Vector", "String"},
   qualified_value_globals |-> Empty, qualified_func_targets |-> Empty,
   method_func_targets |-> Empty, next_global_local_id |-> 0, lowered_modules |-> <<>>,
   module_hashes |-> Empty, prelude_registered |-> FALSE]

add_method(env, ty, name, func, sig) ==
  [env EXCEPT !.methods = Put(@, <<ty, name>>, [func |-> func, sig |-> sig])]

restore_bindingsKeepsFunctions(env, snap) ==
  [env EXCEPT
    !.type_names = snap.type_names,
    !.methods = snap.methods @@ [k \in {j \in DOMAIN env.methods : j[1] # Vector} |-> env.methods[k]],
    !.values = snap.values, !.namespaces = snap.namespaces]

(* Names and methods go back to the snapshot; methods that a dependency      *)
(* added to types of programs stay, so that a value reaching a module        *)
(* through another one keeps its methods.                                    *)
restore_bindings(env, snap) ==
  [env EXCEPT
    !.type_names = snap.type_names,
    !.methods = snap.methods @@ [k \in {j \in DOMAIN env.methods : j[1] # Vector} |-> env.methods[k]],
    !.functions = snap.functions, !.values = snap.values, !.namespaces = snap.namespaces]

(* The snapshot is the compile state itself: only these fields are taken     *)
(* back from it; definitions, counters, hashes and lowered modules stay.     *)
restore_compile_env(st, snap) ==
  [st EXCEPT !.env = restore_bindings(@, snap.env),
             !.func_table = snap.func_table, !.module_aliases = snap.module_aliases,
             !.qualified_value_globals = snap.qualified_value_globals,
             !.qualified_func_targets = snap.qualified_func_targets]
-----------------------------------------------------------------------------
(* Exports.  [path, types, funs, ids, values]: functions and FuncIds by      *)
(* name, host functions by their host name, values with their global slot.   *)

Target(ex, f) == [path |-> ex.path, id |-> ex.ids[f]]
ExportedMethods(ex, tys) == {f \in DOMAIN ex.funs : ex.funs[f].recv \in tys}

(* The names alias.f for what a module exports; a method of a type the       *)
(* module exports is found through the type.                                 *)
register_module_exports(st, alias, ex) ==
  LET Qualified(f) == IF Len(f) = 2 THEN f ELSE <<alias, f[1]>>
      own == ExportedMethods(ex, {ex.types[t] : t \in DOMAIN ex.types})
      hosts == {f[1] : f \in {g \in DOMAIN ex.funs : ex.funs[g].host}}
      targets == Renamed([f \in DOMAIN ex.ids |-> Target(ex, f)], Qualified)
  IN [st EXCEPT
       !.module_aliases = @ \union {alias} \union hosts,
       !.func_table = Renamed(ex.ids, Qualified) @@ @,
       !.qualified_func_targets = targets @@ @,
       !.method_func_targets = Only(targets, {Qualified(f) : f \in own}) @@ @,
       !.qualified_value_globals = Renamed(ex.values, Qualified) @@ @,
       !.env.type_names = Renamed(ex.types, Qualified) @@ @,
       !.env.functions = Renamed(ex.funs, Qualified) @@ @,
       !.env.values = @ \union {Qualified(v) : v \in DOMAIN ex.values},
       !.env.namespaces = @ \union hosts,
       !.env.methods =
          [k \in {<<ex.funs[f].recv, f[1]>> : f \in own} |->
             [func |-> Qualified(<<k[2]>>), sig |-> ex.funs[<<k[2]>>]]] @@ @]

(* What `use m.{f, T as U}` brings in; an item is [name, as, type].          *)
register_value_item(st, ex, item) ==
  LET n == <<item.name>>
      bound == <<item.as>>
  IN [st EXCEPT
       !.env.functions = IF n \in DOMAIN ex.funs THEN Put(@, bound, ex.funs[n]) ELSE @,
       !.func_table = IF n \in DOMAIN ex.ids THEN Put(@, bound, ex.ids[n]) ELSE @,
       !.qualified_func_targets = IF n \in DOMAIN ex.ids THEN Put(@, bound, Target(ex, n)) ELSE @,
       !.env.values = IF n \in DOMAIN ex.values THEN @ \union {bound} ELSE @,
       !.qualified_value_globals = IF n \in DOMAIN ex.values THEN Put(@, bound, ex.values[n]) ELSE @]

register_type_item(st, alias, ex, item) ==
  LET ty == ex.types[<<item.name>>]
      own == ExportedMethods(ex, {ty})
      Qualified(f) == <<alias, f[1]>>
      targets == Renamed([f \in own |-> Target(ex, f)], Qualified)
  IN [st EXCEPT
       !.env.type_names = Put(@, <<item.as>>, ty),
       !.func_table = Renamed(Only(ex.ids, own), Qualified) @@ @,
       !.qualified_func_targets = targets @@ @,
       !.method_func_targets = targets @@ @,
       !.env.methods = [k \in {<<ty, f[1]>> : f \in own} |->
                          [func |-> Qualified(<<k[2]>>), sig |-> ex.funs[<<k[2]>>]]] @@ @]

MissingItems(ex, items) ==
  {i \in DOMAIN items :
     <<items[i].name>> \notin (IF items[i].type THEN DOMAIN ex.types
                               ELSE DOMAIN ex.funs \union DOMAIN ex.values)}

register_import_items(st, alias, ex, items) ==
  FoldLeft(LAMBDA s, item : IF item.type THEN register_type_item(s, alias, ex, item)
                            ELSE register_value_item(s, ex, item),
           st, items)

(* A prelude module adds methods of builtin types, also callable as          *)
(* Vector.f; its own alias stays hidden.                                     *)
register_prelude_exports(st, ex) ==
  LET own == ExportedMethods(ex, {Vector})
      Qualified(f) == <<"Vector", f[1]>>
  IN [st EXCEPT
       !.env.functions = Renamed(Only(ex.funs, own), Qualified) @@ @,
       !.func_table = Renamed(Only(ex.ids, own), Qualified) @@ @,
       !.qualified_func_targets = Renamed([f \in own |-> Target(ex, f)], Qualified) @@ @,
       !.env.methods = [k \in {<<Vector, f[1]>> : f \in own} |->
                          [func |-> <<"Vector", k[2]>>, sig |-> ex.funs[<<k[2]>>]]] @@ @]

(* Before any prelude module is compiled its methods are known everywhere    *)
(* under an internal alias.                                                  *)
pre_register_prelude_exports(st, alias, ex) ==
  LET own == ExportedMethods(ex, {Vector})
      Internal(f) == <<alias, f[1]>>
      Qualified(f) == <<"Vector", f[1]>>
  IN [st EXCEPT
       !.env.functions = Renamed(Only(ex.funs, own), Qualified) @@ @,
       !.func_table = Renamed(Only(ex.ids, own), Internal) @@ @,
       !.qualified_func_targets = Renamed([f \in own |-> Target(ex, f)], Internal) @@ @,
       !.env.methods = [k \in {<<Vector, f[1]>> : f \in own} |->
                          [func |-> <<alias, k[2]>>, sig |-> ex.funs[<<k[2]>>]]] @@ @]

cleanup_pre_registered_prelude_targets(st, alias) ==
  LET gone == {n \in DOMAIN st.func_table \union DOMAIN st.qualified_func_targets :
                 n[1] = alias /\ Len(n) = 2}
  IN [st EXCEPT !.func_table = Without(@, gone), !.qualified_func_targets = Without(@, gone)]
=============================================================================
