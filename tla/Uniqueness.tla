----------------------------- MODULE Uniqueness -----------------------------
(***************************************************************************)
(* The pass that turns copying updates into in-place ones                    *)
(* (src/src/opt/uniqueness.rs, with liveness from opt/liveness.rs) and the   *)
(* order of the whole optimizer (opt/pipeline.rs).                           *)
(*                                                                          *)
(* The pass reads a function twice.  The first walk collects the locals that *)
(* are tainted: aliased, stored, captured or passed on somewhere.  The       *)
(* second carries facts F along the let-chain:                               *)
(*   unique     the local is the only reference to its value                 *)
(*   empty      known_empty: bound to [] and not changed since               *)
(*   refreshed  tainted, but reassigned from an owned value since            *)
(*   bsafe      builder_safe: tainted by a later escape only                 *)
(*   fresh      source_fresh: allocated here and not shared since            *)
(*   n          the next free local                                          *)
(*   pick       which candidate a walk over a hash set meets first           *)
(***************************************************************************)
EXTENDS AnfOpt

\* Backward liveness; what runs after the enclosing operation is not part of it.
RECURSIVE live_after(_)
live_after(e) ==
  CASE e.k = "Block" /\ Head(e.es).k = "Let" ->
         (live_after(Block(Tail(e.es))) \ {Head(e.es).x}) \cup live_after(OpOf(Head(e.es)))
    [] e.k = "Local" -> {e.x}
    [] OTHER -> UNION {live_after(e.es[i]) : i \in DOMAIN e.es}

Live(ns) == live_after(Block(ns))
-----------------------------------------------------------------------------
InPlaceId == [VECTOR_SET_UNSAFE |-> "VECTOR_SET_IN_PLACE",
              DICT_SET |-> "DICT_SET_IN_PLACE",
              DICT_REMOVE |-> "DICT_REMOVE_IN_PLACE"]

op_semantics(f) ==
  [cow |-> f \in DOMAIN InPlaceId \cup {"VECTOR_APPEND"},      \* argument 1 is the base of an update
   in_place |-> f \in DOMAIN InPlaceId,
   fresh_if_copied |-> f \in DOMAIN InPlaceId,
   no_retain |-> f \in {"VECTOR_LEN", "DICT_LEN", "DICT_GET", "DICT_GET_UNSAFE", "DICT_KEYS"},
   fresh_producer |-> f \in {"VECTOR_MAKE", "VECTOR_BUILDER_FREEZE", "DICT_NEW"},
   builder_rewritable |-> f = "VECTOR_APPEND"]

atom_is_local(a, x) == a.k = "Local" /\ a.x = x
LocalsOf(as) == {as[i].x : i \in {j \in DOMAIN as : as[j].k = "Local"}}

\* The function of a direct call, or "".
CalleeOf(op) == IF op.k = "Call" /\ op.es[1].k = "Func" THEN op.es[1].f ELSE ""
ArgsOf(op) == Tail(op.es)
IsReadOnly(op) == CalleeOf(op) # "" /\ op_semantics(CalleeOf(op)).no_retain

RECURSIVE tail_returns_local(_, _)
tail_returns_local(ns, x) ==
  LET h == Head(ns)
  IN  CASE h.k = "Let" -> OpOf(h) = Init_(Local(x)) /\ tail_returns_local(Tail(ns), h.x)
        [] h.k = "Local" -> h.x = x
        [] OTHER -> h = Return(<<Local(x)>>)

tail_is_fresh_record(ns) ==
  \E i \in DOMAIN ns : /\ ns[i].k = "Let"
                       /\ OpOf(ns[i]).k = "Record"
                       /\ tail_returns_local(SubSeq(ns, i + 1, Len(ns)), ns[i].x)

NoWrapper == [wrapped |-> "", arg_map |-> <<>>, fresh_record |-> FALSE]

\* alias maps a local to the index of the parameter it names.
RECURSIVE summarize_cow_wrapper(_, _, _)
summarize_cow_wrapper(ns, alias, nparams) ==
  LET h == Head(ns)
      op == OpOf(h)
      f == CalleeOf(op)
      a == ArgsOf(op)
  IN  CASE h.k = "Let" /\ op.k = "Init" /\ op.es[1].k = "Local" /\ op.es[1].x \in DOMAIN alias ->
             summarize_cow_wrapper(Tail(ns), Bind(alias, h.x, alias[op.es[1].x]), nparams)
        [] h.k = "Let" /\ op.k = "Call" /\ f # "" ->
             IF /\ op_semantics(f).cow
                /\ Len(a) = nparams
                /\ \A i \in DOMAIN a : a[i].k = "Local" /\ a[i].x \in DOMAIN alias
                /\ tail_returns_local(Tail(ns), h.x)
             THEN [wrapped |-> f, arg_map |-> [i \in 1..Len(a) |-> alias[a[i].x]], fresh_record |-> FALSE]
             ELSE NoWrapper
        [] OTHER -> NoWrapper

summarize_tiny_wrapper(fn) ==
  [summarize_cow_wrapper(fn.body.es,
                         [x \in Range(fn.params) |-> CHOOSE i \in DOMAIN fn.params : fn.params[i] = x],
                         Len(fn.params))
     EXCEPT !.fresh_record = tail_is_fresh_record(fn.body.es)]

collect_tiny_wrapper_summaries(fs) ==
  LET all == [f \in DOMAIN fs |-> summarize_tiny_wrapper(fs[f])]
  IN  [f \in {g \in DOMAIN fs : all[g] # NoWrapper} |-> all[f]]

\* A direct call as an update of its first argument, seen through a wrapper; f = "" if it is none.
resolve_cow_call(op, W) ==
  LET f == CalleeOf(op)
      a == ArgsOf(op)
  IN  CASE f # "" /\ op_semantics(f).cow -> [f |-> f, args |-> a]
        [] f \in DOMAIN W /\ W[f].wrapped # "" /\ Len(a) = Len(W[f].arg_map) ->
             [f |-> W[f].wrapped, args |-> [i \in 1..Len(a) |-> a[W[f].arg_map[i]]]]
        [] OTHER -> [f |-> "", args |-> <<>>]

\* The call updates local x.
UpdatesLocal(c, x) == c.f # "" /\ atom_is_local(c.args[1], x)

base_can_rewrite(x, T, F) == x \in F.unique /\ (x \notin T \/ x \in F.refreshed)

RECURSIVE expr_always_terminates(_)
expr_always_terminates(e) ==
  CASE e.k \in {"Return", "Break", "Continue"} -> TRUE
    [] e.k = "Block" -> \E i \in DOMAIN e.es : expr_always_terminates(e.es[i])
    [] e.k = "Let" -> expr_always_terminates(OpOf(e))
    [] e.k \in {"If", "Match"} -> \A i \in DOMAIN e.es : IsBody(e, i) => expr_always_terminates(e.es[i])
    [] OTHER -> FALSE

is_fresh_producer(op) ==
  op.k \in {"Array", "Record", "Variant"} \/ (CalleeOf(op) # "" /\ op_semantics(CalleeOf(op)).fresh_producer)
-----------------------------------------------------------------------------
(* Which locals an operation mentions.                                       *)

op_uses_local_non_recursive(op, x) ==
  \/ op.k = "Assign" /\ op.x = x
  \/ \E i \in DOMAIN op.es : ~ IsBody(op, i) /\ atom_is_local(op.es[i], x)

RECURSIVE expr_mentions_local(_, _)
expr_mentions_local(e, x) ==
  \/ e.k \in {"Local", "Assign"} /\ e.x = x
  \/ \E i \in DOMAIN e.es : expr_mentions_local(e.es[i], x)

op_has_local_in_nested_scope(op, x) ==
  \/ op.k = "Closure" /\ x \in LocalsOf(op.es)
  \/ \E i \in DOMAIN op.es : IsBody(op, i) /\ expr_mentions_local(op.es[i], x)

\* The chain goes on with y := x, z := y, ... and then base = z.
RECURSIVE is_consume_reassign(_, _, _)
is_consume_reassign(ns, base, x) ==
  LET h == Head(ns)
  IN  h.k = "Let" /\ (\/ OpOf(h) = Assign(base, Local(x))
                      \/ OpOf(h) = Init_(Local(x)) /\ is_consume_reassign(Tail(ns), base, h.x))
-----------------------------------------------------------------------------
(* Taint.                                                                    *)

RECURSIVE scan_tainted_expr(_, _, _, _), scan_tainted_op(_, _, _, _)
\* out: live after the operation this chain is nested in; T: tainted so far.
scan_tainted_expr(ns, out, T, W) ==
  IF Head(ns).k # "Let" THEN T
  ELSE LET op == OpOf(Head(ns))
           live == Live(Tail(ns))
           src == IF op.k \in {"Init", "Assign"} THEN LocalsOf(op.es) ELSE {}
           T1 == T \cup {y \in src : y \in live \/ (op.k = "Assign" /\ y \in out)}
           T2 == scan_tainted_op(op, live, T1, W)
           T3 == scan_tainted_expr(Tail(ns), out, T2, W)
       IN  T3 \cup {y \in src : op.k = "Init" /\ y \in out /\ Head(ns).x \in T3}

scan_tainted_op(op, live, T, W) ==
  LET f == CalleeOf(op)
      a == ArgsOf(op)
      c == resolve_cow_call(op, W)
  IN  CASE op.k \in {"Closure", "Array", "Record", "Variant"} -> T \cup LocalsOf(op.es)
        [] op.k = "Call" /\ c.f # "" -> T \cup LocalsOf(Tail(c.args))
        [] op.k = "Call" /\ c.f = "" /\ f = "VECTOR_CONCAT" ->
             T \cup LocalsOf(<<a[2]>>) \cup (LocalsOf(<<a[1]>>) \cap live)
        [] op.k = "Call" /\ c.f = "" /\ f # "VECTOR_CONCAT" -> T \cup (IF IsReadOnly(op) THEN {} ELSE LocalsOf(a))
        [] op.k \in {"If", "Match", "Loop", "Defer"} ->
             FoldLeftDomain(LAMBDA S, i : IF IsBody(op, i) THEN scan_tainted_expr(op.es[i].es, live, S, W) ELSE S,
                            T, op.es)
        [] OTHER -> T

IsCowBase(op, x) ==
  \/ CalleeOf(op) # "" /\ op_semantics(CalleeOf(op)).cow /\ atom_is_local(op.es[2], x)
  \/ op.k = "Update" /\ atom_is_local(op.es[1], x)

collect_cow_reassign_targets_spine(ns) ==
  {x \in UNION {LocalsOf(OpOf(ns[i]).es) : i \in 1..(Len(ns) - 1)} :
     \E i \in 1..(Len(ns) - 1) : IsCowBase(OpOf(ns[i]), x)
                                 /\ is_consume_reassign(SubSeq(ns, i + 1, Len(ns)), x, ns[i].x)}

op_escapes_local(op, x) ==
  CASE op.k \in {"Closure", "Array", "Record", "Variant"} -> x \in LocalsOf(op.es)
    [] op.k = "Call" -> x \in (CASE CalleeOf(op) # "" /\ op_semantics(CalleeOf(op)).cow -> LocalsOf(Tail(ArgsOf(op)))
                                 [] IsReadOnly(op) -> {}
                                 [] OTHER -> LocalsOf(ArgsOf(op)))
    [] OTHER -> FALSE

all_escapes_after_last_cow_use(ns, x) ==
  LET lets == 1..(Len(ns) - 1)
      escapes == {i \in lets : op_escapes_local(OpOf(ns[i]), x)}
  IN  /\ escapes # {}
      /\ \A i \in lets : /\ ~ op_has_local_in_nested_scope(OpOf(ns[i]), x)
                         /\ IsCowBase(OpOf(ns[i]), x) => \A j \in escapes : i <= j

refine_tainted_for_reassigned_locals(ns, T) ==
  T \ {x \in collect_cow_reassign_targets_spine(ns) : all_escapes_after_last_cow_use(ns, x)}

collect_tainted(func, W) ==
  refine_tainted_for_reassigned_locals(func.body.es,
    scan_tainted_expr(func.body.es, {}, Range(func.params), W))
-----------------------------------------------------------------------------
(* Vector builders: a run of xs = xs.append(v) and xs = xs.concat(ys).       *)

match_builder_region_step(ns, base, W) ==
  LET op == OpOf(Head(ns))
      c == resolve_cow_call(op, W)
      Fits(args) == /\ Len(args) = 2
                    /\ atom_is_local(args[1], base)
                    /\ ~ atom_is_local(args[2], base)
                    /\ is_consume_reassign(Tail(ns), base, Head(ns).x)
  IN  CASE Head(ns).k # "Let" -> ""
        [] Head(ns).k = "Let" /\ c.f # "" /\ op_semantics(c.f).builder_rewritable /\ Fits(c.args) -> "Push"
        [] Head(ns).k = "Let" /\ CalleeOf(op) = "VECTOR_CONCAT" /\ Fits(ArgsOf(op)) -> "Extend"
        [] OTHER -> ""

BuilderId == [Push |-> "VECTOR_BUILDER_PUSH", Extend |-> "VECTOR_BUILDER_EXTEND"]

\* The rewritten step; the binding that follows it becomes void, whatever it was.
BuilderStep(ns, builder, step) ==
  <<Let_(Head(ns).x, [OpOf(Head(ns)) EXCEPT !.es[1] = Func(BuilderId[step]), !.es[2] = Local(builder)]),
    Let_(ns[2].x, Init_(LitVoid))>>

base_can_start_builder_region(x, T, F, also) ==
  /\ x \in F.unique
  /\ \/ x \notin T \/ x \in F.refreshed
     \/ x \in F.empty
     \/ x \in F.bsafe
     \/ x \in also

\* The base of the builder region that starts here, as a set of at most one local.
detect_spine_builder_base(ns, T, F, W) ==
  LET op == OpOf(Head(ns))
  IN  IF Head(ns).k # "Let" THEN {}
      ELSE {x \in LocalsOf(op.es) : /\ match_builder_region_step(ns, x, W) # ""
                                    /\ base_can_start_builder_region(x, T, F, F.fresh)}

RECURSIVE spine_builder_steps(_, _, _)
spine_builder_steps(ns, base, W) ==
  LET op == OpOf(Head(ns))
      step == match_builder_region_step(ns, base, W)
  IN  CASE Head(ns).k # "Let" -> <<>>
        [] step # "" -> <<step>> \o spine_builder_steps(SubSeq(ns, 3, Len(ns)), base, W)
        [] Head(ns).k = "Let" /\ step = "" ->
             IF \/ op_uses_local_non_recursive(op, base) /\ ~ IsReadOnly(op)
                \/ op_has_local_in_nested_scope(op, base)
             THEN <<>> ELSE spine_builder_steps(Tail(ns), base, W)

count_spine_builder_steps(ns, base, W) == Len(spine_builder_steps(ns, base, W))
spine_builder_region_has_extend(ns, base, W) == "Extend" \in Range(spine_builder_steps(ns, base, W))

RECURSIVE rewrite_spine_builder_steps(_, _, _, _, _)
rewrite_spine_builder_steps(ns, base, builder, target, W) ==
  LET step == match_builder_region_step(ns, base, W)
  IN  CASE target = 0 \/ Head(ns).k # "Let" -> ns
        [] target > 0 /\ step # "" ->
             BuilderStep(ns, builder, step)
               \o rewrite_spine_builder_steps(SubSeq(ns, 3, Len(ns)), base, builder, target - 1, W)
        [] OTHER -> <<Head(ns)>> \o rewrite_spine_builder_steps(Tail(ns), base, builder, target, W)

is_builder_step(l) == l.k = "Let" /\ CalleeOf(OpOf(l)) \in Range(BuilderId)

has_builder_step_downstream(ns) == \E i \in DOMAIN ns : is_builder_step(ns[i])

RECURSIVE count_builder_chain_len(_)
count_builder_chain_len(ns) ==
  LET h == Head(ns)
  IN  CASE h.k # "Let" -> 0
        [] is_builder_step(h) -> 2 + count_builder_chain_len(SubSeq(ns, 3, Len(ns)))
        [] h.k = "Let" /\ ~ is_builder_step(h) ->
             IF OpOf(h) = Init_(LitVoid) \/ has_builder_step_downstream(Tail(ns))
             THEN 1 + count_builder_chain_len(Tail(ns)) ELSE 0

\* builder_new for an empty base, builder_from otherwise.
OpenBuilder(builder, base, F) ==
  <<Let_(builder, IF base \in F.empty THEN Call("VECTOR_BUILDER_NEW", <<>>)
                  ELSE Call("VECTOR_BUILDER_FROM", <<Local(base)>>))>>
Freeze(x, builder) == <<Let_(x, Call("VECTOR_BUILDER_FREEZE", <<Local(builder)>>))>>
FreezeInto(n, base) == Freeze(n + 1, n) \o <<Let_(n + 2, Assign(base, Local(n + 1)))>>

spine_builder_rewrite(ns, base, F, W) ==
  LET b == F.n
      steps == rewrite_spine_builder_steps(ns, base, b, count_spine_builder_steps(ns, base, W), W)
      tail == count_builder_chain_len(steps)
  IN  OpenBuilder(b, base, F) \o SubSeq(steps, 1, tail) \o FreezeInto(b, base) \o SubSeq(steps, tail + 1, Len(steps))

\* t := xs.concat(ys) where xs is not read again.
detect_dead_concat_base(ns, T, F) ==
  LET op == OpOf(Head(ns))
      a == ArgsOf(op)
      rest == Tail(ns)
  IN  IF Head(ns).k # "Let" THEN {}
      ELSE {x \in LocalsOf(op.es) :
              /\ CalleeOf(op) = "VECTOR_CONCAT" /\ atom_is_local(a[1], x) /\ ~ atom_is_local(a[2], x)
              /\ LocalsOf(<<a[2]>>) \cap collect_assigned_locals(Block(rest)) = {}
              /\ expr_mentions_local(Block(rest), x) => is_consume_reassign(rest, x, Head(ns).x)
              /\ base_can_start_builder_region(x, T, F, F.fresh)}

dead_concat_rewrite(ns, base, F) ==
  LET n == F.n
  IN  OpenBuilder(n, base, F)
      \o <<Let_(n + 1, Call("VECTOR_BUILDER_EXTEND", <<Local(n), ArgsOf(OpOf(Head(ns)))[2]>>))>>
      \o Freeze(n + 2, n)
      \o <<Let_(Head(ns).x, Init_(Local(n + 2)))>> \o Tail(ns)
-----------------------------------------------------------------------------
(* Loops that update one local in every iteration.                           *)

is_cow_consume_reassign(ns, base, W) ==
  LET c == resolve_cow_call(OpOf(Head(ns)), W)
  IN  /\ UpdatesLocal(c, base)
      /\ base \notin LocalsOf(Tail(c.args))
      /\ is_consume_reassign(Tail(ns), base, Head(ns).x)

DictStep(ns, base, W) ==
  IF /\ Head(ns).k = "Let"
     /\ LET c == resolve_cow_call(OpOf(Head(ns)), W) IN c.f # "" /\ op_semantics(c.f).in_place
     /\ is_cow_consume_reassign(ns, base, W)
  THEN "Swap" ELSE ""

\* kind "builder": appends and concats; kind "dict": updates with an in-place variant.
LoopStep(ns, base, kind, W) ==
  IF kind = "builder" THEN match_builder_region_step(ns, base, W) ELSE DictStep(ns, base, W)

Sites(m, n) == IF m < 0 \/ n < 0 THEN -1 ELSE m + n

\* The number of steps on base in a loop body, or -1 when base is used in any other way.
RECURSIVE analyze_loop_expr(_, _, _, _)
analyze_loop_expr(ns, base, kind, W) ==
  LET h == Head(ns)
      op == OpOf(h)
  IN  CASE h.k # "Let" -> IF base \in LocalsOf(<<h>> \o h.es) THEN -1 ELSE 0
        [] h.k = "Let" /\ LoopStep(ns, base, kind, W) # "" ->
             Sites(1, analyze_loop_expr(SubSeq(ns, 3, Len(ns)), base, kind, W))
        [] OTHER ->
             IF op_uses_local_non_recursive(op, base) /\ ~ (kind = "dict" /\ IsReadOnly(op)) THEN -1
             ELSE Sites(FoldLeftDomain(LAMBDA m, i : IF IsBody(op, i)
                                                     THEN Sites(m, analyze_loop_expr(op.es[i].es, base, kind, W)) ELSE m,
                                       0, op.es),
                        analyze_loop_expr(Tail(ns), base, kind, W))

RECURSIVE rewrite_loop_expr(_, _, _, _, _)
rewrite_loop_expr(ns, base, builder, kind, W) ==
  LET h == Head(ns)
      op == OpOf(h)
      step == LoopStep(ns, base, kind, W)
      rest == rewrite_loop_expr(SubSeq(ns, 3, Len(ns)), base, builder, kind, W)
  IN  CASE h.k # "Let" -> ns
        [] step = "Swap" ->
             <<Let_(h.x, [op EXCEPT !.es[1] = Func(InPlaceId[resolve_cow_call(op, W).f])]), ns[2]>> \o rest
        [] step \in {"Push", "Extend"} -> BuilderStep(ns, builder, step) \o rest
        [] OTHER ->
             <<Let_(h.x, [op EXCEPT !.es = [i \in 1..Len(@) |->
                  IF IsBody(op, i) THEN Block(rewrite_loop_expr(@[i].es, base, builder, kind, W)) ELSE @[i]]])>>
             \o rewrite_loop_expr(Tail(ns), base, builder, kind, W)

LoopBody(ns) == OpOf(Head(ns)).es[1].es
IsLoop(ns) == Head(ns).k = "Let" /\ OpOf(Head(ns)).k = "Loop"

loop_builder_candidates(ns, T, F, W) ==
  {x \in F.unique : /\ base_can_start_builder_region(x, T, F, F.fresh)
                    /\ analyze_loop_expr(LoopBody(ns), x, "builder", W) > 0}

loop_builder_rewrite(ns, base, F, W) ==
  OpenBuilder(F.n, base, F)
  \o <<Let_(Head(ns).x, Loop(Block(rewrite_loop_expr(LoopBody(ns), base, F.n, "builder", W))))>>
  \o FreezeInto(F.n, base) \o Tail(ns)

loop_dict_candidates(ns, F, W) ==
  {x \in F.unique \cap F.fresh : analyze_loop_expr(LoopBody(ns), x, "dict", W) > 0}
-----------------------------------------------------------------------------
(* What each operation does to the facts.                                    *)

Move(S, y, x) == IF y \in S THEN (S \ {y}) \cup {x} ELSE S
AddIf(S, c, x) == IF c THEN S \cup {x} ELSE S

producer_facts(x, op, T, F, W) ==
  LET made == is_fresh_producer(op) \/ (CalleeOf(op) \in DOMAIN W /\ W[CalleeOf(op)].fresh_record)
      stored == IF op.k \in {"Array", "Record", "Variant", "Closure"} THEN LocalsOf(op.es) ELSE {}
  IN  [F EXCEPT !.unique = AddIf(@, made, x),
                !.bsafe = AddIf(@, made /\ x \in T, x),
                !.fresh = AddIf(@, made, x) \ stored,
                !.empty = AddIf(@, op.k = "Array" /\ op.es = <<>>, x)]

\* A bind moves ownership only when the source is dead afterwards.
init_facts(x, y, rest, T, F) ==
  LET live == y \in Live(rest)
      moved == y \in F.unique /\ (y \notin T \/ y \in F.bsafe) /\ ~ live
      G == IF moved
           THEN [F EXCEPT !.unique = (@ \ {y}) \cup {x},
                          !.bsafe = AddIf(@, x \in T /\ y \in @, x),
                          !.fresh = Move(@, y, x)]
           ELSE [F EXCEPT !.unique = IF live THEN @ \ {y} ELSE @,
                          !.refreshed = IF live THEN @ \ {y} ELSE @,
                          !.fresh = @ \ {y}]
  IN  IF y \in T THEN G ELSE [G EXCEPT !.empty = Move(@, y, x), !.bsafe = Move(@, y, x)]

Forget(F, x) == [F EXCEPT !.unique = @ \ {x}, !.empty = @ \ {x}, !.refreshed = @ \ {x},
                          !.bsafe = @ \ {x}, !.fresh = @ \ {x}]

assign_facts(x, v, rest, T, F) ==
  LET F0 == Forget(F, x)
      y == v.x
      owned == y \in F0.unique
      moved == owned /\ (y \notin T \/ y \in F0.bsafe) /\ y \notin Live(rest)
      G == CASE moved -> [F0 EXCEPT !.unique = (@ \ {y}) \cup {x},
                                    !.refreshed = AddIf(@, x \in T, x),
                                    !.bsafe = AddIf(@, x \in T, x)]
             [] owned /\ ~ moved -> [F0 EXCEPT !.unique = @ \ {y}, !.fresh = @ \ {y}]
             [] OTHER -> F0
      H == IF x \in G.unique THEN [G EXCEPT !.fresh = Move(@, y, x)] ELSE G
  IN  CASE v.k # "Local" -> F0
        [] v.k = "Local" /\ y \in T -> H
        [] OTHER -> [H EXCEPT !.empty = Move(@, y, x), !.bsafe = Move(@, y, x)]

Consumed(base, x, rest) == is_consume_reassign(rest, base, x) \/ base \notin Live(rest)

\* The field's record has no later use but reads of other fields.
can_move_fresh_record_field(base, field, ns) ==
  /\ ~ atom_is_local(Last(ns), base) /\ base \notin LocalsOf(Last(ns).es)
  /\ \A i \in 1..(Len(ns) - 1) :
       LET op == OpOf(ns[i])
       IN  /\ ~ op_has_local_in_nested_scope(op, base)
           /\ op_uses_local_non_recursive(op, base) => op.k = "Get" /\ op.x # field

\* new is stored by a record update before anything else mentions it.
RECURSIVE stored_back(_, _)
stored_back(ns, new) ==
  LET op == OpOf(Head(ns))
  IN  /\ Head(ns).k = "Let"
      /\ \/ op.k = "Update" /\ atom_is_local(op.es[2], new)
         \/ /\ ~ op_has_local_in_nested_scope(op, new)
            /\ ~ op_uses_local_non_recursive(op, new)
            /\ stored_back(Tail(ns), new)

RECURSIVE is_field_borrow_and_update(_, _, _)
is_field_borrow_and_update(x, ns, W) ==
  LET op == OpOf(Head(ns))
      c == resolve_cow_call(op, W)
  IN  CASE Head(ns).k # "Let" -> FALSE
        [] Head(ns).k = "Let" /\ UpdatesLocal(c, x) /\ op_semantics(c.f).in_place ->
             x \notin Live(Tail(ns)) /\ stored_back(Tail(ns), Head(ns).x)
        [] OTHER -> /\ ~ op_has_local_in_nested_scope(op, x)
                    /\ ~ op_uses_local_non_recursive(op, x)
                    /\ is_field_borrow_and_update(x, Tail(ns), W)

get_facts(x, base, field, rest, T, F, W) ==
  LET dies == (base \in F.unique \/ base \in F.refreshed) /\ base \notin Live(rest)
      moves == base \in F.fresh /\ can_move_fresh_record_field(base, field, rest)
      G == [F EXCEPT !.unique = @ \cup {x}, !.refreshed = AddIf(@, x \in T, x)]
  IN  CASE dies -> G
        [] ~ dies /\ moves -> [G EXCEPT !.fresh = @ \ {base}]
        [] ~ dies /\ ~ moves /\ base_can_rewrite(base, T, F) /\ is_field_borrow_and_update(x, rest, W) ->
             [F EXCEPT !.unique = @ \cup {x}]
        [] OTHER -> F

\* The whole container must be owned, not only its header, before an in-place variant is used.
Deep_(c, base, T, F) ==
  IF op_semantics(c.f).in_place THEN base \in F.unique \cap F.fresh ELSE base_can_rewrite(base, T, F)

\* An update of a local: the operation as rewritten, and the facts.
cow_call(x, op, c, rest, T, F) ==
  LET base == c.args[1].x
      sem == op_semantics(c.f)
      deep == Deep_(c, base, T, F)
      keeps == sem.builder_rewritable /\ base_can_start_builder_region(base, T, F, {})
  IN  CASE Consumed(base, x, rest) /\ (deep \/ keeps) ->
             [op |-> IF deep /\ sem.in_place THEN [op EXCEPT !.es[1] = Func(InPlaceId[c.f])] ELSE op,
              F |-> [F EXCEPT !.unique = @ \cup {x}, !.fresh = AddIf(@, base \in @, x),
                              !.bsafe = AddIf(@, x \in T /\ keeps, x), !.empty = @ \ {x}]]
        [] Consumed(base, x, rest) /\ ~ (deep \/ keeps) /\ sem.fresh_if_copied /\ x \notin T ->
             [op |-> op, F |-> [F EXCEPT !.unique = @ \cup {x}, !.empty = @ \ {x}]]
        [] OTHER -> [op |-> op, F |-> F]

\* Mutant: an opaque call is taken not to keep its arguments.
other_call_factsKept(x, op, T, F) == F

other_call_facts(x, op, T, F) ==
  LET a == ArgsOf(op)
  IN  CASE CalleeOf(op) = "VECTOR_CONCAT" ->
             [F EXCEPT !.unique = AddIf(@, x \notin T, x), !.empty = IF x \notin T THEN @ \ {x} ELSE @,
                       !.fresh = @ \ (LocalsOf(<<a[1]>>) \cap T)]
        [] IsReadOnly(op) -> F
        [] OTHER -> [F EXCEPT !.fresh = @ \ LocalsOf(a)]

\* One binding x := op, before its branches are visited.
point_rewrite(x, op, rest, T, F, W) ==
  LET c == resolve_cow_call(op, W)
      G == producer_facts(x, op, T, F, W)
      Only(H) == [op |-> op, F |-> H]
  IN  CASE op.k = "Init" /\ op.es[1].k = "Local" -> Only(init_facts(x, op.es[1].x, rest, T, G))
        [] op.k = "Assign" -> Only(assign_facts(op.x, op.es[1], rest, T, G))
        [] op.k = "Update" /\ op.es[1].k = "Local" ->
             LET H == [G EXCEPT !.unique = @ \cup {x}]
             IN  [op |-> IF base_can_rewrite(op.es[1].x, T, H) /\ Consumed(op.es[1].x, x, rest)
                         THEN [op EXCEPT !.f = "inplace"] ELSE op, F |-> H]
        [] op.k = "Get" /\ op.es[1].k = "Local" -> Only(get_facts(x, op.es[1].x, op.x, rest, T, G, W))
        [] op.k = "Call" /\ c.f # "" -> IF c.args[1].k = "Local" THEN cow_call(x, op, c, rest, T, G) ELSE Only(G)
        [] op.k = "Call" /\ c.f = "" -> Only(other_call_facts(x, op, T, G))
        [] OTHER -> Only(G)
-----------------------------------------------------------------------------
RECURSIVE rewrite_expr(_, _, _, _), rewrite_op(_, _, _, _), rewrite_bodies(_, _, _, _, _)

\* The bodies of op from the i-th child on, each from the facts F; ends are the facts at the
\* ends of those that do not always terminate.
rewrite_bodies(op, i, T, F, W) ==
  IF i > Len(op.es) THEN [es |-> <<>>, ends |-> {}, n |-> F.n]
  ELSE LET r == IF IsBody(op, i) THEN rewrite_expr(op.es[i].es, T, F, W) ELSE [es |-> <<>>, F |-> F]
           rest == rewrite_bodies(op, i + 1, T, [F EXCEPT !.n = r.F.n], W)
           e == IF IsBody(op, i) THEN Block(r.es) ELSE op.es[i]
       IN  [es |-> <<e>> \o rest.es, n |-> rest.n,
            ends |-> rest.ends \cup (IF IsBody(op, i) /\ ~ expr_always_terminates(e) THEN {r.F} ELSE {})]

Common(ends, S(_)) == {x \in UNION {S(G) : G \in ends} : \A G \in ends : x \in S(G)}

Join(F, ends, n) ==
  IF ends = {} THEN [F EXCEPT !.n = n]
  ELSE [unique |-> Common(ends, LAMBDA G : G.unique), empty |-> Common(ends, LAMBDA G : G.empty),
        refreshed |-> Common(ends, LAMBDA G : G.refreshed), bsafe |-> Common(ends, LAMBDA G : G.bsafe),
        fresh |-> Common(ends, LAMBDA G : G.fresh), n |-> n, pick |-> F.pick]

NoFacts(n, pick) == [unique |-> {}, empty |-> {}, refreshed |-> {}, bsafe |-> {}, fresh |-> {}, n |-> n, pick |-> pick]

\* A loop body starts with no facts; afterwards some facts about what it assigns are dropped.
rewrite_op(op, T, F, W) ==
  CASE op.k \in {"If", "Match"} ->
         LET r == rewrite_bodies(op, 1, T, F, W) IN [op |-> [op EXCEPT !.es = r.es], F |-> Join(F, r.ends, r.n)]
    [] op.k = "Loop" ->
         LET r == rewrite_expr(op.es[1].es, T, NoFacts(F.n, F.pick), W)
             set == collect_assigned_locals(Block(r.es))
         IN  [op |-> Loop(Block(r.es)),
              F |-> [F EXCEPT !.empty = @ \ set, !.bsafe = @ \ set, !.fresh = @ \ set, !.n = r.F.n]]
    [] OTHER -> [op |-> op, F |-> F]

rewrite_expr(ns, T, F, W) ==
  LET h == Head(ns)
      spine == {x \in detect_spine_builder_base(ns, T, F, W) :
                  count_spine_builder_steps(ns, x, W) >= 2 \/ spine_builder_region_has_extend(ns, x, W)}
      concat == detect_dead_concat_base(ns, T, F)
      builders == IF IsLoop(ns) THEN loop_builder_candidates(ns, T, F, W) ELSE {}
      dicts == IF IsLoop(ns) THEN loop_dict_candidates(ns, F, W) ELSE {}
      Taken(n) == [F EXCEPT !.n = n]
      Bound(x, r, rest) == [es |-> <<Let_(x, r.op)>> \o rest.es, F |-> rest.F]
  IN
  CASE spine # {} -> rewrite_expr(spine_builder_rewrite(ns, Min(spine), F, W), T, Taken(F.n + 3), W)
    [] spine = {} /\ concat # {} -> rewrite_expr(dead_concat_rewrite(ns, Min(concat), F), T, Taken(F.n + 3), W)
    [] h.k # "Let" -> [es |-> ns, F |-> F]
    [] spine = {} /\ concat = {} /\ builders # {} ->
         rewrite_expr(loop_builder_rewrite(ns, Min(builders), F, W), T, Taken(F.n + 3), W)
    [] builders = {} /\ dicts # {} ->
         LET base == IF F.pick = "first" THEN Min(dicts) ELSE Max(dicts)
             o == rewrite_op(Loop(Block(rewrite_loop_expr(LoopBody(ns), base, 0, "dict", W))), T, F, W)
         IN  Bound(h.x, o, rewrite_expr(Tail(ns), T, [o.F EXCEPT !.fresh = @ \cup {base}], W))
    [] OTHER ->
         LET p == point_rewrite(h.x, OpOf(h), Tail(ns), T, F, W)
             o == rewrite_op(p.op, T, p.F, W)
         IN  Bound(h.x, o, rewrite_expr(Tail(ns), T, o.F, W))

uniqueness_rewrite(func, W, pick) ==
  [func EXCEPT !.body = Block(rewrite_expr(@.es, collect_tainted(func, W), NoFacts(next_local_id(func), pick), W).es)]
=============================================================================
