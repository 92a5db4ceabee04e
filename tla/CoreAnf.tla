------------------------------ MODULE CoreAnf ------------------------------
(***************************************************************************)
(* Core IR, its lowering to ANF (src/src/ir/lower_anf.rs), the walks over   *)
(* ANF that the optimizer and the emitter share (src/src/ir/anf/            *)
(* analysis.rs) and the verifier that gates both ends of the optimizer      *)
(* (src/src/ir/anf/verify.rs).                                              *)
(*                                                                          *)
(* Every piece of either IR is one kind of node.  An atom, an operation, a  *)
(* terminal, a pattern and a value of the running program all have a kind,  *)
(* a name, a number and children, so that a walk that treats the children   *)
(* of every operation alike is one line.  Types are left out: the only      *)
(* thing kept of op_result_mono is which locals have an entry.              *)
(***************************************************************************)
EXTENDS Integers, Sequences, FiniteSets, FiniteSetsExt, SequencesExt

N(k, f, x, es) == [k |-> k, f |-> f, x |-> x, es |-> es]

LitInt(n) == N("Int", "", n, <<>>)
LitBool(b) == N("Bool", "", IF b THEN 1 ELSE 0, <<>>)
LitVoid == N("Void", "", 0, <<>>)
Local(x) == N("Local", "", x, <<>>)
Func(f) == N("Func", f, 0, <<>>)

Literals == {"Int", "Bool", "Void", "Func"}
Atoms == Literals \cup {"Local"}
Terminals == Atoms \cup {"Return", "Break", "Continue"}

Call(f, args) == N("Call", "", 0, <<Func(f)>> \o args)
CallOf(callee, args) == N("Call", "", 0, <<callee>> \o args)
If(c, t, e) == N("If", "", 0, <<c, t, e>>)
Match(s, arms) == N("Match", "", 0, <<s>> \o arms)
Loop(b) == N("Loop", "", 0, <<b>>)
BinOp(op, l, r) == N("BinOp", op, 0, <<l, r>>)
UnOp(op, e) == N("UnOp", op, 0, <<e>>)
MakeClosure(f, xs) == N("Closure", f, 0, [i \in DOMAIN xs |-> Local(xs[i])])
Record(es) == N("Record", "", 0, es)
RecordGet(e, field) == N("Get", "", field, <<e>>)
RecordUpdate(e, field, v) == N("Update", "", field, <<e, v>>)
Variant(f, es) == N("Variant", f, 0, es)
ArrayLit(es) == N("Array", "", 0, es)
Index(b, i) == N("Index", "", 0, <<b, i>>)
Init_(v) == N("Init", "", 0, <<v>>)
Assign(x, v) == N("Assign", "", x, <<v>>)
Defer(e) == N("Defer", "", 0, <<e>>)
CoreLet(x, v, body) == N("CLet", "", x, <<v, body>>)
Return(es) == N("Return", "", 0, es)
Break(es) == N("Break", "", 0, es)
Continue == N("Continue", "", 0, <<>>)

PWild == N("PWild", "", 0, <<>>)
PVar(x) == N("PVar", "", x, <<>>)
PInt(n) == N("PInt", "", n, <<>>)
PBool(b) == N("PBool", "", IF b THEN 1 ELSE 0, <<>>)
PVariant(f, ps) == N("PVariant", f, 0, ps)
Patterns == {"PWild", "PVar", "PInt", "PBool", "PVariant"}

\* An AnfExpr: let-bindings and then one terminal.
Let_(x, op) == N("Let", "", x, <<op>>)
Block(ns) == N("Block", "", 0, ns)
OpOf(let) == let.es[1]

\* Which children of an operation are expressions with a scope of their own.
IsBody(e, i) ==
  \/ e.k = "If" /\ i > 1
  \/ e.k = "Match" /\ i > 1 /\ i % 2 = 1
  \/ e.k \in {"Loop", "Defer"}

MapEs(e, F(_)) == [e EXCEPT !.es = [i \in DOMAIN e.es |-> F(e.es[i])]]

\* The locals a node names: reads, binders, assignment targets, pattern variables.
Names(e) == IF e.k \in {"Local", "PVar", "CLet", "Let", "Assign"} THEN {e.x} ELSE {}

RECURSIVE max_local_id_in_expr(_)
max_local_id_in_expr(e) ==
  Max({0} \cup Names(e) \cup {max_local_id_in_expr(e.es[i]) : i \in DOMAIN e.es})

max_local_id_in_func(params, body) ==
  Max({max_local_id_in_expr(body)} \cup Range(params))
-----------------------------------------------------------------------------
(* Lowering.  s.acc is the let-accumulator, s.n the next temporary and      *)
(* s.mono the locals with an op_result_mono entry.                           *)

fresh(s) == s.n

push_accum_op(s, x, op) == [s EXCEPT !.acc = Append(@, Let_(x, op)), !.mono = @ \cup {x}]

PushTemp(s, op) == [push_accum_op(s, fresh(s), op) EXCEPT !.n = @ + 1]

build_lets(accum, tail) == accum \o tail

splice_atom_bind(anf, x) ==
  IF Last(anf).k \in Atoms THEN Front(anf) \o <<Let_(x, Init_(Last(anf))), Local(x)>> ELSE anf

\* The let-chain goes into the accumulator, and so does a binding of its result; the chain
\* already ends in x, so x is bound to itself a second time.
flatten_into_accum(s, anf, x) ==
  push_accum_op([s EXCEPT !.acc = @ \o Front(anf)], x, Init_(Last(anf)))

RECURSIVE lower_expr(_, _), lower_expr_top(_, _), lower_op(_, _), lower_kids(_, _, _), atomize(_, _)
lower_expr_top(e, s) ==
  LET l == lower_expr(e, [s EXCEPT !.acc = <<>>])
  IN  [s |-> [l.s EXCEPT !.acc = s.acc], es |-> build_lets(l.s.acc, l.r)]

lower_expr(e, s) ==
  CASE e.k \in Terminals /\ e.es = <<>> -> [s |-> s, r |-> <<e>>]
    [] e.k \in Terminals /\ e.es # <<>> ->
         LET v == atomize(e.es[1], s) IN [s |-> v.s, r |-> <<[e EXCEPT !.es = <<v.a>>]>>]
    [] e.k = "CLet" ->
         LET v == lower_expr(e.es[1], [s EXCEPT !.acc = <<>>])
         IN  IF Len(v.r) = 1 /\ v.r[1].k \in Atoms
             THEN lower_expr(e.es[2], push_accum_op([v.s EXCEPT !.acc = s.acc \o @], e.x, Init_(v.r[1])))
             ELSE [s |-> [v.s EXCEPT !.acc = s.acc], r |-> build_lets(v.s.acc, v.r)]
    [] OTHER -> LET o == lower_op(e, s) IN [s |-> o.s, r |-> <<o.a>>]

\* Operands left to right, then one binding of the operation to a fresh temporary.
lower_op(e, s) ==
  LET k == lower_kids(e, 1, s)
  IN  [s |-> PushTemp(k.s, [e EXCEPT !.es = k.es]),
       a |-> IF e.k \in {"Assign", "Defer"} THEN LitVoid ELSE Local(fresh(k.s))]

\* Mutant: the lets of a branch go into the enclosing accumulator.
lower_kidsHoisted(e, i, s) ==
  IF i > Len(e.es) THEN [es |-> <<>>, s |-> s]
  ELSE LET l == CASE IsBody(e, i) -> LET t == lower_expr(e.es[i], s) IN [s |-> t.s, a |-> Block(t.r)]
                  [] e.es[i].k \in Patterns -> [s |-> s, a |-> e.es[i]]
                  [] OTHER -> atomize(e.es[i], s)
           rest == lower_kids(e, i + 1, l.s)
       IN  [es |-> <<l.a>> \o rest.es, s |-> rest.s]

lower_kids(e, i, s) ==
  IF i > Len(e.es) THEN [es |-> <<>>, s |-> s]
  ELSE LET l == CASE IsBody(e, i) -> LET t == lower_expr_top(e.es[i], s) IN [s |-> t.s, a |-> Block(t.es)]
                  [] e.es[i].k \in Patterns -> [s |-> s, a |-> e.es[i]]
                  [] OTHER -> atomize(e.es[i], s)
           rest == lower_kids(e, i + 1, l.s)
       IN  [es |-> <<l.a>> \o rest.es, s |-> rest.s]

atomize(e, s) ==
  CASE e.k \in Atoms -> [s |-> s, a |-> e]
    [] e.k \in {"If", "Match", "Loop", "CLet"} ->
         LET t == lower_expr_top(e, s)
             x == fresh(t.s)
         IN  [s |-> flatten_into_accum([t.s EXCEPT !.n = @ + 1], splice_atom_bind(t.es, x), x), a |-> Local(x)]
    [] OTHER -> lower_op(e, s)

lower_func(params, body) ==
  LET t == lower_expr_top(body, [acc |-> <<>>, n |-> max_local_id_in_func(params, body) + 1, mono |-> {}])
  IN  [params |-> params, body |-> Block(t.es), mono |-> t.s.mono]
-----------------------------------------------------------------------------
(* Shared analyses.                                                          *)

RECURSIVE collect_pattern_bindings(_)
collect_pattern_bindings(p) ==
  IF p.k = "PVar" THEN {p.x} ELSE UNION {collect_pattern_bindings(p.es[i]) : i \in DOMAIN p.es}

\* The locals an arm's pattern brings into the scope of child i of e.
PatternOf(e, i) == IF e.k = "Match" /\ IsBody(e, i) THEN collect_pattern_bindings(e.es[i - 1]) ELSE {}

RECURSIVE collect_free_locals(_, _)
collect_free_locals(e, declared) ==
  IF e.k = "Block" /\ e.es # <<>> /\ Head(e.es).k = "Let"
  THEN collect_free_locals(OpOf(Head(e.es)), declared)
       \cup collect_free_locals(Block(Tail(e.es)), declared \cup {Head(e.es).x})
  ELSE ((IF e.k \in {"Local", "Assign"} THEN {e.x} ELSE {}) \ declared)
       \cup UNION {collect_free_locals(e.es[i], declared \cup PatternOf(e, i)) :
                     i \in {j \in DOMAIN e.es : e.es[j].k \notin Patterns}}

RECURSIVE collect_bound_locals(_)
collect_bound_locals(e) ==
  (IF e.k = "Let" THEN {e.x} ELSE {}) \cup UNION {collect_bound_locals(e.es[i]) : i \in DOMAIN e.es}

RECURSIVE collect_init_binding_locals(_)
collect_init_binding_locals(e) ==
  (IF e.k = "Let" /\ OpOf(e).k = "Init" THEN {e.x} ELSE {})
    \cup UNION {collect_init_binding_locals(e.es[i]) : i \in DOMAIN e.es}

RECURSIVE collect_assigned_locals(_)
collect_assigned_locals(e) ==
  (IF e.k = "Assign" THEN {e.x} ELSE {}) \cup UNION {collect_assigned_locals(e.es[i]) : i \in DOMAIN e.es}

RECURSIVE expr_always_diverges(_)
expr_always_diverges(e) ==
  CASE e.k \in {"Return", "Break", "Continue"} -> TRUE
    [] e.k = "Block" -> \E i \in DOMAIN e.es : expr_always_diverges(e.es[i])
    [] e.k = "Let" -> expr_always_diverges(OpOf(e))
    [] e.k \in {"If", "Match"} -> \A i \in DOMAIN e.es : IsBody(e, i) => expr_always_diverges(e.es[i])
    [] OTHER -> FALSE
-----------------------------------------------------------------------------
(* The verifier: the set of invariants a function breaks.  The type          *)
(* comparisons are left out with the types.                                  *)

RECURSIVE verify_expr(_, _, _, _)
\* avail is declared and captured locals together, depth the number of enclosing loops.
verify_expr(e, avail, depth, reject_defer) ==
  LET Kid(i) == verify_expr(e.es[i], avail \cup PatternOf(e, i),
                            IF e.k = "Loop" THEN depth + 1 ELSE depth, reject_defer)
  IN  IF e.k = "Block" /\ e.es # <<>> /\ Head(e.es).k = "Let"
      THEN verify_expr(OpOf(Head(e.es)), avail, depth, reject_defer)
           \cup verify_expr(Block(Tail(e.es)), avail \cup {Head(e.es).x}, depth, reject_defer)
      ELSE (IF e.k = "Break" /\ depth = 0 THEN {"BreakOutsideLoop"} ELSE {})
           \cup (IF e.k = "Continue" /\ depth = 0 THEN {"ContinueOutsideLoop"} ELSE {})
           \cup (IF e.k = "Defer" /\ reject_defer THEN {"DeferSurvived"} ELSE {})
           \cup (IF e.k \in {"Local", "Assign"} /\ e.x \notin avail THEN {"UndeclaredLocal"} ELSE {})
           \cup UNION {Kid(i) : i \in {j \in DOMAIN e.es : e.es[j].k \notin Patterns}}

verify_op_result_mono(body, mono) ==
  IF collect_bound_locals(body) \subseteq mono THEN {} ELSE {"UndeclaredLocal"}

RECURSIVE verify_strict_locals(_, _)
verify_strict_locals(e, declared) ==
  IF e.k = "Block" /\ e.es # <<>> /\ Head(e.es).k = "Let"
  THEN verify_strict_locals(OpOf(Head(e.es)), declared)
       \cup verify_strict_locals(Block(Tail(e.es)), declared \cup {Head(e.es).x})
  ELSE (IF \/ e.k = "Assign" /\ e.x \notin declared
           \/ e.k = "Closure" /\ \E i \in DOMAIN e.es : e.es[i].x \notin declared
        THEN {"StrictUndeclaredLocal"} ELSE {})
       \cup UNION {verify_strict_locals(e.es[i], declared \cup PatternOf(e, i)) : i \in DOMAIN e.es}

RECURSIVE collect_capture_seeds(_, _)
collect_capture_seeds(e, f) ==
  (IF e.k = "Closure" /\ e.f = f THEN {e.es[i].x : i \in DOMAIN e.es} ELSE {})
    \cup UNION {collect_capture_seeds(e.es[i], f) : i \in DOMAIN e.es}

\* func.captures are the locals that the closures made of this function capture.
verify_function(func, captures, stage) ==
  LET params == Range(func.params)
  IN  verify_expr(func.body, params \cup collect_free_locals(func.body, params), 0, stage = "post_optimization")
      \cup (IF stage = "post_lowering" THEN verify_op_result_mono(func.body, func.mono) ELSE {})
      \cup (IF stage = "mid_optimization" THEN {} ELSE verify_strict_locals(func.body, params \cup captures))
=============================================================================
