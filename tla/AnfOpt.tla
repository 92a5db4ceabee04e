------------------------------- MODULE AnfOpt -------------------------------
(***************************************************************************)
(* The optimizer's peephole passes (src/src/opt/passes.rs), the use counts   *)
(* they rest on (opt/use_count.rs), defer elimination (opt/defer_elim.rs)    *)
(* and the order they run in (opt/pipeline.rs).                              *)
(***************************************************************************)
EXTENDS AnfEval

CONSTANT MaxRounds   \* MAX_ROUNDS of the peephole loop

ASSUME MaxRoundsAssumption == MaxRounds \in Nat

RECURSIVE count_uses(_, _)
count_uses(e, x) ==
  (IF e.k = "Local" /\ e.x = x THEN 1 ELSE 0)
    + FoldLeft(LAMBDA n, k : n + count_uses(k, x), 0, e.es)

\* Closures are left out on the function's own chain only: inside a branch or a loop
\* count_op takes over, which counts captures.
count_uses_excluding_free_vars(body, x) ==
  FoldLeft(LAMBDA n, l : n + (IF l.k = "Let" /\ OpOf(l).k = "Closure" THEN 0 ELSE count_uses(l, x)), 0, body.es)

\* Mutant: a division counts as pure.
is_pureWithDivision(op) == op.k \in {"BinOp", "Init", "UnOp", "Record", "Get", "Update", "Variant", "Array", "Closure"}

is_pure(op) ==
  \/ op.k = "BinOp" /\ op.f \notin {"Div", "Mod"}
  \/ op.k \in {"Init", "UnOp", "Record", "Get", "Update", "Variant", "Array", "Closure"}

-----------------------------------------------------------------------------
\* Captured locals stay as they are: a capture slot cannot hold a literal.
RECURSIVE subst_atom(_, _, _)
subst_atom(e, x, a) ==
  CASE e.k = "Local" -> IF e.x = x THEN a ELSE e
    [] e.k = "Closure" -> e
    [] e.k = "Block" ->
         LET stop == {i \in DOMAIN e.es : e.es[i].k = "Let" /\ e.es[i].x = x}
         IN  [e EXCEPT !.es = [i \in DOMAIN e.es |->
                IF \E j \in stop : j < i THEN e.es[i] ELSE subst_atom(e.es[i], x, a)]]
    [] OTHER -> [e EXCEPT !.es = [i \in DOMAIN e.es |-> subst_atom(e.es[i], x, a)]]

RECURSIVE dead_let_elim(_, _, _)
dead_let_elim(e, root, assigned) ==
  IF e.k # "Block" THEN MapEs(e, LAMBDA k : dead_let_elim(k, root, assigned))
  ELSE [e EXCEPT !.es = LET kept == SelectSeq(@, LAMBDA l :
                              ~ (l.k = "Let" /\ is_pure(OpOf(l)) /\ l.x \notin assigned /\ count_uses(root, l.x) = 0))
                        IN  [i \in 1..Len(kept) |-> dead_let_elim(kept[i], root, assigned)]]

is_non_local_atom(a) == a.k \in Literals

\* A literal used once replaces its use; the rest of that chain is left for the next round.
RECURSIVE copy_propagate_inner(_, _, _)
copy_propagate_inner(e, root, assigned) ==
  IF e.k # "Block" THEN MapEs(e, LAMBDA k : copy_propagate_inner(k, root, assigned))
  ELSE LET Hit(l) == /\ l.k = "Let" /\ OpOf(l).k = "Init" /\ is_non_local_atom(OpOf(l).es[1])
                     /\ count_uses_excluding_free_vars(root, l.x) = 1 /\ l.x \notin assigned
           hits == {i \in DOMAIN e.es : Hit(e.es[i])}
           h == IF hits = {} THEN Len(e.es) + 1 ELSE Min(hits)
           before == [i \in 1..(h - 1) |-> copy_propagate_inner(e.es[i], root, assigned)]
       IN  [e EXCEPT !.es = IF hits = {} THEN before
              ELSE before \o subst_atom(Block(SubSeq(@, h + 1, Len(@))), @[h].x, OpOf(@[h]).es[1]).es]

copy_propagate_with_pinned(body, pinned) ==
  copy_propagate_inner(body, body, collect_assigned_locals(body) \cup pinned)

None == N("None", "", 0, <<>>)
Panic == N("Panic", "", 0, <<>>)

\* The compiler's own arithmetic wraps, except that Rust's / and % panic on overflow.
fold_binop(op, l, r) ==
  CASE l.k = "Int" /\ r.k = "Int" /\ op \in {"Div", "Mod"} ->
         IF r.x = 0 THEN None ELSE IF DivTraps(l.x, r.x) THEN Panic
         ELSE LitInt(IF op = "Div" THEN div_s(l.x, r.x) ELSE rem_s(l.x, r.x))
    [] l.k = "Int" /\ r.k = "Int" /\ op \in {"Add", "Sub", "Mul"} ->
         LitInt(wrapping(CASE op = "Add" -> l.x + r.x [] op = "Sub" -> l.x - r.x [] op = "Mul" -> l.x * r.x))
    [] l.k = r.k /\ l.k \in {"Int", "Bool"} /\ op \in {"Eq", "Ne"} -> LitBool((l.x = r.x) = (op = "Eq"))
    [] l.k = "Int" /\ r.k = "Int" /\ op = "Lt" -> LitBool(l.x < r.x)
    [] l.k = "Int" /\ r.k = "Int" /\ op = "Le" -> LitBool(l.x <= r.x)
    [] l.k = "Int" /\ r.k = "Int" /\ op = "Gt" -> LitBool(l.x > r.x)
    [] l.k = "Int" /\ r.k = "Int" /\ op = "Ge" -> LitBool(l.x >= r.x)
    [] OTHER -> None

fold_unop(op, a) ==
  CASE op = "Neg" /\ a.k = "Int" -> IF a.x = -MaxInt THEN Panic ELSE LitInt(-a.x)
    [] op = "Not" /\ a.k = "Bool" -> LitBool(a.x = 0)
    [] op = "BitNot" /\ a.k = "Int" -> LitInt(-a.x - 1)
    [] OTHER -> None

try_fold_op(op) ==
  CASE op.k = "BinOp" -> fold_binop(op.f, op.es[1], op.es[2])
    [] op.k = "UnOp" -> fold_unop(op.f, op.es[1])
    [] OTHER -> None

RECURSIVE constant_fold(_)
constant_fold(e) ==
  IF e.k = "Let" /\ try_fold_op(OpOf(e)) # None THEN Let_(e.x, Init_(try_fold_op(OpOf(e))))
  ELSE MapEs(e, constant_fold)

splice_branch(branch, x, continuation) ==
  IF Last(branch).k \in Atoms
  THEN Front(branch) \o <<Let_(x, Init_(Last(branch)))>> \o continuation
  ELSE branch

\* The first conditional on a literal is replaced; the rest of that chain waits for the next round.
RECURSIVE branch_simplify(_)
branch_simplify(e) ==
  IF e.k # "Block" THEN MapEs(e, branch_simplify)
  ELSE LET hits == {i \in DOMAIN e.es : e.es[i].k = "Let" /\ OpOf(e.es[i]).k = "If" /\ OpOf(e.es[i]).es[1].k = "Bool"}
           h == IF hits = {} THEN Len(e.es) + 1 ELSE Min(hits)
           before == [i \in 1..(h - 1) |-> branch_simplify(e.es[i])]
       IN  [e EXCEPT !.es =
              IF hits = {} THEN before
              ELSE LET op == OpOf(@[h])
                   IN  before \o splice_branch((IF op.es[1].x = 1 THEN op.es[2] ELSE op.es[3]).es,
                                               @[h].x, SubSeq(@, h + 1, Len(@)))]

Round(body, pinned) ==
  LET b1 == dead_let_elim(body, body, collect_assigned_locals(body) \cup pinned)
      b2 == copy_propagate_with_pinned(b1, pinned)
  IN  branch_simplify(constant_fold(b2))

RECURSIVE Rounds(_, _, _)
Rounds(body, pinned, n) ==
  LET next == Round(body, pinned)
  IN  IF n = 0 \/ next = body THEN body ELSE Rounds(next, pinned, n - 1)

run_peephole_passes(func, pinned) == [func EXCEPT !.body = Rounds(@, pinned, MaxRounds)]
-----------------------------------------------------------------------------
(* Defer elimination.                                                        *)

next_local_id(func) == Max({max_local_id_in_expr(func.body)} \cup Range(func.params)) + 1

RECURSIVE remap_expr(_, _)
remap_expr(e, remap) ==
  LET es == [i \in DOMAIN e.es |-> remap_expr(e.es[i], remap)]
  IN  [e EXCEPT !.es = es, !.x = IF e.k \in {"Local", "Assign"} /\ e.x \in DOMAIN remap THEN remap[e.x] ELSE e.x]

collect_defer_captures(d) == SetToSortSeq(collect_free_locals(d, {}), <)

splice_defer_before(deferred, continuation) ==
  IF Last(deferred).k \in Atoms THEN Front(deferred) \o continuation ELSE deferred

\* Mutant: the first declared ends up in front.
prepend_defersInOrder(defers, tail) ==
  FoldRight(LAMBDA d, acc : splice_defer_before(d.es, acc), defers, tail)

\* defers in the order they were declared; the last declared ends up in front.
prepend_defers(defers, tail) ==
  FoldLeft(LAMBDA acc, d : splice_defer_before(d.es, acc), tail, defers)

RECURSIVE elim(_, _, _, _, _, _), elim_op(_, _, _, _, _, _)
\* ns is a let-chain, fnd and lpd the function's and the loop's pending defers, bs the length of
\* lpd at the entry of the branch or -1 outside one.  Result: the chain and the next free local.
elim(ns, fnd, lpd, bs, in_loop, n) ==
  LET h == Head(ns)
      op == OpOf(h)
      t == Tail(ns)
  IN
  CASE h.k = "Let" /\ op.k = "Defer" ->
         LET caps == collect_defer_captures(op.es[1])
             remap == [x \in Range(caps) |-> n + (CHOOSE i \in DOMAIN caps : caps[i] = x) - 1]
             rest == elim(t, fnd, Append(lpd, remap_expr(op.es[1], remap)), bs, in_loop, n + Len(caps))
         IN  [es |-> [i \in DOMAIN caps |-> Let_(remap[caps[i]], Init_(Local(caps[i])))] \o rest.es, n |-> rest.n]
    [] h.k = "Let" /\ op.k # "Defer" ->
         LET o == elim_op(op, 1, fnd, lpd, in_loop, n)
             rest == elim(t, fnd, lpd, bs, in_loop, o.n)
         IN  [es |-> <<Let_(h.x, [op EXCEPT !.es = o.es])>> \o rest.es, n |-> rest.n]
    [] h.k = "Return" -> [es |-> prepend_defers(fnd \o lpd, ns), n |-> n]
    [] h.k \in {"Break", "Continue"} -> [es |-> prepend_defers(lpd, ns), n |-> n]
    [] h.k \in Atoms ->
         [es |-> prepend_defers(CASE bs >= 0 -> SubSeq(lpd, bs + 1, Len(lpd))
                                  [] bs < 0 /\ in_loop -> lpd
                                  [] OTHER -> fnd \o lpd, ns), n |-> n]

\* The children of op from the i-th on: branches keep the pending defers, a loop body starts afresh.
elim_op(op, i, fnd, lpd, in_loop, n) ==
  IF i > Len(op.es) THEN [es |-> <<>>, n |-> n]
  ELSE LET k == CASE ~ IsBody(op, i) -> [es |-> <<>>, n |-> n]
                  [] IsBody(op, i) /\ op.k = "Loop" -> elim(op.es[i].es, fnd \o lpd, <<>>, -1, TRUE, n)
                  [] OTHER -> elim(op.es[i].es, fnd, lpd, Len(lpd), in_loop, n)
           rest == elim_op(op, i + 1, fnd, lpd, in_loop, k.n)
       IN  [es |-> <<IF IsBody(op, i) THEN Block(k.es) ELSE op.es[i]>> \o rest.es, n |-> rest.n]

eliminate_defers(func) ==
  [func EXCEPT !.body = Block(elim(@.es, <<>>, <<>>, -1, FALSE, next_local_id(func)).es)]
=============================================================================
