---------------------------- MODULE SourceLower ----------------------------
(***************************************************************************)
(* The desugaring of the surface language into Core (src/src/ir/lower.rs):   *)
(* statements, the loops over each kind of collection, comprehensions, try,  *)
(* lvalues, comparisons of enums and of ordered records, lambdas and method  *)
(* values.  Names are resolved by the allocator of                           *)
(* src/src/ir/local_allocator.rs; a surface name is a number.                *)
(*                                                                          *)
(* A lowering takes a surface node and a state and yields a Core node and    *)
(* the state after it.  The state holds the next local n, the scope (which   *)
(* local a name denotes) and the functions hoisted so far.  Types are left   *)
(* out but for what directs the lowering: the kind of collection of a loop   *)
(* (field f of the node) and of a comparison (field x).                      *)
(***************************************************************************)
EXTENDS AnfEval

PTuple(ps) == N("PTuple", "", 0, ps)
Stmts(ss) == N("Stmts", "", 0, ss)
SLet(pat, v) == N("SLet", "", 0, <<pat, v>>)
Store_(lvalue, v) == N("Store", "", 0, <<lvalue, v>>)
For(kind, pat, idx, iter, body) == N("For", kind, 0, <<pat, idx, iter, body>>)
ForCond(c, body) == N("ForCond", "", 0, <<c, body>>)
Collect(kind, pat, idx, iter, body) == N("Collect", kind, 0, <<pat, idx, iter, body>>)
CollectWhile(c, body) == N("CollectWhile", "", 0, <<c, body>>)
Try(kind, e) == N("Try", kind, 0, <<e>>)
Cond(arms) == N("Cond", "", 0, arms)
RecordLit(fields) == N("RecordLit", "", 0, fields)
Field(i, v) == N("Field", "", i, <<v>>)
Lambda(params, body) == N("Lambda", "", 0, <<body>> \o params)
MethodRef(f, e) == N("MethodRef", f, 0, <<e>>)
\* kind of a comparison: 0 primitive, 1 a record with a compare method, 2 the enum Order.
Compare(op, kind, l, r) == N("BinOp", op, kind, <<l, r>>)
-----------------------------------------------------------------------------
(* The local allocator.                                                      *)

alloc(s) == [s EXCEPT !.n = @ + 1]
alloc_and_bind(s, name) == [s EXCEPT !.n = @ + 1, !.scope = Bind(@, name, s.n)]
lookup(s, name) == s.scope[name]
pop_scope(s, outer) == [s EXCEPT !.scope = outer.scope]

Temps(s, k) == [s EXCEPT !.n = @ + k]
Low(e, s) == [e |-> e, s |-> s]

predeclare_tuple_pattern(s, pat) ==
  LET names == FlattenSeq([i \in 1..Len(pat.es) |-> IF pat.es[i].k = "PVar" THEN <<pat.es[i].x>> ELSE <<>>])
  IN  FoldLeft(alloc_and_bind, s, names)

\* Each name of the tuple is bound to its field, around the body.
lower_tuple_pattern_bindings(s, base, pat, body) ==
  FoldRight(LAMBDA i, acc : IF pat.es[i].k = "PVar"
                            THEN CoreLet(lookup(s, pat.es[i].x), RecordGet(Local(base), i), acc) ELSE acc,
            [i \in 1..Len(pat.es) |-> i], body)

\* The local of a loop's element, with the names of the pattern in scope.
BindElement(s, pat) ==
  CASE pat.k = "PVar" -> alloc_and_bind(s, pat.x)
    [] pat.k = "PTuple" -> predeclare_tuple_pattern(alloc(s), pat)
    [] OTHER -> alloc(s)
BindIndex(s, idx) == IF idx.k = "PVar" THEN alloc_and_bind(s, idx.x) ELSE s

WrapElement(s, base, pat, body) ==
  IF pat.k = "PTuple" THEN lower_tuple_pattern_bindings(s, base, pat, body) ELSE body

\* let x = value in body, for a list of pairs.
Lets(bs, body) == FoldRight(LAMBDA b, acc : CoreLet(b[1], b[2], acc), bs, body)

\* The optional binding of the user's index.
IndexLet(s, idx, v) == IF idx.k = "PVar" THEN <<<<lookup(s, idx.x), v>>>> ELSE <<>>

lower_pattern_names(pat) == SetToSortSeq(collect_pattern_bindings(pat), <)
RECURSIVE lower_pattern(_, _)
lower_pattern(pat, s) ==
  IF pat.k = "PVar" THEN PVar(lookup(s, pat.x))
  ELSE [pat EXCEPT !.es = [i \in DOMAIN pat.es |-> lower_pattern(pat.es[i], s)]]
-----------------------------------------------------------------------------
(* Shapes that need no further lowering.                                     *)

Plus(x, d) == BinOp("Add", Local(x), d)
AtEnd(x, end) == BinOp("Ge", Local(x), Local(end))

\* `for cond { body }'
lower_for_cond(cond, body) == Loop(If(UnOp("Not", cond), Break(<<>>), body))

\* One pass of a loop body over a vector: arr, len and idx are the locals a, a + 1 and a + 2.
vector_for_body(a, elem, bind, body, t) ==
  If(AtEnd(a + 2, a + 1), Break(<<>>),
     Lets(<<<<elem, Index(Local(a), Local(a + 2))>>>> \o bind
          \o <<<<t, Assign(a + 2, Plus(a + 2, LitInt(1)))>>, <<t + 1, body>>>>, Continue))

lower_vector_for(iter, a, loop) ==
  Lets(<<<<a, iter>>, <<a + 1, Call("VECTOR_LEN", <<Local(a)>>)>>, <<a + 2, LitInt(0)>>>>, loop)

\* dict, keys, len and idx are d .. d + 3; the second name of the loop is the value.
dict_for_body(d, elem, bind, body, t) ==
  If(AtEnd(d + 3, d + 2), Break(<<>>),
     Lets(<<<<elem, Index(Local(d + 1), Local(d + 3))>>>> \o bind
          \o <<<<t, Assign(d + 3, Plus(d + 3, LitInt(1)))>>, <<t + 1, body>>>>, Continue))

dict_value(d, elem) == Call("DICT_GET_UNSAFE", <<Local(d), Local(elem)>>)

lower_dict_for(iter, d, loop) ==
  Lets(<<<<d, iter>>, <<d + 1, Call("DICT_KEYS", <<Local(d)>>)>>,
         <<d + 2, Call("VECTOR_LEN", <<Local(d + 1)>>)>>, <<d + 3, LitInt(0)>>>>, loop)

\* The iterator's local is i, its next item i + 1 and the item's payload i + 2.
iterator_step(i, elem, bind, done, rest) ==
  CoreLet(i + 1, Call("ITERATOR_NEXT", <<Local(i)>>),
    Match(Local(i + 1), <<PVariant("None", <<>>), done,
                          PVariant("Some", <<PVar(i + 2)>>),
                          Lets(<<<<elem, RecordGet(Local(i + 2), 1)>>>> \o bind, rest)>>))

\* The iterator's index i + 3 is counted after the body, where a continue does not come by.
CountUp(i, idx, t) == IF idx.k = "PVar" THEN <<<<t, Assign(i + 3, Plus(i + 3, LitInt(1)))>>>> ELSE <<>>
Advance(i, t) == <<<<t, Assign(i, RecordGet(Local(i + 2), 2))>>>>

iterator_for_body(i, elem, idx, bind, body, t) ==
  iterator_step(i, elem, bind \o Advance(i, t) \o <<<<t + 1, body>>>> \o CountUp(i, idx, t + 2), Break(<<>>), Continue)

lower_iterator(iter, i, idx, loop) ==
  CoreLet(i, iter, IF idx.k = "PVar" THEN CoreLet(i + 3, LitInt(0), loop) ELSE loop)

\* r, cur, end and step are r .. r + 3; the user's index is the current number itself.
range_for_body(r, elem, bind, body, t) ==
  If(AtEnd(r + 1, r + 2), Break(<<>>),
     Lets(<<<<elem, Local(r + 1)>>>> \o bind
          \o <<<<t, Assign(r + 1, Plus(r + 1, Local(r + 3)))>>, <<t + 1, body>>>>, Continue))

lower_range_fields(iter, r, rest) ==
  Lets(<<<<r, iter>>>> \o [i \in 1..3 |-> <<r + i, RecordGet(Local(r), i)>>], rest)


range_done(r) ==
  If(BinOp("Gt", Local(r + 3), LitInt(0)), AtEnd(r + 1, r + 2),
     If(BinOp("Lt", Local(r + 3), LitInt(0)), BinOp("Le", Local(r + 1), Local(r + 2)), LitBool(TRUE)))

\* ceil(distance / step), for either sign of the step.
RoundUp(distance, step) == BinOp("Div", BinOp("Add", distance, BinOp("Sub", step, LitInt(1))), step)
range_len(r) ==
  LET abs == BinOp("Sub", LitInt(0), Local(r + 3))
  IN  If(BinOp("Gt", Local(r + 3), LitInt(0)),
         If(AtEnd(r + 1, r + 2), LitInt(0), RoundUp(BinOp("Sub", Local(r + 2), Local(r + 1)), Local(r + 3))),
         If(BinOp("Lt", Local(r + 3), LitInt(0)),
            If(BinOp("Le", Local(r + 1), Local(r + 2)), LitInt(0),
               RoundUp(BinOp("Sub", Local(r + 1), Local(r + 2)), abs)),
            LitInt(0)))

\* A range comprehension fills a vector made at its full length: r + 4 is the length, r + 5 the next
\* slot, r + 6 the index and r + 7 the vector.
range_collect_body(r, elem, bind, body, t) ==
  If(range_done(r), Break(<<Local(r + 7)>>),
     Lets(<<<<elem, Local(r + 1)>>>> \o bind
          \o <<<<t, Assign(r + 1, Plus(r + 1, Local(r + 3)))>>,
               <<t + 1, Assign(r + 6, Plus(r + 6, LitInt(1)))>>,
               <<t + 2, body>>,
               <<t + 3, Assign(r + 7, Call("VECTOR_SET_IN_PLACE", <<Local(r + 7), Local(r + 5), Local(t + 2)>>))>>,
               <<t + 4, Assign(r + 5, Plus(r + 5, LitInt(1)))>>>>, Continue))

range_collect_frame(iter, r, loop, t) ==
  lower_range_fields(iter, r,
    Lets(<<<<r + 4, range_len(r)>>, <<r + 5, LitInt(0)>>, <<r + 6, LitInt(0)>>,
           <<r + 7, Call("VECTOR_MAKE", <<Local(r + 4), LitVoid>>)>>, <<t, loop>>>>,
         Call("VECTOR_SLICE", <<Local(r + 7), LitInt(0), Local(r + 5)>>)))

\* The other comprehensions push onto a builder b; a body that continues skips the push.
PushAndGoOn(b, body, t) ==
  Lets(<<<<t, body>>, <<t + 1, Call("VECTOR_BUILDER_PUSH", <<Local(b), Local(t)>>)>>>>, Continue)
FreezeAfter(b, loop, t) == CoreLet(t, loop, Call("VECTOR_BUILDER_FREEZE", <<Local(b)>>))
NewBuilder(b, rest) == CoreLet(b, Call("VECTOR_BUILDER_NEW", <<>>), rest)

lower_collect(iter, a, b, loop, t) == lower_vector_for(iter, a, NewBuilder(b, FreezeAfter(b, loop, t)))
lower_dict_collect(iter, d, b, loop, t) == lower_dict_for(iter, d, NewBuilder(b, FreezeAfter(b, loop, t)))
lower_iterator_collect(iter, i, idx, b, loop) == NewBuilder(b, lower_iterator(iter, i, idx, loop))
lower_collect_while(cond, b, body, t) ==
  NewBuilder(b, FreezeAfter(b, Loop(If(cond, PushAndGoOn(b, body, t), Break(<<>>))), t + 2))

vector_collect_body(a, b, elem, bind, body, t) ==
  If(AtEnd(a + 2, a + 1), Break(<<>>),
     Lets(<<<<elem, Index(Local(a), Local(a + 2))>>>> \o bind
          \o <<<<t, Assign(a + 2, Plus(a + 2, LitInt(1)))>>>>, PushAndGoOn(b, body, t + 1)))

dict_collect_body(d, b, elem, bind, body, t) ==
  If(AtEnd(d + 3, d + 2), Break(<<>>),
     Lets(<<<<elem, Index(Local(d + 1), Local(d + 3))>>>> \o bind
          \o <<<<t, Assign(d + 3, Plus(d + 3, LitInt(1)))>>>>, PushAndGoOn(b, body, t + 1)))

iterator_collect_body(i, b, elem, idx, bind, body, t) ==
  iterator_step(i, elem, bind \o Advance(i, t)
                  \o <<<<t + 1, body>>, <<t + 2, Call("VECTOR_BUILDER_PUSH", <<Local(b), Local(t + 1)>>)>>>>
                  \o CountUp(i, idx, t + 3),
                Break(<<Call("VECTOR_BUILDER_FREEZE", <<Local(b)>>)>>), Continue)

\* On normal exit the payload, otherwise the function returns the failure.
try_option(e, t) ==
  CoreLet(t, e, Match(Local(t), <<PVariant("Some", <<PVar(t + 1)>>), Local(t + 1),
                                  PVariant("None", <<>>), Return(<<Variant("None", <<>>)>>)>>))
try_result(e, t) ==
  CoreLet(t, e, Match(Local(t), <<PVariant("Ok", <<PVar(t + 1)>>), Local(t + 1),
                                  PVariant("Err", <<PVar(t + 2)>>), Return(<<Variant("Err", <<Local(t + 2)>>)>>)>>))

\* Comparison operators on a type with a compare method, by its Order.
lower_ord_cmp(op, l, r) ==
  LET decides == [Lt |-> "Lt", Gt |-> "Gt", Le |-> "Gt", Ge |-> "Lt"][op]
      strict == op \in {"Lt", "Gt"}
  IN  Match(Call("compare", <<l, r>>), <<PVariant(decides, <<>>), LitBool(strict), PWild, LitBool(~ strict)>>)

Orders == <<"Lt", "Eq", "Gt">>
IsUnit(e) == e.k = "Variant" /\ e.es = <<>>
build_unit_variant_compare(op, scrutinee, v) ==
  Match(scrutinee, <<PVariant(v, <<>>), LitBool(op = "Eq"), PWild, LitBool(op # "Eq")>>)
build_unit_sum_compare(op, l, r) ==
  Match(l, FlattenSeq([i \in 1..3 |-> <<PVariant(Orders[i], <<>>), build_unit_variant_compare(op, r, Orders[i])>>])
           \o <<PWild, LitBool(op = "Ne")>>)
lower_unit_variant_compare(op, l, r) ==
  CASE IsUnit(r) -> build_unit_variant_compare(op, l, r.f)
    [] ~ IsUnit(r) /\ IsUnit(l) -> build_unit_variant_compare(op, r, l.f)
    [] OTHER -> build_unit_sum_compare(op, l, r)

\* A lambda's captures: the locals it reads or assigns and does not bind, in any order.
RECURSIVE collect_local_refs(_, _)
collect_local_refs(e, bound) ==
  (IF e.k \in {"Local", "Assign"} THEN {e.x} \ bound ELSE {})
    \cup UNION {collect_local_refs(e.es[i], bound \cup (CASE e.k = "CLet" /\ i = 2 -> {e.x}
                                                          [] e.k = "Match" -> PatternOf(e, i)
                                                          [] OTHER -> {})) :
                  i \in {j \in DOMAIN e.es : e.es[j].k \notin Patterns}}
-----------------------------------------------------------------------------
RECURSIVE lower_source(_, _), lower_all(_, _, _), lower_stmts(_, _), lower_loop(_, _), lower_lvalue_chain(_, _, _)

\* What is lowered next starts from the state that the lowering l leaves.
After(l, Rest(_)) == Rest(l)

lower_all(es, i, s) ==
  IF i > Len(es) THEN [es |-> <<>>, s |-> s]
  ELSE After(lower_source(es[i], s), LAMBDA h :
       After(lower_all(es, i + 1, h.s), LAMBDA t : [es |-> <<h.e>> \o t.es, s |-> t.s]))

\* The body sees a scope of its own.
InScope(e, s) == After(lower_source(e, s), LAMBDA l : Low(l.e, pop_scope(l.s, s)))

\* let x = v in the statements ss; names of the pattern are bound around them.
Around(x, v, pat, s, ss) ==
  After(lower_stmts(ss, s), LAMBDA t : Low(CoreLet(x, v, WrapElement(s, x, pat, t.e)), t.s))

lower_stmts(ss, s) ==
  IF ss = <<>> THEN Low(LitVoid, s)
  ELSE CASE Head(ss).k = "SLet" ->
              After(lower_source(Head(ss).es[2], s), LAMBDA v :
                Around(v.s.n, v.e, Head(ss).es[1], BindElement(v.s, Head(ss).es[1]), Tail(ss)))
         [] Head(ss).k \in {"Return", "Break", "Continue"} ->
              After(lower_all(Head(ss).es, 1, s), LAMBDA v :
                Low([Head(ss) EXCEPT !.es = IF Head(ss).k = "Return" /\ v.es = <<LitVoid>> THEN <<>> ELSE v.es], v.s))
         [] OTHER ->
              After(IF Head(ss).k \in {"For", "ForCond"} THEN lower_loop(Head(ss), s) ELSE lower_source(Head(ss), s),
                LAMBDA v : IF Tail(ss) = <<>> /\ Head(ss).k \notin {"Assign", "Store", "Defer", "For", "ForCond"}
                           THEN v ELSE Around(v.s.n, v.e, PWild, alloc(v.s), Tail(ss)))

\* One pass of the loop e; Ix binds the user's index.
LoopPass(e, a, elem, Ix(_), inner, t) ==
  CASE e.k = "For" /\ e.f = "vec" -> vector_for_body(a, elem, Ix(Local(a + 2)), inner, t)
    [] e.k = "For" /\ e.f = "dict" -> dict_for_body(a, elem, Ix(dict_value(a, elem)), inner, t)
    [] e.k = "For" /\ e.f = "iter" -> iterator_for_body(a, elem, e.es[2], Ix(Local(a + 3)), inner, t)
    [] e.k = "For" /\ e.f = "range" -> range_for_body(a, elem, Ix(Local(a + 1)), inner, t)
    [] e.k = "Collect" /\ e.f = "vec" -> vector_collect_body(a, a + 7, elem, Ix(Local(a + 2)), inner, t)
    [] e.k = "Collect" /\ e.f = "dict" -> dict_collect_body(a, a + 7, elem, Ix(dict_value(a, elem)), inner, t)
    [] e.k = "Collect" /\ e.f = "iter" -> iterator_collect_body(a, a + 7, elem, e.es[2], Ix(Local(a + 3)), inner, t)
    [] e.k = "Collect" /\ e.f = "range" -> range_collect_body(a, elem, Ix(Local(a + 6)), inner, t)

\* The loop inside its prologue and, for a comprehension, around its result.
LoopFrame(e, iter, a, loop, t) ==
  CASE e.k = "For" /\ e.f = "vec" -> lower_vector_for(iter, a, loop)
    [] e.k = "For" /\ e.f = "dict" -> lower_dict_for(iter, a, loop)
    [] e.k = "For" /\ e.f = "iter" -> lower_iterator(iter, a, e.es[2], loop)
    [] e.k = "For" /\ e.f = "range" -> lower_range_fields(iter, a, loop)
    [] e.k = "Collect" /\ e.f = "vec" -> lower_collect(iter, a, a + 7, loop, t)
    [] e.k = "Collect" /\ e.f = "dict" -> lower_dict_collect(iter, a, a + 7, loop, t)
    [] e.k = "Collect" /\ e.f = "iter" -> lower_iterator_collect(iter, a, e.es[2], a + 7, loop)
    [] e.k = "Collect" /\ e.f = "range" -> range_collect_frame(iter, a, loop, t)

\* it is the lowered collection, elem the element's local and s2 the state in which the body is
\* lowered: the loop's own locals, the builder last, lie between it.s.n and elem.
LoopOver(e, it, elem, s2) ==
  After(lower_source(e.es[4], s2), LAMBDA body :
    Low(LoopFrame(e, it.e, it.s.n,
          Loop(LoopPass(e, it.s.n, elem, LAMBDA v : IndexLet(s2, e.es[2], v),
                        WrapElement(s2, elem, e.es[1], body.e), body.s.n)), body.s.n + 5),
        Temps(body.s, 6)))

\* A loop; e.es is the element's pattern, the index's pattern, the collection, the body.
lower_loop(e, s) ==
  IF e.k = "ForCond" THEN
    After(lower_source(e.es[1], s), LAMBDA c :
    After(InScope(e.es[2], c.s), LAMBDA b : Low(lower_for_cond(c.e, b.e), b.s)))
  ELSE
    After(lower_source(e.es[3], s), LAMBDA it :
    After(LoopOver(e, it, it.s.n + 8, BindIndex(BindElement(Temps(it.s, 8), e.es[1]), e.es[2])), LAMBDA l :
      Low(l.e, pop_scope(l.s, s))))

\* The new value of the variable at the root of an lvalue, and that variable.
lower_lvalue_chain(lhs, rhs, s) ==
  IF lhs.k = "Local" THEN Low(Assign(lookup(s, lhs.x), rhs), s)
  ELSE After(lower_source(lhs.es[1], s), LAMBDA base :
       After(IF lhs.k = "Index" THEN lower_source(lhs.es[2], base.s) ELSE base, LAMBDA i :
         lower_lvalue_chain(lhs.es[1],
           IF lhs.k = "Get" THEN RecordUpdate(base.e, lhs.x, rhs)
           ELSE Call(IF lhs.f = "dict" THEN "DICT_SET" ELSE "VECTOR_SET_UNSAFE", <<base.e, i.e, rhs>>), i.s)))

Hoist(s, f, params, free, body) ==
  [s EXCEPT !.fs = [g \in DOMAIN s.fs \cup {f} |->
                      IF g = f THEN [params |-> params, free |-> free, body |-> body] ELSE s.fs[g]]]

\* The closure over a body lowered with these parameters; s is the state outside.
Closure(f, params, free, body, s) ==
  Low(MakeClosure(f, free), Hoist(alloc(pop_scope(body.s, s)), f, params, free, body.e))

LambdaIn(e, params, s1, s) ==
  After(lower_source(e.es[1], s1), LAMBDA body :
    Closure("lambda" \o ToString(body.s.n), params,
            SetToSortSeq(collect_local_refs(body.e, Range(params)), <), body, s))

lower_lambda(e, s) ==
  After(FoldLeft(alloc_and_bind, s, [i \in 1..(Len(e.es) - 1) |-> e.es[i + 1].x]), LAMBDA s1 :
    LambdaIn(e, [i \in 1..(Len(e.es) - 1) |-> lookup(s1, e.es[i + 1].x)], s1, s))

\* receiver.method as a value: the receiver is evaluated once and captured.
BoundMethod(e, recv, f, base) ==
  Low(CoreLet(recv, base.e, MakeClosure(f, <<recv>>)),
      Hoist(Temps(base.s, 2), f, <<recv + 1>>, <<recv>>, Call(e.f, <<Local(recv), Local(recv + 1)>>)))

lower_method_value_ref_with_id(e, s) ==
  After(lower_source(e.es[1], s), LAMBDA base : BoundMethod(e, base.s.n, "method" \o ToString(base.s.n), base))

\* Arms from the last to the first; an arm without a condition replaces everything after it.
RECURSIVE lower_cond(_, _, _, _)
lower_cond(arms, i, result, s) ==
  IF i < 1 THEN Low(result, s)
  ELSE After(lower_all(arms[i].es, 1, s), LAMBDA arm :
       lower_cond(arms, i - 1, IF Len(arm.es) = 1 THEN arm.es[1] ELSE If(arm.es[1], arm.es[2], result), arm.s))

RECURSIVE lower_case_arms(_, _, _)
lower_case_arms(arms, i, s) ==
  IF i > Len(arms) THEN [es |-> <<>>, s |-> s]
  ELSE After(FoldLeft(alloc_and_bind, s, lower_pattern_names(arms[i])), LAMBDA s1 :
       After(lower_source(arms[i + 1], s1), LAMBDA body :
       After(lower_case_arms(arms, i + 2, pop_scope(body.s, s)), LAMBDA rest :
         [es |-> <<lower_pattern(arms[i], s1), body.e>> \o rest.es, s |-> rest.s])))

\* Fields are evaluated in the order of the type, whatever order the literal has.
InFieldOrder(vs, order) == Low(Record([i \in 1..Len(order) |-> vs.es[order[i]]]), vs.s)
lower_record_lit(e, s) ==
  InFieldOrder(lower_all([i \in 1..Len(e.es) |-> e.es[i].es[1]], 1, s),
               SetToSortSeq(DOMAIN e.es, LAMBDA i, j : e.es[i].x < e.es[j].x))

BinaryOf(e, l, r) ==
  CASE e.f = "And" -> If(l, r, LitBool(FALSE))
    [] e.f = "Or" -> If(l, LitBool(TRUE), r)
    [] e.f = "Range" -> Call("RANGE_FROM", <<l, r>>)
    [] e.f \in {"Eq", "Ne"} /\ e.x = 2 -> lower_unit_variant_compare(e.f, l, r)
    [] e.f \in {"Lt", "Gt", "Le", "Ge"} /\ e.x = 1 -> lower_ord_cmp(e.f, l, r)
    [] OTHER -> BinOp(e.f, l, r)
lower_binary(e, s) == After(lower_all(e.es, 1, s), LAMBDA v : Low(BinaryOf(e, v.es[1], v.es[2]), v.s))

lower_source(e, s) ==
  CASE e.k = "Local" -> Low(Local(lookup(s, e.x)), s)
    [] e.k = "Stmts" -> After(lower_stmts(e.es, s), LAMBDA l : Low(l.e, pop_scope(l.s, s)))
    [] e.k = "Assign" -> After(lower_source(e.es[1], s), LAMBDA v : Low(Assign(lookup(v.s, e.x), v.e), v.s))
    [] e.k = "Store" -> After(lower_source(e.es[2], s), LAMBDA v : lower_lvalue_chain(e.es[1], v.e, v.s))
    [] e.k = "BinOp" -> lower_binary(e, s)
    [] e.k = "Cond" -> lower_cond(e.es, Len(e.es), LitVoid, s)
    [] e.k = "RecordLit" -> lower_record_lit(e, s)
    [] e.k = "Match" -> After(lower_source(e.es[1], s), LAMBDA v :
                        After(lower_case_arms(Tail(e.es), 1, v.s), LAMBDA arms : Low(Match(v.e, arms.es), arms.s)))
    [] e.k = "Collect" -> lower_loop(e, s)
    [] e.k = "CollectWhile" ->
         After(lower_source(e.es[1], alloc(s)), LAMBDA c :
         After(lower_source(e.es[2], c.s), LAMBDA body :
           Low(lower_collect_while(c.e, s.n, body.e, body.s.n), pop_scope(Temps(body.s, 3), s))))
    [] e.k = "Lambda" -> lower_lambda(e, s)
    [] e.k = "MethodRef" -> lower_method_value_ref_with_id(e, s)
    [] e.k = "Try" ->
         After(lower_source(e.es[1], s), LAMBDA v :
           Low(IF e.f = "option" THEN try_option(v.e, v.s.n) ELSE try_result(v.e, v.s.n), Temps(v.s, 3)))
    [] OTHER ->
         After(lower_all(e.es, 1, s), LAMBDA v :
           Low(IF e.k = "Index" /\ e.f = "dict" THEN Call("DICT_GET", v.es) ELSE [e EXCEPT !.es = v.es], v.s))

\* A function: its parameters are the first locals.
lower_function(params, body, fs) ==
  After(FoldLeft(alloc_and_bind, [n |-> 1, scope |-> <<>>, fs |-> fs], params), LAMBDA s1 :
  After(lower_source(body, s1), LAMBDA l :
    [f |-> [params |-> [i \in 1..Len(params) |-> lookup(s1, params[i])], free |-> <<>>, body |-> l.e], fs |-> l.s.fs]))
=============================================================================
