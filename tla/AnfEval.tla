------------------------------ MODULE AnfEval ------------------------------
(***************************************************************************)
(* What a program does when it runs: the meaning of the instructions that   *)
(* src/src/codegen/emit.rs emits for each operation, with the runtime's     *)
(* dictionaries, vectors and records on a heap.  One evaluator serves Core  *)
(* and ANF, because an ANF operation is a Core operation whose operands are  *)
(* atoms; a Core `defer' runs at the exit of the block that declares it.    *)
(*                                                                          *)
(* A vector is a sequence of cells and a vector that is built from another  *)
(* shares its cells; a dictionary and a record are one heap object each.    *)
(* That is exactly what an in-place update can disturb.                     *)
(***************************************************************************)
EXTENDS CoreAnf

CONSTANTS MaxInt,   \* integers wrap at 2 * MaxInt, which stands for 2^64
          Fuel      \* loop iterations and calls before an evaluation gives up

ASSUME BoundsAssumption == MaxInt \in Nat \ {0} /\ Fuel \in Nat

\* Two's complement at the model's width.
wrapping(n) == ((n + MaxInt) % (2 * MaxInt)) - MaxInt

Abs(n) == IF n < 0 THEN -n ELSE n
Sign(n) == IF n < 0 THEN -1 ELSE 1

\* i64.div_s and i64.rem_s round towards zero; the quotient traps on overflow, the remainder does not.
div_s(a, b) == Sign(a) * Sign(b) * (Abs(a) \div Abs(b))
rem_s(a, b) == Sign(a) * (Abs(a) % Abs(b))
DivTraps(a, b) == b = 0 \/ (a = -MaxInt /\ b = -1)

emit_binop(op, a, b) ==
  CASE op = "Add" -> LitInt(wrapping(a + b))
    [] op = "Sub" -> LitInt(wrapping(a - b))
    [] op = "Mul" -> LitInt(wrapping(a * b))
    [] op = "Div" -> LitInt(div_s(a, b))
    [] op = "Mod" -> LitInt(rem_s(a, b))
    [] op = "Lt" -> LitBool(a < b)
    [] op = "Le" -> LitBool(a <= b)
    [] op = "Gt" -> LitBool(a > b)
    [] op = "Ge" -> LitBool(a >= b)
    [] op = "Eq" -> LitBool(a = b)
    [] op = "Ne" -> LitBool(a # b)

emit_unop(op, a) ==
  CASE op = "Neg" -> LitInt(wrapping(-a))
    [] op = "Not" -> LitBool(a = 0)
    [] op = "BitNot" -> LitInt(-a - 1)
-----------------------------------------------------------------------------
Ref(a) == N("Ref", "", a, <<>>)

\* A machine state: locals, heap, what was printed, what was kept, steps left, and the
\* deferred expressions of the block being run.
Start == [env |-> <<>>, heap |-> <<>>, out |-> <<>>, kept |-> <<>>, fuel |-> Fuel, ds |-> <<>>]

Bind(env, x, v) == [y \in DOMAIN env \cup {x} |-> IF y = x THEN v ELSE env[y]]
R(c, v, s) == [c |-> c, v |-> v, s |-> s]
Ok(v, s) == R("ok", v, s)
Trap(s) == R("trap", LitVoid, s)

Alloc(s, o) == Ok(Ref(Len(s.heap) + 1), [s EXCEPT !.heap = Append(@, o)])
Store(s, ref, o) == [s EXCEPT !.heap[ref.x] = o]
At(s, ref) == s.heap[ref.x]

Obj(k, es) == N(k, "", 0, es)

\* A value with everything it refers to, which is all a program can observe of it.
RECURSIVE Deep(_, _)
Deep(v, s) == IF v.k = "Ref" THEN Deep(At(s, v), s)
              ELSE [v EXCEPT !.es = [i \in DOMAIN v.es |-> Deep(v.es[i], s)]]

\* The cells that hold vs, allocated at the end of the heap.
NewCells(s, vs) ==
  [s |-> [s EXCEPT !.heap = @ \o [i \in 1..Len(vs) |-> Obj("Cell", <<vs[i]>>)]],
   es |-> [i \in 1..Len(vs) |-> Ref(Len(s.heap) + i)]]

emit_array_lit(vs, s) == LET c == NewCells(s, vs) IN Alloc(c.s, Obj("Vec", c.es))

VectorAppend(s, k, base, v) == LET c == NewCells(s, <<v>>) IN Alloc(c.s, Obj(k, At(s, base).es \o c.es))

\* set copies the one element's cell, set_in_place writes it.
VectorSet(s, base, i, v, inplace) ==
  IF i.x \notin 0..(Len(At(s, base).es) - 1) THEN Trap(s)
  ELSE IF inplace THEN Ok(base, Store(s, At(s, base).es[i.x + 1], Obj("Cell", <<v>>)))
  ELSE LET c == NewCells(s, <<v>>) IN Alloc(c.s, Obj("Vec", [At(s, base).es EXCEPT ![i.x + 1] = c.es[1]]))

emit_index(s, base, i) ==
  IF i.x \notin 0..(Len(At(s, base).es) - 1) THEN Trap(s)
  ELSE Ok(At(s, At(s, base).es[i.x + 1]).es[1], s)

Pair(k, v) == Obj("Pair", <<k, v>>)
Without(ps, k) == SelectSeq(ps, LAMBDA p : p.es[1] # k)
WithPair(ps, k, v) ==
  IF \E i \in DOMAIN ps : ps[i].es[1] = k
  THEN [i \in 1..Len(ps) |-> IF ps[i].es[1] = k THEN Pair(k, v) ELSE ps[i]]
  ELSE Append(ps, Pair(k, v))

\* An in-place update stores the new contents in the header it was given.
DictPut(s, base, ps, inplace) ==
  IF inplace THEN Ok(base, Store(s, base, Obj("Dict", ps))) ELSE Alloc(s, Obj("Dict", ps))

emit_record_update(s, e, base, v) ==
  LET o == [At(s, base) EXCEPT !.es = [i \in 1..Len(@) |-> IF i = e.x THEN v ELSE @[i]]]
  IN  IF e.f = "inplace" THEN Ok(base, Store(s, base, o)) ELSE Alloc(s, o)

\* The runtime functions the optimizer knows, and two it does not: PRINT looks at its argument,
\* RETAIN keeps it.
Builtins == {"VECTOR_SET_UNSAFE", "VECTOR_SET_IN_PLACE", "VECTOR_APPEND", "VECTOR_CONCAT", "VECTOR_LEN",
             "VECTOR_BUILDER_NEW", "VECTOR_BUILDER_FROM", "VECTOR_BUILDER_PUSH", "VECTOR_BUILDER_EXTEND",
             "VECTOR_BUILDER_FREEZE", "DICT_NEW", "DICT_SET", "DICT_SET_IN_PLACE", "DICT_REMOVE",
             "DICT_REMOVE_IN_PLACE", "DICT_LEN", "DICT_KEYS", "DICT_GET", "DICT_GET_UNSAFE", "VECTOR_MAKE",
             "VECTOR_SLICE", "ITERATOR_NEXT", "RANGE_FROM", "RANGE_STEP", "PRINT", "RETAIN"}

NoneValue == Variant("None", <<>>)
SomeValue(v) == Variant("Some", <<v>>)

dict_get(s, d, k) ==
  IF \E i \in DOMAIN At(s, d).es : At(s, d).es[i].es[1] = k
  THEN SomeValue(SelectSeq(At(s, d).es, LAMBDA p : p.es[1] = k)[1].es[2]) ELSE NoneValue

\* An iterator is the list of what it has still to yield.
iterator_next(s, it) ==
  IF it.es = <<>> THEN Ok(NoneValue, s)
  ELSE LET r == Alloc(s, Obj("Rec", <<Head(it.es), [it EXCEPT !.es = Tail(@)]>>)) IN Ok(SomeValue(r.v), r.s)

emit_call(f, a, s) ==
  CASE f = "VECTOR_SET_UNSAFE" -> VectorSet(s, a[1], a[2], a[3], FALSE)
    [] f = "VECTOR_SET_IN_PLACE" -> VectorSet(s, a[1], a[2], a[3], TRUE)
    [] f = "VECTOR_APPEND" -> VectorAppend(s, "Vec", a[1], a[2])
    [] f = "VECTOR_CONCAT" -> Alloc(s, Obj("Vec", At(s, a[1]).es \o At(s, a[2]).es))
    [] f \in {"VECTOR_LEN", "DICT_LEN"} -> Ok(LitInt(Len(At(s, a[1]).es)), s)
    [] f = "VECTOR_BUILDER_NEW" -> Alloc(s, Obj("Builder", <<>>))
    [] f = "VECTOR_BUILDER_FROM" -> Alloc(s, Obj("Builder", At(s, a[1]).es))
    [] f = "VECTOR_BUILDER_PUSH" ->
         LET c == NewCells(s, <<a[2]>>) IN Ok(LitVoid, Store(c.s, a[1], Obj("Builder", At(s, a[1]).es \o c.es)))
    [] f = "VECTOR_BUILDER_EXTEND" ->
         LET c == NewCells(s, [i \in 1..Len(At(s, a[2]).es) |-> At(s, At(s, a[2]).es[i]).es[1]])
         IN  Ok(LitVoid, Store(c.s, a[1], Obj("Builder", At(s, a[1]).es \o c.es)))
    [] f = "VECTOR_BUILDER_FREEZE" -> Alloc(s, Obj("Vec", At(s, a[1]).es))
    [] f = "DICT_NEW" -> Alloc(s, Obj("Dict", <<>>))
    [] f = "DICT_SET" -> DictPut(s, a[1], WithPair(At(s, a[1]).es, a[2], a[3]), FALSE)
    [] f = "DICT_SET_IN_PLACE" -> DictPut(s, a[1], WithPair(At(s, a[1]).es, a[2], a[3]), TRUE)
    [] f = "DICT_REMOVE" -> DictPut(s, a[1], Without(At(s, a[1]).es, a[2]), FALSE)
    [] f = "DICT_REMOVE_IN_PLACE" -> DictPut(s, a[1], Without(At(s, a[1]).es, a[2]), TRUE)
    [] f = "DICT_KEYS" -> emit_array_lit([i \in 1..Len(At(s, a[1]).es) |-> At(s, a[1]).es[i].es[1]], s)
    [] f = "DICT_GET" -> Ok(dict_get(s, a[1], a[2]), s)
    [] f = "DICT_GET_UNSAFE" -> LET v == dict_get(s, a[1], a[2]) IN IF v = NoneValue THEN Trap(s) ELSE Ok(v.es[1], s)
    [] f = "VECTOR_MAKE" -> emit_array_lit([i \in 1..a[1].x |-> a[2]], s)
    [] f = "VECTOR_SLICE" -> Alloc(s, Obj("Vec", SubSeq(At(s, a[1]).es, a[2].x + 1, a[3].x)))
    [] f = "ITERATOR_NEXT" -> iterator_next(s, a[1])
    [] f = "RANGE_FROM" -> Alloc(s, Obj("Rec", <<a[1], a[2], LitInt(1)>>))
    [] f = "RANGE_STEP" -> Alloc(s, Obj("Rec", a))
    [] f = "PRINT" -> Ok(LitVoid, [s EXCEPT !.out = Append(@, Deep(a[1], s))])
    [] f = "RETAIN" -> Ok(LitVoid, [s EXCEPT !.kept = Append(@, a[1])])

\* Pattern tests and bindings, in the order the emitted chain makes them.
RECURSIVE emit_pattern_condition(_, _), emit_pattern_bindings(_, _, _)
emit_pattern_condition(p, v) ==
  CASE p.k \in {"PWild", "PVar"} -> TRUE
    [] p.k \in {"PInt", "PBool"} -> p.x = v.x
    [] p.k = "PVariant" -> p.f = v.f /\ \A i \in DOMAIN p.es : emit_pattern_condition(p.es[i], v.es[i])

emit_pattern_bindings(p, v, env) ==
  CASE p.k = "PVar" -> Bind(env, p.x, v)
    [] p.k = "PVariant" -> FoldLeftDomain(LAMBDA e, i : emit_pattern_bindings(p.es[i], v.es[i], e), env, p.es)
    [] OTHER -> env
-----------------------------------------------------------------------------
RECURSIVE Eval(_, _, _), EvalAll(_, _, _, _), EvalSeq(_, _, _), Scope(_, _, _), RunDefers(_, _),
          emit_loop_op(_, _, _), emit_match_arm_chain(_, _, _, _, _), Invoke(_, _, _, _, _),
          CallThunk(_, _, _, _), EvalCompare(_, _, _, _), EvalSource(_, _, _), EvalStmts(_, _, _), EvalItems(_, _, _, _, _, _), StoreAt(_, _, _, _), EvalCond(_, _, _, _)

\* Operands left to right; the first that does not end normally ends the operation.
EvalAll(e, i, s, fs) ==
  IF i > Len(e.es) THEN [c |-> "ok", v |-> LitVoid, s |-> s, vs |-> <<>>]
  ELSE LET h == Eval(e.es[i], s, fs)
           t == EvalAll(e, i + 1, h.s, fs)
       IN  IF h.c # "ok" THEN [c |-> h.c, v |-> h.v, s |-> h.s, vs |-> <<>>]
           ELSE [t EXCEPT !.vs = <<h.v>> \o @]

EvalSeq(ns, s, fs) ==
  IF Head(ns).k # "Let" THEN Eval(Head(ns), s, fs)
  ELSE LET r == Eval(OpOf(Head(ns)), s, fs)
       IN  IF r.c # "ok" THEN r
           ELSE EvalSeq(Tail(ns), [r.s EXCEPT !.env = Bind(@, Head(ns).x, r.v)], fs)

\* What follows an evaluation that ended normally.
Then(r, Step(_)) == IF r.c = "ok" THEN Step(r) ELSE r

\* A block: its deferred expressions run last-in first-out however control leaves it, each with the
\* locals as they were when it was declared.
Leave(r, s, fs) ==
  IF r.c \in {"trap", "fuel"} THEN r
  ELSE Then(RunDefers(r.s, fs), LAMBDA d : R(r.c, r.v, [d.s EXCEPT !.env = r.s.env, !.ds = s.ds]))

Scope(e, s, fs) == Leave(Eval(e, [s EXCEPT !.ds = <<>>], fs), s, fs)

RunDefers(s, fs) ==
  IF s.ds = <<>> THEN Ok(LitVoid, s)
  ELSE Then(Scope(Last(s.ds).e, [s EXCEPT !.env = Last(s.ds).env], fs),
            LAMBDA r : RunDefers([r.s EXCEPT !.ds = Front(s.ds)], fs))

\* Falling off the end of a loop body continues with the next iteration.
NextIteration(e, r, fs) ==
  CASE r.c \in {"ok", "cont"} -> emit_loop_op(e, [r.s EXCEPT !.fuel = @ - 1], fs)
    [] r.c = "brk" -> Ok(r.v, r.s)
    [] OTHER -> r

emit_loop_op(e, s, fs) ==
  IF s.fuel = 0 THEN R("fuel", LitVoid, s) ELSE NextIteration(e, Scope(e.es[1], s, fs), fs)

emit_match_arm_chain(e, i, v, s, fs) ==
  CASE i > Len(e.es) -> Trap(s)
    [] i <= Len(e.es) /\ emit_pattern_condition(e.es[i], v) ->
         Scope(e.es[i + 1], [s EXCEPT !.env = emit_pattern_bindings(e.es[i], v, @)], fs)
    [] OTHER -> emit_match_arm_chain(e, i + 2, v, s, fs)

\* The caller goes on where it was.
Returned(r, s) ==
  IF r.c \in {"ok", "ret"} THEN Ok(r.v, [r.s EXCEPT !.env = s.env, !.ds = s.ds]) ELSE r

\* A function of the program: parameters and captured locals are its first locals.
Invoke(f, captured, args, s, fs) ==
  LET fn == fs[f]
      env == [x \in Range(fn.params) \cup Range(fn.free) |->
                IF x \in Range(fn.free) THEN captured[CHOOSE i \in DOMAIN fn.free : fn.free[i] = x]
                ELSE args[CHOOSE i \in DOMAIN fn.params : fn.params[i] = x]]
  IN  IF s.fuel = 0 THEN R("fuel", LitVoid, s)
      ELSE Returned(Scope(fn.body, [s EXCEPT !.env = env, !.fuel = @ - 1], fs), s)

-----------------------------------------------------------------------------
(* The surface language as docs/spec.md describes it (sections 12 and 13): a *)
(* reference to hold the lowering against, so each construct is evaluated    *)
(* directly.  Locals are names here.                                         *)

SourceKinds == {"Stmts", "Store", "For", "ForCond", "Collect", "CollectWhile", "Try", "Cond", "RecordLit",
                "Lambda", "MethodRef"}

\* Where a name ends, what it hid is seen again.
Uncover(outer, inner, names) == [x \in DOMAIN outer |-> IF x \in names THEN outer[x] ELSE inner[x]]

RECURSIVE BindNames(_, _, _, _), PatternNames(_)
PatternNames(p) == IF p.k = "PVar" THEN {p.x} ELSE UNION {PatternNames(p.es[i]) : i \in DOMAIN p.es}
BindNames(p, v, s, env) ==
  CASE p.k = "PVar" -> Bind(env, p.x, v)
    [] p.k = "PTuple" -> FoldLeftDomain(LAMBDA e, i : BindNames(p.es[i], At(s, v).es[i], s, e), env, p.es)
    [] OTHER -> env

\* The elements of a collection with what a second name is bound to.
RECURSIVE RangeItems(_, _, _)
RangeItems(cur, end, step) ==
  IF (step > 0 /\ cur < end) \/ (step < 0 /\ cur > end) THEN <<LitInt(cur)>> \o RangeItems(cur + step, end, step) ELSE <<>>
Numbered(vs) == [i \in 1..Len(vs) |-> <<vs[i], LitInt(i - 1)>>]
Items(kind, v, s) ==
  CASE kind = "vec" -> Numbered([i \in 1..Len(At(s, v).es) |-> At(s, At(s, v).es[i]).es[1]])
    [] kind = "dict" -> [i \in 1..Len(At(s, v).es) |-> At(s, v).es[i].es]
    [] kind = "iter" -> Numbered(v.es)
    [] kind = "range" -> Numbered(LET r == At(s, v).es IN RangeItems(r[1].x, r[2].x, r[3].x))

\* The body for every item in turn, and the values it yields.
EvalItems(e, items, i, vs, s, fs) ==
  LET env == BindNames(e.es[2], items[i][2], s, BindNames(e.es[1], items[i][1], s, s.env))
      r == Eval(e.es[4], [s EXCEPT !.env = env], fs)
      t == [r.s EXCEPT !.env = Uncover(s.env, @, PatternNames(e.es[1]) \cup PatternNames(e.es[2]))]
  IN  CASE i > Len(items) -> [c |-> "ok", v |-> LitVoid, s |-> s, vs |-> vs]
        [] i <= Len(items) /\ r.c = "ok" -> EvalItems(e, items, i + 1, Append(vs, r.v), t, fs)
        [] i <= Len(items) /\ r.c = "cont" -> EvalItems(e, items, i + 1, vs, t, fs)
        [] OTHER -> [c |-> IF r.c = "brk" THEN "ok" ELSE r.c, v |-> r.v, s |-> t, vs |-> vs]

EvalStmts(ss, s, fs) ==
  IF ss = <<>> THEN Ok(LitVoid, s)
  ELSE LET h == Head(ss)
           r == Eval(IF h.k = "SLet" THEN h.es[2] ELSE h, s, fs)
       IN  CASE r.c # "ok" -> r
             [] r.c = "ok" /\ h.k = "SLet" ->
                  LET t == EvalStmts(Tail(ss), [r.s EXCEPT !.env = BindNames(h.es[1], r.v, r.s, @)], fs)
                  IN  R(t.c, t.v, [t.s EXCEPT !.env = Uncover(r.s.env, @, PatternNames(h.es[1]))])
             [] OTHER -> IF Len(ss) = 1 THEN r ELSE EvalStmts(Tail(ss), r.s, fs)

\* Assigning through a path replaces each value on the way to the root.
StoreAt(lhs, v, s, fs) ==
  LET r == Eval(lhs.es[1], s, fs)
      ix == Eval(lhs.es[2], r.s, fs)
      u == CASE lhs.k = "Get" -> emit_record_update(r.s, RecordUpdate(lhs, lhs.x, v), r.v, v)
             [] lhs.k = "Index" /\ lhs.f = "dict" -> emit_call("DICT_SET", <<r.v, ix.v, v>>, ix.s)
             [] OTHER -> VectorSet(ix.s, r.v, ix.v, v, FALSE)
  IN  CASE lhs.k = "Local" -> Ok(LitVoid, [s EXCEPT !.env[lhs.x] = v])
        [] lhs.k # "Local" /\ r.c = "ok" -> IF u.c = "ok" THEN StoreAt(lhs.es[1], u.v, u.s, fs) ELSE u
        [] OTHER -> r

EvalCond(arms, i, s, fs) ==
  IF i > Len(arms) THEN Ok(LitVoid, s)
  ELSE LET c == Eval(arms[i].es[1], s, fs)
       IN  CASE Len(arms[i].es) = 1 -> c
             [] Len(arms[i].es) = 2 /\ c.c = "ok" ->
                  IF c.v.x = 1 THEN Eval(arms[i].es[2], c.s, fs) ELSE EvalCond(arms, i + 1, c.s, fs)
             [] OTHER -> c

\* A function value of the surface: the code, its parameters and the locals it was made among.
Thunk(e, env) ==
  LET xs == SetToSortSeq(DOMAIN env, <)
  IN  N("Thunk", "", Len(e.es), e.es \o [i \in 1..Len(xs) |-> Let_(xs[i], env[xs[i]])])
CallThunk(v, args, s, fs) ==
  LET Kept == SubSeq(v.es, v.x + 1, Len(v.es))
      env == [x \in {Kept[i].x : i \in DOMAIN Kept} \cup {v.es[i].x : i \in 2..v.x} |->
                IF \E i \in 2..v.x : v.es[i].x = x THEN args[(CHOOSE i \in 2..v.x : v.es[i].x = x) - 1]
                ELSE OpOf(Kept[CHOOSE i \in DOMAIN Kept : Kept[i].x = x])]
  IN  IF s.fuel = 0 THEN R("fuel", LitVoid, s)
      ELSE Returned(Scope(v.es[1], [s EXCEPT !.env = env, !.fuel = @ - 1], fs), s)

\* A loop over a collection that has ended: what it yielded, if it collects.
Collected(e, all) ==
  Then(all, LAMBDA r : IF e.k = "For" THEN Ok(LitVoid, r.s) ELSE emit_array_lit(r.vs, r.s))

\* One turn of a conditional loop, whose condition holds and whose body ended as b; a comprehension
\* puts what the body yields in front of what the later turns do.
Turn(e, b, fs) ==
  LET More == Eval(e, [b.s EXCEPT !.fuel = @ - 1], fs)
      Put(m) == emit_array_lit((IF b.c = "ok" THEN <<b.v>> ELSE <<>>)
                               \o [i \in 1..Len(At(m.s, m.v).es) |-> At(m.s, At(m.s, m.v).es[i]).es[1]], m.s)
  IN  CASE b.c \in {"ok", "cont"} -> IF e.k = "ForCond" THEN More ELSE Then(More, Put)
        [] b.c = "brk" -> IF e.k = "ForCond" THEN Ok(LitVoid, b.s) ELSE emit_array_lit(<<>>, b.s)
        [] OTHER -> b

\* What a construct does with the value of its first operand.
EvalRest(e, r, s, fs) ==
  CASE e.k \in {"For", "Collect"} -> Collected(e, EvalItems(e, Items(e.f, r.v, r.s), 1, <<>>, r.s, fs))
    [] e.k = "Store" -> StoreAt(e.es[1], r.v, r.s, fs)
    [] e.k = "Try" -> IF r.v.f \in {"Some", "Ok"} THEN Ok(r.v.es[1], r.s) ELSE R("ret", r.v, r.s)
    [] e.k = "MethodRef" -> Ok(Thunk(N("Lambda", "", 0, <<Call(e.f, <<r.v, Local(0)>>), PVar(0)>>), <<>>), r.s)
    [] e.k \in {"ForCond", "CollectWhile"} ->
         IF s.fuel = 0 THEN R("fuel", LitVoid, s)
         ELSE IF r.v.x = 1 THEN Turn(e, Eval(e.es[2], r.s, fs), fs)
         ELSE IF e.k = "ForCond" THEN Ok(LitVoid, r.s) ELSE emit_array_lit(<<>>, r.s)

EvalSource(e, s, fs) ==
  CASE e.k = "Stmts" -> Leave(EvalStmts(e.es, [s EXCEPT !.ds = <<>>], fs), s, fs)
    [] e.k = "Lambda" -> Ok(Thunk(e, s.env), s)
    [] e.k = "Cond" -> EvalCond(e.es, 1, s, fs)
    [] e.k = "RecordLit" ->
         Then(EvalAll(Record([i \in 1..Len(e.es) |-> e.es[i].es[1]]), 1, s, fs), LAMBDA a :
              Alloc(a.s, Obj("Rec", [f \in 1..Len(e.es) |-> a.vs[CHOOSE i \in DOMAIN e.es : e.es[i].x = f]])))
    [] OTHER ->
         LET first == IF e.k \in {"For", "Collect"} THEN e.es[3] ELSE IF e.k = "Store" THEN e.es[2] ELSE e.es[1]
         IN  Then(Eval(first, s, fs), LAMBDA r : EvalRest(e, r, s, fs))
-----------------------------------------------------------------------------
\* Comparisons of the surface that are not on numbers: 1 by the compare method, 2 between units.
EvalCompare(e, a, s, fs) ==
  LET o == Invoke("compare", <<>>, a, s, fs)
  IN  CASE e.x = 2 -> Ok(LitBool((a[1].f = a[2].f) = (e.f = "Eq")), s)
        [] e.x = 1 /\ o.c # "ok" -> o
        [] OTHER -> Ok(LitBool(o.v.f \in [Lt |-> {"Lt"}, Gt |-> {"Gt"}, Le |-> {"Lt", "Eq"}, Ge |-> {"Gt", "Eq"}][e.f]), o.s)

Eval(e, s, fs) ==
  CASE e.k \in Literals -> Ok(e, s)
    [] e.k \in SourceKinds -> EvalSource(e, s, fs)
    [] e.k \in {"Ref", "Iter", "Thunk"} -> Ok(e, s)
    [] e.k = "BinOp" /\ e.f \in {"And", "Or"} ->
         LET r == Eval(e.es[1], s, fs)
         IN  IF r.c # "ok" \/ (r.v.x = 1) = (e.f = "Or") THEN r ELSE Eval(e.es[2], r.s, fs)
    [] e.k = "Local" -> Ok(s.env[e.x], s)
    [] e.k = "Block" -> EvalSeq(e.es, s, fs)
    [] e.k = "CLet" -> LET r == Eval(e.es[1], s, fs)
                       IN  IF r.c # "ok" THEN r ELSE Eval(e.es[2], [r.s EXCEPT !.env = Bind(@, e.x, r.v)], fs)
    [] e.k = "If" -> LET r == Eval(e.es[1], s, fs)
                     IN  IF r.c # "ok" THEN r ELSE Scope(IF r.v.x = 1 THEN e.es[2] ELSE e.es[3], r.s, fs)
    [] e.k = "Match" -> LET r == Eval(e.es[1], s, fs)
                        IN  IF r.c # "ok" THEN r ELSE emit_match_arm_chain(e, 2, r.v, r.s, fs)
    [] e.k = "Loop" -> emit_loop_op(e, s, fs)
    [] e.k = "Defer" -> Ok(LitVoid, [s EXCEPT !.ds = Append(@, [e |-> e.es[1], env |-> s.env])])
    [] e.k = "Continue" -> R("cont", LitVoid, s)
    [] OTHER ->
         LET r == EvalAll(e, 1, s, fs)
             a == r.vs
             One == IF a = <<>> THEN LitVoid ELSE a[1]
         IN  CASE r.c # "ok" -> R(r.c, r.v, r.s)
               [] r.c = "ok" /\ e.k = "Return" -> R("ret", One, r.s)
               [] r.c = "ok" /\ e.k = "Break" -> R("brk", One, r.s)
               [] r.c = "ok" /\ e.k = "Init" -> Ok(One, r.s)
               [] r.c = "ok" /\ e.k = "Assign" -> Ok(LitVoid, [r.s EXCEPT !.env = Bind(@, e.x, One)])
               [] r.c = "ok" /\ e.k = "BinOp" /\ e.x > 0 -> EvalCompare(e, a, r.s, fs)
               [] r.c = "ok" /\ e.k = "BinOp" /\ e.f = "Range" -> emit_call("RANGE_FROM", a, r.s)
               [] r.c = "ok" /\ e.k = "BinOp" /\ e.x = 0 /\ e.f # "Range" ->
                    IF e.f \in {"Div", "Mod"} /\ (IF e.f = "Div" THEN DivTraps(a[1].x, a[2].x) ELSE a[2].x = 0)
                    THEN Trap(r.s) ELSE Ok(emit_binop(e.f, a[1].x, a[2].x), r.s)
               [] r.c = "ok" /\ e.k = "UnOp" -> Ok(emit_unop(e.f, a[1].x), r.s)
               [] r.c = "ok" /\ e.k \in {"Closure", "Variant"} -> Ok([e EXCEPT !.es = a], r.s)
               [] r.c = "ok" /\ e.k = "Record" -> Alloc(r.s, Obj("Rec", a))
               [] r.c = "ok" /\ e.k = "Get" -> Ok(At(r.s, a[1]).es[e.x], r.s)
               [] r.c = "ok" /\ e.k = "Update" -> emit_record_update(r.s, e, a[1], a[2])
               [] r.c = "ok" /\ e.k = "Array" -> emit_array_lit(a, r.s)
               [] r.c = "ok" /\ e.k = "Index" ->
                    IF e.f = "dict" THEN Ok(dict_get(r.s, a[1], a[2]), r.s) ELSE emit_index(r.s, a[1], a[2])
               [] r.c = "ok" /\ e.k = "Call" ->
                    IF a[1].k = "Thunk" THEN CallThunk(a[1], Tail(a), r.s, fs)
                    ELSE IF a[1].f \in Builtins THEN emit_call(a[1].f, Tail(a), r.s)
                    ELSE Invoke(a[1].f, a[1].es, Tail(a), r.s, fs)
=============================================================================
