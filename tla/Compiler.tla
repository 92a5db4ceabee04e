------------------------------ MODULE Compiler ------------------------------
(***************************************************************************)
(* The middle of the compiler as a whole.  A program of the surface language *)
(* is written statement by statement and then goes through the stages of    *)
(* src/src/module/mod.rs and src/src/opt/pipeline.rs: desugared to Core,     *)
(* put into A-normal form, defers eliminated, peephole passes, in-place      *)
(* updates.  After each stage the program is run and must do what the        *)
(* surface program does.                                                     *)
(*                                                                          *)
(* The function being compiled has one parameter p, a Boolean that the       *)
(* compiler does not know; both of its values are tried.                     *)
(***************************************************************************)
EXTENDS Uniqueness, SourceLower

CONSTANTS Families,   \* the vocabularies programs are written in
          MaxSize     \* statements a program has at most

VARIABLES
  family,   \* the vocabulary of this program
  stack,    \* the blocks being written, outermost first: [head, ss]
  size,     \* the statements written so far
  stage,    \* how far the compiler is
  fs,       \* the functions at that stage
  want      \* what the program does for each value of p, once it is written

vars == <<family, stack, size, stage, fs, want>>
-----------------------------------------------------------------------------
(* Programs.  Names: 1 is p, 2 is x, 3 and 4 are containers, 5 to 9 are      *)
(* names of inner blocks.                                                    *)

p == Local(1)
x == Local(2)
a == Local(3)
b == Local(4)
one == LitInt(1)

Print_(e) == Call("PRINT", <<e>>)
Keep(e) == Call("RETAIN", <<e>>)
Set(c, k) == Call("DICT_SET", <<c, LitInt(k), x>>)

Iterator(vs) == N("Iter", "", 0, vs)

\* Functions of the program that calls and wrappers refer to.
Library == [
  maybe |-> [params |-> <<1>>, free |-> <<>>,
             body |-> If(Local(1), Variant("Some", <<one>>), Variant("None", <<>>))],
  check |-> [params |-> <<1>>, free |-> <<>>,
             body |-> If(Local(1), Variant("Ok", <<one>>), Variant("Err", <<LitInt(2)>>))],
  compare |-> [params |-> <<1, 2>>, free |-> <<>>,
               body |-> If(BinOp("Lt", RecordGet(Local(1), 1), RecordGet(Local(2), 1)), Variant("Lt", <<>>),
                           If(BinOp("Eq", RecordGet(Local(1), 1), RecordGet(Local(2), 1)),
                              Variant("Eq", <<>>), Variant("Gt", <<>>)))],
  put |-> [params |-> <<1, 2, 3>>, free |-> <<>>, body |-> Call("DICT_SET", <<Local(1), Local(2), Local(3)>>)],
  push |-> [params |-> <<1, 2>>, free |-> <<>>, body |-> Call("VECTOR_APPEND", <<Local(1), Local(2)>>)],
  plus |-> [params |-> <<1, 2>>, free |-> <<>>, body |-> BinOp("Add", Local(1), Local(2))],
  pair |-> [params |-> <<1>>, free |-> <<>>, body |-> Record(<<Local(1), Local(1)>>)]]

\* What precedes and what follows the statements that vary.
Prologue(f) ==
  <<SLet(PVar(2), LitInt(0))>>
  \o CASE f = "dict" -> <<SLet(PVar(3), Call("DICT_NEW", <<>>)), SLet(PVar(4), a)>>
       [] f = "branch" -> <<SLet(PVar(3), Call("DICT_NEW", <<>>)), SLet(PVar(4), Call("DICT_NEW", <<>>))>>
       [] f \in {"vec", "build"} -> <<SLet(PVar(3), ArrayLit(<<one>>)), SLet(PVar(4), ArrayLit(<<>>))>>
       [] f = "rec" -> <<SLet(PVar(3), Record(<<Call("DICT_NEW", <<>>), one>>)), SLet(PVar(4), Call("DICT_NEW", <<>>))>>
       [] f \in {"loop", "doc", "descend"} -> <<SLet(PVar(5), LitInt(4)), SLet(PVar(6), LitInt(5))>>
       [] f = "capture" -> <<SLet(PVar(5), LitInt(4)), SLet(PVar(8), Lambda(<<PVar(9)>>, BinOp("Add", Local(5), Local(9))))>>
       [] OTHER -> <<>>
Epilogue(f) ==
  CASE f \in {"dict", "branch", "vec", "build", "rec"} -> <<Print_(a), Print_(b)>>
    [] OTHER -> <<Print_(x), x>>

\* The arithmetic that constant folding computes.
Folded == {BinOp(op, LitInt(m), LitInt(n)) : op \in {"Add", "Sub", "Mul", "Div", "Mod", "Lt", "Ge", "Eq"},
                                             m \in {-MaxInt, 1}, n \in {0, 2}}
          \cup {UnOp("Neg", LitInt(3)), UnOp("BitNot", LitInt(3))}

Say(f) ==
  CASE f = "defer" -> {Print_(x), Assign(2, BinOp("Add", x, one)), Defer(Print_(x)), Return(<<x>>), Break(<<>>), Continue}
    [] f = "doc" -> {Print_(Local(6)), Break(<<>>), Continue}
    [] f = "capture" -> {Print_(Local(5)), Print_(CallOf(Local(8), <<x>>)), Assign(2, one)}
    [] f = "least" -> {Print_(BinOp(op, BinOp("Sub", LitInt(1 - MaxInt), one), LitInt(-1))) : op \in {"Div", "Mod"}}
    [] f = "descend" -> {Print_(Local(5)), Assign(2, BinOp("Add", x, Local(5))), Break(<<>>), Continue}
    [] f = "loop" -> {Assign(2, BinOp("Add", x, Local(5))), Break(<<>>), Continue, Print_(Local(6)),
                      SLet(PVar(2), LitInt(3)), Print_(x)}
    [] f = "expr" ->
         {SLet(PVar(7), e) : e \in Folded}
         \cup {Print_(Local(2)),
               Assign(2, Try("option", Call("maybe", <<p>>))),
               Assign(2, Try("result", Call("check", <<p>>))),
               Assign(2, Cond(<<N("Arm", "", 0, <<p, one>>), N("Arm", "", 0, <<BinOp("Lt", x, one), LitInt(2)>>),
                                N("Arm", "", 0, <<x>>)>>)),
               If(BinOp("And", p, Stmts(<<Print_(x), BinOp("Eq", x, one)>>)), Stmts(<<Assign(2, LitInt(2))>>), LitVoid),
               If(BinOp("Or", p, Stmts(<<Print_(x), BinOp("Ne", x, one)>>)), Stmts(<<Assign(2, LitInt(2))>>), LitVoid),
               If(Compare("Eq", 2, Call("compare", <<Record(<<x>>), Record(<<one>>)>>), Variant("Lt", <<>>)),
                  Stmts(<<Assign(2, one)>>), LitVoid),
               If(Compare("Ne", 2, Variant("Gt", <<>>), Call("compare", <<Record(<<x>>), Record(<<one>>)>>)),
                  Stmts(<<Assign(2, LitInt(2))>>), LitVoid),
               If(Compare("Eq", 2, Call("compare", <<Record(<<x>>), Record(<<one>>)>>),
                                   Call("compare", <<Record(<<one>>), Record(<<x>>)>>)),
                  Stmts(<<Print_(one)>>), LitVoid),
               Stmts(<<SLet(PVar(8), Lambda(<<PVar(9)>>, BinOp("Add", x, Local(9)))), Assign(2, one),
                       Assign(2, CallOf(Local(8), <<x>>))>>),
               Stmts(<<SLet(PVar(8), MethodRef("plus", BinOp("Add", x, one))), Assign(2, LitInt(2)),
                       Print_(CallOf(Local(8), <<x>>))>>),
               Stmts(<<SLet(PTuple(<<PVar(5), PWild, PVar(6)>>),
                            RecordLit(<<Field(2, x), Field(3, LitInt(2)), Field(1, one)>>)),
                       Print_(Local(5)), Assign(2, Local(6))>>),
               Match(Call("maybe", <<p>>), <<PVariant("Some", <<PInt(2)>>), Print_(one),
                                             PVariant("Some", <<PVar(8)>>), Assign(2, Local(8)),
                                             PWild, Print_(x)>>),
               Match(x, <<PInt(1), Print_(one), PWild, Assign(2, one)>>)}
         \cup {Print_(If(Compare(op, 1, Record(<<x>>), Record(<<one>>)), one, x)) : op \in {"Lt", "Gt", "Le", "Ge"}}
    [] f \in {"dict", "branch"} ->
         {Assign(3, Set(a, 1)), Assign(4, a), Assign(3, b), Assign(3, Call("DICT_REMOVE", <<a, one>>)),
          Assign(3, Call("put", <<a, one, LitInt(7)>>)), Keep(a), Store_(N("Index", "dict", 0, <<b, LitInt(2)>>), one),
          SLet(PVar(6), Lambda(<<>>, N("Index", "dict", 0, <<a, one>>))), Print_(N("Index", "dict", 0, <<a, one>>))}
         \cup (IF f = "branch" THEN {Assign(4, Set(a, 1))} ELSE {})
    [] f \in {"vec", "build"} ->
         {Assign(3, Call("VECTOR_APPEND", <<a, x>>)), Assign(3, Call("push", <<a, LitInt(2)>>)),
          Assign(4, Call("VECTOR_CONCAT", <<b, a>>)), Store_(N("Index", "", 0, <<a, LitInt(0)>>), LitInt(3)),
          Print_(Index(a, LitInt(0))), Assign(4, ArrayLit(<<>>))}
         \cup (IF f = "vec" THEN {Assign(4, a), Assign(3, Call("VECTOR_CONCAT", <<a, b>>)), Keep(b)} ELSE {})
    [] f = "rec" ->
         {Store_(N("Index", "dict", 0, <<RecordGet(a, 1), one>>), LitInt(3)), Store_(RecordGet(a, 2), LitInt(4)),
          Assign(4, RecordGet(a, 1)), Assign(4, Set(b, 1)),
          Assign(3, Call("pair", <<b>>)), Assign(3, RecordUpdate(a, 1, Set(RecordGet(a, 1), 2)))}

\* The blocks that may be opened.
Heads(f) ==
  CASE f = "defer" -> {"if", "vec"}
    [] f = "loop" -> {"if", "vec", "range", "empty", "dict", "iter", "counted", "while",
                      "cvec", "crange", "cdown", "cdict", "citer", "cwhile", "tuple"}
    [] f = "doc" -> {"indexed", "counted", "citer"}
    [] f = "descend" -> {"down", "cdown", "if"}
    [] f = "dict" -> {"vec"}
    [] f = "branch" -> {"if"}
    [] f \in {"vec", "rec"} -> {"if"}
    [] f = "build" -> {"vec"}
    [] OTHER -> {}

\* What a block becomes when it is closed over its statements.
Numbers == ArrayLit(<<one, LitInt(2)>>)
Entries == Call("DICT_SET", <<Call("DICT_NEW", <<>>), LitInt(2), LitInt(3)>>)
Pairs == ArrayLit(<<Record(<<one, LitInt(2)>>)>>)
Descending == Call("RANGE_STEP", <<LitInt(3), LitInt(-1), LitInt(-2)>>)
Yield(body) == [body EXCEPT !.es = Append(@, BinOp("Add", x, Local(5)))]

Closed(head, ss) ==
  LET body == Stmts(ss)
      Each(kind, idx, c) == For(kind, PVar(5), idx, c, body)
      Got(kind, idx, c) == Print_(Collect(kind, PVar(5), idx, c, Yield(body)))
  IN  CASE head = "if" -> If(p, body, LitVoid)
        [] head = "vec" -> Each("vec", PVar(6), Numbers)
        [] head = "range" -> Each("range", PWild, BinOp("Range", one, LitInt(3)))
        [] head = "indexed" -> Each("range", PVar(6), BinOp("Range", one, LitInt(3)))
        [] head = "empty" -> Each("range", PWild, Call("RANGE_STEP", <<one, one, LitInt(2)>>))
        [] head = "down" -> Each("range", PWild, Descending)
        [] head = "dict" -> Each("dict", PVar(6), Entries)
        [] head = "iter" -> Each("iter", PWild, Iterator(<<one, LitInt(2)>>))
        [] head = "counted" -> Each("iter", PVar(6), Iterator(<<one, LitInt(2)>>))
        [] head = "while" -> ForCond(BinOp("Lt", x, LitInt(2)), [body EXCEPT !.es = <<SLet(PVar(5), one)>> \o @])
        [] head = "tuple" -> For("vec", PTuple(<<PVar(5), PVar(6)>>), PWild, Pairs, body)
        [] head = "cvec" -> Got("vec", PVar(6), Numbers)
        [] head = "crange" -> Got("range", PVar(6), BinOp("Range", one, LitInt(3)))
        [] head = "cdown" -> Got("range", PWild, Descending)
        [] head = "cdict" -> Got("dict", PVar(6), Entries)
        [] head = "citer" -> Got("iter", PVar(6), Iterator(<<one, LitInt(2)>>))
        [] head = "cwhile" -> Print_(CollectWhile(BinOp("Lt", x, LitInt(2)),
                                                  [Yield(body) EXCEPT !.es = <<SLet(PVar(5), one)>> \o @]))
-----------------------------------------------------------------------------
(* The stages.                                                               *)

Lowered(body) ==
  After(lower_function(<<1>>, body, Library), LAMBDA m :
    [g \in DOMAIN m.fs \cup {"main"} |-> IF g = "main" THEN m.f ELSE m.fs[g]])

With(f, g) == [params |-> f.params, free |-> f.free, body |-> g.body, mono |-> g.mono]
ToAnf(t) == [f \in DOMAIN t |-> With(t[f], lower_func(t[f].params \o t[f].free, t[f].body))]

WithoutDefers(t) == [f \in DOMAIN t |-> eliminate_defers(t[f])]

Peepholed(t) == [f \in DOMAIN t |-> run_peephole_passes(t[f], {})]

InPlace(t, pick) ==
  LET W == collect_tiny_wrapper_summaries(t)
  IN  [f \in DOMAIN t |-> uniqueness_rewrite(t[f], W, pick)]

\* What a table of functions does for each value of p.
Observed(r) ==
  [c |-> r.c, v |-> Deep(r.v, r.s), out |-> r.s.out,
   kept |-> [i \in 1..Len(r.s.kept) |-> Deep(r.s.kept[i], r.s)]]
Behaviour(t) == [v \in BOOLEAN |-> Observed(Invoke("main", <<>>, <<LitBool(v)>>, Start, t))]

Source(body) == [g \in DOMAIN Library \cup {"main"} |->
                   IF g = "main" THEN [params |-> <<1>>, free |-> <<>>, body |-> body] ELSE Library[g]]
-----------------------------------------------------------------------------
Frame(head) == [head |-> head, ss |-> <<>>]

Init ==
  /\ family \in Families
  /\ stack = <<Frame("main")>>
  /\ size = 0
  /\ stage = "writing"
  /\ fs = <<>>
  /\ want = <<>>

TopSs == Last(stack).ss
Ended == TopSs # <<>> /\ Last(TopSs).k \in {"Return", "Break", "Continue"}
\* The vocabularies with the most statements get the shorter programs.
Longest(f) == IF f \in {"expr", "loop"} THEN MaxSize - 1 ELSE MaxSize
InLoop == \E i \in DOMAIN stack : stack[i].head \notin {"main", "if"}
\* Leaving an indexed iteration over an iterator early is in the vocabulary "doc" only.
InIterator == \E i \in DOMAIN stack : stack[i].head \in {"citer", "counted"}
Push(st) == stack' = Front(stack) \o <<[Last(stack) EXCEPT !.ss = Append(@, st)]>>

Statement(st) ==
  /\ stage = "writing"
  /\ size < Longest(family)
  /\ ~ Ended
  /\ st.k \in {"Break", "Continue"} => InLoop
  /\ st.k \in {"Break", "Continue"} => family = "doc" \/ ~ InIterator
  /\ Push(st)
  /\ size' = size + 1
  /\ UNCHANGED <<family, stage, fs, want>>

Open(head) ==
  /\ stage = "writing"
  /\ size + 1 < Longest(family)
  /\ ~ Ended
  /\ stack' = Append(stack, Frame(head))
  /\ size' = size + 1
  /\ UNCHANGED <<family, stage, fs, want>>

Close ==
  /\ stage = "writing"
  /\ Len(stack) > 1 /\ TopSs # <<>>
  /\ LET outer == Front(stack)
         done == Closed(Last(stack).head, TopSs)
     IN  stack' = Front(outer) \o <<[Last(outer) EXCEPT !.ss = Append(@, done)]>>
  /\ UNCHANGED <<family, size, stage, fs, want>>

Finish ==
  /\ stage = "writing"
  /\ Len(stack) = 1
  /\ LET t == Source(Stmts(Prologue(family) \o TopSs \o (IF Ended THEN <<>> ELSE Epilogue(family))))
     IN  fs' = t /\ want' = Behaviour(t)
  /\ stage' = "source"
  /\ UNCHANGED <<family, stack, size>>

Step(from, to, t) ==
  /\ stage = from
  /\ stage' = to
  /\ fs' = t
  /\ UNCHANGED <<family, stack, size, want>>

Lower == Step("source", "core", Lowered(fs["main"].body))
Normalize == Step("core", "anf", ToAnf(fs))
EliminateDefers == Step("anf", "defers", WithoutDefers(fs))
Simplify == Step("defers", "peephole", Peepholed(fs))
\* The first dictionary a hash set yields may be any of them.
UpdateInPlace == \E pick \in {"first", "last"} : Step("peephole", "unique", InPlace(fs, pick))
Compiled == stage = "unique" /\ UNCHANGED vars

Next ==
  \/ \E st \in Say(family) : Statement(st)
  \/ \E h \in Heads(family) : Open(h)
  \/ Close
  \/ Finish
  \/ Lower
  \/ Normalize
  \/ EliminateDefers
  \/ Simplify
  \/ UpdateInPlace
  \/ Compiled

Spec == Init /\ [][Next]_vars
-----------------------------------------------------------------------------
(* The properties.  A program that runs out of fuel is not compared.         *)

Same == \A v \in BOOLEAN : want[v].c = "fuel" \/ Behaviour(fs)[v] = want[v]

\* The compiler's own verifier (ir/anf/verify.rs), which aborts the build, accepts every function.
Accepted(rules) ==
  LET Captures(f) == UNION {collect_capture_seeds(fs[g].body, f) : g \in DOMAIN fs}
  IN  \A f \in DOMAIN fs : verify_function(fs[f], Captures(f), rules) = {}

\* Has a fold panicked in this expression?  Then the compiler has produced nothing.
RECURSIVE Panics(_)
Panics(e) == e = Panic \/ \E i \in DOMAIN e.es : Panics(e.es[i])


\* Naming every intermediate value (ir/lower_anf.rs) neither reorders nor duplicates an effect and
\* moves none out of its branch or loop; the verifier accepts the result.
AnfKeepsMeaning == stage = "anf" => Same /\ Accepted("post_lowering")

\* After defer elimination (opt/defer_elim.rs) every deferred expression runs once on each way out of
\* its block, last declared first, with the values its locals had when it was declared; the check
\* that follows the pass (verify_function_after_pass) accepts the result.
DefersRunAtBlockExit == stage = "defers" => Accepted("mid_optimization") /\ Same

\* The peephole rounds (opt/passes.rs) drop, copy and fold only what nobody can observe: traps and
\* wrapping arithmetic stay, the compiler does not panic on a constant, and what is left passes the
\* rules of the final verifier already: no defer, no use or capture of a dropped local.
PeepholeKeepsMeaning ==
  stage = "peephole" =>
    /\ \A f \in DOMAIN fs : ~ Panics(fs[f].body)
    /\ Accepted("post_optimization")
    /\ Same

\* An update that the uniqueness analysis (opt/uniqueness.rs) turns into an in-place one, or gathers
\* into a builder, cannot be seen through any other reference: values stay immutable to the program,
\* and the verifier accepts what the rewriting leaves.
InPlaceIsInvisible == stage = "unique" => Same /\ Accepted("post_optimization")
=============================================================================
