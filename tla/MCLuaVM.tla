------------------------------ MODULE MCLuaVM -------------------------------
(* Families of small chunks, each about one part of the translation.       *)
EXTENDS LuaVM

Cn(v)  == [t |-> "const", v |-> v]
I(n)   == Cn(Num(n))
V(n)   == [t |-> "name", n |-> n]
O(op)  == [t |-> "op", op |-> op]
P(e)   == [t |-> "paren", e |-> e]
Va     == [t |-> "vararg"]
At(o, e)      == [t |-> "index", o |-> o, key |-> e]
Dot(o, n)     == At(o, <<Cn(Str(<<n>>))>>)
App(f, es)    == [t |-> "call", o |-> V(f), args |-> es]
Meth(o, n, es) == [t |-> "method", o |-> V(o), n |-> n, args |-> es]
Fn(ps, va, b) == [params |-> ps, vararg |-> va, body |-> b]
Lam(f)        == [t |-> "function", f |-> f]
Tb(is)        == [t |-> "table", items |-> is]
Ask           == App("ask", <<>>)
E1(x)         == <<x>>

Local(ns, es)  == [s |-> "local", names |-> ns, es |-> es]
LocalFn(n, f)  == [s |-> "localfunction", name |-> n, f |-> f]
Def(v, f, m)   == [s |-> "function", var |-> v, f |-> f, ismethod |-> m]
Set(ts, es)    == [s |-> "assign", targets |-> ts, es |-> es]
Do(b)          == [s |-> "do", body |-> b]
CallS(tok)     == [s |-> "call", e |-> tok]
Emit(es)       == CallS(App("emit", es))
Ret(es)        == [s |-> "return", es |-> es]
Goto(l)        == [s |-> "goto", label |-> l]
Label(l)       == [s |-> "label", label |-> l]
If(e, b)       == [s |-> "if", clauses |-> <<[cond |-> e, body |-> b]>>, orelse |-> <<>>]
IfElse(cs, b)  == [s |-> "if", clauses |-> cs, orelse |-> <<b>>]
While(e, b)    == [s |-> "while", cond |-> e, body |-> b]
Repeat(b, e)   == [s |-> "repeat", cond |-> e, body |-> b]
For(i, a, b, st, blk) == [s |-> "fornum", var |-> i, init |-> a, limit |-> b, step |-> st, body |-> blk]
ForIn(ns, es, blk)    == [s |-> "forin", names |-> ns, es |-> es, body |-> blk]
Prog(c, args, ans)     == [chunk |-> c, args |-> args, ans |-> ans, load |-> "source"]

T == Bool(TRUE)
F == Bool(FALSE)
AB == Local(<<"a", "b">>, <<E1(Va)>>)

-----------------------------------------------------------------------------
(* Conditions and values of "and", "or", "not" and comparisons.            *)
Terms == {E1(V("a")), <<O("not"), V("b")>>, <<V("a"), O("=="), V("b")>>,
          E1(App("emit", <<E1(V("b"))>>))}
AndOr == {"and", "or"}
Logic ==
  {x \o <<O(o1)>> \o y \o <<O(o2)>> \o z : x, y, z \in Terms, o1, o2 \in AndOr} \cup
  {<<O("not"), P(x \o <<O(o1)>> \o y)>> : x, y \in Terms, o1 \in AndOr} \cup
  {x \o <<O("and"), P(y \o <<O("or")>> \o z)>> : x, y, z \in Terms} \cup
  {x \o <<O("=="), P(y \o <<O("or")>> \o z)>> : x, y, z \in Terms}
Uses(e) ==
  {<<AB, Ret(<<e>>)>>,
   <<AB, Set(<<V("b")>>, <<e>>), Ret(<<E1(V("a")), E1(V("b"))>>)>>,
   <<AB, IfElse(<<[cond |-> e, body |-> <<Emit(<<E1(I(1))>>)>>]>>, <<Emit(<<E1(I(2))>>)>>)>>,
   <<AB, While(e, <<Emit(<<E1(I(3))>>), Set(<<V("a")>>, <<E1(Cn(F))>>), Goto("break")>>), Emit(<<e, e>>)>>}
Conditions == {Prog(c, a, <<>>) : c \in UNION {Uses(e) : e \in Logic}, a \in {<<F, Num(3)>>}}

(* Operators: priorities, folding, wraparound.                             *)
Operands == {V("a"), I(3)}
Ops == {"+", "*", "//", "%", "..", "<"}
Arithmetic ==
  {Prog(<<AB, Ret(<<<<x, O(o1), y, O(o2), z>>>>)>>, <<Num(-5)>>, <<>>) :
     x, y \in Operands, z \in Operands \cup {I(0)}, o1, o2 \in Ops} \cup
  {Prog(<<AB, Ret(<<<<O(u), x, O(o), O(v), y>>>>)>>, <<Num(-8), Num(-1)>>, <<>>) :
     u, v \in {"-", "~", "not"}, o \in {">>", "<<", "|", "&", "~", "-", "==", ".."},
     x \in {V("a"), I(7)}, y \in {V("a"), Cn(Str(<<"s">>))}}

(* Multiple assignment.                                                    *)
Places == {V("i"), V("a"), At(V("a"), E1(V("i"))), At(At(V("a"), E1(V("i"))), E1(V("i"))), V("g")}
Given  == {<<E1(V("i")), E1(I(6))>>, <<E1(V("a")), E1(Ask)>>, <<E1(I(5)), E1(I(6)), E1(I(7))>>,
           <<E1(App("emit", <<E1(V("i")), E1(I(4))>>))>>}
Outer == <<Local(<<"a", "i">>, <<E1(Tb(<<[i |-> "list", e |-> E1(Tb(<<>>))]>>)), E1(I(1))>>),
           Local(<<"b">>, <<E1(V("a"))>>)>>
Show == Emit(<<E1(V("i")), E1(At(V("b"), E1(I(1)))), E1(At(V("b"), E1(I(2)))), E1(V("g"))>>)
Assignments ==
  {Prog(Outer \o <<Set(ts, es), Show>>, <<>>, <<Num(2)>>) :
     ts \in UNION {[1..n -> Places] : n \in 1..3}, es \in Given} \cup
  {Prog(Outer \o <<LocalFn("f", Fn(<<>>, FALSE, <<Set(ts, es)>>)), CallS(App("f", <<>>)), Show>>,
        <<>>, <<Num(2)>>) :
     ts \in [1..2 -> Places], es \in Given}

(* Loops, gotos, labels, and closures over their variables.                *)
Pool ==
  {Local(<<"x">>, <<E1(Ask)>>), Label("l"), Do(<<Emit(<<E1(V("x"))>>), Goto("l")>>),
   Def(V("f"), Fn(<<>>, FALSE, <<Ret(<<E1(V("x"))>>)>>), FALSE),
   If(E1(V("x")), <<Emit(<<E1(V("x"))>>), Goto("break")>>),
   Set(<<V("x")>>, <<E1(I(5))>>),
   Do(<<Local(<<"x">>, <<E1(Ask)>>), Def(V("g"), Fn(<<>>, FALSE, <<Set(<<V("x")>>, <<E1(I(4))>>)>>), FALSE),
        If(E1(V("x")), <<Goto("l")>>)>>)}
Loops(b) ==
  {While(E1(Ask), b), Repeat(b, <<V("x"), O("or"), Ask>>),
   For("x", E1(I(1)), E1(I(2)), <<>>, b),
   ForIn(<<"x">>, <<E1(V("ask"))>>, b)}
After == <<If(E1(V("f")), <<Emit(<<E1(App("f", <<>>))>>)>>), If(E1(V("g")), <<CallS(App("g", <<>>))>>),
           Emit(<<E1(V("x"))>>)>>
Control ==
  {Prog(<<Local(<<"f", "g">>, <<>>), s>> \o After, <<>>, <<Num(1), T, F, F, Num(2), F>>) :
     s \in UNION {Loops(b) : b \in [1..3 -> Pool]}}

(* Constructors and calls: open lists of values.                           *)
Items == {[i |-> "list", e |-> E1(I(4))], [i |-> "list", e |-> E1(Va)],
          [i |-> "list", e |-> E1(App("emit", <<E1(Va)>>))], [i |-> "list", e |-> E1(P(E1(Va)))],
          [i |-> "rec", key |-> <<I(1), O("+"), I(6)>>, e |-> E1(Va)]}
Constructors ==
  {Prog(<<Local(<<"t">>, <<E1(Tb(is))>>),
          Ret(<<E1(At(V("t"), E1(I(1)))), E1(At(V("t"), E1(I(2)))), E1(At(V("t"), E1(I(3)))),
                E1(At(V("t"), E1(I(4)))), E1(At(V("t"), E1(I(7))))>>)>>, a, <<>>) :
     is \in UNION {[1..n -> Items] : n \in 0..3}, a \in {<<>>, <<Num(1), Num(2)>>}}

Bodies ==
  {<<Ret(<<>>)>>, <<Ret(<<E1(V("x")), E1(Va)>>)>>, <<Ret(<<E1(App("emit", <<E1(Va)>>))>>)>>,
   <<Ret(<<E1(App("f", <<E1(Va)>>))>>)>>, <<Ret(<<E1([t |-> "call", o |-> P(E1(Lam(Fn(<<>>, TRUE, <<Ret(<<E1(V("x")), E1(Va)>>)>>)))),
               args |-> <<E1(I(3)), E1(Va)>>])>>)>>,
   <<Local(<<"y", "z">>, <<E1(Va)>>), Ret(<<E1(V("z")), E1(V("y")), E1(P(E1(Va)))>>)>>,
   <<LocalFn("h", Fn(<<"n">>, FALSE,
       <<If(E1(V("n")), <<Emit(<<E1(V("x"))>>), Set(<<V("x")>>, <<E1(V("n"))>>), Ret(<<E1(App("h", <<E1(Ask)>>))>>)>>)>>)),
     CallS(App("h", <<E1(V("x"))>>)), Ret(<<E1(V("x"))>>)>>}
Calls ==
  {Prog(<<LocalFn("f", Fn(ps, FALSE, <<Ret(<<E1(V("x")), E1(V("y"))>>)>>)), LocalFn("k", Fn(<<"x">>, TRUE, b)), s>>,
        a, <<Num(1), F>>) :
     ps \in {<<>>, <<"x">>, <<"x", "y">>}, b \in Bodies, a \in {<<>>, <<Num(1)>>, <<Num(2), Num(3), Num(4)>>},
     s \in {Ret(<<E1(App("k", <<E1(Va)>>))>>), Ret(<<E1(App("k", <<E1(Va)>>)), E1(App("k", <<E1(Va)>>))>>),
            Emit(<<E1(P(E1(App("k", <<E1(I(1)), E1(Va)>>))))>>),
            Set(<<V("g"), V("h")>>, <<E1(App("k", <<E1(App("k", <<E1(Va)>>))>>))>>)}}

(* Functions in tables, methods, variables of enclosing functions.         *)
Members ==
  {Def(Dot(V("t"), "m"), Fn(<<"n">>, FALSE, <<Set(<<V("x")>>, <<<<V("x"), O("+"), I(1)>>>>), Ret(<<E1(V("x")), E1(V("y"))>>)>>), FALSE),
   Def(Dot(V("t"), "m"), Fn(<<"n">>, FALSE, <<Set(<<Dot(V("self"), "k"), V("y")>>, <<E1(V("y")), E1(V("n"))>>)>>), TRUE),
   Emit(<<E1(Meth("t", "m", <<E1(I(2))>>)), E1(Dot(V("t"), "k"))>>),
   Set(<<V("y")>>, <<E1(V("x"))>>),
   Local(<<"y">>, <<E1(Meth("t", "m", <<>>))>>),
   Def(V("f"), Fn(<<>>, FALSE, <<Ret(<<E1(Lam(Fn(<<>>, FALSE,
         <<Set(<<V("y")>>, <<E1(V("x"))>>), Set(<<V("x")>>, <<E1(I(5))>>), Ret(<<E1(V("y"))>>)>>)))>>)>>), FALSE),
   Emit(<<E1([t |-> "call", o |-> App("f", <<>>), args |-> <<>>])>>)}
Scopes ==
  {Prog(<<Local(<<"t">>, <<E1(Tb(<<>>))>>), For("x", E1(I(1)), E1(I(2)), <<>>, <<Local(<<"y">>, <<>>)>> \o b),
          If(E1(Dot(V("t"), "m")), <<Emit(<<E1(Meth("t", "m", <<>>))>>)>>)>>, <<>>, <<>>) :
     b \in [1..3 -> Members]}

(* The ends of a numeric loop near the largest and smallest integers.      *)
Counts ==
  {Prog(<<For("i", E1(I(a)), e, s, <<Emit(<<E1(V("i"))>>)>>)>>, <<>>, <<>>) :
     a \in {-8, -7, 0, 6, 7}, e \in {E1(I(n)) : n \in {-8, 0, 7}} \cup {E1(Cn(Nil)), <<O("-"), I(7)>>},
     s \in {<<>>} \cup {<<E1(I(n))>> : n \in {-8, -3, -1, 2, 7}}}

(* Chunks that are dumped and loaded again.                                *)
Loads ==
  {[q EXCEPT !.load = l] : q \in {x \in Calls : Len(x.args) = 1}, l \in {"dump", "strip"}} \cup
  {[q EXCEPT !.load = "cut"] :
     q \in {Prog(<<AB, LocalFn("k", Fn(<<"x">>, TRUE, <<Ret(<<E1(V("b")), E1(Cn(Nil)), E1(Cn(Str(<<"s">>)))>>)>>)),
                    Set(<<V("g")>>, <<E1(V("k"))>>)>>, <<>>, <<>>)}}

-----------------------------------------------------------------------------
MCPrograms == UNION {Conditions, Arithmetic, Assignments, Control, Constructors, Calls, Scopes, Counts, Loads}
=============================================================================
