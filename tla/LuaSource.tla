----------------------------- MODULE LuaSource ------------------------------
(***************************************************************************)
(* What a chunk means, straight from its syntax: no registers, no jumps    *)
(* and no upvalues.  A variable is a cell that every function in its scope *)
(* refers to, an operator is found by splitting an expression where it     *)
(* binds least, a goto looks for its label from the inside out.            *)
(*                                                                         *)
(* The abstract specification lets a chunk print what it means to print,   *)
(* entry by entry, and then end as it is meant to end.  LuaVM implements   *)
(* it by parsing the chunk, generating code and interpreting that.         *)
(*                                                                         *)
(* Two C functions are in the global table: emit(...) logs its arguments   *)
(* and returns them, ask() returns the next of the given answers.  emit    *)
(* raises an error when MaxLog entries are logged, ask when no answer is   *)
(* left, so that no chunk that calls them in its loops runs forever.       *)
(***************************************************************************)
EXTENDS LuaValue

CONSTANT MaxLog

VARIABLES program, promised, log, outcome, results
vars == <<program, promised, log, outcome, results>>

-----------------------------------------------------------------------------
(* Chunks that are accepted: every goto has a label, in a block around it, *)
(* that it can reach without entering the scope of a local.                *)

LabelsOf(blk) == {blk[j].label : j \in {j \in DOMAIN blk : blk[j].s = "label"}}
Declares(s) == s.s \in {"local", "localfunction"}
CanReach(blk, i, j, isrepeat) ==
  \/ j <= i
  \/ ~\E k \in i + 1..j - 1 : Declares(blk[k])
  \/ ~isrepeat /\ \A k \in j..Len(blk) : blk[k].s = "label"

VisibleAt(blk, i, outer, isrepeat) ==
  (outer \ LabelsOf(blk)) \cup
  {blk[j].label : j \in {j \in DOMAIN blk : blk[j].s = "label" /\ CanReach(blk, i, j, isrepeat)}}

RECURSIVE ValidBlock(_, _, _, _), ValidExp(_, _)
ValidFunction(f) == ValidBlock(f.body, {}, FALSE, f.vararg)
ValidTokens(tok, va) ==
  CASE tok.t = "vararg"   -> va
    [] tok.t = "function" -> ValidFunction(tok.f)
    [] tok.t = "paren"    -> ValidExp(tok.e, va)
    [] tok.t = "table"    -> \A i \in DOMAIN tok.items : ValidExp(tok.items[i].e, va)
    [] tok.t = "index"    -> ValidExp(<<tok.o>>, va) /\ ValidExp(tok.key, va)
    [] tok.t \in {"call", "method"} ->
         ValidExp(<<tok.o>>, va) /\ \A i \in DOMAIN tok.args : ValidExp(tok.args[i], va)
    [] OTHER -> TRUE
ValidExp(e, va) == \A i \in DOMAIN e : ValidTokens(e[i], va)
ValidList(es, va) == \A i \in DOMAIN es : ValidExp(es[i], va)

ValidStat(s, seen, va) ==
  LET Body(b) == ValidBlock(b, seen, FALSE, va)
      Loop(b, isrepeat) == ValidBlock(b, seen \cup {"break"}, isrepeat, va)
  IN CASE s.s = "goto"   -> s.label \in seen
       [] s.s = "do"     -> Body(s.body)
       [] s.s = "if"     -> /\ \A i \in DOMAIN s.clauses :
                                 ValidExp(s.clauses[i].cond, va) /\ Body(s.clauses[i].body)
                            /\ \A i \in DOMAIN s.orelse : Body(s.orelse[i])
       [] s.s = "while"  -> ValidExp(s.cond, va) /\ Loop(s.body, FALSE)
       [] s.s = "repeat" -> ValidExp(s.cond, va) /\ Loop(s.body, TRUE)
       [] s.s = "fornum" -> ValidList(<<s.init, s.limit>> \o s.step, va) /\ Loop(s.body, FALSE)
       [] s.s = "forin"  -> ValidList(s.es, va) /\ Loop(s.body, FALSE)
       [] s.s \in {"function", "localfunction"} -> ValidFunction(s.f)
       [] s.s \in {"local", "return"} -> ValidList(s.es, va)
       [] s.s = "assign" -> ValidList(s.es, va) /\ ValidExp(s.targets, va)
       [] s.s = "call"   -> ValidExp(<<s.e>>, va)
       [] OTHER -> TRUE

ValidBlock(blk, outer, isrepeat, va) ==
  /\ \A i, j \in DOMAIN blk :
       i # j /\ blk[i].s = "label" /\ blk[j].s = "label" => blk[i].label # blk[j].label
  /\ \A i \in DOMAIN blk : ValidStat(blk[i], VisibleAt(blk, i, outer, isrepeat), va)

-----------------------------------------------------------------------------
(* Evaluation.  A state s holds the cells, tables and functions made so    *)
(* far, the log, the answers left and whether an error was raised, after   *)
(* which nothing changes.  An environment r maps names to cells (r.v) and  *)
(* holds the extra arguments of the function (r.va).                       *)

Raise(s) == [s EXCEPT !.err = TRUE]
NewCells(s, vs) == [s EXCEPT !.cell = @ \o vs]
Bind(r, names, first) ==
  [r EXCEPT !.v = [i \in {names[k] : k \in DOMAIN names} |->
                     first + Max({k \in DOMAIN names : names[k] = i})] @@ @]
Adjust(vs, n) == [i \in 1..n |-> IF i <= Len(vs) THEN vs[i] ELSE Nil]
First(vs) == IF vs = <<>> THEN Nil ELSE vs[1]
Read(r, s, n) == s.cell[r.v[n]]
Global(r, s) == s.tab[Read(r, s, "_ENV")[2]]

BindsLeast == <<{"or"}, {"and"}, {"<", ">", "<=", ">=", "~=", "=="}, {"|"}, {"~"}, {"&"},
                {"<<", ">>"}, {".."}, {"+", "-"}, {"*", "//", "%"}>>
Level(op) == CHOOSE l \in DOMAIN BindsLeast : op \in BindsLeast[l]
Binary(e) == {i \in DOMAIN e : i > 1 /\ e[i].t = "op" /\ e[i - 1].t # "op"}
Root(e) ==
  LET low == Min({Level(e[i].op) : i \in Binary(e)})
      S   == {i \in Binary(e) : Level(e[i].op) = low}
  IN IF low = Level("..") THEN Min(S) ELSE Max(S)     \* ".." associates to the right

Operate(op, v, w) ==
  CASE op = "==" -> Bool(v = w)
    [] op = "~=" -> Bool(v # w)
    [] op \in {"<", "<="} -> Compare(op, v, w)
    [] op = ">"  -> Compare("<", w, v)
    [] op = ">=" -> Compare("<=", w, v)
    [] op = ".." -> luaV_concat(<<v, w>>)
    [] OTHER -> luaO_arith(op, v, w)
OperateUnary(op, v) ==
  CASE op = "not" -> Bool(l_isfalse(v))
    [] op = "#"   -> Failure       \* of a table, see Eval
    [] OTHER -> UnaryArith(op, v)
Result(s, v) == IF v = Failure THEN <<Raise(s), Nil>> ELSE <<s, v>>

\* Expressions and blocks contain each other: one recursive operator, defined last.
RECURSIVE Mean(_, _, _, _), Fields(_, _, _, _, _), Loop(_, _, _), If(_, _, _, _),
          Assign(_, _, _, _, _), EvalPlaces(_, _, _, _)
Eval(e, r, s)       == Mean("value", e, r, s)
EvalMulti(e, r, s)  == Mean("values", e, r, s)
EvalList(es, r, s)  == Mean("list", es, r, s)
Call(v, args, s)    == Mean("call", v, args, s)
Exec(blk, i, r, s, seen) == Mean("block", <<blk, i, seen>>, r, s)

\* One value.
ValueOf(e, r, s) ==
  IF s.err THEN <<s, Nil>>
  ELSE IF Binary(e) # {}
  THEN LET i == Root(e)
           a == Eval(SubSeq(e, 1, i - 1), r, s)
           b == Eval(SubSeq(e, i + 1, Len(e)), r, a[1])
       IN CASE e[i].op = "and" -> IF l_isfalse(a[2]) THEN a ELSE b
            [] e[i].op = "or"  -> IF l_isfalse(a[2]) THEN b ELSE a
            [] OTHER -> IF b[1].err THEN b ELSE Result(b[1], Operate(e[i].op, a[2], b[2]))
  ELSE IF e[1].t = "op"
  THEN LET a == Eval(Tail(e), r, s)
       IN IF a[1].err THEN a
          ELSE IF e[1].op = "#" /\ a[2][1] = "tab" THEN <<a[1], Num(luaH_getn(a[1].tab[a[2][2]]))>>
          ELSE IF e[1].op = "#" /\ a[2][1] = "str" THEN <<a[1], Num(Len(a[2][2]))>>
          ELSE Result(a[1], OperateUnary(e[1].op, a[2]))
  ELSE LET m == EvalMulti(e, r, s) IN <<m[1], First(m[2])>>

Get(s, o, k) ==
  IF s.err THEN <<s, <<>>>>
  ELSE IF o[1] # "tab" THEN <<Raise(s), <<>>>> ELSE <<s, <<luaH_get(s.tab[o[2]], k)>>>>
Put(s, o, k, v) ==
  IF s.err THEN s
  ELSE IF o[1] # "tab" \/ k = Nil THEN Raise(s)
  ELSE [s EXCEPT !.tab[o[2]] = luaH_set(@, k, v)]

\* All the values of an expression: several only from a call or "...".
ValuesOf(e, r, s) ==
  IF s.err THEN <<s, <<>>>>
  ELSE IF Len(e) > 1 THEN LET a == Eval(e, r, s) IN <<a[1], <<a[2]>>>>
  ELSE LET tok == e[1]
       IN CASE tok.t = "const"  -> <<s, <<tok.v>>>>
            [] tok.t = "vararg" -> <<s, r.va>>
            [] tok.t = "name"   -> IF tok.n \in DOMAIN r.v THEN <<s, <<Read(r, s, tok.n)>>>>
                                   ELSE <<s, <<luaH_get(Global(r, s), Str(<<tok.n>>))>>>>
            [] tok.t = "paren"  -> LET a == Eval(tok.e, r, s) IN <<a[1], <<a[2]>>>>
            [] tok.t = "function" ->
                 <<[s EXCEPT !.fun = Append(@, [f |-> tok.f, r |-> r, self |-> FALSE])],
                   <<Fun(Len(s.fun) + 1)>>>>
            [] tok.t = "table"  ->
                 LET id == Len(s.tab) + 1
                 IN <<Fields(tok.items, r, [s EXCEPT !.tab = Append(@, <<>>)], id, 1), <<Tab(id)>>>>
            [] tok.t = "index"  ->
                 LET o == Eval(<<tok.o>>, r, s)
                     k == Eval(tok.key, r, o[1])
                 IN Get(k[1], o[2], k[2])
            [] tok.t = "call"   ->
                 LET f == Eval(<<tok.o>>, r, s)
                     a == EvalList(tok.args, r, f[1])
                 IN Call(f[2], a[2], a[1])
            [] tok.t = "method" ->
                 LET o == Eval(<<tok.o>>, r, s)
                     f == Get(o[1], o[2], Str(<<tok.n>>))
                     a == EvalList(tok.args, r, f[1])
                 IN Call(First(f[2]), <<o[2]>> \o a[2], a[1])

ListOf(es, r, s) ==
  IF es = <<>> \/ s.err THEN <<s, <<>>>>
  ELSE IF Len(es) = 1 THEN EvalMulti(es[1], r, s)
  ELSE LET a == Eval(es[1], r, s)
           b == EvalList(Tail(es), r, a[1])
       IN <<b[1], <<a[2]>> \o b[2]>>

\* The items of a constructor; n counts those without a key.
Fields(items, r, s, id, n) ==
  IF items = <<>> \/ s.err THEN s
  ELSE IF items[1].i = "rec"
  THEN LET k == Eval(items[1].key, r, s)
           v == Eval(items[1].e, r, k[1])
       IN Fields(Tail(items), r, Put(v[1], Tab(id), k[2], v[2]), id, n)
  ELSE IF Len(items) > 1
  THEN LET v == Eval(items[1].e, r, s)
       IN Fields(Tail(items), r, Put(v[1], Tab(id), Num(n), v[2]), id, n + 1)
  ELSE LET v == EvalMulti(items[1].e, r, s)
       IN IF v[1].err THEN v[1]
          ELSE [v[1] EXCEPT !.tab[id] =
                  FoldLeft(LAMBDA t, i : luaH_set(t, Num(n + i - 1), v[2][i]), @,
                           [i \in DOMAIN v[2] |-> i])]

emit(args, s) ==
  IF Len(s.log) = MaxLog THEN <<Raise(s), <<>>>> ELSE <<[s EXCEPT !.log = Append(@, args)], args>>
ask(s) ==
  IF s.ans = <<>> THEN <<Raise(s), <<>>>> ELSE <<[s EXCEPT !.ans = Tail(@)], <<s.ans[1]>>>>

Called(v, args, s) ==
  IF s.err THEN <<s, <<>>>>
  ELSE IF v = <<"cfun", "emit">> THEN emit(args, s)
  ELSE IF v = <<"cfun", "ask">> THEN ask(s)
  ELSE IF v[1] # "fun" THEN <<Raise(s), <<>>>>
  ELSE LET c == s.fun[v[2]]
           names == (IF c.self THEN <<"self">> ELSE <<>>) \o c.f.params
           va == IF c.f.vararg THEN SubSeq(args, Len(names) + 1, Len(args)) ELSE <<>>
           r  == Bind([c.r EXCEPT !.va = va], names, Len(s.cell))
           x  == Exec(c.f.body, 1, r, NewCells(s, Adjust(args, Len(names))), <<>>)
       IN <<x.s, x.sig.vs>>

-----------------------------------------------------------------------------
(* Statements end with a signal: go on, go to a label, or return values.   *)

Next_ == [k |-> "next", label |-> "", vs |-> <<>>]
Goto(l) == [k |-> "goto", label |-> l, vs |-> <<>>]
Return(vs) == [k |-> "return", label |-> "", vs |-> vs]
Done(s, sig, r) == [s |-> s, sig |-> sig, r |-> r]
AfterLoop(x, r) == Done(x.s, IF x.sig = Goto("break") THEN Next_ ELSE x.sig, r)

\* One turn of a loop and those after it; w says what loop, where it is.
Loop(w, r, s) ==
  LET c == IF w.k = "while" THEN Eval(w.s.cond, r, s) ELSE <<s, Nil>>
      f == Call(w.f, <<w.state, w.control>>, s)
      names == IF w.k = "fornum" THEN <<w.s.var>> ELSE w.s.names
      first == IF w.k = "fornum" THEN <<Num(w.i)>> ELSE Adjust(f[2], Len(names))
      s1 == CASE w.k = "while"  -> c[1]
              [] w.k = "repeat" -> s
              [] w.k = "fornum" -> NewCells(s, first)
              [] w.k = "forin"  -> NewCells(f[1], first)
      go == CASE w.k = "while"  -> ~l_isfalse(c[2])
              [] w.k = "repeat" -> TRUE
              [] w.k = "fornum" -> IF w.step > 0 THEN w.i <= w.limit ELSE w.limit <= w.i
              [] w.k = "forin"  -> first[1] # Nil
      r1 == IF w.k \in {"fornum", "forin"} THEN Bind(r, names, Len(s1.cell) - Len(first)) ELSE r
      x  == Exec(w.s.body, 1, r1, s1, <<>>)
      u  == IF w.k = "repeat" THEN Eval(w.s.cond, x.r, x.s) ELSE <<x.s, Nil>>
      w1 == CASE w.k = "fornum" -> [w EXCEPT !.i = intop(@ + w.step)]
              [] w.k = "forin"  -> [w EXCEPT !.control = first[1]]
              [] OTHER -> w
  IN IF s1.err \/ ~go THEN Done(s1, Next_, r)
     ELSE IF x.s.err \/ x.sig # Next_ THEN AfterLoop(x, r)
     ELSE IF u[1].err \/ ~l_isfalse(u[2]) THEN Done(u[1], Next_, r)
     ELSE Loop(w1, r, u[1])

If(clauses, orelse, r, s) ==
  IF clauses = <<>>
  THEN IF orelse = <<>> THEN Done(s, Next_, r) ELSE Exec(orelse[1], 1, r, s, <<>>)
  ELSE LET c == Eval(clauses[1].cond, r, s)
       IN IF c[1].err THEN Done(c[1], Next_, r)
          ELSE IF l_isfalse(c[2]) THEN If(Tail(clauses), orelse, r, c[1])
          ELSE Exec(clauses[1].body, 1, r, c[1], <<>>)

\* The places to assign to, <<s, seq of [n] or [o, k]>>, before any value is stored.
EvalPlaces(targets, r, s, acc) ==
  IF targets = <<>> THEN <<s, acc>>
  ELSE LET tok == targets[1]
           o == Eval(<<tok.o>>, r, s)
           k == Eval(tok.key, r, o[1])
       IN IF tok.t = "index" THEN EvalPlaces(Tail(targets), r, k[1], Append(acc, [n |-> "", o |-> o[2], k |-> k[2]]))
          ELSE IF tok.n \in DOMAIN r.v
          THEN EvalPlaces(Tail(targets), r, s, Append(acc, [n |-> tok.n, o |-> Nil, k |-> Nil]))
          ELSE EvalPlaces(Tail(targets), r, s,
                          Append(acc, [n |-> "", o |-> Read(r, s, "_ENV"), k |-> Str(<<tok.n>>)]))

\* From the last to the first, as the code generator does; the language leaves
\* the order open.
Assign(places, vs, r, s, i) ==
  IF i = 0 \/ s.err THEN s
  ELSE Assign(places, vs, r,
              IF places[i].n # "" THEN [s EXCEPT !.cell[r.v[places[i].n]] = vs[i]]
              ELSE Put(s, places[i].o, places[i].k, vs[i]), i - 1)

MakeFunction(f, r, s, self) ==
  [s EXCEPT !.fun = Append(@, [f |-> f, r |-> r, self |-> self])]

Step(st, r, s) ==
  CASE st.s = "local" ->
         LET e == EvalList(st.es, r, s)
         IN Done(NewCells(e[1], Adjust(e[2], Len(st.names))), Next_, Bind(r, st.names, Len(e[1].cell)))
    [] st.s = "localfunction" ->
         LET r1 == Bind(r, <<st.name>>, Len(s.cell))
         IN Done(MakeFunction(st.f, r1, NewCells(s, <<Fun(Len(s.fun) + 1)>>), FALSE), Next_, r1)
    [] st.s = "function" ->
         LET p == EvalPlaces(<<st.var>>, r, s, <<>>)
         IN Done(Assign(p[2], <<Fun(Len(p[1].fun) + 1)>>, r,
                        MakeFunction(st.f, r, p[1], st.ismethod), 1), Next_, r)
    [] st.s = "assign" ->
         LET p == EvalPlaces(st.targets, r, s, <<>>)
             e == EvalList(st.es, r, p[1])
             n == Len(st.targets)
         IN Done(Assign(p[2], Adjust(e[2], n), r, e[1], n), Next_, r)
    [] st.s = "call"   -> Done(EvalMulti(<<st.e>>, r, s)[1], Next_, r)
    [] st.s = "return" -> LET e == EvalList(st.es, r, s) IN Done(e[1], Return(e[2]), r)
    [] st.s = "goto"   -> Done(s, Goto(st.label), r)
    [] st.s = "label"  -> Done(s, Next_, r)
    [] st.s = "do"     -> LET x == Exec(st.body, 1, r, s, <<>>) IN Done(x.s, x.sig, r)
    [] st.s = "if"     -> LET x == If(st.clauses, st.orelse, r, s) IN Done(x.s, x.sig, r)
    [] st.s \in {"while", "repeat"} ->
         Loop([k |-> st.s, s |-> st, f |-> Nil, state |-> Nil, control |-> Nil, i |-> 0, step |-> 0, limit |-> 0], r, s)
    [] st.s = "fornum" ->
         LET e == EvalList(<<st.init, st.limit>> \o st.step, r, s)
             vs == IF st.step = <<>> THEN Append(Adjust(e[2], 2), Num(1)) ELSE Adjust(e[2], 3)
         IN IF e[1].err THEN Done(e[1], Next_, r)
            ELSE IF \E i \in 1..3 : ~ttisinteger(vs[i]) THEN Done(Raise(e[1]), Next_, r)
            ELSE Loop([k |-> "fornum", s |-> st, f |-> Nil, state |-> Nil, control |-> Nil,
                       i |-> vs[1][2], limit |-> vs[2][2], step |-> vs[3][2]], r, e[1])
    [] st.s = "forin" ->
         LET e == EvalList(st.es, r, s)
             vs == Adjust(e[2], 3)
         IN IF e[1].err THEN Done(e[1], Next_, r)
            ELSE Loop([k |-> "forin", s |-> st, f |-> vs[1], state |-> vs[2], control |-> vs[3],
                       i |-> 0, step |-> 0, limit |-> 0], r, e[1])

\* A block from its statement i on; seen[j]: the environment at statement j
\* when it was last passed, which a goto back to it restores.
Executed(blk, i, r, s, seen) ==
  IF i > Len(blk) \/ s.err THEN Done(s, Next_, r)
  ELSE LET x == Step(blk[i], r, s)
           now == (i :> r) @@ seen
           J == {j \in DOMAIN blk : blk[j].s = "label" /\ blk[j].label = x.sig.label}
           j == CHOOSE n \in J : TRUE
       IN IF x.s.err THEN Done(x.s, Next_, r)
          ELSE IF x.sig = Next_ THEN Exec(blk, i + 1, x.r, x.s, now)
          ELSE IF x.sig.k = "goto" /\ J # {}
          THEN Exec(blk, j, IF j <= i THEN now[j] ELSE r, x.s, now)
          ELSE x

Mean(what, x, r, s) ==
  CASE what = "value"  -> ValueOf(x, r, s)
    [] what = "values" -> ValuesOf(x, r, s)
    [] what = "list"   -> ListOf(x, r, s)
    [] what = "call"   -> Called(x, r, s)
    [] what = "block"  -> Executed(x[1], x[2], r, s, x[3])

\* What a program (a chunk, its arguments, the answers) does.
Ending(s, vs) == [outcome |-> IF s.err THEN "error" ELSE "returned", log |-> s.log,
                  results |-> IF s.err THEN <<>> ELSE vs]
EndOf(x) == Ending(x.s, x.sig.vs)
Meaning(p) ==
  LET env == (Str(<<"emit">>) :> <<"cfun", "emit">>) @@ (Str(<<"ask">>) :> <<"cfun", "ask">>)
      s == [cell |-> <<Tab(1)>>, tab |-> <<env>>, fun |-> <<>>, log |-> <<>>, ans |-> p.ans, err |-> FALSE]
  IN IF p.load = "cut" \/ ~ValidBlock(p.chunk, {}, FALSE, TRUE)
     THEN [outcome |-> "rejected", log |-> <<>>, results |-> <<>>]
     ELSE EndOf(Exec(p.chunk, 1, [v |-> "_ENV" :> 1, va |-> p.args], s, <<>>))

-----------------------------------------------------------------------------
Init ==
  /\ promised = Meaning(program)
  /\ log = <<>> /\ outcome = "running" /\ results = <<>>

Say ==
  /\ outcome = "running" /\ Len(log) < Len(promised.log)
  /\ log' = SubSeq(promised.log, 1, Len(log) + 1)
  /\ UNCHANGED <<program, promised, outcome, results>>

End ==
  /\ outcome = "running" /\ log = promised.log
  /\ outcome' = promised.outcome /\ results' = promised.results
  /\ UNCHANGED <<program, promised, log>>

Next == Say \/ End
Spec == Init /\ [][Next]_vars
=============================================================================
