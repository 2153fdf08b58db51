----------------------------- MODULE LuaParser ------------------------------
(***************************************************************************)
(* The parser, lparser.c, from the syntax of a chunk to its prototype.     *)
(*                                                                         *)
(* The lexer and the grammar's punctuation are left out: a block is a      *)
(* sequence of statement records.  An expression is still a flat sequence  *)
(* of operands and operators, which subexpr groups by priority; operands   *)
(* with suffixes (index, call) are trees.                                  *)
(*                                                                         *)
(* ls is the lexer state with what it refers to: ls.fs the stack of        *)
(* function states, the last of which is the current one, and the dynamic  *)
(* data actvar (names of the active locals), gt (pending gotos) and label. *)
(* Names stand for their debug information, which is left out.  A syntax   *)
(* error sets err and the parser runs on; nothing it does then counts.     *)
(***************************************************************************)
EXTENDS LuaCode

Fs(ls)     == Last(ls.fs)
On(ls, fs) == [ls EXCEPT !.fs[Len(ls.fs)] = fs]
OnE(ls, r) == <<On(ls, r[1]), r[2]>>     \* for a result <<fs, e>>
Gen(luaK(_, _), d) == OnE(d[1], luaK(Fs(d[1]), d[2]))    \* for d = <<ls, e>>
semerror(ls, p) == On(ls, [Fs(ls) EXCEPT !.err = @ \/ p])
codestring(ls, v) ==
  LET kk == addk(Fs(ls), v) IN <<On(ls, kk[1]), init_exp("VK", kk[2])>>
Name(n) == Str(<<n>>)

-----------------------------------------------------------------------------
(* Locals and upvalues.                                                    *)

new_localvar(ls, n) == [ls EXCEPT !.actvar = Append(@, n)]
adjustlocalvars(ls, nvars) == On(ls, [Fs(ls) EXCEPT !.nactvar = @ + nvars])
getlocvar(ls, fs, i) == ls.actvar[fs.firstlocal + i + 1]
removevars(ls, tolevel) ==
  LET fs == Fs(ls)
  IN [On(ls, [fs EXCEPT !.nactvar = tolevel])
        EXCEPT !.actvar = SubSeq(@, 1, Len(@) - (fs.nactvar - tolevel))]

searchupvalue(fs, n) == SelectInSeq(fs.ups, LAMBDA u : u.name = n) - 1
newupvalue(fs, n, v) ==
  [fs EXCEPT !.ups = Append(@, [name |-> n, instack |-> v.k = "VLOCAL", idx |-> v.info])]
searchvar(ls, fs, n) ==
  LET S == {i \in 0..fs.nactvar - 1 : getlocvar(ls, fs, i) = n}
  IN IF S = {} THEN -1 ELSE Max(S)

\* The block where the variable "level" is declared has to close it.
markupval(fs, level) ==
  [fs EXCEPT !.bl[Max({i \in DOMAIN fs.bl : fs.bl[i].nactvar <= level})].upval = TRUE]

\* Looks a name up from the function at "lev" outwards; every function in
\* between gets an upvalue.
RECURSIVE singlevaraux(_, _, _, _)
singlevaraux(ls, lev, n, base) ==
  IF lev = 0 THEN <<ls, init_exp("VVOID", 0)>>
  ELSE LET fs == ls.fs[lev]
           v  == searchvar(ls, fs, n)
           u  == searchupvalue(fs, n)
           r  == singlevaraux(ls, lev - 1, n, FALSE)
       IN IF v >= 0
          THEN <<IF base THEN ls ELSE [ls EXCEPT !.fs[lev] = markupval(fs, v)],
                 init_exp("VLOCAL", v)>>
          ELSE IF u >= 0 THEN <<ls, init_exp("VUPVAL", u)>>
          ELSE IF r[2].k = "VVOID" THEN r
          ELSE <<[r[1] EXCEPT !.fs[lev] = newupvalue(@, n, r[2])],
                 init_exp("VUPVAL", Len(fs.ups))>>

globalvar(env, key) == OnE(key[1], luaK_indexed(Fs(key[1]), env, key[2]))
inenv(env, n) == globalvar(env[2], codestring(env[1], Name(n)))
orglobal(r, n) ==
  IF r[2].k # "VVOID" THEN r ELSE inenv(singlevaraux(r[1], Len(r[1].fs), "_ENV", TRUE), n)
singlevar(ls, n) == orglobal(singlevaraux(ls, Len(ls.fs), n, TRUE), n)

-----------------------------------------------------------------------------
(* Blocks, labels and gotos.                                               *)

newlabelentry(ls, n, pc) == [name |-> n, pc |-> pc, nactvar |-> Fs(ls).nactvar]

closegoto(ls, g, lb) ==
  LET gt == ls.gt[g]
      p  == semerror(ls, gt.nactvar < lb.nactvar)   \* into the scope of a local
  IN [On(p, luaK_patchlist(Fs(p), gt.pc, lb.pc)) EXCEPT !.gt = RemoveAt(@, g)]

\* <<ls, found>>
findlabel(ls, g) ==
  LET fs == Fs(ls)
      bl == Last(fs.bl)
      gt == ls.gt[g]
      S  == {i \in bl.firstlabel + 1..Len(ls.label) : ls.label[i].name = gt.name}
      lb == ls.label[Min(S)]
      close == gt.nactvar > lb.nactvar /\ (bl.upval \/ Len(ls.label) > bl.firstlabel)
      p  == IF close THEN On(ls, luaK_patchclose(fs, gt.pc, lb.nactvar)) ELSE ls
  IN IF S = {} THEN <<ls, FALSE>> ELSE <<closegoto(p, g, lb), TRUE>>

RECURSIVE findgotosFrom(_, _, _)
findgotosFrom(ls, lb, i) ==
  IF i > Len(ls.gt) THEN ls
  ELSE IF ls.gt[i].name = lb.name THEN findgotosFrom(closegoto(ls, i, lb), lb, i)
  ELSE findgotosFrom(ls, lb, i + 1)
findgotos(ls, lb) == findgotosFrom(ls, lb, Last(Fs(ls).bl).firstgoto + 1)

RECURSIVE movegotosout(_, _, _)
nextgoto(r, bl, i) == movegotosout(r[1], bl, IF r[2] THEN i ELSE i + 1)
movegotosout(ls, bl, i) ==
  IF i > Len(ls.gt) THEN ls
  ELSE LET gt == ls.gt[i]
           out == gt.nactvar > bl.nactvar
           p == IF out /\ bl.upval THEN On(ls, luaK_patchclose(Fs(ls), gt.pc, bl.nactvar)) ELSE ls
       IN nextgoto(findlabel(IF out THEN [p EXCEPT !.gt[i].nactvar = bl.nactvar] ELSE p, i), bl, i)

enterblock(ls, isloop) ==
  LET fs == Fs(ls)
      bl == [isloop |-> isloop, nactvar |-> fs.nactvar, upval |-> FALSE,
             firstlabel |-> Len(ls.label), firstgoto |-> Len(ls.gt)]
  IN On(ls, [lua_assert(fs, fs.freereg = fs.nactvar) EXCEPT !.bl = Append(@, bl)])

breaklabel(ls) ==
  LET lb == newlabelentry(ls, "break", PC(Fs(ls)))
  IN findgotos([ls EXCEPT !.label = Append(@, lb)], lb)

\* A block whose variables are upvalues closes them with a jump to the next
\* instruction; so do the jumps that leave it.
closeblock(ls, bl, j) ==
  On(ls, luaK_patchtohere(luaK_patchclose(j[1], j[2], bl.nactvar), j[2]))
endloop(ls, isloop) == IF isloop THEN breaklabel(ls) ELSE ls
dropblock(ls, bl) ==
  LET r == removevars(On(ls, [Fs(ls) EXCEPT !.bl = Front(@)]), bl.nactvar)
  IN [On(r, [Fs(r) EXCEPT !.freereg = bl.nactvar]) EXCEPT !.label = SubSeq(@, 1, bl.firstlabel)]
leavegotos(ls, bl, inner) ==
  IF inner THEN movegotosout(ls, bl, bl.firstgoto + 1)
  ELSE semerror(ls, bl.firstgoto < Len(ls.gt))        \* undefgoto
leaveblock(ls) ==
  LET bl == Last(Fs(ls).bl)
      inner == Len(Fs(ls).bl) > 1
      closed == IF inner /\ bl.upval THEN closeblock(ls, bl, luaK_jump(Fs(ls))) ELSE ls
  IN leavegotos(dropblock(endloop(closed, bl.isloop), bl), bl, inner)

open_func(ls, h) ==
  enterblock([ls EXCEPT !.fs = Append(@,
    [code |-> <<>>, lasttarget |-> 0, jpc |-> {}, freereg |-> 0, nactvar |-> 0,
     k |-> <<>>, p |-> <<>>, ups |-> <<>>, bl |-> <<>>, firstlocal |-> Len(ls.actvar),
     maxstacksize |-> 2, numparams |-> 0, vararg |-> FALSE, h |-> h,
     ok |-> TRUE, err |-> FALSE])], FALSE)

Proto(fs) == [code |-> fs.code, k |-> fs.k, p |-> fs.p, ups |-> fs.ups,
              maxstacksize |-> fs.maxstacksize, numparams |-> fs.numparams,
              is_vararg |-> fs.vararg]

\* The function state that close_func leaves, still on the stack.
endfunc(ls) == On(ls, lua_assert(Fs(ls), Fs(ls).bl = <<>> /\ Fs(ls).jpc = {}))
close_func(ls) == endfunc(leaveblock(On(ls, luaK_ret(Fs(ls), 0, 0))))

\* Back in the enclosing function, with the new prototype and its closure.
codeclosure(ls) ==
  LET new == Fs(ls)
      out == [ls EXCEPT !.fs = Front(@)]
      fs  == [Fs(out) EXCEPT !.p = Append(@, Proto(new)), !.h = new.h,
                             !.ok = @ /\ new.ok, !.err = @ \/ new.err]
      g   == luaK_codeABC(fs, "CLOSURE", 0, Len(fs.p) - 1, 0)
  IN OnE(out, luaK_exp2nextreg(g, init_exp("VRELOCABLE", PC(g) - 1)))

-----------------------------------------------------------------------------
(* Expressions: <<ls, e>>.                                                 *)

\* The procedures call each other through one recursive operator, defined last.
RECURSIVE parse(_, _, _), subexpr(_, _, _, _), subexprLoop(_, _, _), simpleexp(_, _),
          constructor(_, _), fields(_, _, _, _), body(_, _, _),
          statement(_, _, _, _), test_then_blocks(_, _, _, _), assigntargets(_, _, _)
expr(ls, toks)       == parse("expr", ls, toks)
explist(ls, es)      == parse("explist", ls, es)
suffixedexp(ls, tok) == parse("suffixedexp", ls, tok)
statlist(ls, blk, i, until) == parse("statlist", ls, <<blk, i, until>>)

UNARY_PRIORITY == 12
left(op) ==
  CASE op = "or" -> 1 [] op = "and" -> 2
    [] op \in {"==", "~=", "<", "<=", ">", ">="} -> 3
    [] op = "|" -> 4 [] op = "~" -> 5 [] op = "&" -> 6 [] op \in {"<<", ">>"} -> 7
    [] op = ".." -> 9 [] op \in {"+", "-"} -> 10 [] op \in {"*", "//", "%"} -> 11
right(op) == IF op = ".." THEN 8 ELSE left(op)

IsOp(toks, i) == i <= Len(toks) /\ toks[i].t = "op"

\* <<ls, e, i>>: the expression that ends before token i.
prefixed(op, r) == Append(OnE(r[1], luaK_prefix(Fs(r[1]), op, r[2])), r[3])
firstoperand(ls, toks, i) ==
  IF IsOp(toks, i) THEN prefixed(toks[i].op, subexpr(ls, toks, i + 1, UNARY_PRIORITY))
  ELSE Append(simpleexp(ls, toks[i]), i + 1)
subexpr(ls, toks, i, limit) == subexprLoop(firstoperand(ls, toks, i), toks, limit)

infix(op, r) == OnE(r[1], luaK_infix(Fs(r[1]), op, r[2]))
posfix(op, v, v2) == Append(OnE(v2[1], luaK_posfix(Fs(v2[1]), op, v[2], v2[2])), v2[3])
operation(op, v, toks, i) == posfix(op, v, subexpr(v[1], toks, i, right(op)))

subexprLoop(r, toks, limit) ==
  IF ~(IsOp(toks, r[3]) /\ left(toks[r[3]].op) > limit) THEN r
  ELSE LET op == toks[r[3]].op
       IN subexprLoop(operation(op, infix(op, r), toks, r[3] + 1), toks, limit)

simpleexp(ls, tok) ==
  CASE tok.t = "const" ->
         (CASE tok.v[1] = "nil" -> <<ls, init_exp("VNIL", 0)>>
            [] tok.v[1] = "bool" -> <<ls, init_exp(IF tok.v[2] THEN "VTRUE" ELSE "VFALSE", 0)>>
            [] tok.v[1] = "int" -> <<ls, init_exp("VKINT", tok.v[2])>>
            [] OTHER -> codestring(ls, tok.v))
    [] tok.t = "vararg" ->
         LET g == luaK_codeABC(Fs(ls), "VARARG", 0, 1, 0)
         IN <<semerror(On(ls, g), ~g.vararg), init_exp("VVARARG", PC(g) - 1)>>
    [] tok.t = "function" -> body(ls, tok.f, FALSE)
    [] tok.t = "table" -> constructor(ls, tok.items)
    [] OTHER -> suffixedexp(ls, tok)

callinstr(ls, fs, f, nparams) ==
  LET g == luaK_codeABC(fs, "CALL", f.info, nparams + 1, 2)
  IN <<On(ls, [g EXCEPT !.freereg = f.info + 1]), init_exp("VCALL", PC(g) - 1)>>
argcount(ls, fs, f, open) ==
  callinstr(ls, lua_assert(fs, f.k = "VNONRELOC"), f,
            IF open THEN MULTRET ELSE fs.freereg - (f.info + 1))
closeargs(ls, e) ==
  IF hasmultret(e.k) THEN luaK_setreturns(Fs(ls), e, MULTRET)
  ELSE IF e.k = "VVOID" THEN Fs(ls) ELSE luaK_exp2nextreg(Fs(ls), e)[1]
callwith(a, f) == argcount(a[1], closeargs(a[1], a[2]), f, hasmultret(a[2].k))
funcargs(ls, f, args) ==
  callwith(IF args = <<>> THEN <<ls, init_exp("VVOID", 0)>> ELSE explist(ls, args), f)

yindex(ls, toks) == Gen(luaK_exp2val, expr(ls, toks))
keyed(o, k) == OnE(k[1], luaK_indexed(Fs(k[1]), o, k[2]))
fieldsel(o, toks) == keyed(o[2], yindex(o[1], toks))
call(f, args) == funcargs(f[1], f[2], args)
methodcall(o, k, args) == call(OnE(k[1], luaK_self(Fs(k[1]), o, k[2])), args)
method(o, n, args) == methodcall(o[2], codestring(o[1], Name(n)), args)
suffixes(ls, tok) ==
  CASE tok.t = "name"   -> singlevar(ls, tok.n)
    [] tok.t = "paren"  -> Gen(luaK_dischargevars, expr(ls, tok.e))
    [] tok.t = "index"  -> fieldsel(Gen(luaK_exp2anyregup, suffixedexp(ls, tok.o)), tok.key)
    [] tok.t = "call"   -> call(Gen(luaK_exp2nextreg, suffixedexp(ls, tok.o)), tok.args)
    [] tok.t = "method" -> method(suffixedexp(ls, tok.o), tok.n, tok.args)

\* All but the last expression are in registers.
lastexp(d, toks) == expr(d[1], toks)
expressions(ls, es) ==
  IF Len(es) = 1 THEN expr(ls, es[1])
  ELSE lastexp(Gen(luaK_exp2nextreg, explist(ls, Front(es))), Last(es))

\* cc: v the pending list item, na the items stored, tostore those waiting.
closelistfield(ls, cc, t) ==
  LET flush == cc.tostore = FieldsPerFlush
      Flushed(fs) == IF flush THEN luaK_setlist(fs, t, cc.na, cc.tostore) ELSE fs
  IN IF cc.v.k = "VVOID" THEN <<ls, cc>>
     ELSE <<On(ls, Flushed(luaK_exp2nextreg(Fs(ls), cc.v)[1])),
            [cc EXCEPT !.v.k = "VVOID", !.tostore = IF flush THEN 0 ELSE @]>>

lastlistfield(ls, cc, t) ==
  LET fs == Fs(ls)
  IN IF cc.tostore = 0 THEN ls
     ELSE IF hasmultret(cc.v.k)
     THEN On(ls, luaK_setlist(luaK_setreturns(fs, cc.v, MULTRET), t, cc.na, MULTRET))
     ELSE On(ls, luaK_setlist(IF cc.v.k = "VVOID" THEN fs ELSE luaK_exp2nextreg(fs, cc.v)[1],
                              t, cc.na, cc.tostore))

setfield(ls, t, rk, rv, reg) ==
  On(ls, [luaK_codeABC(rv[1], "SETTABLE", t, rk, rv[3]) EXCEPT !.freereg = reg])
fieldvalue(v, t, rk, reg) == setfield(v[1], t, rk, luaK_exp2RK(Fs(v[1]), v[2]), reg)
fieldkey(ls, rk, toks, t, reg) == fieldvalue(expr(On(ls, rk[1]), toks), t, rk[3], reg)
fieldindex(k, toks, t, reg) == fieldkey(k[1], luaK_exp2RK(Fs(k[1]), k[2]), toks, t, reg)
recfield(ls, item, t) == fieldindex(yindex(ls, item.key), item.e, t, Fs(ls).freereg)

listfield(v, items, cc, t) ==
  fields(v[1], items, [v |-> v[2], na |-> cc.na + 1, tostore |-> cc.tostore + 1], t)
field(ls, items, cc, t) ==
  IF items[1].i = "rec" THEN fields(recfield(ls, items[1], t), Tail(items), cc, t)
  ELSE listfield(expr(ls, items[1].e), Tail(items), cc, t)
nextfield(r, items, t) == field(r[1], items, r[2], t)
fields(ls, items, cc, t) ==
  IF items = <<>> THEN lastlistfield(ls, cc, t)
  ELSE nextfield(closelistfield(ls, cc, t), items, t)

newtable(d, items) ==
  <<fields(d[1], items, [v |-> init_exp("VVOID", 0), na |-> 0, tostore |-> 0], d[2].info), d[2]>>
constructor(ls, items) ==
  LET g == luaK_codeABC(Fs(ls), "NEWTABLE", 0, 0, 0)
  IN newtable(OnE(ls, luaK_exp2nextreg(g, init_exp("VRELOCABLE", PC(g) - 1))), items)

parlist(ls, f, ismethod) ==
  LET names == (IF ismethod THEN <<"self">> ELSE <<>>) \o f.params
      fs == [Fs(ls) EXCEPT !.vararg = f.vararg, !.numparams = Len(names), !.nactvar = Len(names)]
  IN On([ls EXCEPT !.actvar = @ \o names], luaK_reserveregs(fs, Len(names)))

body(ls, f, ismethod) ==
  codeclosure(close_func(
    statlist(parlist(open_func(ls, Fs(ls).h), f, ismethod), f.body, 1, FALSE)))

-----------------------------------------------------------------------------
(* Assignments.                                                            *)

addnils(fs, extra) == luaK_nil(luaK_reserveregs(fs, extra), fs.freereg, extra)
adjust_assign(ls, nvars, nexps, e) ==
  LET fs == Fs(ls)
      extra == nvars - nexps
      more == IF extra + 1 < 0 THEN 0 ELSE extra + 1
      set == luaK_setreturns(fs, e, more)
      one == IF e.k = "VVOID" THEN fs ELSE luaK_exp2nextreg(fs, e)[1]
      g == IF hasmultret(e.k) THEN IF more > 1 THEN luaK_reserveregs(set, more - 1) ELSE set
           ELSE IF extra > 0 THEN addnils(one, extra) ELSE one
      Surplus(f) == IF nexps > nvars THEN [f EXCEPT !.freereg = @ - (nexps - nvars)] ELSE f
  IN On(ls, Surplus(g))

\* Mutant: only the table of an earlier target is looked at, not its index.
check_conflict_table(ls, lhs, v) ==
  LET fs == Fs(ls)
      T(l) == l.k = "VINDEXED" /\ l.vt = v.k /\ l.tab = v.info
      op == IF v.k = "VLOCAL" THEN "MOVE" ELSE "GETUPVAL"
      g == luaK_reserveregs(luaK_codeABC(fs, op, fs.freereg, v.info, 0), 1)
  IN <<IF \E i \in DOMAIN lhs : T(lhs[i]) THEN On(ls, g) ELSE ls,
       [i \in DOMAIN lhs |-> IF T(lhs[i]) THEN [lhs[i] EXCEPT !.vt = "VLOCAL", !.tab = fs.freereg]
                             ELSE lhs[i]]>>

\* <<ls, lhs>>: a variable that is assigned and that an earlier target indexes
\* is copied to a register, which the target then uses.
check_conflict(ls, lhs, v) ==
  LET fs == Fs(ls)
      extra == fs.freereg
      T(l) == l.k = "VINDEXED" /\ l.vt = v.k /\ l.tab = v.info
      I(l) == l.k = "VINDEXED" /\ v.k = "VLOCAL" /\ l.idx = v.info
      op == IF v.k = "VLOCAL" THEN "MOVE" ELSE "GETUPVAL"
      Safe(l) == [l EXCEPT !.vt = IF T(l) THEN "VLOCAL" ELSE @,
                           !.tab = IF T(l) THEN extra ELSE @,
                           !.idx = IF I(l) THEN extra ELSE @]
      g == luaK_reserveregs(luaK_codeABC(fs, op, extra, v.info, 0), 1)
  IN <<IF \E i \in DOMAIN lhs : T(lhs[i]) \/ I(lhs[i]) THEN On(ls, g) ELSE ls,
       [i \in DOMAIN lhs |-> Safe(lhs[i])]>>

lhstarget(v, targets, lhs) ==
  LET safe == v[2].k = "VINDEXED" \/ lhs = <<>>
      Next_(c) == assigntargets(c[1], targets, Append(c[2], v[2]))
  IN Next_(IF safe THEN <<v[1], lhs>> ELSE check_conflict(v[1], lhs, v[2]))
assigntargets(ls, targets, lhs) ==
  IF targets = <<>> THEN <<ls, lhs>>
  ELSE lhstarget(suffixedexp(ls, targets[1]), Tail(targets), lhs)

storelast(ls, r, var) == On(ls, luaK_storevar(r[1], var, r[2]))
storetop(var, fs) == luaK_storevar(fs, var, init_exp("VNONRELOC", fs.freereg - 1))
storeall(ls, lhs) == On(ls, FoldRight(storetop, lhs, Fs(ls)))
assignvalues(v, lhs, nexps) ==
  IF nexps = Len(lhs)
  THEN storeall(storelast(v[1], luaK_setoneret(Fs(v[1]), v[2]), Last(lhs)), Front(lhs))
  ELSE storeall(adjust_assign(v[1], Len(lhs), nexps, v[2]), lhs)
assignto(r, es) == assignvalues(explist(r[1], es), r[2], Len(es))
assignment(ls, targets, es) == assignto(assigntargets(ls, targets, <<>>), es)

-----------------------------------------------------------------------------
(* Statements.                                                             *)

block(ls, blk) == leaveblock(statlist(enterblock(ls, FALSE), blk, 1, FALSE))

\* <<ls, list>>: the jumps taken when the condition is false.
goif(v) == Gen(luaK_goiftrue, <<v[1], [v[2] EXCEPT !.k = IF @ = "VNIL" THEN "VFALSE" ELSE @]>>)
falsejumps(d) == <<d[1], d[2].f>>
cond(ls, toks) == falsejumps(goif(expr(ls, toks)))

patchjump(j, target) == luaK_patchlist(j[1], j[2], target)
jumpto(fs, target) == patchjump(luaK_jump(fs), target)

gotostat(ls, label, pc) ==
  LET p == [ls EXCEPT !.gt = Append(@, newlabelentry(ls, label, pc))]
  IN findlabel(p, Len(p.gt))[1]

\* <<ls, i>>: labels that follow are part of the statement.  A label that ends
\* its block counts as outside the scope of the block's locals; the end of a
\* repeat is not such an end.
endlabel(skip, l, level, atend) ==
  LET q == IF atend THEN [skip[1] EXCEPT !.label[l].nactvar = level] ELSE skip[1]
  IN <<findgotos(q, q.label[l]), skip[2]>>
nextlabel(ls, blk, i, until) ==
  IF i < Len(blk) /\ blk[i + 1].s = "label" THEN statement(ls, blk, i + 1, until)
  ELSE <<ls, i + 1>>
endlabels(skip, blk, l, level, until) ==
  endlabel(skip, l, level, skip[2] > Len(blk) /\ ~until)
labelstat(ls, blk, i, until) ==
  LET fs == Fs(ls)
      bl == Last(fs.bl)
      repeated == \E l \in bl.firstlabel + 1..Len(ls.label) : ls.label[l].name = blk[i].label
      lb == newlabelentry(ls, blk[i].label, PC(fs))
      p == [semerror(On(ls, luaK_getlabel(fs)), repeated) EXCEPT !.label = Append(@, lb)]
  IN endlabels(nextlabel(p, blk, i, until), blk, Len(ls.label) + 1, bl.nactvar, until)

loopback(ls, target) == leaveblock(On(ls, jumpto(Fs(ls), target)))
exitloop(ls, list) == On(ls, luaK_patchtohere(Fs(ls), list))
whilebody(c, blk, target) == exitloop(loopback(block(enterblock(c[1], TRUE), blk), target), c[2])
whilestat(ls, s) ==
  whilebody(cond(On(ls, luaK_getlabel(Fs(ls))), s.cond), s.body, PC(Fs(ls)))

\* The condition sees the locals of the body, so it belongs to its block.
untiljumps(ls, list, bl2) ==
  leaveblock(IF bl2.upval THEN On(ls, luaK_patchclose(Fs(ls), list, bl2.nactvar)) ELSE ls)
repeatback(ls, list, target) == leaveblock(On(ls, luaK_patchlist(Fs(ls), list, target)))
untilcond(c, target) == repeatback(untiljumps(c[1], c[2], Last(Fs(c[1]).bl)), c[2], target)
repeatstat(ls, s) ==
  LET init == enterblock(enterblock(On(ls, luaK_getlabel(Fs(ls))), TRUE), FALSE)
  IN untilcond(cond(statlist(init, s.body, 1, TRUE), s.cond), PC(Fs(ls)))

innextreg(d) == On(d[1], lua_assert(Fs(d[1]), d[2].k = "VNONRELOC"))
exp1(ls, toks) == innextreg(Gen(luaK_exp2nextreg, expr(ls, toks)))

jumpgoto(ls) == LET j == luaK_jump(Fs(ls)) IN <<On(ls, j[1]), j[2]>>

\* The three hidden variables of the loop are active; the nvars others are
\* declared but not yet active.
forprep(ls, base, isnum) ==
  IF isnum THEN <<On(ls, luaK_codeABC(Fs(ls), "FORPREP", base, NO_JUMP, 0)), {PC(Fs(ls))}>>
  ELSE jumpgoto(ls)
forend(fs, base, nvars, isnum) ==
  IF isnum THEN luaK_codeABC(fs, "FORLOOP", base, NO_JUMP, 0)
  ELSE luaK_codeABC(luaK_codeABC(fs, "TFORCALL", base, 0, nvars), "TFORLOOP", base + 2, NO_JUMP, 0)
backtostart(ls, g, start) == On(ls, luaK_patchlist(g, {PC(g) - 1}, start))
endfor(ls, prep, start, base, nvars, isnum) ==
  backtostart(ls, forend(luaK_patchtohere(Fs(ls), prep), base, nvars, isnum), start)
forblock(ls, nvars, blk) ==
  leaveblock(block(On(ls, luaK_reserveregs(Fs(ls), nvars)), blk))
forprepared(p, base, nvars, isnum, blk) ==
  endfor(forblock(adjustlocalvars(enterblock(p[1], FALSE), nvars), nvars, blk),
         p[2], PC(Fs(p[1])), base, nvars, isnum)
forbody(ls, base, nvars, isnum, blk) ==
  forprepared(forprep(adjustlocalvars(ls, 3), base, isnum), base, nvars, isnum, blk)

forstep(ls, step) ==
  IF step # <<>> THEN exp1(ls, step[1])
  ELSE LET kk == codeconstant(Fs(ls), Fs(ls).freereg, Num(1)) IN On(ls, luaK_reserveregs(kk, 1))
fornum(ls, s) ==
  LET v == [ls EXCEPT !.actvar = @ \o <<"(for index)", "(for limit)", "(for step)", s.var>>]
  IN forbody(forstep(exp1(exp1(v, s.init), s.limit), s.step), Fs(ls).freereg, 1, TRUE, s.body)

generators(e, n) == adjust_assign(e[1], 3, n, e[2])
callspace(ls) == On(ls, luaK_checkstack(Fs(ls), 3))
forlist(ls, s) ==
  LET v == [ls EXCEPT !.actvar = @ \o <<"(for generator)", "(for state)", "(for control)">> \o s.names]
  IN forbody(callspace(generators(explist(v, s.es), Len(s.es))), Fs(ls).freereg, Len(s.names),
             FALSE, s.body)

forstat(ls, s) ==
  leaveblock(IF s.s = "fornum" THEN fornum(enterblock(ls, TRUE), s)
             ELSE forlist(enterblock(ls, TRUE), s))

\* A goto or break that comes first takes the condition's own jump.
\* "more": an else or elseif follows.  <<ls, escapelist>>
gotoblock(d, label) == gotostat(enterblock(d[1], FALSE), label, d[2].t)
thenblock(d) == <<enterblock(d[1], FALSE), d[2].f>>
elsejump(j, jf, escapelist) ==
  <<On(j[1], luaK_patchtohere(Fs(j[1]), jf)), escapelist \cup j[2]>>
endthen(ls, jf, escapelist, more) ==
  IF more THEN elsejump(jumpgoto(ls), jf, escapelist)
  ELSE <<On(ls, luaK_patchtohere(Fs(ls), jf)), escapelist>>
thenbody(p, blk, first, escapelist, more) ==
  endthen(leaveblock(statlist(p[1], blk, first, FALSE)), p[2], escapelist, more)
gotothen(ls, blk, escapelist, more) ==
  IF Len(blk) = 1 THEN <<leaveblock(ls), escapelist>>
  ELSE thenbody(jumpgoto(ls), blk, 2, escapelist, more)
test_then_block(ls, clause, escapelist, more) ==
  LET blk == clause.body
  IN IF blk # <<>> /\ blk[1].s = "goto"
     THEN gotothen(gotoblock(Gen(luaK_goiffalse, expr(ls, clause.cond)), blk[1].label),
                   blk, escapelist, more)
     ELSE thenbody(thenblock(Gen(luaK_goiftrue, expr(ls, clause.cond))), blk, 1, escapelist, more)

elseblocks(r, clauses, more) ==
  IF clauses = <<>> THEN r ELSE test_then_blocks(r[1], clauses, r[2], more)
test_then_blocks(ls, clauses, escapelist, more) ==
  elseblocks(test_then_block(ls, clauses[1], escapelist, more \/ Len(clauses) > 1),
             Tail(clauses), more)

\* s.orelse: <<>> or <<block>>.
endif(r, orelse) == exitloop(IF orelse = <<>> THEN r[1] ELSE block(r[1], orelse[1]), r[2])
ifstat(ls, s) == endif(test_then_blocks(ls, s.clauses, {}, s.orelse # <<>>), s.orelse)

localvalues(e, nvars, nexps) == adjustlocalvars(adjust_assign(e[1], nvars, nexps, e[2]), nvars)
localstat(ls, s) ==
  LET v == [ls EXCEPT !.actvar = @ \o s.names]
  IN localvalues(IF s.es = <<>> THEN <<v, init_exp("VVOID", 0)>> ELSE explist(v, s.es),
                 Len(s.names), Len(s.es))

localfunc(ls, s) == body(adjustlocalvars(new_localvar(ls, s.name), 1), s.f, FALSE)[1]

storefunc(b, var) == On(b[1], luaK_storevar(Fs(b[1]), var, b[2]))
funcbody(v, s) == storefunc(body(v[1], s.f, s.ismethod), v[2])
funcstat(ls, s) == funcbody(suffixedexp(ls, s.var), s)

noresult(v) == On(v[1], [Fs(v[1]) EXCEPT !.code[v[2].info + 1].c = 1])
callstat(ls, s) == noresult(suffixedexp(ls, s.e))

tailcall(fs, e) ==
  lua_assert([fs EXCEPT !.code[e.info + 1].op = "TAILCALL"], getinstruction(fs, e).a = fs.nactvar)
retopen(fs, e, nret) ==
  luaK_ret(IF e.k = "VCALL" /\ nret = 1 THEN tailcall(fs, e) ELSE fs, fs.nactvar, MULTRET)
retone(d) == luaK_ret(d[1], d[2].info, 1)
retmany(fs, nret) ==
  luaK_ret(lua_assert(fs, nret = fs.freereg - fs.nactvar), fs.nactvar, nret)
retvalues(v, nret) ==
  LET fs == Fs(v[1])
      e == v[2]
  IN On(v[1], IF hasmultret(e.k) THEN retopen(luaK_setreturns(fs, e, MULTRET), e, nret)
              ELSE IF nret = 1 THEN retone(luaK_exp2anyreg(fs, e))
              ELSE retmany(luaK_exp2nextreg(fs, e)[1], nret))
retstat(ls, s) ==
  IF s.es = <<>> THEN On(ls, luaK_ret(Fs(ls), 0, 0)) ELSE retvalues(explist(ls, s.es), Len(s.es))

\* <<ls, i>>: the statement blk[i], and the index of the next one.
\* The temporary registers are free again after a statement.
freetemporaries(ls) ==
  LET fs == Fs(ls)
  IN On(ls, [lua_assert(fs, fs.maxstacksize >= fs.freereg /\ fs.freereg >= fs.nactvar)
               EXCEPT !.freereg = fs.nactvar])
statement(ls, blk, i, until) ==
  LET s == blk[i]
      j == luaK_jump(Fs(ls))
      One(g) == <<g, i + 1>>
      First(r) == <<freetemporaries(r[1]), r[2]>>
  IN First(CASE s.s = "label"  -> labelstat(ls, blk, i, until)
             [] s.s = "goto"   -> One(gotostat(On(ls, j[1]), s.label, j[2]))
             [] s.s = "if"     -> One(ifstat(ls, s))
             [] s.s = "while"  -> One(whilestat(ls, s))
             [] s.s = "repeat" -> One(repeatstat(ls, s))
             [] s.s \in {"fornum", "forin"} -> One(forstat(ls, s))
             [] s.s = "do"     -> One(block(ls, s.body))
             [] s.s = "local"  -> One(localstat(ls, s))
             [] s.s = "localfunction" -> One(localfunc(ls, s))
             [] s.s = "function" -> One(funcstat(ls, s))
             [] s.s = "return" -> One(retstat(ls, s))
             [] s.s = "assign" -> One(assignment(ls, s.targets, s.es))
             [] s.s = "call"   -> One(callstat(ls, s)))

after(r, blk, until) == statlist(r[1], blk, r[2], until)
statements(ls, blk, i, until) ==
  IF i > Len(blk) THEN ls ELSE after(statement(ls, blk, i, until), blk, until)

parse(what, ls, x) ==
  CASE what = "expr"        -> Front(subexpr(ls, x, 1, 0))
    [] what = "explist"     -> expressions(ls, x)
    [] what = "suffixedexp" -> suffixes(ls, x)
    [] what = "statlist"    -> statements(ls, x[1], x[2], x[3])

\* The function state of the main function of a chunk: its prototype is
\* Proto(fs), unless fs.err.
endchunk(ls) ==
  lua_assert(Fs(ls), ls.actvar = <<>> /\ ls.gt = <<>> /\ ls.label = <<>> /\ Len(Fs(ls).ups) = 1)
mainfunc(chunk) ==
  LET ls == open_func([fs |-> <<>>, actvar |-> <<>>, gt |-> <<>>, label |-> <<>>], <<>>)
      fs == newupvalue([Fs(ls) EXCEPT !.vararg = TRUE], "_ENV", init_exp("VLOCAL", 0))
  IN endchunk(close_func(statlist(On(ls, fs), chunk, 1, FALSE)))
=============================================================================
