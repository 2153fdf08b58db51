------------------------------ MODULE LuaCode -------------------------------
(***************************************************************************)
(* The code generator, lcode.c: operators on a function state fs, which    *)
(* they return changed.                                                    *)
(*                                                                         *)
(* A jump list, which the C code threads through the jump instructions, is *)
(* a set of their positions; a jump holds the position it goes to instead  *)
(* of an offset, NO_JUMP until it is fixed.  An operand that is a constant *)
(* (RKASK) is the negative number -(k + 1).  fs.ok turns false when an     *)
(* lua_assert fails or when a jump is fixed twice, which would lose its    *)
(* link.  Line numbers are left out.                                       *)
(***************************************************************************)
EXTENDS LuaValue

CONSTANTS
  MaxIndexRK,      \* MAXINDEXRK: the constants that fit in an operand
  FieldsPerFlush,  \* LFIELDS_PER_FLUSH
  MaxRegs          \* MAXREGS

ASSUME OperandAssumption ==
  /\ MaxIndexRK \in Nat /\ FieldsPerFlush \in Nat \ {0} /\ MaxRegs \in 1..255

NO_JUMP == -1
NO_REG  == 255
MULTRET == -1
RKASK(k)  == -(k + 1)
ISK(rk)   == rk < 0
INDEXK(rk) == -rk - 1

Instr(o, a, b, c) == [op |-> o, a |-> a, b |-> b, c |-> c]
TestOps == {"EQ", "LT", "LE", "TEST", "TESTSET"}    \* testTMode
BinaryOps == {"+", "-", "*", "//", "%", "&", "|", "~", "<<", ">>"}

init_exp(k, i) ==
  [k |-> k, info |-> i, tab |-> 0, idx |-> 0, vt |-> "VVOID", t |-> {}, f |-> {}]
hasjumps(e)   == e.t # e.f
hasmultret(k) == k \in {"VCALL", "VVARARG"}
vkisinreg(k)  == k \in {"VNONRELOC", "VLOCAL"}
tonumeral(e)  == e.k = "VKINT" /\ ~hasjumps(e)
InReg(e, reg) == [e EXCEPT !.k = "VNONRELOC", !.info = reg]
Reloc(e, pc)  == [e EXCEPT !.k = "VRELOCABLE", !.info = pc]

PC(fs)       == Len(fs.code)                        \* fs->pc
Code(fs, pc) == fs.code[pc + 1]
lua_assert(fs, p) == [fs EXCEPT !.ok = @ /\ p]
getinstruction(fs, e) == Code(fs, e.info)

-----------------------------------------------------------------------------
(* Jumps.                                                                  *)

getjumpcontrol(fs, pc) ==
  IF pc >= 1 /\ Code(fs, pc - 1).op \in TestOps THEN pc - 1 ELSE pc

\* A test whose value is not wanted, or is in its place already, only tests.
patchtestreg(i, reg) ==
  IF i.op # "TESTSET" THEN i
  ELSE IF reg # NO_REG /\ reg # i.b THEN [i EXCEPT !.a = reg]
  ELSE Instr("TEST", i.b, 0, i.c)

removevalues(fs, list) ==
  LET tests == {getjumpcontrol(fs, p) : p \in list}
  IN [fs EXCEPT !.code = [n \in DOMAIN fs.code |->
        IF n - 1 \in tests THEN patchtestreg(fs.code[n], NO_REG) ELSE fs.code[n]]]

patchlistaux(fs, list, vtarget, reg, dtarget) ==
  LET valued == {p \in list : Code(fs, getjumpcontrol(fs, p)).op = "TESTSET"}
      tests  == {getjumpcontrol(fs, p) : p \in valued}
      g == lua_assert(fs, /\ \A p \in list : Code(fs, p).b = NO_JUMP
                          /\ list \ valued # {} => dtarget # NO_JUMP)
  IN [g EXCEPT !.code = [n \in DOMAIN fs.code |->
        IF n - 1 \in list
        THEN [fs.code[n] EXCEPT !.b = IF n - 1 \in valued THEN vtarget ELSE dtarget]
        ELSE IF n - 1 \in tests THEN patchtestreg(fs.code[n], reg)
        ELSE fs.code[n]]]

\* Mutant: the pending jumps go to the instruction before.
dischargejpc_before(fs) ==
  [patchlistaux(fs, fs.jpc, PC(fs) - 1, NO_REG, PC(fs) - 1) EXCEPT !.jpc = {}]

dischargejpc(fs) ==
  [patchlistaux(fs, fs.jpc, PC(fs), NO_REG, PC(fs)) EXCEPT !.jpc = {}]

luaK_code(fs, i) == [dischargejpc(fs) EXCEPT !.code = Append(@, i)]
luaK_codeABC(fs, o, a, b, c) == luaK_code(fs, Instr(o, a, b, c))

luaK_getlabel(fs) == [fs EXCEPT !.lasttarget = PC(fs)]
luaK_patchtohere(fs, list) == [luaK_getlabel(fs) EXCEPT !.jpc = @ \cup list]

luaK_patchlist(fs, list, target) ==
  IF target = PC(fs) THEN luaK_patchtohere(fs, list)
  ELSE lua_assert(patchlistaux(fs, list, target, NO_REG, target), target < PC(fs))

\* Jumps out of a block close its variables from "level" on.
luaK_patchclose(fs, list, level) ==
  LET g == lua_assert(fs, \A p \in list : /\ Code(fs, p).op = "JMP"
                                          /\ Code(fs, p).a = 0 \/ Code(fs, p).a >= level + 1)
  IN [g EXCEPT !.code = [n \in DOMAIN fs.code |->
        IF n - 1 \in list THEN [fs.code[n] EXCEPT !.a = level + 1] ELSE fs.code[n]]]

\* <<fs, list>>: the jumps that wait for this position go with the new one.
luaK_jump(fs) ==
  <<luaK_code([fs EXCEPT !.jpc = {}], Instr("JMP", 0, NO_JUMP, 0)), {PC(fs)} \cup fs.jpc>>

condjump(fs, op, a, b, c) == luaK_jump(luaK_codeABC(fs, op, a, b, c))

luaK_ret(fs, first, nret) == luaK_codeABC(fs, "RETURN", first, nret + 1, 0)

-----------------------------------------------------------------------------
(* Registers and constants.                                                *)

luaK_checkstack(fs, n) ==
  IF fs.freereg + n <= fs.maxstacksize THEN fs
  ELSE [fs EXCEPT !.maxstacksize = fs.freereg + n,
                  !.err = @ \/ fs.freereg + n >= MaxRegs]
luaK_reserveregs(fs, n) == [luaK_checkstack(fs, n) EXCEPT !.freereg = @ + n]

freereg(fs, reg) ==
  IF ISK(reg) \/ reg < fs.nactvar THEN fs
  ELSE lua_assert([fs EXCEPT !.freereg = @ - 1], reg = fs.freereg - 1)
freeexp(fs, e) == IF e.k = "VNONRELOC" THEN freereg(fs, e.info) ELSE fs
\* Mutant: the registers are freed in the order of the operands.
freeexps_unordered(fs, e1, e2) == freeexp(freeexp(fs, e1), e2)

freeexps(fs, e1, e2) ==   \* in the order of a stack
  LET r(e) == IF e.k = "VNONRELOC" THEN e.info ELSE -1
  IN IF r(e1) > r(e2) THEN freereg(freereg(fs, r(e1)), r(e2))
     ELSE freereg(freereg(fs, r(e2)), r(e1))

\* <<fs, index>>.  The cache fs.h is one for all functions of a chunk, so what
\* it says is checked against the constants of this one.
addk(fs, v) ==
  IF v \in DOMAIN fs.h /\ fs.h[v] < Len(fs.k) /\ fs.k[fs.h[v] + 1] = v
  THEN <<fs, fs.h[v]>>
  ELSE <<[fs EXCEPT !.h = (v :> Len(fs.k)) @@ @, !.k = Append(@, v)], Len(fs.k)>>

luaK_nil(fs, from, n) ==
  LET prev  == Code(fs, PC(fs) - 1)
      l     == from + n - 1
      pl    == prev.a + prev.b
      first == IF prev.a < from THEN prev.a ELSE from
      last  == IF pl > l THEN pl ELSE l
  IN IF /\ PC(fs) > fs.lasttarget /\ prev.op = "LOADNIL"   \* no jump comes here
        /\ \/ prev.a <= from /\ from <= pl + 1
           \/ from <= prev.a /\ prev.a <= l + 1
     THEN [fs EXCEPT !.code[PC(fs)] = Instr("LOADNIL", first, last - first, 0)]
     ELSE luaK_codeABC(fs, "LOADNIL", from, n - 1, 0)

luaK_codek(fs, reg, k) == luaK_codeABC(fs, "LOADK", reg, k, 0)
loadk(kk, reg) == luaK_codek(kk[1], reg, kk[2])
codeconstant(fs, reg, v) == loadk(addk(fs, v), reg)

-----------------------------------------------------------------------------
(* Expressions.  Operators with a result besides fs return <<fs, e>>; what *)
(* is done with such a result d is an operator of its own.                 *)

luaK_setreturns(fs, e, nresults) ==
  CASE e.k = "VCALL"   -> [fs EXCEPT !.code[e.info + 1].c = nresults + 1]
    [] e.k = "VVARARG" -> luaK_reserveregs(
         [fs EXCEPT !.code[e.info + 1] = [@ EXCEPT !.a = fs.freereg, !.b = nresults + 1]], 1)
    [] OTHER -> lua_assert(fs, nresults = MULTRET)

luaK_setoneret(fs, e) ==
  CASE e.k = "VCALL"   -> <<lua_assert(fs, getinstruction(fs, e).c = 2),
                            InReg(e, getinstruction(fs, e).a)>>
    [] e.k = "VVARARG" -> <<[fs EXCEPT !.code[e.info + 1].b = 2], Reloc(e, e.info)>>
    [] OTHER -> <<fs, e>>

\* e is the result of the last instruction, in a register not chosen yet.
relocable(fs, e) == <<fs, Reloc(e, PC(fs) - 1)>>

getindexed(fs, e) ==
  IF e.vt = "VLOCAL"
  THEN luaK_codeABC(freereg(fs, e.tab), "GETTABLE", 0, e.tab, e.idx)
  ELSE luaK_codeABC(lua_assert(fs, e.vt = "VUPVAL"), "GETTABUP", 0, e.tab, e.idx)

luaK_dischargevars(fs, e) ==
  CASE e.k = "VLOCAL"   -> <<fs, InReg(e, e.info)>>
    [] e.k = "VUPVAL"   -> relocable(luaK_codeABC(fs, "GETUPVAL", 0, e.info, 0), e)
    [] e.k = "VINDEXED" -> relocable(getindexed(freereg(fs, e.idx), e), e)
    [] OTHER -> luaK_setoneret(fs, e)

set2reg(fs, e, reg) ==
  CASE e.k = "VNIL"       -> luaK_nil(fs, reg, 1)
    [] e.k \in {"VTRUE", "VFALSE"} ->
         luaK_codeABC(fs, "LOADBOOL", reg, IF e.k = "VTRUE" THEN 1 ELSE 0, 0)
    [] e.k = "VK"         -> luaK_codek(fs, reg, e.info)
    [] e.k = "VKINT"      -> codeconstant(fs, reg, Num(e.info))
    [] e.k = "VRELOCABLE" -> [fs EXCEPT !.code[e.info + 1].a = reg]
    [] e.k = "VNONRELOC"  -> IF reg = e.info THEN fs
                             ELSE luaK_codeABC(fs, "MOVE", reg, e.info, 0)
    [] OTHER -> lua_assert(fs, FALSE)
discharged2reg(d, reg) ==
  IF d[2].k = "VJMP" THEN d ELSE <<set2reg(d[1], d[2], reg), InReg(d[2], reg)>>
discharge2reg(fs, e, reg) == discharged2reg(luaK_dischargevars(fs, e), reg)

discharge2anyreg(fs, e) ==
  IF e.k = "VNONRELOC" THEN <<fs, e>>
  ELSE discharge2reg(luaK_reserveregs(fs, 1), e, fs.freereg)

need_value(fs, list) == \E p \in list : Code(fs, getjumpcontrol(fs, p)).op # "TESTSET"

code_loadbool(fs, a, b, jump) == luaK_codeABC(luaK_getlabel(fs), "LOADBOOL", a, b, jump)

\* The value of e in reg, also when it comes from a jump: a comparison gives
\* one of two LOADBOOLs, the first of which skips the second.
\* <<fs, position of the false value, of the true value>>
loadbools(fj, reg) ==
  <<luaK_patchtohere(code_loadbool(code_loadbool(fj[1], reg, 0, 1), reg, 1, 0), fj[2]),
    PC(fj[1]), PC(fj[1]) + 1>>
values2reg(fs, e, reg, isjump) ==
  IF need_value(fs, e.t) \/ need_value(fs, e.f)
  THEN loadbools(IF isjump THEN <<fs, {}>> ELSE luaK_jump(fs), reg)
  ELSE <<fs, NO_JUMP, NO_JUMP>>
patchvalues(g, e, reg) ==
  patchlistaux(patchlistaux(luaK_getlabel(g[1]), e.f, PC(g[1]), reg, g[2]),
               e.t, PC(g[1]), reg, g[3])
jumps2reg(fs, e, reg, isjump) ==
  <<IF hasjumps(e) THEN patchvalues(values2reg(fs, e, reg, isjump), e, reg) ELSE fs,
    [InReg(e, reg) EXCEPT !.t = {}, !.f = {}]>>
afterdischarge(d, reg) ==
  jumps2reg(d[1], IF d[2].k = "VJMP" THEN [d[2] EXCEPT !.t = @ \cup {d[2].info}] ELSE d[2],
            reg, d[2].k = "VJMP")
exp2reg(fs, e, reg) == afterdischarge(discharge2reg(fs, e, reg), reg)

exp2last(fs, e) == exp2reg(fs, e, fs.freereg - 1)
nextreg(d) == exp2last(luaK_reserveregs(freeexp(d[1], d[2]), 1), d[2])
luaK_exp2nextreg(fs, e) == nextreg(luaK_dischargevars(fs, e))

anyreg(d) ==
  IF d[2].k = "VNONRELOC" /\ ~hasjumps(d[2]) THEN d
  ELSE IF d[2].k = "VNONRELOC" /\ d[2].info >= d[1].nactvar
  THEN exp2reg(d[1], d[2], d[2].info)
  ELSE luaK_exp2nextreg(d[1], d[2])
luaK_exp2anyreg(fs, e) == anyreg(luaK_dischargevars(fs, e))

luaK_exp2anyregup(fs, e) ==
  IF e.k # "VUPVAL" \/ hasjumps(e) THEN luaK_exp2anyreg(fs, e) ELSE <<fs, e>>

luaK_exp2val(fs, e) ==
  IF hasjumps(e) THEN luaK_exp2anyreg(fs, e) ELSE luaK_dischargevars(fs, e)

\* <<fs, e, rk>>: an operand, a constant if its number fits.
Constant(e) ==
  CASE e.k = "VTRUE"  -> Bool(TRUE)
    [] e.k = "VFALSE" -> Bool(FALSE)
    [] e.k = "VNIL"   -> Nil
    [] e.k = "VKINT"  -> Num(e.info)
    [] OTHER -> Junk
asK(e, kk) == <<kk[1], [e EXCEPT !.k = "VK", !.info = kk[2]]>>
constant2k(d) ==
  IF d[2].k = "VK" \/ Constant(d[2]) = Junk THEN d ELSE asK(d[2], addk(d[1], Constant(d[2])))
inregister(d) == Append(d, d[2].info)
operand(d) ==
  IF d[2].k = "VK" /\ d[2].info <= MaxIndexRK THEN Append(d, RKASK(d[2].info))
  ELSE inregister(luaK_exp2anyreg(d[1], d[2]))
luaK_exp2RK(fs, e) == operand(constant2k(luaK_exp2val(fs, e)))

setupval(d, var) == freeexp(luaK_codeABC(d[1], "SETUPVAL", d[2].info, var.info, 0), d[2])
setindexed(d, var) ==
  freeexp(luaK_codeABC(d[1], IF var.vt = "VLOCAL" THEN "SETTABLE" ELSE "SETTABUP",
                       var.tab, var.idx, d[3]), d[2])
luaK_storevar(fs, var, ex) ==
  CASE var.k = "VLOCAL"   -> exp2reg(freeexp(fs, ex), ex, var.info)[1]
    [] var.k = "VUPVAL"   -> setupval(luaK_exp2anyreg(fs, ex), var)
    [] var.k = "VINDEXED" -> setindexed(luaK_exp2RK(fs, ex), var)
    [] OTHER -> lua_assert(fs, FALSE)

selfcall(kk, o, base) ==
  <<freeexp(luaK_codeABC(kk[1], "SELF", base, o.info, kk[3]), kk[2]), InReg(o, base)>>
selfof(fs, o, key) == selfcall(luaK_exp2RK(luaK_reserveregs(fs, 2), key), o, fs.freereg)
freeself(d, key) == selfof(freeexp(d[1], d[2]), d[2], key)
luaK_self(fs, e, key) == freeself(luaK_exp2anyreg(fs, e), key)

indexed(t, kk) ==
  <<kk[1], [t EXCEPT !.k = "VINDEXED", !.tab = t.info, !.idx = kk[3],
                     !.vt = IF t.k = "VUPVAL" THEN "VUPVAL" ELSE "VLOCAL"]>>
luaK_indexed(fs, t, k) ==
  indexed(t, luaK_exp2RK(lua_assert(fs, ~hasjumps(t) /\ (vkisinreg(t.k) \/ t.k = "VUPVAL")), k))

-----------------------------------------------------------------------------
(* Operators.                                                              *)

negatecondition(fs, e) ==
  LET p == getjumpcontrol(fs, e.info)
      g == lua_assert(fs, Code(fs, p).op \in {"EQ", "LT", "LE"})
  IN [g EXCEPT !.code[p + 1].a = 1 - @]

\* <<fs, list>>: jumps if e is "cond" (0 or 1).
testset(d, cond) == condjump(freeexp(d[1], d[2]), "TESTSET", NO_REG, d[2].info, cond)
jumponcond(fs, e, cond) ==
  IF e.k = "VRELOCABLE" /\ getinstruction(fs, e).op = "NOT"
  THEN condjump([fs EXCEPT !.code = Front(@)], "TEST", getinstruction(fs, e).b, 0, 1 - cond)
  ELSE testset(discharge2anyreg(fs, e), cond)

truelist(e, r) == <<luaK_patchtohere(r[1], e.t), [e EXCEPT !.f = @ \cup r[2], !.t = {}]>>
jumpiffalse(fs, e) ==
  CASE e.k = "VJMP" -> <<negatecondition(fs, e), {e.info}>>
    [] e.k \in {"VK", "VKINT", "VTRUE"} -> <<fs, {}>>
    [] OTHER -> jumponcond(fs, e, 0)
goiftrue(d) == truelist(d[2], jumpiffalse(d[1], d[2]))
luaK_goiftrue(fs, e) == goiftrue(luaK_dischargevars(fs, e))

falselist(e, r) == <<luaK_patchtohere(r[1], e.f), [e EXCEPT !.t = @ \cup r[2], !.f = {}]>>
jumpiftrue(fs, e) ==
  CASE e.k = "VJMP" -> <<fs, {e.info}>>
    [] e.k \in {"VNIL", "VFALSE"} -> <<fs, {}>>
    [] OTHER -> jumponcond(fs, e, 1)
goiffalse(d) == falselist(d[2], jumpiftrue(d[1], d[2]))
luaK_goiffalse(fs, e) == goiffalse(luaK_dischargevars(fs, e))

\* Negation swaps the two lists, whose tests then give no value.
negateanyreg(d) == relocable(luaK_codeABC(freeexp(d[1], d[2]), "NOT", 0, d[2].info, 0), d[2])
negate(fs, e) ==
  CASE e.k \in {"VNIL", "VFALSE"} -> <<fs, [e EXCEPT !.k = "VTRUE"]>>
    [] e.k \in {"VK", "VKINT", "VTRUE"} -> <<fs, [e EXCEPT !.k = "VFALSE"]>>
    [] e.k = "VJMP" -> <<negatecondition(fs, e), e>>
    [] OTHER -> negateanyreg(discharge2anyreg(fs, e))
swaplists(d) == <<removevalues(removevalues(d[1], d[2].t), d[2].f),
                  [d[2] EXCEPT !.t = d[2].f, !.f = d[2].t]>>
notdischarged(d) == swaplists(negate(d[1], d[2]))
codenot(fs, e) == notdischarged(luaK_dischargevars(fs, e))

validop(op, n2) == op \notin {"//", "%"} \/ n2 # 0

CanFold(op, e1, e2) == tonumeral(e1) /\ tonumeral(e2) /\ validop(op, e2.info)
constfolding(op, e1, e2) == [e1 EXCEPT !.info = intarith(op, @, e2.info)[2]]

binary(op, k1, k2) ==
  relocable(luaK_codeABC(freeexps(k1[1], k1[2], k2[2]), op, 0, k1[3], k2[3]), k1[2])
binaryRK(op, e1, k2) == binary(op, luaK_exp2RK(k2[1], e1), k2)
codebinexpval(fs, op, e1, e2) == binaryRK(op, e1, luaK_exp2RK(fs, e2))

compare(fs, op, rk1, rk2) ==
  condjump(fs, CASE op \in {"==", "~="} -> "EQ" [] op \in {"<", ">"} -> "LT"
                 [] op \in {"<=", ">="} -> "LE",
           IF op = "~=" THEN 0 ELSE 1,
           IF op \in {">", ">="} THEN rk2 ELSE rk1, IF op \in {">", ">="} THEN rk1 ELSE rk2)
comparison(e, j) == <<j[1], [e EXCEPT !.k = "VJMP", !.info = PC(j[1]) - 1]>>
compareRK(op, e1, k2) ==
  comparison(e1, compare(freeexps(k2[1], e1, k2[2]), op,
                         IF e1.k = "VK" THEN RKASK(e1.info) ELSE e1.info, k2[3]))
codecomp(fs, op, e1, e2) ==
  compareRK(op, e1, luaK_exp2RK(lua_assert(fs, e1.k \in {"VK", "VNONRELOC"}), e2))

\* A unary minus is folded as e - 0 negated, with a numeral 0 as second operand.
unary(op, d) == relocable(luaK_codeABC(freeexp(d[1], d[2]), op, 0, d[2].info, 0), d[2])
codeunexpval(fs, op, e) == unary(op, luaK_exp2anyreg(fs, e))
luaK_prefix(fs, op, e) ==
  IF op = "not" THEN codenot(fs, e)
  ELSE IF op \in {"-", "~"} /\ tonumeral(e)
  THEN <<fs, [e EXCEPT !.info = UnaryArith(op, Num(@))[2]]>>
  ELSE codeunexpval(fs, CASE op = "-" -> "UNM" [] op = "~" -> "BNOT" [] op = "#" -> "LEN", e)

luaK_infix(fs, op, v) ==
  CASE op = "and" -> luaK_goiftrue(fs, v)
    [] op = "or"  -> luaK_goiffalse(fs, v)
    [] op = ".."  -> luaK_exp2nextreg(fs, v)
    [] op \in BinaryOps /\ tonumeral(v) -> <<fs, v>>   \* keep it for folding
    [] OTHER -> Front(luaK_exp2RK(fs, v))

\* e1 .. (e2 .. e3) is one instruction.
onemore(fs, e1, e2) == <<[fs EXCEPT !.code[e2.info + 1].b = e1.info], Reloc(e1, e2.info)>>
concatnext(e1, d) == codebinexpval(d[1], "CONCAT", e1, d[2])
concat(e1, d) ==
  IF d[2].k = "VRELOCABLE" /\ getinstruction(d[1], d[2]).op = "CONCAT"
  THEN onemore(freeexp(lua_assert(d[1], e1.info = getinstruction(d[1], d[2]).b - 1), e1), e1, d[2])
  ELSE concatnext(e1, luaK_exp2nextreg(d[1], d[2]))
codeconcat(fs, e1, e2) == concat(e1, luaK_exp2val(fs, e2))

andlists(e1, d) == <<lua_assert(d[1], e1.t = {}), [d[2] EXCEPT !.f = @ \cup e1.f]>>
orlists(e1, d)  == <<lua_assert(d[1], e1.f = {}), [d[2] EXCEPT !.t = @ \cup e1.t]>>
luaK_posfix(fs, op, e1, e2) ==
  CASE op = "and" -> andlists(e1, luaK_dischargevars(fs, e2))
    [] op = "or"  -> orlists(e1, luaK_dischargevars(fs, e2))
    [] op = ".."  -> codeconcat(fs, e1, e2)
    [] op \in BinaryOps /\ CanFold(op, e1, e2) -> <<fs, constfolding(op, e1, e2)>>
    [] op \in BinaryOps /\ ~CanFold(op, e1, e2) -> codebinexpval(fs, op, e1, e2)
    [] OTHER -> codecomp(fs, op, e1, e2)

\* tostore values, the last of which is the element nelems of the table.
luaK_setlist(fs, base, nelems, tostore) ==
  LET c == (nelems - 1) \div FieldsPerFlush + 1
      b == IF tostore = MULTRET THEN 0 ELSE tostore
      g == lua_assert(fs, tostore # 0 /\ tostore <= FieldsPerFlush)
  IN [luaK_codeABC(g, "SETLIST", base, b, c) EXCEPT !.freereg = base + 1]
=============================================================================
