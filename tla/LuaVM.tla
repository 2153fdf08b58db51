------------------------------- MODULE LuaVM --------------------------------
(***************************************************************************)
(* A chunk from its source to its results: lua_load parses it (LuaParser), *)
(* string.dump and lua_load may write and read its code (LuaDump), and     *)
(* luaV_execute runs it, one action per group of instructions (lvm.c, with *)
(* luaD_precall and luaD_poscall of ldo.c).  It implements what the chunk  *)
(* means by its syntax (LuaSource).                                        *)
(*                                                                         *)
(* A frame holds the slot of its function, its base, limit, pc and number  *)
(* of results; an upvalue is a cell that is open (at a slot of the stack)  *)
(* or holds its value.  Positions count from 0.  Metatables, hooks,        *)
(* coroutines, the size of the stack and the collector are in the other    *)
(* modules or left out.                                                    *)
(***************************************************************************)
EXTENDS LuaParser, LuaDump

CONSTANTS
  Programs,    \* [chunk, args, ans, load]: what is run, see LuaSource
  MaxLog,      \* where emit raises an error
  StackSize    \* slots of the stack

ASSUME StackAssumption == StackSize \in Nat /\ MaxLog \in Nat

VARIABLES
  program, promised,      \* what is run, and what it means
  proto, ok,              \* its prototype; no assertion of the code generator failed
  stack, top, ci,         \* slots, first free slot, frames
  funs, tabs, cells,      \* closures, tables, upvalues
  cache,                  \* per prototype its last closure
  log, answers,           \* of emit and ask
  outcome, results        \* "source", "running", "returned", "error", "rejected"

code == <<program, promised, proto, ok>>
heap == <<funs, tabs, cells, cache>>
io   == <<log, answers>>
end  == <<outcome, results>>
vars == <<code, stack, top, ci, heap, io, end>>

S == INSTANCE LuaSource WITH outcome <- IF outcome = "source" THEN "running" ELSE outcome

frame == ci[Len(ci)]
\* A prototype is named by the path to it from the main one.
RECURSIVE ProtoAt(_, _)
ProtoAt(f, path) == IF path = <<>> THEN f ELSE ProtoAt(f.p[path[1] + 1], Tail(path))
cl    == funs[stack[frame.func][2]]
p     == ProtoAt(proto, cl.path)
instr == p.code[frame.pc + 1]
Reg(n) == stack[frame.base + n]
RK(n)  == IF ISK(n) THEN p.k[INDEXK(n) + 1] ELSE Reg(n)
Executes(ops) == outcome = "running" /\ instr.op \in ops

Jumped(to) == ci' = [ci EXCEPT ![Len(ci)].pc = to]
Advance    == Jumped(frame.pc + 1)
SetReg(n, v) == stack' = [stack EXCEPT ![frame.base + n] = v]
SetSlots(stk, first, vs) ==
  [i \in DOMAIN stk |-> IF i - first + 1 \in DOMAIN vs THEN vs[i - first + 1] ELSE stk[i]]
Slots(first, n) == [i \in 1..n |-> stack[first + i - 1]]

\* An instruction gives a value for R(A), or fails.
Fails == outcome' = "error" /\ UNCHANGED <<code, stack, top, ci, heap, io, results>>
Gives(v) ==
  IF v = Failure THEN Fails
  ELSE SetReg(instr.a, v) /\ Advance /\ UNCHANGED <<code, top, heap, io, end>>

IsOpen(c) == cells[c].open >= 0
Upvalue(c) == IF IsOpen(c) THEN stack[cells[c].open] ELSE cells[c].v

luaF_close(level) ==
  [c \in DOMAIN cells |-> IF cells[c].open >= level THEN [open |-> -1, v |-> Upvalue(c)] ELSE cells[c]]

-----------------------------------------------------------------------------
\* luaY_parser, and luaU_dump and luaU_undump of what it gives: whole, without
\* names, or cut short after n items.
Undumped(items) == LET z == luaU_undump(items) IN IF z.ok THEN z.f ELSE <<>>
Loaded(f) ==
  CASE program.load = "source" -> {f}
    [] program.load = "dump"   -> {Undumped(luaU_dump(f, FALSE))}
    [] program.load = "strip"  -> {Undumped(luaU_dump(f, TRUE))}
    [] program.load = "cut"    ->
         LET d == luaU_dump(f, FALSE) IN {Undumped(SubSeq(d, 1, n)) : n \in 0..Len(d) - 1}

\* lua_load is done; what it gives is kept by TLC in the initial state, so that
\* it is computed only once.
Init ==
  /\ program \in Programs /\ promised = S!Meaning(program)
  /\ \E fs \in {mainfunc(program.chunk)} :
       /\ ok = (fs.err \/ fs.ok)
       /\ IF fs.err THEN proto = <<>> ELSE proto \in Loaded(Proto(fs))
  /\ stack = [i \in 0..StackSize - 1 |-> Junk] /\ top = 0 /\ ci = <<>>
  /\ funs = <<>> /\ cells = <<>> /\ cache = <<>>
  /\ tabs = <<(Str(<<"emit">>) :> <<"cfun", "emit">>) @@ (Str(<<"ask">>) :> <<"cfun", "ask">>)>>
  /\ log = <<>> /\ answers = program.ans
  /\ outcome = "source" /\ results = <<>>

\* luaD_precall of a Lua function at slot func with its arguments up to "upto":
\* the stack and the new frame.
adjust_varargs(stk, func, upto, f) ==
  LET actual == upto - func - 1
      fixed == [i \in 1..f.numparams |-> IF i <= actual THEN stk[func + i] ELSE Nil]
      cleared == SetSlots(stk, func + 1, [i \in 1..Min({actual, f.numparams}) |-> Nil])
  IN [stack |-> SetSlots(cleared, upto, fixed), base |-> upto]
luaD_precall(stk, func, upto, nresults) ==
  LET f == ProtoAt(proto, funs[stk[func][2]].path)
      missing == f.numparams - (upto - func - 1)
      a == IF f.is_vararg THEN adjust_varargs(stk, func, upto, f)
           ELSE [stack |-> SetSlots(stk, upto, [i \in 1..missing |-> Nil]), base |-> func + 1]
  IN [stack |-> a.stack,
      frame |-> [func |-> func, base |-> a.base, top |-> a.base + f.maxstacksize, pc |-> 0,
                 nresults |-> nresults]]

\* The closure of the main function, whose only upvalue is the table of
\* globals, and the call that runs it; or the message of lua_load.
Reject ==
  /\ outcome = "source" /\ proto = <<>>
  /\ outcome' = "rejected" /\ UNCHANGED <<code, stack, top, ci, heap, io, results>>

Load ==
  /\ outcome = "source" /\ proto # <<>>
  /\ outcome' = "running"
  /\ funs' = <<[path |-> <<>>, ups |-> <<1>>]>>
  /\ cells' = <<[open |-> -1, v |-> Tab(1)]>>
  /\ LET args == [i \in DOMAIN program.args |-> program.args[i]]
         a == adjust_varargs(SetSlots(stack, 0, <<Fun(1)>> \o args), 0, Len(args) + 1, proto)
         limit == a.base + proto.maxstacksize
     IN /\ stack' = a.stack /\ top' = limit
        /\ ci' = <<[func |-> 0, base |-> a.base, top |-> limit, pc |-> 0, nresults |-> MULTRET]>>
  /\ UNCHANGED <<code, tabs, cache, io, results>>

-----------------------------------------------------------------------------
(* Instructions that set a register.                                       *)

OpLoad ==
  /\ Executes({"MOVE", "LOADK"})
  /\ Gives(IF instr.op = "MOVE" THEN Reg(instr.b) ELSE p.k[instr.b + 1])

OpLoadBool ==
  /\ Executes({"LOADBOOL"})
  /\ SetReg(instr.a, Bool(instr.b = 1)) /\ Jumped(frame.pc + 1 + instr.c)
  /\ UNCHANGED <<code, top, heap, io, end>>

OpLoadNil ==
  /\ Executes({"LOADNIL"})
  /\ stack' = SetSlots(stack, frame.base + instr.a, [i \in 1..instr.b + 1 |-> Nil])
  /\ Advance /\ UNCHANGED <<code, top, heap, io, end>>

OpGetUpval == Executes({"GETUPVAL"}) /\ Gives(Upvalue(cl.ups[instr.b + 1]))

OpSetUpval ==
  /\ Executes({"SETUPVAL"})
  /\ LET c == cl.ups[instr.b + 1]
     IN IF IsOpen(c) THEN stack' = [stack EXCEPT ![cells[c].open] = Reg(instr.a)] /\ UNCHANGED cells
        ELSE cells' = [cells EXCEPT ![c].v = Reg(instr.a)] /\ UNCHANGED stack
  /\ Advance /\ UNCHANGED <<code, top, funs, tabs, cache, io, end>>

Indexed(t, k) == IF t[1] = "tab" THEN luaH_get(tabs[t[2]], k) ELSE Failure

OpGetTable ==
  /\ Executes({"GETTABUP", "GETTABLE"})
  /\ Gives(Indexed(IF instr.op = "GETTABUP" THEN Upvalue(cl.ups[instr.b + 1]) ELSE Reg(instr.b),
                   RK(instr.c)))

OpSetTable ==
  /\ Executes({"SETTABUP", "SETTABLE"})
  /\ LET t == IF instr.op = "SETTABUP" THEN Upvalue(cl.ups[instr.a + 1]) ELSE Reg(instr.a)
     IN IF t[1] # "tab" \/ RK(instr.b) = Nil THEN Fails
        ELSE /\ tabs' = [tabs EXCEPT ![t[2]] = luaH_set(@, RK(instr.b), RK(instr.c))]
             /\ Advance /\ UNCHANGED <<code, stack, top, funs, cells, cache, io, end>>

OpNewTable ==
  /\ Executes({"NEWTABLE"})
  /\ tabs' = Append(tabs, <<>>) /\ SetReg(instr.a, Tab(Len(tabs) + 1))
  /\ Advance /\ UNCHANGED <<code, top, funs, cells, cache, io, end>>

OpSelf ==
  /\ Executes({"SELF"})
  /\ LET f == Indexed(Reg(instr.b), RK(instr.c))
     IN IF f = Failure THEN Fails
        ELSE /\ stack' = [stack EXCEPT ![frame.base + instr.a + 1] = Reg(instr.b),
                                       ![frame.base + instr.a] = f]
             /\ Advance /\ UNCHANGED <<code, top, heap, io, end>>

OpArith == Executes(BinaryOps) /\ Gives(luaO_arith(instr.op, RK(instr.b), RK(instr.c)))

OpUnary ==
  /\ Executes({"UNM", "BNOT", "NOT", "LEN"})
  /\ LET v == Reg(instr.b)
     IN Gives(CASE instr.op = "NOT"  -> Bool(l_isfalse(v))
                [] instr.op = "UNM"  -> UnaryArith("-", v)
                [] instr.op = "BNOT" -> UnaryArith("~", v)
                [] instr.op = "LEN" /\ v[1] = "tab" -> Num(luaH_getn(tabs[v[2]]))
                [] instr.op = "LEN" /\ v[1] = "str" -> Num(Len(v[2]))
                [] OTHER -> Failure)

OpConcat ==
  /\ Executes({"CONCAT"})
  /\ Gives(luaV_concat(Slots(frame.base + instr.b, instr.c - instr.b + 1)))

OpVararg ==
  /\ Executes({"VARARG"})
  /\ LET n == Max({0, frame.base - frame.func - p.numparams - 1})
         b == IF instr.b = 0 THEN n ELSE instr.b - 1
         ra == frame.base + instr.a
     IN /\ stack' = SetSlots(stack, ra, [j \in 1..b |-> IF j <= n THEN stack[frame.base - n + j - 1] ELSE Nil])
        /\ top' = IF instr.b = 0 THEN ra + n ELSE top
  /\ Advance /\ UNCHANGED <<code, heap, io, end>>

-----------------------------------------------------------------------------
(* Jumps, tests and loops.                                                 *)

\* dojump of the instruction at pc, a JMP: closes upvalues if its A says so.
dojump(pc) ==
  LET j == p.code[pc + 1]
  IN /\ cells' = IF j.a = 0 THEN cells ELSE luaF_close(frame.base + j.a - 1)
     /\ Jumped(j.b)

OpJmp ==
  /\ Executes({"JMP"}) /\ dojump(frame.pc)
  /\ UNCHANGED <<code, stack, top, funs, tabs, cache, io, end>>

\* A test skips the jump after it or does it.
Test(holds) ==
  /\ IF holds THEN dojump(frame.pc + 1) ELSE Jumped(frame.pc + 2) /\ UNCHANGED cells
  /\ UNCHANGED <<code, top, funs, tabs, cache, io, end>>

OpCompare ==
  /\ Executes({"EQ", "LT", "LE"})
  /\ LET b == RK(instr.b)
         c == RK(instr.c)
         v == CASE instr.op = "EQ" -> Bool(luaV_equalobj(b, c))
                [] instr.op = "LT" -> Compare("<", b, c)
                [] instr.op = "LE" -> Compare("<=", b, c)
     IN IF v = Failure THEN Fails
        ELSE Test(v[2] = (instr.a = 1)) /\ UNCHANGED stack

OpTest ==
  /\ Executes({"TEST", "TESTSET"})
  /\ LET v == Reg(IF instr.op = "TEST" THEN instr.a ELSE instr.b)
         holds == l_isfalse(v) = (instr.c = 0)
     IN /\ Test(holds)
        /\ IF instr.op = "TESTSET" /\ holds THEN SetReg(instr.a, v) ELSE UNCHANGED stack

OpForPrep ==
  /\ Executes({"FORPREP"})
  /\ LET a == instr.a
     IN IF \E i \in 0..2 : ~ttisinteger(Reg(a + i)) THEN Fails
        ELSE /\ SetReg(a, Num(intop(Reg(a)[2] - Reg(a + 2)[2])))
             /\ Jumped(instr.b) /\ UNCHANGED <<code, top, heap, io, end>>

OpForLoop ==
  /\ Executes({"FORLOOP"})
  /\ LET ra == frame.base + instr.a
         step == Reg(instr.a + 2)[2]
         limit == Reg(instr.a + 1)[2]
         idx == intop(Reg(instr.a)[2] + step)
     IN IF IF 0 < step THEN idx <= limit ELSE limit <= idx
        THEN Jumped(instr.b) /\ stack' = [stack EXCEPT ![ra] = Num(idx), ![ra + 3] = Num(idx)]
        ELSE Advance /\ UNCHANGED stack
  /\ UNCHANGED <<code, top, heap, io, end>>

OpTForLoop ==
  /\ Executes({"TFORLOOP"})
  /\ IF Reg(instr.a + 1) = Nil THEN Advance /\ UNCHANGED stack
     ELSE SetReg(instr.a, Reg(instr.a + 1)) /\ Jumped(instr.b)
  /\ UNCHANGED <<code, top, heap, io, end>>

OpSetList ==
  /\ Executes({"SETLIST"})
  /\ LET n == IF instr.b = 0 THEN top - (frame.base + instr.a) - 1 ELSE instr.b
         first == (instr.c - 1) * FieldsPerFlush
     IN tabs' = [tabs EXCEPT ![Reg(instr.a)[2]] =
                   FoldLeft(LAMBDA t, i : luaH_set(t, Num(first + i), Reg(instr.a + i)), @,
                            [i \in 1..n |-> i])]
  /\ top' = frame.top /\ Advance
  /\ UNCHANGED <<code, stack, funs, cells, cache, io, end>>

-----------------------------------------------------------------------------
(* Closures and calls.                                                     *)

\* luaF_findupval: the open upvalue at a slot, if there is one.
OpenAt(slot) == {c \in DOMAIN cells : cells[c].open = slot}

\* getcached: the closure made last serves again if it has these upvalues.
getcached(path, f) ==
  LET old == funs[cache[path]]
      Same(i) == IF f.ups[i].instack THEN old.ups[i] \in OpenAt(frame.base + f.ups[i].idx)
                 ELSE old.ups[i] = cl.ups[f.ups[i].idx + 1]
  IN path \in DOMAIN cache /\ \A i \in DOMAIN f.ups : Same(i)

OpClosure ==
  /\ Executes({"CLOSURE"})
  /\ LET path == Append(cl.path, instr.b)
         f == p.p[instr.b + 1]
         Slot(i) == frame.base + f.ups[i].idx
         new == {Slot(i) : i \in {i \in DOMAIN f.ups : f.ups[i].instack /\ OpenAt(Slot(i)) = {}}}
         order == SetToSortSeq(new, <)
         all == cells \o [i \in DOMAIN order |-> [open |-> order[i], v |-> Nil]]
         Up(i) == IF f.ups[i].instack
                  THEN CHOOSE c \in DOMAIN all : all[c].open = Slot(i)
                  ELSE cl.ups[f.ups[i].idx + 1]
     IN IF getcached(path, f)
        THEN SetReg(instr.a, Fun(cache[path])) /\ UNCHANGED <<funs, cells, cache>>
        ELSE /\ cells' = all
             /\ funs' = Append(funs, [path |-> path, ups |-> [i \in DOMAIN f.ups |-> Up(i)]])
             /\ cache' = (path :> Len(funs) + 1) @@ cache
             /\ SetReg(instr.a, Fun(Len(funs) + 1))
  /\ Advance /\ UNCHANGED <<code, top, tabs, io, end>>

\* moveresults: what luaD_poscall stores at slot res, and the new top.
moveresults(stk, vs, res, wanted) ==
  SetSlots(stk, res, IF wanted = MULTRET THEN vs
                     ELSE [i \in 1..wanted |-> IF i <= Len(vs) THEN vs[i] ELSE Nil])
TopAfter(vs, res, wanted, ltop) == IF wanted = MULTRET THEN res + Len(vs) ELSE ltop

\* A C function: <<its results, log, answers>>, or no results for an error.
CFunction(f, args) ==
  IF f = <<"cfun", "emit">>
  THEN IF Len(log) = MaxLog THEN {} ELSE {<<args, Append(log, args), answers>>}
  ELSE IF answers = <<>> THEN {} ELSE {<<<<answers[1]>>, log, Tail(answers)>>}

\* luaD_precall of a C function: it runs, and its results are moved at once.
CallC(func, upto, nresults) ==
  LET R == CFunction(stack[func], Slots(func + 1, upto - func - 1))
  IN IF R = {} THEN Fails
     ELSE \E r \in R :
       /\ stack' = moveresults(stack, r[1], func, nresults)
       /\ top' = TopAfter(r[1], func, nresults, frame.top)
       /\ log' = r[2] /\ answers' = r[3]
       /\ Advance /\ UNCHANGED <<code, heap, end>>

CallLua(stk, func, upto, nresults) ==
  \E n \in {luaD_precall(stk, func, upto, nresults)} :
    /\ stack' = n.stack /\ top' = n.frame.top
    /\ ci' = Append([ci EXCEPT ![Len(ci)].pc = @ + 1], n.frame)
    /\ UNCHANGED <<code, heap, io, end>>

OpCall ==
  /\ Executes({"CALL"})
  /\ LET func == frame.base + instr.a
         upto == IF instr.b = 0 THEN top ELSE func + instr.b
     IN CASE stack[func][1] = "cfun" -> CallC(func, upto, instr.c - 1)
          [] stack[func][1] = "fun"  -> CallLua(stack, func, upto, instr.c - 1)
          [] OTHER -> Fails

\* The new frame takes the place of the calling one.
MoveDown(n, func) ==
  LET count == n.frame.base + ProtoAt(proto, funs[stack[func][2]].path).numparams - func
      down  == frame.func - func
  IN /\ stack' = [i \in DOMAIN stack |->
                    IF i \in frame.func..frame.func + count - 1 THEN n.stack[i - down] ELSE n.stack[i]]
     /\ ci' = [ci EXCEPT ![Len(ci)] = [@ EXCEPT !.base = n.frame.base + down,
                                         !.top = n.frame.top + down, !.pc = 0]]
     /\ top' = n.frame.top + down

OpTailCall ==
  /\ Executes({"TAILCALL"})
  /\ LET func == frame.base + instr.a
         upto == IF instr.b = 0 THEN top ELSE func + instr.b
     IN CASE stack[func][1] = "cfun" -> CallC(func, upto, MULTRET)
          [] stack[func][1] = "fun"  ->
               /\ cells' = IF p.p # <<>> THEN luaF_close(frame.base) ELSE cells
               /\ \E n \in {luaD_precall(stack, func, upto, MULTRET)} : MoveDown(n, func)
               /\ UNCHANGED <<code, funs, tabs, cache, io, end>>
          [] OTHER -> Fails

\* luaD_call of the iterator, on copies of the three hidden variables.
OpTForCall ==
  /\ Executes({"TFORCALL"})
  /\ LET cb == frame.base + instr.a + 3
         stk == SetSlots(stack, cb, Slots(cb - 3, 3))
         R == CFunction(stk[cb], Slots(cb - 2, 2))
     IN CASE stk[cb][1] = "fun" -> CallLua(stk, cb, cb + 3, instr.c)
          [] stk[cb][1] = "cfun" /\ R # {} ->
               \E r \in R : /\ stack' = moveresults(stk, r[1], cb, instr.c)
                            /\ top' = frame.top /\ log' = r[2] /\ answers' = r[3]
                            /\ Advance /\ UNCHANGED <<code, heap, end>>
          [] OTHER -> Fails

OpReturn ==
  /\ Executes({"RETURN"})
  /\ LET ra == frame.base + instr.a
         n  == IF instr.b = 0 THEN top - ra ELSE instr.b - 1
         fresh == Len(ci) = 1
     IN \E vs \in {Slots(ra, n)} :
        /\ cells' = IF p.p # <<>> THEN luaF_close(frame.base) ELSE cells
        /\ ci' = Front(ci)
        /\ stack' = moveresults(stack, vs, frame.func, frame.nresults)
        /\ top' = IF fresh THEN frame.func + n
                  ELSE TopAfter(vs, frame.func, frame.nresults, ci[Len(ci) - 1].top)
        /\ outcome' = IF fresh THEN "returned" ELSE outcome
        /\ results' = IF fresh THEN vs ELSE results
  /\ UNCHANGED <<code, funs, tabs, cache, io>>

Next ==
  \/ Load \/ Reject
  \/ OpLoad \/ OpLoadBool \/ OpLoadNil \/ OpGetUpval \/ OpSetUpval
  \/ OpGetTable \/ OpSetTable \/ OpNewTable \/ OpSelf
  \/ OpArith \/ OpUnary \/ OpConcat \/ OpVararg
  \/ OpJmp \/ OpCompare \/ OpTest \/ OpForPrep \/ OpForLoop \/ OpTForLoop \/ OpSetList
  \/ OpClosure \/ OpCall \/ OpTailCall \/ OpTForCall \/ OpReturn

\* luaV_execute goes on until the main function returns or an error is raised.
Fairness == WF_vars(Next)
Spec == Init /\ [][Next]_vars /\ Fairness

-----------------------------------------------------------------------------
(* What the chunk prints and returns is what its syntax means, instruction *)
(* by instruction: precedence, short circuits, the scope and sharing of    *)
(* variables, gotos and the closing of upvalues, multiple results, and     *)
(* chunks that are refused (lparser.c, lcode.c, ldump.c, lundump.c, lvm.c).*)
ExecutesAsWritten == S!Spec

(* No assertion of the parser and the code generator fails, and those of   *)
(* luaV_execute hold: the stack stays within the frame's limit, a test is  *)
(* followed by a jump, an open result is used by the next instruction      *)
(* (lcode.c, lparser.c, lvm.c:761 and 1186).                               *)
AssertionsHold ==
  /\ ok
  /\ outcome = "running" =>
       /\ frame.pc < Len(p.code) /\ frame.base <= top /\ frame.top <= StackSize
       /\ top # frame.top => instr.op \in {"CALL", "TAILCALL", "RETURN", "SETLIST"} /\ instr.b = 0
       /\ instr.op \in TestOps => p.code[frame.pc + 2].op = "JMP"
       /\ instr.op = "JMP" => instr.b \in 0..Len(p.code) - 1
       /\ \A i \in 1..Len(ci) - 1 :
            ProtoAt(proto, funs[stack[ci[i].func][2]].path).code[ci[i].pc].op \in {"CALL", "TFORCALL"}

(* Every chunk of these ends: a jump that goes nowhere or back too far      *)
(* would keep luaV_execute running without an answer asked or a line        *)
(* printed.                                                                 *)
Ends == <>(outcome \in {"returned", "error", "rejected"})
=============================================================================
