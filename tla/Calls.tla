------------------------------- MODULE Calls --------------------------------
(***************************************************************************)
(* Calls, errors and coroutines as ldo.c does them: stacks, CallInfos, the *)
(* C stack, setjmp and longjmp, continuations.                             *)
(*                                                                         *)
(* L[t] is the state of thread t: its stack (a sequence, so top is its     *)
(* length; positions count from 1), the CallInfos, and the counters.  The  *)
(* size of a stack is reduced to what decides anything, "big": whether it  *)
(* has the extra space for handling an overflow (ERRORSTACKSIZE).          *)
(*                                                                         *)
(* C is the C stack: what waits in it for the return of another C function *)
(* or for a longjmp.  Every record is of a thread r.t and has the number   *)
(* r.at of a CallInfo: that of the function itself, or of its caller, and  *)
(* 1 for docall, resume and unroll.                                        *)
(*   exec      luaV_execute, until a frame marked CIST_FRESH returns       *)
(*   docall    the program's docall, or src/main.c waiting for a line      *)
(*   C         a C function called by luaD_precall, before or after the    *)
(*             call it makes ("back", with the status of that call)        *)
(*   call, pcall, ypcall   lua_callk, luaD_pcall, lua_pcallk with luaD_call*)
(*   tm        luaT_callTM                                                 *)
(*   errormsg  luaG_errormsg calling the message handler                   *)
(*   resume    lua_resume                                                  *)
(*   unroll    unroll, with the status it passes to the first continuation *)
(* Operators take and return z = [L, C, err]; the last record of C runs,   *)
(* and err is a message that luaG_runerror is still to be called with, or  *)
(* "none".                                                                 *)
(*                                                                         *)
(* Lua functions are all "f", with FrameSize registers, of which R(0) is   *)
(* the parameter; they call at R(0) and want two results.  Registers that  *)
(* are not live are nil.  Hooks, tail calls, upvalues, memory errors and   *)
(* arguments of a wrong type are left out.                                 *)
(***************************************************************************)
EXTENDS Integers, Sequences, FiniteSets, SequencesExt, FiniteSetsExt

CONSTANTS
  Coroutines, WrapOf, Forms,   \* as in ProtectedCalls
  LUAI_MAXCCALLS, ExtraCCalls, \* C calls; more that handling an overflow may do
  LUAI_MAXSTACK, ErrorSpace,   \* slots of a stack; more for handling an overflow
  EXTRA_STACK, LUA_MINSTACK, FrameSize,
  MaxFrames                    \* Lua functions active at one time

Threads == Coroutines \cup {"main"}
Library == {"f", "msgh", "pcall", "xpcall", "dofile", "apply", "error", "yield", "resume"}
ASSUME CallsAssumption ==
  /\ Coroutines \subseteq STRING /\ "main" \notin Coroutines
  /\ WrapOf \in [DOMAIN WrapOf -> Coroutines] /\ DOMAIN WrapOf \cap Library = {}
  /\ Forms \in [Threads -> SUBSET Seq(STRING)]
  /\ \A t \in Threads : \A form \in Forms[t] : Len(form) \in 1..FrameSize
  /\ {LUAI_MAXCCALLS, ExtraCCalls, LUAI_MAXSTACK, ErrorSpace, EXTRA_STACK, LUA_MINSTACK, FrameSize} \subseteq Nat
  /\ LUAI_MAXCCALLS > 1 /\ EXTRA_STACK > 3 /\ LUA_MINSTACK > 2 /\ FrameSize > 0
  /\ 1 + LUA_MINSTACK + EXTRA_STACK <= LUAI_MAXSTACK

VARIABLES L, C
vars == <<L, C>>

IsLua(f) == f = "f"
Nils(n)  == [i \in 1..n |-> "nil"]

NewThread(body) ==
  [status |-> "OK", stack |-> <<"nil">> \o body, nny |-> 1, nCcalls |-> 0, errfunc |-> 0,
   big |-> FALSE,
   ci |-> <<[func |-> 1, top |-> 1 + LUA_MINSTACK, nres |-> 0, lua |-> FALSE, fresh |-> FALSE,
             op |-> "none", yp |-> FALSE, k |-> "none", extra |-> 0, olderr |-> 0]>>]

T(z)      == Last(z.C).t
Th(z)     == z.L[T(z)]
On(z, th) == [z EXCEPT !.L[T(z)] = th]
Ci(th)    == Last(th.ci)
OnCi(th, ci) == [th EXCEPT !.ci[Len(th.ci)] = ci]
Push(th, v)  == [th EXCEPT !.stack = Append(@, v)]
Stacked(z, r) == [z EXCEPT !.C = Append(@, r)]
Unstacked(z)  == [z EXCEPT !.C = Front(@)]
Returns(z, status) == [z EXCEPT !.C[Len(z.C)].back = TRUE, !.C[Len(z.C)].status = status]
Rec(what, z, ny) == [a |-> what, t |-> T(z), at |-> Len(Th(z).ci), ny |-> ny]
Started(z) == Stacked(z, [a |-> "exec", t |-> T(z), at |-> Len(Th(z).ci)])
gettop(th) == Len(th.stack) - Ci(th).func

-----------------------------------------------------------------------------
(* The size of a stack.                                                    *)

\* Mutant: the extra slots of a stack are not kept free.
RoomUpToTheEnd(th, n) ==
  Len(th.stack) + n <= LUAI_MAXSTACK + IF th.big THEN ErrorSpace ELSE 0

\* luaD_checkstack succeeds.
Room(th, n) ==
  LET needed == Len(th.stack) + n + EXTRA_STACK
  IN IF th.big THEN needed < LUAI_MAXSTACK + ErrorSpace ELSE needed <= LUAI_MAXSTACK

stackinuse(th) == Max({Len(th.stack)} \cup {th.ci[i].top : i \in DOMAIN th.ci}) + 1
luaD_shrinkstack(th) ==
  [th EXCEPT !.big = @ /\ stackinuse(th) > LUAI_MAXSTACK - EXTRA_STACK]

lua_checkstack(th, n) ==
  OnCi(th, [Ci(th) EXCEPT !.top = Max({@, Len(th.stack) + n})])

\* LUA_MULTRET results may leave the top above the frame's.
adjustresults(th) == lua_checkstack(th, 0)

-----------------------------------------------------------------------------
(* Errors.                                                                 *)

seterrorobj(th, status, oldtop) ==
  [th EXCEPT !.stack = Append(SubSeq(@, 1, oldtop),
     IF status = "ERRERR" THEN "error in error handling" ELSE Last(@))]

\* luaD_pcall, r, after an error.
Unwound(th, r, status) ==
  [luaD_shrinkstack([seterrorobj(th, status, r.func - 1) EXCEPT
       !.ci = SubSeq(@, 1, r.at), !.nny = r.nny, !.nCcalls = r.nCcalls])
     EXCEPT !.errfunc = r.errfunc]
pcallFails(z, j, status) ==
  Returns([z EXCEPT !.C = SubSeq(@, 1, j - 1), !.L[z.C[j].t] = Unwound(@, z.C[j], status)], status)

\* The end of lua_resume, r, and of auxresume: the values that the coroutine
\* has on its stack, or one error, go to the resumer.
errorstatus(status) == status \notin {"OK", "YIELD"}
TooMany(th, n, status) == ~errorstatus(status) /\ ~Room(th, n + 1)
xmove(th, co, n, status) ==
  IF TooMany(th, n, status) THEN Push(th, "too many results to resume")
  ELSE [IF errorstatus(status) THEN th ELSE lua_checkstack(th, n + 1)
          EXCEPT !.stack = @ \o SubSeq(co.stack, Len(co.stack) - n + 1, Len(co.stack))]
Left(co, r, n) ==
  [co EXCEPT !.stack = SubSeq(@, 1, Len(@) - n), !.nny = r.oldnny, !.nCcalls = r.nCcalls - 1]
toresumer(z, r, n, status) ==
  LET co == z.L[r.t]
  IN Returns([z EXCEPT !.L[T(z)] = xmove(@, co, n, status), !.L[r.t] = Left(co, r, n)],
             IF TooMany(Th(z), n, status) THEN "ERRRUN" ELSE status)
resumed(z, j, n, status) == toresumer([z EXCEPT !.C = SubSeq(@, 1, j - 1)], z.C[j], n, status)

\* lua_resume after an error: go on with the innermost pcall, or die.
findpcall(th) == Max({0} \cup {i \in DOMAIN th.ci : th.ci[i].yp})
\* Mutant: what the unwound calls made not yieldable stays so.
recoverKeepsNny(th, status, i, nCcalls) ==
  [luaD_shrinkstack([seterrorobj(th, status, th.ci[i].extra - 1) EXCEPT
       !.ci = SubSeq(@, 1, i), !.nCcalls = nCcalls]) EXCEPT !.errfunc = th.ci[i].olderr]
recover(th, status, i, nCcalls) ==
  [luaD_shrinkstack([seterrorobj(th, status, th.ci[i].extra - 1) EXCEPT
       !.ci = SubSeq(@, 1, i), !.nny = 0, !.nCcalls = nCcalls]) EXCEPT !.errfunc = th.ci[i].olderr]
recovered(z, j, status, i) ==
  LET r == z.C[j]
  IN [z EXCEPT !.C = Append(SubSeq(@, 1, j), [a |-> "unroll", t |-> r.t, at |-> 1, status |-> status]),
               !.L[r.t] = recover(@, status, i, r.nCcalls)]
dead(th, status) ==
  LET e == seterrorobj(th, status, Len(th.stack))
  IN [OnCi(e, [Ci(e) EXCEPT !.top = Len(e.stack)]) EXCEPT !.status = status]
resumeFails(z, j, status) ==
  IF findpcall(Th(z)) > 0 THEN recovered(z, j, status, findpcall(Th(z)))
  ELSE resumed(On(z, dead(Th(z), status)), j, 1, status)

\* longjmp to the innermost setjmp, which is of the running thread.
caught(z, status, j) ==
  CASE z.C[j].a = "pcall" -> pcallFails(z, j, status)
    [] z.C[j].a = "resume" /\ status = "YIELD" -> resumed(z, j, gettop(Th(z)), status)
    [] z.C[j].a = "resume" /\ status # "YIELD" -> resumeFails(z, j, status)
luaD_throw(z, status) ==
  caught(z, status, Max({j \in DOMAIN z.C : z.C[j].a \in {"pcall", "resume"}}))

luaD_growstack(z) ==    \* when there is no room
  IF Th(z).big THEN luaD_throw(z, "ERRERR")
  ELSE [On(z, [Th(z) EXCEPT !.big = TRUE]) EXCEPT !.err = "stack overflow"]

-----------------------------------------------------------------------------
(* Calls.                                                                  *)

CallInfo(func, top, nres, lua, fresh) ==
  [func |-> func, top |-> top, nres |-> nres, lua |-> lua, fresh |-> fresh, op |-> "none",
   yp |-> FALSE, k |-> "none", extra |-> 0, olderr |-> 0]
luaframe(th, func, nres, fresh) ==
  [th EXCEPT !.stack = SubSeq(@ \o Nils(FrameSize), 1, func + FrameSize),
             !.ci = Append(@, CallInfo(func, func + FrameSize, nres, TRUE, fresh))]
cframe(th, func, nres) ==
  [th EXCEPT !.ci = Append(@, CallInfo(func, Len(th.stack) + LUA_MINSTACK, nres, FALSE, FALSE))]

\* "fresh": the caller is luaD_call or resume, which go on with luaV_execute.
luaD_precall(z, func, nres, fresh) ==
  CASE IsLua(Th(z).stack[func]) /\ Room(Th(z), FrameSize) ->
         (IF fresh THEN Started(On(z, luaframe(Th(z), func, nres, TRUE)))
          ELSE On(z, luaframe(Th(z), func, nres, FALSE)))
    [] ~IsLua(Th(z).stack[func]) /\ Room(Th(z), LUA_MINSTACK) ->
         Stacked(On(z, cframe(Th(z), func, nres)),
                 [a |-> "C", t |-> T(z), at |-> Len(Th(z).ci) + 1, back |-> FALSE, status |-> "OK"])
    [] OTHER -> luaD_growstack(z)

\* r: the record of the caller, which may make the thread not yieldable.
Entered(z, r) ==
  Stacked(On(z, [Th(z) EXCEPT !.nCcalls = @ + 1, !.nny = IF r.ny THEN @ + 1 ELSE @]), r)
called(z, func, nres) ==    \* with stackerror
  IF Th(z).nCcalls = LUAI_MAXCCALLS THEN [z EXCEPT !.err = "C stack overflow"]
  ELSE IF Th(z).nCcalls >= LUAI_MAXCCALLS + ExtraCCalls THEN luaD_throw(z, "ERRERR")
  ELSE luaD_precall(z, func, nres, TRUE)
luaD_call(z, r, func, nres) == called(Entered(z, r), func, nres)

\* The message handler is called with the error, which it replaces.
luaG_errormsg(z) ==
  LET th == Th(z)
      top == Len(th.stack)
  IN IF th.errfunc = 0 THEN luaD_throw(z, "ERRRUN")
     ELSE luaD_call(On(z, [th EXCEPT !.stack = Append([@ EXCEPT ![top] = th.stack[th.errfunc]], Last(@))]),
                    Rec("errormsg", z, TRUE), top, 1)

luaG_runerror(z, msg) ==
  IF Room(Th(z), 1) THEN luaG_errormsg(On(z, Push(Th(z), msg))) ELSE luaD_growstack(z)

\* To call the message handler may be an error.  It is one of a full C stack once at the
\* most, because then more C calls are allowed, and of a full stack once, because then the
\* stack has the extra space: after that it is luaD_throw(z, "ERRERR").
raised(z) == IF z.err = "none" THEN z ELSE luaG_runerror([z EXCEPT !.err = "none"], z.err)

-----------------------------------------------------------------------------
(* Returns.                                                                *)

\* The results go where the function was.
Wanted(vals, nres) == IF nres = -1 THEN vals ELSE SubSeq(vals \o Nils(nres), 1, nres)
luaD_poscall(th, vals) ==
  [th EXCEPT !.ci = Front(@),
             !.stack = SubSeq(@, 1, Ci(th).func - 1) \o Wanted(vals, Ci(th).nres)]

\* Back in a Lua function: the top is its frame's again.
Refill(th) ==
  OnCi([th EXCEPT !.stack = SubSeq(@ \o Nils(FrameSize), 1, Ci(th).top)], [Ci(th) EXCEPT !.op = "none"])

\* The result of a metamethod goes to R(0).
storeresult(th) ==
  OnCi([th EXCEPT !.stack = [Front(@) EXCEPT ![Ci(th).func + 1] = Last(th.stack)]],
       [Ci(th) EXCEPT !.op = "none"])

\* The instruction that was interrupted by a yield: OP_ADD or OP_CALL.
luaV_finishOp(th) == IF Ci(th).op = "ADD" THEN storeresult(th) ELSE Refill(th)

\* The call of record r, the last one, has returned.
Ended(z, r) ==
  Unstacked(On(z, [Th(z) EXCEPT !.nCcalls = @ - 1, !.nny = IF r.ny THEN @ - 1 ELSE @]))
\* Mutant: after a protected call the enclosing one has no message handler.
unprotectedForgets(th) == OnCi([th EXCEPT !.errfunc = 0], [Ci(th) EXCEPT !.yp = FALSE])
unprotected(th) ==
  OnCi([th EXCEPT !.errfunc = Ci(th).olderr], [Ci(th) EXCEPT !.yp = FALSE])
callEnds(z, r) ==
  CASE r.a = "call"   -> Returns(On(z, adjustresults(Th(z))), "OK")
    [] r.a = "pcall"  -> Returns(On(z, adjustresults([Th(z) EXCEPT !.errfunc = r.errfunc])), "OK")
    [] r.a = "ypcall" -> Returns(On(z, adjustresults(unprotected(Th(z)))), "OK")
    [] r.a = "tm"     -> On(z, storeresult(Th(z)))
    [] r.a = "errormsg" -> luaD_throw(z, "ERRRUN")

\* unroll: up to the end of the coroutine, or the next continuation.
unroll(z) ==
  IF Len(Th(z).ci) = 1 THEN resumed(z, Len(z.C) - 1, gettop(Th(z)), "OK")
  ELSE IF Ci(Th(z)).lua
  THEN Started(On(z, OnCi(luaV_finishOp(Th(z)), [Ci(Th(z)) EXCEPT !.fresh = TRUE, !.op = "none"])))
  ELSE z

\* A function has returned to the last record of C.
Continue(z) ==
  CASE Last(z.C).a = "exec"   -> On(z, Refill(Th(z)))
    [] Last(z.C).a = "resume" -> resumed(z, Len(z.C), gettop(Th(z)), "OK")
    [] Last(z.C).a = "unroll" -> unroll(z)
    [] OTHER -> callEnds(Ended(z, Last(z.C)), Last(z.C))

\* A C function returns vals.
CReturns(z, vals) == Continue(Unstacked(On(z, luaD_poscall(Th(z), vals))))

-----------------------------------------------------------------------------
(* The interface for C functions.                                          *)

lua_callk(z, func, nres, k) ==
  IF k # "none" /\ Th(z).nny = 0
  THEN luaD_call(On(z, OnCi(Th(z), [Ci(Th(z)) EXCEPT !.k = k])), Rec("call", z, FALSE), func, nres)
  ELSE luaD_call(z, Rec("call", z, TRUE), func, nres)

luaD_pcall(z, th, func, errfunc, nres) ==
  luaD_call(On(z, [th EXCEPT !.errfunc = errfunc]),
            [a |-> "pcall", t |-> T(z), at |-> Len(th.ci), ny |-> TRUE, func |-> func, nny |-> th.nny,
             errfunc |-> th.errfunc, nCcalls |-> th.nCcalls], func, nres)
ypcall(th, func, errfunc, k) ==
  OnCi([th EXCEPT !.errfunc = errfunc],
       [Ci(th) EXCEPT !.yp = TRUE, !.k = k, !.extra = func, !.olderr = th.errfunc])
lua_pcallk(z, th, func, errfunc, k) ==
  IF th.nny > 0 THEN luaD_pcall(z, th, func, errfunc, -1)
  ELSE luaD_call(On(z, ypcall(th, func, errfunc, k)), Rec("ypcall", z, FALSE), func, -1)

From(th, i) == SubSeq(th.stack, Ci(th).func + i, Len(th.stack))    \* arguments from the i-th on
finishpcall(th, status, extra) ==
  IF errorstatus(status) THEN <<"false", Last(th.stack)>> ELSE From(th, extra + 1)
dofilecont(th) == From(th, 2)

\* What the continuation k returns.
Continuation(th, k, status) ==
  CASE k = "pcall"  -> finishpcall(th, status, 0)
    [] k = "xpcall" -> finishpcall(th, status, 2)
    [] k = "dofile" -> dofilecont(th)

\* Before that: the results are adjusted as those that the function owes are.
finished(th) ==
  LET u == IF Ci(th).yp THEN unprotected(th) ELSE th
  IN IF Ci(u).nres = -1 THEN adjustresults(u) ELSE u
finishCcall(z, status) ==
  LET th == finished(Th(z))
  IN Continue([On(z, luaD_poscall(th, Continuation(th, Ci(th).k, status)))
                 EXCEPT !.C[Len(z.C)].status = "YIELD"])

-----------------------------------------------------------------------------
(* lua_resume and lua_yield.                                               *)

\* An error before the coroutine runs: the arguments make place for it.
resume_error(z, co, narg, msg) ==
  Returns([z EXCEPT !.L[T(z)].stack = Append(SubSeq(@, 1, Len(@) - narg), msg)], "ERRRUN")

resume(z, co, from, narg) ==
  LET r == [a |-> "resume", t |-> co, at |-> 1, oldnny |-> z.L[co].nny, nCcalls |-> from.nCcalls + 1]
      th == [z.L[co] EXCEPT !.stack = @ \o SubSeq(from.stack, Len(from.stack) - narg + 1, Len(from.stack)),
                            !.nCcalls = from.nCcalls + 1, !.nny = 0, !.status = "OK"]
      moved == [z EXCEPT !.C = Append(@, r), !.L[T(z)].stack = SubSeq(@, 1, Len(@) - narg)]
      yielder == OnCi(th, [Ci(th) EXCEPT !.func = Ci(th).extra])
      args == SubSeq(th.stack, Len(th.stack) - narg + 1, Len(th.stack))
  IN IF z.L[co].status = "OK"
     THEN luaD_precall([moved EXCEPT !.L[co] = th], Len(th.stack) - narg, -1, TRUE)
     ELSE unroll(Stacked([moved EXCEPT !.L[co] = luaD_poscall(yielder, args)],
                         [a |-> "unroll", t |-> co, at |-> 1, status |-> "YIELD"]))

lua_resume(z, co, narg) ==
  LET th == z.L[co]
  IN CASE th.status = "OK" /\ Len(th.ci) > 1 ->
            resume_error(z, co, narg, "cannot resume non-suspended coroutine")
       [] th.status \notin {"OK", "YIELD"} ->
            resume_error(z, co, narg, "cannot resume dead coroutine")
       [] OTHER -> IF Th(z).nCcalls + 1 >= LUAI_MAXCCALLS
                   THEN resume_error([z EXCEPT !.L[co].nCcalls = Th(z).nCcalls + 1], co, narg,
                                     "C stack overflow")
                   ELSE resume(z, co, Th(z), narg)

auxresume(z, co, narg) ==
  IF ~Room(z.L[co], narg)
  THEN Returns(On(z, Push(Th(z), "too many arguments to resume")), "ERRRUN")
  ELSE IF z.L[co].status = "OK" /\ gettop(z.L[co]) = 0
  THEN Returns(On(z, Push(Th(z), "cannot resume dead coroutine")), "ERRRUN")
  ELSE lua_resume([z EXCEPT !.L[co] = lua_checkstack(@, narg)], co, narg)

lua_yieldk(z, n) ==
  LET th == Th(z)
      y == [Ci(th) EXCEPT !.extra = Ci(th).func, !.k = "none", !.func = Len(th.stack) - n]
  IN IF th.nny > 0 THEN luaG_runerror(z, "attempt to yield")
     ELSE luaD_throw(On(z, [OnCi(th, y) EXCEPT !.status = "YIELD"]), "YIELD")

-----------------------------------------------------------------------------
(* Steps.                                                                  *)

Z == [L |-> L, C |-> C, err |-> "none"]
Step(z) == LET y == raised(raised(z)) IN L' = y.L /\ C' = y.C
th0 == L[Last(C).t]          \* the running thread
InLua == Last(C).a = "exec"
func0 == Ci(th0).func
InC(f) == Last(C).a = "C" /\ ~Last(C).back /\ th0.stack[func0] = f
ToC(f) == Last(C).a = "C" /\ Last(C).back /\ th0.stack[func0] = f
Frames == FoldSet(LAMBDA t, n : n + Cardinality({i \in DOMAIN L[t].ci : L[t].ci[i].lua}), 0, DOMAIN L)
Doing(op) == OnCi(th0, [Ci(th0) EXCEPT !.op = op])

Docall ==
  /\ Last(C).a = "docall" /\ ~Last(C).back
  /\ Step(luaD_pcall(Z, [th0 EXCEPT !.stack = <<"nil", "msgh", "f">>], 3, 2, 0))
DocallEnds ==
  /\ Last(C).a = "docall" /\ Last(C).back
  /\ Step([On(Z, [th0 EXCEPT !.stack = <<"nil">>])
             EXCEPT !.C = <<[a |-> "docall", t |-> "main", at |-> 1, back |-> FALSE, status |-> "OK"]>>])

OpCall ==
  /\ InLua /\ Frames < MaxFrames
  /\ \E form \in Forms[Last(C).t] :
       Step(luaD_precall(On(Z, [Doing("CALL") EXCEPT !.stack = SubSeq(@, 1, func0) \o form]),
                         func0 + 1, 2, FALSE))

OpAdd ==    \* luaT_trybinTM
  /\ InLua /\ Frames < MaxFrames
  /\ Step(luaD_call(On(Z, [Doing("ADD") EXCEPT
                             !.stack = SubSeq(@, 1, func0) \o Nils(FrameSize) \o <<"f", "x", "x">>]),
                    Rec("tm", Z, FALSE), func0 + FrameSize + 1, 1))

OpReturn ==
  /\ InLua
  /\ Step(Continue(
       IF Ci(th0).fresh
       THEN Unstacked(On(Z, luaD_poscall(th0, <<th0.stack[func0 + 1]>>)))
       ELSE On(Z, luaD_poscall(th0, <<th0.stack[func0 + 1]>>))))

luaB_cocreate ==
  /\ InLua
  /\ \E co \in Coroutines :
       /\ \/ errorstatus(L[co].status)
          \/ L[co].status = "OK" /\ Len(L[co].ci) = 1 /\ gettop(L[co]) = 0
       /\ L' = [L EXCEPT ![co] = NewThread(<<"f">>)]
  /\ UNCHANGED C

\* The collector shrinks the stack of a thread that it traverses.
traversethread ==
  /\ InLua
  /\ \E t \in DOMAIN L : L[t].big /\ L' = [L EXCEPT ![t] = luaD_shrinkstack(@)]
  /\ L' # L
  /\ UNCHANGED C

luaB_pcall ==
  /\ InC("pcall") /\ gettop(th0) > 0
  /\ Step(lua_pcallk(Z, [th0 EXCEPT !.stack = InsertAt(@, func0 + 1, "true")], func0 + 2, 0, "pcall"))
luaB_xpcall ==
  /\ InC("xpcall") /\ gettop(th0) > 1
  /\ Step(lua_pcallk(Z, [th0 EXCEPT !.stack = InsertAt(InsertAt(@, func0 + 3, "true"), func0 + 4,
                                                       th0.stack[func0 + 1])],
                     func0 + 4, func0 + 2, "xpcall"))
pcallReturns ==
  \/ ToC("pcall") /\ Step(CReturns(Z, finishpcall(th0, Last(C).status, 0)))
  \/ ToC("xpcall") /\ Step(CReturns(Z, finishpcall(th0, Last(C).status, 2)))

settop1(th) == [th EXCEPT !.stack = SubSeq(@ \o <<"nil">>, 1, Ci(th).func + 1)]
luaB_dofile ==
  /\ InC("dofile")
  /\ Step(lua_callk(On(Z, Push(settop1(th0), "f")),
                    func0 + 2, -1, "dofile"))
dofileReturns == ToC("dofile") /\ Step(CReturns(Z, dofilecont(th0)))

apply == InC("apply") /\ gettop(th0) > 0 /\ Step(lua_callk(Z, func0 + 1, 1, "none"))
applyReturns == ToC("apply") /\ Step(CReturns(Z, From(th0, 1)))

luaB_error == InC("error") /\ Step(luaG_errormsg(On(Z, settop1(th0))))
msghandler == InC("msgh") /\ Step(CReturns(Z, <<Last(th0.stack)>>))
luaB_yield == InC("yield") /\ Step(lua_yieldk(Z, gettop(th0)))

luaB_coresume ==
  /\ InC("resume") /\ gettop(th0) > 0 /\ th0.stack[func0 + 1] \in Coroutines
  /\ Step(auxresume(Z, th0.stack[func0 + 1], gettop(th0) - 1))
coresumeReturns ==
  /\ ToC("resume")
  /\ Step(CReturns(Z, IF errorstatus(Last(C).status) THEN <<"false", Last(th0.stack)>>
                      ELSE <<"true">> \o From(th0, 2)))
luaB_auxwrap == \E w \in DOMAIN WrapOf : InC(w) /\ Step(auxresume(Z, WrapOf[w], gettop(th0)))
auxwrapReturns ==
  \E w \in DOMAIN WrapOf :
    ToC(w) /\ Step(IF errorstatus(Last(C).status) THEN luaG_errormsg(Z) ELSE CReturns(Z, From(th0, 1)))

Unroll == Last(C).a = "unroll" /\ Step(finishCcall(Z, Last(C).status))

Init ==
  /\ L = [t \in Threads |-> NewThread(IF t = "main" THEN <<>> ELSE <<"f">>)]
  /\ C = <<[a |-> "docall", t |-> "main", at |-> 1, back |-> FALSE, status |-> "OK"]>>
Next ==
  \/ Docall \/ DocallEnds \/ OpCall \/ OpAdd \/ OpReturn \/ luaB_cocreate \/ traversethread
  \/ luaB_pcall \/ luaB_xpcall \/ pcallReturns \/ luaB_dofile \/ dofileReturns
  \/ apply \/ applyReturns \/ luaB_error \/ msghandler \/ luaB_yield
  \/ luaB_coresume \/ coresumeReturns \/ luaB_auxwrap \/ auxwrapReturns \/ Unroll
Spec == Init /\ [][Next]_vars

-----------------------------------------------------------------------------
(* What the program sees: the refinement mapping.                          *)

Raising(t, i) == \E j \in DOMAIN C : C[j].a = "errormsg" /\ C[j].t = t /\ C[j].at = i
Running(t, i) == t = Last(C).t /\ i = Len(L[t].ci)
PhaseOf(t, i) ==
  IF Raising(t, i) THEN "raise"
  ELSE IF i = Len(L[t].ci) /\ L[t].status = "YIELD" THEN "yield"
  ELSE IF ~Running(t, i) THEN "wait"
  ELSE CASE Last(C).a = "exec"   -> "run"
         [] Last(C).a = "unroll" -> IF errorstatus(Last(C).status) THEN "err" ELSE "ok"
         [] OTHER -> IF ~Last(C).back THEN "start"
                     ELSE IF errorstatus(Last(C).status) THEN "err" ELSE "ok"
FunctionOf(t, i, ph) == L[t].stack[IF ph = "yield" THEN L[t].ci[i].extra ELSE L[t].ci[i].func]

\* What a C function has below the results of its callee.
Kept(f) == CASE f = "pcall" -> 1 [] f = "xpcall" -> 3 [] f \in {"dofile", "resume"} -> 1 [] OTHER -> 0
GotOf(th, f, ph) ==
  CASE ph = "run"   -> SubSeq(th.stack, Ci(th).func + 1, Ci(th).func + 2)
    [] ph = "start" -> From(th, 1)
    [] ph = "ok"    -> From(th, Kept(f) + 1)
    [] ph = "err"   -> <<Last(th.stack)>>
    [] OTHER -> <<>>
ActOf(t, i) ==
  LET ph == PhaseOf(t, i)
      f == FunctionOf(t, i, ph)
  IN [f |-> f, by |-> IF Raising(t, i - 1) THEN "raise" ELSE "call", ph |-> ph,
      got |-> GotOf(L[t], f, ph)]
DocallAct ==
  [f |-> "docall", by |-> "call", got |-> IF C[1].back /\ errorstatus(C[1].status)
                                          THEN <<Last(L["main"].stack)>> ELSE <<>>,
   ph |-> IF ~C[1].back THEN "wait" ELSE IF errorstatus(C[1].status) THEN "err" ELSE "ok"]

Resumptions == SelectSeq(C, LAMBDA r : r.a = "resume")
Chain == IF Len(C) = 1 /\ ~C[1].back THEN <<>>
         ELSE <<"main">> \o [i \in DOMAIN Resumptions |-> Resumptions[i].t]
Activations(t) == <<>> \o [i \in 1..Len(L[t].ci) - 1 |-> ActOf(t, i + 1)]
ActsOf(t) ==
  IF t = "main"
  THEN IF Chain = <<>> THEN <<>>
       ELSE <<DocallAct>> \o Activations(t)
  ELSE IF errorstatus(L[t].status) \/ Len(L[t].stack) = 1 THEN <<>>
  ELSE IF Len(L[t].ci) = 1
  THEN <<[f |-> "f", by |-> "call", ph |-> "new", got |-> <<>>]>>
  ELSE Activations(t)

P == INSTANCE ProtectedCalls WITH chain <- Chain, acts <- [t \in DOMAIN L |-> ActsOf(t)]

\* Calls, protected calls and coroutines do what they promise, although C
\* functions are left by longjmp and resumed elsewhere (ldo.c).
ImplementsProtectedCalls == P!Spec

-----------------------------------------------------------------------------
(* What the bookkeeping of ldo.c relies on.                                *)

Indices(what) == {j \in DOMAIN C : C[j].a \in what}
Active(t)  == \E j \in DOMAIN C : C[j].t = t
LastOf(t)  == Max({j \in DOMAIN C : C[j].t = t})
NotYieldable(t) == {j \in Indices({"call", "pcall", "tm", "errormsg"}) : C[j].t = t /\ C[j].ny}

\* The message handler of the innermost protected call that waits in t.
Protected(t) ==
  {i \in 2..Len(L[t].ci) : FunctionOf(t, i, PhaseOf(t, i)) \in {"pcall", "xpcall"}
                           /\ PhaseOf(t, i) \in {"wait", "raise"}}
HandlerSlot(t) ==
  IF Protected(t) # {}
  THEN LET func == L[t].ci[Max(Protected(t))].func
       IN IF L[t].stack[func] = "xpcall" THEN func + 2 ELSE 0
  ELSE IF t = "main" /\ Chain # <<>> /\ ~C[1].back THEN 2 ELSE 0

\* The counters that decide whether a call fails or a thread may yield agree
\* with the calls that are active, whatever errors and yields have ended some
\* of them; a longjmp ends in the thread that runs; and only functions with a
\* continuation are continued, after an error only one that is a protected call
\* (the assertions of finishCcall, ldo.c:522, and of lua_resume, ldo.c:681).
BookkeepingRight ==
  /\ \A t \in DOMAIN L :
       /\ Active(t) => L[t].nCcalls = Cardinality({j \in Indices(
            {"call", "pcall", "ypcall", "tm", "errormsg", "resume"}) : j <= LastOf(t)})
       /\ L[t].nny = Cardinality(NotYieldable(t)) + IF t = "main" \/ ~Active(t) THEN 1 ELSE 0
  /\ Indices({"pcall", "resume"}) # {} => C[Max(Indices({"pcall", "resume"}))].t = Last(C).t
  /\ Last(C).a = "unroll" =>
       /\ th0.nny = 0 /\ Ci(th0).k # "none"
       /\ Ci(th0).yp \/ Last(C).status = "YIELD"

\* An error calls the message handler of the innermost protected call that waits,
\* although errors and yields may have ended others since that call began
\* (errfunc and old_errfunc: ldo.c:527, 593 and 739, lapi.c:977-983).
HandlerRight ==
  \A t \in DOMAIN L :
    ~errorstatus(L[t].status) /\ Last(C).a # "unroll" => L[t].errfunc = HandlerSlot(t)

\* Nothing is written above the stack, the frames end below its last
\* EXTRA_STACK slots, and a C function that is called, or continued after an error,
\* has no more than it may have (luaD_growstack, ldo.c:191; api_incr_top, lapi.h:14).
\* A function that is continued after a yield may have more: finishCcall enlarges the
\* frame only where the function itself owes all its results (ldo.c:531, lapi.h:17).
\* A thread that died of an error is excepted: lua_resume makes its frame end at its
\* top, and then the assertion of stackinuse (ldo.c:216) may fail when it is traversed.
StackFits ==
  /\ \A t \in DOMAIN L :
       LET size == LUAI_MAXSTACK + IF L[t].big THEN ErrorSpace ELSE 0
       IN /\ Len(L[t].stack) <= size
          /\ ~errorstatus(L[t].status) =>
               \A i \in DOMAIN L[t].ci : L[t].ci[i].top <= size - EXTRA_STACK
  /\ Last(C).a = "C" \/ (Last(C).a = "unroll" /\ errorstatus(Last(C).status)) =>
       Len(th0.stack) <= Ci(th0).top
=============================================================================
