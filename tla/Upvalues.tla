------------------------------ MODULE Upvalues ------------------------------
(***************************************************************************)
(* Closures, upvalues and coroutines of the embedded interpreter against   *)
(* its collector: luaF_findupval and luaF_close (lua/src/lfunc.c),         *)
(* lua_upvaluejoin (lapi.c), the instructions that use upvalues (lvm.c)    *)
(* and the parts of lgc.c that are there for them: 'touched', the list     *)
(* twups, remarkupvals, luaC_upvalbarrier_, reference counts.              *)
(*                                                                         *)
(* A stack level is an index, not an address: what correctstack (ldo.c)    *)
(* does when a stack is moved is not seen.  Tables are left out (LuaMark   *)
(* has them): the roots are the main thread and the thread that runs.  The *)
(* cache of closures (getcached, lvm.c) is left out.  Only the main thread *)
(* resumes another one.                                                    *)
(***************************************************************************)
EXTENDS Integers, FiniteSets, Sequences, SequencesExt

CONSTANTS
  Main,        \* the main thread
  Coroutines,  \* the other threads
  Closures,    \* Lua closures, each with one upvalue
  Leaves,      \* objects without references, such as strings
  UpVals,      \* memory for upvalues
  Nil,         \* no value
  Own,         \* "&uv->u.value": the upvalue is closed
  None,        \* no upvalue
  SelfJoin,    \* may lua_upvaluejoin be given the last reference to a closed upvalue twice?
  MaxLevel     \* bound: height of each stack

ASSUME ObjectsAssumption ==
  /\ Main \notin Coroutines \cup Closures \cup Leaves
  /\ Coroutines \cap (Closures \cup Leaves) = {} /\ Closures \cap Leaves = {}
  /\ Nil \notin {Main} \cup Coroutines \cup Closures \cup Leaves
  /\ None \notin UpVals /\ IsFiniteSet(Closures)
ASSUME BoundsAssumption ==
  SelfJoin \in BOOLEAN /\ MaxLevel \in [{Main} \cup Coroutines -> Nat]

Threads == {Main} \cup Coroutines
Heap    == Coroutines \cup Closures \cup Leaves
Objs    == {Main} \cup Heap
Slots   == UNION {{t} \X (1..MaxLevel[t]) : t \in Threads}
Places  == Slots \cup Closures   \* where a variable shows
ASSUME OwnAssumption == Own \notin Slots
ASSUME PlacesAssumption == Slots \cap Closures = {}

VARIABLES
  gcstate,     \* "pause", "propagate", "atomic", "insideatomic", "sweep"
  apc,         \* the next part of atomic(), "none" outside it
  color,       \* "free", "white" (the current one), "dead" (the other), "gray", "black"
  gray, grayagain,
  unswept,     \* objects the sweep has still to visit
  running,     \* the thread that runs
  stack,       \* per thread: its values
  openupval,   \* per thread: its open upvalues, in the order of the list
  twups,       \* threads with open upvalues
  todo,        \* threads of twups that remarkupvals has still to visit
  uv,          \* per closure: its upvalue
  ups,         \* allocated upvalues
  refcount, v, value, touched   \* the fields of an upvalue

collector == <<gcstate, apc, unswept>>
marks     == <<color, gray>>
upval     == <<ups, refcount, v, value, touched>>
vars == <<collector, marks, grayagain, running, stack, openupval, twups, todo, uv, upval>>

White == {o \in Objs : color[o] = "white"}
Allocated == {o \in Objs : color[o] # "free"}
keepinvariant == gcstate \in {"propagate", "atomic"}

upisopen(u) == v[u] # Own
ReadVia(stk, u) == IF upisopen(u) THEN stk[v[u][1]][v[u][2]] ELSE value[u]
Read(u) == ReadVia(stack, u)

-----------------------------------------------------------------------------
(* Marking.                                                                *)

Marked(S) ==
  [o \in Objs |-> IF o \notin S \cap White THEN color[o]
                  ELSE IF o \in Leaves THEN "black" ELSE "gray"]
Grayed(S) == (S \cap White) \ Leaves
mark(S) == color' = Marked(S) /\ gray' = gray \cup Grayed(S)

\* luaC_upvalbarrier_: the closures that share a closed upvalue may have any
\* color, so what is stored in it is marked.
luaC_upvalbarrier(S) == IF keepinvariant THEN mark(S) ELSE UNCHANGED marks

\* Outside the atomic phase an open upvalue is only touched: its thread may go
\* on changing it.
traverseLclosure(c) ==
  LET u == uv[c]
      later == upisopen(u) /\ gcstate # "insideatomic"
      S == IF later THEN {} ELSE {Read(u)}
  IN /\ touched' = [touched EXCEPT ![u] = @ \/ later]
     /\ color' = [Marked(S) EXCEPT ![c] = "black"]
     /\ gray' = (gray \ {c}) \cup Grayed(S)
     /\ UNCHANGED <<grayagain, twups>>

\* Mutant: a thread is not linked back.
traversethread_unlinked(t) ==
  /\ color' = Marked(ToSet(stack[t]))
  /\ gray' = (gray \ {t}) \cup Grayed(ToSet(stack[t]))
  /\ grayagain' = grayagain \cup {t}
  /\ UNCHANGED <<twups, touched>>

\* A thread stays gray; in the atomic phase it is linked back into twups, from
\* where remarkupvals may have taken it.
traversethread(t) ==
  /\ color' = Marked(ToSet(stack[t]))
  /\ gray' = (gray \ {t}) \cup Grayed(ToSet(stack[t]))
  /\ grayagain' = grayagain \cup {t}
  /\ twups' = IF gcstate = "insideatomic" /\ openupval[t] # <<>> THEN twups \cup {t} ELSE twups
  /\ UNCHANGED touched

propagatemark(o) ==
  /\ \/ o \in Closures /\ traverseLclosure(o)
     \/ o \in Threads /\ traversethread(o)
  /\ UNCHANGED <<apc, unswept, running, stack, openupval, todo, uv,
                 ups, refcount, v, value>>

restartcollection ==
  /\ gcstate = "pause"
  /\ gcstate' = "propagate"
  /\ color' = Marked({Main}) /\ gray' = Grayed({Main}) /\ grayagain' = {}
  /\ UNCHANGED <<apc, unswept, running, stack, openupval, twups, todo, uv,
                 upval>>

Propagate ==
  /\ gcstate = "propagate"
  /\ \E o \in gray : propagatemark(o)
  /\ gcstate' = IF gray' = {} THEN "atomic" ELSE gcstate

\* propagateall, before atomic() and inside it.
PropagateAll ==
  /\ gcstate \in {"atomic", "insideatomic"} /\ todo = {}
  /\ \E o \in gray : propagatemark(o)
  /\ UNCHANGED gcstate

-----------------------------------------------------------------------------
(* The atomic phase.                                                       *)

\* The running thread is marked and remarkupvals begins.
AtomicBegin ==
  /\ gcstate = "atomic" /\ gray = {}
  /\ gcstate' = "insideatomic" /\ apc' = "remark"
  /\ mark({running})
  /\ todo' = twups
  /\ UNCHANGED <<unswept, grayagain, running, stack, openupval, twups, uv,
                 upval>>

\* Mutant: threads without a mark leave the list, their values do not get one.
remarkupvals_forgets(t) ==
  /\ t \in todo
  /\ todo' = todo \ {t}
  /\ twups' = IF color[t] = "gray" /\ openupval[t] # <<>> THEN twups ELSE twups \ {t}
  /\ UNCHANGED <<gcstate, apc, unswept, marks, grayagain, running, stack,
                 openupval, uv, upval>>

\* One thread of remarkupvals: one that is not marked leaves the list, and the
\* values of the upvalues that marked closures have in it are marked.
remarkupvals(t) ==
  LET stays == color[t] = "gray" /\ openupval[t] # <<>>
      noted == {u \in ToSet(openupval[t]) : touched[u]}
  IN
  /\ t \in todo
  /\ todo' = todo \ {t}
  /\ IF stays THEN UNCHANGED <<twups, marks, touched>>
     ELSE /\ twups' = twups \ {t}
          /\ mark({Read(u) : u \in noted})
          /\ touched' = [u \in UpVals |-> touched[u] /\ u \notin noted]
  /\ UNCHANGED <<gcstate, apc, unswept, grayagain, running, stack, openupval,
                 uv, ups, refcount, v, value>>

\* The threads visited before are visited again (so is one that was visited since
\* remarkupvals, to no effect).
AtomicGrayAgain ==
  /\ apc = "remark" /\ todo = {} /\ gray = {}
  /\ apc' = "again"
  /\ gray' = grayagain /\ grayagain' = {}
  /\ UNCHANGED <<gcstate, unswept, color, running, stack, openupval, twups,
                 todo, uv, upval>>

\* The whites are exchanged and the sweep begins.
AtomicEnd ==
  /\ apc = "again" /\ gray = {}
  /\ apc' = "none" /\ gcstate' = "sweep"
  /\ color' = [o \in Objs |-> IF o \in White THEN "dead" ELSE color[o]]
  /\ unswept' = Allocated \ {Main}
  /\ grayagain' = {}
  /\ UNCHANGED <<gray, running, stack, openupval, twups, todo, uv, upval>>

-----------------------------------------------------------------------------
(* Upvalues.                                                               *)

\* The open upvalues of t at 'level' and above are the first ones of its list.
Above(t, level) ==
  LET open == openupval[t] IN
  CHOOSE k \in 0..Len(open) :
    /\ \A i \in 1..k : v[open[i]][2] >= level
    /\ k = Len(open) \/ v[open[k + 1]][2] < level

\* Mutant: an upvalue that is there already is not found.
Found_never(t, level) == {}
Found(t, level) == {u \in ToSet(openupval[t]) : v[u][2] = level}

\* The upvalue for a level, and the list with it: the one that is there or a new
\* one, at its place.
luaF_findupval(t, level) ==
  LET open == openupval[t]
      k == Above(t, level)
      u == CHOOSE u \in UpVals \ ups : TRUE
  IN IF Found(t, level) # {}
     THEN [u |-> CHOOSE f \in Found(t, level) : TRUE, list |-> open]
     ELSE [u |-> u, list |-> SubSeq(open, 1, k) \o <<u>> \o SubSeq(open, k + 1, Len(open))]

\* Mutant: the value is not moved.
ClosedValue_lost(u) == Nil
ClosedValue(u) == Read(u)

\* Upvalues from a level on leave the stack with their values, those without
\* references are freed.
luaF_close(t, level) ==
  LET gone == {openupval[t][i] : i \in 1..Above(t, level)}
      kept == {u \in gone : refcount[u] # 0}
  IN /\ openupval' = [openupval EXCEPT ![t] = SubSeq(@, Above(t, level) + 1, Len(@))]
     /\ ups' = ups \ (gone \ kept)
     /\ v' = [u \in UpVals |-> IF u \in gone THEN Own ELSE v[u]]
     /\ value' = [u \in UpVals |-> IF u \in kept THEN ClosedValue(u) ELSE value[u]]
     /\ touched' = [u \in UpVals |-> touched[u] /\ u \notin gone]

\* The levels whose values luaF_close moves; it has a barrier for each.
CapturedFrom(t, level) ==
  {v[u][2] : u \in {w \in ToSet(openupval[t]) : v[w][2] >= level /\ refcount[w] # 0}}

Counted(count, u) == [count EXCEPT ![u] = @ + 1]
\* Mutant: a reference that is gone is still counted.
Uncounted_not(count, u) == count
Uncounted(count, u) == [count EXCEPT ![u] = @ - 1]

\* luaC_upvdeccount, but for the count: a closed upvalue is freed with its last
\* reference.
Release(u) ==
  LET last == Uncounted(refcount, u)[u] = 0 /\ ~upisopen(u) IN
  /\ ups' = IF last THEN ups \ {u} ELSE ups
  /\ value' = IF last THEN [value EXCEPT ![u] = Nil] ELSE value

-----------------------------------------------------------------------------
(* The running program.                                                    *)

Runs == gcstate # "insideatomic"
Top(t) == Len(stack[t])
Room == Top(running) < MaxLevel[running]
OnStack == ToSet(stack[running])
Pushed(x) == [stack EXCEPT ![running] = Append(@, x)]

unlinked == <<gcstate, apc, unswept, grayagain, todo>>

\* A string, say, or a coroutine.
luaC_newobj(o) ==
  /\ Runs /\ Room /\ color[o] = "free"
  /\ color' = [color EXCEPT ![o] = "white"]
  /\ stack' = Pushed(o)
  /\ UNCHANGED <<unlinked, gray, running, openupval, twups, uv, upval>>

\* A value is copied on the stack, or from an upvalue of a closure there.
GetValue(x) ==
  /\ Runs /\ Room
  /\ x \in OnStack \cup {Read(uv[c]) : c \in OnStack \cap Closures}
  /\ stack' = Pushed(x)
  /\ UNCHANGED <<unlinked, marks, running, openupval, twups, uv, upval>>

SetLocal(l, x) ==
  /\ Runs /\ l \in 1..Top(running) /\ x \in OnStack
  /\ stack' = [stack EXCEPT ![running][l] = x]
  /\ UNCHANGED <<unlinked, marks, running, openupval, twups, uv, upval>>

\* OP_CLOSURE for a local variable, perhaps the one the closure is stored in.
pushclosure(c, l) ==
  LET f == luaF_findupval(running, l) IN
  /\ Runs /\ Room /\ color[c] = "free" /\ l \in 1..(Top(running) + 1)
  /\ ups # UpVals
  /\ color' = [color EXCEPT ![c] = "white"]
  /\ stack' = Pushed(c)
  /\ uv' = [uv EXCEPT ![c] = f.u]
  /\ openupval' = [openupval EXCEPT ![running] = f.list]
  /\ IF f.u \in ups
     THEN refcount' = Counted(refcount, f.u) /\ UNCHANGED <<ups, v, touched, twups>>
     ELSE /\ refcount' = [refcount EXCEPT ![f.u] = 1]
          /\ ups' = ups \cup {f.u}
          /\ v' = [v EXCEPT ![f.u] = <<running, l>>]
          /\ touched' = [touched EXCEPT ![f.u] = TRUE]
          /\ twups' = twups \cup {running}
  /\ UNCHANGED <<unlinked, gray, running, value>>

\* OP_CLOSURE for a variable of the enclosing function e.
pushclosure_enclosing(c, e) ==
  /\ Runs /\ Room /\ color[c] = "free" /\ e \in OnStack \cap Closures
  /\ color' = [color EXCEPT ![c] = "white"]
  /\ stack' = Pushed(c)
  /\ uv' = [uv EXCEPT ![c] = uv[e]]
  /\ refcount' = Counted(refcount, uv[e])
  /\ UNCHANGED <<unlinked, gray, running, openupval, twups, ups, v, value, touched>>

OP_SETUPVAL(c, x) ==
  LET u == uv[c] IN
  /\ Runs /\ c \in OnStack \cap Closures /\ x \in OnStack
  /\ IF upisopen(u)
     THEN stack' = [stack EXCEPT ![v[u][1]][v[u][2]] = x] /\ UNCHANGED <<value, marks>>
     ELSE value' = [value EXCEPT ![u] = x] /\ luaC_upvalbarrier({x}) /\ UNCHANGED stack
  /\ UNCHANGED <<unlinked, running, openupval, twups, uv, ups, refcount, v, touched>>

\* A block or a function ends.
Leave(level) ==
  /\ Runs /\ level \in 1..Top(running)
  /\ luaF_close(running, level)
  /\ luaC_upvalbarrier({stack[running][l] : l \in CapturedFrom(running, level)})
  /\ stack' = [stack EXCEPT ![running] = SubSeq(@, 1, level - 1)]
  /\ UNCHANGED <<unlinked, running, twups, uv, refcount>>

lua_upvaluejoin(f1, f2) ==
  LET u1 == uv[f1]
      u2 == uv[f2]
  IN
  /\ Runs /\ f1 \in OnStack \cap Closures /\ f2 \in OnStack \cap Closures
  /\ u1 = u2 /\ ~upisopen(u1) /\ refcount[u1] = 1 => SelfJoin
  /\ Release(u1)
  /\ uv' = [uv EXCEPT ![f1] = u2]
  /\ refcount' = Counted(Uncounted(refcount, u1), u2)
  /\ touched' = [touched EXCEPT ![u2] = @ \/ upisopen(u2)]
  /\ IF upisopen(u2) THEN UNCHANGED marks ELSE luaC_upvalbarrier({Read(u2)})
  /\ UNCHANGED <<unlinked, running, stack, openupval, twups, v>>

\* lua_xmove moves what is passed from one stack to the other; it was copied on
\* top of the first one before, GetValue and lua_xmove in one.
lua_resume(t, xs) ==
  /\ Runs /\ running = Main /\ t \in OnStack \cap Coroutines
  /\ ToSet(xs) \subseteq OnStack /\ Top(t) + Len(xs) <= MaxLevel[t]
  /\ running' = t
  /\ stack' = [stack EXCEPT ![t] = @ \o xs]
  /\ UNCHANGED <<unlinked, marks, openupval, twups, uv, upval>>

lua_yield(xs) ==
  /\ Runs /\ running # Main
  /\ ToSet(xs) \subseteq OnStack /\ Top(Main) + Len(xs) <= MaxLevel[Main]
  /\ running' = Main
  /\ stack' = [stack EXCEPT ![Main] = @ \o xs]
  /\ UNCHANGED <<unlinked, marks, openupval, twups, uv, upval>>

-----------------------------------------------------------------------------
(* Sweeping.                                                               *)

freeLclosure(c) ==
  /\ refcount' = Uncounted(refcount, uv[c])
  /\ Release(uv[c])
  /\ uv' = [uv EXCEPT ![c] = None]
  /\ UNCHANGED <<stack, openupval, v, touched>>

\* Only in a sweep, where the barrier of luaF_close does nothing.
luaE_freethread(t) ==
  /\ luaF_close(t, 1)
  /\ stack' = [stack EXCEPT ![t] = <<>>]
  /\ UNCHANGED <<uv, refcount>>

\* sweeplist, one object: a dead one is freed, another one turns white.
Sweep(o) ==
  /\ gcstate = "sweep" /\ o \in unswept
  /\ unswept' = unswept \ {o}
  /\ IF color[o] # "dead"
     THEN color' = [color EXCEPT ![o] = "white"]
          /\ UNCHANGED <<stack, openupval, uv, upval>>
     ELSE /\ color' = [color EXCEPT ![o] = "free"]
          /\ \/ o \in Leaves /\ UNCHANGED <<stack, openupval, uv, upval>>
             \/ o \in Closures /\ freeLclosure(o)
             \/ o \in Coroutines /\ luaE_freethread(o)
  /\ UNCHANGED <<gcstate, apc, gray, grayagain, running, twups, todo>>

\* The main thread is in no list.
SweepEnds ==
  /\ gcstate = "sweep" /\ unswept = {}
  /\ gcstate' = "pause"
  /\ color' = [color EXCEPT ![Main] = "white"]
  /\ UNCHANGED <<apc, unswept, gray, grayagain, running, stack, openupval,
                 twups, todo, uv, upval>>

\* In the middle of a mark phase: all objects are swept white, none is freed.  The
\* cycle that luaC_fullgc runs after that is the one above, the program stopped.
luaC_fullgc ==
  /\ keepinvariant
  /\ gcstate' = "sweep" /\ unswept' = Allocated \ {Main}
  /\ gray' = {} /\ grayagain' = {}
  /\ UNCHANGED <<apc, color, running, stack, openupval, twups, todo, uv,
                 upval>>

-----------------------------------------------------------------------------
Init ==
  /\ gcstate = "pause" /\ apc = "none"
  /\ color = [o \in Objs |-> IF o = Main THEN "white" ELSE "free"]
  /\ gray = {} /\ grayagain = {} /\ unswept = {}
  /\ running = Main /\ stack = [t \in Threads |-> <<>>]
  /\ openupval = [t \in Threads |-> <<>>] /\ twups = {} /\ todo = {}
  /\ uv = [c \in Closures |-> None] /\ ups = {}
  /\ refcount = [u \in UpVals |-> 0] /\ v = [u \in UpVals |-> Own]
  /\ value = [u \in UpVals |-> Nil] /\ touched = [u \in UpVals |-> FALSE]

Levels == 1..(1 + CHOOSE m \in {MaxLevel[t] : t \in Threads} : \A t \in Threads : m >= MaxLevel[t])
Passed == {<<>>} \cup {<<x>> : x \in Heap}

Program ==
  \/ \E o \in Leaves \cup Coroutines : luaC_newobj(o)
  \/ \E x \in Heap : GetValue(x)
  \/ \E l \in Levels, x \in Heap : SetLocal(l, x)
  \/ \E c \in Closures, l \in Levels : pushclosure(c, l)
  \/ \E c, e \in Closures : pushclosure_enclosing(c, e) \/ lua_upvaluejoin(c, e)
  \/ \E c \in Closures, x \in Heap : OP_SETUPVAL(c, x)
  \/ \E l \in Levels : Leave(l)
  \/ \E t \in Coroutines, xs \in Passed : lua_resume(t, xs)
  \/ \E xs \in Passed : lua_yield(xs)

Collector ==
  \/ restartcollection \/ Propagate \/ PropagateAll
  \/ AtomicBegin \/ (\E t \in Threads : remarkupvals(t)) \/ AtomicGrayAgain \/ AtomicEnd
  \/ (\E o \in Heap : Sweep(o)) \/ SweepEnds \/ luaC_fullgc

Next == Program \/ Collector

Spec == Init /\ [][Next]_vars

-----------------------------------------------------------------------------
(* Properties.                                                             *)

TypeOK ==
  /\ gcstate \in {"pause", "propagate", "atomic", "insideatomic", "sweep"}
  /\ apc \in {"none", "remark", "again"} /\ (apc # "none" <=> gcstate = "insideatomic")
  /\ color \in [Objs -> {"free", "white", "dead", "gray", "black"}]
  /\ \A t \in Threads : color[t] # "black"
  /\ gray \subseteq Threads \cup Closures /\ grayagain \subseteq Threads
  /\ unswept \subseteq Heap
  /\ running \in Threads
  /\ stack \in [Threads -> Seq(Heap)]
  /\ openupval \in [Threads -> Seq(UpVals)]
  /\ twups \subseteq Threads /\ todo \subseteq Threads
  /\ uv \in [Closures -> UpVals \cup {None}] /\ ups \subseteq UpVals
  /\ refcount \in [UpVals -> Nat] /\ v \in [UpVals -> Slots \cup {Own}]
  /\ value \in [UpVals -> Heap \cup {Nil}] /\ touched \in [UpVals -> BOOLEAN]

\* Objects that are neither free nor waiting to be freed.
Alive == {o \in Objs : color[o] \notin {"free", "dead"}}

\* Nothing alive refers to memory that is free or about to be: neither a stack,
\* nor a closure through its upvalue, wherever the upvalue's value lives.
NoDangling ==
  /\ {Main, running} \subseteq Alive
  /\ \A t \in Threads \cap Alive : ToSet(stack[t]) \subseteq Alive
  /\ \A c \in Closures \cap Alive : uv[c] \in ups /\ Read(uv[c]) \in Alive

\* The field 'refcount' counts the references of closures that are not freed yet;
\* a closed upvalue without references was freed, one with some was not.
RefcountsRight ==
  /\ \A c \in Closures : color[c] # "free" => uv[c] \in ups
  /\ \A u \in ups : /\ refcount[u] = Cardinality({c \in Closures : uv[c] = u})
                    /\ refcount[u] = 0 => upisopen(u)

\* A thread's list of open upvalues has them all, one for a level, the highest
\* level first: luaF_findupval and luaF_close stop at the first lower one.
OpenListSorted ==
  /\ \A t \in Threads :
       LET open == openupval[t] IN
       /\ \A i \in DOMAIN open : open[i] \in ups /\ v[open[i]] \in {t} \X (1..Top(t))
       /\ \A i, j \in DOMAIN open : i < j => v[open[i]][2] > v[open[j]][2]
  /\ \A u \in ups : upisopen(u) => u \in ToSet(openupval[v[u][1]])

\* lfunc.c and traversethread assert that a thread with open upvalues is in
\* twups; a thread that was freed is not.
TwupsComplete ==
  /\ Runs => \A t \in Threads \cap Alive : openupval[t] # <<>> => t \in twups
  /\ twups \subseteq Allocated

-----------------------------------------------------------------------------
(* Upvalues implement SharedVars: places that share a variable do so before *)
(* and after the upvalue is closed, and whatever the collector does.       *)

\* The closures that show the variable in a slot; the places that show what a
\* closure shows.
Viewers(s) == {c \in Closures : uv[c] # None /\ v[uv[c]] = s}
Company(c) ==
  IF upisopen(uv[c]) THEN {v[uv[c]]} \cup Viewers(v[uv[c]]) ELSE {d \in Closures : uv[d] = uv[c]}

with == [p \in Places |->
           IF p \in Closures THEN IF uv[p] = None THEN {} ELSE Company(p)
           ELSE IF p[2] <= Top(p[1]) THEN {p} \cup Viewers(p) ELSE {}]

content == [p \in Places |->
              IF p \in Closures THEN IF uv[p] = None THEN Nil ELSE Read(uv[p])
              ELSE IF p[2] <= Top(p[1]) THEN stack[p[1]][p[2]] ELSE Nil]

Shared == INSTANCE SharedVars WITH Contents <- Heap, Nothing <- Nil

\* The implementation of local variables, closures and coroutines is what the
\* language promises of them.
ImplementsSharedVars == Shared!Spec
=============================================================================
