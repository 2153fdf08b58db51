------------------------------ MODULE LuaMark ------------------------------
(***************************************************************************)
(* The incremental mark phase of the embedded interpreter's collector      *)
(* (lua/src/lgc.c) against the running program: gray lists, write          *)
(* barriers, weak tables, finalizers and the colors the sweep resets.      *)
(*                                                                         *)
(* A gray list is a set: the order in which gray objects are visited is    *)
(* left open.  The entries of one table are looked at in the order that    *)
(* marks least: those that mark nothing come first.  The atomic phase is a *)
(* sequence of steps during which the program does not run ('apc').  The   *)
(* lists the sweep walks are the set 'unswept' here and are modelled link  *)
(* by link in LuaSweep.  Coroutines, prototypes and open upvalues are left *)
(* out; a Lua closure behaves, for marking, as a C closure whose upvalues  *)
(* are closed.                                                             *)
(***************************************************************************)
EXTENDS Integers, FiniteSets

CONSTANTS
  Main,         \* the main thread, the only one here
  Registry,     \* the registry, a table
  Tables,       \* tables, the registry among them
  Udata,        \* full userdata, each with one user value
  CClosures,    \* C closures, each with one upvalue
  Strings,
  Atom,         \* a value that is not collectable
  None,         \* no object
  Modes,        \* the kinds of table a program uses, by their __mode
  Adorned,      \* tables and userdata a program gives metatables to
  Finalizable,  \* objects a program may give a metatable with __gc
  MaxEntries,   \* bound: entries, per table
  MaxStack      \* bound: collectable values on the stack

ASSUME ObjectsAssumption ==
  /\ Registry \in Tables
  /\ Main \notin Tables \cup Udata \cup CClosures \cup Strings
  /\ Tables \cap (Udata \cup CClosures \cup Strings) = {}
  /\ Udata \cap (CClosures \cup Strings) = {} /\ CClosures \cap Strings = {}
  /\ {Atom, None} \cap ({Main} \cup Tables \cup Udata \cup CClosures \cup Strings) = {}
  /\ Atom # None
ASSUME ModesAssumption ==
  /\ "strong" \in Modes /\ Modes \subseteq {"strong", "k", "v", "kv"}
ASSUME AdornedAssumption == Finalizable \subseteq Adorned /\ Adorned \subseteq Tables \cup Udata
ASSUME BoundsAssumption == MaxEntries \in [Tables -> Nat] /\ MaxStack \in Nat

VARIABLES
  gcstate,    \* "pause", "propagate", "atomic", "insideatomic", "sweep", "callfin"
  apc,        \* the next part of the atomic step, "none" outside it
  color,      \* per object: "free" (not allocated), "w0", "w1", "gray" or "black"
  currentwhite,
  gray, grayagain, weak, ephemeron, allweak,   \* the gray lists
  pass,       \* ephemeron tables still to visit in this pass of convergeephemerons
  changed,    \* has this pass marked anything?
  orig,       \* origweak and origall of atomic()
  stack,      \* collectable values on the main thread's stack
  ent,        \* per table: its entries <<key, value>>
  meta,       \* per table or userdata: its metatable
  mode,       \* per table: __mode of its metatable
  uv,         \* per userdata or C closure: its user value or upvalue
  finobj,     \* objects marked for finalization
  tobefnz,    \* objects whose finalizer is to be called
  unswept     \* objects the sweep has still to visit

lists == <<gray, grayagain, weak, ephemeron, allweak>>
inner == <<apc, pass, changed, orig>>
heap  == <<ent, meta, mode, uv>>
final == <<finobj, tobefnz>>
vars  == <<gcstate, inner, color, currentwhite, lists, stack, heap, final, unswept>>

Objs    == {Main} \cup Tables \cup Udata \cup CClosures \cup Strings
Values  == Objs \ {Main, Registry}  \* objects a program holds
Holders == Tables \cup Udata        \* objects with a metatable
Cells   == Udata \cup CClosures     \* objects with one value

otherwhite == IF currentwhite = "w0" THEN "w1" ELSE "w0"
White == {o \in Objs : color[o] \in {"w0", "w1"}}
Allocated == {o \in Objs : color[o] # "free"}

keepinvariant == gcstate \in {"propagate", "atomic", "insideatomic"}

Keys(t) == {e[1] : e \in ent[t]}
Vals(t) == {e[2] : e \in ent[t]}

-----------------------------------------------------------------------------
(* Marking.                                                                *)

\* What one white userdata takes along: its metatable and its user value.
Along(u) == IF u \in Udata THEN {meta[u], uv[u]} \cap White ELSE {}

\* The objects reallymarkobject colors when it is called on the white ones of
\* S: the least set that holds them and what its userdata take along.
Reach(S) ==
  {o \in White : \A D \in SUBSET White :
     (S \cap White \subseteq D /\ \A u \in D : Along(u) \subseteq D) => o \in D}

\* Strings and userdata turn black at once; other objects turn gray.
Marked(S) ==
  [o \in Objs |-> IF o \notin Reach(S) THEN color[o]
                  ELSE IF o \in Strings \cup Udata THEN "black" ELSE "gray"]

\* Mutant: strings and userdata are linked into 'gray' too.
Grayed_all(S) == Reach(S)

\* The objects that this links into the list 'gray'.
Grayed(S) == Reach(S) \ (Strings \cup Udata)

mark(S) == color' = Marked(S) /\ gray' = gray \cup Grayed(S)

\* iscleared, for a set of objects that are still white: strings never are.
Cleared(W) == W \ Strings

-----------------------------------------------------------------------------
(* Traversing a table.  W is what is white once the metatable is marked.   *)

AfterMeta(t) == White \ Reach({meta[t]})

\* A value that will be cleared stops the look at the other values, so strings
\* are marked by it only when there is none.
WeakValueMarks(t, W) ==
  Keys(t) \cup (IF Vals(t) \cap Cleared(W) = {} THEN Vals(t) \cap Strings ELSE {})

\* Entries of an ephemeron table whose key is not marked.
WhiteKeyed(t, W) == {e \in ent[t] : e[1] \in Cleared(W)}

EphemeronVals(t, W) == {e[2] : e \in ent[t] \ WhiteKeyed(t, W)}

TableMarks(t, W) ==
  CASE mode[t] = "strong" -> Keys(t) \cup Vals(t)
    [] mode[t] = "v"      -> WeakValueMarks(t, W)
    [] mode[t] = "k"      -> (Keys(t) \cap Strings) \cup EphemeronVals(t, W)
    [] OTHER              -> {}

\* Mutant: such a table is not visited again.
HasWhiteWhite_never(t, W) == FALSE

\* White key and white value: the table is to be visited again.
HasWhiteWhite(t, W) == \E e \in WhiteKeyed(t, W) : e[2] \in W

\* The list, if any, that a traversed table goes to.
ListOf(t, W) ==
  IF mode[t] = "strong" THEN "nolist"
  ELSE IF mode[t] = "kv" THEN "allweak"
  ELSE IF gcstate = "propagate" THEN "grayagain"
  ELSE IF mode[t] = "v" THEN IF Vals(t) \cap Cleared(W) # {} THEN "weak" ELSE "nolist"
  ELSE IF HasWhiteWhite(t, W) THEN "ephemeron"
  ELSE IF WhiteKeyed(t, W) # {} THEN "allweak" ELSE "nolist"

Linked(list, name, o, to) == IF name = to THEN list \cup {o} ELSE list

traversetable(t) ==
  LET W  == AfterMeta(t)
      S  == TableMarks(t, W) \cup {meta[t]}
      to == ListOf(t, W)
  IN /\ color' = [Marked(S) EXCEPT ![t] = IF mode[t] = "strong" THEN "black" ELSE "gray"]
     /\ gray' = (gray \ {t}) \cup Grayed(S)
     /\ grayagain' = Linked(grayagain, "grayagain", t, to)
     /\ weak'      = Linked(weak, "weak", t, to)
     /\ ephemeron' = Linked(ephemeron, "ephemeron", t, to)
     /\ allweak'   = Linked(allweak, "allweak", t, to)

-----------------------------------------------------------------------------
(* Propagation.                                                            *)

traverseCclosure(c) ==
  /\ color' = [Marked({uv[c]}) EXCEPT ![c] = "black"]
  /\ gray' = (gray \ {c}) \cup Grayed({uv[c]})
  /\ UNCHANGED <<grayagain, weak, ephemeron, allweak>>

\* Mutant: a thread is done once it was visited.
traversethread_once ==
  /\ color' = Marked(stack)
  /\ gray' = (gray \ {Main}) \cup Grayed(stack)
  /\ UNCHANGED <<grayagain, weak, ephemeron, allweak>>

\* A thread stays gray and is visited again in the atomic phase.
traversethread ==
  /\ color' = Marked(stack)
  /\ gray' = (gray \ {Main}) \cup Grayed(stack)
  /\ grayagain' = grayagain \cup {Main}
  /\ UNCHANGED <<weak, ephemeron, allweak>>

propagatemark(o) ==
  \/ o \in Tables /\ traversetable(o)
  \/ o \in CClosures /\ traverseCclosure(o)
  \/ o = Main /\ traversethread

\* GCSpause: start a cycle.
restartcollection ==
  LET S == {Main, Registry} \cup tobefnz IN
  /\ gcstate = "pause"
  /\ color' = Marked(S)
  /\ gray' = Grayed(S)
  /\ grayagain' = {} /\ weak' = {} /\ ephemeron' = {} /\ allweak' = {}
  /\ gcstate' = "propagate"
  /\ UNCHANGED <<inner, currentwhite, stack, heap, final, unswept>>

\* GCSpropagate: visit one gray object.
Propagate ==
  /\ gcstate = "propagate"
  /\ \E o \in gray : propagatemark(o)
  /\ gcstate' = IF gray' = {} THEN "atomic" ELSE gcstate
  /\ UNCHANGED <<inner, currentwhite, stack, heap, final, unswept>>

\* GCSatomic: one step of the collector, in which the program does not run.
AtomicStep ==
  /\ gcstate = "atomic" /\ apc = "none"
  /\ apc' = "propagateall"
  /\ UNCHANGED <<gcstate, pass, changed, orig, color, currentwhite, lists, stack, heap, final,
                 unswept>>

\* propagateall: before atomic(), and in three places inside it.
PropagateAll ==
  /\ apc # "none"
  /\ \E o \in gray : propagatemark(o)
  /\ UNCHANGED <<gcstate, inner, currentwhite, stack, heap, final, unswept>>

-----------------------------------------------------------------------------
(* The atomic phase.                                                       *)

\* The running thread and the registry are marked again.
AtomicBegin ==
  /\ apc = "propagateall" /\ gray = {}
  /\ gcstate' = "insideatomic" /\ apc' = "remark"
  /\ mark({Main, Registry})
  /\ UNCHANGED <<pass, changed, orig, currentwhite, grayagain, weak, ephemeron, allweak,
                 stack, heap, final, unswept>>

\* The objects of 'grayagain' become the gray list.
AtomicGrayAgain ==
  /\ apc = "remark" /\ gray = {}
  /\ gray' = grayagain /\ grayagain' = {}
  /\ apc' = "again"
  /\ UNCHANGED <<gcstate, pass, changed, orig, color, currentwhite, weak, ephemeron, allweak,
                 stack, heap, final, unswept>>

\* convergeephemerons takes the whole list for its next pass.
NextPass ==
  /\ pass' = ephemeron /\ ephemeron' = {} /\ changed' = FALSE

BeginConverge ==
  /\ apc \in {"again", "resurrect"} /\ gray = {}
  /\ apc' = IF apc = "again" THEN "converge1" ELSE "converge2"
  /\ NextPass
  /\ UNCHANGED <<gcstate, orig, color, currentwhite, gray, grayagain, weak, allweak,
                 stack, heap, final, unswept>>

\* One table of the pass; anything it marks is propagated before the next.
traverseephemeron(t) ==
  LET W == White IN
  /\ apc \in {"converge1", "converge2"} /\ gray = {} /\ t \in pass
  /\ pass' = pass \ {t}
  /\ mark((Keys(t) \cap Strings) \cup EphemeronVals(t, W))
  /\ changed' = (changed \/ EphemeronVals(t, W) \cap W # {})
  /\ ephemeron' = Linked(ephemeron, "ephemeron", t, ListOf(t, W))
  /\ allweak'   = Linked(allweak, "allweak", t, ListOf(t, W))
  /\ UNCHANGED <<gcstate, apc, orig, currentwhite, grayagain, weak, stack, heap, final, unswept>>

PassEnds ==
  /\ apc \in {"converge1", "converge2"} /\ gray = {} /\ pass = {}
  /\ IF changed THEN NextPass /\ apc' = apc
     ELSE /\ apc' = IF apc = "converge1" THEN "clear" ELSE "finish"
          /\ UNCHANGED <<pass, changed, ephemeron>>
  /\ UNCHANGED <<gcstate, orig, color, currentwhite, gray, grayagain, weak, allweak,
                 stack, heap, final, unswept>>

\* Mutant: values are cleared only once what is to be finalized is marked
\* again.
WithoutVals_late(es, W) == {e \in es : e[2] \notin Cleared(W \ finobj)}

\* clearvalues and clearkeys on the tables of a list; the strings they look at
\* are marked.
WithoutVals(es, W) == {e \in es : e[2] \notin Cleared(W)}
WithoutKeys(es, W) == {e \in es : e[1] \notin Cleared(W)}

\* Values of weak tables go before the finalizers' objects are resurrected, so
\* a weak table never shows an object that is being finalized.
AtomicClear ==
  LET tabs == weak \cup allweak
      keep == [t \in Tables |-> IF t \in tabs THEN WithoutVals(ent[t], White) ELSE ent[t]]
      strs == UNION {Vals(t) \cap Strings : t \in tabs}
      dying == finobj \cap (White \ strs)
  IN
  /\ apc = "clear"
  /\ ent' = keep
  /\ orig' = [weak |-> weak, allweak |-> allweak]
  /\ finobj' = finobj \ dying
  /\ tobefnz' = tobefnz \cup dying
  /\ mark(strs \cup tobefnz')
  /\ apc' = "resurrect"
  /\ UNCHANGED <<gcstate, pass, changed, currentwhite, grayagain, weak, ephemeron, allweak,
                 stack, meta, mode, uv, unswept>>

\* No gray list is read from here to restartcollection, which empties them all:
\* what they still hold is forgotten at once.
ForgetLists ==
  gray' = {} /\ grayagain' = {} /\ weak' = {} /\ ephemeron' = {} /\ allweak' = {}

\* Keys of ephemeron and all-weak tables, values of the weak tables found since;
\* then the whites are exchanged: what is still white is dead; sweeping starts.
AtomicEnd ==
  LET ktabs == ephemeron \cup allweak
      vtabs == (weak \ orig.weak) \cup (allweak \ orig.allweak)
      cutK  == [t \in Tables |-> IF t \in ktabs THEN WithoutKeys(ent[t], White) ELSE ent[t]]
      cutV  == [t \in Tables |-> IF t \in vtabs THEN WithoutVals(cutK[t], White) ELSE cutK[t]]
      strs  == (UNION {Keys(t) \cap Strings : t \in ktabs})
               \cup (UNION {{e[2] : e \in cutK[t]} \cap Strings : t \in vtabs})
  IN
  /\ apc = "finish"
  /\ ent' = cutV
  /\ color' = Marked(strs)
  /\ currentwhite' = otherwhite
  /\ gcstate' = "sweep" /\ apc' = "none"
  /\ unswept' = Allocated \ {Main}
  /\ orig' = [weak |-> {}, allweak |-> {}]
  /\ ForgetLists
  /\ UNCHANGED <<pass, changed, stack, meta, mode, uv, final>>

-----------------------------------------------------------------------------
(* Sweeping and finalizers.                                                *)

\* A dead object is freed; a living one turns white for the next cycle.
Sweep(o) ==
  /\ gcstate = "sweep" /\ o \in unswept
  /\ unswept' = unswept \ {o}
  /\ IF color[o] = otherwhite
     THEN /\ color' = [color EXCEPT ![o] = "free"]
          /\ ent'  = [t \in Tables |-> IF t = o THEN {} ELSE ent[t]]
          /\ mode' = [t \in Tables |-> IF t = o THEN "strong" ELSE mode[t]]
          /\ meta' = [h \in Holders |-> IF h = o THEN None ELSE meta[h]]
          /\ uv'   = [c \in Cells |-> IF c = o THEN None ELSE uv[c]]
     ELSE color' = [color EXCEPT ![o] = currentwhite] /\ UNCHANGED heap
  /\ UNCHANGED <<gcstate, inner, currentwhite, lists, stack, final>>

\* GCSswpend: the main thread, which is in no list, turns white.
SweepEnds ==
  /\ gcstate = "sweep" /\ unswept = {}
  /\ color' = [color EXCEPT ![Main] = currentwhite]
  /\ gcstate' = "callfin"
  /\ UNCHANGED <<inner, currentwhite, lists, stack, heap, final, unswept>>

\* GCScallfin: finalizers are called until none is left, or not at all in an
\* emergency collection.
CycleEnds(emergency) ==
  /\ gcstate = "callfin"
  /\ tobefnz = {} \/ emergency
  /\ gcstate' = "pause"
  /\ UNCHANGED <<inner, color, currentwhite, lists, stack, heap, final, unswept>>

\* One finalizer: luaC_step calls some in every state but GCSpause.  The object
\* is an ordinary one again and, as argument, on the stack.  When the sweep has
\* reached tobefnz it may stand on the link of the object, which is in allgc from
\* now on: the rest of tobefnz is not swept.
Finalize(o) ==
  /\ gcstate # "pause" /\ apc = "none" /\ o \in tobefnz
  /\ Cardinality(stack) < MaxStack
  /\ tobefnz' = tobefnz \ {o}
  /\ color' = IF gcstate = "sweep" THEN [color EXCEPT ![o] = currentwhite] ELSE color
  /\ stack' = stack \cup {o}
  /\ \/ unswept' = unswept \ {o}
     \/ /\ gcstate = "sweep" /\ unswept \subseteq tobefnz /\ o \notin unswept
        /\ unswept' = {}
  /\ UNCHANGED <<gcstate, inner, currentwhite, lists, heap, finobj>>

\* luaC_fullgc in the middle of a mark phase: sweep all objects back to white
\* (the whites are not exchanged, so nothing is freed) before a new cycle.
luaC_fullgc ==
  /\ gcstate \in {"propagate", "atomic"} /\ apc = "none"
  /\ gcstate' = "sweep"
  /\ unswept' = Allocated \ {Main}
  /\ ForgetLists
  /\ UNCHANGED <<inner, color, currentwhite, stack, heap, final>>

-----------------------------------------------------------------------------
(* The running program.                                                    *)

Runs == apc = "none"
Held == stack \cup {Registry}

luaC_newobj(o) ==
  /\ Runs /\ color[o] = "free" /\ Cardinality(stack) < MaxStack
  /\ color' = [color EXCEPT ![o] = currentwhite]
  /\ stack' = stack \cup {o}
  /\ UNCHANGED <<gcstate, inner, currentwhite, lists, heap, final, unswept>>

\* What can be read from an object: entries (lua_next yields keys), metatable,
\* user value, upvalue.
Refs(o) ==
  ((IF o \in Tables THEN Keys(o) \cup Vals(o) ELSE {})
   \cup (IF o \in Holders THEN {meta[o]} ELSE {})
   \cup (IF o \in Cells THEN {uv[o]} ELSE {})
   \cup (IF o = Main THEN stack ELSE {})) \ {Atom, None}

Load(o) ==
  /\ Runs /\ Cardinality(stack) < MaxStack
  /\ \E h \in Held : o \in Refs(h)
  /\ stack' = stack \cup {o}
  /\ UNCHANGED <<gcstate, inner, color, currentwhite, lists, heap, final, unswept>>

Pop(o) ==
  /\ Runs /\ o \in stack
  /\ stack' = stack \ {o}
  /\ UNCHANGED <<gcstate, inner, color, currentwhite, lists, heap, final, unswept>>

\* Mutants: no barrier; a barrier for tables that are not black as well.
luaC_barrierback_none(t, new) == UNCHANGED <<color, grayagain>>
luaC_barrierback_any(t, new) ==
  IF new \cap White # {}
  THEN color' = [color EXCEPT ![t] = "gray"] /\ grayagain' = grayagain \cup {t}
  ELSE UNCHANGED <<color, grayagain>>

\* A black table that gets a white key or value turns gray again.
luaC_barrierback(t, new) ==
  IF color[t] = "black" /\ new \cap White # {}
  THEN color' = [color EXCEPT ![t] = "gray"] /\ grayagain' = grayagain \cup {t}
  ELSE UNCHANGED <<color, grayagain>>

\* t[k] = v: the value of a key in use is replaced; luaH_newkey adds a new one
\* and has a barrier for the key.
SetEntry(t, k, v) ==
  LET old == {e \in ent[t] : e[1] = k} IN
  /\ Runs /\ t \in Held \cap Tables /\ k \in stack \cup {Atom} /\ v \in stack
  /\ old = {} => Cardinality(ent[t]) < MaxEntries[t]
  /\ ent' = [ent EXCEPT ![t] = (@ \ old) \cup {<<k, v>>}]
  /\ luaC_barrierback(t, IF old = {} THEN {k, v} ELSE {v})
  /\ UNCHANGED <<gcstate, inner, currentwhite, gray, weak, ephemeron, allweak, stack,
                 meta, mode, uv, final, unswept>>

ClearEntry(t, e) ==
  /\ Runs /\ t \in Held \cap Tables /\ e \in ent[t]
  /\ ent' = [ent EXCEPT ![t] = @ \ {e}]
  /\ UNCHANGED <<gcstate, inner, color, currentwhite, lists, stack, meta, mode, uv, final,
                 unswept>>

\* Mutant: no barrier.
luaC_barrier_none(o, v) == UNCHANGED <<color, gray>>

\* An object that is not a table is not made gray again: what it now refers to
\* is marked; while sweeping the object itself is swept.
luaC_barrier(o, v) ==
  IF color[o] = "black" /\ v \in White
  THEN IF keepinvariant THEN mark({v})
       ELSE color' = [color EXCEPT ![o] = currentwhite] /\ gray' = gray
  ELSE UNCHANGED <<color, gray>>

\* lua_setuservalue, lua_setupvalue.
SetCell(c, v) ==
  /\ Runs /\ c \in stack \cap Cells /\ v \in stack \cup {None}
  /\ uv' = [uv EXCEPT ![c] = v]
  /\ luaC_barrier(c, v)
  /\ UNCHANGED <<gcstate, inner, currentwhite, grayagain, weak, ephemeron, allweak, stack,
                 ent, meta, mode, final, unswept>>

\* lua_setmetatable: barrier, then luaC_checkfinalizer if the metatable has
\* __gc, which sweeps the object if a sweep is under way.
lua_setmetatable(h, m, md, gc) ==
  /\ Runs /\ h \in Held \cap Adorned /\ m \in (stack \cap Tables) \cup {None}
  /\ md \in Modes /\ (m = None => md = "strong" /\ ~gc)
  /\ h \notin Tables => md = "strong"
  /\ gc => h \in Finalizable \ (finobj \cup tobefnz)
  /\ meta' = [meta EXCEPT ![h] = m]
  /\ mode' = [t \in Tables |-> IF t = h THEN md ELSE mode[t]]
  /\ IF gc /\ gcstate = "sweep"
     THEN color' = [color EXCEPT ![h] = currentwhite] /\ gray' = gray
     ELSE luaC_barrier(h, m)
  /\ finobj' = IF gc THEN finobj \cup {h} ELSE finobj
  /\ UNCHANGED <<gcstate, inner, currentwhite, grayagain, weak, ephemeron, allweak, stack,
                 ent, uv, tobefnz, unswept>>

-----------------------------------------------------------------------------
Init ==
  /\ gcstate = "pause" /\ apc = "none" /\ currentwhite = "w0"
  /\ color = [o \in Objs |-> IF o \in {Main, Registry} THEN "w0" ELSE "free"]
  /\ gray = {} /\ grayagain = {} /\ weak = {} /\ ephemeron = {} /\ allweak = {}
  /\ pass = {} /\ changed = FALSE /\ orig = [weak |-> {}, allweak |-> {}]
  /\ stack = {} /\ ent = [t \in Tables |-> {}] /\ mode = [t \in Tables |-> "strong"]
  /\ meta = [h \in Holders |-> None] /\ uv = [c \in Cells |-> None]
  /\ finobj = {} /\ tobefnz = {} /\ unswept = {}

Collector ==
  \/ restartcollection \/ Propagate \/ AtomicStep \/ PropagateAll
  \/ AtomicBegin \/ AtomicGrayAgain \/ BeginConverge \/ PassEnds
  \/ \E t \in Tables : traverseephemeron(t)
  \/ AtomicClear \/ AtomicEnd
  \/ \E o \in Objs : Sweep(o)
  \/ SweepEnds \/ \E emergency \in BOOLEAN : CycleEnds(emergency)
  \/ luaC_fullgc

Mutator ==
  \/ \E o \in Values : luaC_newobj(o) \/ Load(o) \/ Pop(o) \/ Finalize(o)
  \/ \E t \in Tables, k \in Values \cup {Atom}, v \in Values : SetEntry(t, k, v)
  \/ \E t \in Tables : \E e \in ent[t] : ClearEntry(t, e)
  \/ \E c \in Cells, v \in Values \cup {None} : SetCell(c, v)
  \/ \E h \in Holders, m \in Tables \cup {None}, md \in Modes, gc \in BOOLEAN :
       lua_setmetatable(h, m, md, gc)

Next == Collector \/ Mutator

Spec == Init /\ [][Next]_vars

-----------------------------------------------------------------------------
(* Properties.                                                             *)

TypeOK ==
  /\ gcstate \in {"pause", "propagate", "atomic", "insideatomic", "sweep", "callfin"}
  /\ apc \in {"none", "propagateall", "remark", "again", "converge1", "clear", "resurrect",
              "converge2", "finish"}
  /\ gcstate = "insideatomic" <=> apc \notin {"none", "propagateall"}
  /\ apc = "propagateall" => gcstate = "atomic"
  /\ color \in [Objs -> {"free", "w0", "w1", "gray", "black"}]
  /\ currentwhite \in {"w0", "w1"}
  /\ gray \subseteq Objs \ (Strings \cup Udata) /\ grayagain \subseteq Tables \cup {Main}
  /\ weak \subseteq Tables /\ ephemeron \subseteq Tables /\ allweak \subseteq Tables
  /\ pass \subseteq Tables /\ changed \in BOOLEAN
  /\ orig \in [weak : SUBSET Tables, allweak : SUBSET Tables]
  /\ stack \subseteq Values
  /\ ent \in [Tables -> SUBSET ((Values \cup {Atom}) \X Values)]
  /\ meta \in [Holders -> (Tables \cap Values) \cup {None}] /\ mode \in [Tables -> Modes]
  /\ uv \in [Cells -> Values \cup {None}]
  /\ finobj \subseteq Holders /\ tobefnz \subseteq Holders
  /\ unswept \subseteq Objs \ {Main}

\* Objects that are neither free nor waiting to be freed.
Alive == {o \in Objs : color[o] \notin {"free", otherwhite}}

\* No living object, no stack slot and no pending finalizer refers to memory
\* that is free or that the sweep is about to free.
NoDangling ==
  /\ {Main, Registry} \cup finobj \cup tobefnz \subseteq Alive
  /\ \A o \in Alive : Refs(o) \subseteq Alive

\* lgc.h: "a black object can never point to a white one" while marking.
BlackNeverToWhite ==
  keepinvariant => \A o \in Objs : color[o] = "black" => Refs(o) \cap White = {}

\* Every list threads its elements through the same 'gclist' field, so an object
\* on two lists would tie them together.
OneGrayList ==
  keepinvariant =>
    \A a, b \in {"gray", "grayagain", "weak", "ephemeron", "allweak", "pass"} :
      a # b => LET list == [gray |-> gray, grayagain |-> grayagain, weak |-> weak,
                            ephemeron |-> ephemeron, allweak |-> allweak, pass |-> pass]
               IN list[a] \cap list[b] = {}

\* What an object keeps alive by itself once W are the objects not marked.
StrongRefs(o) ==
  IF o \notin Tables \/ mode[o] = "strong" THEN Refs(o)
  ELSE ({meta[o]} \cup (IF mode[o] = "v" THEN Keys(o) ELSE {})
        \cup (Keys(o) \cap Strings)
        \cup (IF mode[o] = "k" THEN EphemeronVals(o, White) ELSE {})) \ {Atom, None}

\* lgc.c, in atomic(): "at this point, all strongly accessible objects are
\* marked": the roots are, and with an object all it keeps alive.
StronglyAccessibleMarked ==
  apc = "clear" =>
    /\ {Main, Registry} \cap White = {}
    /\ \A o \in Allocated \ White : StrongRefs(o) \cap White = {}

\* An object is taken out of every weak value before it is handed to its
\* finalizer, except in tables that are themselves only resurrected by one.
FinalizedLeaveWeakValues ==
  [][apc = "clear" /\ apc' = "resurrect" =>
       \A t \in Allocated \cap Tables : t \notin White /\ mode[t] \in {"v", "kv"} =>
         {e[2] : e \in ent'[t]} \cap (tobefnz' \ tobefnz) = {}]_vars
=============================================================================
