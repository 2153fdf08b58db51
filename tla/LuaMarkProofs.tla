--------------------------- MODULE LuaMarkProofs ---------------------------
(***************************************************************************)
(* Theorems about LuaMark, for every set of objects and every bound.       *)
(***************************************************************************)
EXTENDS LuaMark, TLAPS

Colors == {"free", "w0", "w1", "gray", "black"}

\* Marking colors white objects only, and grays no string and no userdata.
LEMMA MarkFacts ==
  ASSUME color \in [Objs -> Colors], NEW S
  PROVE  /\ Marked(S) \in [Objs -> Colors]
         /\ Grayed(S) \subseteq White \ (Strings \cup Udata)
         /\ \A o \in Objs \ White : Marked(S)[o] = color[o]
         /\ \A o \in Grayed(S) : Marked(S)[o] = "gray"
<1>1. Reach(S) \subseteq White /\ White \subseteq Objs
  BY DEF Reach, White
<1>2. Marked(S) \in [Objs -> Colors]
  BY DEF Marked, Colors
<1>3. Grayed(S) \subseteq White \ (Strings \cup Udata)
  BY <1>1 DEF Grayed
<1>4. \A o \in Objs \ White : Marked(S)[o] = color[o]
  BY <1>1 DEF Marked
<1>5. \A o \in Grayed(S) : Marked(S)[o] = "gray"
  BY <1>1 DEF Marked, Grayed
<1>6. QED
  BY <1>2, <1>3, <1>4, <1>5

\* Traversing one gray object keeps the types of colors and lists.
LEMMA PropagateType ==
  ASSUME TypeOK, NEW o \in gray, propagatemark(o)
  PROVE  /\ color' \in [Objs -> Colors]
         /\ gray' \subseteq Objs \ (Strings \cup Udata) /\ grayagain' \subseteq Tables \cup {Main}
         /\ weak' \subseteq Tables /\ ephemeron' \subseteq Tables /\ allweak' \subseteq Tables
<1>1. /\ color \in [Objs -> Colors] /\ gray \subseteq Objs \ (Strings \cup Udata)
      /\ grayagain \subseteq Tables \cup {Main} /\ weak \subseteq Tables
      /\ ephemeron \subseteq Tables /\ allweak \subseteq Tables
  BY DEF TypeOK, Colors
<1>2. \A S : /\ Marked(S) \in [Objs -> Colors]
             /\ Grayed(S) \subseteq Objs \ (Strings \cup Udata)
  BY <1>1, MarkFacts DEF White
<1>3. CASE o \in Tables /\ traversetable(o)
  <2> DEFINE S  == TableMarks(o, AfterMeta(o)) \cup {meta[o]}
             to == ListOf(o, AfterMeta(o))
  <2>1. /\ color' = [Marked(S) EXCEPT ![o] = IF mode[o] = "strong" THEN "black" ELSE "gray"]
        /\ gray' = (gray \ {o}) \cup Grayed(S)
        /\ grayagain' = Linked(grayagain, "grayagain", o, to)
        /\ weak'      = Linked(weak, "weak", o, to)
        /\ ephemeron' = Linked(ephemeron, "ephemeron", o, to)
        /\ allweak'   = Linked(allweak, "allweak", o, to)
    BY <1>3 DEF traversetable
  <2> HIDE DEF S, to
  <2>2. color' \in [Objs -> Colors]
    BY <1>2, <2>1 DEF Colors
  <2>3. QED
    BY <1>1, <1>2, <1>3, <2>1, <2>2 DEF Linked
<1>4. CASE o \in CClosures /\ traverseCclosure(o)
  <2>1. /\ color' = [Marked({uv[o]}) EXCEPT ![o] = "black"]
        /\ gray' = (gray \ {o}) \cup Grayed({uv[o]})
        /\ UNCHANGED <<grayagain, weak, ephemeron, allweak>>
    BY <1>4 DEF traverseCclosure
  <2>2. color' \in [Objs -> Colors]
    BY <1>2, <2>1 DEF Colors
  <2>3. QED
    BY <1>1, <1>2, <2>1, <2>2
<1>5. CASE o = Main /\ traversethread
  BY <1>1, <1>2, <1>5 DEF traversethread
<1>6. QED
  BY <1>3, <1>4, <1>5 DEF propagatemark

\* The initial state has the types.
LEMMA TypeInit == Init => TypeOK
<1> SUFFICES ASSUME Init PROVE TypeOK
  OBVIOUS
<1>1. {Main, Registry} \subseteq Objs
  BY ObjectsAssumption DEF Objs
<1>2. mode \in [Tables -> Modes] /\ meta \in [Holders -> (Tables \cap Values) \cup {None}]
      /\ uv \in [Cells -> Values \cup {None}]
  BY ModesAssumption DEF Init
<1>3. ent \in [Tables -> SUBSET ((Values \cup {Atom}) \X Values)]
  BY DEF Init
<1>4. color \in [Objs -> {"free", "w0", "w1", "gray", "black"}]
  BY DEF Init
<1>5. QED
  BY <1>1, <1>2, <1>3, <1>4 DEF Init, TypeOK

\* Every step of the collector keeps the types.
LEMMA TypeCollector ==
  ASSUME TypeOK, Collector
  PROVE  TypeOK'
<1>1. /\ color \in [Objs -> Colors] /\ gray \subseteq Objs \ (Strings \cup Udata)
      /\ grayagain \subseteq Tables \cup {Main}
      /\ weak \subseteq Tables /\ ephemeron \subseteq Tables /\ allweak \subseteq Tables
      /\ ent \in [Tables -> SUBSET ((Values \cup {Atom}) \X Values)]
  BY DEF TypeOK, Colors
<1>2. \A S : /\ Marked(S) \in [Objs -> Colors]
             /\ Grayed(S) \subseteq Objs \ (Strings \cup Udata)
  BY <1>1, MarkFacts DEF White
<1>3. Tables \cup {Main} \subseteq Objs \ (Strings \cup Udata)
  BY ObjectsAssumption DEF Objs
<1> USE DEF TypeOK, Colors
<1>4. CASE restartcollection
  BY <1>2, <1>4 DEF restartcollection, inner, heap, final
<1>5. CASE Propagate
  BY <1>5, PropagateType DEF Propagate, inner, heap, final
<1>6. CASE PropagateAll
  BY <1>6, PropagateType DEF PropagateAll, inner, heap, final
<1>7. CASE AtomicStep \/ AtomicBegin
  BY <1>1, <1>2, <1>7 DEF AtomicStep, AtomicBegin, mark, lists, heap, final
<1>8. CASE AtomicGrayAgain
  BY <1>1, <1>3, <1>8 DEF AtomicGrayAgain, heap, final
<1>9. CASE BeginConverge
  BY <1>9 DEF BeginConverge, NextPass, heap, final
<1>10. CASE PassEnds
  BY <1>10 DEF PassEnds, NextPass, heap, final
<1>11. ASSUME NEW t \in Tables, traverseephemeron(t) PROVE TypeOK'
  <2>1. color' \in [Objs -> Colors] /\ gray' \subseteq Objs \ (Strings \cup Udata)
    BY <1>1, <1>2, <1>11 DEF traverseephemeron, mark
  <2>2. ephemeron' \subseteq Tables /\ allweak' \subseteq Tables /\ pass' \subseteq Tables
        /\ changed' \in BOOLEAN
    BY <1>11 DEF traverseephemeron, Linked
  <2>3. QED
    BY <1>11, <2>1, <2>2 DEF traverseephemeron, heap, final
<1>12. CASE AtomicClear
  <2>1. color' \in [Objs -> Colors] /\ gray' \subseteq Objs \ (Strings \cup Udata)
    BY <1>1, <1>2, <1>12 DEF AtomicClear, mark
  <2>2. ent' \in [Tables -> SUBSET ((Values \cup {Atom}) \X Values)]
    BY <1>1, <1>12 DEF AtomicClear, WithoutVals
  <2>3. finobj' \subseteq Holders /\ tobefnz' \subseteq Holders
        /\ orig' \in [weak : SUBSET Tables, allweak : SUBSET Tables]
    BY <1>12 DEF AtomicClear
  <2>4. QED
    BY <1>12, <2>1, <2>2, <2>3 DEF AtomicClear
<1>13. CASE AtomicEnd
  <2>1. color' \in [Objs -> Colors]
    BY <1>2, <1>13 DEF AtomicEnd
  <2>2. ent' \in [Tables -> SUBSET ((Values \cup {Atom}) \X Values)]
    BY <1>1, <1>13 DEF AtomicEnd, WithoutVals, WithoutKeys
  <2>3. currentwhite' \in {"w0", "w1"} /\ unswept' \subseteq Objs \ {Main}
        /\ orig' \in [weak : SUBSET Tables, allweak : SUBSET Tables]
    BY <1>13 DEF AtomicEnd, otherwhite, Allocated
  <2>4. QED
    BY <1>13, <2>1, <2>2, <2>3 DEF AtomicEnd, ForgetLists, final
<1>14. ASSUME NEW o \in Objs, Sweep(o) PROVE TypeOK'
  <2>1. color' \in [Objs -> Colors]
    BY <1>1, <1>14 DEF Sweep
  <2>2. ent' \in [Tables -> SUBSET ((Values \cup {Atom}) \X Values)]
    BY <1>1, <1>14 DEF Sweep, heap
  <2>3. /\ mode' \in [Tables -> Modes] /\ uv' \in [Cells -> Values \cup {None}]
        /\ meta' \in [Holders -> (Tables \cap Values) \cup {None}]
    BY <1>14, ModesAssumption DEF Sweep, heap
  <2>4. QED
    BY <1>14, <2>1, <2>2, <2>3 DEF Sweep, inner, lists, final
<1>15. CASE SweepEnds
  BY <1>15 DEF SweepEnds, inner, lists, heap, final
<1>16. ASSUME NEW e \in BOOLEAN, CycleEnds(e) PROVE TypeOK'
  BY <1>16 DEF CycleEnds, inner, lists, heap, final
<1>17. CASE luaC_fullgc
  BY <1>17 DEF luaC_fullgc, inner, ForgetLists, Allocated, heap, final
<1> HIDE DEF TypeOK
<1>18. QED
  BY <1>4, <1>5, <1>6, <1>7, <1>8, <1>9, <1>10, <1>11, <1>12, <1>13, <1>14, <1>15, <1>16,
     <1>17 DEF Collector

\* Every step of the program keeps the types.
LEMMA TypeMutator ==
  ASSUME TypeOK, Mutator
  PROVE  TypeOK'
<1>1. /\ color \in [Objs -> Colors] /\ gray \subseteq Objs \ (Strings \cup Udata)
      /\ grayagain \subseteq Tables \cup {Main} /\ stack \subseteq Values
      /\ ent \in [Tables -> SUBSET ((Values \cup {Atom}) \X Values)]
      /\ currentwhite \in {"w0", "w1"}
  BY DEF TypeOK, Colors
<1>2. \A S : /\ Marked(S) \in [Objs -> Colors]
             /\ Grayed(S) \subseteq Objs \ (Strings \cup Udata)
  BY <1>1, MarkFacts DEF White
<1>3. ASSUME NEW o, NEW v, luaC_barrier(o, v)
      PROVE  color' \in [Objs -> Colors] /\ gray' \subseteq Objs \ (Strings \cup Udata)
  BY <1>1, <1>2, <1>3 DEF luaC_barrier, mark, Colors
<1>4. ASSUME NEW t \in Tables, NEW new, luaC_barrierback(t, new)
      PROVE  color' \in [Objs -> Colors] /\ grayagain' \subseteq Tables \cup {Main}
  BY <1>1, <1>4 DEF luaC_barrierback, Colors
<1> USE DEF TypeOK, Colors
<1>5. ASSUME NEW o \in Values, luaC_newobj(o) PROVE TypeOK'
  BY <1>5 DEF luaC_newobj, inner, lists, heap, final
<1>6. ASSUME NEW o \in Values, Load(o) \/ Pop(o) PROVE TypeOK'
  BY <1>6 DEF Load, Pop, inner, lists, heap, final
<1>7. ASSUME NEW o \in Values, Finalize(o) PROVE TypeOK'
  <2>1. color' \in [Objs -> Colors] /\ unswept' \subseteq Objs \ {Main}
    BY <1>1, <1>7 DEF Finalize
  <2>2. QED
    BY <1>7, <2>1 DEF Finalize, inner, lists, heap
<1>8. ASSUME NEW t \in Tables, NEW k \in Values \cup {Atom}, NEW v \in Values, SetEntry(t, k, v)
      PROVE  TypeOK'
  <2>1. color' \in [Objs -> Colors] /\ grayagain' \subseteq Tables \cup {Main}
    BY <1>4, <1>8 DEF SetEntry
  <2>2. ent' \in [Tables -> SUBSET ((Values \cup {Atom}) \X Values)]
    BY <1>1, <1>8 DEF SetEntry
  <2>3. QED
    BY <1>8, <2>1, <2>2 DEF SetEntry, inner, final
<1>9. ASSUME NEW t \in Tables, NEW e \in ent[t], ClearEntry(t, e) PROVE TypeOK'
  <2>1. ent' \in [Tables -> SUBSET ((Values \cup {Atom}) \X Values)]
    BY <1>1, <1>9 DEF ClearEntry
  <2>2. QED
    BY <1>9, <2>1 DEF ClearEntry, inner, lists, final
<1>10. ASSUME NEW c \in Cells, NEW v \in Values \cup {None}, SetCell(c, v) PROVE TypeOK'
  <2>1. color' \in [Objs -> Colors] /\ gray' \subseteq Objs \ (Strings \cup Udata)
    BY <1>3, <1>10 DEF SetCell
  <2>2. QED
    BY <1>10, <2>1 DEF SetCell, inner, final
<1>11. ASSUME NEW h \in Holders, NEW m \in Tables \cup {None}, NEW md \in Modes,
              NEW gc \in BOOLEAN, lua_setmetatable(h, m, md, gc)
       PROVE  TypeOK'
  <2>1. color' \in [Objs -> Colors] /\ gray' \subseteq Objs \ (Strings \cup Udata)
    BY <1>1, <1>3, <1>11 DEF lua_setmetatable
  <2>2. /\ meta' \in [Holders -> (Tables \cap Values) \cup {None}]
        /\ mode' \in [Tables -> Modes] /\ finobj' \subseteq Holders
    BY <1>1, <1>11 DEF lua_setmetatable
  <2>3. QED
    BY <1>11, <2>1, <2>2 DEF lua_setmetatable, inner
<1> HIDE DEF TypeOK
<1>12. QED
  BY <1>5, <1>6, <1>7, <1>8, <1>9, <1>10, <1>11 DEF Mutator

\* The type invariant of LuaMark.
THEOREM TypeCorrect == Spec => []TypeOK
<1>1. TypeOK /\ [Next]_vars => TypeOK'
  <2> SUFFICES ASSUME TypeOK, [Next]_vars PROVE TypeOK'
    OBVIOUS
  <2>1. CASE UNCHANGED vars
    BY <2>1 DEF TypeOK, vars, inner, lists, heap, final
  <2>2. QED
    BY <2>1, TypeCollector, TypeMutator DEF Next
<1>2. QED
  BY <1>1, TypeInit, PTL DEF Spec

-----------------------------------------------------------------------------
(* Gray lists.  While marking, what is on a list is gray, and what is put   *)
(* on one was white, or has just left another list, or was black.          *)

Disjoint ==
  /\ gray \cap grayagain = {} /\ gray \cap weak = {} /\ gray \cap ephemeron = {}
  /\ gray \cap allweak = {} /\ gray \cap pass = {}
  /\ grayagain \cap weak = {} /\ grayagain \cap ephemeron = {}
  /\ grayagain \cap allweak = {} /\ grayagain \cap pass = {}
  /\ weak \cap ephemeron = {} /\ weak \cap allweak = {} /\ weak \cap pass = {}
  /\ ephemeron \cap allweak = {} /\ ephemeron \cap pass = {} /\ allweak \cap pass = {}

Listed == gray \cup grayagain \cup weak \cup ephemeron \cup allweak \cup pass

ListInv ==
  /\ keepinvariant => Disjoint /\ \A o \in Listed : color[o] = "gray"
  /\ apc \notin {"converge1", "converge2"} => pass = {}

\* The pairwise form is what OneGrayList says of any two of the lists.
LEMMA DisjointIsOneList ==
  ASSUME Disjoint
  PROVE  \A a, b \in {"gray", "grayagain", "weak", "ephemeron", "allweak", "pass"} :
           a # b => LET list == [gray |-> gray, grayagain |-> grayagain, weak |-> weak,
                                 ephemeron |-> ephemeron, allweak |-> allweak, pass |-> pass]
                    IN list[a] \cap list[b] = {}
BY DEF Disjoint

\* Visiting a gray object: it leaves 'gray' for at most one list.
LEMMA PropagateLists ==
  ASSUME TypeOK, ListInv, keepinvariant, NEW o \in gray, propagatemark(o), pass' = pass
  PROVE  Disjoint' /\ \A x \in Listed' : color'[x] = "gray"
<1>1. /\ Disjoint /\ \A x \in Listed : color[x] = "gray"
      /\ Listed \subseteq Objs /\ o \in Objs /\ color \in [Objs -> Colors]
  <2>1. Listed \subseteq Objs
    BY DEF TypeOK, Listed, Objs
  <2>2. gray \subseteq Listed
    BY DEF Listed
  <2>3. color \in [Objs -> Colors]
    BY DEF TypeOK, Colors
  <2>4. Disjoint /\ \A x \in Listed : color[x] = "gray"
    BY DEF ListInv
  <2>5. QED
    BY <2>1, <2>2, <2>3, <2>4
<1>2. \A x \in Listed : x \notin White
  BY <1>1 DEF White
<1>3. \A S : /\ Marked(S) \in [Objs -> Colors] /\ Grayed(S) \subseteq White
             /\ Grayed(S) \subseteq Objs
             /\ \A x \in Listed : Marked(S)[x] = "gray"
             /\ \A x \in Grayed(S) : Marked(S)[x] = "gray"
  BY <1>1, <1>2, MarkFacts DEF White
<1>4. \A S : Grayed(S) \cap Listed = {}
  BY <1>2, <1>3
<1>5. CASE o \in Tables /\ traversetable(o)
  <2> DEFINE S  == TableMarks(o, AfterMeta(o)) \cup {meta[o]}
             to == ListOf(o, AfterMeta(o))
  <2>1. /\ color' = [Marked(S) EXCEPT ![o] = IF mode[o] = "strong" THEN "black" ELSE "gray"]
        /\ gray' = (gray \ {o}) \cup Grayed(S)
        /\ grayagain' = Linked(grayagain, "grayagain", o, to)
        /\ weak'      = Linked(weak, "weak", o, to)
        /\ ephemeron' = Linked(ephemeron, "ephemeron", o, to)
        /\ allweak'   = Linked(allweak, "allweak", o, to)
    BY <1>5 DEF traversetable
  <2>2. mode[o] = "strong" => to = "nolist"
    BY DEF ListOf
  <2> HIDE DEF S, to
  <2>3. Grayed(S) \cap Listed = {} /\ o \in Listed /\ o \notin Grayed(S)
    BY <1>4 DEF Listed
  <2>4. Disjoint'
    <3>1. /\ grayagain' \subseteq grayagain \cup {o} /\ weak' \subseteq weak \cup {o}
          /\ ephemeron' \subseteq ephemeron \cup {o} /\ allweak' \subseteq allweak \cup {o}
          /\ gray' \subseteq (gray \ {o}) \cup Grayed(S)
      BY <2>1 DEF Linked
    <3>2. /\ o \in grayagain' => to = "grayagain"
          /\ o \in weak' => to = "weak"
          /\ o \in ephemeron' => to = "ephemeron"
          /\ o \in allweak' => to = "allweak"
          /\ o \notin gray' /\ o \notin pass
      BY <1>1, <2>1, <2>3 DEF Linked, Disjoint
    <3>3. /\ Grayed(S) \cap grayagain = {} /\ Grayed(S) \cap weak = {} /\ Grayed(S) \cap ephemeron = {}
          /\ Grayed(S) \cap allweak = {} /\ Grayed(S) \cap pass = {}
      BY <2>3 DEF Listed
    <3>4. /\ gray' \cap grayagain' = {} /\ gray' \cap weak' = {} /\ gray' \cap ephemeron' = {}
          /\ gray' \cap allweak' = {} /\ gray' \cap pass = {}
      BY <1>1, <3>1, <3>2, <3>3 DEF Disjoint
    <3>5. /\ grayagain' \cap weak' = {} /\ grayagain' \cap ephemeron' = {}
          /\ grayagain' \cap allweak' = {} /\ grayagain' \cap pass = {}
      BY <1>1, <3>1, <3>2 DEF Disjoint
    <3>6. /\ weak' \cap ephemeron' = {} /\ weak' \cap allweak' = {} /\ weak' \cap pass = {}
          /\ ephemeron' \cap allweak' = {} /\ ephemeron' \cap pass = {} /\ allweak' \cap pass = {}
      BY <1>1, <3>1, <3>2 DEF Disjoint
    <3>7. QED
      BY <3>4, <3>5, <3>6 DEF Disjoint
  <2>5. Listed' \subseteq Listed \cup Grayed(S)
    BY <2>1, <2>3 DEF Listed, Linked
  <2>6. mode[o] = "strong" => o \notin Listed'
    BY <1>1, <2>1, <2>2, <2>3 DEF Listed, Linked, Disjoint
  <2>7. \A x \in Listed' : color'[x] = "gray"
    BY <1>1, <1>3, <2>1, <2>5, <2>6
  <2>8. QED
    BY <2>4, <2>7
<1>6. CASE o \in CClosures /\ traverseCclosure(o)
  <2>1. /\ color' = [Marked({uv[o]}) EXCEPT ![o] = "black"]
        /\ gray' = (gray \ {o}) \cup Grayed({uv[o]})
        /\ UNCHANGED <<grayagain, weak, ephemeron, allweak>>
    BY <1>6 DEF traverseCclosure
  <2>2. Grayed({uv[o]}) \cap Listed = {} /\ o \notin Grayed({uv[o]})
    BY <1>4 DEF Listed
  <2>3. Disjoint' /\ o \notin Listed' /\ Listed' \subseteq Listed \cup Grayed({uv[o]})
    BY <1>1, <2>1, <2>2 DEF Disjoint, Listed
  <2>4. ASSUME NEW x \in Listed' PROVE color'[x] = "gray"
    <3>1. x # o /\ x \in Objs /\ x \in Listed \cup Grayed({uv[o]})
      BY <1>1, <1>3, <2>3, <2>4
    <3>2. Marked({uv[o]})[x] = "gray"
      BY <1>3, <3>1
    <3>3. QED
      BY <1>3, <2>1, <3>1, <3>2
  <2>5. QED
    BY <2>3, <2>4
<1>7. CASE o = Main /\ traversethread
  <2>1. /\ color' = Marked(stack)
        /\ gray' = (gray \ {Main}) \cup Grayed(stack)
        /\ grayagain' = grayagain \cup {Main}
        /\ UNCHANGED <<weak, ephemeron, allweak>>
    BY <1>7 DEF traversethread
  <2>2. Grayed(stack) \cap Listed = {} /\ Main \in gray
    BY <1>4, <1>7
  <2>3. Disjoint' /\ Listed' \subseteq Listed \cup Grayed(stack)
    BY <1>1, <2>1, <2>2 DEF Disjoint, Listed
  <2>4. QED
    BY <1>3, <2>1, <2>3
<1>8. QED
  BY <1>5, <1>6, <1>7 DEF propagatemark

\* Marking anything while the other lists stay.
LEMMA MarkLists ==
  ASSUME TypeOK, Disjoint, \A x \in Listed : color[x] = "gray", NEW S, mark(S),
         UNCHANGED <<grayagain, weak, ephemeron, allweak, pass>>
  PROVE  Disjoint' /\ \A x \in Listed' : color'[x] = "gray"
<1>1. Listed \subseteq Objs /\ color \in [Objs -> Colors]
  BY DEF TypeOK, Listed, Objs, Colors
<1>2. \A x \in Listed : x \in Objs \ White
  BY <1>1 DEF White
<1>3. /\ Grayed(S) \subseteq White /\ \A x \in Listed : Marked(S)[x] = "gray"
      /\ \A x \in Grayed(S) : Marked(S)[x] = "gray"
  BY <1>1, <1>2, MarkFacts
<1>4. Grayed(S) \cap Listed = {}
  BY <1>2, <1>3
<1>5. Disjoint' /\ Listed' \subseteq Listed \cup Grayed(S)
  BY <1>4 DEF mark, Disjoint, Listed
<1>6. color' = Marked(S)
  BY DEF mark
<1>7. QED
  BY <1>3, <1>5, <1>6

\* Every step of the collector keeps the gray lists disjoint and gray.
LEMMA ListCollector ==
  ASSUME TypeOK, ListInv, Collector
  PROVE  ListInv'
<1>1. /\ keepinvariant => Disjoint /\ \A x \in Listed : color[x] = "gray"
      /\ apc \notin {"converge1", "converge2"} => pass = {}
      /\ gcstate = "insideatomic" <=> apc \notin {"none", "propagateall"}
      /\ apc = "propagateall" => gcstate = "atomic"
  BY DEF ListInv, TypeOK
<1>2. ASSUME Disjoint', \A x \in Listed' : color'[x] = "gray",
             apc' \notin {"converge1", "converge2"} => pass' = {}
      PROVE  ListInv'
  BY <1>2 DEF ListInv
<1>3. ASSUME gcstate' \notin {"propagate", "atomic", "insideatomic"},
             apc' \notin {"converge1", "converge2"}, pass' = {}
      PROVE  ListInv'
  BY <1>3 DEF ListInv, keepinvariant
<1>4. CASE restartcollection
  <2> DEFINE S == {Main, Registry} \cup tobefnz
  <2>1. /\ color' = Marked(S) /\ gray' = Grayed(S) /\ grayagain' = {} /\ weak' = {}
        /\ ephemeron' = {} /\ allweak' = {} /\ pass' = {} /\ apc' = "none"
    BY <1>1, <1>4 DEF restartcollection, inner
  <2> HIDE DEF S
  <2>2. \A x \in Grayed(S) : Marked(S)[x] = "gray"
    BY MarkFacts DEF TypeOK, Colors
  <2>3. Disjoint' /\ Listed' = Grayed(S)
    BY <2>1 DEF Disjoint, Listed
  <2>4. QED
    BY <1>2, <2>1, <2>2, <2>3
<1>5. CASE Propagate \/ PropagateAll
  <2>1. /\ keepinvariant /\ pass' = pass /\ apc' = apc
        /\ \E o \in gray : propagatemark(o)
    BY <1>1, <1>5 DEF Propagate, PropagateAll, inner, keepinvariant
  <2>2. QED
    BY <1>1, <1>2, <2>1, PropagateLists
<1>5a. CASE AtomicStep
  <2>1. UNCHANGED <<gray, grayagain, weak, ephemeron, allweak, pass, color>>
        /\ keepinvariant /\ apc' = "propagateall" /\ pass = {}
    BY <1>1, <1>5a DEF AtomicStep, lists, keepinvariant
  <2>2. Disjoint' /\ Listed' = Listed
    BY <1>1, <2>1 DEF Disjoint, Listed
  <2>3. QED
    BY <1>1, <1>2, <2>1, <2>2
<1>6. CASE AtomicBegin
  <2>1. keepinvariant /\ mark({Main, Registry}) /\ pass = {} /\ apc' = "remark"
        /\ UNCHANGED <<grayagain, weak, ephemeron, allweak, pass>>
    BY <1>1, <1>6 DEF AtomicBegin, keepinvariant
  <2>2. QED
    BY <1>1, <1>2, <2>1, MarkLists
<1>7. CASE AtomicGrayAgain
  <2>1. /\ keepinvariant /\ gray = {} /\ gray' = grayagain /\ grayagain' = {} /\ pass = {}
        /\ apc' = "again" /\ UNCHANGED <<weak, ephemeron, allweak, pass, color>>
    BY <1>1, <1>7 DEF AtomicGrayAgain, keepinvariant
  <2>2. Disjoint' /\ Listed' \subseteq Listed
    BY <1>1, <2>1 DEF Disjoint, Listed
  <2>3. QED
    BY <1>1, <1>2, <2>1, <2>2
<1>8. CASE BeginConverge \/ (PassEnds /\ changed)
  <2>1. /\ keepinvariant /\ pass = {} /\ pass' = ephemeron /\ ephemeron' = {}
        /\ apc' \in {"converge1", "converge2"}
        /\ UNCHANGED <<gray, grayagain, weak, allweak, color>>
    BY <1>1, <1>8 DEF BeginConverge, PassEnds, NextPass, keepinvariant
  <2>2. Disjoint' /\ Listed' \subseteq Listed
    BY <1>1, <2>1 DEF Disjoint, Listed
  <2>3. QED
    BY <1>1, <1>2, <2>1, <2>2
<1>9. CASE PassEnds /\ ~changed
  <2>1. /\ keepinvariant /\ pass = {}
        /\ UNCHANGED <<gray, grayagain, weak, ephemeron, allweak, pass, color>>
    BY <1>1, <1>9 DEF PassEnds, keepinvariant
  <2>2. Disjoint' /\ Listed' = Listed
    BY <1>1, <2>1 DEF Disjoint, Listed
  <2>3. QED
    BY <1>1, <1>2, <2>1, <2>2
<1>10. ASSUME NEW t \in Tables, traverseephemeron(t) PROVE ListInv'
  <2> DEFINE S  == (Keys(t) \cap Strings) \cup EphemeronVals(t, White)
             to == ListOf(t, White)
  <2>1. /\ keepinvariant /\ t \in pass /\ pass' = pass \ {t} /\ apc' = apc
        /\ apc \in {"converge1", "converge2"}
        /\ color' = Marked(S) /\ gray' = gray \cup Grayed(S)
        /\ ephemeron' = Linked(ephemeron, "ephemeron", t, to)
        /\ allweak' = Linked(allweak, "allweak", t, to)
        /\ UNCHANGED <<grayagain, weak>>
    BY <1>1, <1>10 DEF traverseephemeron, mark, keepinvariant
  <2> HIDE DEF S, to
  <2>2. Listed \subseteq Objs /\ color \in [Objs -> Colors]
    BY DEF TypeOK, Listed, Objs, Colors
  <2>3. \A x \in Listed : x \in Objs \ White
    BY <1>1, <2>1, <2>2 DEF White
  <2>4. /\ Grayed(S) \subseteq White /\ \A x \in Listed : Marked(S)[x] = "gray"
        /\ \A x \in Grayed(S) : Marked(S)[x] = "gray"
    BY <1>1, <2>1, <2>2, <2>3, MarkFacts
  <2>5. /\ Grayed(S) \cap grayagain = {} /\ Grayed(S) \cap weak = {} /\ Grayed(S) \cap ephemeron = {}
        /\ Grayed(S) \cap allweak = {} /\ Grayed(S) \cap pass = {}
    BY <2>3, <2>4 DEF Listed
  <2>6. /\ ephemeron' \subseteq ephemeron \cup {t} /\ allweak' \subseteq allweak \cup {t}
        /\ t \in ephemeron' => t \notin allweak'
    BY <1>1, <2>1 DEF Linked, Disjoint
  <2>7. Disjoint'
    BY <1>1, <2>1, <2>5, <2>6 DEF Disjoint
  <2>8. Listed' \subseteq Listed \cup Grayed(S)
    BY <2>1, <2>6 DEF Listed
  <2>9. QED
    BY <1>2, <2>1, <2>4, <2>7, <2>8
<1>11. CASE AtomicClear
  <2>1. /\ keepinvariant /\ \E S : mark(S)
        /\ apc' = "resurrect" /\ pass = {} /\ UNCHANGED <<grayagain, weak, ephemeron, allweak, pass>>
    BY <1>1, <1>11 DEF AtomicClear, keepinvariant
  <2>2. QED
    BY <1>1, <1>2, <2>1, MarkLists
<1>12. CASE AtomicEnd \/ luaC_fullgc
  BY <1>1, <1>3, <1>12 DEF AtomicEnd, luaC_fullgc, inner
<1>13. CASE SweepEnds \/ (\E o \in Objs : Sweep(o)) \/ (\E e \in BOOLEAN : CycleEnds(e))
  BY <1>1, <1>3, <1>13 DEF SweepEnds, Sweep, CycleEnds, inner
<1>14. CASE BeginConverge \/ PassEnds
  BY <1>8, <1>9, <1>14
<1>15. CASE \E t \in Tables : traverseephemeron(t)
  BY <1>10, <1>15
<1>16. QED
  BY <1>4, <1>5, <1>6, <1>7, <1>11, <1>12, <1>13, <1>14, <1>15, <1>5a, Zenon DEF Collector

\* So does every step of the program: only the barriers touch a gray list, and
\* they link an object that was black or white before.
LEMMA ListMutator ==
  ASSUME TypeOK, ListInv, Mutator
  PROVE  ListInv'
<1>1. /\ keepinvariant => Disjoint /\ \A x \in Listed : color[x] = "gray"
      /\ apc \notin {"converge1", "converge2"} => pass = {}
  BY DEF ListInv
<1>2. gcstate' = gcstate /\ apc' = apc /\ pass' = pass /\ weak' = weak /\ ephemeron' = ephemeron
      /\ allweak' = allweak
  BY DEF Mutator, luaC_newobj, Load, Pop, Finalize, SetEntry, ClearEntry, SetCell,
     lua_setmetatable, inner, lists
<1>3. /\ keepinvariant' = keepinvariant
      /\ Listed \subseteq Objs /\ color \in [Objs -> Colors]
  BY <1>2 DEF keepinvariant, TypeOK, Listed, Objs, Colors
<1>4. ASSUME keepinvariant => Disjoint' /\ \A x \in Listed' : color'[x] = "gray"
      PROVE  ListInv'
  BY <1>1, <1>2, <1>3, <1>4 DEF ListInv
<1>5. ASSUME gray' = gray, grayagain' = grayagain,
             keepinvariant => \A x \in Listed : color'[x] = color[x]
      PROVE  ListInv'
  <2>1. Disjoint' = Disjoint /\ Listed' = Listed
    BY <1>2, <1>5 DEF Disjoint, Listed
  <2>2. QED
    BY <1>1, <1>4, <1>5, <2>1
<1>6. ASSUME NEW o \in Values, luaC_newobj(o) PROVE ListInv'
  BY <1>1, <1>3, <1>5, <1>6 DEF luaC_newobj, lists
<1>7. ASSUME NEW o \in Values, Load(o) \/ Pop(o) PROVE ListInv'
  BY <1>5, <1>7 DEF Load, Pop, lists
<1>8. ASSUME NEW o \in Values, Finalize(o) PROVE ListInv'
  BY <1>5, <1>8 DEF Finalize, lists, keepinvariant
<1>9. ASSUME NEW t \in Tables, NEW e \in ent[t], ClearEntry(t, e) PROVE ListInv'
  BY <1>5, <1>9 DEF ClearEntry, lists
<1>10. ASSUME NEW t \in Tables, NEW k \in Values \cup {Atom}, NEW v \in Values, SetEntry(t, k, v)
       PROVE  ListInv'
  <2>1. gray' = gray /\ \E new : luaC_barrierback(t, new)
    BY <1>10 DEF SetEntry
  <2>2. CASE UNCHANGED <<color, grayagain>>
    BY <1>5, <2>1, <2>2
  <2>3. CASE /\ color[t] = "black" /\ color' = [color EXCEPT ![t] = "gray"]
             /\ grayagain' = grayagain \cup {t}
    <3> SUFFICES ASSUME keepinvariant
                 PROVE  Disjoint' /\ \A x \in Listed' : color'[x] = "gray"
      BY <1>4
    <3>1. t \notin Listed /\ t \in Objs
      BY <1>1, <2>3 DEF Objs
    <3>2. t \notin gray /\ t \notin weak /\ t \notin ephemeron /\ t \notin allweak /\ t \notin pass
      BY <3>1 DEF Listed
    <3>3. Disjoint'
      BY <1>1, <1>2, <2>1, <2>3, <3>2 DEF Disjoint
    <3>4. Listed' = Listed \cup {t}
      BY <1>2, <2>1, <2>3 DEF Listed
    <3>5. QED
      BY <1>1, <1>3, <2>3, <3>1, <3>3, <3>4
  <2>4. QED
    BY <2>1, <2>2, <2>3 DEF luaC_barrierback
<1>11. ASSUME NEW o, NEW v, luaC_barrier(o, v), grayagain' = grayagain
       PROVE  ListInv'
  <2>1. CASE UNCHANGED <<color, gray>>
    BY <1>5, <1>11, <2>1
  <2>2. CASE keepinvariant /\ mark({v})
    BY <1>1, <1>2, <1>4, <1>11, <2>2, MarkLists
  <2>3. CASE ~keepinvariant
    BY <1>4, <2>3
  <2>4. QED
    BY <1>11, <2>1, <2>2, <2>3 DEF luaC_barrier
<1>12. ASSUME NEW c \in Cells, NEW v \in Values \cup {None}, SetCell(c, v) PROVE ListInv'
  BY <1>11, <1>12 DEF SetCell
<1>13. ASSUME NEW h \in Holders, NEW m \in Tables \cup {None}, NEW md \in Modes,
              NEW gc \in BOOLEAN, lua_setmetatable(h, m, md, gc)
       PROVE  ListInv'
  <2>1. CASE gcstate = "sweep"
    BY <1>4, <2>1 DEF keepinvariant
  <2>2. CASE gcstate # "sweep"
    BY <1>11, <1>13, <2>2 DEF lua_setmetatable
  <2>3. QED
    BY <2>1, <2>2
<1>14. QED
  BY <1>6, <1>7, <1>8, <1>9, <1>10, <1>12, <1>13 DEF Mutator

\* While marking, no object is on two gray lists: they all use the object's one
\* 'gclist' field, so a second list would cut the first (lgc.c linkgclist).
THEOREM GrayListsAreDisjoint == Spec => []OneGrayList
<1>1. Init => ListInv
  BY DEF Init, ListInv, keepinvariant
<1>2. TypeOK /\ ListInv /\ [Next]_vars => ListInv'
  <2> SUFFICES ASSUME TypeOK, ListInv, [Next]_vars PROVE ListInv'
    OBVIOUS
  <2>1. CASE UNCHANGED vars
    BY <2>1 DEF ListInv, Disjoint, Listed, keepinvariant, vars, inner, lists
  <2>2. QED
    BY <2>1, ListCollector, ListMutator DEF Next
<1>3. ListInv => OneGrayList
  BY DisjointIsOneList DEF ListInv, OneGrayList
<1>4. QED
  BY <1>1, <1>2, <1>3, TypeCorrect, PTL DEF Spec

-----------------------------------------------------------------------------
(***************************************************************************)
(* The collector of LuaMark is safe: nothing reachable is ever freed, and  *)
(* a black object never refers to a white one.                             *)
(*                                                                         *)
(* The theorems are about programs without all-weak tables and with at     *)
(* most one object waiting for its finalizer.  Both limits are the code's: *)
(* without the first, StronglyAccessibleMarked fails; without the second,  *)
(* an object may be left black by the sweep.                               *)
(***************************************************************************)

NoAllWeak == "kv" \notin Modes
OneWaits  == \A a, b \in tobefnz : a = b

\* The objects not visited yet: those of 'gray', and until the atomic phase takes
\* them those of 'grayagain'.
Pending == gray \cup (IF apc \in {"none", "propagateall", "remark"} THEN grayagain ELSE {})

\* What has been visited refers to nothing white...
Complete(o) == Refs(o) \cap White = {}

\* ...unless it is a weak table that is on a list for the rest of the phase.
WeakLeft(o) ==
  /\ o \in weak /\ mode[o] = "v"
  /\ meta[o] \notin White /\ Keys(o) \cap White = {}
EphemeronLeft(o) ==
  /\ o \in ephemeron \cup pass /\ mode[o] = "k"
  /\ meta[o] \notin White /\ Keys(o) \cap Strings \cap White = {}
AllLeft(o) ==
  /\ o \in allweak /\ mode[o] = "k"
  /\ meta[o] \notin White /\ Keys(o) \cap Strings \cap White = {} /\ Vals(o) \cap White = {}
Settled(o) == Complete(o) \/ (o \in Tables /\ (WeakLeft(o) \/ EphemeronLeft(o) \/ AllLeft(o)))

\* The mark phase.  While the program runs, a gray object will be visited again.
Rooted  == {Main, Registry} \cup tobefnz \subseteq Objs \ White
Visited == \A o \in Allocated \ White : o \in Pending \/ Settled(o)
Waiting ==
  /\ weak = {} /\ ephemeron = {} /\ allweak = {}
  /\ \A o \in Objs : color[o] = "gray" => o \in Pending
MarkInv ==
  keepinvariant => Rooted /\ Visited /\ (apc = "none" => Waiting)

\* The atomic phase.
Converged == \A t \in ephemeron : EphemeronVals(t, White) \cap White = {}
AtomicInv ==
  /\ apc \in {"clear", "finish"} => gray = {} /\ Converged
  /\ apc \in {"converge1", "converge2"} /\ ~changed => gray = {} /\ Converged
  /\ apc \in {"resurrect", "converge2", "finish"} =>
       /\ finobj \cap White = {}
       /\ \A t \in orig.weak : Complete(t)

\* Colors in the other phases, and memory.
ColorInv ==
  /\ \A o \in Objs \ {Main} : color[o] = "free" => Refs(o) = {}
  /\ color[Main] # "black"
  /\ gcstate # "sweep" => \A o \in Objs : color[o] # otherwhite
  /\ gcstate \in {"pause", "callfin"} => \A o \in Objs : color[o] \in {"free", currentwhite}
  /\ gcstate = "sweep" => \A o \in (Objs \ {Main}) \ unswept : color[o] \in {"free", currentwhite}

SafeInv == TypeOK /\ ListInv /\ NoDangling /\ MarkInv /\ AtomicInv /\ ColorInv

-----------------------------------------------------------------------------
(* Marking.                                                                *)

\* Reach(S) is closed: with a userdata, what it takes along.
LEMMA ReachClosed ==
  ASSUME NEW S
  PROVE  /\ Reach(S) \subseteq White /\ S \cap White \subseteq Reach(S)
         /\ \A u \in Reach(S) : Along(u) \subseteq Reach(S)
<1>1. Reach(S) \subseteq White /\ S \cap White \subseteq Reach(S)
  BY DEF Reach
<1>2. ASSUME NEW u \in Reach(S), NEW x \in Along(u) PROVE x \in Reach(S)
  <2>1. x \in White
    BY <1>2 DEF Along
  <2>2. ASSUME NEW D \in SUBSET White, S \cap White \subseteq D, \A w \in D : Along(w) \subseteq D
        PROVE  x \in D
    <3>1. u \in D
      BY <1>2, <2>2 DEF Reach
    <3>2. QED
      BY <1>2, <2>2, <3>1
  <2>3. QED
    BY <2>1, <2>2 DEF Reach
<1>3. QED
  BY <1>1, <1>2

\* The objects of the heap are of one kind each.
LEMMA Kinds ==
  /\ Main \in Objs /\ Registry \in Objs /\ Registry \in Tables /\ Registry # Main
  /\ Main \notin Tables /\ Main \notin Holders /\ Main \notin Cells /\ Main \notin Strings
  /\ \A s \in Strings : s \notin Tables /\ s \notin Holders /\ s \notin Cells /\ s # Main
  /\ \A u \in Udata : u \notin Tables /\ u \in Holders /\ u \in Cells /\ u # Main
  /\ \A c \in CClosures : c \notin Tables /\ c \notin Holders /\ c \in Cells /\ c # Main
  /\ \A t \in Tables : t \in Holders /\ t \notin Cells /\ t # Main
  /\ Atom \notin Objs /\ None \notin Objs
  /\ Tables \subseteq Objs /\ Udata \subseteq Objs /\ CClosures \subseteq Objs /\ Strings \subseteq Objs
BY ObjectsAssumption DEF Objs, Holders, Cells

\* What each kind of object refers to.
LEMMA RefsOfKinds ==
  /\ Refs(Main) = stack \ {Atom, None}
  /\ \A s \in Strings : Refs(s) = {}
  /\ \A u \in Udata : Refs(u) = {meta[u], uv[u]} \ {Atom, None}
  /\ \A c \in CClosures : Refs(c) = {uv[c]} \ {Atom, None}
  /\ \A t \in Tables : Refs(t) = (Keys(t) \cup Vals(t) \cup {meta[t]}) \ {Atom, None}
<1>1. Refs(Main) = stack \ {Atom, None}
  BY Kinds DEF Refs
<1>2. \A s \in Strings : Refs(s) = {}
  BY Kinds DEF Refs
<1>3. \A u \in Udata : Refs(u) = {meta[u], uv[u]} \ {Atom, None}
  BY Kinds DEF Refs
<1>4. \A c \in CClosures : Refs(c) = {uv[c]} \ {Atom, None}
  BY Kinds DEF Refs
<1>5. \A t \in Tables : Refs(t) = (Keys(t) \cup Vals(t) \cup {meta[t]}) \ {Atom, None}
  BY Kinds DEF Refs
<1>6. QED
  BY <1>1, <1>2, <1>3, <1>4, <1>5

\* What marking S changes: the white objects of Reach(S) are white no more; each
\* is gray and linked, or complete.
LEMMA MarkEffect ==
  ASSUME color \in [Objs -> Colors], NEW S
  PROVE  /\ {o \in Objs : Marked(S)[o] \in {"w0", "w1"}} = White \ Reach(S)
         /\ \A o \in Objs : Marked(S)[o] = "free" <=> color[o] = "free"
         /\ \A o \in Objs : Marked(S)[o] = "gray" => color[o] = "gray" \/ o \in Grayed(S)
         /\ \A o \in Objs : o \notin Reach(S) => Marked(S)[o] = color[o]
         /\ \A o \in Reach(S) : o \in Grayed(S) \/ Refs(o) \cap (White \ Reach(S)) = {}
         /\ color[Main] # "black" => Marked(S)[Main] # "black"
<1>1. Reach(S) \subseteq White /\ White \subseteq Objs
      /\ \A u \in Reach(S) : Along(u) \subseteq Reach(S)
  BY ReachClosed DEF White
<1>2. {o \in Objs : Marked(S)[o] \in {"w0", "w1"}} = White \ Reach(S)
  BY <1>1 DEF Marked, White
<1>3. \A o \in Objs : Marked(S)[o] = "free" <=> color[o] = "free"
  BY <1>1 DEF Marked, White
<1>4. \A o \in Objs : Marked(S)[o] = "gray" => color[o] = "gray" \/ o \in Grayed(S)
  BY <1>1 DEF Marked, Grayed
<1>5. \A o \in Objs : o \notin Reach(S) => Marked(S)[o] = color[o]
  BY DEF Marked
<1>6. ASSUME NEW o \in Reach(S), o \notin Grayed(S)
      PROVE  Refs(o) \cap (White \ Reach(S)) = {}
  <2>1. o \in Strings \cup Udata
    BY <1>6 DEF Grayed
  <2>2. CASE o \in Strings
    BY <2>2, RefsOfKinds
  <2>3. CASE o \in Udata
    BY <1>1, <2>3, RefsOfKinds DEF Along
  <2>4. QED
    BY <2>1, <2>2, <2>3
<1>7. color[Main] # "black" => Marked(S)[Main] # "black"
  BY Kinds DEF Marked
<1>8. QED
  BY <1>2, <1>3, <1>4, <1>5, <1>6, <1>7

\* Marking more reaches more.
LEMMA ReachGrows ==
  ASSUME NEW S, NEW T, S \subseteq T
  PROVE  Reach(S) \subseteq Reach(T)
BY DEF Reach

\* What has been visited stays settled while marking goes on and it stays on its
\* list.
LEMMA SettledStays ==
  ASSUME NEW o, Settled(o), UNCHANGED <<stack, heap>>, White' \subseteq White,
         o \in weak => o \in weak', o \in allweak => o \in allweak',
         o \in ephemeron \cup pass => o \in ephemeron' \cup pass'
  PROVE  Settled(o)'
<1>1. Refs(o)' = Refs(o) /\ Keys(o)' = Keys(o) /\ Vals(o)' = Vals(o)
      /\ meta' = meta /\ mode' = mode
  BY DEF Refs, Keys, Vals, heap
<1>2. Complete(o) => Complete(o)'
  BY <1>1 DEF Complete
<1>3. WeakLeft(o) => WeakLeft(o)'
  BY <1>1 DEF WeakLeft
<1>4. EphemeronLeft(o) => EphemeronLeft(o)'
  BY <1>1 DEF EphemeronLeft
<1>5. AllLeft(o) => AllLeft(o)'
  BY <1>1 DEF AllLeft
<1>6. QED
  BY <1>2, <1>3, <1>4, <1>5 DEF Settled

\* A table that was visited has to be visited again or is settled.
LEMMA TableVisited ==
  ASSUME TypeOK, NoAllWeak, NEW t \in Tables, color[t] = "gray", traversetable(t),
         UNCHANGED <<stack, heap, pass, apc>>
  PROVE  t \in Pending' \/ Settled(t)'
<1> DEFINE W  == AfterMeta(t)
           S  == TableMarks(t, W) \cup {meta[t]}
           to == ListOf(t, W)
<1>1. /\ color' = [Marked(S) EXCEPT ![t] = IF mode[t] = "strong" THEN "black" ELSE "gray"]
      /\ grayagain' = Linked(grayagain, "grayagain", t, to)
      /\ weak'      = Linked(weak, "weak", t, to)
      /\ ephemeron' = Linked(ephemeron, "ephemeron", t, to)
      /\ allweak'   = Linked(allweak, "allweak", t, to)
  BY DEF traversetable
<1>2. /\ color \in [Objs -> Colors] /\ mode[t] \in {"strong", "k", "v"}
      /\ gcstate = "propagate" => apc = "none"
  BY ModesAssumption DEF TypeOK, Colors, NoAllWeak
<1>3. White' = White \ Reach(S)
  <2> HIDE DEF S
  <2>1. t \in Objs /\ t \notin White
    BY <1>2, Kinds DEF White
  <2>2. /\ {o \in Objs : Marked(S)[o] \in {"w0", "w1"}} = White \ Reach(S)
        /\ Marked(S) \in [Objs -> Colors]
    BY <1>2, MarkEffect, MarkFacts
  <2>3. QED
    BY <1>1, <2>1, <2>2 DEF White
<1>4. S \cap White' = {} /\ meta[t] \notin White'
  BY <1>3, ReachClosed
<1>5. White' \subseteq W /\ W \subseteq White
  <2>1. Reach({meta[t]}) \subseteq Reach(S)
    BY ReachGrows
  <2>2. QED
    BY <1>3, <2>1 DEF AfterMeta
<1>6. /\ Refs(t)' = (Keys(t) \cup Vals(t) \cup {meta[t]}) \ {Atom, None}
      /\ Keys(t)' = Keys(t) /\ Vals(t)' = Vals(t) /\ mode' = mode /\ meta' = meta /\ apc' = apc
  <2>1. Refs(t)' = Refs(t)
    BY DEF Refs, Keys, Vals, heap
  <2>2. QED
    BY <2>1, RefsOfKinds DEF Keys, Vals, heap
<1>7. ASSUME (Keys(t) \cup Vals(t)) \cap White' = {} PROVE Settled(t)'
  BY <1>4, <1>6, <1>7 DEF Settled, Complete
<1>8. CASE mode[t] = "strong"
  BY <1>4, <1>7, <1>8 DEF TableMarks
<1>9. CASE mode[t] # "strong" /\ gcstate = "propagate"
  <2>1. to = "grayagain"
    BY <1>2, <1>9 DEF ListOf
  <2>2. QED
    BY <1>1, <1>2, <1>6, <1>9, <2>1 DEF Linked, Pending
<1>10. CASE mode[t] = "v" /\ gcstate # "propagate"
  <2>1. Keys(t) \cap White' = {}
    BY <1>4, <1>10 DEF TableMarks, WeakValueMarks
  <2>2. CASE Vals(t) \cap Cleared(W) # {}
    <3>1. to = "weak"
      BY <1>10, <2>2 DEF ListOf
    <3>2. QED
      BY <1>1, <1>4, <1>6, <1>10, <2>1, <3>1 DEF Linked, Settled, WeakLeft
  <2>3. CASE Vals(t) \cap Cleared(W) = {}
    <3>1. Vals(t) \cap Strings \subseteq S
      BY <1>10, <2>3 DEF TableMarks, WeakValueMarks
    <3>2. Vals(t) \cap White' = {}
      BY <1>4, <1>5, <2>3, <3>1 DEF Cleared
    <3>3. QED
      BY <1>7, <2>1, <3>2
  <2>4. QED
    BY <2>2, <2>3
<1>11. CASE mode[t] = "k" /\ gcstate # "propagate"
  <2>1. (Keys(t) \cap Strings) \cup EphemeronVals(t, W) \subseteq S
    BY <1>11 DEF TableMarks
  <2>2. Keys(t) \cap Strings \cap White' = {} /\ EphemeronVals(t, W) \cap White' = {}
    BY <1>4, <2>1
  <2>3. CASE HasWhiteWhite(t, W)
    <3>1. to = "ephemeron"
      BY <1>11, <2>3 DEF ListOf
    <3>2. QED
      BY <1>1, <1>4, <1>6, <1>11, <2>2, <3>1 DEF Linked, Settled, EphemeronLeft
  <2>4. CASE ~HasWhiteWhite(t, W)
    <3>1. Vals(t) \cap White' = {}
      BY <1>5, <2>2, <2>4 DEF HasWhiteWhite, EphemeronVals, Vals
    <3>2. CASE WhiteKeyed(t, W) # {}
      <4>1. to = "allweak"
        BY <1>11, <2>4, <3>2 DEF ListOf
      <4>2. QED
        BY <1>1, <1>4, <1>6, <1>11, <2>2, <3>1, <4>1 DEF Linked, Settled, AllLeft
    <3>3. CASE WhiteKeyed(t, W) = {}
      <4>1. Keys(t) \cap White' = {}
        BY <1>5, <2>2, <3>3 DEF WhiteKeyed, Cleared, Keys
      <4>2. QED
        BY <1>7, <3>1, <4>1
    <3>4. QED
      BY <3>2, <3>3
  <2>5. QED
    BY <2>3, <2>4
<1>12. QED
  BY <1>2, <1>8, <1>9, <1>10, <1>11

\* Marking S leaves all objects visited but those of X, which a traversal takes
\* off the gray list.
LEMMA OthersVisited ==
  ASSUME TypeOK, Visited, NEW S, NEW X, UNCHANGED <<stack, heap>>,
         White' = White \ Reach(S), Allocated' = Allocated,
         (Pending \ X) \cup Grayed(S) \subseteq Pending',
         weak \subseteq weak', allweak \subseteq allweak',
         (ephemeron \cup pass) \ X \subseteq ephemeron' \cup pass'
  PROVE  \A x \in (Allocated \ White)' \ X : x \in Pending' \/ Settled(x)'
<1> SUFFICES ASSUME NEW x \in Allocated \ (White \ Reach(S)), x \notin X
             PROVE  x \in Pending' \/ Settled(x)'
  OBVIOUS
<1>1. CASE x \in Reach(S)
  <2>1. x \in Grayed(S) \/ Refs(x) \cap (White \ Reach(S)) = {}
    BY <1>1, MarkEffect DEF TypeOK, Colors
  <2>2. Refs(x)' = Refs(x)
    BY DEF Refs, Keys, Vals, heap
  <2>3. QED
    BY <2>1, <2>2 DEF Settled, Complete
<1>2. CASE x \notin White /\ x \in Pending
  BY <1>2
<1>3. CASE x \notin White /\ Settled(x)
  BY <1>3, SettledStays
<1>4. QED
  BY <1>1, <1>2, <1>3 DEF Visited

\* Traversing a gray object.
LEMMA PropagateVisits ==
  ASSUME TypeOK, NoAllWeak, ListInv, keepinvariant, MarkInv, ColorInv, NEW o \in gray,
         propagatemark(o), UNCHANGED <<stack, heap, pass, apc>>
  PROVE  /\ Visited' /\ White' \subseteq White /\ Allocated' = Allocated /\ color'[Main] # "black"
         /\ \A x \in Objs : color'[x] \in {"w0", "w1"} => color'[x] = color[x]
         /\ gcstate = "propagate" =>
              /\ UNCHANGED <<weak, ephemeron, allweak>>
              /\ \A x \in Objs : color'[x] = "gray" => x \in gray' \cup grayagain'
<1>1. /\ color \in [Objs -> Colors] /\ color[o] = "gray" /\ o \in Objs /\ Visited
      /\ color[Main] # "black" /\ (apc = "none" => Waiting)
      /\ gcstate = "propagate" => apc = "none"
  <2>1. color \in [Objs -> Colors] /\ (gcstate = "propagate" => apc = "none") /\ gray \subseteq Objs
    BY DEF TypeOK, Colors
  <2>2. color[o] = "gray"
    BY DEF ListInv, Listed
  <2>3. QED
    BY <2>1, <2>2 DEF MarkInv, ColorInv
<1>2. /\ o \notin White /\ o \in Allocated
  BY <1>1 DEF White, Allocated
<1>3. ASSUME NEW S, NEW c \in {"gray", "black"}, color' = [Marked(S) EXCEPT ![o] = c],
             o = Main => c = "gray"
      PROVE  /\ White' = White \ Reach(S) /\ Allocated' = Allocated /\ color'[Main] # "black"
             /\ \A x \in Objs : color'[x] \in {"w0", "w1"} => color'[x] = color[x]
             /\ \A x \in Objs : color'[x] = "gray" => color[x] = "gray" \/ x \in Grayed(S)
  <2>1. /\ {x \in Objs : Marked(S)[x] \in {"w0", "w1"}} = White \ Reach(S)
        /\ Marked(S) \in [Objs -> Colors]
        /\ \A x \in Objs : Marked(S)[x] = "free" <=> color[x] = "free"
        /\ \A x \in Objs : Marked(S)[x] = "gray" => color[x] = "gray" \/ x \in Grayed(S)
        /\ Marked(S)[Main] # "black"
    BY <1>1, MarkEffect, MarkFacts
  <2>2. \A x \in Objs : Marked(S)[x] \in {"w0", "w1"} => Marked(S)[x] = color[x]
    BY <1>1, <2>1, MarkEffect DEF White
  <2>3. White' = White \ Reach(S)
    BY <1>1, <1>2, <1>3, <2>1 DEF White
  <2>4. QED
    BY <1>1, <1>2, <1>3, <2>1, <2>2, <2>3, Kinds DEF Allocated
<1>4. CASE o \in Tables /\ traversetable(o)
  <2> DEFINE S  == TableMarks(o, AfterMeta(o)) \cup {meta[o]}
             to == ListOf(o, AfterMeta(o))
             c  == IF mode[o] = "strong" THEN "black" ELSE "gray"
  <2>1. /\ color' = [Marked(S) EXCEPT ![o] = c]
        /\ gray' = (gray \ {o}) \cup Grayed(S)
        /\ grayagain' = Linked(grayagain, "grayagain", o, to)
        /\ weak'      = Linked(weak, "weak", o, to)
        /\ ephemeron' = Linked(ephemeron, "ephemeron", o, to)
        /\ allweak'   = Linked(allweak, "allweak", o, to)
    BY <1>4 DEF traversetable
  <2>2. o \in Pending' \/ Settled(o)'
    BY <1>1, <1>4, TableVisited
  <2>3. gcstate = "propagate" => IF mode[o] = "strong" THEN to = "nolist" ELSE to = "grayagain"
    BY <1>4, ModesAssumption DEF ListOf, TypeOK, NoAllWeak
  <2>4. c \in {"gray", "black"} /\ (mode[o] # "strong" => c = "gray")
        /\ (mode[o] = "strong" => c = "black")
    OBVIOUS
  <2>5. o # Main
    BY <1>4, Kinds
  <2> HIDE DEF S, to, c
  <2>6. /\ White' = White \ Reach(S) /\ Allocated' = Allocated /\ color'[Main] # "black"
        /\ \A x \in Objs : color'[x] \in {"w0", "w1"} => color'[x] = color[x]
        /\ \A x \in Objs : color'[x] = "gray" => color[x] = "gray" \/ x \in Grayed(S)
    BY <1>3, <2>1, <2>4, <2>5
  <2>7. Visited'
    <3>1. \A x \in (Allocated \ White)' \ {o} : x \in Pending' \/ Settled(x)'
      BY <1>1, <2>1, <2>6, OthersVisited DEF Linked, Pending
    <3>2. QED
      BY <2>2, <3>1 DEF Visited
  <2>8. ASSUME gcstate = "propagate", NEW x \in Objs, color'[x] = "gray"
        PROVE  x \in gray' \cup grayagain'
    <3>1. color[x] = "gray" => x \in gray \cup grayagain
      BY <1>1, <2>8 DEF Waiting, Pending
    <3>2. x = o => mode[o] # "strong"
      BY <1>1, <2>1, <2>4, <2>8, MarkFacts
    <3>3. QED
      BY <2>1, <2>3, <2>6, <2>8, <3>1, <3>2 DEF Linked
  <2>9. gcstate = "propagate" => UNCHANGED <<weak, ephemeron, allweak>>
    BY <2>1, <2>3 DEF Linked
  <2>10. QED
    BY <2>6, <2>7, <2>8, <2>9
<1>5. CASE o \in CClosures /\ traverseCclosure(o)
  <2>1. /\ color' = [Marked({uv[o]}) EXCEPT ![o] = "black"]
        /\ gray' = (gray \ {o}) \cup Grayed({uv[o]})
        /\ UNCHANGED <<grayagain, weak, ephemeron, allweak>>
    BY <1>5 DEF traverseCclosure
  <2>2. /\ White' = White \ Reach({uv[o]}) /\ Allocated' = Allocated /\ color'[Main] # "black"
        /\ \A x \in Objs : color'[x] \in {"w0", "w1"} => color'[x] = color[x]
        /\ \A x \in Objs : color'[x] = "gray" => color[x] = "gray" \/ x \in Grayed({uv[o]})
    BY <1>3, <1>5, <2>1, Kinds
  <2>3. Settled(o)'
    <3>1. Refs(o)' = Refs(o) /\ Refs(o) \subseteq {uv[o]}
      <4>1. Refs(o)' = Refs(o)
        BY DEF Refs, Keys, Vals, heap
      <4>2. QED
        BY <1>5, <4>1, RefsOfKinds
    <3>2. uv[o] \notin White'
      BY <2>2, ReachClosed
    <3>3. QED
      BY <3>1, <3>2 DEF Settled, Complete
  <2>4. Visited'
    <3>1. \A x \in (Allocated \ White)' \ {o} : x \in Pending' \/ Settled(x)'
      BY <1>1, <2>1, <2>2, OthersVisited DEF Pending
    <3>2. QED
      BY <2>3, <3>1 DEF Visited
  <2>5. ASSUME gcstate = "propagate", NEW x \in Objs, color'[x] = "gray"
        PROVE  x \in gray' \cup grayagain'
    <3>1. color[x] = "gray" => x \in gray \cup grayagain
      BY <1>1, <2>5 DEF Waiting, Pending
    <3>2. x # o
      BY <1>1, <2>1, <2>5, MarkFacts
    <3>3. QED
      BY <2>1, <2>2, <2>5, <3>1, <3>2
  <2>6. QED
    BY <2>1, <2>2, <2>4, <2>5
<1>6. CASE o = Main /\ traversethread
  <2>1. /\ color' = Marked(stack)
        /\ gray' = (gray \ {Main}) \cup Grayed(stack)
        /\ grayagain' = grayagain \cup {Main}
        /\ UNCHANGED <<weak, ephemeron, allweak>>
    BY <1>6 DEF traversethread
  <2>2. Marked(stack)[o] = "gray" /\ Marked(stack) \in [Objs -> Colors]
    BY <1>1, <1>2, MarkFacts
  <2>3. color' = [Marked(stack) EXCEPT ![o] = "gray"]
    BY <2>1, <2>2
  <2>4. /\ White' = White \ Reach(stack) /\ Allocated' = Allocated /\ color'[Main] # "black"
        /\ \A x \in Objs : color'[x] \in {"w0", "w1"} => color'[x] = color[x]
        /\ \A x \in Objs : color'[x] = "gray" => color[x] = "gray" \/ x \in Grayed(stack)
    BY <1>3, <2>3
  <2>5. Settled(o)'
    <3>1. Refs(o)' = Refs(o) /\ Refs(o) \subseteq stack
      <4>1. Refs(o)' = Refs(o)
        BY DEF Refs, Keys, Vals, heap
      <4>2. QED
        BY <1>6, <4>1, RefsOfKinds
    <3>2. stack \cap White' = {}
      BY <2>4, ReachClosed
    <3>3. QED
      BY <3>1, <3>2 DEF Settled, Complete
  <2>6. Visited'
    <3>1. \A x \in (Allocated \ White)' \ {o} : x \in Pending' \/ Settled(x)'
      BY <1>1, <1>6, <2>1, <2>4, OthersVisited DEF Pending
    <3>2. QED
      BY <2>5, <3>1 DEF Visited
  <2>7. gcstate = "propagate" =>
          \A x \in Objs : color'[x] = "gray" => x \in gray' \cup grayagain'
    BY <1>1, <2>1, <2>4 DEF Waiting, Pending
  <2>8. QED
    BY <2>1, <2>4, <2>6, <2>7
<1>7. QED
  BY <1>4, <1>5, <1>6 DEF propagatemark

-----------------------------------------------------------------------------
(* The steps of the collector.                                             *)

\* Outside the sweep an object is alive as long as it is allocated.
LEMMA AliveIsAllocated ==
  ASSUME ColorInv, gcstate # "sweep"
  PROVE  Alive = Allocated
BY DEF ColorInv, Alive, Allocated

\* A step that only marks, or drops references, leaves nothing dangling.
LEMMA MarkStepSafe ==
  ASSUME NoDangling, ColorInv, gcstate # "sweep", keepinvariant',
         currentwhite' = currentwhite, Allocated' = Allocated, color'[Main] # "black",
         \A x \in Objs : color'[x] \in {"w0", "w1"} => color'[x] = color[x],
         currentwhite \in {"w0", "w1"},
         \A x \in Objs : Refs(x)' \subseteq Refs(x),
         (finobj \cup tobefnz)' \subseteq finobj \cup tobefnz
  PROVE  NoDangling' /\ ColorInv'
<1>1. otherwhite' = otherwhite /\ otherwhite \in {"w0", "w1"}
      /\ gcstate' \notin {"pause", "callfin", "sweep"}
  BY DEF otherwhite, keepinvariant
<1>2. ColorInv'
  <2>1. \A x \in Objs : color'[x] = "free" <=> color[x] = "free"
    BY DEF Allocated
  <2>2. \A x \in Objs : color'[x] # otherwhite
    BY <1>1 DEF ColorInv
  <2>3. \A x \in Objs \ {Main} : color'[x] = "free" => Refs(x)' = {}
    BY <2>1 DEF ColorInv
  <2>4. QED
    BY <1>1, <2>2, <2>3 DEF ColorInv
<1>3. Alive = Allocated /\ Alive' = Allocated'
  BY <1>1, <1>2 DEF ColorInv, Alive, Allocated
<1>4. NoDangling'
  <2>1. \A x \in Alive : x \in Objs
    BY DEF Alive
  <2>2. QED
    BY <1>3, <2>1 DEF NoDangling
<1>5. QED
  BY <1>2, <1>4

\* restartcollection marks the roots, and starts with nothing black.
LEMMA RestartSafe ==
  ASSUME SafeInv, restartcollection
  PROVE  NoDangling' /\ MarkInv' /\ AtomicInv' /\ ColorInv'
<1> DEFINE S == {Main, Registry} \cup tobefnz
<1>1. /\ gcstate = "pause" /\ color' = Marked(S) /\ gray' = Grayed(S)
      /\ grayagain' = {} /\ weak' = {} /\ ephemeron' = {} /\ allweak' = {}
      /\ gcstate' = "propagate" /\ apc' = "none" /\ tobefnz' = tobefnz
      /\ UNCHANGED <<currentwhite, stack, heap, final>>
  BY DEF restartcollection, SafeInv, TypeOK, inner, final
<1>2. /\ TypeOK /\ NoDangling /\ ColorInv /\ color \in [Objs -> Colors]
      /\ currentwhite \in {"w0", "w1"} /\ color[Main] # "black"
      /\ \A x \in Objs : color[x] \in {"free", currentwhite}
  BY <1>1 DEF SafeInv, TypeOK, ColorInv, Colors
<1>3. Allocated = White /\ S \subseteq White
  <2>1. Allocated = White
    BY <1>2 DEF Allocated, White
  <2>2. QED
    BY <1>2, <2>1 DEF NoDangling, Alive, Allocated
<1> HIDE DEF S
<1>4. /\ White' = White \ Reach(S) /\ Allocated' = Allocated /\ color'[Main] # "black"
      /\ \A x \in Objs : color'[x] = "gray" => x \in Grayed(S)
      /\ \A x \in Objs : color'[x] \in {"w0", "w1"} => color'[x] = color[x]
      /\ \A x \in Reach(S) : x \in Grayed(S) \/ Refs(x) \cap (White \ Reach(S)) = {}
  BY <1>1, <1>2, MarkEffect DEF White, Allocated
<1>5. \A x : Refs(x)' = Refs(x)
  BY <1>1 DEF Refs, Keys, Vals, heap
<1>6. MarkInv'
  <2>1. Rooted'
    BY <1>1, <1>3, <1>4, ReachClosed DEF Rooted, S, White
  <2>2. Visited'
    BY <1>1, <1>3, <1>4, <1>5 DEF Visited, Pending, Settled, Complete
  <2>3. Waiting'
    BY <1>1, <1>4 DEF Waiting, Pending
  <2>4. QED
    BY <2>1, <2>2, <2>3 DEF MarkInv
<1>7. AtomicInv'
  BY <1>1 DEF AtomicInv
<1>8. NoDangling' /\ ColorInv'
  BY <1>1, <1>2, <1>4, <1>5, MarkStepSafe DEF keepinvariant, final
<1>9. QED
  BY <1>6, <1>7, <1>8

\* propagatemark: what turns black has marked what it refers to, or is on a list for the atomic phase.
LEMMA PropagateSafe ==
  ASSUME SafeInv, NoAllWeak, Propagate \/ PropagateAll
  PROVE  NoDangling' /\ MarkInv' /\ AtomicInv' /\ ColorInv'
<1>1. PICK o \in gray : propagatemark(o)
  BY DEF Propagate, PropagateAll
<1>2. /\ keepinvariant /\ keepinvariant' /\ gcstate # "sweep"
      /\ (apc = "none" => gcstate = "propagate")
      /\ apc' = apc /\ pass' = pass /\ changed' = changed /\ orig' = orig
      /\ UNCHANGED <<currentwhite, stack, heap, finobj, tobefnz>>
  BY DEF Propagate, PropagateAll, SafeInv, TypeOK, inner, final, keepinvariant
<1>3. /\ TypeOK /\ NoDangling /\ MarkInv /\ AtomicInv /\ ColorInv /\ ListInv
      /\ currentwhite \in {"w0", "w1"}
      /\ Rooted /\ (apc = "none" => Waiting)
  BY <1>2 DEF SafeInv, TypeOK, MarkInv
<1>4. /\ Visited' /\ White' \subseteq White /\ Allocated' = Allocated /\ color'[Main] # "black"
      /\ \A x \in Objs : color'[x] \in {"w0", "w1"} => color'[x] = color[x]
      /\ apc = "none" =>
           /\ UNCHANGED <<weak, ephemeron, allweak>>
           /\ \A x \in Objs : color'[x] = "gray" => x \in gray' \cup grayagain'
  BY <1>1, <1>2, <1>3, PropagateVisits
<1>5. \A x : Refs(x)' = Refs(x)
  BY <1>2 DEF Refs, Keys, Vals, heap
<1>6. MarkInv'
  BY <1>2, <1>3, <1>4 DEF MarkInv, Rooted, Waiting, Pending
<1>7. AtomicInv'
  <2>1. apc \notin {"clear", "finish"} /\ ~(apc \in {"converge1", "converge2"} /\ ~changed)
    BY <1>1, <1>3 DEF AtomicInv
  <2>2. apc \in {"resurrect", "converge2"} => \A t \in orig.weak : Complete(t)'
    BY <1>3, <1>4, <1>5 DEF AtomicInv, Complete
  <2>3. apc \in {"resurrect", "converge2"} => finobj' \cap White' = {}
    BY <1>2, <1>3, <1>4 DEF AtomicInv
  <2>4. QED
    BY <1>2, <2>1, <2>2, <2>3 DEF AtomicInv
<1>8. NoDangling' /\ ColorInv'
  BY <1>2, <1>3, <1>4, <1>5, MarkStepSafe
<1>9. QED
  BY <1>6, <1>7, <1>8

\* Steps of the atomic phase that only move tables between lists.
LEMMA ListStepSafe ==
  ASSUME SafeInv, AtomicStep \/ AtomicGrayAgain \/ BeginConverge \/ PassEnds
  PROVE  NoDangling' /\ MarkInv' /\ AtomicInv' /\ ColorInv'
<1>1. /\ TypeOK /\ NoDangling /\ AtomicInv /\ ColorInv /\ ListInv
      /\ gcstate # "sweep" /\ keepinvariant' /\ apc' # "none"
      /\ UNCHANGED <<color, currentwhite, stack, heap, finobj, tobefnz, orig>>
      /\ currentwhite \in {"w0", "w1"}
      /\ Rooted /\ Visited
  BY DEF AtomicStep, AtomicGrayAgain, BeginConverge, PassEnds, SafeInv, TypeOK, MarkInv,
     keepinvariant, final, NextPass
<1>2. White' = White /\ Allocated' = Allocated /\ \A x : Refs(x)' = Refs(x)
  BY <1>1 DEF White, Allocated, Refs, Keys, Vals, heap
<1>3. NoDangling' /\ ColorInv'
  BY <1>1, <1>2, MarkStepSafe DEF ColorInv
<1>4. \A x : Complete(x)' = Complete(x)
  BY <1>2 DEF Complete
<1>5. /\ weak' = weak /\ allweak' = allweak /\ ephemeron' \cup pass' = ephemeron \cup pass
      /\ Pending' = Pending
      /\ apc' \in {"resurrect", "converge2", "finish"} => apc \in {"resurrect", "converge2"}
      /\ apc' \in {"clear", "finish"} => gray' = {} /\ Converged'
      /\ apc' \in {"converge1", "converge2"} /\ ~changed' => gray' = {} /\ Converged'
  <2>1. CASE AtomicStep
    BY <2>1 DEF AtomicStep, lists, Pending
  <2>2. CASE AtomicGrayAgain
    BY <2>2 DEF AtomicGrayAgain, Pending
  <2>3. CASE BeginConverge \/ (PassEnds /\ changed)
    <3>1. /\ gray = {} /\ gray' = {} /\ ephemeron' = {} /\ pass' = ephemeron
          /\ apc \in {"again", "resurrect", "converge1", "converge2"}
          /\ apc' \in {"converge1", "converge2"}
          /\ apc' = "converge2" => apc \in {"resurrect", "converge2"}
          /\ weak' = weak /\ allweak' = allweak
      BY <2>3 DEF BeginConverge, PassEnds, NextPass
    <3>2. pass = {}
      BY <1>1, <2>3 DEF BeginConverge, PassEnds, ListInv
    <3>3. QED
      BY <3>1, <3>2 DEF Pending, Converged
  <2>4. CASE PassEnds /\ ~changed
    <3>1. /\ gray = {} /\ gray' = {} /\ UNCHANGED <<ephemeron, pass, weak, allweak>>
          /\ apc \in {"converge1", "converge2"} /\ apc' \in {"clear", "finish"}
          /\ apc' = "finish" => apc = "converge2"
      BY <2>4 DEF PassEnds
    <3>2. Converged
      BY <1>1, <2>4, <3>1 DEF AtomicInv
    <3>3. Converged'
      BY <1>1, <1>2, <3>1, <3>2 DEF Converged, EphemeronVals, WhiteKeyed, heap
    <3>4. QED
      BY <3>1, <3>3 DEF Pending
  <2>5. QED
    BY <2>1, <2>2, <2>3, <2>4
<1>6. MarkInv'
  <2>1. \A x : Settled(x) => Settled(x)'
    BY <1>1, <1>2, <1>5, SettledStays
  <2>2. Visited' /\ Rooted'
    BY <1>1, <1>2, <1>5, <2>1 DEF Visited, Rooted
  <2>3. QED
    BY <1>1, <2>2 DEF MarkInv
<1>7. AtomicInv'
  BY <1>1, <1>2, <1>4, <1>5 DEF AtomicInv
<1>8. QED
  BY <1>3, <1>6, <1>7

\* AtomicBegin marks what is marked already.
LEMMA AtomicBeginSafe ==
  ASSUME SafeInv, AtomicBegin
  PROVE  NoDangling' /\ MarkInv' /\ AtomicInv' /\ ColorInv'
<1> DEFINE S == {Main, Registry}
<1>1. /\ TypeOK /\ NoDangling /\ ColorInv /\ color \in [Objs -> Colors]
      /\ gcstate # "sweep" /\ keepinvariant' /\ apc = "propagateall" /\ apc' = "remark"
      /\ mark(S) /\ UNCHANGED <<currentwhite, stack, heap, finobj, tobefnz>>
      /\ UNCHANGED <<grayagain, weak, ephemeron, allweak, pass>>
      /\ currentwhite \in {"w0", "w1"} /\ color[Main] # "black"
      /\ Rooted /\ Visited
  BY DEF AtomicBegin, SafeInv, TypeOK, MarkInv, ColorInv, keepinvariant, final, Colors
<1> HIDE DEF S
<1>2. /\ White' = White \ Reach(S) /\ Allocated' = Allocated /\ color'[Main] # "black"
      /\ \A x \in Objs : color'[x] \in {"w0", "w1"} => color'[x] = color[x]
      /\ gray' = gray \cup Grayed(S)
  BY <1>1, MarkEffect DEF mark, White, Allocated
<1>3. \A x : Refs(x)' = Refs(x)
  BY <1>1 DEF Refs, Keys, Vals, heap
<1>4. NoDangling' /\ ColorInv'
  BY <1>1, <1>2, <1>3, MarkStepSafe
<1>5. Visited'
  <2>1. \A x \in (Allocated \ White)' \ {} : x \in Pending' \/ Settled(x)'
    BY <1>1, <1>2, OthersVisited DEF Pending
  <2>2. QED
    BY <2>1 DEF Visited
<1>6. QED
  BY <1>1, <1>2, <1>4, <1>5 DEF MarkInv, AtomicInv, Rooted

\* Nothing is reached from what is not white.
LEMMA ReachNothing ==
  ASSUME NEW S, S \cap White = {}
  PROVE  Reach(S) = {}
BY DEF Reach

\* One ephemeron table.
LEMMA EphemeronSafe ==
  ASSUME SafeInv, NEW t \in Tables, traverseephemeron(t)
  PROVE  NoDangling' /\ MarkInv' /\ AtomicInv' /\ ColorInv'
<1> DEFINE S  == (Keys(t) \cap Strings) \cup EphemeronVals(t, White)
           to == ListOf(t, White)
<1>1. /\ TypeOK /\ NoDangling /\ ColorInv /\ ListInv /\ AtomicInv /\ color \in [Objs -> Colors]
      /\ apc \in {"converge1", "converge2"} /\ apc' = apc /\ gcstate = "insideatomic"
      /\ keepinvariant /\ keepinvariant' /\ gcstate # "sweep"
      /\ gray = {} /\ t \in pass /\ pass' = pass \ {t}
      /\ color' = Marked(S) /\ gray' = gray \cup Grayed(S)
      /\ changed' = (changed \/ EphemeronVals(t, White) \cap White # {})
      /\ ephemeron' = Linked(ephemeron, "ephemeron", t, to)
      /\ allweak' = Linked(allweak, "allweak", t, to)
      /\ UNCHANGED <<currentwhite, grayagain, weak, stack, heap, finobj, tobefnz, orig>>
      /\ currentwhite \in {"w0", "w1"} /\ color[Main] # "black"
      /\ Rooted /\ Visited
  BY DEF traverseephemeron, SafeInv, TypeOK, MarkInv, ColorInv, keepinvariant, final, mark, Colors
<1> HIDE DEF S, to
<1>2. /\ White' = White \ Reach(S) /\ Allocated' = Allocated /\ color'[Main] # "black"
      /\ \A x \in Objs : color'[x] \in {"w0", "w1"} => color'[x] = color[x]
  BY <1>1, MarkEffect DEF White, Allocated
<1>3. /\ \A x : Refs(x)' = Refs(x) /\ Keys(x)' = Keys(x) /\ Vals(x)' = Vals(x)
      /\ mode' = mode /\ meta' = meta
  BY <1>1 DEF Refs, Keys, Vals, heap
<1>4. NoDangling' /\ ColorInv'
  BY <1>1, <1>2, <1>3, MarkStepSafe
<1>5. \/ Complete(t)
      \/ mode[t] = "k" /\ meta[t] \notin White /\ Keys(t) \cap Strings \cap White = {}
  <2>1. t \in Allocated \ White
    BY <1>1, Kinds DEF ListInv, Listed, Allocated, White
  <2>2. t \notin weak /\ t \notin allweak
    BY <1>1 DEF ListInv, Disjoint
  <2>3. Settled(t)
    BY <1>1, <2>1 DEF Visited, Pending
  <2>4. QED
    BY <2>2, <2>3 DEF Settled, WeakLeft, EphemeronLeft, AllLeft
<1>6. Keys(t) \cap Strings \cap White = {}
  BY <1>5, Kinds, RefsOfKinds DEF Complete
<1>7. Settled(t)'
  <2>1. CASE Complete(t)
    BY <1>2, <1>3, <2>1 DEF Complete, Settled
  <2>2. CASE mode[t] = "k" /\ meta[t] \notin White
    <3>1. Keys(t) \cap Strings \cap White' = {} /\ meta[t] \notin White'
      BY <1>2, <1>6, <2>2
    <3>2. CASE HasWhiteWhite(t, White)
      <4>1. to = "ephemeron"
        BY <1>1, <2>2, <3>2 DEF ListOf, to
      <4>2. QED
        BY <1>1, <1>3, <2>2, <3>1, <4>1 DEF Settled, EphemeronLeft, Linked
    <3>3. CASE ~HasWhiteWhite(t, White)
      <4>1. Vals(t) \cap White' = {}
        <5>1. EphemeronVals(t, White) \cap White' = {}
          BY <1>2, ReachClosed DEF S
        <5>2. QED
          BY <1>2, <3>3, <5>1 DEF HasWhiteWhite, EphemeronVals, Vals
      <4>2. CASE WhiteKeyed(t, White) # {}
        <5>1. to = "allweak"
          BY <1>1, <2>2, <3>3, <4>2 DEF ListOf, to
        <5>2. QED
          BY <1>1, <1>3, <2>2, <3>1, <4>1, <5>1 DEF Settled, AllLeft, Linked
      <4>3. CASE WhiteKeyed(t, White) = {}
        <5>1. Keys(t) \cap White' = {}
          BY <1>2, <3>1, <4>3 DEF WhiteKeyed, Cleared, Keys
        <5>2. Refs(t)' \subseteq Keys(t) \cup Vals(t) \cup {meta[t]}
          BY <1>3, RefsOfKinds
        <5>3. QED
          BY <3>1, <4>1, <5>1, <5>2 DEF Settled, Complete
      <4>4. QED
        BY <4>2, <4>3
    <3>4. QED
      BY <3>2, <3>3
  <2>3. QED
    BY <1>5, <2>1, <2>2
<1>8. Visited'
  <2>1. \A x \in (Allocated \ White)' \ {t} : x \in Pending' \/ Settled(x)'
    BY <1>1, <1>2, OthersVisited DEF Pending, Linked
  <2>2. QED
    BY <1>7, <2>1 DEF Visited
<1>9. AtomicInv'
  <2>1. ASSUME ~changed' PROVE gray' = {} /\ Converged'
    <3>1. ~changed /\ EphemeronVals(t, White) \cap White = {} /\ Converged
      BY <1>1, <2>1 DEF AtomicInv
    <3>2. Reach(S) = {}
      BY <1>6, <3>1, ReachNothing DEF S
    <3>3. gray' = {} /\ White' = White
      BY <1>1, <1>2, <3>2 DEF Grayed
    <3>4. \A x : EphemeronVals(x, White)' = EphemeronVals(x, White)
      BY <1>1, <3>3 DEF EphemeronVals, WhiteKeyed, heap
    <3>5. ephemeron' \subseteq ephemeron \cup {t}
      BY <1>1 DEF Linked
    <3>6. Converged'
      BY <3>1, <3>3, <3>4, <3>5 DEF Converged
    <3>7. QED
      BY <3>3, <3>6
  <2>2. apc = "converge2" => finobj' \cap White' = {} /\ \A x \in orig'.weak : Complete(x)'
    BY <1>1, <1>2, <1>3 DEF AtomicInv, Complete
  <2>3. QED
    BY <1>1, <2>1, <2>2 DEF AtomicInv
<1>10. MarkInv'
  BY <1>1, <1>2, <1>8 DEF MarkInv, Rooted
<1>11. QED
  BY <1>4, <1>9, <1>10

\* In "clear" what is marked is settled, and the tables of the lists are marked.
LEMMA ClearFacts ==
  ASSUME SafeInv, apc \in {"clear", "finish"}
  PROVE  /\ gray = {} /\ Converged /\ keepinvariant /\ Rooted
         /\ \A o \in Allocated \ White : Settled(o)
         /\ \A t \in weak \cup allweak \cup ephemeron : t \in Allocated \ White
         /\ pass = {} /\ weak \cap allweak = {} /\ weak \cap ephemeron = {}
         /\ allweak \cap ephemeron = {}
<1>1. keepinvariant /\ apc \notin {"none", "propagateall", "remark"}
  BY DEF SafeInv, TypeOK, keepinvariant
<1>2. gray = {} /\ Converged /\ Rooted /\ Visited /\ pass = {}
  BY <1>1 DEF SafeInv, AtomicInv, MarkInv, ListInv
<1>3. \A o \in Allocated \ White : Settled(o)
  BY <1>1, <1>2 DEF Visited, Pending
<1>4. /\ weak \cap allweak = {} /\ weak \cap ephemeron = {} /\ allweak \cap ephemeron = {}
      /\ \A t \in weak \cup allweak \cup ephemeron : color[t] = "gray"
  BY <1>1 DEF SafeInv, ListInv, Disjoint, Listed
<1>5. \A t \in weak \cup allweak \cup ephemeron : t \in Objs
  BY Kinds DEF SafeInv, TypeOK
<1>6. \A t \in weak \cup allweak \cup ephemeron : t \in Allocated \ White
  BY <1>4, <1>5 DEF Allocated, White
<1>7. QED
  BY <1>1, <1>2, <1>3, <1>4, <1>6

\* Values leave the tables of weak and allweak; what waits for its finalizer is marked.
LEMMA AtomicClearSafe ==
  ASSUME SafeInv, AtomicClear
  PROVE  NoDangling' /\ MarkInv' /\ AtomicInv' /\ ColorInv'
<1> DEFINE tabs  == weak \cup allweak
           strs  == UNION {Vals(t) \cap Strings : t \in tabs}
           dying == finobj \cap (White \ strs)
           S     == strs \cup (tobefnz \cup dying)
<1>1. /\ apc = "clear" /\ apc' = "resurrect"
      /\ ent' = [t \in Tables |-> IF t \in tabs THEN WithoutVals(ent[t], White) ELSE ent[t]]
      /\ orig' = [weak |-> weak, allweak |-> allweak]
      /\ finobj' = finobj \ dying /\ tobefnz' = tobefnz \cup dying
      /\ color' = Marked(S) /\ gray' = gray \cup Grayed(S)
      /\ UNCHANGED <<gcstate, pass, changed, currentwhite, grayagain, weak, ephemeron, allweak,
                     stack, meta, mode, uv, unswept>>
  BY DEF AtomicClear, mark
<1>2. /\ TypeOK /\ NoDangling /\ ColorInv /\ color \in [Objs -> Colors]
      /\ gcstate = "insideatomic" /\ gcstate # "sweep" /\ keepinvariant'
      /\ currentwhite \in {"w0", "w1"} /\ color[Main] # "black"
      /\ finobj \subseteq Holders /\ tobefnz \subseteq Holders
      /\ weak \subseteq Tables /\ allweak \subseteq Tables /\ ephemeron \subseteq Tables
  BY <1>1 DEF SafeInv, TypeOK, ColorInv, keepinvariant, Colors
<1>3. /\ gray = {} /\ Rooted
      /\ \A o \in Allocated \ White : Settled(o)
      /\ \A t \in weak \cup allweak \cup ephemeron : t \in Allocated \ White
      /\ pass = {} /\ weak \cap allweak = {} /\ weak \cap ephemeron = {}
      /\ allweak \cap ephemeron = {}
  BY <1>1, ClearFacts
<1>4. /\ strs \subseteq S /\ tobefnz' \subseteq S
      /\ finobj' \subseteq finobj /\ (finobj \cup tobefnz)' \subseteq finobj \cup tobefnz
      /\ finobj' \cap White \subseteq strs /\ strs \subseteq Strings
      /\ \A t \in tabs : Vals(t) \cap Strings \subseteq strs
  BY <1>1
<1> HIDE DEF S, dying, strs
<1>5. /\ White' = White \ Reach(S) /\ Allocated' = Allocated /\ color'[Main] # "black"
      /\ \A x \in Objs : color'[x] \in {"w0", "w1"} => color'[x] = color[x]
      /\ \A x \in Reach(S) : x \in Grayed(S) \/ Refs(x) \cap (White \ Reach(S)) = {}
  BY <1>1, <1>2, MarkEffect DEF White, Allocated
<1>6. /\ \A t \in Tables : ent'[t] \subseteq ent[t]
      /\ \A t \in tabs : Vals(t)' \subseteq Vals(t) \cap (Strings \cup (Objs \ White) \cup {Atom, None})
  <2>1. \A t \in Tables : ent'[t] \subseteq ent[t]
    BY <1>1 DEF WithoutVals
  <2>2. ASSUME NEW t \in tabs, NEW e \in ent'[t]
        PROVE  e[2] \in Vals(t) /\ e[2] \notin White \ Strings /\ e[2] \in Objs
    <3>1. e \in WithoutVals(ent[t], White) /\ t \in Tables
      BY <1>1, <1>2, <2>2
    <3>2. e \in ent[t] /\ e[2] \notin White \ Strings
      BY <3>1 DEF WithoutVals, Cleared
    <3>3. ent[t] \subseteq (Values \cup {Atom}) \X Values
      BY <1>2, <3>1 DEF TypeOK
    <3>4. QED
      BY <3>2, <3>3 DEF Vals, Values
  <2>3. QED
    BY <2>1, <2>2 DEF Vals
<1>7. \A x : /\ Refs(x)' \subseteq Refs(x)
             /\ x \in Tables => Keys(x)' \subseteq Keys(x) /\ Vals(x)' \subseteq Vals(x)
  <2>1. \A x \in Tables : Keys(x)' \subseteq Keys(x) /\ Vals(x)' \subseteq Vals(x)
    BY <1>6 DEF Keys, Vals
  <2>2. \A x : Refs(x)' \subseteq Refs(x)
    BY <1>1, <2>1 DEF Refs
  <2>3. QED
    BY <2>1, <2>2
<1>8. NoDangling' /\ ColorInv'
  BY <1>1, <1>2, <1>4, <1>5, <1>7, MarkStepSafe
<1>9. \A t \in weak : Complete(t)'
  <2> SUFFICES ASSUME NEW t \in weak PROVE Refs(t)' \cap White' = {}
    BY DEF Complete
  <2>1. Settled(t) /\ t \in Tables /\ t \notin ephemeron \cup pass /\ t \notin allweak
    BY <1>2, <1>3
  <2>2. CASE Complete(t)
    BY <1>5, <1>7, <2>2 DEF Complete
  <2>3. CASE WeakLeft(t)
    <3>1. Keys(t)' \cap White' = {} /\ meta'[t] \notin White'
      BY <1>1, <1>5, <1>7, <2>1, <2>3 DEF WeakLeft
    <3>2. Vals(t)' \cap White' = {}
      <4>1. Vals(t)' \cap Strings \subseteq S
        BY <1>4, <1>6
      <4>2. S \cap White' = {}
        BY <1>5, ReachClosed
      <4>3. QED
        BY <1>5, <1>6, <4>1, <4>2, Kinds DEF White
    <3>3. Refs(t)' \subseteq (Keys(t) \cup Vals(t) \cup {meta[t]})'
      BY <2>1, Kinds DEF Refs
    <3>4. QED
      BY <3>1, <3>2, <3>3
  <2>4. QED
    BY <2>1, <2>2, <2>3 DEF Settled, EphemeronLeft, AllLeft
<1>10. Visited'
  <2> SUFFICES ASSUME NEW x \in Allocated, x \notin White \/ x \in Reach(S)
               PROVE  x \in Pending' \/ Settled(x)'
    BY <1>5 DEF Visited
  <2>1. CASE x \in Reach(S)
    BY <1>1, <1>5, <1>7, <2>1 DEF Pending, Settled, Complete
  <2>2. CASE x \notin White
    <3>1. Settled(x)
      BY <1>3, <2>2
    <3>2. CASE Complete(x)
      BY <1>5, <1>7, <3>2 DEF Complete, Settled
    <3>3. CASE x \in Tables /\ WeakLeft(x)
      BY <1>9, <3>3 DEF WeakLeft, Settled
    <3>4. CASE x \in Tables /\ EphemeronLeft(x)
      BY <1>1, <1>5, <1>7, <3>4 DEF EphemeronLeft, Settled
    <3>5. CASE x \in Tables /\ AllLeft(x)
      BY <1>1, <1>5, <1>7, <3>5 DEF AllLeft, Settled
    <3>6. QED
      BY <3>1, <3>2, <3>3, <3>4, <3>5 DEF Settled
  <2>3. QED
    BY <2>1, <2>2
<1>11. Rooted'
  <2>1. tobefnz' \subseteq Objs /\ {Main, Registry} \subseteq Objs \ White
    BY <1>2, <1>3, <1>4, Kinds DEF Rooted, Holders
  <2>2. tobefnz' \cap White' = {}
    BY <1>4, <1>5, ReachClosed
  <2>3. QED
    BY <1>5, <2>1, <2>2 DEF Rooted
<1>12. finobj' \cap White' = {}
  <2>1. finobj \cap Strings = {}
    BY <1>2, Kinds
  <2>2. QED
    BY <1>4, <1>5, <2>1
<1>13. MarkInv' /\ AtomicInv'
  BY <1>1, <1>9, <1>10, <1>11, <1>12 DEF MarkInv, AtomicInv
<1>14. QED
  BY <1>8, <1>13

\* The last tables are cleared and the whites exchanged: nothing that is marked
\* refers to anything that is not.
LEMMA AtomicEndSafe ==
  ASSUME SafeInv, AtomicEnd
  PROVE  NoDangling' /\ MarkInv' /\ AtomicInv' /\ ColorInv'
<1> DEFINE ktabs == ephemeron \cup allweak
           vtabs == (weak \ orig.weak) \cup (allweak \ orig.allweak)
           cutK  == [t \in Tables |-> IF t \in ktabs THEN WithoutKeys(ent[t], White) ELSE ent[t]]
           cutV  == [t \in Tables |-> IF t \in vtabs THEN WithoutVals(cutK[t], White) ELSE cutK[t]]
           keys(t) == Keys(t) \cap Strings
           left(t) == {e[2] : e \in cutK[t]} \cap Strings
           strs  == (UNION {keys(t) : t \in ktabs}) \cup (UNION {left(t) : t \in vtabs})
<1>1. /\ apc = "finish" /\ apc' = "none" /\ gcstate' = "sweep"
      /\ ent' = cutV /\ color' = Marked(strs) /\ currentwhite' = otherwhite
      /\ unswept' = Allocated \ {Main}
      /\ UNCHANGED <<stack, meta, mode, uv, finobj, tobefnz>>
  BY DEF AtomicEnd, final
<1>2. /\ TypeOK /\ NoDangling /\ ColorInv /\ color \in [Objs -> Colors]
      /\ gcstate # "sweep" /\ currentwhite \in {"w0", "w1"}
      /\ color[Main] # "black" /\ \A x \in Objs : color[x] # otherwhite
      /\ finobj \cap White = {} /\ \A t \in orig.weak : Complete(t)
      /\ weak \subseteq Tables /\ allweak \subseteq Tables /\ ephemeron \subseteq Tables
  BY <1>1 DEF SafeInv, TypeOK, ColorInv, AtomicInv, Colors
<1>3. /\ Rooted /\ Converged
      /\ \A o \in Allocated \ White : Settled(o)
      /\ pass = {} /\ weak \cap allweak = {} /\ weak \cap ephemeron = {}
      /\ allweak \cap ephemeron = {}
  BY <1>1, ClearFacts
<1>4. /\ \A t \in Tables : cutK[t] \subseteq ent[t] /\ cutV[t] \subseteq cutK[t]
      /\ \A t \in ktabs : cutK[t] = WithoutKeys(ent[t], White)
      /\ \A t \in vtabs : cutV[t] = WithoutVals(cutK[t], White)
      /\ \A t \in vtabs : \A e \in cutK[t] : e[2] \in Strings => e[2] \in strs
      /\ strs \subseteq Strings
  <2>1. /\ \A t \in ktabs : cutK[t] = WithoutKeys(ent[t], White)
        /\ \A t \in Tables \ ktabs : cutK[t] = ent[t]
        /\ \A t \in vtabs : cutV[t] = WithoutVals(cutK[t], White)
        /\ \A t \in Tables \ vtabs : cutV[t] = cutK[t]
    BY <1>2
  <2> HIDE DEF cutK, cutV
  <2>2. \A t \in Tables : cutK[t] \subseteq ent[t]
    BY <2>1 DEF WithoutKeys
  <2>3. \A t \in Tables : cutV[t] \subseteq cutK[t]
    BY <2>1 DEF WithoutVals
  <2>4. ASSUME NEW t \in vtabs, NEW e \in cutK[t], e[2] \in Strings PROVE e[2] \in strs
    <3>1. e[2] \in left(t)
      BY <2>4
    <3> HIDE DEF left
    <3>2. QED
      BY <2>4, <3>1
  <2>5. strs \subseteq Strings
    <3>1. \A x : left(x) \subseteq Strings /\ keys(x) \subseteq Strings
      OBVIOUS
    <3> HIDE DEF left, keys
    <3>2. QED
      BY <3>1
  <2>6. QED
    BY <2>1, <2>2, <2>3, <2>4, <2>5
<1> HIDE DEF cutK, cutV, strs, keys, left
<1>5. /\ White' = White \ Reach(strs) /\ Allocated' = Allocated /\ color'[Main] # "black"
      /\ \A x \in Objs : color'[x] \in {"w0", "w1"} => color'[x] = color[x]
      /\ strs \cap White' = {} /\ Reach(strs) \subseteq White
  BY <1>1, <1>2, MarkEffect, ReachClosed DEF White, Allocated
<1>6. \A x : /\ Refs(x)' \subseteq Refs(x)
             /\ x \in Tables => Keys(x)' \subseteq Keys(x) /\ Vals(x)' \subseteq Vals(x)
  <2>1. \A x \in Tables : Keys(x)' \subseteq Keys(x) /\ Vals(x)' \subseteq Vals(x)
    BY <1>1, <1>4 DEF Keys, Vals
  <2>2. \A x : Refs(x)' \subseteq Refs(x)
    BY <1>1, <2>1 DEF Refs
  <2>3. QED
    BY <2>1, <2>2
<1>7. \A x \in Tables : Refs(x)' \subseteq (Keys(x) \cup Vals(x) \cup {meta[x]})'
  BY Kinds DEF Refs
<1>8. ASSUME NEW x \in Allocated \ White PROVE Refs(x)' \cap White' = {}
  <2>1. Settled(x)
    BY <1>3
  <2>2. CASE Complete(x)
    BY <1>5, <1>6, <2>2 DEF Complete
  <2>3. CASE x \in Tables /\ WeakLeft(x) /\ ~Complete(x)
    <3>1. x \in vtabs
      BY <1>2, <2>3 DEF WeakLeft
    <3>2. \A e \in ent'[x] : e[2] \notin White'
      <4>1. \A e \in ent'[x] : e \in cutK[x] /\ e[2] \notin White \ Strings
        BY <1>1, <1>4, <3>1 DEF WithoutVals, Cleared
      <4>2. QED
        BY <1>4, <1>5, <3>1, <4>1
    <3>3. QED
      BY <1>1, <1>5, <1>6, <1>7, <2>3, <3>2 DEF WeakLeft, Vals
  <2>4. CASE x \in Tables /\ EphemeronLeft(x)
    <3>1. x \in ephemeron /\ EphemeronVals(x, White) \cap White = {}
      BY <1>3, <2>4 DEF EphemeronLeft, Converged
    <3>2. \A e \in ent'[x] : e \in ent[x] /\ e[1] \notin Cleared(White)
      BY <1>1, <1>4, <2>4, <3>1 DEF WithoutKeys
    <3>3. \A e \in ent'[x] : e[1] \notin White /\ e[2] \notin White
      BY <2>4, <3>1, <3>2 DEF EphemeronLeft, Cleared, EphemeronVals, WhiteKeyed, Keys
    <3>4. QED
      BY <1>1, <1>5, <1>7, <2>4, <3>3 DEF EphemeronLeft, Keys, Vals
  <2>5. CASE x \in Tables /\ AllLeft(x)
    <3>1. \A e \in ent'[x] : e \in ent[x] /\ e[1] \notin Cleared(White)
      BY <1>1, <1>4, <2>5 DEF WithoutKeys, AllLeft
    <3>2. \A e \in ent'[x] : e[1] \notin White /\ e[2] \notin White
      BY <2>5, <3>1 DEF AllLeft, Cleared, Keys, Vals
    <3>3. QED
      BY <1>1, <1>5, <1>7, <2>5, <3>2 DEF AllLeft, Keys, Vals
  <2>6. QED
    BY <2>1, <2>2, <2>3, <2>4, <2>5 DEF Settled
<1>9. otherwhite' = currentwhite /\ currentwhite' # currentwhite
  BY <1>1, <1>2 DEF otherwhite
<1>10. Alive' = Allocated \ White'
  BY <1>2, <1>5, <1>9 DEF Alive, Allocated, White, otherwhite
<1>11. \A x \in Reach(strs) : Refs(x)' \cap White' = {}
  <2>1. strs \subseteq Strings
    BY <1>4
  <2>2. Reach(strs) = strs \cap White
    <3>1. \A u \in strs \cap White : Along(u) = {}
      BY <2>1, Kinds DEF Along
    <3>2. QED
      BY <3>1, ReachClosed DEF Reach
  <2>3. QED
    BY <1>6, <2>1, <2>2, RefsOfKinds
<1>12. NoDangling'
  <2>1. ASSUME NEW x \in Alive' PROVE Refs(x)' \subseteq Alive'
    <3>1. Refs(x) \subseteq Allocated
      BY <1>2, <1>10, <2>1, AliveIsAllocated DEF NoDangling
    <3>2. Refs(x)' \cap White' = {}
      BY <1>5, <1>8, <1>10, <1>11, <2>1
    <3>3. QED
      BY <1>6, <1>10, <3>1, <3>2
  <2>2. ({Main, Registry} \cup finobj \cup tobefnz)' \subseteq Alive'
    <3>1. {Main, Registry} \cup finobj \cup tobefnz \subseteq Allocated
      BY <1>2, AliveIsAllocated DEF NoDangling
    <3>2. QED
      BY <1>1, <1>2, <1>3, <1>5, <1>10, <3>1 DEF Rooted
  <2>3. QED
    BY <1>5, <2>1, <2>2 DEF NoDangling
<1>13. ColorInv'
  <2>1. \A x \in Objs : color'[x] = "free" <=> color[x] = "free"
    BY <1>5 DEF Allocated
  <2>2. \A x \in Objs \ {Main} : color'[x] = "free" => Refs(x)' = {}
    BY <1>2, <1>6, <2>1 DEF ColorInv
  <2>3. \A x \in (Objs \ {Main}) \ unswept' : color'[x] = "free"
    BY <1>1, <2>1 DEF Allocated
  <2>4. QED
    BY <1>1, <1>5, <2>2, <2>3 DEF ColorInv
<1>14. MarkInv' /\ AtomicInv'
  BY <1>1 DEF MarkInv, AtomicInv, keepinvariant
<1>15. QED
  BY <1>12, <1>13, <1>14

\* The sweep frees only what is dead.
LEMMA SweepSafe ==
  ASSUME SafeInv, NEW o \in Objs, Sweep(o)
  PROVE  NoDangling' /\ MarkInv' /\ AtomicInv' /\ ColorInv'
<1>1. /\ gcstate = "sweep" /\ gcstate' = "sweep" /\ apc' = "none" /\ currentwhite' = currentwhite
      /\ o \in unswept /\ unswept' = unswept \ {o}
      /\ UNCHANGED <<stack, finobj, tobefnz>>
      /\ TypeOK /\ NoDangling /\ ColorInv
  BY DEF Sweep, SafeInv, TypeOK, inner, final
<1>2. /\ color \in [Objs -> Colors] /\ currentwhite \in {"w0", "w1"} /\ o # Main
      /\ otherwhite' = otherwhite /\ otherwhite # currentwhite /\ otherwhite \in {"w0", "w1"}
  BY <1>1 DEF TypeOK, Colors, otherwhite
<1>3. CASE color[o] = otherwhite
  <2>1. /\ color' = [color EXCEPT ![o] = "free"]
        /\ ent'  = [t \in Tables |-> IF t = o THEN {} ELSE ent[t]]
        /\ meta' = [h \in Holders |-> IF h = o THEN None ELSE meta[h]]
        /\ uv'   = [c \in Cells |-> IF c = o THEN None ELSE uv[c]]
    BY <1>1, <1>3 DEF Sweep
  <2>2. Alive' = Alive /\ o \notin Alive
    BY <1>2, <1>3, <2>1 DEF Alive
  <2>3. \A x \in Objs \ {o} : Refs(x)' = Refs(x)
    BY <1>1, <2>1 DEF Refs, Keys, Vals
  <2>4. Refs(o)' = {}
    <3>1. o \in Tables => Keys(o)' = {} /\ Vals(o)' = {}
      BY <2>1 DEF Keys, Vals
    <3>2. QED
      BY <1>2, <2>1, <3>1 DEF Refs
  <2>5. NoDangling'
    BY <1>1, <2>2, <2>3, <2>4 DEF NoDangling, Alive
  <2>6. ColorInv'
    BY <1>1, <1>2, <2>1, <2>3, <2>4 DEF ColorInv
  <2>7. QED
    BY <1>1, <2>5, <2>6 DEF MarkInv, AtomicInv, keepinvariant
<1>4. CASE color[o] # otherwhite
  <2>1. color' = [color EXCEPT ![o] = currentwhite] /\ UNCHANGED heap
    BY <1>1, <1>4 DEF Sweep
  <2>2. \A x : Refs(x)' = Refs(x)
    BY <1>1, <2>1 DEF Refs, Keys, Vals, heap
  <2>3. Alive' = Alive \cup {o}
    BY <1>2, <1>4, <2>1 DEF Alive
  <2>4. color[o] = "free" => Refs(o) = {}
    BY <1>1, <1>2 DEF ColorInv
  <2>5. o \in Alive \/ Refs(o) = {}
    BY <1>4, <2>4 DEF Alive
  <2>6. NoDangling'
    BY <1>1, <2>2, <2>3, <2>5 DEF NoDangling
  <2>7. ColorInv'
    BY <1>1, <1>2, <2>1, <2>2 DEF ColorInv
  <2>8. QED
    BY <1>1, <2>6, <2>7 DEF MarkInv, AtomicInv, keepinvariant
<1>5. QED
  BY <1>3, <1>4

\* The steps between the phases of a cycle.
LEMMA PhaseSafe ==
  ASSUME SafeInv, \/ SweepEnds \/ luaC_fullgc
                  \/ \E emergency \in BOOLEAN : CycleEnds(emergency)
  PROVE  NoDangling' /\ MarkInv' /\ AtomicInv' /\ ColorInv'
<1>1. /\ TypeOK /\ NoDangling /\ ColorInv /\ apc' = "none"
      /\ gcstate' \in {"sweep", "pause", "callfin"}
      /\ UNCHANGED <<currentwhite, stack, heap, finobj, tobefnz>>
      /\ color \in [Objs -> Colors] /\ currentwhite \in {"w0", "w1"}
      /\ otherwhite' = otherwhite /\ otherwhite # currentwhite /\ otherwhite \in {"w0", "w1"}
  BY DEF SafeInv, TypeOK, SweepEnds, luaC_fullgc, CycleEnds, inner, final, otherwhite, Colors
<1>2. MarkInv' /\ AtomicInv'
  BY <1>1 DEF MarkInv, AtomicInv, keepinvariant
<1>3. \A x : Refs(x)' = Refs(x)
  BY <1>1 DEF Refs, Keys, Vals, heap
<1>4. CASE SweepEnds
  <2>1. /\ gcstate = "sweep" /\ unswept = {} /\ color' = [color EXCEPT ![Main] = currentwhite]
        /\ gcstate' = "callfin"
    BY <1>4 DEF SweepEnds
  <2>2. Main \in Alive
    BY <1>1 DEF NoDangling
  <2>3. Alive' = Alive
    BY <1>1, <2>1, <2>2 DEF Alive
  <2>4. NoDangling'
    BY <1>1, <1>3, <2>3 DEF NoDangling
  <2>5. ColorInv'
    BY <1>1, <1>3, <2>1, Kinds DEF ColorInv
  <2>6. QED
    BY <1>2, <2>4, <2>5
<1>5. CASE luaC_fullgc \/ \E emergency \in BOOLEAN : CycleEnds(emergency)
  <2>1. /\ color' = color /\ gcstate # "sweep"
        /\ gcstate' = "sweep" => unswept' = Allocated \ {Main}
        /\ gcstate' # "sweep" => gcstate \in {"pause", "callfin"}
    BY <1>5 DEF luaC_fullgc, CycleEnds
  <2>2. Alive' = Alive
    BY <1>1, <2>1 DEF Alive
  <2>3. NoDangling'
    BY <1>1, <1>3, <2>2 DEF NoDangling
  <2>4. ColorInv'
    BY <1>1, <1>3, <2>1 DEF ColorInv, Allocated
  <2>5. QED
    BY <1>2, <2>3, <2>4
<1>6. QED
  BY <1>4, <1>5

\* Every step of the collector.
LEMMA CollectorSafe ==
  ASSUME SafeInv, NoAllWeak, Collector
  PROVE  NoDangling' /\ MarkInv' /\ AtomicInv' /\ ColorInv'
BY RestartSafe, PropagateSafe, ListStepSafe, AtomicBeginSafe, EphemeronSafe, AtomicClearSafe,
   AtomicEndSafe, SweepSafe, PhaseSafe, Zenon DEF Collector

-----------------------------------------------------------------------------
(* The steps of the program.                                               *)

\* What a program holds is alive.
LEMMA HeldAlive ==
  ASSUME TypeOK, NoDangling
  PROVE  /\ stack \subseteq Alive /\ Held \subseteq Alive /\ Main \in Alive
         /\ finobj \cup tobefnz \subseteq Alive /\ Alive \subseteq Objs
         /\ \A h \in Held : Refs(h) \subseteq Alive
<1>1. stack \subseteq Refs(Main)
  BY RefsOfKinds, Kinds DEF TypeOK, Values
<1>2. QED
  BY <1>1 DEF NoDangling, Held, Alive

\* While marking, the main thread is gray and will be visited again.
LEMMA BusyFacts ==
  ASSUME SafeInv, keepinvariant, apc = "none"
  PROVE  /\ Rooted /\ Visited /\ Waiting /\ Main \in Pending /\ Alive = Allocated
         /\ \A x \in Objs : color[x] = "black" => Complete(x)
         /\ \A x \in Allocated \ White : x \in Pending \/ Complete(x)
<1>1. /\ TypeOK /\ NoDangling /\ ListInv /\ ColorInv /\ gcstate # "sweep"
      /\ color \in [Objs -> Colors] /\ color[Main] # "black"
  BY DEF SafeInv, TypeOK, ColorInv, keepinvariant, Colors
<1>2. Rooted /\ Visited /\ Waiting
  BY DEF SafeInv, MarkInv
<1>3. pass = {}
  BY <1>1 DEF ListInv
<1>4. \A x \in Allocated \ White : x \in Pending \/ Complete(x)
  BY <1>2, <1>3 DEF Visited, Waiting, Settled, WeakLeft, EphemeronLeft, AllLeft
<1>5. \A x \in Pending : color[x] = "gray"
  BY <1>1 DEF ListInv, Listed, Pending
<1>6. \A x \in Objs : color[x] = "black" => x \in Allocated \ White
  BY DEF Allocated, White
<1>7. Main \in Pending
  BY <1>1, <1>2, Kinds DEF Waiting, Rooted, NoDangling, Alive, White, Colors
<1>8. Alive = Allocated
  BY <1>1, AliveIsAllocated
<1>9. QED
  BY <1>2, <1>4, <1>5, <1>6, <1>7, <1>8

\* Only the stack changes.
LEMMA StackSafe ==
  ASSUME SafeInv, apc = "none",
         UNCHANGED <<gcstate, apc, color, currentwhite, gray, grayagain, weak, ephemeron, allweak,
                     heap, finobj>>,
         tobefnz' \subseteq tobefnz, stack' \subseteq stack \cup Alive,
         gcstate = "sweep" => unswept' = unswept
  PROVE  NoDangling' /\ MarkInv' /\ AtomicInv' /\ ColorInv'
<1>1. TypeOK /\ NoDangling /\ ColorInv
  BY DEF SafeInv
<1>2. White' = White /\ Allocated' = Allocated /\ Alive' = Alive /\ otherwhite' = otherwhite
      /\ Pending' = Pending
  BY DEF White, Allocated, Alive, otherwhite, Pending
<1>3. /\ \A x \in Objs \ {Main} : Refs(x)' = Refs(x)
      /\ Refs(Main)' \subseteq Refs(Main) \cup Alive
  <2>1. \A x \in Objs \ {Main} : Refs(x)' = Refs(x)
    BY DEF Refs, Keys, Vals, heap
  <2>2. Refs(Main)' = stack' \ {Atom, None}
    BY Kinds DEF Refs
  <2>3. QED
    BY <2>1, <2>2, RefsOfKinds
<1>4. NoDangling'
  BY <1>1, <1>2, <1>3 DEF NoDangling, Alive
<1>5. ColorInv'
  BY <1>1, <1>2, <1>3 DEF ColorInv
<1>6. AtomicInv'
  BY DEF AtomicInv
<1>7. ASSUME keepinvariant PROVE Rooted' /\ Visited' /\ Waiting'
  <2>1. Rooted' /\ Waiting'
    BY <1>2, <1>7, BusyFacts DEF Rooted, Waiting
  <2>2. ASSUME NEW x \in Allocated \ White PROVE x \in Pending \/ Settled(x)'
    BY <1>2, <1>3, <1>7, <2>2, BusyFacts DEF Allocated, Settled, Complete
  <2>3. QED
    BY <1>2, <2>1, <2>2 DEF Visited
<1>8. MarkInv'
  BY <1>7 DEF MarkInv, keepinvariant
<1>9. QED
  BY <1>4, <1>5, <1>6, <1>8

\* An object changes what it refers to while the collector marks.
LEMMA BusySafe ==
  ASSUME SafeInv, keepinvariant, apc = "none", NEW h \in Alive, h # Main,
         UNCHANGED <<gcstate, apc, currentwhite, weak, ephemeron, allweak, stack, tobefnz>>,
         finobj' \subseteq finobj \cup Alive,
         Refs(h)' \subseteq Refs(h) \cup Alive, \A x \in Objs \ {h} : Refs(x)' = Refs(x),
         \/ /\ color[h] = "black" => (Refs(h)' \ Refs(h)) \cap White = {}
            /\ UNCHANGED <<color, gray, grayagain>>
         \/ /\ color[h] = "black" /\ color' = [color EXCEPT ![h] = "gray"]
            /\ gray' = gray /\ grayagain' = grayagain \cup {h}
         \/ /\ color[h] = "black" /\ grayagain' = grayagain
            /\ \E S : mark(S) /\ Refs(h)' \ Refs(h) \subseteq S
  PROVE  NoDangling' /\ MarkInv' /\ AtomicInv' /\ ColorInv'
<1>1. /\ TypeOK /\ NoDangling /\ ColorInv /\ gcstate # "sweep" /\ h \in Objs
      /\ color \in [Objs -> Colors] /\ currentwhite \in {"w0", "w1"}
      /\ otherwhite' = otherwhite /\ keepinvariant' /\ color[Main] # "black"
      /\ gcstate \notin {"pause", "callfin", "sweep"}
  BY DEF SafeInv, TypeOK, ColorInv, Colors, otherwhite, keepinvariant, Alive
<1>2. /\ Rooted /\ Visited /\ Waiting /\ Alive = Allocated
      /\ \A x \in Objs : color[x] = "black" => Complete(x)
      /\ \A x \in Allocated \ White : x \in Pending \/ Complete(x)
  BY BusyFacts
<1>3. /\ White' \subseteq White /\ Allocated' = Allocated /\ color'[Main] # "black"
      /\ \A x \in Objs : color'[x] \in {"w0", "w1"} => color'[x] = color[x]
      /\ \A x \in Allocated \ White' : x \in Pending' \/ Complete(x)'
      /\ \A x \in Objs : color'[x] = "gray" => x \in Pending'
  <2>1. CASE /\ color[h] = "black" => (Refs(h)' \ Refs(h)) \cap White = {}
             /\ UNCHANGED <<color, gray, grayagain>>
    <3>1. White' = White /\ Allocated' = Allocated /\ Pending' = Pending
      BY <2>1 DEF White, Allocated, Pending
    <3>2. h \in Allocated \ White => h \in Pending \/ Complete(h)'
      BY <1>1, <1>2, <2>1, <3>1 DEF Allocated, White, Waiting, Complete, Colors
    <3>3. \A x \in Allocated \ White : x \in Pending' \/ Complete(x)'
      BY <1>2, <3>1, <3>2 DEF Complete, Allocated
    <3>4. QED
      BY <1>1, <1>2, <2>1, <3>1, <3>3 DEF Waiting
  <2>2. CASE /\ color[h] = "black" /\ color' = [color EXCEPT ![h] = "gray"]
             /\ gray' = gray /\ grayagain' = grayagain \cup {h}
    <3>1. White' = White /\ Allocated' = Allocated /\ Pending' = Pending \cup {h}
      BY <1>1, <2>2 DEF White, Allocated, Pending
    <3>2. \A x \in Allocated \ White : x \in Pending' \/ Complete(x)'
      BY <1>2, <3>1 DEF Complete, Allocated
    <3>3. QED
      BY <1>1, <1>2, <2>2, <3>1, <3>2 DEF Waiting
  <2>3. ASSUME color[h] = "black", grayagain' = grayagain, NEW S, mark(S), Refs(h)' \ Refs(h) \subseteq S
        PROVE  <1>3!1 /\ <1>3!2 /\ <1>3!3 /\ <1>3!4
    <3>1. /\ White' = White \ Reach(S) /\ Allocated' = Allocated /\ color'[Main] # "black"
          /\ \A x \in Objs : color'[x] \in {"w0", "w1"} => color'[x] = color[x]
          /\ \A x \in Reach(S) : x \in Grayed(S) \/ Refs(x) \cap (White \ Reach(S)) = {}
          /\ \A x \in Objs : color'[x] = "gray" => color[x] = "gray" \/ x \in Grayed(S)
          /\ Reach(S) \subseteq White
      BY <1>1, <2>3, MarkEffect, ReachClosed DEF mark, White, Allocated
    <3>2. Pending' = Pending \cup Grayed(S)
      BY <2>3 DEF Pending, mark
    <3>3. Complete(h)'
      <4>1. Complete(h) /\ S \cap White' = {}
        BY <1>1, <1>2, <2>3, <3>1, ReachClosed
      <4>2. QED
        BY <2>3, <3>1, <4>1 DEF Complete
    <3>4. h \notin Reach(S)
      BY <2>3, <3>1 DEF White
    <3>5. \A x \in Allocated \ White' : x \in Pending' \/ Complete(x)'
      <4> SUFFICES ASSUME NEW x \in Allocated \ White', x # h PROVE x \in Pending' \/ Complete(x)'
        BY <3>3
      <4>1. Refs(x)' = Refs(x)
        BY DEF Allocated
      <4>2. CASE x \in Reach(S)
        BY <3>1, <3>2, <4>1, <4>2 DEF Complete
      <4>3. CASE x \notin White
        BY <1>2, <3>1, <3>2, <4>1, <4>3 DEF Complete
      <4>4. QED
        BY <3>1, <4>2, <4>3
    <3>6. \A x \in Objs : color'[x] = "gray" => x \in Pending'
      BY <1>2, <3>1, <3>2 DEF Waiting
    <3>7. QED
      BY <3>1, <3>5, <3>6
  <2>4. QED
    BY <2>1, <2>2, <2>3
<1>3a. \A x \in Objs : color'[x] # otherwhite
  BY <1>1, <1>3 DEF ColorInv, otherwhite
<1>4. Alive' = Alive
  BY <1>1, <1>2, <1>3, <1>3a DEF Alive, Allocated
<1>5. NoDangling'
  BY <1>1, <1>4 DEF NoDangling, Alive
<1>6. ColorInv'
  <2>1. \A x \in Objs : color'[x] = "free" <=> color[x] = "free"
    BY <1>3 DEF Allocated
  <2>2. color[h] # "free"
    BY DEF Alive
  <2>3. QED
    BY <1>1, <1>3, <1>3a, <2>1, <2>2 DEF ColorInv
<1>7. MarkInv' /\ AtomicInv'
  BY <1>1, <1>2, <1>3 DEF MarkInv, AtomicInv, Rooted, Visited, Waiting, Settled
<1>8. QED
  BY <1>5, <1>6, <1>7

\* An object changes what it refers to while the collector does not mark.
LEMMA QuietSafe ==
  ASSUME SafeInv, ~keepinvariant, NEW h \in Alive, h # Main,
         UNCHANGED <<gcstate, apc, currentwhite, stack, unswept>>,
         (finobj \cup tobefnz)' \subseteq Alive,
         Refs(h)' \subseteq Refs(h) \cup Alive, \A x \in Objs \ {h} : Refs(x)' = Refs(x),
         \/ color' = color
         \/ color[h] = "black" /\ color' = [color EXCEPT ![h] = "gray"]
         \/ color[h] = "black" /\ color' = [color EXCEPT ![h] = currentwhite]
         \/ gcstate = "sweep" /\ color' = [color EXCEPT ![h] = currentwhite]
  PROVE  NoDangling' /\ MarkInv' /\ AtomicInv' /\ ColorInv'
<1>1. /\ TypeOK /\ NoDangling /\ ColorInv /\ h \in Objs
      /\ color \in [Objs -> Colors] /\ currentwhite \in {"w0", "w1"}
      /\ otherwhite' = otherwhite /\ otherwhite # currentwhite /\ otherwhite \in {"w0", "w1"}
      /\ gcstate \in {"pause", "callfin", "sweep"} /\ apc' = "none"
      /\ color[h] \notin {"free", otherwhite}
  BY DEF SafeInv, TypeOK, Colors, otherwhite, keepinvariant, Alive
<1>2. color[h] = "black" => gcstate = "sweep" /\ h \in unswept
  BY <1>1 DEF ColorInv
<1>3. Alive' = Alive
  BY <1>1 DEF Alive
<1>4. NoDangling'
  BY <1>1, <1>3 DEF NoDangling, Alive
<1>5. /\ \A x \in Objs : color'[x] = "free" <=> color[x] = "free"
      /\ \A x \in Objs \ {h} : color'[x] = color[x]
      /\ gcstate # "sweep" => color' = color
      /\ color'[h] = color[h] \/ color'[h] = currentwhite \/ h \in unswept
  BY <1>1, <1>2
<1>6. ColorInv'
  BY <1>1, <1>5, Kinds DEF ColorInv
<1>7. MarkInv' /\ AtomicInv'
  BY <1>1 DEF MarkInv, AtomicInv, keepinvariant
<1>8. QED
  BY <1>4, <1>6, <1>7

\* The barrier of objects that are not tables covers what one is made to refer to.
LEMMA BarrierSafe ==
  ASSUME SafeInv, apc = "none", NEW h \in Alive, h # Main, NEW y \in Alive \cup {None},
         luaC_barrier(h, y),
         UNCHANGED <<gcstate, apc, currentwhite, grayagain, weak, ephemeron, allweak, stack,
                     tobefnz, unswept>>,
         finobj' \subseteq finobj \cup {h},
         Refs(h)' \subseteq Refs(h) \cup ({y} \ {None}), \A x \in Objs \ {h} : Refs(x)' = Refs(x)
  PROVE  NoDangling' /\ MarkInv' /\ AtomicInv' /\ ColorInv'
<1>1. finobj \cup tobefnz \subseteq Alive /\ (finobj \cup tobefnz)' \subseteq Alive
      /\ Refs(h)' \subseteq Refs(h) \cup Alive /\ finobj' \subseteq finobj \cup Alive
  BY HeldAlive DEF SafeInv
<1>2. CASE keepinvariant
  <2>1. \/ /\ color[h] = "black" => (Refs(h)' \ Refs(h)) \cap White = {}
           /\ UNCHANGED <<color, gray, grayagain>>
        \/ /\ color[h] = "black" /\ grayagain' = grayagain
           /\ \E S : mark(S) /\ Refs(h)' \ Refs(h) \subseteq S
    BY <1>2 DEF luaC_barrier
  <2>2. QED
    BY <1>1, <1>2, <2>1, BusySafe
<1>3. CASE ~keepinvariant
  <2>1. color' = color \/ (color[h] = "black" /\ color' = [color EXCEPT ![h] = currentwhite])
    BY <1>3 DEF luaC_barrier
  <2>2. QED
    BY <1>1, <1>3, <2>1, QuietSafe
<1>4. QED
  BY <1>2, <1>3

\* A store in a table, with its barrier back.
LEMMA SetEntrySafe ==
  ASSUME SafeInv, NEW t \in Tables, NEW k \in Values \cup {Atom}, NEW y \in Values, SetEntry(t, k, y)
  PROVE  NoDangling' /\ MarkInv' /\ AtomicInv' /\ ColorInv'
<1> DEFINE old == {e \in ent[t] : e[1] = k}
           new == IF old = {} THEN {k, y} ELSE {y}
<1>1. /\ apc = "none" /\ apc' = apc /\ t \in Held /\ k \in stack \cup {Atom} /\ y \in stack
      /\ ent' = [ent EXCEPT ![t] = (@ \ old) \cup {<<k, y>>}]
      /\ luaC_barrierback(t, new)
      /\ UNCHANGED <<gcstate, currentwhite, gray, weak, ephemeron, allweak, stack, meta, mode, uv,
                     finobj, tobefnz, unswept>>
  BY DEF SetEntry, Runs, inner, final
<1>2. /\ TypeOK /\ NoDangling /\ ent \in [Tables -> SUBSET ((Values \cup {Atom}) \X Values)]
      /\ t \in Alive /\ t # Main /\ stack \subseteq Alive /\ finobj \cup tobefnz \subseteq Alive
  BY <1>1, HeldAlive, Kinds DEF SafeInv, TypeOK
<1>3. \A x \in Objs \ {t} : Refs(x)' = Refs(x)
  BY <1>1 DEF Refs, Keys, Vals
<1>4. Refs(t)' \subseteq Refs(t) \cup (new \ {Atom})
  <2>1. Refs(t)' = ((Keys(t) \cup Vals(t))' \cup {meta[t]}) \ {Atom, None}
    BY <1>1, Kinds DEF Refs
  <2>2. ent'[t] = (ent[t] \ old) \cup {<<k, y>>}
    BY <1>1, <1>2
  <2>3. old # {} => k \in Keys(t)
    BY DEF Keys
  <2> HIDE DEF old
  <2>4. Keys(t)' \subseteq Keys(t) \cup {k} /\ Vals(t)' \subseteq Vals(t) \cup {y}
    BY <2>2 DEF Keys, Vals
  <2>5. QED
    BY <2>1, <2>3, <2>4, RefsOfKinds
<1>5. new \ {Atom} \subseteq Alive
  BY <1>1, <1>2
<1> HIDE DEF new
<1>6. \/ /\ color[t] = "black" => new \cap White = {}
         /\ UNCHANGED <<color, grayagain>>
      \/ /\ color[t] = "black" /\ color' = [color EXCEPT ![t] = "gray"]
         /\ grayagain' = grayagain \cup {t}
  BY <1>1 DEF luaC_barrierback
<1>7. CASE keepinvariant
  <2>1. \/ /\ color[t] = "black" => (Refs(t)' \ Refs(t)) \cap White = {}
           /\ UNCHANGED <<color, gray, grayagain>>
        \/ /\ color[t] = "black" /\ color' = [color EXCEPT ![t] = "gray"]
           /\ gray' = gray /\ grayagain' = grayagain \cup {t}
    BY <1>1, <1>4, <1>6
  <2>2. QED
    BY <1>1, <1>2, <1>3, <1>4, <1>5, <1>7, <2>1, BusySafe
<1>8. CASE ~keepinvariant
  BY <1>1, <1>2, <1>3, <1>4, <1>5, <1>6, <1>8, QuietSafe
<1>9. QED
  BY <1>7, <1>8

\* An entry that is set to nil.
LEMMA ClearEntrySafe ==
  ASSUME SafeInv, NEW t \in Tables, NEW e \in ent[t], ClearEntry(t, e)
  PROVE  NoDangling' /\ MarkInv' /\ AtomicInv' /\ ColorInv'
<1>1. /\ apc = "none" /\ apc' = apc /\ t \in Held
      /\ ent' = [ent EXCEPT ![t] = @ \ {e}]
      /\ UNCHANGED <<gcstate, color, currentwhite, gray, grayagain, weak, ephemeron, allweak, stack,
                     meta, mode, uv, finobj, tobefnz, unswept>>
  BY DEF ClearEntry, Runs, inner, lists, final
<1>2. /\ TypeOK /\ NoDangling /\ ent \in [Tables -> SUBSET ((Values \cup {Atom}) \X Values)]
      /\ t \in Alive /\ t # Main /\ finobj \cup tobefnz \subseteq Alive
  BY <1>1, HeldAlive, Kinds DEF SafeInv, TypeOK
<1>3. \A x \in Objs \ {t} : Refs(x)' = Refs(x)
  BY <1>1 DEF Refs, Keys, Vals
<1>4. Refs(t)' \subseteq Refs(t)
  <2>1. ent'[t] \subseteq ent[t]
    BY <1>1, <1>2
  <2>2. QED
    BY <1>1, <2>1 DEF Refs, Keys, Vals
<1>5. CASE keepinvariant
  BY <1>1, <1>2, <1>3, <1>4, <1>5, BusySafe
<1>6. CASE ~keepinvariant
  BY <1>1, <1>2, <1>3, <1>4, <1>6, QuietSafe
<1>7. QED
  BY <1>5, <1>6

\* A store in an upvalue, with its barrier.
LEMMA SetCellSafe ==
  ASSUME SafeInv, NEW c \in Cells, NEW y \in Values \cup {None}, SetCell(c, y)
  PROVE  NoDangling' /\ MarkInv' /\ AtomicInv' /\ ColorInv'
<1>1. /\ apc = "none" /\ apc' = apc /\ c \in stack /\ y \in stack \cup {None}
      /\ uv' = [uv EXCEPT ![c] = y] /\ luaC_barrier(c, y)
      /\ UNCHANGED <<gcstate, currentwhite, grayagain, weak, ephemeron, allweak, stack,
                     ent, meta, mode, finobj, tobefnz, unswept>>
  BY DEF SetCell, Runs, inner, final
<1>2. /\ uv \in [Cells -> Values \cup {None}]
      /\ c \in Alive /\ c # Main /\ y \in Alive \cup {None}
  BY <1>1, HeldAlive, Kinds DEF SafeInv, TypeOK
<1>3. \A x \in Objs \ {c} : Refs(x)' = Refs(x)
  BY <1>1 DEF Refs, Keys, Vals
<1>4. Refs(c)' \subseteq Refs(c) \cup ({y} \ {None})
  BY <1>1, <1>2 DEF Refs, Keys, Vals
<1>5. QED
  BY <1>1, <1>2, <1>3, <1>4, BarrierSafe

\* lua_setmetatable, with its barrier, the mode and the finalizer.
LEMMA SetMetatableSafe ==
  ASSUME SafeInv, NEW h \in Holders, NEW m \in Tables \cup {None}, NEW md \in Modes,
         NEW gc \in BOOLEAN, lua_setmetatable(h, m, md, gc)
  PROVE  NoDangling' /\ MarkInv' /\ AtomicInv' /\ ColorInv'
<1>1. /\ apc = "none" /\ apc' = apc /\ h \in Held /\ m \in stack \cup {None}
      /\ meta' = [meta EXCEPT ![h] = m]
      /\ IF gc /\ gcstate = "sweep"
         THEN color' = [color EXCEPT ![h] = currentwhite] /\ gray' = gray
         ELSE luaC_barrier(h, m)
      /\ finobj' \subseteq finobj \cup {h}
      /\ UNCHANGED <<gcstate, currentwhite, grayagain, weak, ephemeron, allweak, stack,
                     ent, uv, tobefnz, unswept>>
  BY DEF lua_setmetatable, Runs, inner
<1>2. /\ meta \in [Holders -> (Tables \cap Values) \cup {None}]
      /\ h \in Alive /\ h # Main /\ m \in Alive \cup {None}
      /\ finobj \cup tobefnz \subseteq Alive
  BY <1>1, HeldAlive, Kinds DEF SafeInv, TypeOK
<1>3. \A x \in Objs \ {h} : Refs(x)' = Refs(x)
  BY <1>1 DEF Refs, Keys, Vals
<1>4. Refs(h)' \subseteq Refs(h) \cup ({m} \ {None})
  BY <1>1, <1>2 DEF Refs, Keys, Vals
<1>5. CASE gc /\ gcstate = "sweep"
  BY <1>1, <1>2, <1>3, <1>4, <1>5, QuietSafe DEF keepinvariant
<1>6. CASE ~(gc /\ gcstate = "sweep")
  BY <1>1, <1>2, <1>3, <1>4, <1>6, BarrierSafe
<1>7. QED
  BY <1>5, <1>6

\* A new object refers to nothing and nothing refers to it yet.
LEMMA NewObjectSafe ==
  ASSUME SafeInv, NEW o \in Values, luaC_newobj(o)
  PROVE  NoDangling' /\ MarkInv' /\ AtomicInv' /\ ColorInv'
<1>1. /\ apc = "none" /\ apc' = apc /\ color[o] = "free" /\ o \in Objs /\ o # Main
      /\ color' = [color EXCEPT ![o] = currentwhite] /\ stack' = stack \cup {o}
      /\ UNCHANGED <<gcstate, currentwhite, gray, grayagain, weak, ephemeron, allweak,
                     ent, meta, mode, uv, finobj, tobefnz, unswept>>
  BY DEF luaC_newobj, Runs, inner, lists, heap, final, Values
<1>2. /\ TypeOK /\ NoDangling /\ ColorInv
      /\ color \in [Objs -> Colors] /\ currentwhite \in {"w0", "w1"}
      /\ otherwhite' = otherwhite /\ otherwhite # currentwhite /\ otherwhite \in {"w0", "w1"}
  BY <1>1 DEF SafeInv, TypeOK, Colors, otherwhite
<1>3. /\ \A x \in Objs \ {Main} : Refs(x)' = Refs(x)
      /\ Refs(Main)' \subseteq Refs(Main) \cup {o}
  <2>1. \A x \in Objs \ {Main} : Refs(x)' = Refs(x)
    BY <1>1 DEF Refs, Keys, Vals
  <2>2. Refs(Main)' = stack' \ {Atom, None}
    BY Kinds DEF Refs
  <2>3. QED
    BY <1>1, <2>1, <2>2, RefsOfKinds
<1>4. Refs(o) = {} /\ o \notin Alive /\ Alive' = Alive \cup {o}
  BY <1>1, <1>2 DEF ColorInv, Alive
<1>5. NoDangling'
  BY <1>1, <1>2, <1>3, <1>4 DEF NoDangling, Alive
<1>6. ColorInv'
  BY <1>1, <1>2, <1>3 DEF ColorInv
<1>7. ASSUME keepinvariant PROVE Rooted' /\ Visited' /\ Waiting'
  <2>1. /\ Rooted /\ Visited /\ Waiting /\ Main \in Pending /\ Alive = Allocated
        /\ \A x \in Allocated \ White : x \in Pending \/ Complete(x)
    BY <1>1, <1>7, BusyFacts
  <2>2. White' = White \cup {o} /\ Allocated' = Allocated \cup {o} /\ Pending' = Pending
    BY <1>1, <1>2 DEF White, Allocated, Pending
  <2>3. Rooted' /\ Waiting'
    <3>1. o \notin {Main, Registry} \cup tobefnz
      BY <1>2, <1>4 DEF NoDangling
    <3>2. QED
      BY <1>1, <1>2, <2>1, <2>2, <3>1 DEF Rooted, Waiting
  <2>4. ASSUME NEW x \in Allocated \ White PROVE x \in Pending \/ Complete(x)'
    <3>1. x \in Alive => o \notin Refs(x)
      BY <1>2, <1>4 DEF NoDangling
    <3>2. QED
      BY <1>3, <2>1, <2>2, <2>4, <3>1 DEF Complete, Allocated
  <2>5. QED
    BY <2>2, <2>3, <2>4 DEF Visited, Settled
<1>8. MarkInv' /\ AtomicInv'
  BY <1>1, <1>7 DEF MarkInv, AtomicInv, keepinvariant
<1>9. QED
  BY <1>5, <1>6, <1>8

\* A finalizer's object becomes an ordinary one.  If the sweep stands on its link
\* the rest of tobefnz is skipped, but there is no rest.
LEMMA FinalizeSafe ==
  ASSUME SafeInv, OneWaits, NEW o \in Values, Finalize(o)
  PROVE  NoDangling' /\ MarkInv' /\ AtomicInv' /\ ColorInv'
<1>1. /\ apc = "none" /\ apc' = apc /\ gcstate' = gcstate /\ o \in tobefnz
      /\ tobefnz' = tobefnz \ {o} /\ stack' = stack \cup {o} /\ finobj' = finobj
      /\ color' = IF gcstate = "sweep" THEN [color EXCEPT ![o] = currentwhite] ELSE color
      /\ UNCHANGED <<currentwhite, gray, grayagain, weak, ephemeron, allweak, heap>>
  BY DEF Finalize, inner, lists
<1>2. TypeOK /\ NoDangling /\ ColorInv /\ o \in Alive
  BY <1>1, HeldAlive DEF SafeInv
<1>3. CASE gcstate # "sweep"
  BY <1>1, <1>2, <1>3, StackSafe
<1>4. CASE gcstate = "sweep"
  <2>1. /\ color \in [Objs -> Colors] /\ currentwhite \in {"w0", "w1"} /\ o \in Objs /\ o # Main
        /\ otherwhite' = otherwhite /\ otherwhite # currentwhite /\ otherwhite \in {"w0", "w1"}
    BY <1>1, <1>2, Kinds DEF TypeOK, Colors, otherwhite, Values, Alive
  <2>2. unswept \ unswept' \subseteq {o} /\ unswept' \subseteq unswept
    BY <1>1 DEF Finalize, OneWaits
  <2>3. Alive' = Alive /\ color' = [color EXCEPT ![o] = currentwhite]
    BY <1>1, <1>2, <1>4, <2>1 DEF Alive
  <2>4. /\ \A x \in Objs \ {Main} : Refs(x)' = Refs(x)
        /\ Refs(Main)' \subseteq Refs(Main) \cup {o}
    <3>1. \A x \in Objs \ {Main} : Refs(x)' = Refs(x)
      BY <1>1 DEF Refs, Keys, Vals, heap
    <3>2. Refs(Main)' = stack' \ {Atom, None}
      BY Kinds DEF Refs
    <3>3. QED
      BY <1>1, <3>1, <3>2, RefsOfKinds
  <2>5. NoDangling'
    BY <1>1, <1>2, <2>3, <2>4 DEF NoDangling, Alive
  <2>6. ColorInv'
    <3>1. \A x \in (Objs \ {Main}) \ unswept' : color'[x] \in {"free", currentwhite}
      BY <1>2, <1>4, <2>1, <2>2, <2>3 DEF ColorInv
    <3>2. color[o] # "free"
      BY <1>2 DEF Alive
    <3>3. QED
      BY <1>1, <1>2, <1>4, <2>1, <2>3, <2>4, <3>1, <3>2 DEF ColorInv
  <2>7. QED
    BY <1>1, <1>4, <2>5, <2>6 DEF MarkInv, AtomicInv, keepinvariant
<1>5. QED
  BY <1>3, <1>4

\* Every step of the program.
LEMMA MutatorSafe ==
  ASSUME SafeInv, OneWaits, Mutator
  PROVE  NoDangling' /\ MarkInv' /\ AtomicInv' /\ ColorInv'
<1>1. ASSUME NEW o \in Values, Load(o) \/ Pop(o)
      PROVE  NoDangling' /\ MarkInv' /\ AtomicInv' /\ ColorInv'
  <2>1. stack' \subseteq stack \cup Alive
    BY <1>1, HeldAlive DEF Load, Pop, SafeInv
  <2>2. QED
    BY <1>1, <2>1, StackSafe DEF Load, Pop, Runs, inner, lists, final
<1>2. CASE \E o \in Values : luaC_newobj(o) \/ Load(o) \/ Pop(o) \/ Finalize(o)
  BY <1>1, <1>2, NewObjectSafe, FinalizeSafe
<1>3. QED
  BY <1>2, SetEntrySafe, ClearEntrySafe, SetCellSafe, SetMetatableSafe, Zenon DEF Mutator

-----------------------------------------------------------------------------
(* The theorems.                                                           *)

\* The invariant holds at the start.
LEMMA SafeInit == Init => SafeInv
<1> SUFFICES ASSUME Init PROVE SafeInv
  OBVIOUS
<1>1. TypeOK
  BY TypeInit
<1>2. ListInv /\ MarkInv /\ AtomicInv
  BY DEF Init, ListInv, MarkInv, AtomicInv, keepinvariant
<1>3. \A x \in Objs : Refs(x) = {}
  BY Kinds DEF Init, Refs, Keys, Vals
<1>4. ColorInv
  BY <1>3, Kinds DEF Init, ColorInv, otherwhite
<1>5. NoDangling
  BY <1>3, Kinds DEF Init, NoDangling, Alive, otherwhite
<1>6. QED
  BY <1>1, <1>2, <1>4, <1>5 DEF SafeInv

\* Every step keeps it.
LEMMA SafeStep ==
  ASSUME NoAllWeak, SafeInv, OneWaits, [Next]_vars
  PROVE  SafeInv'
<1>1. TypeOK' /\ ListInv'
  <2>1. CASE UNCHANGED vars
    BY <2>1 DEF SafeInv, TypeOK, ListInv, Disjoint, Listed, keepinvariant, vars, inner, lists,
       heap, final
  <2>2. QED
    BY <2>1, TypeCollector, TypeMutator, ListCollector, ListMutator DEF Next, SafeInv
<1>2. CASE Next
  BY <1>1, <1>2, CollectorSafe, MutatorSafe DEF Next, SafeInv
<1>3. CASE UNCHANGED vars
  <2>1. /\ White' = White /\ Allocated' = Allocated /\ Alive' = Alive /\ otherwhite' = otherwhite
        /\ Pending' = Pending /\ \A x : Refs(x)' = Refs(x)
    BY <1>3 DEF vars, inner, lists, heap, final, White, Allocated, Alive, otherwhite, Pending,
       Refs, Keys, Vals
  <2>2. /\ \A x : Complete(x)' = Complete(x) /\ Settled(x)' = Settled(x)
        /\ Converged' = Converged
    BY <1>3, <2>1 DEF vars, inner, lists, heap, Complete, Settled, WeakLeft, EphemeronLeft, AllLeft,
       Keys, Vals, Converged, EphemeronVals, WhiteKeyed
  <2>3. NoDangling' /\ ColorInv' /\ MarkInv' /\ AtomicInv'
    BY <1>3, <2>1, <2>2 DEF vars, inner, lists, final, SafeInv, NoDangling, ColorInv, MarkInv,
       AtomicInv, Rooted, Visited, Waiting, keepinvariant
  <2>4. QED
    BY <1>1, <2>3 DEF SafeInv
<1>4. QED
  BY <1>2, <1>3

\* Nothing alive ever refers to memory that the collector has freed or will free:
\* lgc.c, whatever the order of its steps and of the program's.
THEOREM NothingDangles ==
  ASSUME NoAllWeak
  PROVE  Spec /\ []OneWaits => []NoDangling
<1>1. SafeInv /\ OneWaits /\ [Next]_vars => SafeInv'
  BY SafeStep
<1>2. SafeInv => NoDangling
  BY DEF SafeInv
<1>3. QED
  BY <1>1, <1>2, SafeInit, PTL DEF Spec

\* lgc.h: "a black object can never point to a white one" while marking.
THEOREM BlackIsNeverToWhite ==
  ASSUME NoAllWeak
  PROVE  Spec /\ []OneWaits => []BlackNeverToWhite
<1>1. SafeInv /\ OneWaits /\ [Next]_vars => SafeInv'
  BY SafeStep
<1>2. SafeInv => BlackNeverToWhite
  <2> SUFFICES ASSUME SafeInv, keepinvariant, NEW o \in Objs, color[o] = "black"
               PROVE  Refs(o) \cap White = {}
    BY DEF BlackNeverToWhite
  <2>1. o \in Allocated \ White
    BY DEF Allocated, White
  <2>2. o \notin Listed
    BY DEF SafeInv, ListInv
  <2>3. Settled(o)
    BY <2>1, <2>2 DEF SafeInv, MarkInv, Visited, Pending, Listed
  <2>4. QED
    BY <2>2, <2>3 DEF Settled, Complete, WeakLeft, EphemeronLeft, AllLeft, Listed
<1>3. QED
  BY <1>1, <1>2, SafeInit, PTL DEF Spec

\* When atomic() is about to clear the weak tables, what is strongly accessible is
\* marked.
THEOREM AllStrongIsMarked ==
  ASSUME NoAllWeak
  PROVE  Spec /\ []OneWaits => []StronglyAccessibleMarked
<1>1. SafeInv /\ OneWaits /\ [Next]_vars => SafeInv'
  BY SafeStep
<1>2. SafeInv => StronglyAccessibleMarked
  <2> SUFFICES ASSUME SafeInv, apc = "clear"
               PROVE  /\ {Main, Registry} \cap White = {}
                      /\ \A o \in Allocated \ White : StrongRefs(o) \cap White = {}
    BY DEF StronglyAccessibleMarked
  <2>1. /\ Converged /\ Rooted /\ pass = {}
        /\ \A o \in Allocated \ White : Settled(o)
    BY ClearFacts
  <2>2. ASSUME NEW o \in Allocated \ White PROVE StrongRefs(o) \cap White = {}
    <3>1. StrongRefs(o) \subseteq Refs(o)
      BY Kinds DEF StrongRefs, Refs, Keys, Vals, EphemeronVals, Allocated
    <3>2. CASE Complete(o)
      BY <3>1, <3>2 DEF Complete
    <3>3. CASE o \in Tables /\ WeakLeft(o)
      BY <3>3 DEF WeakLeft, StrongRefs
    <3>4. CASE o \in Tables /\ EphemeronLeft(o)
      <4>1. EphemeronVals(o, White) \cap White = {}
        BY <2>1, <3>4 DEF EphemeronLeft, Converged
      <4>2. QED
        BY <3>4, <4>1 DEF EphemeronLeft, StrongRefs
    <3>5. CASE o \in Tables /\ AllLeft(o)
      <4>1. EphemeronVals(o, White) \subseteq Vals(o)
        BY DEF EphemeronVals, Vals
      <4>2. QED
        BY <3>5, <4>1 DEF AllLeft, StrongRefs
    <3>6. QED
      BY <2>1, <3>2, <3>3, <3>4, <3>5 DEF Settled
  <2>3. QED
    BY <2>1, <2>2 DEF Rooted
<1>3. QED
  BY <1>1, <1>2, SafeInit, PTL DEF Spec

\* An object leaves every weak value before it is handed to its finalizer.
THEOREM FinalizedLeave ==
  ASSUME NoAllWeak
  PROVE  Spec /\ []OneWaits => FinalizedLeaveWeakValues
<1> DEFINE Leaves ==
      apc = "clear" /\ apc' = "resurrect" =>
        \A t \in Allocated \cap Tables : t \notin White /\ mode[t] \in {"v", "kv"} =>
          {e[2] : e \in ent'[t]} \cap (tobefnz' \ tobefnz) = {}
<1>1. SafeInv /\ OneWaits /\ [Next]_vars => SafeInv'
  BY SafeStep
<1>2. ASSUME SafeInv, [Next]_vars PROVE [Leaves]_vars
  <2> SUFFICES ASSUME apc = "clear", apc' = "resurrect", NEW t \in Tables, t \in Allocated \ White,
                      mode[t] \in {"v", "kv"}, NEW e \in ent'[t], e[2] \in tobefnz' \ tobefnz
               PROVE  FALSE
    OBVIOUS
  <2>1. AtomicClear
    <3>1. ~UNCHANGED vars /\ Runs = FALSE /\ Next
      BY <1>2 DEF vars, inner, Runs
    <3>2. ~Mutator
      BY <3>1 DEF Mutator, Runs, luaC_newobj, Load, Pop, Finalize, SetEntry, ClearEntry, SetCell,
         lua_setmetatable, inner
    <3>3. gcstate = "insideatomic"
      BY <1>2 DEF SafeInv, TypeOK
    <3>4. QED
      BY <3>1, <3>2, <3>3 DEF Next, Collector, restartcollection, Propagate, PropagateAll, AtomicStep,
         AtomicBegin, AtomicGrayAgain, BeginConverge, PassEnds, traverseephemeron, AtomicEnd,
         Sweep, SweepEnds, CycleEnds, luaC_fullgc, inner
  <2>2. e[2] \in finobj \cap White /\ e[2] \notin Strings
    <3>1. e[2] \in finobj \cap White
      BY <2>1 DEF AtomicClear
    <3>2. QED
      BY <1>2, <3>1, Kinds DEF SafeInv, TypeOK
  <2>3. Settled(t) /\ pass = {}
    BY <1>2, ClearFacts
  <2>4. ent'[t] = IF t \in weak \cup allweak THEN WithoutVals(ent[t], White) ELSE ent[t]
    BY <2>1 DEF AtomicClear
  <2>5. t \notin weak /\ e \in ent[t]
    BY <2>2, <2>4 DEF WithoutVals, Cleared
  <2>6. e[2] \in Refs(t)
    BY <1>2, <2>2, <2>5, RefsOfKinds, Kinds DEF Vals, White
  <2>7. QED
    BY <2>2, <2>3, <2>5, <2>6 DEF Settled, Complete, WeakLeft, EphemeronLeft, AllLeft
<1>3. QED
  BY <1>1, <1>2, SafeInit, PTL DEF Spec, FinalizedLeaveWeakValues
=============================================================================
