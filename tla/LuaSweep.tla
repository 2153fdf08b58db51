------------------------------ MODULE LuaSweep ------------------------------
(***************************************************************************)
(* The sweep and finalization half of the embedded interpreter's collector *)
(* (lua/src/lgc.c), link by link: the lists allgc, finobj and tobefnz, the *)
(* position 'sweepgc' of the incremental sweep, which is the address of a  *)
(* link, and what creates, moves and frees objects around it: luaC_newobj, *)
(* luaC_checkfinalizer, udata2finalize, runafewfinalizers, luaC_step, and  *)
(* luaC_freeallobjects, which closes the state.                            *)
(*                                                                         *)
(* Objects refer to nothing here (LuaMark has the references): an object   *)
(* is reachable exactly while the program holds it.  Marked stands for the *)
(* colors gray and black.                                                  *)
(***************************************************************************)
EXTENDS Integers, FiniteSets

CONSTANTS
  Objs,        \* objects
  Null,        \* the null pointer
  UINT_MAX     \* greatest unsigned int, the type of gcfinnum

ASSUME ObjsAssumption ==
  IsFiniteSet(Objs) /\ Objs \cap {"allgc", "finobj", "tobefnz", Null} = {}
ASSUME NullAssumption == Null \notin {"allgc", "finobj", "tobefnz"}
\* gcfinnum would be doubled to 0 while objects wait if there were more of them.
ASSUME FinnumAssumption == UINT_MAX \in Nat \ {0} /\ Cardinality(Objs) <= UINT_MAX

VARIABLES
  gcstate,
  sweepgc,       \* the link the sweep goes on with, or Null
  next,          \* per link (a list header or an object): the object it points to
  color,         \* per object: "free", "w0", "w1" or "marked"
  currentwhite,
  FINALIZEDBIT,  \* objects with that bit
  gcfinnum,
  held,          \* objects the program can reach
  ctl,           \* who runs: "program", "step", "few", "callfin" (see luaC_step), "close"
  called,        \* finalizers called in this runafewfinalizers; 1 for any in lua_close
  late           \* ghost: objects given a finalizer since lua_close separated them

vars == <<gcstate, sweepgc, next, color, currentwhite, FINALIZEDBIT, gcfinnum, held, ctl,
          called, late>>

Headers == {"allgc", "finobj", "tobefnz"}
Links   == Headers \cup Objs

\* Mutant: the other white is added (| for ^), and both bits are set.
otherwhite_or == "w0w1"
otherwhite == IF currentwhite = "w0" THEN "w1" ELSE "w0"
\* Mutant: a sweep phase is forgotten.
issweepphase_two == gcstate \in {"swpallgc", "swpfinobj"}
issweepphase == gcstate \in {"swpallgc", "swpfinobj", "swptobefnz", "swpend"}
keepinvariant == gcstate = "propagate"
Allocated == {o \in Objs : color[o] # "free"}
Dead(o) == color[o] = otherwhite

\* The k-th object after link p, counted from 0; Null once the list has ended.
After(p) ==
  LET nth[k \in 0..Cardinality(Objs)] ==
        IF k = 0 THEN next[p]
        ELSE IF nth[k - 1] = Null THEN Null ELSE next[nth[k - 1]]
  IN nth

\* The objects after link p: under a header, those of the list.
InList(p) == {After(p)[k] : k \in 0..Cardinality(Objs)} \ {Null}

\* The first object of S after link p, or Null, and how many come before it.
StepsTo(p, S) ==
  CHOOSE k \in 0..Cardinality(Objs) :
    After(p)[k] \in S \cup {Null} /\ \A j \in 0..(k - 1) : After(p)[j] \notin S \cup {Null}
FirstIn(p, S) == After(p)[StepsTo(p, S)]

-----------------------------------------------------------------------------
(* sweeplist.                                                              *)

\* One object: a dead one is unlinked and freed, another one turns white and
\* its own link is the next position; Null when the list has ended.
SweepOne(p) ==
  LET curr == next[p]
      dead == curr # Null /\ Dead(curr)
      nx   == IF dead THEN [next EXCEPT ![p] = next[curr], ![curr] = Null] ELSE next
      pos  == IF curr = Null \/ dead THEN p ELSE curr
  IN [next  |-> nx,
      color |-> IF curr = Null THEN color
                ELSE [color EXCEPT ![curr] = IF dead THEN "free" ELSE currentwhite],
      pos   |-> IF nx[pos] = Null THEN Null ELSE pos]

\* sweeptolive: on to the first object that is not dead.
SweepToLive(p) ==
  LET alive == {o \in Objs : ~Dead(o)}
      live  == FirstIn(p, alive)
      gone  == {After(p)[k] : k \in 0..(StepsTo(p, alive) - 1)}
      nx    == [l \in Links |-> IF l = p THEN live ELSE IF l \in gone THEN Null ELSE next[l]]
  IN [next  |-> nx,
      color |-> [o \in Objs |-> IF o \in gone THEN "free"
                                ELSE IF o = live THEN currentwhite ELSE color[o]],
      pos   |-> IF live = Null \/ nx[live] = Null THEN Null ELSE live]

-----------------------------------------------------------------------------
(* The program.  It runs between collector steps and inside finalizers.    *)

ProgramRuns == ctl = "program" \/ (ctl \in {"few", "callfin", "close"} /\ called > 0)

\* Mutant: a new object gets the other white.
luaC_newobj_other(o) ==
  /\ ProgramRuns /\ color[o] = "free"
  /\ color' = [color EXCEPT ![o] = otherwhite]
  /\ next' = [next EXCEPT ![o] = next["allgc"], !["allgc"] = o]
  /\ held' = held \cup {o}
  /\ UNCHANGED <<gcstate, sweepgc, currentwhite, FINALIZEDBIT, gcfinnum, ctl, called, late>>

luaC_newobj(o) ==
  /\ ProgramRuns /\ color[o] = "free"
  /\ color' = [color EXCEPT ![o] = currentwhite]
  /\ next' = [next EXCEPT ![o] = next["allgc"], !["allgc"] = o]
  /\ held' = held \cup {o}
  /\ UNCHANGED <<gcstate, sweepgc, currentwhite, FINALIZEDBIT, gcfinnum, ctl, called, late>>

Drop(o) ==
  /\ ProgramRuns /\ o \in held
  /\ held' = held \ {o}
  /\ UNCHANGED <<gcstate, sweepgc, next, color, currentwhite, FINALIZEDBIT, gcfinnum, ctl,
                 called, late>>

\* Mutant: the object moves with the sweep standing on it.
Moved_on(o) == [next |-> next, color |-> color, pos |-> sweepgc]
Moved(o) ==
  IF issweepphase /\ sweepgc = o THEN SweepToLive(o)
  ELSE [next |-> next, color |-> color, pos |-> sweepgc]

\* The object is given a metatable with __gc and moves from allgc to finobj; the
\* sweep must not be left standing on its link.
luaC_checkfinalizer(o) ==
  LET nx == Moved(o).next
      cl == Moved(o).color
      pred == CHOOSE l \in Links : nx[l] = o
  IN
  /\ ProgramRuns /\ o \in held \ FINALIZEDBIT
  /\ color' = IF issweepphase THEN [cl EXCEPT ![o] = currentwhite] ELSE cl
  /\ sweepgc' = Moved(o).pos
  /\ next' = [nx EXCEPT ![pred] = nx[o], ![o] = nx["finobj"], !["finobj"] = o]
  /\ FINALIZEDBIT' = FINALIZEDBIT \cup {o}
  /\ late' = IF ctl = "close" THEN late \cup {o} ELSE late
  /\ UNCHANGED <<gcstate, currentwhite, gcfinnum, held, ctl, called>>

-----------------------------------------------------------------------------
(* singlestep, state by state.                                             *)

\* restartcollection marks what is waiting to be finalized.
Pause ==
  /\ gcstate = "pause"
  /\ color' = [o \in Objs |-> IF o \in InList("tobefnz") THEN "marked" ELSE color[o]]
  /\ gcstate' = "propagate"
  /\ UNCHANGED <<sweepgc, next, currentwhite, FINALIZEDBIT, gcfinnum, held, called, late>>

Propagate(o) ==
  /\ gcstate = "propagate" /\ o \in held
  /\ color' = [color EXCEPT ![o] = "marked"]
  /\ UNCHANGED <<gcstate, sweepgc, next, currentwhite, FINALIZEDBIT, gcfinnum, held, called, late>>

LastOf(h, l) == l \in {h} \cup InList(h) /\ next[l] = Null

\* Mutant: they are not taken out of finobj.
Separated_kept(white) ==
  LET dying == InList("finobj") \cap white
  IN [l \in Links |->
        IF l \in dying THEN FirstIn(l, dying)
        ELSE IF LastOf("tobefnz", l) THEN FirstIn("finobj", dying)
        ELSE next[l]]

\* separatetobefnz: white objects of finobj move, in order, to the end of tobefnz.
Separated(white) ==
  LET dying   == InList("finobj") \cap white
      staying == InList("finobj") \ white
  IN [l \in Links |->
        IF l \in {"finobj"} \cup staying THEN FirstIn(l, staying)
        ELSE IF l \in dying THEN FirstIn(l, dying)
        ELSE IF LastOf("tobefnz", l) THEN FirstIn("finobj", dying)
        ELSE next[l]]

\* Mutant: objects to be finalized are not marked.
AllMarked_but(dead) ==
  [o \in Objs |-> IF color[o] = "free" THEN "free"
                  ELSE IF o \in dead \cup (FINALIZEDBIT \ held) THEN color[o] ELSE "marked"]

\* Every object is marked but the dead ones.
AllMarked(dead) ==
  [o \in Objs |-> IF color[o] = "free" THEN "free"
                  ELSE IF o \in dead THEN color[o] ELSE "marked"]

\* The atomic phase, up to entersweep: mark what is held, then what is to be
\* finalized, exchange the whites and sweep the first object of allgc.
Atomic ==
  LET white == {o \in Allocated \ held : color[o] # "marked"}
      nx    == Separated(white)
      dying == white \cap FINALIZEDBIT
      cl    == AllMarked(white \ dying)
      first == nx["allgc"]
      dead  == first # Null /\ first \in white \ dying
      pos   == IF dead \/ first = Null THEN "allgc" ELSE first
      swept == IF dead THEN [nx EXCEPT !["allgc"] = nx[first], ![first] = Null] ELSE nx
  IN
  /\ gcstate = "propagate"
  /\ gcfinnum' = 1
  /\ currentwhite' = otherwhite
  /\ next' = swept
  /\ color' = IF first = Null THEN cl
              ELSE [cl EXCEPT ![first] = IF dead THEN "free" ELSE otherwhite]
  /\ sweepgc' = IF swept[pos] = Null THEN Null ELSE pos
  /\ gcstate' = "swpallgc"
  /\ UNCHANGED <<FINALIZEDBIT, held, called, late>>

\* sweepstep, with a count of one object.
SweepStep(state, nextstate, nextlist) ==
  LET s == SweepOne(sweepgc)
      more == sweepgc # Null /\ s.pos # Null
  IN
  /\ gcstate = state
  /\ IF sweepgc = Null THEN UNCHANGED <<next, color>>
     ELSE next' = s.next /\ color' = s.color
  /\ gcstate' = IF more THEN gcstate ELSE nextstate
  /\ sweepgc' = IF more THEN s.pos ELSE nextlist
  /\ UNCHANGED <<currentwhite, FINALIZEDBIT, gcfinnum, held, called, late>>

SweepEnd ==
  /\ gcstate = "swpend"
  /\ gcstate' = "callfin"
  /\ UNCHANGED <<sweepgc, next, color, currentwhite, FINALIZEDBIT, gcfinnum, held, called, late>>

CycleEnds ==
  /\ gcstate = "callfin" /\ next["tobefnz"] = Null
  /\ gcstate' = "pause"
  /\ UNCHANGED <<sweepgc, next, color, currentwhite, FINALIZEDBIT, gcfinnum, held, called, late>>

SingleStep ==
  \/ Pause
  \/ \E o \in Objs : Propagate(o)
  \/ Atomic
  \/ SweepStep("swpallgc", "swpfinobj", "finobj")
  \/ SweepStep("swpfinobj", "swptobefnz", "tobefnz")
  \/ SweepStep("swptobefnz", "swpend", Null)
  \/ SweepEnd
  \/ CycleEnds

-----------------------------------------------------------------------------
(* luaC_step: single steps, as many as the debt asks for; then, unless the *)
(* cycle is over, a few finalizers.                                        *)

StepBegins == ctl = "program" /\ SingleStep /\ ctl' = "step"
StepGoesOn == ctl = "step" /\ gcstate # "pause" /\ SingleStep /\ ctl' = "step"

\* GCScallfin: this single step is a runafewfinalizers.
StepCallsFinalizers ==
  /\ ctl \in {"program", "step"} /\ gcstate = "callfin" /\ next["tobefnz"] # Null
  /\ ctl' = "callfin" /\ called' = 0
  /\ UNCHANGED <<gcstate, sweepgc, next, color, currentwhite, FINALIZEDBIT, gcfinnum, held, late>>

StepEnds ==
  /\ ctl = "step"
  /\ ctl' = IF gcstate = "pause" THEN "program" ELSE "few"
  /\ called' = 0
  /\ UNCHANGED <<gcstate, sweepgc, next, color, currentwhite, FINALIZEDBIT, gcfinnum, held, late>>

\* udata2finalize and the call: the first object of tobefnz goes back to allgc,
\* and is swept if a sweep is under way.
GCTM ==
  LET o == next["tobefnz"] IN
  /\ o # Null
  /\ (ctl \in {"few", "callfin"} /\ called < gcfinnum) \/ ctl = "close"
  /\ next' = [next EXCEPT !["tobefnz"] = next[o], ![o] = next["allgc"], !["allgc"] = o]
  /\ FINALIZEDBIT' = FINALIZEDBIT \ {o}
  /\ color' = IF issweepphase THEN [color EXCEPT ![o] = currentwhite] ELSE color
  /\ held' = held \cup {o}
  /\ called' = IF ctl = "close" THEN 1 ELSE called + 1
  /\ UNCHANGED <<gcstate, sweepgc, currentwhite, gcfinnum, ctl, late>>

\* Mutant: the quota is reset although objects wait.
Doubled_reset(n) == 0
\* An unsigned int wraps around.
Doubled(n) == (2 * n) % (UINT_MAX + 1)

\* The loop of runafewfinalizers ends, and luaC_step goes on or returns.
FewDone ==
  /\ ctl \in {"few", "callfin"}
  /\ next["tobefnz"] = Null \/ called >= gcfinnum
  /\ gcfinnum' = IF next["tobefnz"] = Null THEN 0 ELSE Doubled(gcfinnum)
  /\ ctl' = IF ctl = "callfin" THEN "step" ELSE "program"
  /\ called' = 0
  /\ UNCHANGED <<gcstate, sweepgc, next, color, currentwhite, FINALIZEDBIT, held, late>>

\* A finalizer raises an error, which leaves runafewfinalizers and luaC_step.
FinalizerFails ==
  /\ ctl \in {"few", "callfin"} /\ called > 0
  /\ ctl' = "program" /\ called' = 0
  /\ UNCHANGED <<gcstate, sweepgc, next, color, currentwhite, FINALIZEDBIT, gcfinnum, held, late>>

\* luaC_fullgc in the middle of a mark phase: entersweep with the same white.
luaC_fullgc ==
  LET s == SweepOne("allgc") IN
  /\ ctl = "program" /\ keepinvariant
  /\ next' = s.next /\ color' = s.color /\ sweepgc' = s.pos
  /\ gcstate' = "swpallgc" /\ ctl' = "step"
  /\ UNCHANGED <<currentwhite, FINALIZEDBIT, gcfinnum, held, called, late>>

-----------------------------------------------------------------------------
(* luaC_freeallobjects, which lua_close calls.  os.exit may close the state *)
(* anywhere in the program, in a finalizer too, and even in one that        *)
(* luaC_freeallobjects has called; nothing that was under way goes on then. *)

\* Every object with a finalizer is due now.
lua_close ==
  /\ ProgramRuns
  /\ next' = Separated(Objs)
  /\ ctl' = "close" /\ called' = 0 /\ late' = {}
  /\ UNCHANGED <<gcstate, sweepgc, color, currentwhite, FINALIZEDBIT, gcfinnum, held>>

\* When all finalizers were called (by GCTM; errors are dropped), whatever there
\* is looks dead and is freed.  The process that is started after this one
\* begins with a new state.
FreeAll ==
  /\ ctl = "close" /\ next["tobefnz"] = Null
  /\ gcstate' = "pause" /\ sweepgc' = Null /\ currentwhite' = "w0"
  /\ next' = [l \in Links |-> Null] /\ color' = [o \in Objs |-> "free"]
  /\ FINALIZEDBIT' = {} /\ gcfinnum' = 0 /\ held' = {} /\ ctl' = "program" /\ called' = 0
  /\ late' = {}

-----------------------------------------------------------------------------
Init ==
  /\ gcstate = "pause" /\ sweepgc = Null /\ currentwhite = "w0"
  /\ next = [l \in Links |-> Null] /\ color = [o \in Objs |-> "free"]
  /\ FINALIZEDBIT = {} /\ gcfinnum = 0 /\ held = {} /\ ctl = "program" /\ called = 0
  /\ late = {}

Program == \E o \in Objs : luaC_newobj(o) \/ Drop(o) \/ luaC_checkfinalizer(o)

Collector ==
  \/ StepBegins \/ StepGoesOn \/ StepCallsFinalizers \/ StepEnds
  \/ GCTM \/ FewDone \/ FinalizerFails \/ luaC_fullgc
  \/ lua_close \/ FreeAll

Next == Program \/ Collector

Spec == Init /\ [][Next]_vars

\* The program keeps allocating, so luaC_step keeps being called, and a step and
\* a finalizer that were begun end: their loops are bounded by debt and gcfinnum.
Fairness ==
  /\ WF_vars(StepBegins \/ StepCallsFinalizers) /\ WF_vars(StepEnds)
  /\ WF_vars(GCTM) /\ WF_vars(FewDone)

FairSpec == Spec /\ Fairness

-----------------------------------------------------------------------------
(* Properties.                                                             *)

TypeOK ==
  /\ gcstate \in {"pause", "propagate", "swpallgc", "swpfinobj", "swptobefnz", "swpend",
                  "callfin"}
  /\ sweepgc \in Links \cup {Null} /\ next \in [Links -> Objs \cup {Null}]
  /\ color \in [Objs -> {"free", "w0", "w1", "marked"}] /\ currentwhite \in {"w0", "w1"}
  /\ FINALIZEDBIT \subseteq Objs /\ gcfinnum \in 0..UINT_MAX /\ held \subseteq Objs
  /\ ctl \in {"program", "step", "few", "callfin", "close"} /\ called \in Nat /\ late \subseteq Objs

\* Every allocated object is on exactly one list, and nothing freed is on any;
\* the objects with FINALIZEDBIT are those of finobj and tobefnz.
ListsPartition ==
  /\ InList("allgc") \cup InList("finobj") \cup InList("tobefnz") = Allocated
  /\ InList("allgc") = Allocated \ FINALIZEDBIT
  /\ InList("finobj") \cap InList("tobefnz") = {}
  /\ \A h \in Headers : After(h)[Cardinality(Objs)] = Null

\* The sweep never stands on the link of a freed object, and in the first two
\* sweeps it stands in the list it sweeps, until lua_close ends all sweeping.
SweepPosition ==
  /\ sweepgc \in Objs => color[sweepgc] # "free"
  /\ gcstate = "swpallgc" /\ sweepgc # Null /\ ctl # "close" =>
        sweepgc \in {"allgc"} \cup InList("allgc")
  /\ gcstate = "swpfinobj" /\ sweepgc # Null /\ ctl # "close" =>
        sweepgc \in {"finobj"} \cup InList("finobj")

\* What the program holds is neither free nor about to be freed.
HeldSurvives == \A o \in held : color[o] # "free" /\ ~Dead(o)

\* Nothing is freed before its finalizer was called, not even when the state
\* is closed, but for what a finalizer called at closing has given one
\* (sweeplist, luaC_freeallobjects).
NoFreeBeforeFinalizer ==
  [][\A o \in Objs : color[o] # "free" /\ color'[o] = "free" => o \notin FINALIZEDBIT \ late]_vars

\* An object whose finalizer is due gets it called, even when finalizers fail.
FinalizersGetCalled ==
  \A o \in Objs : (o \in InList("tobefnz")) ~> (o \notin InList("tobefnz"))

\* After the sweep every object is white again except some still waiting for
\* their finalizers.
SweepWhitens ==
  gcstate = "swpend" => \A o \in Allocated \ InList("tobefnz") : color[o] = currentwhite

\* lgc.h: "The invariant is restored when sweep ends and all objects are white
\* again", which restartcollection relies on.
AllWhiteAtPause ==
  gcstate = "pause" => \A o \in Allocated : color[o] = currentwhite
=============================================================================
