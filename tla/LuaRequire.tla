----------------------------- MODULE LuaRequire -----------------------------
(***************************************************************************)
(* The module loader (lua/src/loadlib.c) and luaL_requiref (lauxlib.c):    *)
(* require with its searchers and loaders, which are programs that may     *)
(* call require again, set package.loaded or throw an error; and the C     *)
(* libraries of the state.  The search along a path is in LuaPaths.        *)
(* What files there are and what libraries hold is found out by each       *)
(* search, for both may change at any time.                                *)
(***************************************************************************)
EXTENDS Integers, Sequences, FiniteSets, SequencesExt, Functions

CONSTANTS
  Modules,     \* names of modules
  Marked,      \* those with an "ignore mark", the form X-Y
  LibraryOf,   \* the file in package.cpath for each name
  RootOf,      \* the file of the part before the dot, or "none" without a dot
  MaxDepth,    \* bound: loaders that run at a time
  MaxLoads     \* bound: loaders that are run

VARIABLES
  loaded,     \* package.loaded
  preload,    \* names in package.preload
  loaders,    \* the loaders that run, the innermost last
  clibs,      \* the list in CLIBS, paths for handles
  loads,      \* how many loaders were run
  given,      \* history: what require gave for each name, but false
  nested      \* history: names whose loader was run by itself
rvars == <<loaded, preload, loaders, clibs, loads, given, nested>>

Libraries == {LibraryOf[n] : n \in Modules} \cup ({RootOf[n] : n \in Modules} \ {"none"})
Module(k) == <<"module", k>>
lua_toboolean(v) == v \notin {<<"nil">>, <<"false">>}

-----------------------------------------------------------------------------
(* Searchers.  These give the sets of what may come out: the list of C     *)
(* libraries and the status.                                               *)

Outcome(libs, stat) == [clibs |-> libs, stat |-> stat]

checkclib(libs, path) == path \in Range(libs)
addtoclib(libs, path) == Append(libs, path)

\* With a library that can be loaded or not and a function that is in it or not.
lookforfunc(libs, path) ==
  LET here == IF checkclib(libs, path) THEN libs ELSE addtoclib(libs, path)
  IN {Outcome(here, "OK"), Outcome(here, "ERRFUNC")} \cup
     (IF checkclib(libs, path) THEN {} ELSE {Outcome(libs, "ERRLIB")})

\* luaopen_X and luaopen_Y for a name X-Y.
loadfunc(libs, path, name) ==
  LET first == lookforfunc(libs, path)
  IN IF name \notin Marked THEN first
     ELSE {r \in first : r.stat # "ERRFUNC"} \cup
          UNION {lookforfunc(r.clibs, path) : r \in {x \in first : x.stat = "ERRFUNC"}}

searcher_preload(libs, name) == {Outcome(libs, IF name \in preload THEN "loader" ELSE "message")}
searcher_Lua(libs, name) == {Outcome(libs, stat) : stat \in {"message", "loader", "error"}}
searcher_C(libs, name) ==
  {Outcome(libs, "message")} \cup
  {Outcome(r.clibs, IF r.stat = "OK" THEN "loader" ELSE "error") : r \in loadfunc(libs, LibraryOf[name], name)}
searcher_Croot(libs, name) ==
  {Outcome(libs, "message")} \cup
  (IF RootOf[name] = "none" THEN {} ELSE
     {Outcome(r.clibs, CASE r.stat = "OK" -> "loader" [] r.stat = "ERRFUNC" -> "message" [] OTHER -> "error") :
        r \in loadfunc(libs, RootOf[name], name)})

\* A searcher is called when the ones before it gave a message.
findloader(libs, name) ==
  LET Missed(results) == {r.clibs : r \in {x \in results : x.stat = "message"}}
      Ended(results)  == {r \in results : r.stat # "message"}
      first  == searcher_preload(libs, name)
      second == UNION {searcher_Lua(l, name) : l \in Missed(first)}
      third  == UNION {searcher_C(l, name) : l \in Missed(second)}
      fourth == UNION {searcher_Croot(l, name) : l \in Missed(third)}
  IN Ended(first) \cup Ended(second) \cup Ended(third) \cup fourth

-----------------------------------------------------------------------------
(* require.                                                                *)

RequireInit ==
  /\ loaded = [n \in Modules |-> <<"nil">>] /\ preload = {} /\ loaders = <<>>
  /\ clibs = <<>> /\ loads = 0
  /\ given = [n \in Modules |-> {}] /\ nested = {}

Given(name, v) == [given EXCEPT ![name] = IF lua_toboolean(v) THEN @ \cup {v} ELSE @]

\* An error ends the loaders up to the innermost require that was called by pcall.
Unwound(stack) ==
  LET caught == {i \in DOMAIN stack : stack[i].protected}
  IN IF caught = {} THEN <<>>
     ELSE SubSeq(stack, 1, (CHOOSE i \in caught : \A j \in caught : j <= i) - 1)

\* Up to the call of the loader.
ll_require ==
  \E name \in Modules, protected \in BOOLEAN :
    \/ /\ lua_toboolean(loaded[name]) /\ given' = Given(name, loaded[name])
       /\ UNCHANGED <<loaded, preload, loaders, clibs, loads, nested>>
    \/ /\ ~lua_toboolean(loaded[name]) /\ Len(loaders) < MaxDepth /\ loads < MaxLoads
       /\ \E r \in findloader(clibs, name) :
            /\ clibs' = r.clibs
            /\ IF r.stat = "loader"
               THEN /\ loads' = loads + 1
                    /\ loaders' = Append(loaders, [name |-> name, module |-> Module(loads + 1),
                                                   protected |-> protected])
                    /\ nested' = IF \E f \in Range(loaders) : f.name = name THEN nested \cup {name}
                                 ELSE nested
               ELSE /\ loaders' = IF protected THEN loaders ELSE Unwound(loaders)
                    /\ UNCHANGED <<loads, nested>>
       /\ UNCHANGED <<loaded, preload, given>>

\* Mutant: a loader that returns nothing makes the value true.
registered_true(name, v) ==
  [loaded EXCEPT ![name] = IF v # <<"nil">> THEN v ELSE <<"true">>]
registered(name, v) ==
  [loaded EXCEPT ![name] = IF v # <<"nil">> THEN v ELSE IF @ = <<"nil">> THEN <<"true">> ELSE @]

\* The loader returns its module, nothing, or false; but not false when it has set
\* package.loaded.
loader_returns ==
  /\ loaders # <<>>
  /\ LET f == Last(loaders)
     IN \E v \in {f.module, <<"nil">>} \cup (IF loaded[f.name] = f.module THEN {} ELSE {<<"false">>}) :
          /\ loaded' = registered(f.name, v)
          /\ given' = Given(f.name, loaded'[f.name])
          /\ loaders' = Front(loaders)
  /\ UNCHANGED <<preload, clibs, loads, nested>>

loader_sets_loaded ==
  /\ loaders # <<>>
  /\ loaded' = [loaded EXCEPT ![Last(loaders).name] = Last(loaders).module]
  /\ UNCHANGED <<preload, loaders, clibs, loads, given, nested>>

loader_fails ==
  /\ loaders # <<>> /\ loaders' = Unwound(loaders)
  /\ UNCHANGED <<loaded, preload, clibs, loads, given, nested>>

set_preload ==
  /\ \E name \in Modules : preload' = (preload \cup {name}) \ (preload \cap {name})
  /\ UNCHANGED <<loaded, loaders, clibs, loads, given, nested>>

\* package.loadlib, which gives the program what it finds.
ll_loadlib ==
  /\ \E path \in Libraries : \E r \in lookforfunc(clibs, path) : clibs' = r.clibs
  /\ UNCHANGED <<loaded, preload, loaders, loads, given, nested>>

\* luaL_requiref, as luaL_openlibs calls it: the host opens a library of its own.
luaL_requiref ==
  /\ loaders = <<>>
  /\ \E name \in Modules :
       IF lua_toboolean(loaded[name]) THEN UNCHANGED <<loaded, loads>> /\ given' = Given(name, loaded[name])
       ELSE /\ loads < MaxLoads /\ loads' = loads + 1
            /\ loaded' = [loaded EXCEPT ![name] = Module(loads + 1)]
            /\ given' = Given(name, Module(loads + 1))
  /\ UNCHANGED <<preload, loaders, clibs, nested>>

\* gctm when the state is closed, and a new state.
gctm ==
  /\ loaders = <<>> /\ clibs # <<>>
  /\ clibs' = <<>> /\ loaded' = [n \in Modules |-> <<"nil">>] /\ preload' = {} /\ loads' = 0
  /\ given' = [n \in Modules |-> {}] /\ nested' = {}
  /\ UNCHANGED loaders

RequireNext ==
  ll_require \/ loader_returns \/ loader_sets_loaded \/ loader_fails \/ set_preload \/ ll_loadlib
    \/ luaL_requiref \/ gctm
RequireSpec == RequireInit /\ [][RequireNext]_rvars

\* All that require a module get one value, whatever loaders fail, return nothing or
\* set package.loaded, and from whichever searcher they come, unless a loader was
\* run by itself; and no library is opened twice (ll_require, lookforfunc).
ModulesRight ==
  /\ \A name \in Modules \ nested : Cardinality(given[name]) <= 1
  /\ IsInjective(clibs)
=============================================================================
