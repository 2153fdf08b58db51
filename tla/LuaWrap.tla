-------------------------------- MODULE LuaWrap --------------------------------
(***************************************************************************)
(* The wrapper generator (libtool/generic.cpp), a clang tool that is run   *)
(* over the translation units of a program under test, and the example of  *)
(* such a function with its wrapper (test.c).                              *)
(*                                                                         *)
(* A function declaration is [what, name, def, params, result, main]: def  *)
(* says that some declaration of the unit is a definition, main that it is *)
(* in the unit's main file; a call is [what, name, main].  A wrapper is    *)
(* [name, call, args, push]: the conversion and the stack index for each   *)
(* parameter.  Files are sequences of wrappers or of names.                *)
(***************************************************************************)
EXTENDS Integers, Sequences, SequencesExt, Functions

CONSTANTS
  Options,    \* [LuaWrap, FuncDump, CallCount, MainFileOnly, AutoGenOut]
  Programs,   \* sequences of translation units
  DefaultOut, \* AutoGenOut before the options are parsed
  Dumped, CallCountName,    \* FuncDumpList and the function whose calls are counted
  MaxRuns,    \* bound
  INT_MAX

Outputs == {o.AutoGenOut : o \in Options} \cup {DefaultOut}

\* Types: booleans, characters and enumerations are integer types for clang.
GetLuaRetPushExpr(type) ==
  CASE type = "int"   -> "lua_pushinteger"
    [] type = "float" -> "lua_pushnumber"
    [] type \in {"char*", "pointer"} -> "lua_pushlightuserdata"
    [] OTHER -> ""
GetLuaParamPushExpr(type) ==
  CASE type = "int"     -> "lua_tointeger"
    [] type = "float"   -> "lua_tonumber"
    [] type = "char*"   -> "lua_tostring"
    [] type = "pointer" -> "lua_touserdata"
    [] OTHER -> ""

\* What a function declaration adds to the output.  Without a definition the
\* parameters and the call are left out, and only ");" is written.
Wrapper(d) ==
  [name |-> d.name, call |-> d.def,
   args |-> IF ~d.def THEN <<>>
            ELSE [i \in DOMAIN d.params |->
                    <<GetLuaParamPushExpr(d.params[i]), i - 1 - Len(d.params)>>],
   push |-> GetLuaRetPushExpr(d.result)]

-----------------------------------------------------------------------------
VARIABLES
  opts,     \* the options of this run
  program,  \* the program it is run over
  unit,     \* the number of the unit that is open, 0 if the tool does not run
  todo,     \* what the matcher has not visited in it yet
  out,      \* the files with wrappers
  dump,     \* the file that functions are dumped to
  count,    \* calls counted in this unit
  runs      \* ghost: how often it was run
wvars == <<opts, program, unit, todo, out, dump, count, runs>>

WrapInit ==
  /\ opts \in Options /\ program \in Programs /\ unit = 0 /\ todo = <<>>
  /\ out = [f \in Outputs |-> <<>>] /\ dump = <<>> /\ count = 0 /\ runs = 0

\* LCTASTConsumer: its FuncDecl opens the dump file and so empties it.
OpenUnit(p, n) ==
  unit' = n /\ todo' = p[n] /\ dump' = <<>> /\ count' = 0

\* main empties the default output, whatever the options say.
main(o, p) ==
  /\ unit = 0 /\ runs < MaxRuns
  /\ opts' = o /\ program' = p /\ runs' = runs + 1
  /\ out' = [out EXCEPT ![DefaultOut] = <<>>]
  /\ OpenUnit(p, 1)

Visible(d) == opts.MainFileOnly => d.main

\* FuncDecl::run.
run ==
  /\ unit > 0 /\ todo # <<>> /\ Head(todo).what = "function" /\ todo' = Tail(todo)
  /\ LET d == Head(todo)
     IN /\ out' = IF opts.LuaWrap /\ Visible(d)
                  THEN [out EXCEPT ![opts.AutoGenOut] = Append(@, Wrapper(d))] ELSE out
        /\ dump' = IF opts.FuncDump /\ Visible(d) /\ d.name \in Dumped
                   THEN Append(dump, d.name) ELSE dump
  /\ UNCHANGED <<opts, program, unit, count, runs>>

\* CallCounter::run.
countcall ==
  /\ unit > 0 /\ todo # <<>> /\ Head(todo).what = "call" /\ todo' = Tail(todo)
  /\ count' = count + IF opts.CallCount /\ Visible(Head(todo)) /\ Head(todo).name = CallCountName
                      THEN 1 ELSE 0
  /\ UNCHANGED <<opts, program, unit, out, dump, runs>>

\* The unit's consumer is destroyed, and the next unit's is made.
HandleTranslationUnit ==
  /\ unit > 0 /\ todo = <<>>
  /\ IF unit < Len(program) THEN OpenUnit(program, unit + 1)
     ELSE unit' = 0 /\ UNCHANGED <<todo, dump, count>>
  /\ UNCHANGED <<opts, program, out, runs>>

WrapNext ==
  (\E o \in Options, p \in Programs : main(o, p)) \/ run \/ countcall \/ HandleTranslationUnit

-----------------------------------------------------------------------------
Seen(p, u) == SelectSeq(p[u], LAMBDA d : d.what = "function" /\ Visible(d))
AllSeen(p) == FlattenSeq([u \in DOMAIN p |-> Seen(p, u)])

\* All functions are defined, none is declared twice, and their types have
\* conversions.
Wrappable(p) ==
  /\ IsInjective([i \in DOMAIN AllSeen(p) |-> AllSeen(p)[i].name])
  /\ \A i \in DOMAIN AllSeen(p) :
       LET d == AllSeen(p)[i]
       IN d.def /\ \A type \in {d.result} \cup ToSet(d.params) : type \notin {"void", "record"}
Compiles(wrappers) ==
  /\ IsInjective([i \in DOMAIN wrappers |-> wrappers[i].name])
  /\ \A i \in DOMAIN wrappers :
       LET w == wrappers[i]
       IN w.call /\ w.push # "" /\ \A j \in DOMAIN w.args : w.args[j][1] # ""

\* After a run over a program that can be wrapped, the output is C code with
\* one wrapper for each function, if it is the default file or was not
\* written before; and the dump holds the functions of the last unit only,
\* of all that were asked for (main, FuncDecl).
OutputsRight ==
  unit = 0 /\ runs > 0 =>
  LET fresh == opts.AutoGenOut = DefaultOut \/ runs = 1
  IN /\ fresh /\ opts.LuaWrap /\ Wrappable(program) =>
          /\ Compiles(out[opts.AutoGenOut])
          /\ [i \in DOMAIN out[opts.AutoGenOut] |-> out[opts.AutoGenOut][i].name]
               = [i \in DOMAIN AllSeen(program) |-> AllSeen(program)[i].name]
     /\ opts.AutoGenOut # DefaultOut => out[DefaultOut] = <<>>
     /\ opts.FuncDump =>
          ToSet(dump) = Dumped \cap {Seen(program, Len(program))[i].name :
                                       i \in DOMAIN Seen(program, Len(program))}

-----------------------------------------------------------------------------
(* str2int, the function under test: a sequence of digits and, as 10, of   *)
(* other characters.  An overflow is undefined and may give any int.       *)

UNDEFINED == -1
str2int(str) ==
  LET step(res, c) == IF c = 10 THEN res
                      ELSE IF res = UNDEFINED \/ res * 10 + c > INT_MAX THEN UNDEFINED
                      ELSE res * 10 + c
      res == FoldLeft(step, 0, str)
  IN IF res = UNDEFINED THEN -(INT_MAX + 1)..INT_MAX ELSE {res}

\* Whatever else is in the text, its digits are read as a number, if that
\* number is an int (str2int).
Str2intRight(str) ==
  LET digits == SelectSeq(str, LAMBDA c : c # 10)
      value  == FoldLeft(LAMBDA x, i : x + digits[i] * 10 ^ (Len(digits) - i), 0,
                         [i \in DOMAIN digits |-> i])
  IN value <= INT_MAX => str2int(str) = {value}
=============================================================================
