------------------------------- MODULE MCLibrary -------------------------------
(***************************************************************************)
(* The parts of the program that keep no state in common: a table, the     *)
(* shell's completions, the wrapper generator, and library functions that  *)
(* are called with one input.  A behaviour is one of one part; the others  *)
(* rest in a state of their own.                                           *)
(***************************************************************************)
EXTENDS LuaTable, LuaMatch, LuaPack, LuaUtf8, LuaTablib, LuaStrings, LuaFiles, LuaRequire,
        LuaPaths, Completion, LuaWrap

CONSTANTS string1, object1      \* keys: a string and an object with an address
VARIABLE job        \* the part, and the input of a library function

For == INSTANCE LuaFor

MCHash == [x \in {string1, object1} |-> IF x = string1 THEN 1 ELSE 5]

-----------------------------------------------------------------------------
(* The shell and the generator.                                            *)

Str(text) == [text |-> text, kind |-> "string"]
MCGlobals == {Str(<<"a", "1">>), Str(<<"1">>), Str(<<"a", "a">>), [text |-> <<"1">>, kind |-> "number"],
              [text |-> <<"f">>, kind |-> "other"]}
MCFuncs   == << <<"a">>, <<"a", ".", "1">> >>

Function(name, def, params, result, inmain) ==
  [what |-> "function", name |-> name, def |-> def, params |-> params, result |-> result, main |-> inmain]
CallOf(name) == [what |-> "call", name |-> name, main |-> TRUE]
F == Function("f", TRUE, <<"char*", "int">>, "float", TRUE)
G == Function("g", TRUE, <<"pointer">>, "char*", TRUE)
MCPrograms ==
  {<< <<F, CallOf("f")>>, <<G, CallOf("f")>> >>, << <<F, F>> >>,
   << <<Function("h", FALSE, <<"int">>, "int", TRUE), F>> >>,
   << <<F>>, <<Function("g", TRUE, <<>>, "void", TRUE)>> >>,
   << <<Function("g", TRUE, <<"record">>, "int", FALSE), F>> >>}
MCOptions ==
  [LuaWrap : BOOLEAN, FuncDump : BOOLEAN, CallCount : {TRUE}, MainFileOnly : BOOLEAN,
   AutoGenOut : {"dummy.c", "wrappers.c"}]

-----------------------------------------------------------------------------
(* Inputs of the library functions.                                        *)

Subjects == UNION {[1..n -> {"a", "b"}] : n \in 0..3}
Items ==
  {P!Single(<<"a">>, {"a"}, ""), P!Single(<<"a", "*">>, {"a"}, "*"),
   P!Single(<<".", "-">>, {"a", "b"}, "-"), P!Single(<<"[", "^", "a", "]", "+">>, {"b"}, "+"),
   P!Single(<<"%", "a", "?">>, {"a", "b"}, "?"), P!Other(<<"(">>, "open"), P!Other(<<")">>, "close"),
   P!Other(<<"(", ")">>, "position"), P!Other(<<"%", "1">>, "again"),
   P!Other(<<"%", "b", "a", "b">>, "balanced"), P!Other(<<"$">>, "end"),
   [P!Other(<<"%", "f", "[", "a", "]">>, "frontier") EXCEPT !.set = {"a"}]}
Patterns ==
  {x \in UNION {[1..n -> Items] : n \in 0..2} \cup
         {<<P!Other(<<"(">>, "open")>> \o y : y \in [1..3 -> Items]} : P!Unambiguous(x)}

Option(o, n) == [o |-> o, n |-> n]
PackOptions ==
  {Option(o, -1) : o \in {"b", "H", "j", "T", "s", "z", "x", "X", "<", "!", "c"}}
    \cup {Option("i", 3), Option("i", 4), Option("I", 1), Option("I", 4), Option("s", 1),
          Option("c", 2), Option("!", 3)}
ShortFormats == UNION {[1..n -> PackOptions] : n \in 0..2}
Formats == ShortFormats \cup {<<Option(o, -1)>> \o f : o \in {"!", ">"}, f \in ShortFormats}
ArgsOf(o) ==
  CASE Kind(o) \in {"Kint", "Kuint"} -> {-32, -2, -1, 0, 1, 3, 31}
    [] Kind(o) \in {"Kchar", "Kstring", "Kzstr"} -> {<<>>, <<1>>, <<3, 0>>, <<3, 1, 1, 2>>}
    [] OTHER -> {}
RECURSIVE ArgLists(_)
ArgLists(f) ==
  CASE f = <<>> -> {<<>>}
    [] f # <<>> /\ ~Consumes(Kind(f[1].o)) -> ArgLists(Tail(f))
    [] OTHER -> {<<x>> \o rest_ : x \in ArgsOf(f[1].o), rest_ \in ArgLists(Tail(f))}

CodePoints == {0, 65, 127, 128, 2047, 2048, 55296, 65535, 65536, MAXUNICODE}
ByteSet    == {0, 65, 128, 143, 144, 159, 160, 191, 192, 193, 194, 223, 224, 239, 240, 244, 245, 248, 255}
LeadBytes  == {224, 240, 244, 245, 248}

Id(n)     == [i \in 1..n |-> i]
Ranked(r) == {<<x, y>> \in (DOMAIN r) \X (DOMAIN r) : r[x] < r[y]}

Texts(chars, n) == UNION {[1..k -> chars] : k \in 0..n}
Format(o, n) == [o |-> o, n |-> n]
ReadFormats  == {Format("n", 0), Format("l", 0), Format("L", 0), Format("a", 0), Format("#", 0), Format("#", 2)}
Pieces    == {Piece([i \in 1..n |-> n], value) : n \in {0, 1, 2, 3, 7, 9}, value \in BOOLEAN}
Functions == {<<"function", 1>>, <<"function", 2>>}
FieldsOf(V) ==
  {x \in UNION {[1..n -> {Field(k, v) : k \in {"_G", "m", "#1"}, v \in V}] : n \in 0..2} :
     \A i, j \in DOMAIN x : x[i].key = x[j].key => i = j}
AllIndices == For!LUA_MININTEGER..LUA_MAXINTEGER
Limits    == {For!NaN} \cup {For!IntLimit(n) : n \in AllIndices} \cup {For!FloatLimit(h) : h \in -19..19}
FileSets  == {{}, {<<"a">>, <<"a", "/", "a">>}, {<<"a", "a">>, <<"a", "/">>}}

call ==
  \/ \E x \in Texts({"1", "0", ".", "x", "e", "-", "\n"}, 5) : job' = <<"read", x, <<Format("n", 0)>>>>
  \/ \E x \in Texts({"1", "-", "\n", ".", " "}, 4), n \in 0..2 : \E f \in [1..n -> ReadFormats] :
       job' = <<"read", x, f>>
  \/ \E x \in Texts({"0", "1", "5", "6", "7", "x", "a", "-", " "}, 4) : job' = <<"integer", x>>
  \/ \E x \in Texts({"EF", "BB", "BF", "#", "\n", "ESC", "a"}, 5) : job' = <<"load", x>>
  \/ \E x \in Texts(0..3, 6) : job' = <<"references", x>>
  \/ \E n \in 0..3 : \E x \in [1..n -> Pieces] : job' = <<"buffer", x>>
  \/ \E d \in 1..20, level \in 0..5 : job' = <<"traceback", d, level>>
  \/ \E x \in FieldsOf(Functions \cup {<<"table", f>> : f \in FieldsOf(Functions)}) : job' = <<"name", x>>
  \/ \E x \in Texts({"a", ";", "?"}, 5), n \in {<<"a">>, <<"a", ".">>}, f \in FileSets :
       job' = <<"searchpath", n, x, f>>
  \/ \E x, step \in AllIndices, limit \in Limits : job' = <<"for", x, limit, step>>
  \/ \E x \in Texts({"a", ";", "b"}, 6) : job' = <<"setpath", x>>
  \/ \E x \in Patterns, s \in Subjects : job' = <<"match", x, s>>
  \/ \E f \in Formats : \E x \in ArgLists(f) : job' = <<"pack", f, x>>
  \/ \E o \in PackOptions, n \in 0..4 : \E x \in [1..n -> Bytes] : job' = <<"unpack", o, x>>
  \/ \E n \in 0..3 : \E x \in [1..n -> CodePoints] : job' = <<"utf8.char", x>>
  \/ \E n \in 1..3 : \E x \in [1..n -> ByteSet] : job' = <<"utf8.codepoint", x>>
  \/ \E c \in LeadBytes : \E x \in [1..3 -> ByteSet] : job' = <<"utf8.codepoint", <<c>> \o x>>
  \/ \E lt \in SUBSET ((1..4) \X (1..4)) : job' = <<"sort", Id(4), lt>>
  \/ \E n \in 0..6 : \E r \in [1..n -> 1..4] : job' = <<"sort", Id(n), Ranked(r)>>
  \/ \E n \in 0..4 : \E x \in [1..n -> {"x", "y", nil}] : \E f, e, d \in -1..5 :
       job' = <<"lists", x, f, e, d>>
  \/ \E n \in 0..4 : \E x \in [1..n -> {0, 1, 2, 7, 9, 10}] : job' = <<"str2int", x>>

-----------------------------------------------------------------------------
MCStrHash == [x \in {"a", "b", "c", "d", "long", "memerrmsg"} |->
                CASE x = "a" -> 1 [] x = "b" -> 2 [] x = "c" -> 5 [] x = "d" -> 6 [] x = "memerrmsg" -> 3
                  [] OTHER -> 0]
MCLibraryOf == [n \in {"m", "m.x-y"} |-> n]
MCRootOf    == [n \in {"m", "m.x-y"} |-> IF n = "m" THEN "none" ELSE "m"]

svars == <<g, fvars, rvars>>
NoTable == t = luaH_resize([arr |-> <<>>, node |-> <<>>, free |-> 1], 0, 0) /\ TableInit
NoShell == globals = <<>> /\ CompletionInit
NoTool  == opts = (CHOOSE o \in Options : TRUE) /\ program = << <<F, F>> >> /\ WrapInit

NoState == StringsInit /\ FilesInit /\ RequireInit

LibraryInit ==
  \/ job = <<"table">> /\ TableInit /\ NoShell /\ NoTool /\ NoState
  \/ job = <<"shell">> /\ CompletionInit /\ NoTable /\ NoTool /\ NoState
  \/ job = <<"tool">> /\ WrapInit /\ NoTable /\ NoShell /\ NoState
  \/ job \in {<<"library">>, <<"strings">>, <<"files">>, <<"modules">>}
     /\ NoTable /\ NoShell /\ NoTool /\ NoState
LibraryNext ==
  \/ job = <<"table">> /\ TableNext /\ UNCHANGED <<cvars, wvars, svars, job>>
  \/ job = <<"shell">> /\ CompletionNext /\ UNCHANGED <<tvars, wvars, svars, job>>
  \/ job = <<"tool">> /\ WrapNext /\ UNCHANGED <<tvars, cvars, svars, job>>
  \/ job = <<"strings">> /\ StringsNext /\ UNCHANGED <<tvars, cvars, wvars, fvars, rvars, job>>
  \/ job = <<"files">> /\ FilesNext /\ UNCHANGED <<tvars, cvars, wvars, g, rvars, job>>
  \/ job = <<"modules">> /\ RequireNext /\ UNCHANGED <<tvars, cvars, wvars, g, fvars, job>>
  \/ job = <<"library">> /\ call /\ UNCHANGED <<tvars, cvars, wvars, svars>>

-----------------------------------------------------------------------------
\* string.find, match, gmatch and gsub do what the items of a pattern say
\* (lstrlib.c).
MatchRight ==
  job[1] = "match" =>
    (\A pos \in {1, 2, -1} : FindRight(job[2], job[3], pos)) /\ GmatchRight(job[2], job[3])

\* What is packed, encoded, moved, sorted, read, buffered, referred to or searched for
\* comes back, at the limits of every width and size and for every order function, and
\* a loop's index stays within its limit (lstrlib.c, lutf8lib.c, ltablib.c, liolib.c,
\* lobject.c, lauxlib.c, loadlib.c, lvm.c, test.c).
LibraryRight ==
  CASE job[1] = "pack" -> PackInverts(job[2], job[3])
    [] job[1] = "unpack" -> UnpackInverts(job[2], job[3])
    [] job[1] = "utf8.char" -> CodesComeBack(job[2])
    [] job[1] = "utf8.codepoint" -> OnlyShortest(job[2])
    [] job[1] = "sort" -> SortRight(job[2], job[3])
    [] job[1] = "lists" -> ListsRight(job[2], job[3], job[4], job[5])
    [] job[1] = "read" -> ReadRight(job[2], job[3])
    [] job[1] = "integer" -> IntegerRight(job[2])
    [] job[1] = "load" -> LoadRight(job[2])
    [] job[1] = "references" -> RefsRight(job[2])
    [] job[1] = "buffer" -> BufferRight(job[2])
    [] job[1] = "traceback" -> TracebackRight(job[2], job[3])
    [] job[1] = "name" -> NameRight(job[2], <<"function", 1>>)
    [] job[1] = "searchpath" -> SearchRight(job[2], job[3], job[4])
    [] job[1] = "setpath" -> SetpathRight(job[2])
    [] job[1] = "for" -> For!ForRight(job[2], job[3], job[4])
    [] job[1] = "str2int" -> Str2intRight(job[2])
    [] OTHER -> TRUE

\* The shell offers the right completions, and the generator's files hold the
\* right wrappers (main.c, libtool/generic.cpp).
ToolsRight == OffersRight /\ OutputsRight
=============================================================================
