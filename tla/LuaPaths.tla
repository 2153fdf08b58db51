------------------------------ MODULE LuaPaths ------------------------------
(***************************************************************************)
(* The search for the file of a module along a path (lua/src/loadlib.c).   *)
(* Paths are sequences of characters with templates between semicolons.    *)
(***************************************************************************)
EXTENDS LuaAux

AUXMARK == "AUX"

\* setpath: the path of the environment with the default path for ";;".
setpath(path, dft) == luaL_gsub(luaL_gsub(path, <<";", ";">>, <<";", AUXMARK, ";">>), <<AUXMARK>>, dft)

pushnexttemplate(path) ==
  LET rest == From(path, Span(path, {";"}, Len(path)) + 1)
      n    == Span(rest, {x \in Range(rest) : x # ";"}, Len(rest))
  IN [template |-> First(rest, n), path |-> From(rest, n + 1)]

\* The file that is found, or nothing.
RECURSIVE searchtemplates(_, _, _)
searchtemplates(name, path, files) ==
  LET next     == pushnexttemplate(path)
      filename == luaL_gsub(next.template, <<"?">>, name)
  IN IF next.template = <<>> THEN <<>>
     ELSE IF filename \in files THEN filename ELSE searchtemplates(name, next.path, files)
searchpath(name, path, sep, dirsep, files) ==
  searchtemplates(IF sep = <<>> THEN name ELSE luaL_gsub(name, sep, dirsep), path, files)

Templates(path) ==
  LET starts == {i \in DOMAIN path : path[i] # ";" /\ (i = 1 \/ path[i - 1] = ";")}
      run(i) == SubSeq(path, i, CHOOSE j \in i..Len(path) : /\ \A k \in i..j : path[k] # ";"
                                                            /\ j = Len(path) \/ path[j + 1] = ";")
  IN FoldLeft(LAMBDA ts, i : IF i \in starts THEN Append(ts, run(i)) ELSE ts, <<>>,
              [i \in DOMAIN path |-> i])
Named(template, name) == FlattenSeq([i \in DOMAIN template |-> IF template[i] = "?" THEN name ELSE <<template[i]>>])

\* The first file of the path is found, however many semicolons there are, and the
\* default path stands where a path has two of them (searchpath, setpath).
SearchRight(name, path, files) ==
  LET flat  == [i \in DOMAIN name |-> IF name[i] = "." THEN "/" ELSE name[i]]
      names == [i \in DOMAIN Templates(path) |-> Named(Templates(path)[i], flat)]
      hits  == {i \in DOMAIN names : names[i] \in files}
  IN searchpath(name, path, <<".">>, <<"/">>, files) =
       IF hits = {} THEN <<>> ELSE names[CHOOSE i \in hits : \A j \in hits : i <= j]
SetpathRight(path) ==
  LET set == Templates(setpath(path, <<"d">>))
  IN /\ SelectSeq(set, LAMBDA x : x # <<"d">>) = Templates(path)
     /\ <<"d">> \in Range(set) <=> strstr(path, <<";", ";">>) # {}
=============================================================================
