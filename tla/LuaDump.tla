------------------------------ MODULE LuaDump -------------------------------
(***************************************************************************)
(* Precompiled chunks: ldump.c writes a prototype as a sequence of items,  *)
(* lundump.c reads it back.  An item stands for the bytes of one DumpVar   *)
(* or DumpVector; the code and the debug information (the names of the     *)
(* upvalues) are one item per element.  Numbers of bytes, sources and line *)
(* numbers are left out.                                                   *)
(*                                                                         *)
(* Reading is done by operators on a state z = [items, ok, f], where f is  *)
(* what was read last; reading past the end turns ok false, as the         *)
(* "truncated" error of LoadBlock does.                                    *)
(***************************************************************************)
EXTENDS Integers, Sequences, SequencesExt

Item(tag, v) == <<tag, v>>
Header == <<Item("literal", "signature"), Item("byte", 83), Item("literal", "data"),
            Item("sizes", <<4, 8, 4, 8, 8>>), Item("number", "LUAC_INT"), Item("number", "LUAC_NUM")>>
DumpSeq(tag, s) ==    \* DumpInt of the length, then the elements
  <<Item("int", Len(s))>> \o [i \in DOMAIN s |-> Item(tag, s[i])]

DumpConstants(k) ==   \* a type byte, then the value unless it is nil
  <<Item("int", Len(k))>> \o
  FoldLeft(LAMBDA acc, v : acc \o <<Item("type", v[1])>> \o
                           (IF Len(v) = 1 THEN <<>> ELSE <<Item("value", v[2])>>), <<>>, k)

DumpUpvalues(ups) ==
  <<Item("int", Len(ups))>> \o
  FoldLeft(LAMBDA acc, u : acc \o <<Item("bool", u.instack), Item("byte", u.idx)>>, <<>>, ups)

DumpDebug(ups, strip) ==
  DumpSeq("name", IF strip THEN <<>> ELSE [i \in DOMAIN ups |-> ups[i].name])

RECURSIVE DumpFunction(_, _)
DumpProtos(p, strip) ==
  <<Item("int", Len(p))>> \o
  FoldLeft(LAMBDA acc, f : acc \o DumpFunction(f, strip), <<>>, p)

DumpFunction(f, strip) ==
  <<Item("byte", f.numparams), Item("bool", f.is_vararg), Item("byte", f.maxstacksize)>>
  \o DumpSeq("code", f.code) \o DumpConstants(f.k) \o DumpUpvalues(f.ups)
  \o DumpProtos(f.p, strip) \o DumpDebug(f.ups, strip)

luaU_dump(f, strip) == Header \o <<Item("byte", Len(f.ups))>> \o DumpFunction(f, strip)

-----------------------------------------------------------------------------
More(z) == z.ok /\ z.items # <<>>
LoadItem(z, tag) ==
  IF More(z) /\ z.items[1][1] = tag THEN [ok |-> TRUE, items |-> Tail(z.items), f |-> z.items[1][2]]
  ELSE [z EXCEPT !.ok = FALSE]

\* n times Load, the results of which are collected.
RECURSIVE LoadVector(_, _, _, _)
LoadVector(Load(_), z, n, acc) ==
  IF n = 0 \/ ~z.ok THEN [z EXCEPT !.f = acc]
  ELSE LET r == Load(z) IN LoadVector(Load, r, n - 1, Append(acc, r.f))
LoadSeq(Load(_), z) ==
  LET n == LoadItem(z, "int") IN IF n.ok THEN LoadVector(Load, n, n.f, <<>>) ELSE n

LoadCode(z) == LoadItem(z, "code")
LoadName(z) == LoadItem(z, "name")
LoadConstant(z) ==
  LET t == LoadItem(z, "type")
      v == LoadItem(t, "value")
  IN IF ~t.ok \/ t.f = "nil" THEN [t EXCEPT !.f = <<"nil">>] ELSE [v EXCEPT !.f = <<t.f, v.f>>]

LoadUpvalue(z) ==
  LET s == LoadItem(z, "bool")
      i == LoadItem(s, "byte")
  IN [i EXCEPT !.f = [name |-> "", instack |-> s.f, idx |-> i.f]]

RECURSIVE LoadFunction(_)
LoadFunction(z) ==
  LET np == LoadItem(z, "byte")
      va == LoadItem(np, "bool")
      ms == LoadItem(va, "byte")
      code == LoadSeq(LoadCode, ms)
      k == LoadSeq(LoadConstant, code)
      ups == LoadSeq(LoadUpvalue, k)
      p == LoadSeq(LoadFunction, ups)
      names == LoadSeq(LoadName, p)
      Named(i) == [ups.f[i] EXCEPT !.name = IF i <= Len(names.f) THEN names.f[i] ELSE @]
  IN IF ~names.ok THEN names
     ELSE [names EXCEPT !.f =
             [code |-> code.f, k |-> k.f, p |-> p.f, ups |-> [i \in DOMAIN ups.f |-> Named(i)],
              maxstacksize |-> ms.f, numparams |-> np.f, is_vararg |-> va.f]]

checkHeader(z) ==
  IF IsPrefix(Header, z.items) THEN [z EXCEPT !.items = SubSeq(@, Len(Header) + 1, Len(@))]
  ELSE [z EXCEPT !.ok = FALSE]

\* z.f is the prototype if z.ok, and else the load fails.
luaU_undump(items) ==
  LET n == LoadItem(checkHeader([items |-> items, ok |-> TRUE, f |-> 0]), "byte")
  IN IF n.ok THEN LoadFunction(n) ELSE n
=============================================================================
