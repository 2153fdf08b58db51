------------------------------- MODULE LuaAux -------------------------------
(***************************************************************************)
(* The auxiliary library (lua/src/lauxlib.c): references into a table,     *)
(* string buffers and their boxes on the stack, the levels and the names   *)
(* of a traceback, and luaL_gsub.                                          *)
(***************************************************************************)
EXTENDS LuaRead, FiniteSets

CONSTANTS MAX_SIZET,          \* the largest size_t, 2^n - 1
          LEVELS1, LEVELS2    \* levels of the two parts of a long traceback

None == "nil"

-----------------------------------------------------------------------------
(* References.  t is a table: its array, and the head of the free list in  *)
(* the field 0.  In the registry two places are taken from the beginning.  *)

Registry == [arr |-> <<"mainthread", "globals">>, freelist |-> None]

\* lua_rawlen: with holes in the array it may be any border; this is the first.
rawlen(arr) == CHOOSE n \in 0..Len(arr) : /\ \A i \in 1..n : arr[i] # None
                                          /\ n = Len(arr) \/ arr[n + 1] = None
Stored(arr, i, v) == [k \in 1..(IF i > Len(arr) THEN i ELSE Len(arr)) |-> IF k = i THEN v ELSE arr[k]]

luaL_ref(t, v) ==
  LET ref == IF t.freelist # None THEN t.freelist[1] ELSE rawlen(t.arr) + 1
  IN [t |-> [arr |-> Stored(t.arr, ref, v),
             freelist |-> IF t.freelist # None THEN t.arr[ref] ELSE None], ref |-> ref]
luaL_unref(t, ref) == [arr |-> [t.arr EXCEPT ![ref] = t.freelist], freelist |-> <<ref>>]

\* Objects 1, 2, ... are stored (operation 0), and the one that is in place k of
\* those that are stored is given up (operation k).
Referred(ops) ==
  FoldLeft(LAMBDA s, op :
      IF op = 0 THEN LET r == luaL_ref(s.t, <<"object", s.n>>)
                     IN [t |-> r.t, n |-> s.n + 1, refs |-> Append(s.refs, <<r.ref, s.n>>)]
      ELSE IF op <= Len(s.refs) THEN [s EXCEPT !.t = luaL_unref(@, s.refs[op][1]),
                                               !.refs = RemoveAt(@, op)]
      ELSE s,
    [t |-> Registry, n |-> 1, refs |-> <<>>], ops)

\* What is stored is found at its reference until it is given up, and the table has no
\* place that is neither used nor free, although the first reference that is given
\* up leaves nil in its place (luaL_ref, luaL_unref).
RefsRight(ops) ==
  LET s == Referred(ops)
  IN /\ \A r \in Range(s.refs) : s.t.arr[r[1]] = <<"object", r[2]>>
     /\ SubSeq(s.t.arr, 1, 2) = Registry.arr
     /\ s.t.freelist = None => Len(s.t.arr) = Len(s.refs) + 2

-----------------------------------------------------------------------------
(* Buffers: B has its characters, its size and, above what the caller has  *)
(* on the stack, its box with the size of the block in it.                 *)

luaL_buffinit == [b |-> <<>>, size |-> LUAL_BUFFERSIZE, onstack |-> FALSE, stack |-> <<>>, error |-> FALSE]
sizet(x) == x % (MAX_SIZET + 1)     \* arithmetic of size_t

\* resizebox at the top of the stack, or newbox.
Boxed(B, newsize) ==
  [B EXCEPT !.stack = Append(IF B.onstack THEN Front(@) ELSE @, <<"box", newsize>>), !.onstack = TRUE,
            !.size = newsize]

luaL_prepbuffsize(B, sz) ==
  LET n        == Len(B.b)
      doubled  == sizet(B.size * 2)
      newsize  == IF sizet(doubled - n) < sz THEN sizet(n + sz) ELSE doubled
      toolarge == newsize < n \/ sizet(newsize - n) < sz
  IN CASE sizet(B.size - n) >= sz -> B
       [] sizet(B.size - n) < sz /\ toolarge -> [B EXCEPT !.error = TRUE]
       [] OTHER -> Boxed(B, newsize)

luaL_addlstring(B, s) ==
  LET ready == luaL_prepbuffsize(B, Len(s))
  IN IF s = <<>> \/ ready.error THEN [B EXCEPT !.error = @ \/ ready.error]
     ELSE [ready EXCEPT !.b = @ \o s]

\* The value on the top of the stack; it is put below the box.
luaL_addvalue(B, s) ==
  LET top   == Len(B.stack)
      below == IF B.onstack THEN InsertAt(B.stack, top, <<"value">>) ELSE Append(B.stack, <<"value">>)
      added == luaL_addlstring([B EXCEPT !.stack = below], s)
  IN IF added.error THEN added
     ELSE [added EXCEPT !.stack = RemoveAt(@, Len(@) - (IF added.onstack THEN 1 ELSE 0))]

luaL_pushresult(B) ==
  LET pushed == Append(B.stack, <<"result", B.b>>)
  IN IF B.onstack THEN RemoveAt(pushed, Len(pushed) - 1) ELSE pushed

\* The pieces are added as strings, or as values if they are marked.
Piece(s, value) == [s |-> s, value |-> value]
Filled(pieces) ==
  FoldLeft(LAMBDA B, p : IF B.error THEN B ELSE IF p.value THEN luaL_addvalue(B, p.s)
                         ELSE luaL_addlstring(B, p.s), luaL_buffinit, pieces)

\* The result is what was added and the stack is what it was, or the string does not
\* fit in a block that has twice its size; the block holds what is in it, at every
\* size up to the largest (luaL_prepbuffsize, luaL_addvalue, luaL_pushresult).
BufferRight(pieces) ==
  LET B == Filled(pieces)
      total == FlattenSeq([i \in DOMAIN pieces |-> pieces[i].s])
  IN IF B.error THEN 2 * Len(total) > MAX_SIZET
     ELSE /\ luaL_pushresult(B) = <<<<"result", total>>>>
          /\ Len(B.b) <= B.size /\ B.size <= MAX_SIZET
          /\ B.onstack => B.stack = <<<<"box", B.size>>>>

-----------------------------------------------------------------------------
(* Tracebacks of a stack that has the levels 0 to depth - 1 (lua_getstack). *)

RECURSIVE halved(_, _, _)
halved(depth, li, le) ==
  LET m == (li + le) \div 2
  IN IF li >= le THEN le - 1
     ELSE IF m < depth THEN halved(depth, m + 1, le) ELSE halved(depth, li, m)
RECURSIVE upperbound(_, _, _)
upperbound(depth, li, le) ==
  IF le < depth THEN upperbound(depth, le, le * 2) ELSE halved(depth, li, le)
lastlevel(depth) == upperbound(depth, 1, 1)

RECURSIVE levels(_, _, _)
levels(depth, level, n1) ==
  IF level >= depth THEN <<>>
  ELSE IF n1 = 0 THEN <<"...">> \o levels(depth, lastlevel(depth) - LEVELS2 + 1, -1)
  ELSE <<<<level>>>> \o levels(depth, level + 1, n1 - 1)
luaL_traceback(depth, level) ==
  levels(depth, level, IF lastlevel(depth) - level > LEVELS1 + LEVELS2 THEN LEVELS1 ELSE -1)

\* A traceback has every level, or the first LEVELS1 and the last LEVELS2 ones around
\* a mark (luaL_traceback, lastlevel).
TracebackRight(depth, level) ==
  LET from(a, n) == [i \in 1..n |-> <<a + i - 1>>]
      all == IF depth > level THEN depth - level ELSE 0
  IN luaL_traceback(depth, level) =
       IF all <= LEVELS1 + LEVELS2 + 1 THEN from(level, all)
       ELSE from(level, LEVELS1) \o <<"...">> \o from(depth - LEVELS2, LEVELS2)

-----------------------------------------------------------------------------
(* The name of a function among the loaded modules.  A table is a sequence *)
(* of fields in the order of lua_next.                                     *)

Field(key, value) == [key |-> key, value |-> value]
IsString(key) == key # "#1"       \* "#1" stands for the keys that are not strings
IsTable(v) == v[1] = "table"

RECURSIVE findfield(_, _, _)
findfield(fields, f, level) ==
  IF level = 0 \/ fields = <<>> THEN <<>>
  ELSE LET x == Head(fields)
           inside == IF IsTable(x.value) THEN findfield(x.value[2], f, level - 1) ELSE <<>>
       IN CASE IsString(x.key) /\ x.value = f -> <<x.key>>
            [] IsString(x.key) /\ x.value # f /\ inside # <<>> -> <<x.key>> \o inside
            [] OTHER -> findfield(Tail(fields), f, level)
pushglobalfuncname(loaded, f) ==
  LET name == findfield(loaded, f, 2)
  IN IF Len(name) = 2 /\ name[1] = "_G" THEN Tail(name) ELSE name

RECURSIVE Leads(_, _, _)
Leads(fields, name, f) ==
  \E x \in Range(fields) :
    /\ IsString(x.key) /\ x.key = name[1]
    /\ IF Len(name) = 1 THEN x.value = f ELSE IsTable(x.value) /\ Leads(x.value[2], Tail(name), f)
\* A name leads to the function, from the loaded modules or from the globals, and a
\* function that is a module or a field of one has a name (pushglobalfuncname).
NameRight(loaded, f) ==
  LET name  == pushglobalfuncname(loaded, f)
      keys  == {x.key : x \in {y \in Range(loaded) : IsString(y.key)}}
      inner == UNION {{y.key : y \in {z \in Range(x.value[2]) : IsString(z.key)}} :
                        x \in {y \in Range(loaded) : IsTable(y.value)}}
  IN IF name = <<>> THEN ~\E m \in keys : Leads(loaded, <<m>>, f) \/ \E k \in inner : Leads(loaded, <<m, k>>, f)
     ELSE Leads(loaded, name, f) \/ Leads(loaded, <<"_G">> \o name, f)

-----------------------------------------------------------------------------
(* luaL_gsub.                                                              *)

strstr(s, p) == {i \in 1..(Len(s) - Len(p) + 1) : SubSeq(s, i, i + Len(p) - 1) = p}
RECURSIVE luaL_gsub(_, _, _)
luaL_gsub(s, p, r) ==
  IF strstr(s, p) = {} THEN s
  ELSE LET wild == CHOOSE i \in strstr(s, p) : \A j \in strstr(s, p) : i <= j
       IN SubSeq(s, 1, wild - 1) \o r \o luaL_gsub(From(s, wild + Len(p)), p, r)
=============================================================================
