----------------------------- MODULE LuaStrings -----------------------------
(***************************************************************************)
(* The strings of the interpreter (lua/src/lstring.c): the table in which  *)
(* all short strings are interned, with its growth and shrinking, the      *)
(* cache of luaS_new, and what the collector does to both (lgc.c):         *)
(* clearing the cache, sweeping strings, checkSizes, and the emergency     *)
(* collections that any allocation may start in the middle of luaS_new.    *)
(*                                                                         *)
(* Two texts are compared nowhere but here: to the rest of the interpreter *)
(* short strings are equal if they are one object.  A list of the table is *)
(* the set of its strings: in which order they come decides nothing.       *)
(***************************************************************************)
EXTENDS Integers, FiniteSets

CONSTANTS
  ShortTexts, LongTexts,   \* texts that programs use
  CTexts,                  \* those that come as C strings
  MEMERRMSG,               \* the text of the string that is never collected, a short one
  StrHash,                 \* the hash of each text (luaS_hash)
  MaxStrings,              \* bound: number of strings in memory
  MINSTRTABSIZE, STRCACHE_N, STRCACHE_M

AllTexts == ShortTexts \cup LongTexts \cup {MEMERRMSG}
ASSUME StringsAssumption ==
  /\ IsFiniteSet(AllTexts) /\ LongTexts \cap (ShortTexts \cup {MEMERRMSG}) = {}
  /\ CTexts \subseteq AllTexts /\ "" \notin AllTexts
  /\ StrHash \in [AllTexts -> Nat]
  /\ {MINSTRTABSIZE, STRCACHE_N, STRCACHE_M} \subseteq Nat \ {0}

VARIABLE g    \* the global state: strings, table, cache and collector

\* Objects in memory; g->memerrmsg is fixed and always gray.  A text is put at the
\* first address of its own that is free, for short texts there should be but one.
Strings   == (ShortTexts \X {1, 2}) \cup (LongTexts \X {1})
memerrmsg == <<MEMERRMSG, 0>>
NOTS      == <<>>
NoString  == [text |-> "", color |-> "free"]

otherw(w)      == IF w = "w0" THEN "w1" ELSE "w0"
isdead(s, o)   == s.str[o].color = otherw(s.white)
iswhite(s, o)  == s.str[o].color \in {"w0", "w1"}
InMemory(s)    == {o \in Strings : s.str[o].color # "free"}
lmod(text, size) == StrHash[text] % size

\* One round of the loop of luaS_resize: the nodes of list i go where they belong.
rehashed(s, hash, i, newsize) ==
  [j \in DOMAIN hash |-> (IF j = i THEN {} ELSE hash[j])
                           \cup {o \in hash[i] : lmod(s.str[o].text, newsize) = j}]

luaS_resize(s, newsize) ==
  LET size  == Cardinality(DOMAIN s.hash)
      grown == [i \in 0..(newsize - 1) \cup DOMAIN s.hash |->
                  IF i \in DOMAIN s.hash THEN s.hash[i] ELSE {}]
      moved[n \in 0..size] == IF n = 0 THEN grown ELSE rehashed(s, moved[n - 1], n - 1, newsize)
  IN [s EXCEPT !.hash = [i \in 0..(newsize - 1) |-> moved[size][i]]]

-----------------------------------------------------------------------------
(* The collector.                                                          *)

\* Strings d leave their lists.
luaS_remove(s, d) ==
  LET size == Cardinality(DOMAIN s.hash)
  IN [s EXCEPT !.hash = [i \in DOMAIN @ |-> @[i] \ {o \in d : lmod(s.str[o].text, size) = i}],
               !.nuse = @ - Cardinality(d)]

\* sweeplist and freeobj at strings d.
swept(s, d) ==
  LET short == {o \in d : isdead(s, o) /\ s.str[o].text \notin LongTexts}
  IN [luaS_remove(s, short) EXCEPT
        !.str = [o \in DOMAIN @ |-> CASE o \notin d -> @[o]
                                      [] o \in d /\ isdead(s, o) -> NoString
                                      [] OTHER -> [@[o] EXCEPT !.color = s.white]]]

\* Mutant: only what is dead already is taken out.
luaS_clearcache_dead(s) ==
  [s EXCEPT !.cache = [i \in DOMAIN @ |-> [j \in DOMAIN @[i] |->
                         IF isdead(s, @[i][j]) THEN memerrmsg ELSE @[i][j]]]]
luaS_clearcache(s) ==
  [s EXCEPT !.cache = [i \in DOMAIN @ |-> [j \in DOMAIN @[i] |->
                         IF iswhite(s, @[i][j]) THEN memerrmsg ELSE @[i][j]]]]

\* atomic(): what is marked is black, the cache is cleared, the whites change.
atomic(s, marked) ==
  LET m == [s EXCEPT !.str = [o \in DOMAIN @ |-> IF o \in marked THEN [@[o] EXCEPT !.color = "black"]
                                                 ELSE @[o]]]
  IN [luaS_clearcache(m) EXCEPT !.white = otherw(@), !.gcstate = "sweep"]

SweepAll(s) == swept(s, InMemory(s))

\* luaC_fullgc in an emergency: what was under way is ended, then a whole cycle.
\* checkSizes leaves the table alone.
EmergencyGC(s) == [SweepAll(atomic(SweepAll(s), s.held)) EXCEPT !.gcstate = "pause"]

\* luaM_realloc_: an allocation succeeds, succeeds after a collection, or fails
\* after one, and then an error is thrown.  An operation may resize the table and
\* then create a string; bound: one of the two needs a collection.
Outcomes == {<<"ok", "ok">>, <<"collected", "ok">>, <<"ok", "collected">>, <<"failed", "ok">>, <<"ok", "failed">>}
Allocated(s, outcome) == IF outcome = "ok" THEN s ELSE EmergencyGC(s)

checkSizes(s) ==
  LET size == Cardinality(DOMAIN s.hash)
  IN IF s.nuse < size \div 4 THEN luaS_resize(s, size \div 2) ELSE s

-----------------------------------------------------------------------------
(* The program.  These give the global state and the string, or NOTS when    *)
(* memory ran out.                                                         *)

Places(s, text) == {o \in Strings \ InMemory(s) : o[1] = text}
Address(s, text) == CHOOSE o \in Places(s, text) : \A x \in Places(s, text) : o[2] <= x[2]
RoomFor(s, text) == Places(s, text) # {} /\ Cardinality(InMemory(s)) < MaxStrings

createstrobj(s, text) == [s EXCEPT !.str[Address(s, text)] = [text |-> text, color |-> s.white]]

\* A dead string that is still in the table is resurrected.
found(s, o) == IF isdead(s, o) THEN [s EXCEPT !.str[o].color = s.white] ELSE s

linked(s, o) ==
  [s EXCEPT !.hash[lmod(s.str[o].text, Cardinality(DOMAIN s.hash))] = @ \cup {o}, !.nuse = @ + 1]

\* The string is created and linked, if there is memory for it.
created(s, text) ==
  IF RoomFor(s, text) THEN [g |-> linked(createstrobj(s, text), Address(s, text)), ts |-> Address(s, text)]
  ELSE [g |-> s, ts |-> NOTS]
createshrstr(s, text, create) ==
  IF create = "failed" THEN [g |-> Allocated(s, create), ts |-> NOTS] ELSE created(Allocated(s, create), text)

internshrstr(s, text, resize, create) ==
  LET size == Cardinality(DOMAIN s.hash)
      hits == {o \in Strings \cup {memerrmsg} : s.str[o].text = text
                                                /\ o \in s.hash[lmod(text, size)]}
  IN IF hits # {} THEN LET o == CHOOSE o \in hits : TRUE IN [g |-> found(s, o), ts |-> o]
     ELSE IF s.nuse < size THEN createshrstr(s, text, create)
     ELSE IF resize = "failed" THEN [g |-> Allocated(s, resize), ts |-> NOTS]
     ELSE createshrstr(luaS_resize(Allocated(s, resize), size * 2), text, create)

luaS_newlstr(s, text, resize, create) ==
  LET ready == Allocated(s, create)
  IN IF text \notin LongTexts THEN internshrstr(s, text, resize, create)
     ELSE IF create = "failed" \/ ~RoomFor(ready, text) THEN [g |-> ready, ts |-> NOTS]
     ELSE [g |-> createstrobj(ready, text), ts |-> Address(ready, text)]

\* luaS_new: the address of the C string picks the row of the cache.
luaS_new(s, text, row, resize, create) ==
  LET hits == {j \in 1..STRCACHE_M : s.str[s.cache[row][j]].text = text}
      hit  == CHOOSE j \in hits : \A x \in hits : j <= x
      moved == [s EXCEPT !.cache[row] = [j \in DOMAIN @ |-> IF j = 1 THEN @[1] ELSE @[j - 1]]]
      new  == luaS_newlstr(moved, text, resize, create)
  IN IF hits # {} THEN [g |-> s, ts |-> s.cache[row][hit]]
     ELSE IF new.ts = NOTS THEN new
     ELSE [g |-> [new.g EXCEPT !.cache[row][1] = new.ts], ts |-> new.ts]

\* The string is put on the stack; if there is none, an error is thrown.
Pushed(r) == IF r.ts \in Strings THEN [r.g EXCEPT !.held = @ \cup {r.ts}] ELSE r.g

-----------------------------------------------------------------------------
\* luaS_init
StringsInit ==
  LET empty == [i \in 0..(MINSTRTABSIZE - 1) |-> {}]
  IN g = [str |-> [o \in Strings \cup {memerrmsg} |->
                     IF o = memerrmsg THEN [text |-> MEMERRMSG, color |-> "gray"] ELSE NoString],
          hash |-> [empty EXCEPT ![lmod(MEMERRMSG, MINSTRTABSIZE)] = {memerrmsg}],
          nuse |-> 1,
          cache |-> [i \in 0..(STRCACHE_N - 1) |-> [j \in 1..STRCACHE_M |-> memerrmsg]],
          white |-> "w0", gcstate |-> "pause", held |-> {}]

lua_pushlstring ==
  \E text \in ShortTexts \cup LongTexts, o \in Outcomes :
    g' = Pushed(luaS_newlstr(g, text, o[1], o[2]))
lua_pushstring ==
  \E text \in CTexts, row \in 0..(STRCACHE_N - 1), o \in Outcomes :
    g' = Pushed(luaS_new(g, text, row, o[1], o[2]))
lua_pop == \E o \in g.held : g' = [g EXCEPT !.held = @ \ {o}]

\* The mark phase: a string may be marked and dropped after that.
GCSatomic ==
  /\ g.gcstate = "pause"
  /\ \E dropped \in SUBSET (InMemory(g) \ g.held) : g' = atomic(g, g.held \cup dropped)
sweepstep ==
  /\ g.gcstate = "sweep"
  /\ \E o \in InMemory(g) : g.str[o].color # g.white /\ g' = swept(g, {o})
GCSswpend ==
  /\ g.gcstate = "sweep" /\ \A o \in InMemory(g) : g.str[o].color = g.white
  /\ g' = [checkSizes(g) EXCEPT !.gcstate = "pause"]

StringsNext == lua_pushlstring \/ lua_pushstring \/ lua_pop \/ GCSatomic \/ sweepstep \/ GCSswpend
StringsSpec == StringsInit /\ [][StringsNext]_g

-----------------------------------------------------------------------------
\* One text is one short string, in its list and counted, whatever was resized,
\* collected or resurrected in between (luaS_resize, internshrstr, luaS_remove).
Interned ==
  LET short == {o \in InMemory(g) : g.str[o].text \notin LongTexts} \cup {memerrmsg}
  IN /\ \A o1, o2 \in short : g.str[o1].text = g.str[o2].text => o1 = o2
     /\ UNION {g.hash[i] : i \in DOMAIN g.hash} = short /\ g.nuse = Cardinality(short)
     /\ \A i \in DOMAIN g.hash : \A o \in g.hash[i] :
          lmod(g.str[o].text, Cardinality(DOMAIN g.hash)) = i
\* Neither what the program has nor what the cache has is free, or about to be
\* (luaS_clearcache, luaS_new).
StringsAlive ==
  \A o \in g.held \cup {g.cache[i][j] : i \in DOMAIN g.cache, j \in 1..STRCACHE_M} :
    g.str[o].color # "free" /\ ~isdead(g, o)
StringsRight == Interned /\ StringsAlive
=============================================================================
