------------------------------- MODULE LuaTable -------------------------------
(***************************************************************************)
(* Tables (ltable.c): an array part and a hash part with internal chains,  *)
(* Brent's variation, and traversal by luaH_next while fields are cleared  *)
(* and the collector makes keys dead.                                      *)
(*                                                                         *)
(* A table is [arr, node, free]: a node is [k, dead, v, nx], its links nx  *)
(* are indices (0 ends a chain) and not distances, free is the index of    *)
(* lastfree, and a hash part without nodes is the dummynode.  Keys are     *)
(* integers and objects: strings and others that the collector can take.   *)
(* Floats, memory errors, sizes beyond MAXASIZE and keys beyond half of    *)
(* LUA_MAXINTEGER are left out.                                            *)
(***************************************************************************)
EXTENDS Integers, Sequences, FiniteSets, FiniteSetsExt

CONSTANTS
  Ints, Objects,  \* keys
  Hash,           \* of objects
  Pointers,       \* objects hashed by their address
  Nil,
  PowersOf2,      \* bound: sizes of a part, 2^0 to 2^MAXHBITS
  MaxHint         \* bound: sizes lua_createtable is called with

Keys == Ints \cup Objects
ASSUME TableAssumption ==
  /\ IsFiniteSet(Keys) /\ Ints \subseteq Int /\ Objects \cap Int = {} /\ Nil \notin Objects \cup Int
  /\ Pointers \subseteq Objects /\ Hash \in [Objects -> Nat] /\ MaxHint \in Nat
  /\ IsFiniteSet(PowersOf2) /\ PowersOf2 \subseteq Nat \ {0}
  /\ \E p \in PowersOf2 : p >= Cardinality(Keys) /\ p >= MaxHint    \* no "table overflow"

isdummy(t) == t.node = <<>>
sizenode(t) == Len(t.node)
mainposition(t, k) ==
  1 + CASE k \notin Objects -> k % sizenode(t)
        [] k \in Pointers   -> Hash[k] % Max({sizenode(t) - 1, 1})
        [] OTHER            -> Hash[k] % sizenode(t)

-----------------------------------------------------------------------------
(* Lookup.                                                                 *)

\* The next node of each node, 0 after the last one of a chain.
links(t) == [i \in 0..sizenode(t) |-> IF i = 0 THEN 0 ELSE t.node[i].nx]
\* The nodes from i on, as the links nx lead.
chain(nx, i) == LET at[n \in DOMAIN nx] == IF n = 0 THEN i ELSE nx[at[n - 1]] IN at
\* The first of them that is in S, or 0.
firstof(at, S) ==
  IF \E n \in DOMAIN at : at[n] \in S THEN at[Min({n \in DOMAIN at : at[n] \in S})] ELSE 0

\* The node of key k, or 0.  A search for the next key also finds a key that is dead.
nodeof(t, k, dead) ==
  IF isdummy(t) THEN 0
  ELSE firstof(chain(links(t), mainposition(t, k)),
               {i \in DOMAIN t.node : t.node[i].k = k /\ (t.node[i].dead => dead)})

inarray(t, k) == k \notin Objects /\ k \in DOMAIN t.arr
luaH_get(t, k) ==
  IF inarray(t, k) THEN t.arr[k]
  ELSE IF nodeof(t, k, FALSE) = 0 THEN Nil ELSE t.node[nodeof(t, k, FALSE)].v

-----------------------------------------------------------------------------
(* Insertion.                                                              *)

getfreepos(t) == Max({0} \cup {i \in 1..t.free - 1 : t.node[i].k = Nil})
before(t, i, mp) == firstof(chain(links(t), i), {j \in DOMAIN t.node : t.node[j].nx = mp})
Node(k, v, nx) == [k |-> k, dead |-> FALSE, v |-> v, nx |-> nx]

\* The main position is free: no value is there, whatever chain it is in.
settle(t, mp, k, v) == [t EXCEPT !.node[mp] = Node(k, v, @.nx)]
\* Mutant: nothing leads to the node that moves.
evict_unlinked(t, mp, f, k, v) ==
  [t EXCEPT !.node[f] = t.node[mp], !.node[mp] = Node(k, v, 0), !.free = f]
\* It is taken by a node of another chain, which moves to the free node f.
evict(t, mp, f, k, v) ==
  [t EXCEPT !.node[before(t, mainposition(t, t.node[mp].k), mp)].nx = f,
            !.node[f] = t.node[mp], !.node[mp] = Node(k, v, 0), !.free = f]
\* It is taken by a key of the same chain: the new one comes second.
collide(t, mp, f, k, v) ==
  [t EXCEPT !.node[f] = Node(k, v, t.node[mp].nx), !.node[mp].nx = f, !.free = f]

\* luaH_newkey, where there is a place for the key.
hasroom(t, k) == ~isdummy(t) /\ (t.node[mainposition(t, k)].v = Nil \/ getfreepos(t) # 0)
newkey(t, k, v) ==
  LET mp == mainposition(t, k)
  IN IF t.node[mp].v = Nil THEN settle(t, mp, k, v)
     ELSE IF mainposition(t, t.node[mp].k) # mp THEN evict(t, mp, getfreepos(t), k, v)
     ELSE collide(t, mp, getfreepos(t), k, v)

\* luaH_set without a rehash, and the store.  luaH_resize makes room for all that it
\* inserts: where it had not, a key would be lost here.
stored(t, k, v) ==
  IF inarray(t, k) THEN [t EXCEPT !.arr[k] = v]
  ELSE IF nodeof(t, k, FALSE) # 0 THEN [t EXCEPT !.node[nodeof(t, k, FALSE)].v = v]
  ELSE IF hasroom(t, k) THEN newkey(t, k, v) ELSE t

setnodevector(size) ==
  IF size = 0 THEN <<>> ELSE [i \in 1..Min({p \in PowersOf2 : p >= size}) |-> Node(Nil, Nil, 0)]
setarrayvector(arr, size) == [i \in 1..size |-> IF i <= Len(arr) THEN arr[i] ELSE Nil]

\* What goes into the new parts: the slice of the array part that vanishes, upwards,
\* and the old nodes, downwards.
vanishing(t, nasize) == IF nasize < Len(t.arr) THEN Len(t.arr) - nasize ELSE 0
entry(t, nasize, n) ==
  IF n <= vanishing(t, nasize) THEN [k |-> nasize + n, v |-> t.arr[nasize + n]]
  ELSE LET old == t.node[1 + vanishing(t, nasize) + sizenode(t) - n] IN [k |-> old.k, v |-> old.v]
reinserted(u, e) == IF e.v = Nil THEN u ELSE stored(u, e.k, e.v)
luaH_resize(t, nasize, nhsize) ==
  LET new == [arr |-> setarrayvector(t.arr, nasize), node |-> setnodevector(nhsize),
              free |-> Len(setnodevector(nhsize)) + 1]
      last == vanishing(t, nasize) + sizenode(t)
      u[n \in 0..last] == IF n = 0 THEN new ELSE reinserted(u[n - 1], entry(t, nasize, n))
  IN u[last]

\* The integer keys in use, all keys in use, and the largest n such that more
\* than half of the slots from 1 to n would be.
numusearray(t) == {i \in DOMAIN t.arr : t.arr[i] # Nil}
numusehash(t) == {t.node[i].k : i \in {j \in DOMAIN t.node : t.node[j].v # Nil}}
computesizes(ints) ==
  Max({0} \cup {n \in PowersOf2 : 2 * Cardinality({i \in ints : i \in 1..n}) > n})
newsizes(t, used, nasize) == luaH_resize(t, nasize, Cardinality(used \ 1..nasize))
rehash(t, ek) ==
  LET used == numusearray(t) \cup numusehash(t) \cup {ek}
  IN newsizes(t, used, computesizes(used \cap Ints))

luaH_set(t, k, v) ==
  IF inarray(t, k) \/ nodeof(t, k, FALSE) # 0 \/ hasroom(t, k) THEN stored(t, k, v)
  ELSE stored(rehash(t, k), k, v)

-----------------------------------------------------------------------------
(* Traversal and length.                                                   *)

\* All slots are numbered, those of the array part first.  0 if the key is
\* not in the table: "invalid key to 'next'".
findindex(t, k) ==
  IF inarray(t, k) THEN k
  ELSE IF nodeof(t, k, TRUE) = 0 THEN 0 ELSE Len(t.arr) + nodeof(t, k, TRUE)
inuse(t) ==
  numusearray(t) \cup {Len(t.arr) + i : i \in {j \in DOMAIN t.node : t.node[j].v # Nil}}
keyat(t, i) == IF i <= Len(t.arr) THEN i ELSE t.node[i - Len(t.arr)].k
luaH_next(t, k) ==
  LET rest == {i \in inuse(t) : k = Nil \/ i > findindex(t, k)}
  IN IF rest = {} THEN Nil ELSE keyat(t, Min(rest))

\* A pair: the first is 0 or in use, the second is not.  It is halved until nothing is
\* in between.
narrowed(t, b) ==
  LET m == (b[1] + b[2]) \div 2
  IN IF b[2] - b[1] <= 1 THEN b ELSE IF luaH_get(t, m) = Nil THEN <<b[1], m>> ELSE <<m, b[2]>>
binsearch(t, i, j) ==
  LET b[n \in 0..j - i] == IF n = 0 THEN <<i, j>> ELSE narrowed(t, b[n - 1])
  IN b[j - i][1]
\* The second is doubled until it is not in use, at the latest behind all integers.
doubled(t, b) == IF luaH_get(t, b[2]) # Nil THEN <<b[2], 2 * b[2]>> ELSE b
unbound_search(t, j) ==
  LET top == Max({0} \cup Ints)
      b[n \in 0..top] == IF n = 0 THEN <<j, j + 1>> ELSE doubled(t, b[n - 1])
  IN binsearch(t, b[top][1], b[top][2])
luaH_getn(t) ==
  CASE t.arr # <<>> /\ t.arr[Len(t.arr)] = Nil -> binsearch(t, 0, Len(t.arr))
    [] (t.arr = <<>> \/ t.arr[Len(t.arr)] # Nil) /\ isdummy(t) -> Len(t.arr)
    [] OTHER -> unbound_search(t, Len(t.arr))

-----------------------------------------------------------------------------
VARIABLES
  t,      \* the table
  map,    \* what the program has stored in it
  cur,    \* the last key of a traversal, Nil if there is none
  seen    \* the keys of that traversal
tvars == <<t, map, cur, seen>>

\* lua_createtable with room for na integers and nh other keys.
TableInit ==
  /\ \E na, nh \in 0..MaxHint : t = luaH_resize([arr |-> <<>>, node |-> <<>>, free |-> 1], na, nh)
  /\ map = [k \in Keys |-> Nil] /\ cur = Nil /\ seen = {}

\* t[k] = v.  A program that stores in a field that does not exist cannot go
\* on with its traversal.
rawset(k, v) ==
  /\ t' = luaH_set(t, k, v)
  /\ map' = [map EXCEPT ![k] = v]
  /\ IF map[k] = Nil THEN cur' = Nil /\ seen' = {} ELSE UNCHANGED <<cur, seen>>

next ==
  /\ cur' = luaH_next(t, cur)
  /\ seen' = IF luaH_next(t, cur) = Nil THEN {} ELSE seen \cup {luaH_next(t, cur)}
  /\ UNCHANGED <<t, map>>

\* The collector meets an empty entry with a key that it has not marked yet.
removeentry ==
  /\ \E i \in DOMAIN t.node :
       /\ t.node[i].k \in Objects /\ t.node[i].v = Nil /\ ~t.node[i].dead
       /\ t' = [t EXCEPT !.node[i].dead = TRUE]
  /\ UNCHANGED <<map, cur, seen>>

\* The collector clears an entry of a weak table; the key of the traversal is
\* on the stack.
clearkeys ==
  /\ \E i \in DOMAIN t.node :
       /\ t.node[i].k \in Objects \ {cur} /\ t.node[i].v # Nil
       /\ t' = [t EXCEPT !.node[i].v = Nil, !.node[i].dead = TRUE]
       /\ map' = [map EXCEPT ![t.node[i].k] = Nil]
  /\ UNCHANGED <<cur, seen>>

TableNext == (\E k \in Keys : rawset(k, k) \/ rawset(k, Nil)) \/ next \/ removeentry \/ clearkeys

TableSpec == TableInit /\ [][TableNext]_tvars

-----------------------------------------------------------------------------
\* Whatever chains, evictions, rehashes and dead keys there were, the table
\* holds what was stored last under every key, and its length is a border
\* (luaH_get, luaH_set, luaH_getn).  A traversal visits every key once that is
\* in the table all the time, and never fails, although fields are cleared and
\* keys are made dead under it (findindex, luaH_next).
TableIsMap ==
  /\ \A k \in Keys : luaH_get(t, k) = map[k]
  /\ LET n == luaH_getn(t)
     IN (n = 0 \/ luaH_get(t, n) # Nil) /\ (n + 1 \notin Keys \/ luaH_get(t, n + 1) = Nil)
TraversalComplete ==
  /\ cur # Nil => findindex(t, cur) # 0
  /\ luaH_next(t, cur) \notin seen
  /\ cur # Nil /\ luaH_next(t, cur) = Nil => {k \in Keys : map[k] # Nil} \subseteq seen
TableRight == TableIsMap /\ TraversalComplete
=============================================================================
