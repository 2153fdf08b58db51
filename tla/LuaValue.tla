------------------------------ MODULE LuaValue ------------------------------
(***************************************************************************)
(* Values of Lua and the operations on them that the code generator (when  *)
(* it folds constants) and the virtual machine share: lobject.c, lvm.c.    *)
(*                                                                         *)
(* A value is a tuple whose first element is its type.  A string is a      *)
(* sequence of atoms, which is all that concatenation and equality see of  *)
(* it.  Integers have 2*(MaxInteger+1) values and wrap around.  Floats,    *)
(* strings that look like numbers, the order of strings and metatables are *)
(* left out.                                                               *)
(***************************************************************************)
EXTENDS Integers, Sequences, FiniteSets, FiniteSetsExt, SequencesExt, TLC

CONSTANT MaxInteger   \* LUA_MAXINTEGER: 2^(NBITS-1) - 1

ASSUME WidthAssumption == MaxInteger \in {2^n - 1 : n \in 1..30}

Nil     == <<"nil">>
Junk    == <<"junk">>    \* what a stack slot holds before it is first set
Failure == <<"error">>   \* no value: luaG_typeerror, luaG_runerror
Bool(b) == <<"bool", b>>
Num(n)  == <<"int", n>>
Str(s)  == <<"str", s>>
Fun(id) == <<"fun", id>>
Tab(id) == <<"tab", id>>

l_isfalse(v)    == v \in {Nil, Bool(FALSE)}
ttisinteger(v)  == v[1] = "int"
ttisstring(v)   == v[1] = "str"
LUA_MININTEGER  == -MaxInteger - 1
LUA_MAXINTEGER  == MaxInteger
NBITS           == CHOOSE n \in 1..31 : 2^(n - 1) = MaxInteger + 1
Unsigned(n)     == n % (2 * (MaxInteger + 1))
intop(n)        == Unsigned(n + MaxInteger + 1) - MaxInteger - 1   \* wraps around
Bits(n)         == {i \in 0..NBITS - 1 : (Unsigned(n) \div 2^i) % 2 = 1}
FromBits(S)     == intop(MapThenSumSet(LAMBDA i : 2^i, S))

AbsOf(n)        == IF n < 0 THEN -n ELSE n
CQuotient(m, n) == LET q == AbsOf(m) \div AbsOf(n)   \* C rounds to zero
                   IN IF (m < 0) = (n < 0) THEN q ELSE -q
CRemainder(m, n) == m - n * CQuotient(m, n)

\* The divisor -1 is apart because LUA_MININTEGER / -1 overflows.
luaV_div(m, n) ==
  IF n = 0 THEN Failure
  ELSE IF n = -1 THEN Num(intop(-m))
  ELSE LET q == CQuotient(m, n)
       IN Num(IF (m < 0) # (n < 0) /\ CRemainder(m, n) # 0 THEN q - 1 ELSE q)

luaV_mod(m, n) ==
  IF n = 0 THEN Failure
  ELSE IF n = -1 THEN Num(0)
  ELSE LET r == CRemainder(m, n)
       IN Num(IF r # 0 /\ (m < 0) # (n < 0) THEN r + n ELSE r)

luaV_shiftl(x, y) ==
  IF y <= -NBITS \/ y >= NBITS THEN 0
  ELSE IF y < 0 THEN intop(Unsigned(x) \div 2^(-y))
  ELSE intop(Unsigned(x) * 2^y)

intarith(op, m, n) ==
  CASE op = "+"  -> Num(intop(m + n))
    [] op = "-"  -> Num(intop(m - n))
    [] op = "*"  -> Num(intop(m * n))
    [] op = "//" -> luaV_div(m, n)
    [] op = "%"  -> luaV_mod(m, n)
    [] op = "&"  -> Num(FromBits(Bits(m) \cap Bits(n)))
    [] op = "|"  -> Num(FromBits(Bits(m) \cup Bits(n)))
    [] op = "~"  -> Num(FromBits((Bits(m) \cup Bits(n)) \ (Bits(m) \cap Bits(n))))
    [] op = "<<" -> Num(luaV_shiftl(m, n))
    [] op = ">>" -> Num(luaV_shiftl(m, intop(-n)))

luaO_arith(op, v, w) ==
  IF ttisinteger(v) /\ ttisinteger(w) THEN intarith(op, v[2], w[2]) ELSE Failure

\* Unary minus and complement, as 0 - v and -1 ~ v.
UnaryArith(op, v) ==
  IF op = "-" THEN luaO_arith("-", Num(0), v) ELSE luaO_arith("~", Num(-1), v)

luaV_equalobj(v, w) == v = w

\* luaV_lessthan and luaV_lessequal, on integers.
Compare(op, v, w) ==
  IF ~(ttisinteger(v) /\ ttisinteger(w)) THEN Failure
  ELSE Bool(IF op = "<" THEN v[2] < w[2] ELSE v[2] <= w[2])

\* luaO_tostring: a number becomes one atom.
tostring(v) == IF ttisinteger(v) THEN Str(<<ToString(v[2])>>) ELSE v
CanConcat(v) == ttisinteger(v) \/ ttisstring(v)

\* luaV_concat on all its operands.  The loop of lvm.c takes them from the
\* right, two or more at a time; with no metatables its result is the
\* concatenation of all, or a failure if one of them is no string.
luaV_concat(vs) ==
  IF \E i \in DOMAIN vs : ~CanConcat(vs[i]) THEN Failure
  ELSE Str(FoldLeft(LAMBDA acc, v : acc \o tostring(v)[2], <<>>, vs))

\* luaH_getn of a sequence without holes.
luaH_getn(t) == Cardinality({k \in DOMAIN t : ttisinteger(k) /\ k[2] > 0})

\* A table is a function on the keys that are present; storing nil erases.
luaH_get(t, k) == IF k \in DOMAIN t THEN t[k] ELSE Nil
luaH_set(t, k, v) ==
  IF v = Nil THEN [x \in DOMAIN t \ {k} |-> t[x]] ELSE (k :> v) @@ t
=============================================================================
