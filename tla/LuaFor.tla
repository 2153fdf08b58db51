-------------------------------- MODULE LuaFor --------------------------------
(***************************************************************************)
(* The index of an integer loop whose limit is any number (lvm.c:          *)
(* forlimit, OP_FORPREP, OP_FORLOOP).  A limit is an integer, a float or   *)
(* NaN, and is given in halves, which is enough to tell the floor of a     *)
(* float from its ceiling; a float beyond all integers stands for the      *)
(* infinite ones too.  Loops whose index is a float are left out, and so   *)
(* are limits that are strings.                                            *)
(***************************************************************************)
EXTENDS Integers, FiniteSets

CONSTANT LUA_MAXINTEGER
LUA_MININTEGER == -LUA_MAXINTEGER - 1
Intop(n) == ((n - LUA_MININTEGER) % (2 * (LUA_MAXINTEGER + 1))) + LUA_MININTEGER

IntLimit(n)   == [type |-> "integer", halves |-> 2 * n]
FloatLimit(h) == [type |-> "float", halves |-> h]
NaN           == [type |-> "nan", halves |-> 0]

-----------------------------------------------------------------------------
\* A limit that fits in an integer is rounded towards the first index; Fits is
\* lua_numbertointeger.
Rounded(limit, step) ==
  (limit.halves \div 2) + (IF step < 0 /\ limit.halves % 2 = 1 THEN 1 ELSE 0)
Fits(limit, step) ==
  limit.type # "nan" /\ Rounded(limit, step) \in LUA_MININTEGER..LUA_MAXINTEGER

forlimit(limit, step) ==
  IF Fits(limit, step) THEN [p |-> Rounded(limit, step), stopnow |-> FALSE]
  ELSE IF limit.type # "nan" /\ limit.halves > 0 THEN [p |-> LUA_MAXINTEGER, stopnow |-> step < 0]
  ELSE [p |-> LUA_MININTEGER, stopnow |-> step >= 0]

\* What OP_FORPREP leaves in the index, and the indices of the first n times that
\* OP_FORLOOP jumps back.
forprep(init, limit, step) ==
  LET l == forlimit(limit, step)
  IN [idx |-> Intop((IF l.stopnow THEN 0 ELSE init) - step), limit |-> l.p]
forloop(init, limit, step, n) ==
  LET prep == forprep(init, limit, step)
      GoesOn(i) == IF 0 < step THEN i <= prep.limit ELSE prep.limit <= i
      index[k \in 0..n] == IF k = 0 THEN prep.idx ELSE Intop(index[k - 1] + step)
      times == CHOOSE m \in 0..n : /\ \A k \in 1..m : GoesOn(index[k])
                                   /\ m = n \/ ~GoesOn(index[m + 1])
  IN [k \in 1..times |-> index[k]]

-----------------------------------------------------------------------------
\* The loop runs for the index init, init + step, ..., wrapped around, until one is
\* not within the limit as a number, although the limit was clipped and rounded to
\* an integer (forlimit).  Left out: a limit of NaN with a negative step, with which the
\* loop has no limit, and a step of 0, with which a limit below all integers makes the
\* index 0.
ForRight(init, limit, step) ==
  LET n == 2 * (LUA_MAXINTEGER + 1)
      Nth(k) == Intop(init + (k - 1) * step)
      Within(i) == /\ limit.type # "nan"
                   /\ IF step > 0 THEN 2 * i <= limit.halves ELSE limit.halves <= 2 * i
      Runs == {k \in 1..n : \A j \in 1..k : Within(Nth(j))}
  IN (limit = NaN => step > 0) /\ step # 0
       => forloop(init, limit, step, n) = [k \in 1..Cardinality(Runs) |-> Nth(k)]

=============================================================================
