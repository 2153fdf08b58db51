------------------------------- MODULE LuaTablib -------------------------------
(***************************************************************************)
(* The table library (ltablib.c): insert, remove, move and unpack, element *)
(* by element, and sort, a quicksort that must stay in its table whatever  *)
(* the order function answers.                                             *)
(*                                                                         *)
(* A list is a function from a range of integers, nil where nothing is.    *)
(* Its length is a border of it, any one; metamethods are left out.        *)
(***************************************************************************)
EXTENDS Integers, Sequences, FiniteSets, SequencesExt, FiniteSetsExt

CONSTANTS nil, LUA_MAXINTEGER

Get(a, i) == IF i \in DOMAIN a THEN a[i] ELSE nil
Set(a, i, v) == [j \in DOMAIN a \cup {i} |-> IF j = i THEN v ELSE a[j]]
Borders(a) == {n \in {0} \cup DOMAIN a : n >= 0 /\ (n = 0 \/ Get(a, n) # nil) /\ Get(a, n + 1) = nil}

\* t[i + d] = t[i] for each i of a sequence, one after the other.
Shift(a, is, d) == FoldLeft(LAMBDA c, i : Set(c, i + d, Get(c, i)), a, is)
Up(lo, hi)   == [k \in 1..Max({0, hi - lo + 1}) |-> lo + k - 1]
Down(hi, lo) == Reverse(Up(lo, hi))

tinsert(a, size, pos, v) ==
  IF pos \notin 1..size + 1 THEN [err |-> "position out of bounds", a |-> a]
  ELSE [err |-> "", a |-> Set(Shift(a, Down(size, pos), 1), pos, v)]

\* The field that is removed may be the one behind the list, or field 0 or
\* any other of the size itself.
tremove(a, size, pos) ==
  IF pos # size /\ pos \notin 1..size + 1 THEN [err |-> "position out of bounds", a |-> a, v |-> nil]
  ELSE [err |-> "", v |-> Get(a, pos),
        a |-> Set(Shift(a, Up(pos + 1, size), -1), Max({pos, size}), nil)]

\* Mutant: always upwards.
moved_up(a, f, e, t) == Shift(a, Up(f, e), t - f)
\* Within one table: upwards, unless that would overwrite what is still to be read.
moved(a, f, e, t) ==
  IF t > e \/ t <= f THEN Shift(a, Up(f, e), t - f) ELSE Shift(a, Down(e, f), t - f)
tmove(a, f, e, t) ==
  CASE e < f -> [err |-> "", a |-> a]
    [] e >= f /\ ~(f > 0 \/ e < LUA_MAXINTEGER + f) -> [err |-> "too many elements to move", a |-> a]
    [] e >= f /\ (f > 0 \/ e < LUA_MAXINTEGER + f) /\ t > LUA_MAXINTEGER - (e - f) ->
         [err |-> "destination wrap around", a |-> a]
    [] OTHER -> [err |-> "", a |-> moved(a, f, e, t)]
unpack(a, i, e) == [k \in 1..Max({0, e - i + 1}) |-> Get(a, i + k - 1)]

-----------------------------------------------------------------------------
(* Sort by an order function lt, a set of pairs.  The state of a call is   *)
(* [a, err, out]: out is every index that is used outside of the range     *)
(* that is sorted.                                                         *)

Swap(s, i, j) == [s EXCEPT !.a = [@ EXCEPT ![i] = s.a[j], ![j] = s.a[i]]]
Invalid(s) == [s EXCEPT !.err = "invalid order function for sorting"]
Used(s, i, lo, up) == IF i \in lo..up THEN s ELSE [s EXCEPT !.out = @ \cup {i}]

RECURSIVE above(_, _, _, _, _, _), below(_, _, _, _, _, _, _), partition(_, _, _, _, _, _)
\* The next i that is not smaller than the pivot, and then the next j that is
\* not larger.  The result is [s, p], p the place of the pivot.
above(s, lt, lo, up, i, j) ==
  IF s.out # {} \/ i \notin lo..up THEN [s |-> Used(s, i, lo, up), p |-> lo]
  ELSE IF <<s.a[i], s.a[up - 1]>> \notin lt THEN below(s, lt, lo, up, i, j - 1, s.a[up - 1])
  ELSE IF i = up - 1 THEN [s |-> Invalid(s), p |-> lo]
  ELSE above(s, lt, lo, up, i + 1, j)
below(s, lt, lo, up, i, j, P) ==
  IF j \notin lo..up THEN [s |-> Used(s, j, lo, up), p |-> lo]
  ELSE IF <<P, s.a[j]>> \notin lt
  THEN IF j < i THEN [s |-> Swap(s, up - 1, i), p |-> i]
       ELSE partition(Swap(s, i, j), lt, lo, up, i, j)
  ELSE IF j < i THEN [s |-> Invalid(s), p |-> lo]
  ELSE below(s, lt, lo, up, i, j - 1, P)
partition(s, lt, lo, up, i, j) == above(s, lt, lo, up, i + 1, j)

\* The first, the last and the middle one are put in order; the middle one is
\* the pivot and goes to up - 1.
SwapIf(s, c, i, j) == IF c THEN Swap(s, i, j) ELSE s
ends(s, lt, lo, up) == SwapIf(s, <<s.a[up], s.a[lo]>> \in lt, lo, up)
middle(s, lt, lo, up, p) ==
  IF <<s.a[p], s.a[lo]>> \in lt THEN Swap(s, p, lo) ELSE SwapIf(s, <<s.a[up], s.a[p]>> \in lt, p, up)

RECURSIVE auxsort(_, _, _, _), parts(_, _, _, _)
auxsort(s, lt, lo, up) ==
  LET p == (lo + up) \div 2
      e == ends(s, lt, lo, up)
      m == middle(e, lt, lo, up, p)
  IN IF s.err # "" \/ s.out # {} \/ lo >= up THEN s
     ELSE IF up - lo = 1 THEN e
     ELSE IF up - lo = 2 THEN m
     ELSE parts(partition(Swap(m, p, up - 1), lt, lo, up, lo, up - 1), lt, lo, up)
\* The smaller part first.
parts(r, lt, lo, up) ==
  IF r.p - lo < up - r.p THEN auxsort(auxsort(r.s, lt, lo, r.p - 1), lt, r.p + 1, up)
  ELSE auxsort(auxsort(r.s, lt, r.p + 1, up), lt, lo, r.p - 1)
sort(a, lt) == auxsort([a |-> a, err |-> "", out |-> {}], lt, 1, Len(a))

-----------------------------------------------------------------------------
\* insert, remove and move do to a list what their description says at once,
\* whatever overlaps, for every border that the length may be (tinsert,
\* tremove, tmove).
ListsRight(a, f, e, t) ==
  LET m == tmove(a, f, e, t)
  IN /\ \A n \in Borders(a) :
          LET r == tinsert(a, n, f, "new")
          IN r.err = "" =>
               /\ unpack(r.a, 1, n + 1) = InsertAt(unpack(a, 1, n), f, "new")
               /\ unpack(tremove(r.a, n + 1, f).a, 1, n + 1) = Append(unpack(a, 1, n), nil)
               /\ tremove(r.a, n + 1, f).v = "new"
     /\ m.err = "" /\ f <= e =>
          \A i \in DOMAIN m.a : m.a[i] = Get(a, IF i \in t..t + e - f THEN i - t + f ELSE i)
     /\ m.err # "" => e - f >= LUA_MAXINTEGER \/ t + e - f > LUA_MAXINTEGER

\* Whatever the order function answers, sort stays inside the list and loses
\* nothing; it sorts if the function is an order, and only a function that is
\* none makes it fail (auxsort, partition).
IsWeakOrder(lt, S) ==
  /\ \A x, y \in S : <<x, y>> \in lt => <<y, x>> \notin lt
  /\ \A x, y, z \in S : <<x, z>> \in lt => <<x, y>> \in lt \/ <<y, z>> \in lt
SortRight(a, lt) ==
  LET s == sort(a, lt)
  IN /\ s.out = {} /\ DOMAIN s.a = DOMAIN a /\ ToSet(s.a) = ToSet(a)
     /\ IsWeakOrder(lt, ToSet(a)) =>
          s.err = "" /\ \A i, j \in DOMAIN a : i < j => <<s.a[j], s.a[i]>> \notin lt
=============================================================================
